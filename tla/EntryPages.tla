----------------------------- MODULE EntryPages -----------------------------
(***************************************************************************)
(* GET /accounts/{id}/entries (httpapi.listEntries): clients read the      *)
(* entries of an account page by page, newest first, while transactions    *)
(* add entries.  Ids come from a sequence all accounts share, so that the  *)
(* ids of one account have gaps.                                           *)
(***************************************************************************)
EXTENDS Integers, FiniteSets, FiniteSetsExt

CONSTANTS
    Client,
    PageLimit,   \* "limit 50"
    MaxId        \* bound on entry ids

ASSUME PagesAssumption == PageLimit \in Nat \ {0} /\ MaxId \in Nat

\* The cursor of a client that has none: 1<<62 - 1, above every id.
Start == MaxId + 1

\* next_cursor = "": there are no more pages.
End == 0

VARIABLES
    entries,   \* ids of the committed entries of the account
    cursor,    \* next_cursor, as each client has it
    seen,      \* the entries each client was shown
    twice,     \* history: the entries it was shown more than once
    newest,    \* history: the newest entry when the first page was read
    cut        \* history: the connection was lost in the middle of a page

vars == <<entries, cursor, seen, twice, newest, cut>>

PagesTypeOK ==
    /\ entries \subseteq 1 .. MaxId
    /\ cursor \in [Client -> End .. Start]
    /\ seen \in [Client -> SUBSET entries]
    /\ twice \in [Client -> SUBSET entries]
    /\ newest \in [Client -> 0 .. MaxId]
    /\ cut \in [Client -> BOOLEAN]

Init ==
    /\ entries = {}
    /\ cursor = [c \in Client |-> Start]
    /\ seen = [c \in Client |-> {}]
    /\ twice = [c \in Client |-> {}]
    /\ newest = [c \in Client |-> 0]
    /\ cut = [c \in Client |-> FALSE]

\* The entries of an account become visible in the order of their ids: this is
\* EntriesInOrder of module Transactions.
Later(i) == \A j \in entries : j < i

Commit(i) ==
    /\ Later(i)
    /\ entries' = entries \cup {i}
    /\ UNCHANGED <<cursor, seen, twice, newest, cut>>

\* The n greatest elements of S.
Newest(S, n) == {i \in S : Cardinality({j \in S : j > i}) < n}

\* "e.id < $2".
Below(c) == {i \in entries : i < cursor[c]}

\* Mutant of NextCursor: the cursor of the page the client has already.
NextCursorFirst(page) == IF Cardinality(page) = PageLimit THEN Max(page) + 1 ELSE End

\* Mutant of NextCursor: a full page is taken for the last one.
NextCursorEarly(page) == IF Cardinality(page) > PageLimit THEN Min(page) ELSE End

\* next: the last id of a full page.
NextCursor(page) == IF Cardinality(page) = PageLimit THEN Min(page) ELSE End

Show(c, page) ==
    /\ seen' = [seen EXCEPT ![c] = @ \cup page]
    /\ twice' = [twice EXCEPT ![c] = @ \cup (page \cap seen[c])]
    /\ newest' = [newest EXCEPT ![c] = IF cursor[c] = Start THEN Max(entries \cup {0}) ELSE @]
    /\ cursor' = [cursor EXCEPT ![c] = NextCursor(page)]
    /\ UNCHANGED entries

\* One request with the client's cursor.
ListEntries(c) ==
    /\ cursor[c] # End
    /\ Show(c, Newest(Below(c), PageLimit))
    /\ UNCHANGED cut

\* The connection to PostgreSQL is lost after n rows.  rows.Next returns FALSE
\* as at the end, rows.Err is not asked, and the rows so far are the answer.
ListEntriesCut(c) ==
    /\ cursor[c] # End
    /\ \E n \in 0 .. Cardinality(Newest(Below(c), PageLimit)) - 1 : Show(c, Newest(Below(c), n))
    /\ cut' = [cut EXCEPT ![c] = TRUE]

\* A client that has reached the end begins anew.
Restart(c) ==
    /\ cursor[c] = End
    /\ cursor' = [cursor EXCEPT ![c] = Start]
    /\ seen' = [seen EXCEPT ![c] = {}]
    /\ twice' = [twice EXCEPT ![c] = {}]
    /\ cut' = [cut EXCEPT ![c] = FALSE]
    /\ newest' = [newest EXCEPT ![c] = 0]
    /\ UNCHANGED entries

Next ==
    \/ \E i \in 1 .. MaxId : Commit(i)
    \/ \E c \in Client : ListEntries(c)
    \/ \E c \in Client : ListEntriesCut(c)
    \/ \E c \in Client : Restart(c)

Spec == Init /\ [][Next]_vars

\* A client asks for the next page until there is none.
Fairness == \A c \in Client : WF_vars(ListEntries(c))

LiveSpec == Spec /\ Fairness

-----------------------------------------------------------------------------
(* Properties. *)

\* No entry is shown on two pages, whatever is committed between them.
NothingTwice == \A c \in Client : twice[c] = {}

\* The client has the history of the account without holes, as far as it was
\* committed when it asked for the first page.
Complete(c) == \A i \in entries : i <= newest[c] => i \in seen[c]

\* "GET /accounts/{id}/entries (cursor-paginated)" (README.md:13): when there is
\* no next_cursor, the pages together are complete.
PagesComplete == \A c \in Client : cursor[c] = End => Complete(c)

\* Only a connection that was lost in the middle of a page makes pages that end
\* too early: the boundaries of full pages, an account whose entries fill them
\* exactly, and entries committed between the pages do not.
CompleteUnlessCut == \A c \in Client : cursor[c] = End => cut[c] \/ Complete(c)

\* Reading page after page comes to an end, although entries are added.
ReadingEnds == \A c \in Client : cursor[c] # Start ~> cursor[c] = End

\* A client that is still reading has all entries from its cursor up to the
\* newest there was at the first page, and none below the cursor.
ReadFromTop == \A c \in Client :
    /\ \A i \in seen[c] : cursor[c] <= i
    /\ newest[c] \in entries \cup {0}
    /\ cut[c] \/ \A i \in entries : cursor[c] <= i /\ i <= newest[c] => i \in seen[c]

\* What a client reads from listEntries is the history of the account, each
\* entry once.
PagesInv == PagesTypeOK /\ NothingTwice /\ CompleteUnlessCut /\ ReadFromTop
=============================================================================
