------------------------------ MODULE Postings ------------------------------
(***************************************************************************)
(* ValidateBalanced (internal/ledger/validate.go), the check every posting *)
(* passes before post writes a row: one step per entry of its loop, with   *)
(* the running sums kept in machine integers that wrap around.             *)
(***************************************************************************)
EXTENDS Integers, Sequences

CONSTANTS
    Currency,   \* currencies entries name
    Half,       \* int64 ranges over -Half .. Half - 1 (2^63 in the program)
    Amount,     \* amounts of entries, the refused ones included
    MaxLegs     \* bound: entries of a posting

Direction == {"debit", "credit", "other"}
Entry == [direction : Direction, amount : Amount, currency : Currency]

ASSUME PostingsAssumption ==
    /\ Half \in Nat \ {0}
    /\ Amount \subseteq -Half .. Half - 1
    /\ MaxLegs \in Nat

VARIABLES
    entries,   \* the entries the loop has looked at
    sums,      \* the map sums
    verdict,   \* "scanning", then what ValidateBalanced returns
    debits,    \* history: the true sum of the debits in each currency
    credits    \* history: the true sum of the credits in each currency

vars == <<entries, sums, verdict, debits, credits>>

PostingsTypeOK ==
    /\ entries \in Seq(Entry) /\ Len(entries) <= MaxLegs
    /\ sums \in [Currency -> -Half .. Half - 1]
    /\ verdict \in {"scanning", "accepted", "refused"}
    /\ debits \in [Currency -> Nat] /\ credits \in [Currency -> Nat]

Init ==
    /\ entries = <<>>
    /\ sums = [cur \in Currency |-> 0]
    /\ verdict = "scanning"
    /\ debits = [cur \in Currency |-> 0] /\ credits = [cur \in Currency |-> 0]

-----------------------------------------------------------------------------

\* The int64 result of an addition or subtraction whose exact result is x.
Wrap(x) == IF x >= Half THEN x - 2 * Half ELSE IF x < -Half THEN x + 2 * Half ELSE x

\* Mutant of Positive: any amount is as good as another.
AnyAmount(e) == e.amount \in Amount

Positive(e) == e.amount > 0

\* One iteration: an amount that is not positive or a direction that is not
\* known ends the loop with an error.
Refuse(e) ==
    /\ ~ Positive(e) \/ e.direction = "other"
    /\ verdict' = "refused"
    /\ UNCHANGED <<sums, debits, credits>>

Debit(e) ==
    /\ Positive(e) /\ e.direction = "debit"
    /\ sums' = [sums EXCEPT ![e.currency] = Wrap(@ + e.amount)]
    /\ debits' = [debits EXCEPT ![e.currency] = @ + e.amount]
    /\ UNCHANGED <<verdict, credits>>

Credit(e) ==
    /\ Positive(e) /\ e.direction = "credit"
    /\ sums' = [sums EXCEPT ![e.currency] = Wrap(@ - e.amount)]
    /\ credits' = [credits EXCEPT ![e.currency] = @ + e.amount]
    /\ UNCHANGED <<verdict, debits>>

Scan(e) ==
    /\ verdict = "scanning" /\ Len(entries) < MaxLegs
    /\ entries' = Append(entries, e)
    /\ Refuse(e) \/ Debit(e) \/ Credit(e)

\* Mutant of Finish: one currency that balances is enough.
FinishSomeCurrency ==
    /\ verdict = "scanning"
    /\ verdict' = IF Len(entries) >= 2 /\ \E cur \in Currency : sums[cur] = 0
                  THEN "accepted" ELSE "refused"
    /\ UNCHANGED <<entries, sums, debits, credits>>

\* After the last entry: a posting of fewer than two is refused (the code looks
\* at the length first, with the same verdict), and so is one with a currency
\* whose sum is not zero.
Finish ==
    /\ verdict = "scanning"
    /\ verdict' = IF Len(entries) >= 2 /\ \A cur \in Currency : sums[cur] = 0
                  THEN "accepted" ELSE "refused"
    /\ UNCHANGED <<entries, sums, debits, credits>>

Next == (\E e \in Entry : Scan(e)) \/ Finish

Spec == Init /\ [][Next]_vars

-----------------------------------------------------------------------------
(* Properties. *)

\* Wrapping around is the only way a posting gets past the check unbalanced: the
\* sums are off by a multiple of 2^64, so an accepted posting whose debits and
\* credits differ by less than that in each currency balances.
BalancedUnlessWrapped ==
    /\ \A cur \in Currency : (debits[cur] - credits[cur] - sums[cur]) % (2 * Half) = 0
    /\ verdict = "accepted" => \A cur \in Currency :
            debits[cur] - credits[cur] \in 1 - 2 * Half .. 2 * Half - 1 => debits[cur] = credits[cur]

\* Of two entries, which is what Capture and Deposit post, exactly the pairs of a
\* debit and a credit of the same positive amount and currency are accepted, up
\* to the largest amount a bigint holds.
Pair(d, c) == /\ d.direction = "debit" /\ c.direction = "credit"
              /\ d.amount > 0 /\ d.amount = c.amount /\ d.currency = c.currency

TwoLegsExact == Len(entries) = 2 /\ verdict # "scanning" =>
    (verdict = "accepted" <=> Pair(entries[1], entries[2]) \/ Pair(entries[2], entries[1]))
=============================================================================
