---------------------------- MODULE Transactions ----------------------------
(***************************************************************************)
(* The transactions of Facade.InTx, statement by statement: gRPC handlers, *)
(* event handlers and sweeps run at the same time, wait for each other's   *)
(* row locks, fail to serialize, deadlock, are retried and lose their      *)
(* connection.                                                             *)
(*                                                                         *)
(* PostgreSQL is external.  Of its SERIALIZABLE level the model has what   *)
(* snapshot isolation gives: a transaction reads the snapshot it began     *)
(* with and its own writes, waits for a row another transaction has        *)
(* locked, and fails with 40001 if that row was changed since.  What       *)
(* SERIALIZABLE refuses beyond that is SerializationFailure, which may     *)
(* happen at any time and never has to: what holds here rests on row locks *)
(* and snapshots alone.                                                    *)
(*                                                                         *)
(* L is the specification these transactions implement: one atomic step of *)
(* Ledger for each commit.                                                 *)
(***************************************************************************)
EXTENDS Schema, Sequences

CONSTANTS
    Worker,       \* goroutines, each with one call to run
    Call,         \* the calls that callers, Kafka and the ticker may make
    RequestId, EventId,
    MaxAttempts,  \* maxAttempts of InTx
    Earlier,      \* the rows earlier transactions have left, and
    EarlierEvents,\* the events they have written
    None          \* no call, or no answer

VARIABLES
    db,         \* the committed rows
    outbox,     \* the committed rows of outbox
    due,        \* the holds whose expires_at < now()
    nextEntry,  \* the identity sequence of ledger_entries, never rolled back
    tx,         \* the transaction of each worker, NoTx if it has none
    call,       \* what each worker was called for
    attempt,    \* attempts of InTx that have begun
    resp,       \* the variable its closure captures: resp, or released
    outcome     \* how the call returned: "OK" or the status mapErr gives it

vars == <<db, outbox, due, nextEntry, tx, call, attempt, resp, outcome>>

\* The tables, as rows by key.  Pay(p) is the entry of holds_active_payment_uq
\* for payment p: the hold that occupies it.
Bal(a) == <<"account_balances", a>>
HoldKey(h) == <<"holds", h>>
Pay(p) == <<"holds_active_payment_uq", p>>
Txn(k) == <<"ledger_transactions", k>>
Req(r) == <<"grpc_idempotency", r>>
Ev(e) == <<"processed_events", e>>

Row == {Bal(a) : a \in AccountId} \cup {HoldKey(h) : h \in HoldId} \cup {Pay(p) : p \in Payment}
       \cup {Txn(k) : k \in IdemKey} \cup {Req(r) : r \in RequestId} \cup {Ev(e) : e \in EventId}

\* The calls, with the parameters the closures use.
CallRecord ==
    [method : {"HoldFunds"}, request : RequestId, account : AccountId, payment : Payment,
     amount : Int, currency : Currency]
    \cup [method : {"CaptureFunds"}, request : RequestId, hold : HoldId, amount : Int]
    \cup [method : {"ReleaseFunds"}, request : RequestId, hold : HoldId, reason : Reason]
    \cup [method : {"Sweep"}]
    \cup [method : {"UserRegistered"}, event : EventId, user : User, seed : Int]
    \cup [method : {"PaymentFailed"}, event : EventId, payment : Payment]

\* What the columns can hold.
BalanceRow == [available : 0 .. MaxBigint, held : 0 .. MaxBigint, version : Nat]
TxnRow == [posting : Posting, id : Int]
Response ==
    [method : {"HoldFunds"}, hold : HoldId, availableAfter : Int]
    \cup [method : {"CaptureFunds"}, transaction : IdemKey]
    \cup [method : {"ReleaseFunds"}]

\* Rows that agree with the schema and with each other: the system accounts are
\* there, a hold is on an account that exists and in its currency, and the
\* unique index has exactly the active holds.
Consistent(rows) ==
    /\ DOMAIN rows = Row
    /\ \A a \in AccountId : rows[Bal(a)] \in BalanceRow \cup {NoRow}
    /\ \A a \in SystemAccount : rows[Bal(a)] # NoRow
    /\ \A h \in HoldId : rows[HoldKey(h)] # NoRow =>
            /\ rows[HoldKey(h)] \in HoldRow
            /\ rows[Bal(rows[HoldKey(h)].account)] # NoRow
            /\ rows[HoldKey(h)].currency = AccountCurrency(rows[HoldKey(h)].account)
    /\ \A p \in Payment : rows[Pay(p)] \in HoldId \cup {NoRow}
    /\ \A p \in Payment, h \in HoldId : rows[Pay(p)] = h <=>
            rows[HoldKey(h)] # NoRow /\ rows[HoldKey(h)].payment = p /\ rows[HoldKey(h)].status = "active"
    /\ \A k \in IdemKey : rows[Txn(k)] \in TxnRow \cup {NoRow}
    /\ \A r \in RequestId : rows[Req(r)] \in Response \cup {NoRow}
    /\ \A e \in EventId : rows[Ev(e)] \in {"processed", NoRow}

\* One row, and the rows of f above those of g.
Put(key, value) == [row \in {key} |-> value]
Over(f, g) == [row \in DOMAIN f \cup DOMAIN g |-> IF row \in DOMAIN f THEN f[row] ELSE g[row]]

\* The rows the migration inserts: the balances of the system accounts.
NewBalance == [available |-> 0, held |-> 0, version |-> 0]
Migrated == [row \in Row |-> IF row \in {Bal(a) : a \in SystemAccount} THEN NewBalance ELSE NoRow]

Result == {"OK", "NotFound", "InvalidArgument", "FailedPrecondition", "Internal"}

\* An event_id names one event: a registration or a failed payment.
ASSUME TransactionsAssumption ==
    /\ IsFiniteSet(Worker)
    /\ MaxAttempts \in Nat \ {0}
    /\ Call \subseteq CallRecord
    /\ \A c, d \in Call : c.method = "UserRegistered" /\ d.method = "PaymentFailed" => c.event # d.event
    /\ None \notin CallRecord /\ None \notin Result
    /\ NoRow \notin BalanceRow \cup TxnRow \cup Response \cup HoldId \cup {"processed"}
    /\ \A row \in DOMAIN Earlier : Earlier[row] # NoRow
    /\ Consistent(Over(Earlier, Migrated))
    /\ \A k \in IdemKey : Txn(k) \in DOMAIN Earlier => Earlier[Txn(k)].id < 1

\* Refinement mapping: the tables of Ledger, read off the committed rows.
Column(a, name) == IF db[Bal(a)] = NoRow THEN 0 ELSE db[Bal(a)][name]

L == INSTANCE Ledger WITH
    accounts <- {a \in AccountId : db[Bal(a)] # NoRow},
    available <- [a \in AccountId |-> Column(a, "available")],
    held <- [a \in AccountId |-> Column(a, "held")],
    version <- [a \in AccountId |-> Column(a, "version")],
    holds <- [h \in HoldId |-> db[HoldKey(h)]],
    postings <- [k \in IdemKey |-> IF db[Txn(k)] = NoRow THEN NoRow ELSE db[Txn(k)].posting]

-----------------------------------------------------------------------------
(* Transactions. *)

\* No transaction is open.
NoTx == <<>>

Running(w) == tx[w] # NoTx

\* The statement a transaction executes next; its field rows is what it locks.
Statement(w) == Head(tx[w].todo)

\* The snapshot: the committed rows, but for the ones changed since it was
\* taken, of which tx[w].older has the versions it still shows.
Snapshot(w, row) == IF row \in DOMAIN tx[w].older THEN tx[w].older[row] ELSE db[row]

\* What the transaction sees: its own writes, and the snapshot below them.
View(w, row) == IF row \in DOMAIN tx[w].writes THEN tx[w].writes[row] ELSE Snapshot(w, row)

\* The transactions that w waits for.
Blockers(w) ==
    IF ~ Running(w) \/ tx[w].todo = <<>> THEN {}
    ELSE {v \in Worker \ {w} : Running(v) /\ tx[v].locked \cap Statement(w).rows # {}}

\* Mutant of Conflict: READ COMMITTED in place of SERIALIZABLE.
NoConflict(w) == w \notin Worker

\* A row to be locked or updated was changed after the snapshot: 40001.
Conflict(w) == (Statement(w).rows \ tx[w].locked) \cap DOMAIN tx[w].older # {}

\* A key to be inserted is in a unique index already, whatever the snapshot says.
Duplicate(w) == \E row \in Statement(w).rows : db[row] # NoRow

\* The statement succeeds: rows are written, events added to outbox, and the
\* statements in more come before the ones that were left.
Proceed(w, writes, events, more) ==
    /\ tx' = [tx EXCEPT ![w].todo = more \o Tail(@),
                        ![w].writes = Over(writes, @),
                        ![w].locked = @ \cup Statement(w).rows \cup DOMAIN writes,
                        ![w].emitted = @ \cup events]
    /\ UNCHANGED <<db, outbox, due, call, attempt, outcome>>

\* The closure returns an error, which InTx returns.
Rollback(w, result) ==
    /\ tx' = [tx EXCEPT ![w] = NoTx]
    /\ outcome' = [outcome EXCEPT ![w] = result]
    /\ UNCHANGED <<db, outbox, due, nextEntry, call, attempt, resp>>

\* Mutant of Retry: one attempt too many.
RetryOnceMore(w) ==
    IF attempt[w] <= MaxAttempts
    THEN /\ tx' = [tx EXCEPT ![w] = NoTx]
         /\ UNCHANGED <<db, outbox, due, nextEntry, call, attempt, resp, outcome>>
    ELSE Rollback(w, "Internal")

\* 40001 or 40P01: InTx sleeps and begins again, MaxAttempts times in all.
Retry(w) ==
    IF attempt[w] < MaxAttempts
    THEN /\ tx' = [tx EXCEPT ![w] = NoTx]
         /\ UNCHANGED <<db, outbox, due, nextEntry, call, attempt, resp, outcome>>
    ELSE Rollback(w, "Internal")

\* A unique violation; 40001 if the key was inserted after the snapshot.
Violation(w) ==
    \/ Rollback(w, "Internal")
    \/ Statement(w).rows \cap DOMAIN tx[w].older # {} /\ Retry(w)

-----------------------------------------------------------------------------
(* The statements of the closures, with the rows they lock. *)

LookUp(r) == [op |-> "replay", rows |-> {}, request |-> r]
LockBalance(a) == [op |-> "lockBalance", rows |-> {Bal(a)}]
InsertHold(p) == [op |-> "insertHold", rows |-> {Pay(p)}]
LockHold(h) == [op |-> "lockHold", rows |-> {HoldKey(h)}, hold |-> h]
BumpBalance(a, dAvailable, dHeld) ==
    [op |-> "bump", rows |-> {Bal(a)}, account |-> a, dAvailable |-> dAvailable, dHeld |-> dHeld]
Post(key, posting) == [op |-> "post", rows |-> {Txn(key)}, key |-> key, posting |-> posting]
CloseHold(h, p, status) ==
    [op |-> "close", rows |-> {HoldKey(h), Pay(p)}, hold |-> h, payment |-> p, status |-> status]
Store(r, response) == [op |-> "store", rows |-> {Req(r)}, request |-> r, response |-> response]

\* Mutant of Gate: the event is looked up, and inserted without a unique key.
GateWithoutKey(e) == [op |-> "gate", rows |-> {}, event |-> e]

Gate(e) == [op |-> "gate", rows |-> {Ev(e)}, event |-> e]

OpenAccount == [op |-> "openAccount", rows |-> {}]
FindHold(p) == [op |-> "findHold", rows |-> {}, payment |-> p]
SelectDue == [op |-> "selectDue", rows |-> {}]

\* Facade.Deposit.
DepositSteps(u, a, seed) ==
    <<Post(WelcomeKey(u), [debit |-> Settlement(DefaultCurrency), credit |-> a,
                           amount |-> seed, currency |-> DefaultCurrency]),
      BumpBalance(Settlement(DefaultCurrency), seed, 0),
      BumpBalance(a, seed, 0)>>

\* Facade.Capture, after lockHold.
CaptureSteps(h, row, amt) ==
    <<Post(CaptureKey(h), [debit |-> row.account, credit |-> Payable(row.currency),
                           amount |-> amt, currency |-> row.currency]),
      BumpBalance(row.account, row.amount - amt, -row.amount),
      BumpBalance(Payable(row.currency), amt, 0),
      CloseHold(h, row.payment, "captured")>>

\* Mutant of ReleaseSteps: the hold is closed before the balance is updated.
ReleaseStepsReordered(h, row, reason) ==
    <<CloseHold(h, row.payment, IF reason = "expiry" THEN "expired" ELSE "released"),
      BumpBalance(row.account, row.amount, -row.amount)>>

\* Facade.Release, after lockHold.
ReleaseSteps(h, row, reason) ==
    <<BumpBalance(row.account, row.amount, -row.amount),
      CloseHold(h, row.payment, IF reason = "expiry" THEN "expired" ELSE "released")>>

\* Mutant of Program: no replay in front of the operation.
ProgramWithoutReplay(c) ==
    CASE c.method = "HoldFunds" -> <<LockBalance(c.account)>>
      [] c.method \in {"CaptureFunds", "ReleaseFunds"} -> <<LockHold(c.hold)>>
      [] c.method = "Sweep" -> <<SelectDue>>
      [] OTHER -> <<Gate(c.event)>>

\* How the closures passed to InTx begin: the RPCs, the sweep, consumer.handle.
\* The statements that depend on a row are added once it has been read.
Program(c) ==
    CASE c.method = "HoldFunds" -> <<LookUp(c.request), LockBalance(c.account)>>
      [] c.method \in {"CaptureFunds", "ReleaseFunds"} -> <<LookUp(c.request), LockHold(c.hold)>>
      [] c.method = "Sweep" -> <<SelectDue>>
      [] OTHER -> <<Gate(c.event)>>

\* What the worker does with the hold it has locked, and the events it writes.
AfterLockHold(c, h, row) ==
    CASE c.method = "CaptureFunds" -> CaptureSteps(h, row, c.amount) \o
            <<Store(c.request, [method |-> c.method, transaction |-> CaptureKey(h)])>>
      [] c.method = "ReleaseFunds" -> ReleaseSteps(h, row, c.reason) \o
            <<Store(c.request, [method |-> c.method])>>
      [] c.method = "Sweep" -> ReleaseSteps(h, row, "expiry")
      [] OTHER -> ReleaseSteps(h, row, "compensation")

Events(c, h, row) ==
    CASE c.method = "CaptureFunds" ->
            {Funds("captured", h, row.account, c.amount, "none")} \cup
            {Funds("released", h, row.account, r, "partial_capture_remainder")
                : r \in {row.amount - c.amount} \ {0}}
      [] c.method = "ReleaseFunds" -> {Funds("released", h, row.account, row.amount, c.reason)}
      [] c.method = "Sweep" -> {Funds("released", h, row.account, row.amount, "expiry")}
      [] OTHER -> {Funds("released", h, row.account, row.amount, "compensation")}

\* uuid.New: an id that is in no table and that no caller can have named.
Drawn == UNION {DOMAIN tx[v].writes : v \in {x \in Worker : Running(x)}}
Names(c) ==
    CASE c.method = "HoldFunds" -> {Bal(c.account)}
      [] c.method \in {"CaptureFunds", "ReleaseFunds"} -> {HoldKey(c.hold)}
      [] OTHER -> {}
Fresh(row) ==
    /\ db[row] = NoRow /\ row \notin Drawn
    /\ \A v \in Worker : call[v] # None => row \notin Names(call[v])

-----------------------------------------------------------------------------
(* Steps of a worker. *)

Start(w, c) ==
    /\ call[w] = None
    /\ \A row \in Names(c) : row \in Drawn => db[row] # NoRow
    /\ call' = [call EXCEPT ![w] = c]
    /\ UNCHANGED <<db, outbox, due, nextEntry, tx, attempt, resp, outcome>>

Begin(w) ==
    /\ call[w] # None /\ outcome[w] = None /\ ~ Running(w)
    /\ attempt' = [attempt EXCEPT ![w] = @ + 1]
    /\ tx' = [tx EXCEPT ![w] = [todo |-> Program(call[w]), older |-> <<>>, writes |-> <<>>,
                                locked |-> {}, emitted |-> {}]]
    /\ UNCHANGED <<db, outbox, due, nextEntry, call, resp, outcome>>

Ready(w, op) ==
    /\ Running(w) /\ tx[w].todo # <<>>
    /\ Statement(w).op = op
    /\ Blockers(w) = {}

\* proto.Unmarshal of the stored bytes; another method's make another message.
Decode(row, method) == IF row.method = method THEN row ELSE [foreign |-> method]

\* Mutant of Unmarshal: the bytes are merged into what resp already holds.
Merge(old, row, method) == IF old # None THEN old ELSE Decode(row, method)

\* proto.Unmarshal resets resp: nothing of an aborted attempt remains.
Unmarshal(old, row, method) == Decode(row, method)

\* replay: a hit ends the closure, and the transaction commits without effect.
Replay(w) ==
    /\ Ready(w, "replay")
    /\ LET row == View(w, Req(Statement(w).request)) IN
       IF row = NoRow
       THEN Proceed(w, <<>>, {}, <<>>) /\ UNCHANGED resp
       ELSE /\ resp' = [resp EXCEPT ![w] = Unmarshal(@, row, call[w].method)]
            /\ tx' = [tx EXCEPT ![w].todo = <<>>]
            /\ UNCHANGED <<db, outbox, due, call, attempt, outcome>>
    /\ UNCHANGED nextEntry

\* lockBalance and the checks of Facade.Hold.
LockBalanceStep(w) ==
    /\ Ready(w, "lockBalance")
    /\ LET c == call[w]
           b == View(w, Bal(c.account))
       IN CASE b = NoRow -> Rollback(w, "NotFound")
            [] b # NoRow /\ Conflict(w) -> Retry(w)
            [] OTHER ->
                CASE AccountCurrency(c.account) # c.currency -> Rollback(w, "InvalidArgument")
                  [] AccountCurrency(c.account) = c.currency /\ b.available < c.amount ->
                        Rollback(w, "FailedPrecondition")
                  [] OTHER -> /\ Proceed(w, <<>>, {}, <<InsertHold(c.payment)>>)
                              /\ UNCHANGED <<nextEntry, resp>>

\* The insert into holds, under an id drawn for it, and what is left to do.
InsertHoldStep(w) ==
    /\ Ready(w, "insertHold")
    /\ LET c == call[w] IN
       CASE c.amount <= 0 -> Rollback(w, "Internal")
         [] c.amount > 0 /\ Duplicate(w) -> Violation(w)
         [] OTHER -> \E h \in HoldId :
                /\ Fresh(HoldKey(h))
                /\ Proceed(w,
                    Over(Put(Pay(c.payment), h),
                         Put(HoldKey(h), [account |-> c.account, payment |-> c.payment, amount |-> c.amount,
                                          currency |-> c.currency, status |-> "active"])),
                    {Funds("held", h, c.account, c.amount, "none")},
                    <<BumpBalance(c.account, -c.amount, c.amount),
                      Store(c.request, [method |-> c.method, hold |-> h,
                        availableAfter |-> View(w, Bal(c.account)).available - c.amount])>>)
                /\ UNCHANGED <<nextEntry, resp>>

\* lockHold and the checks of Capture and Release.
LockHoldStep(w) ==
    /\ Ready(w, "lockHold")
    /\ LET c == call[w]
           h == Statement(w).hold
           row == View(w, HoldKey(h))
       IN CASE row = NoRow -> Rollback(w, "NotFound")
            [] row # NoRow /\ Conflict(w) -> Retry(w)
            [] OTHER ->
                CASE row.status # "active" -> Rollback(w, "FailedPrecondition")
                  [] row.status = "active" /\ c.method = "CaptureFunds"
                        /\ c.amount \notin 1 .. row.amount -> Rollback(w, "InvalidArgument")
                  [] OTHER -> /\ Proceed(w, <<>>, Events(c, h, row), AfterLockHold(c, h, row))
                              /\ UNCHANGED <<nextEntry, resp>>

\* bumpBalance, with the CHECKs of account_balances and the range of bigint.
BumpStep(w) ==
    /\ Ready(w, "bump")
    /\ LET s == Statement(w)
           b == View(w, Bal(s.account))
           new == [available |-> b.available + s.dAvailable, held |-> b.held + s.dHeld,
                   version |-> b.version + 1]
       IN CASE Conflict(w) -> Retry(w)
            [] ~ Conflict(w) /\ {new.available, new.held} \subseteq 0 .. MaxBigint ->
                    Proceed(w, Put(Bal(s.account), new), {}, <<>>) /\ UNCHANGED <<nextEntry, resp>>
            [] OTHER -> Rollback(w, "Internal")

\* post: the entries take the next ids of the sequence.
PostStep(w) ==
    /\ Ready(w, "post")
    /\ IF Duplicate(w) THEN Violation(w)
       ELSE /\ Proceed(w, Put(Txn(Statement(w).key),
                            [posting |-> Statement(w).posting, id |-> nextEntry]), {}, <<>>)
            /\ nextEntry' = nextEntry + 1
            /\ UNCHANGED resp

\* "update holds set status": frees the payment.  The sweep counts the release.
CloseStep(w) ==
    /\ Ready(w, "close")
    /\ LET s == Statement(w) IN
       Proceed(w, Over(Put(Pay(s.payment), NoRow),
                       Put(HoldKey(s.hold), [View(w, HoldKey(s.hold)) EXCEPT !.status = s.status])), {}, <<>>)
    /\ resp' = IF call[w].method = "Sweep" THEN [resp EXCEPT ![w].released = @ + 1] ELSE resp
    /\ UNCHANGED nextEntry

\* The Violation of store, with None for a call that is tried again.
StoreFails(w, result) ==
    /\ result = None => attempt[w] < MaxAttempts /\ Statement(w).rows \cap DOMAIN tx[w].older # {}
    /\ tx' = [tx EXCEPT ![w] = NoTx]
    /\ outcome' = [outcome EXCEPT ![w] = result]
    /\ UNCHANGED <<db, outbox, due, call, attempt>>

\* resp is filled in, and then stored.
StoreStep(w) ==
    /\ Ready(w, "store")
    /\ resp' = [resp EXCEPT ![w] = Statement(w).response]
    /\ IF Duplicate(w) THEN \E result \in {"Internal", None} : StoreFails(w, result)
       ELSE Proceed(w, Put(Req(Statement(w).request), Statement(w).response), {}, <<>>)
    /\ UNCHANGED nextEntry

\* The gate of consumer.handle: "on conflict do nothing" is 40001 if the event
\* was processed after the snapshot, and the end of the closure otherwise.
GateStep(w) ==
    /\ Ready(w, "gate")
    /\ LET c == call[w] IN
       CASE Conflict(w) -> Retry(w)
         [] ~ Conflict(w) /\ Duplicate(w) -> Proceed(w, <<>>, {}, <<>>) /\ UNCHANGED <<nextEntry, resp>>
         [] OTHER ->
                /\ Proceed(w, Put(Ev(c.event), "processed"), {},
                        <<IF c.method = "UserRegistered" THEN OpenAccount ELSE FindHold(c.payment)>>)
                /\ UNCHANGED <<nextEntry, resp>>

\* onUserRegistered: accounts and account_balances, then the welcome deposit.
OpenAccountStep(w) ==
    /\ Ready(w, "openAccount")
    /\ \E a \in UserAccount :
        /\ Fresh(Bal(a))
        /\ Proceed(w, Put(Bal(a), NewBalance), {},
                IF call[w].seed > 0 THEN DepositSteps(call[w].user, a, call[w].seed) ELSE <<>>)
    /\ UNCHANGED <<nextEntry, resp>>

\* Mutant of FindHoldStep: "for update skip locked", as the sweep has it.
FindUnlockedHold(w) ==
    /\ Ready(w, "findHold")
    /\ LET h == View(w, Pay(Statement(w).payment)) IN
       Proceed(w, <<>>, {}, IF h = NoRow \/ \E v \in Worker : Running(v) /\ HoldKey(h) \in tx[v].locked
                            THEN <<>> ELSE <<LockHold(h)>>)
    /\ UNCHANGED <<nextEntry, resp>>

\* The select of ReleaseByPayment; the row it finds is locked by LockHoldStep.
FindHoldStep(w) ==
    /\ Ready(w, "findHold")
    /\ LET h == View(w, Pay(Statement(w).payment)) IN
       Proceed(w, <<>>, {}, IF h = NoRow THEN <<>> ELSE <<LockHold(h)>>)
    /\ UNCHANGED <<nextEntry, resp>>

\* "released = 0 // reset on retry".
SweepReset(w) == [released |-> 0]

\* The select of SweepExpiredHolds: rows locked by others are skipped, and the
\* holds of the batch are then released one by one.  A 40001 of the select is
\* not seen, as nobody asks rows.Err: the error InTx gets is that of the next
\* statement or of the commit in a transaction that has failed, and final.
SelectDueStep(w) ==
    /\ Ready(w, "selectDue")
    /\ LET free == {h \in due : /\ View(w, HoldKey(h)) # NoRow
                                /\ View(w, HoldKey(h)).status = "active"
                                /\ \A v \in Worker : Running(v) => HoldKey(h) \notin tx[v].locked}
           size == IF Cardinality(free) < SweepLimit THEN Cardinality(free) ELSE SweepLimit
       IN \E D \in SUBSET free :
            /\ Cardinality(D) = size
            /\ IF \E h \in D : HoldKey(h) \in DOMAIN tx[w].older
               THEN Rollback(w, "Internal")
               ELSE \E order \in Bijection(1 .. size, D) :
                    /\ tx' = [tx EXCEPT ![w].todo = [i \in 1 .. size |-> LockHold(order[i])],
                                        ![w].locked = {HoldKey(h) : h \in D}]
                    /\ resp' = [resp EXCEPT ![w] = SweepReset(w)]
                    /\ UNCHANGED <<db, outbox, due, nextEntry, call, attempt, outcome>>

\* COMMIT.  The answer of the server may get lost: the caller is then told
\* "ledger operation failed" about a transaction that has committed.
Commit(w, result) ==
    /\ Running(w) /\ tx[w].todo = <<>>
    /\ db' = Over(tx[w].writes, db)
    /\ outbox' = outbox \cup tx[w].emitted
    /\ tx' = [v \in Worker |->
            IF v = w THEN NoTx
            ELSE IF ~ Running(v) THEN tx[v]
            ELSE [tx[v] EXCEPT !.older = Over(@, [row \in DOMAIN tx[w].writes |-> db[row]])]]
    /\ outcome' = [outcome EXCEPT ![w] = result]
    /\ UNCHANGED <<due, nextEntry, call, attempt, resp>>

Step(w) ==
    \/ Begin(w)
    \/ Replay(w)
    \/ LockBalanceStep(w)
    \/ InsertHoldStep(w)
    \/ LockHoldStep(w)
    \/ BumpStep(w)
    \/ PostStep(w)
    \/ CloseStep(w)
    \/ StoreStep(w)
    \/ GateStep(w)
    \/ OpenAccountStep(w)
    \/ FindHoldStep(w)
    \/ SelectDueStep(w)
    \/ Commit(w, "OK")

-----------------------------------------------------------------------------
(* What PostgreSQL and the network do to a transaction. *)

\* A dangerous structure of SSI, or any other reason to answer 40001, but to
\* the select of the sweep: see SelectDueStep, and ConnectionLost.
SerializationFailure(w) ==
    /\ Running(w) /\ (tx[w].todo # <<>> => Statement(w).op # "selectDue")
    /\ Retry(w)

\* The connection or the process is lost, or the caller's context is done.
ConnectionLost(w) == Running(w) /\ Rollback(w, "Internal")

\* w waits for v, directly or through others: v is in every set that has the
\* blockers of w and, with a transaction, its blockers.
Waits(w, v) == \A S \in SUBSET Worker :
    Blockers(w) \subseteq S /\ (\A x \in S : Blockers(x) \subseteq S) => v \in S

\* 40P01: PostgreSQL ends one of the transactions that wait in a cycle.
DeadlockDetected(w) == Blockers(w) # {} /\ Waits(w, w) /\ Retry(w)

\* The clock passes expires_at of an active hold.
PassExpiry(h) ==
    /\ db[HoldKey(h)] # NoRow /\ h \notin due
    /\ db[HoldKey(h)].status = "active"
    /\ due' = due \cup {h}
    /\ UNCHANGED <<db, outbox, nextEntry, tx, call, attempt, resp, outcome>>

-----------------------------------------------------------------------------

Init ==
    /\ db = Over(Earlier, Migrated)
    /\ outbox = EarlierEvents
    /\ due = {}
    /\ nextEntry = 1
    /\ tx = [w \in Worker |-> NoTx]
    /\ call = [w \in Worker |-> None]
    /\ attempt = [w \in Worker |-> 0]
    /\ resp = [w \in Worker |-> None]
    /\ outcome = [w \in Worker |-> None]

Next ==
    \/ \E w \in Worker, c \in Call : Start(w, c)
    \/ \E w \in Worker : Step(w)
    \/ \E w \in Worker : Commit(w, "Internal")
    \/ \E w \in Worker : SerializationFailure(w)
    \/ \E w \in Worker : ConnectionLost(w)
    \/ \E w \in Worker : DeadlockDetected(w)
    \/ \E h \in HoldId : PassExpiry(h)

Spec == Init /\ [][Next]_vars

-----------------------------------------------------------------------------
(* Properties. *)

\* InTx makes at most MaxAttempts attempts, has no transaction open once it has
\* returned, and no row is locked by two transactions.
TransactionsTypeOK ==
    /\ DOMAIN db = Row
    /\ attempt \in [Worker -> 0 .. MaxAttempts]
    /\ outcome \in [Worker -> Result \cup {None}]
    /\ \A w \in Worker : Running(w) => call[w] # None /\ outcome[w] = None
    /\ \A v, w \in Worker : v # w /\ Running(v) /\ Running(w) => tx[v].locked \cap tx[w].locked = {}

\* The step of Ledger that a call stands for.
Operation(c) ==
    CASE c.method = "HoldFunds" -> \E h \in HoldId : L!Hold(h, c.account, c.payment, c.amount, c.currency)
      [] c.method = "CaptureFunds" -> L!Capture(c.hold, c.amount)
      [] c.method = "ReleaseFunds" -> L!Release(c.hold, c.reason)
      [] c.method = "Sweep" -> L!SweepExpiredHolds
      [] c.method = "PaymentFailed" -> L!ReleaseByPayment(c.payment, "compensation")
      [] c.method = "UserRegistered" -> \E a \in UserAccount : L!OnUserRegistered(c.user, a, c.seed)

\* Serializable in effect: whatever the interleaving of statements, each commit
\* is the step of Ledger its call stands for, applied to the tables as they are
\* then, or changes nothing in them.  No funds are reserved twice, no hold is
\* settled twice, no update is lost (lockBalance, lockHold, bumpBalance, the
\* unique indexes).
ImplementsLedger == [][
    \/ UNCHANGED <<db, outbox, due>>
    \/ \E w \in Worker : Running(w) /\ tx'[w] = NoTx /\ Operation(call[w])
    \/ \E h \in HoldId : L!PassExpiry(h)]_(L!vars)

\* A call that returns OK has told the truth, after any number of attempts and
\* beside any number of copies of it: an RPC returns what grpc_idempotency has
\* for its request_id, a hold's available_after is the balance it committed, and
\* a sweep reports as many holds as it has expired.
AnswersAreTrue == [][\A w \in Worker :
    outcome[w] = None /\ outcome'[w] = "OK" =>
        LET c == call[w] IN
        /\ c.method \in {"HoldFunds", "CaptureFunds", "ReleaseFunds"} =>
            /\ db'[Req(c.request)] # NoRow
            /\ resp'[w] = Decode(db'[Req(c.request)], c.method)
        /\ c.method = "HoldFunds" /\ db[Req(c.request)] = NoRow =>
            resp'[w].availableAfter = db'[Bal(c.account)].available
        /\ c.method = "Sweep" =>
            resp'[w].released = Cardinality({h \in HoldId : db'[HoldKey(h)] # db[HoldKey(h)]})]_vars

\* An error other than Internal is definite: no other copy of the request that
\* ran before or at the same time has had an effect.  FailedPrecondition about a
\* hold that the request itself has captured would make its caller compensate a
\* payment that went through.  A request_id used for two requests is excepted.
Copies(w) == {v \in Worker : call[v] # None /\ "request" \in DOMAIN call[v]
                             /\ call[v].request = call[w].request}

DefiniteErrors == [][\A w \in Worker :
    /\ outcome[w] = None /\ outcome'[w] \in {"NotFound", "InvalidArgument", "FailedPrecondition"}
    /\ "request" \in DOMAIN call[w]
    /\ \A v \in Copies(w) : call[v] = call[w]
    => db[Req(call[w].request)] = NoRow]_vars

\* A compensation leaves no hold of its payment behind that was there when it
\* began: what is active beside its committed event was placed after its
\* snapshot was taken.  ReleaseByPayment returns without an error if it finds no
\* hold, so that nothing else would tell; SERIALIZABLE does not refuse the pair,
\* which has a serial order, the compensation first.
MissesOnlyNewer == [][\A w \in Worker, h \in HoldId :
    /\ Running(w) /\ tx'[w] = NoTx /\ call[w].method = "PaymentFailed"
    /\ db[Ev(call[w].event)] = NoRow /\ db'[Ev(call[w].event)] # NoRow
    /\ db'[HoldKey(h)] # NoRow
    /\ db'[HoldKey(h)].payment = call[w].payment /\ db'[HoldKey(h)].status = "active"
    => Snapshot(w, HoldKey(h)) = NoRow]_vars

\* Only the sweep, which works on several holds in one transaction, can be part
\* of a deadlock: all other transactions take their locks in the same order
\* (hold, balance, system account's balance, payment, request).
DeadlocksNeedSweep == \A w \in Worker : Blockers(w) # {} /\ Waits(w, w) =>
    \E v \in Worker : Waits(w, v) /\ Waits(v, w) /\ call[v].method = "Sweep"

\* The entries of an account become visible in the order of their ids: an id is
\* drawn before the balance is locked, but a transaction that was overtaken on
\* the balance fails and draws a new one.  This is what lets listEntries use
\* the id as its cursor.
EntriesInOrder == [][\A j, k \in IdemKey :
    LET accountsOf(p) == {p.posting.debit, p.posting.credit} IN
    /\ db[Txn(j)] # NoRow /\ db[Txn(k)] = NoRow /\ db'[Txn(k)] # NoRow
    /\ accountsOf(db[Txn(j)]) \cap accountsOf(db'[Txn(k)]) # {}
    => db[Txn(j)].id < db'[Txn(k)].id]_vars

\* An event delivered to two consumers at the same time opens one account: the
\* gate of handle waits for the other transaction and then finds its row.
RegistrationsOnce ==
    LET handled == {call[w].event : w \in {v \in Worker : call[v] # None /\ call[v].method = "UserRegistered"}}
        new(row) == row \notin DOMAIN Earlier /\ db[row] # NoRow
    IN  Cardinality({a \in UserAccount : new(Bal(a))}) = Cardinality({e \in handled : new(Ev(e))})
=============================================================================
