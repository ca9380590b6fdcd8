------------------------- MODULE TransactionsProofs -------------------------
(***************************************************************************)
(* Theorems about Transactions, for any number of workers, calls, rows and *)
(* attempts.  The inductive invariant says, for each open transaction, how *)
(* far its closure has come and what it has written by then, as a function *)
(* of the committed versions of the rows it has locked: no other           *)
(* transaction can change these.                                           *)
(***************************************************************************)
EXTENDS Transactions, Sums

HIDE TransactionsAssumption

-----------------------------------------------------------------------------
(* How far a transaction has come.  x is a transaction as its worker sees  *)
(* it: what is left to do, what it has written, locked and emitted, the    *)
(* captured variable, and the committed versions of the locked rows.       *)

Progress(w) ==
    [todo |-> tx[w].todo, writes |-> tx[w].writes, locked |-> tx[w].locked,
     emitted |-> tx[w].emitted, resp |-> resp[w], base |-> [row \in tx[w].locked |-> db[row]]]

Rpc == {"HoldFunds", "CaptureFunds", "ReleaseFunds"}

\* A balance after one bumpBalance.
Bumped(b, dAvailable, dHeld) ==
    [available |-> b.available + dAvailable, held |-> b.held + dHeld, version |-> b.version + 1]

Untouched(x) == DOMAIN x.writes = {} /\ x.emitted = {}

\* The snapshot has been taken.
Begun(c, x) == x.todo = Program(c) /\ Untouched(x) /\ x.locked = {}

\* replay found nothing.
Missed(c, x) ==
    /\ c.method \in Rpc
    /\ x.todo = IF c.method = "HoldFunds" THEN <<LockBalance(c.account)>> ELSE <<LockHold(c.hold)>>
    /\ Untouched(x) /\ x.locked = {}

\* replay found the stored answer.
Hit(c, x) == c.method \in Rpc /\ x.todo = <<>> /\ Untouched(x) /\ x.locked = {}

-----------------------------------------------------------------------------
(* HoldFunds. *)

HoldAnswer(c, x, h) ==
    [method |-> c.method, hold |-> h, availableAfter |-> x.base[Bal(c.account)].available - c.amount]

Affordable(c, x) ==
    /\ x.base[Bal(c.account)] \in BalanceRow
    /\ AccountCurrency(c.account) = c.currency
    /\ x.base[Bal(c.account)].available >= c.amount

HoldChecked(c, x) ==
    /\ x.todo = <<InsertHold(c.payment)>>
    /\ Untouched(x) /\ x.locked = {Bal(c.account)}
    /\ Affordable(c, x)

HoldRows(c, h) == {Pay(c.payment), HoldKey(h)}

Inserted(c, x, h) ==
    /\ Affordable(c, x) /\ c.amount > 0
    /\ x.base[HoldKey(h)] = NoRow /\ x.base[Pay(c.payment)] = NoRow
    /\ x.writes[Pay(c.payment)] = h
    /\ x.writes[HoldKey(h)] = [account |-> c.account, payment |-> c.payment, amount |-> c.amount,
                               currency |-> c.currency, status |-> "active"]
    /\ x.emitted = {Funds("held", h, c.account, c.amount, "none")}

HoldInserted(c, x, h) ==
    /\ DOMAIN x.writes = HoldRows(c, h) /\ x.locked = HoldRows(c, h) \cup {Bal(c.account)}
    /\ Inserted(c, x, h)
    /\ x.todo = <<BumpBalance(c.account, -c.amount, c.amount), Store(c.request, HoldAnswer(c, x, h))>>

Reserves(c, x) ==
    /\ x.writes[Bal(c.account)] = Bumped(x.base[Bal(c.account)], -c.amount, c.amount)
    /\ x.writes[Bal(c.account)] \in BalanceRow

HoldBumped(c, x, h) ==
    /\ DOMAIN x.writes = HoldRows(c, h) \cup {Bal(c.account)} /\ x.locked = DOMAIN x.writes
    /\ Inserted(c, x, h) /\ Reserves(c, x)
    /\ x.todo = <<Store(c.request, HoldAnswer(c, x, h))>>

\* The answer is stored, and is what the caller will be told.
Stored(c, x, answer) ==
    /\ x.todo = <<>>
    /\ x.base[Req(c.request)] = NoRow
    /\ x.writes[Req(c.request)] = answer
    /\ x.resp = answer

HoldStored(c, x, h) ==
    /\ DOMAIN x.writes = HoldRows(c, h) \cup {Bal(c.account), Req(c.request)} /\ x.locked = DOMAIN x.writes
    /\ Inserted(c, x, h) /\ Reserves(c, x) /\ Stored(c, x, HoldAnswer(c, x, h))

HoldStage(c, x) ==
    /\ c.method = "HoldFunds"
    /\ \/ HoldChecked(c, x)
       \/ \E h \in HoldId : HoldInserted(c, x, h) \/ HoldBumped(c, x, h) \/ HoldStored(c, x, h)

-----------------------------------------------------------------------------
(* CaptureFunds. *)

Locked(x, h) == x.base[HoldKey(h)] \in HoldRow /\ x.base[HoldKey(h)].status = "active"

CaptureAnswer(c) == [method |-> c.method, transaction |-> CaptureKey(c.hold)]

CaptureRow(c, x) == x.base[HoldKey(c.hold)]
CapturePosting(c, x) ==
    [debit |-> CaptureRow(c, x).account, credit |-> Payable(CaptureRow(c, x).currency),
     amount |-> c.amount, currency |-> CaptureRow(c, x).currency]
Payer(c, x) == Bal(CaptureRow(c, x).account)
Payee(c, x) == Bal(Payable(CaptureRow(c, x).currency))

BumpPayer(c, x) == BumpBalance(CaptureRow(c, x).account, CaptureRow(c, x).amount - c.amount,
                               -CaptureRow(c, x).amount)
BumpPayee(c, x) == BumpBalance(Payable(CaptureRow(c, x).currency), c.amount, 0)
CloseCaptured(c, x) == CloseHold(c.hold, CaptureRow(c, x).payment, "captured")
StoreCapture(c) == Store(c.request, CaptureAnswer(c))

Capturing(c, x) ==
    /\ Locked(x, c.hold) /\ c.amount \in 1 .. CaptureRow(c, x).amount
    /\ x.emitted = Events(c, c.hold, CaptureRow(c, x))

CaptureLocked(c, x) ==
    /\ DOMAIN x.writes = {} /\ x.locked = {HoldKey(c.hold)}
    /\ Capturing(c, x)
    /\ x.todo = <<Post(CaptureKey(c.hold), CapturePosting(c, x)), BumpPayer(c, x), BumpPayee(c, x),
                  CloseCaptured(c, x), StoreCapture(c)>>

Posted(x, key, posting) ==
    /\ x.base[Txn(key)] = NoRow
    /\ x.writes[Txn(key)] \in TxnRow
    /\ x.writes[Txn(key)].posting = posting

CapturePosted(c, x) ==
    /\ DOMAIN x.writes = {Txn(CaptureKey(c.hold))} /\ x.locked = {HoldKey(c.hold)} \cup DOMAIN x.writes
    /\ Capturing(c, x) /\ Posted(x, CaptureKey(c.hold), CapturePosting(c, x))
    /\ x.todo = <<BumpPayer(c, x), BumpPayee(c, x), CloseCaptured(c, x), StoreCapture(c)>>

\* What the first bumpBalance makes of the payer's balance.
Paid(c, x) == Bumped(x.base[Payer(c, x)], CaptureRow(c, x).amount - c.amount, -CaptureRow(c, x).amount)

CapturePaid(c, x) ==
    /\ DOMAIN x.writes = {Txn(CaptureKey(c.hold)), Payer(c, x)}
    /\ x.locked = {HoldKey(c.hold)} \cup DOMAIN x.writes
    /\ Capturing(c, x) /\ Posted(x, CaptureKey(c.hold), CapturePosting(c, x))
    /\ x.base[Payer(c, x)] \in BalanceRow
    /\ x.writes[Payer(c, x)] = Paid(c, x) /\ Paid(c, x) \in BalanceRow
    /\ x.todo = <<BumpPayee(c, x), CloseCaptured(c, x), StoreCapture(c)>>

\* Both balances are updated; they may be the same row.
Transferred(c, x) ==
    /\ Capturing(c, x) /\ Posted(x, CaptureKey(c.hold), CapturePosting(c, x))
    /\ x.base[Payer(c, x)] \in BalanceRow /\ x.base[Payee(c, x)] \in BalanceRow
    /\ x.writes[Payer(c, x)] \in BalanceRow /\ x.writes[Payee(c, x)] \in BalanceRow
    /\ IF Payer(c, x) = Payee(c, x)
       THEN x.writes[Payee(c, x)] = Bumped(Paid(c, x), c.amount, 0)
       ELSE /\ x.writes[Payer(c, x)] = Paid(c, x)
            /\ x.writes[Payee(c, x)] = Bumped(x.base[Payee(c, x)], c.amount, 0)

CaptureTransferred(c, x) ==
    /\ DOMAIN x.writes = {Txn(CaptureKey(c.hold)), Payer(c, x), Payee(c, x)}
    /\ x.locked = {HoldKey(c.hold)} \cup DOMAIN x.writes
    /\ Transferred(c, x)
    /\ x.todo = <<CloseCaptured(c, x), StoreCapture(c)>>

\* The row of a hold, settled.
Settled(x, h, status) == [x.base[HoldKey(h)] EXCEPT !.status = status]

Closed(x, h, status) ==
    /\ x.writes[HoldKey(h)] = Settled(x, h, status)
    /\ x.writes[Pay(x.base[HoldKey(h)].payment)] = NoRow

CaptureRows(c, x) == {Txn(CaptureKey(c.hold)), Payer(c, x), Payee(c, x), HoldKey(c.hold),
                      Pay(CaptureRow(c, x).payment)}

CaptureClosed(c, x) ==
    /\ DOMAIN x.writes = CaptureRows(c, x) /\ x.locked = DOMAIN x.writes
    /\ Transferred(c, x) /\ Closed(x, c.hold, "captured")
    /\ x.todo = <<StoreCapture(c)>>

CaptureStored(c, x) ==
    /\ DOMAIN x.writes = CaptureRows(c, x) \cup {Req(c.request)} /\ x.locked = DOMAIN x.writes
    /\ Transferred(c, x) /\ Closed(x, c.hold, "captured") /\ Stored(c, x, CaptureAnswer(c))

CaptureStage(c, x) ==
    /\ c.method = "CaptureFunds" /\ HoldKey(c.hold) \in x.locked
    /\ \/ CaptureLocked(c, x)
       \/ CapturePosted(c, x)
       \/ CapturePaid(c, x)
       \/ CaptureTransferred(c, x)
       \/ CaptureClosed(c, x)
       \/ CaptureStored(c, x)

-----------------------------------------------------------------------------
(* The events. *)

IsEvent(c) == c.method \in {"UserRegistered", "PaymentFailed"}

\* The event had been processed already.
Processed(c, x) ==
    /\ IsEvent(c)
    /\ x.todo = <<>> /\ Untouched(x) /\ x.locked = {Ev(c.event)}
    /\ x.base[Ev(c.event)] # NoRow

\* The gate has let the event through.
Gated(c, x) ==
    /\ Ev(c.event) \in x.locked
    /\ x.base[Ev(c.event)] = NoRow
    /\ x.writes[Ev(c.event)] = "processed"

RegisterGated(c, x) ==
    /\ DOMAIN x.writes = {Ev(c.event)} /\ x.locked = DOMAIN x.writes
    /\ Gated(c, x) /\ x.emitted = {}
    /\ x.todo = <<OpenAccount>>

SettlementRow == Bal(Settlement(DefaultCurrency))

WelcomePosting(c, a) == [debit |-> Settlement(DefaultCurrency), credit |-> a,
                         amount |-> c.seed, currency |-> DefaultCurrency]

Opening(c, x, a) ==
    /\ Gated(c, x) /\ x.emitted = {}
    /\ x.base[Bal(a)] = NoRow

RegisterOpened(c, x, a) ==
    /\ DOMAIN x.writes = {Ev(c.event), Bal(a)} /\ x.locked = DOMAIN x.writes
    /\ Opening(c, x, a)
    /\ x.todo = IF c.seed > 0 THEN DepositSteps(c.user, a, c.seed) ELSE <<>>
    /\ x.writes[Bal(a)] = NewBalance

RegisterPosted(c, x, a) ==
    /\ DOMAIN x.writes = {Ev(c.event), Bal(a), Txn(WelcomeKey(c.user))} /\ x.locked = DOMAIN x.writes
    /\ Opening(c, x, a) /\ c.seed > 0 /\ Posted(x, WelcomeKey(c.user), WelcomePosting(c, a))
    /\ x.todo = <<BumpBalance(Settlement(DefaultCurrency), c.seed, 0), BumpBalance(a, c.seed, 0)>>
    /\ x.writes[Bal(a)] = NewBalance

Debited(c, x) ==
    /\ x.base[SettlementRow] \in BalanceRow
    /\ x.writes[SettlementRow] = Bumped(x.base[SettlementRow], c.seed, 0)
    /\ x.writes[SettlementRow] \in BalanceRow

DepositRows(c, a) == {Ev(c.event), Bal(a), Txn(WelcomeKey(c.user)), SettlementRow}

RegisterDebited(c, x, a) ==
    /\ DOMAIN x.writes = DepositRows(c, a) /\ x.locked = DOMAIN x.writes
    /\ Opening(c, x, a) /\ c.seed > 0 /\ Posted(x, WelcomeKey(c.user), WelcomePosting(c, a))
    /\ Debited(c, x)
    /\ x.todo = <<BumpBalance(a, c.seed, 0)>>
    /\ x.writes[Bal(a)] = NewBalance

RegisterCredited(c, x, a) ==
    /\ DOMAIN x.writes = DepositRows(c, a) /\ x.locked = DOMAIN x.writes
    /\ Opening(c, x, a) /\ c.seed > 0 /\ Posted(x, WelcomeKey(c.user), WelcomePosting(c, a))
    /\ Debited(c, x)
    /\ x.todo = <<>>
    /\ x.writes[Bal(a)] = Bumped(NewBalance, c.seed, 0) /\ x.writes[Bal(a)] \in BalanceRow

RegisterStage(c, x) ==
    /\ c.method = "UserRegistered"
    /\ \/ RegisterGated(c, x)
       \/ \E a \in UserAccount : \/ RegisterOpened(c, x, a)
                                 \/ RegisterPosted(c, x, a)
                                 \/ RegisterDebited(c, x, a)
                                 \/ RegisterCredited(c, x, a)

\* The compensation of a failed payment, before it has locked a hold.
FailedGated(c, x) ==
    /\ c.method = "PaymentFailed"
    /\ DOMAIN x.writes = {Ev(c.event)} /\ x.locked = DOMAIN x.writes
    /\ Gated(c, x) /\ x.emitted = {}
    /\ \/ x.todo = <<FindHold(c.payment)>>
       \/ x.todo = <<>>
       \/ \E h \in HoldId : x.todo = <<LockHold(h)>>

-----------------------------------------------------------------------------
(* Releases: of the hold of a request or of a payment, and of a batch.     *)
(* The holds in D have been released; h is the one being released.         *)

Releases(c) == c.method \in {"ReleaseFunds", "PaymentFailed", "Sweep"}

ReasonOf(c) == CASE c.method = "ReleaseFunds" -> c.reason
                 [] c.method = "Sweep" -> "expiry"
                 [] OTHER -> "compensation"

StatusOf(c) == IF ReasonOf(c) = "expiry" THEN "expired" ELSE "released"

\* What the holds in D reserve on account a, and how many there are.
AmountsOn(x, D, a) == [h \in HoldId |->
    IF h \in D /\ x.base[HoldKey(h)].account = a THEN x.base[HoldKey(h)].amount ELSE 0]
ReservedOn(x, D, a) == SumFunction(AmountsOn(x, D, a))

CountOn(x, D, a) == Cardinality({h \in D : x.base[HoldKey(h)].account = a})

\* The balance of account a once the holds in D have been released.
Freed(x, D, a) ==
    [available |-> x.base[Bal(a)].available + ReservedOn(x, D, a),
     held |-> x.base[Bal(a)].held - ReservedOn(x, D, a),
     version |-> x.base[Bal(a)].version + CountOn(x, D, a)]

BalancesOf(x, D) == {Bal(x.base[HoldKey(h)].account) : h \in D}
KeysOf(D) == {HoldKey(h) : h \in D}
PaymentsOf(x, D) == {Pay(x.base[HoldKey(h)].payment) : h \in D}

\* The row that an event locks and writes; a request's comes last.
GateRow(c) == IF IsEvent(c) THEN {Ev(c.event)} ELSE {}

\* The holds in E are locked, and are the ones the call is about.
Targets(c, x, E) ==
    /\ Releases(c)
    /\ c.method # "Sweep" => \E h \in HoldId : E = {h} /\ (c.method = "ReleaseFunds" => h = c.hold)
    /\ \A h \in E : HoldKey(h) \in x.locked /\ Locked(x, h)
    /\ c.method = "PaymentFailed" => \A h \in E : x.base[HoldKey(h)].payment = c.payment

ReleasedEvents(c, x, E) ==
    {Funds("released", h, x.base[HoldKey(h)].account, x.base[HoldKey(h)].amount, ReasonOf(c)) : h \in E}

BalancesFreed(x, B) == \A a \in AccountId : Bal(a) \in BalancesOf(x, B) =>
    /\ x.base[Bal(a)] \in BalanceRow
    /\ x.writes[Bal(a)] = Freed(x, B, a) /\ x.writes[Bal(a)] \in BalanceRow

\* Balances are updated for the holds in B, holds and payments closed for
\* those in D, events written for those in E.
Effects(c, x, B, D, E) ==
    /\ IsEvent(c) => Gated(c, x)
    /\ BalancesFreed(x, B)
    /\ \A h \in D : Closed(x, h, StatusOf(c))
    /\ x.emitted = ReleasedEvents(c, x, E)

ReleaseRows(c, x, B, D) == GateRow(c) \cup BalancesOf(x, B) \cup KeysOf(D) \cup PaymentsOf(x, D)

\* The statements after the release of a hold, and the rows they have locked.
Pending(c, x, D, n, rest) ==
    /\ c.method = "ReleaseFunds" => rest = <<Store(c.request, [method |-> c.method])>>
    /\ c.method = "PaymentFailed" => rest = <<>>
    /\ c.method = "Sweep" =>
            /\ rest \in Seq({LockHold(h) : h \in HoldId})
            /\ \A i \in 1 .. Len(rest) : rest[i].rows \subseteq x.locked
            /\ Cardinality(D) + n + Len(rest) <= SweepLimit
            /\ x.resp = [released |-> Cardinality(D)]

\* The statements after the n-th.
RestOf(x, n) == SubSeq(x.todo, n + 1, Len(x.todo))

\* Only the sweep has locked holds it has not come to yet.
LocksOf(c, x, B, D, E) ==
    LET own == ReleaseRows(c, x, B, D) \cup KeysOf(E) IN
    IF c.method = "Sweep"
    THEN /\ own \subseteq x.locked /\ x.locked \subseteq own \cup {HoldKey(h) : h \in HoldId}
         /\ \A h \in HoldId : HoldKey(h) \in x.locked => x.base[HoldKey(h)] \in HoldRow
    ELSE x.locked = own

ReleaseLocked(c, x, D, h) ==
    /\ h \in HoldId \ D /\ Targets(c, x, D \cup {h})
    /\ DOMAIN x.writes = ReleaseRows(c, x, D, D) /\ LocksOf(c, x, D, D, D \cup {h})
    /\ Effects(c, x, D, D, D \cup {h})
    /\ x.todo = ReleaseSteps(h, x.base[HoldKey(h)], ReasonOf(c)) \o RestOf(x, 2)
    /\ Pending(c, x, D, 1, RestOf(x, 2))

ReleaseBumped(c, x, D, h) ==
    /\ h \in HoldId \ D /\ Targets(c, x, D \cup {h})
    /\ DOMAIN x.writes = ReleaseRows(c, x, D \cup {h}, D) /\ LocksOf(c, x, D \cup {h}, D, D \cup {h})
    /\ Effects(c, x, D \cup {h}, D, D \cup {h})
    /\ x.todo = <<CloseHold(h, x.base[HoldKey(h)].payment, StatusOf(c))>> \o RestOf(x, 1)
    /\ Pending(c, x, D, 1, RestOf(x, 1))

ReleaseDone(c, x, D) ==
    /\ Targets(c, x, D)
    /\ DOMAIN x.writes = ReleaseRows(c, x, D, D) /\ LocksOf(c, x, D, D, D)
    /\ Effects(c, x, D, D, D)
    /\ Pending(c, x, D, 0, x.todo)

ReleaseStored(c, x, h) ==
    /\ c.method = "ReleaseFunds" /\ Targets(c, x, {h})
    /\ DOMAIN x.writes = ReleaseRows(c, x, {h}, {h}) \cup {Req(c.request)} /\ x.locked = DOMAIN x.writes
    /\ Effects(c, x, {h}, {h}, {h})
    /\ Stored(c, x, [method |-> c.method])

ReleaseStage(c, x) ==
    \/ \E D \in SUBSET HoldId : \/ ReleaseDone(c, x, D)
                                \/ \E h \in HoldId : ReleaseLocked(c, x, D, h) \/ ReleaseBumped(c, x, D, h)
    \/ \E h \in HoldId : ReleaseStored(c, x, h)

-----------------------------------------------------------------------------
(* The inductive invariant. *)

Stage(c, x) ==
    \/ Begun(c, x) \/ Missed(c, x) \/ Hit(c, x)
    \/ HoldStage(c, x) \/ CaptureStage(c, x)
    \/ Processed(c, x) \/ RegisterStage(c, x) \/ FailedGated(c, x)
    \/ ReleaseStage(c, x)

TxFields == {"todo", "older", "writes", "locked", "emitted"}

\* Where a worker is: InTx has attempts left whenever it is between two.
ControlOK(w) ==
    /\ call[w] \in Call \cup {None}
    /\ attempt[w] \in 0 .. MaxAttempts
    /\ outcome[w] \in Result \cup {None}
    /\ Running(w) => /\ DOMAIN tx[w] = TxFields
                     /\ call[w] # None /\ outcome[w] = None
    /\ call[w] = None => outcome[w] = None
    /\ ~ Running(w) /\ outcome[w] = None => attempt[w] < MaxAttempts

LocksApart == \A v, w \in Worker :
    v # w /\ Running(v) /\ Running(w) => tx[v].locked \cap tx[w].locked = {}

StageOK(w) == Running(w) => Stage(call[w], Progress(w))

\* A hold of the payment exists, active or not.
KnownHold(h, p) == h \in HoldId /\ db[HoldKey(h)] # NoRow /\ db[HoldKey(h)].payment = p

\* A hold that is active and that the snapshot has was its payment's hold then.
SeesActive(w) == \A h \in HoldId :
    db[HoldKey(h)] # NoRow /\ db[HoldKey(h)].status = "active" /\ Snapshot(w, HoldKey(h)) # NoRow =>
        Snapshot(w, Pay(db[HoldKey(h)].payment)) = h

\* What has been committed since the snapshot was taken: nothing that the
\* transaction has locked after it had looked for a conflict, and no account
\* or hold that its caller knew of is new.
OlderOK(w) == Running(w) =>
    /\ DOMAIN tx[w].older \subseteq Row
    /\ \A a \in AccountId : Bal(a) \in DOMAIN tx[w].older =>
            db[Bal(a)] # NoRow /\ Bal(a) \notin tx[w].locked
    /\ \A h \in HoldId : HoldKey(h) \in DOMAIN tx[w].older =>
            db[HoldKey(h)] # NoRow /\ HoldKey(h) \notin tx[w].locked
    /\ \A p \in Payment : Pay(p) \in DOMAIN tx[w].older =>
            tx[w].older[Pay(p)] = NoRow \/ KnownHold(tx[w].older[Pay(p)], p)
    /\ \A r \in RequestId : Req(r) \in DOMAIN tx[w].older => tx[w].older[Req(r)] = NoRow
    /\ \A row \in Names(call[w]) : row \in DOMAIN tx[w].older => tx[w].older[row] # NoRow
    /\ SeesActive(w)

\* replay, and what other copies of the request have done since.
ReplayOK(w) == Running(w) /\ call[w].method \in Rpc =>
    /\ Hit(call[w], Progress(w)) =>
            /\ db[Req(call[w].request)] # NoRow
            /\ resp[w] = Decode(db[Req(call[w].request)], call[w].method)
    /\ Missed(call[w], Progress(w)) =>
            db[Req(call[w].request)] = NoRow \/ Req(call[w].request) \in DOMAIN tx[w].older
    /\ Req(call[w].request) \in DOMAIN tx[w].older /\ (\A v \in Copies(w) : call[v] = call[w])
            => Names(call[w]) \subseteq DOMAIN tx[w].older

\* The event is new, and no hold of the payment was found.
FoundNone(c, x) == x.todo = <<>> /\ x.locked = {Ev(c.event)} /\ DOMAIN x.writes # {}

\* The holds that a compensation has found and a sweep has locked.
TargetOK(w) == Running(w) =>
    /\ call[w].method = "PaymentFailed" => \A h \in HoldId :
            tx[w].todo = <<LockHold(h)>> => KnownHold(h, call[w].payment)
    /\ call[w].method = "PaymentFailed" /\ FoundNone(call[w], Progress(w)) =>
            Snapshot(w, Pay(call[w].payment)) = NoRow
    /\ call[w].method = "Sweep" => \A h \in HoldId : HoldKey(h) \in tx[w].locked => h \in due

AccountsOf(entry) == {entry.posting.debit, entry.posting.credit}

\* Entries that were committed after an id had been drawn, on an account that
\* the transaction will have to update yet.
EntriesOK(w) == Running(w) => \A k \in IdemKey : Txn(k) \in DOMAIN tx[w].writes =>
    /\ tx[w].writes[Txn(k)].id < nextEntry
    /\ \A j \in IdemKey : db[Txn(j)] # NoRow => \A a \in AccountId :
            a \in AccountsOf(db[Txn(j)]) /\ a \in AccountsOf(tx[w].writes[Txn(k)]) =>
                db[Txn(j)].id < tx[w].writes[Txn(k)].id \/ Bal(a) \in DOMAIN tx[w].older

\* No caller can have named an id before it was committed.
NamesOK(w) == call[w] # None => \A row \in Names(call[w]) : row \in Drawn => db[row] # NoRow

WorkerOK(w) == ControlOK(w) /\ StageOK(w) /\ OlderOK(w) /\ ReplayOK(w) /\ TargetOK(w)
               /\ EntriesOK(w) /\ NamesOK(w)

TablesOK ==
    /\ Consistent(db)
    /\ nextEntry \in Int
    /\ \A k \in IdemKey : db[Txn(k)] # NoRow => db[Txn(k)].id < nextEntry
    /\ due \subseteq HoldId

TxInv ==
    /\ tx = [w \in Worker |-> tx[w]] /\ call = [w \in Worker |-> call[w]]
    /\ attempt = [w \in Worker |-> attempt[w]] /\ resp = [w \in Worker |-> resp[w]]
    /\ outcome = [w \in Worker |-> outcome[w]]
    /\ TablesOK
    /\ LocksApart
    /\ \A w \in Worker : WorkerOK(w)

-----------------------------------------------------------------------------
(* Keys, sequences and functions. *)

LEMMA KeyFacts ==
    /\ \A a, b : Bal(a) = Bal(b) <=> a = b
    /\ \A a, b : HoldKey(a) = HoldKey(b) <=> a = b
    /\ \A a, b : Pay(a) = Pay(b) <=> a = b
    /\ \A a, b : Txn(a) = Txn(b) <=> a = b
    /\ \A a, b : Req(a) = Req(b) <=> a = b
    /\ \A a, b : Ev(a) = Ev(b) <=> a = b
    /\ \A a, b : Bal(a) # HoldKey(b) /\ Bal(a) # Pay(b) /\ Bal(a) # Txn(b) /\ Bal(a) # Req(b) /\ Bal(a) # Ev(b)
    /\ \A a, b : HoldKey(a) # Pay(b) /\ HoldKey(a) # Txn(b) /\ HoldKey(a) # Req(b) /\ HoldKey(a) # Ev(b)
    /\ \A a, b : Pay(a) # Txn(b) /\ Pay(a) # Req(b) /\ Pay(a) # Ev(b)
    /\ \A a, b : Txn(a) # Req(b) /\ Txn(a) # Ev(b) /\ Req(a) # Ev(b)
BY DEF Bal, HoldKey, Pay, Txn, Req, Ev

\* A key is the name of its table and what it is the key of.
LEMMA KeyKinds ==
    /\ \A a : Bal(a)[1] = "account_balances" /\ Bal(a)[2] = a
    /\ \A h : HoldKey(h)[1] = "holds" /\ HoldKey(h)[2] = h
    /\ \A p : Pay(p)[1] = "holds_active_payment_uq" /\ Pay(p)[2] = p
    /\ \A k : Txn(k)[1] = "ledger_transactions" /\ Txn(k)[2] = k
    /\ \A r : Req(r)[1] = "grpc_idempotency" /\ Req(r)[2] = r
    /\ \A e : Ev(e)[1] = "processed_events" /\ Ev(e)[2] = e
BY DEF Bal, HoldKey, Pay, Txn, Req, Ev

LEMMA RowFacts ==
    /\ \A a \in AccountId : Bal(a) \in Row
    /\ \A h \in HoldId : HoldKey(h) \in Row
    /\ \A p \in Payment : Pay(p) \in Row
    /\ \A k \in IdemKey : Txn(k) \in Row
    /\ \A r \in RequestId : Req(r) \in Row
    /\ \A e \in EventId : Ev(e) \in Row
BY DEF Row

LEMMA OverFacts ==
    ASSUME NEW f, NEW g
    PROVE  /\ DOMAIN Over(f, g) = DOMAIN f \cup DOMAIN g
           /\ \A x \in DOMAIN f : Over(f, g)[x] = f[x]
           /\ \A x \in DOMAIN g : x \notin DOMAIN f => Over(f, g)[x] = g[x]
BY DEF Over

LEMMA PutFacts ==
    ASSUME NEW k, NEW e
    PROVE  DOMAIN Put(k, e) = {k} /\ Put(k, e)[k] = e
BY DEF Put

-----------------------------------------------------------------------------
(* The constants. *)

LEMMA CallFacts ==
    ASSUME NEW c \in Call
    PROVE  /\ c # None
           /\ c.method \in {"HoldFunds", "CaptureFunds", "ReleaseFunds", "Sweep", "UserRegistered", "PaymentFailed"}
           /\ c.method = "HoldFunds" =>
                /\ c.request \in RequestId /\ c.account \in AccountId /\ c.payment \in Payment
                /\ c.amount \in Int /\ c.currency \in Currency
           /\ c.method = "CaptureFunds" => c.request \in RequestId /\ c.hold \in HoldId /\ c.amount \in Int
           /\ c.method = "ReleaseFunds" => c.request \in RequestId /\ c.hold \in HoldId /\ c.reason \in Reason
           /\ c.method = "UserRegistered" => c.event \in EventId /\ c.user \in User /\ c.seed \in Int
           /\ c.method = "PaymentFailed" => c.event \in EventId /\ c.payment \in Payment
           /\ "request" \in DOMAIN c <=> c.method \in Rpc
<1>1. c \in CallRecord /\ None \notin CallRecord
  BY TransactionsAssumption
<1> HIDE DEF TransactionsAssumption
<1>2. CASE c \in [method : {"HoldFunds"}, request : RequestId, account : AccountId, payment : Payment,
                  amount : Int, currency : Currency]
  BY <1>1, <1>2 DEF Rpc
<1>3. CASE c \in [method : {"CaptureFunds"}, request : RequestId, hold : HoldId, amount : Int]
  BY <1>1, <1>3 DEF Rpc
<1>4. CASE c \in [method : {"ReleaseFunds"}, request : RequestId, hold : HoldId, reason : Reason]
  BY <1>1, <1>4 DEF Rpc
<1>5. CASE c \in [method : {"Sweep"}]
  BY <1>1, <1>5 DEF Rpc
<1>6. CASE c \in [method : {"UserRegistered"}, event : EventId, user : User, seed : Int]
  BY <1>1, <1>6 DEF Rpc
<1>7. CASE c \in [method : {"PaymentFailed"}, event : EventId, payment : Payment]
  BY <1>1, <1>7 DEF Rpc
<1> QED BY <1>1, <1>2, <1>3, <1>4, <1>5, <1>6, <1>7 DEF CallRecord

LEMMA HoldSets ==
    ASSUME NEW D \in SUBSET HoldId
    PROVE  IsFiniteSet(D) /\ Cardinality(D) \in Nat
BY ConstantsAssumption, FS_Subset, FS_CardinalityType

LEMMA ProgramFacts ==
    ASSUME NEW c \in Call
    PROVE  /\ c.method = "HoldFunds" => Program(c) = <<LookUp(c.request), LockBalance(c.account)>>
           /\ c.method \in {"CaptureFunds", "ReleaseFunds"} =>
                Program(c) = <<LookUp(c.request), LockHold(c.hold)>>
           /\ c.method = "Sweep" => Program(c) = <<SelectDue>>
           /\ IsEvent(c) => Program(c) = <<Gate(c.event)>>
BY CallFacts DEF Program, IsEvent

\* The operation a statement stands for, and the rows it needs.
LEMMA StatementFacts ==
    /\ \A r : LookUp(r).op = "replay" /\ LookUp(r).rows = {} /\ LookUp(r).request = r
    /\ \A a : LockBalance(a).op = "lockBalance" /\ LockBalance(a).rows = {Bal(a)}
    /\ \A p : InsertHold(p).op = "insertHold" /\ InsertHold(p).rows = {Pay(p)}
    /\ \A h : LockHold(h).op = "lockHold" /\ LockHold(h).rows = {HoldKey(h)} /\ LockHold(h).hold = h
    /\ \A a, d, e : LET s == BumpBalance(a, d, e) IN
            s.op = "bump" /\ s.rows = {Bal(a)} /\ s.account = a /\ s.dAvailable = d /\ s.dHeld = e
    /\ \A k, p : LET s == Post(k, p) IN s.op = "post" /\ s.rows = {Txn(k)} /\ s.key = k /\ s.posting = p
    /\ \A h, p, status : LET s == CloseHold(h, p, status) IN
            s.op = "close" /\ s.rows = {HoldKey(h), Pay(p)} /\ s.hold = h /\ s.payment = p /\ s.status = status
    /\ \A r, a : LET s == Store(r, a) IN s.op = "store" /\ s.rows = {Req(r)} /\ s.request = r /\ s.response = a
    /\ \A e : Gate(e).op = "gate" /\ Gate(e).rows = {Ev(e)}
    /\ OpenAccount.op = "openAccount" /\ OpenAccount.rows = {}
    /\ \A p : FindHold(p).op = "findHold" /\ FindHold(p).rows = {} /\ FindHold(p).payment = p
    /\ SelectDue.op = "selectDue" /\ SelectDue.rows = {}
BY DEF LookUp, LockBalance, InsertHold, LockHold, BumpBalance, Post, CloseHold, Store, Gate,
       OpenAccount, FindHold, SelectDue

-----------------------------------------------------------------------------
(* Which statement comes next. *)

At(x, s, rest) == x.todo # <<>> /\ Head(x.todo) = s /\ Tail(x.todo) = rest

LEMMA AtOne ==
    ASSUME NEW x, NEW a, x.todo = <<a>>
    PROVE  At(x, a, <<>>)
BY DEF At

LEMMA AtTwo ==
    ASSUME NEW x, NEW a, NEW b, x.todo = <<a, b>>
    PROVE  At(x, a, <<b>>)
BY DEF At

LEMMA AtThree ==
    ASSUME NEW x, NEW a, NEW b, NEW c, x.todo = <<a, b, c>>
    PROVE  At(x, a, <<b, c>>)
BY DEF At

LEMMA AtFour ==
    ASSUME NEW x, NEW a, NEW b, NEW c, NEW d, x.todo = <<a, b, c, d>>
    PROVE  At(x, a, <<b, c, d>>)
BY DEF At

LEMMA AtFive ==
    ASSUME NEW x, NEW a, NEW b, NEW c, NEW d, NEW e, x.todo = <<a, b, c, d, e>>
    PROVE  At(x, a, <<b, c, d, e>>)
BY DEF At

LEMMA AtRest ==
    ASSUME NEW S, NEW rest \in Seq(S), NEW x, NEW a, NEW b
    PROVE  /\ x.todo = <<a, b>> \o rest => At(x, a, <<b>> \o rest)
           /\ x.todo = <<a>> \o rest => At(x, a, rest)
BY DEF At

LEMMA BegunNext ==
    ASSUME NEW c \in Call, NEW x, Begun(c, x)
    PROVE  /\ c.method = "HoldFunds" => At(x, LookUp(c.request), <<LockBalance(c.account)>>)
           /\ c.method \in {"CaptureFunds", "ReleaseFunds"} => At(x, LookUp(c.request), <<LockHold(c.hold)>>)
           /\ c.method = "Sweep" => At(x, SelectDue, <<>>)
           /\ IsEvent(c) => At(x, Gate(c.event), <<>>)
<1> x.todo = Program(c)
  BY DEF Begun
<1>1. ASSUME c.method = "HoldFunds" PROVE At(x, LookUp(c.request), <<LockBalance(c.account)>>)
  BY <1>1, ProgramFacts, AtTwo
<1>2. ASSUME c.method \in {"CaptureFunds", "ReleaseFunds"} PROVE At(x, LookUp(c.request), <<LockHold(c.hold)>>)
  BY <1>2, ProgramFacts, AtTwo
<1>3. ASSUME c.method = "Sweep" PROVE At(x, SelectDue, <<>>)
  BY <1>3, ProgramFacts, AtOne
<1>4. ASSUME IsEvent(c) PROVE At(x, Gate(c.event), <<>>)
  BY <1>4, ProgramFacts, AtOne
<1> QED BY <1>1, <1>2, <1>3, <1>4

LEMMA MissedNext ==
    ASSUME NEW c \in Call, NEW x, Missed(c, x)
    PROVE  /\ c.method = "HoldFunds" => At(x, LockBalance(c.account), <<>>)
           /\ c.method \in {"CaptureFunds", "ReleaseFunds"} => At(x, LockHold(c.hold), <<>>)
           /\ c.method \in Rpc
<1>1. ASSUME c.method = "HoldFunds" PROVE At(x, LockBalance(c.account), <<>>)
  BY <1>1, AtOne DEF Missed
<1>2. ASSUME c.method \in {"CaptureFunds", "ReleaseFunds"} PROVE At(x, LockHold(c.hold), <<>>)
  BY <1>2, AtOne DEF Missed
<1> QED BY <1>1, <1>2 DEF Missed

LEMMA HoldNext ==
    ASSUME NEW c \in Call, NEW x, NEW h
    PROVE  /\ HoldChecked(c, x) => At(x, InsertHold(c.payment), <<>>)
           /\ HoldInserted(c, x, h) => At(x, BumpBalance(c.account, -c.amount, c.amount),
                                             <<Store(c.request, HoldAnswer(c, x, h))>>)
           /\ HoldBumped(c, x, h) => At(x, Store(c.request, HoldAnswer(c, x, h)), <<>>)
           /\ HoldStored(c, x, h) => x.todo = <<>>
<1>1. HoldChecked(c, x) => At(x, InsertHold(c.payment), <<>>)
  BY AtOne DEF HoldChecked
<1>2. HoldInserted(c, x, h) => At(x, BumpBalance(c.account, -c.amount, c.amount),
                                     <<Store(c.request, HoldAnswer(c, x, h))>>)
  BY AtTwo DEF HoldInserted
<1>3. HoldBumped(c, x, h) => At(x, Store(c.request, HoldAnswer(c, x, h)), <<>>)
  BY AtOne DEF HoldBumped
<1>4. HoldStored(c, x, h) => x.todo = <<>>
  BY DEF HoldStored, Stored
<1> QED BY <1>1, <1>2, <1>3, <1>4

LEMMA CaptureNext ==
    ASSUME NEW c \in Call, NEW x
    PROVE  /\ CaptureLocked(c, x) => At(x, Post(CaptureKey(c.hold), CapturePosting(c, x)),
                <<BumpPayer(c, x), BumpPayee(c, x), CloseCaptured(c, x), StoreCapture(c)>>)
           /\ CapturePosted(c, x) => At(x, BumpPayer(c, x), <<BumpPayee(c, x), CloseCaptured(c, x), StoreCapture(c)>>)
           /\ CapturePaid(c, x) => At(x, BumpPayee(c, x), <<CloseCaptured(c, x), StoreCapture(c)>>)
           /\ CaptureTransferred(c, x) => At(x, CloseCaptured(c, x), <<StoreCapture(c)>>)
           /\ CaptureClosed(c, x) => At(x, StoreCapture(c), <<>>)
           /\ CaptureStored(c, x) => x.todo = <<>>
<1>1. CaptureLocked(c, x) => At(x, Post(CaptureKey(c.hold), CapturePosting(c, x)),
                <<BumpPayer(c, x), BumpPayee(c, x), CloseCaptured(c, x), StoreCapture(c)>>)
  BY AtFive DEF CaptureLocked
<1>2. CapturePosted(c, x) => At(x, BumpPayer(c, x), <<BumpPayee(c, x), CloseCaptured(c, x), StoreCapture(c)>>)
  BY AtFour DEF CapturePosted
<1>3. CapturePaid(c, x) => At(x, BumpPayee(c, x), <<CloseCaptured(c, x), StoreCapture(c)>>)
  BY AtThree DEF CapturePaid
<1>4. CaptureTransferred(c, x) => At(x, CloseCaptured(c, x), <<StoreCapture(c)>>)
  BY AtTwo DEF CaptureTransferred
<1>5. CaptureClosed(c, x) => At(x, StoreCapture(c), <<>>)
  BY AtOne DEF CaptureClosed
<1>6. CaptureStored(c, x) => x.todo = <<>>
  BY DEF CaptureStored, Stored
<1> QED BY <1>1, <1>2, <1>3, <1>4, <1>5, <1>6

LEMMA RegisterNext ==
    ASSUME NEW c \in Call, NEW x, NEW a
    PROVE  /\ RegisterGated(c, x) => At(x, OpenAccount, <<>>)
           /\ RegisterOpened(c, x, a) =>
                IF c.seed > 0
                THEN At(x, Post(WelcomeKey(c.user), WelcomePosting(c, a)),
                        <<BumpBalance(Settlement(DefaultCurrency), c.seed, 0), BumpBalance(a, c.seed, 0)>>)
                ELSE x.todo = <<>>
           /\ RegisterPosted(c, x, a) => At(x, BumpBalance(Settlement(DefaultCurrency), c.seed, 0),
                                               <<BumpBalance(a, c.seed, 0)>>)
           /\ RegisterDebited(c, x, a) => At(x, BumpBalance(a, c.seed, 0), <<>>)
           /\ RegisterCredited(c, x, a) => x.todo = <<>>
<1>1. RegisterGated(c, x) => At(x, OpenAccount, <<>>)
  BY AtOne DEF RegisterGated
<1>2. ASSUME RegisterOpened(c, x, a), c.seed > 0
      PROVE  At(x, Post(WelcomeKey(c.user), WelcomePosting(c, a)),
                <<BumpBalance(Settlement(DefaultCurrency), c.seed, 0), BumpBalance(a, c.seed, 0)>>)
  BY <1>2, AtThree DEF RegisterOpened, DepositSteps, WelcomePosting
<1>3. ASSUME RegisterOpened(c, x, a), ~ (c.seed > 0) PROVE x.todo = <<>>
  BY <1>3 DEF RegisterOpened
<1>4. RegisterPosted(c, x, a) => At(x, BumpBalance(Settlement(DefaultCurrency), c.seed, 0),
                                       <<BumpBalance(a, c.seed, 0)>>)
  BY AtTwo DEF RegisterPosted
<1>5. RegisterDebited(c, x, a) => At(x, BumpBalance(a, c.seed, 0), <<>>)
  BY AtOne DEF RegisterDebited
<1>6. RegisterCredited(c, x, a) => x.todo = <<>>
  BY DEF RegisterCredited
<1> QED BY <1>1, <1>2, <1>3, <1>4, <1>5, <1>6

LEMMA FailedNext ==
    ASSUME NEW c \in Call, NEW x, FailedGated(c, x)
    PROVE  \/ At(x, FindHold(c.payment), <<>>)
           \/ x.todo = <<>>
           \/ \E h \in HoldId : At(x, LockHold(h), <<>>) /\ x.todo = <<LockHold(h)>>
BY AtOne DEF FailedGated

\* What is left after the release of a hold is a sequence of statements.
LEMMA PendingFacts ==
    ASSUME NEW c \in Call, NEW x, NEW D, NEW n, NEW rest, Pending(c, x, D, n, rest), Releases(c)
    PROVE  \E S : rest \in Seq(S)
<1>1. CASE c.method = "ReleaseFunds"
  <2>1. rest = <<Store(c.request, [method |-> c.method])>>
    BY <1>1 DEF Pending
  <2>2. rest \in Seq({Store(c.request, [method |-> c.method])})
    BY <2>1
  <2> QED BY <2>2
<1>2. CASE c.method = "PaymentFailed"
  BY <1>2, EmptySeq DEF Pending
<1>3. CASE c.method = "Sweep"
  BY <1>3 DEF Pending
<1> QED BY <1>1, <1>2, <1>3 DEF Releases

BumpReleased(x, h) == BumpBalance(x.base[HoldKey(h)].account, x.base[HoldKey(h)].amount, -x.base[HoldKey(h)].amount)
CloseReleased(c, x, h) == CloseHold(h, x.base[HoldKey(h)].payment, StatusOf(c))

LEMMA ReleaseNext ==
    ASSUME NEW c \in Call, NEW x, NEW D, NEW h
    PROVE  /\ ReleaseLocked(c, x, D, h) => \E rest :
                /\ At(x, BumpReleased(x, h), <<CloseReleased(c, x, h)>> \o rest)
                /\ Pending(c, x, D, 1, rest) /\ \E S : rest \in Seq(S)
           /\ ReleaseBumped(c, x, D, h) => \E rest :
                /\ At(x, CloseReleased(c, x, h), rest)
                /\ Pending(c, x, D, 1, rest) /\ \E S : rest \in Seq(S)
           /\ ReleaseStored(c, x, h) => x.todo = <<>>
<1>1. ASSUME ReleaseLocked(c, x, D, h)
      PROVE  \E rest : /\ At(x, BumpReleased(x, h), <<CloseReleased(c, x, h)>> \o rest)
                       /\ Pending(c, x, D, 1, rest) /\ \E S : rest \in Seq(S)
  <2>1. PICK rest : rest = RestOf(x, 2)
    OBVIOUS
  <2>2. Pending(c, x, D, 1, rest) /\ Releases(c)
    BY <1>1, <2>1 DEF ReleaseLocked, Targets
  <2>3. PICK S : rest \in Seq(S)
    BY <2>2, PendingFacts
  <2>4. x.todo = <<BumpReleased(x, h), CloseReleased(c, x, h)>> \o rest
    BY <1>1, <2>1 DEF ReleaseLocked, ReleaseSteps, BumpReleased, CloseReleased, StatusOf
  <2>5. At(x, BumpReleased(x, h), <<CloseReleased(c, x, h)>> \o rest)
    BY <2>3, <2>4, AtRest
  <2> QED BY <2>2, <2>3, <2>5
<1>2. ASSUME ReleaseBumped(c, x, D, h)
      PROVE  \E rest : /\ At(x, CloseReleased(c, x, h), rest)
                       /\ Pending(c, x, D, 1, rest) /\ \E S : rest \in Seq(S)
  <2>1. PICK rest : rest = RestOf(x, 1)
    OBVIOUS
  <2>2. Pending(c, x, D, 1, rest) /\ Releases(c)
    BY <1>2, <2>1 DEF ReleaseBumped, Targets
  <2>3. PICK S : rest \in Seq(S)
    BY <2>2, PendingFacts
  <2>4. x.todo = <<CloseReleased(c, x, h)>> \o rest
    BY <1>2, <2>1 DEF ReleaseBumped, CloseReleased
  <2>5. At(x, CloseReleased(c, x, h), rest)
    BY <2>3, <2>4, AtRest
  <2> QED BY <2>2, <2>3, <2>5
<1>3. ReleaseStored(c, x, h) => x.todo = <<>>
  BY DEF ReleaseStored, Stored
<1> QED BY <1>1, <1>2, <1>3

LEMMA DoneNext ==
    ASSUME NEW c \in Call, NEW x, NEW D \in SUBSET HoldId, ReleaseDone(c, x, D)
    PROVE  /\ Releases(c)
           /\ c.method = "ReleaseFunds" => At(x, Store(c.request, [method |-> c.method]), <<>>)
           /\ c.method = "PaymentFailed" => x.todo = <<>>
           /\ c.method = "Sweep" /\ x.todo # <<>> => \E h \in HoldId :
                /\ At(x, LockHold(h), Tail(x.todo)) /\ HoldKey(h) \in x.locked
                /\ Pending(c, x, D, 1, Tail(x.todo))
<1>1. Pending(c, x, D, 0, x.todo) /\ Releases(c)
  BY DEF ReleaseDone, Targets
<1>2. c.method = "ReleaseFunds" => At(x, Store(c.request, [method |-> c.method]), <<>>)
  BY <1>1, AtOne DEF Pending
<1>3. c.method = "PaymentFailed" => x.todo = <<>>
  BY <1>1 DEF Pending
<1>4. ASSUME c.method = "Sweep", x.todo # <<>>
      PROVE  \E h \in HoldId : /\ At(x, LockHold(h), Tail(x.todo)) /\ HoldKey(h) \in x.locked
                               /\ Pending(c, x, D, 1, Tail(x.todo))
  <2> DEFINE S == {LockHold(h) : h \in HoldId}
  <2>1. PICK todo : todo = x.todo
    OBVIOUS
  <2>2. todo \in Seq(S) /\ todo # <<>> /\ \A i \in 1 .. Len(todo) : todo[i].rows \subseteq x.locked
    BY <1>1, <1>4, <2>1 DEF Pending
  <2>3. Cardinality(D) + 0 + Len(todo) <= SweepLimit /\ x.resp = [released |-> Cardinality(D)]
    BY <1>1, <1>4, <2>1 DEF Pending
  <2>4. Head(todo) \in S /\ Tail(todo) \in Seq(S) /\ Len(Tail(todo)) = Len(todo) - 1 /\ Head(todo) = todo[1]
        /\ \A i \in 1 .. Len(Tail(todo)) : Tail(todo)[i] = todo[i + 1]
    <3> HIDE DEF S
    <3> QED BY <2>2, HeadTailProperties
  <2>5. PICK h \in HoldId : Head(todo) = LockHold(h)
    BY <2>4
  <2>6. Len(todo) \in Nat /\ Len(todo) > 0
    <3> HIDE DEF S
    <3> QED BY <2>2
  <2>7. HoldKey(h) \in x.locked
    BY <2>2, <2>4, <2>5, <2>6, StatementFacts
  <2>8. \A i \in 1 .. Len(Tail(todo)) : Tail(todo)[i].rows \subseteq x.locked
    BY <2>2, <2>4, <2>6
  <2>9. Cardinality(D) + 1 + Len(Tail(todo)) <= SweepLimit
    <3>1. Cardinality(D) \in Int /\ SweepLimit \in Int
      BY HoldSets, ConstantsAssumption
    <3> QED BY <2>3, <2>4, <2>6, <3>1
  <2> QED BY <2>1, <2>2, <2>3, <2>4, <2>5, <2>7, <2>8, <2>9, <1>4 DEF At, Pending
<1> QED BY <1>1, <1>2, <1>3, <1>4

OpIs(x, op) == x.todo # <<>> /\ Head(x.todo).op = op

LEMMA StatementOps ==
    ASSUME NEW x, NEW rest
    PROVE  /\ \A r : At(x, LookUp(r), rest) => OpIs(x, "replay")
           /\ \A a : At(x, LockBalance(a), rest) => OpIs(x, "lockBalance")
           /\ \A p : At(x, InsertHold(p), rest) => OpIs(x, "insertHold")
           /\ \A h : At(x, LockHold(h), rest) => OpIs(x, "lockHold")
           /\ \A a, d, e : At(x, BumpBalance(a, d, e), rest) => OpIs(x, "bump")
           /\ \A k, p : At(x, Post(k, p), rest) => OpIs(x, "post")
           /\ \A h, p, status : At(x, CloseHold(h, p, status), rest) => OpIs(x, "close")
           /\ \A r, a : At(x, Store(r, a), rest) => OpIs(x, "store")
           /\ \A e : At(x, Gate(e), rest) => OpIs(x, "gate")
           /\ At(x, OpenAccount, rest) => OpIs(x, "openAccount")
           /\ \A p : At(x, FindHold(p), rest) => OpIs(x, "findHold")
           /\ At(x, SelectDue, rest) => OpIs(x, "selectDue")
BY DEF At, OpIs, LookUp, LockBalance, InsertHold, LockHold, BumpBalance, Post, CloseHold, Store, Gate,
       OpenAccount, FindHold, SelectDue

LEMMA HoldOps ==
    ASSUME NEW c \in Call, NEW x, NEW h
    PROVE  /\ HoldChecked(c, x) => OpIs(x, "insertHold")
           /\ HoldInserted(c, x, h) => OpIs(x, "bump")
           /\ HoldBumped(c, x, h) => OpIs(x, "store")
<1>1. ASSUME HoldChecked(c, x) PROVE OpIs(x, "insertHold")
  BY <1>1, HoldNext, StatementOps
<1>2. ASSUME HoldInserted(c, x, h) PROVE OpIs(x, "bump")
  BY <1>2, HoldNext, StatementOps
<1>3. ASSUME HoldBumped(c, x, h) PROVE OpIs(x, "store")
  BY <1>3, HoldNext, StatementOps
<1> QED BY <1>1, <1>2, <1>3

LEMMA CaptureOps ==
    ASSUME NEW c \in Call, NEW x
    PROVE  /\ CaptureLocked(c, x) => OpIs(x, "post")
           /\ CapturePosted(c, x) => OpIs(x, "bump")
           /\ CapturePaid(c, x) => OpIs(x, "bump")
           /\ CaptureTransferred(c, x) => OpIs(x, "close")
           /\ CaptureClosed(c, x) => OpIs(x, "store")
<1>1. ASSUME CaptureLocked(c, x) PROVE OpIs(x, "post")
  BY <1>1, CaptureNext, StatementOps
<1>2. ASSUME CapturePosted(c, x) PROVE OpIs(x, "bump")
  BY <1>2, CaptureNext, StatementOps DEF BumpPayer
<1>3. ASSUME CapturePaid(c, x) PROVE OpIs(x, "bump")
  BY <1>3, CaptureNext, StatementOps DEF BumpPayee
<1>4. ASSUME CaptureTransferred(c, x) PROVE OpIs(x, "close")
  BY <1>4, CaptureNext, StatementOps DEF CloseCaptured
<1>5. ASSUME CaptureClosed(c, x) PROVE OpIs(x, "store")
  BY <1>5, CaptureNext, StatementOps DEF StoreCapture
<1> QED BY <1>1, <1>2, <1>3, <1>4, <1>5

LEMMA RegisterOps ==
    ASSUME NEW c \in Call, NEW x, NEW a
    PROVE  /\ RegisterGated(c, x) => OpIs(x, "openAccount")
           /\ RegisterOpened(c, x, a) => IF c.seed > 0 THEN OpIs(x, "post") ELSE x.todo = <<>>
           /\ RegisterPosted(c, x, a) => OpIs(x, "bump")
           /\ RegisterDebited(c, x, a) => OpIs(x, "bump")
<1>1. ASSUME RegisterGated(c, x) PROVE OpIs(x, "openAccount")
  BY <1>1, RegisterNext, StatementOps
<1>2. ASSUME RegisterOpened(c, x, a), c.seed > 0 PROVE OpIs(x, "post")
  BY <1>2, RegisterNext, StatementOps
<1>3. ASSUME RegisterOpened(c, x, a), ~ (c.seed > 0) PROVE x.todo = <<>>
  BY <1>3, RegisterNext
<1>4. ASSUME RegisterPosted(c, x, a) PROVE OpIs(x, "bump")
  BY <1>4, RegisterNext, StatementOps
<1>5. ASSUME RegisterDebited(c, x, a) PROVE OpIs(x, "bump")
  BY <1>5, RegisterNext, StatementOps
<1> QED BY <1>1, <1>2, <1>3, <1>4, <1>5

LEMMA ReleaseOps ==
    ASSUME NEW c \in Call, NEW x, NEW D \in SUBSET HoldId, NEW h
    PROVE  /\ ReleaseLocked(c, x, D, h) => OpIs(x, "bump")
           /\ ReleaseBumped(c, x, D, h) => OpIs(x, "close")
           /\ ReleaseDone(c, x, D) => \/ x.todo = <<>>
                                      \/ c.method = "ReleaseFunds" /\ OpIs(x, "store")
                                      \/ c.method = "Sweep" /\ OpIs(x, "lockHold")
<1>1. ASSUME ReleaseLocked(c, x, D, h) PROVE OpIs(x, "bump")
  <2>1. PICK rest : At(x, BumpReleased(x, h), <<CloseReleased(c, x, h)>> \o rest)
    BY <1>1, ReleaseNext
  <2> QED BY <2>1, StatementOps DEF BumpReleased
<1>2. ASSUME ReleaseBumped(c, x, D, h) PROVE OpIs(x, "close")
  <2>1. PICK rest : At(x, CloseReleased(c, x, h), rest)
    BY <1>2, ReleaseNext
  <2> QED BY <2>1, StatementOps DEF CloseReleased
<1>3. ASSUME ReleaseDone(c, x, D)
      PROVE  \/ x.todo = <<>>
             \/ c.method = "ReleaseFunds" /\ OpIs(x, "store")
             \/ c.method = "Sweep" /\ OpIs(x, "lockHold")
  <2>1. c.method = "ReleaseFunds" => OpIs(x, "store")
    BY <1>3, DoneNext, StatementOps
  <2>2. ASSUME c.method = "Sweep", x.todo # <<>> PROVE OpIs(x, "lockHold")
    <3>1. PICK g \in HoldId : At(x, LockHold(g), Tail(x.todo))
      BY <1>3, <2>2, DoneNext
    <3> QED BY <3>1, StatementOps
  <2> QED BY <1>3, <2>1, <2>2, DoneNext DEF Releases
<1> QED BY <1>1, <1>2, <1>3

LEMMA FirstOps ==
    ASSUME NEW c \in Call, NEW x
    PROVE  /\ Begun(c, x) => \/ c.method \in Rpc /\ OpIs(x, "replay")
                             \/ c.method = "Sweep" /\ OpIs(x, "selectDue")
                             \/ IsEvent(c) /\ OpIs(x, "gate")
           /\ Missed(c, x) => \/ c.method = "HoldFunds" /\ OpIs(x, "lockBalance")
                              \/ c.method \in {"CaptureFunds", "ReleaseFunds"} /\ OpIs(x, "lockHold")
           /\ FailedGated(c, x) => \/ x.todo = <<>>
                                   \/ x.todo = <<FindHold(c.payment)>> /\ OpIs(x, "findHold")
                                   \/ \E g \in HoldId : x.todo = <<LockHold(g)>> /\ OpIs(x, "lockHold")
<1>1. ASSUME Begun(c, x)
      PROVE  \/ c.method \in Rpc /\ OpIs(x, "replay")
             \/ c.method = "Sweep" /\ OpIs(x, "selectDue")
             \/ IsEvent(c) /\ OpIs(x, "gate")
  <2>1. ASSUME c.method = "HoldFunds" PROVE OpIs(x, "replay")
    BY <1>1, <2>1, BegunNext, StatementOps
  <2>2. ASSUME c.method \in {"CaptureFunds", "ReleaseFunds"} PROVE OpIs(x, "replay")
    BY <1>1, <2>2, BegunNext, StatementOps
  <2>3. ASSUME c.method = "Sweep" PROVE OpIs(x, "selectDue")
    BY <1>1, <2>3, BegunNext, StatementOps
  <2>4. ASSUME IsEvent(c) PROVE OpIs(x, "gate")
    BY <1>1, <2>4, BegunNext, StatementOps
  <2> QED BY <2>1, <2>2, <2>3, <2>4, CallFacts DEF Rpc, IsEvent
<1>2. ASSUME Missed(c, x)
      PROVE  \/ c.method = "HoldFunds" /\ OpIs(x, "lockBalance")
             \/ c.method \in {"CaptureFunds", "ReleaseFunds"} /\ OpIs(x, "lockHold")
  BY <1>2, MissedNext, StatementOps DEF Rpc
<1>3. ASSUME FailedGated(c, x)
      PROVE  \/ x.todo = <<>>
             \/ x.todo = <<FindHold(c.payment)>> /\ OpIs(x, "findHold")
             \/ \E g \in HoldId : x.todo = <<LockHold(g)>> /\ OpIs(x, "lockHold")
  <2>1. CASE x.todo = <<FindHold(c.payment)>>
    BY <2>1, AtOne, StatementOps
  <2>2. ASSUME NEW g \in HoldId, x.todo = <<LockHold(g)>> PROVE OpIs(x, "lockHold")
    BY <2>2, AtOne, StatementOps
  <2> QED BY <1>3, <2>1, <2>2 DEF FailedGated
<1> QED BY <1>1, <1>2, <1>3

LEMMA HitDone ==
    ASSUME NEW c \in Call, NEW x, NEW a, NEW h
    PROVE  /\ Hit(c, x) => x.todo = <<>>
           /\ Processed(c, x) => x.todo = <<>>
           /\ HoldStored(c, x, h) => x.todo = <<>>
           /\ CaptureStored(c, x) => x.todo = <<>>
           /\ RegisterCredited(c, x, a) => x.todo = <<>>
           /\ ReleaseStored(c, x, h) => x.todo = <<>>
BY DEF Hit, Processed, HoldStored, CaptureStored, RegisterCredited, ReleaseStored, Stored

\* The stages at which each statement is executed.
LEMMA StageOf ==
    ASSUME NEW c \in Call, NEW x, Stage(c, x), NEW op, OpIs(x, op)
    PROVE  /\ op = "replay" => c.method \in Rpc /\ Begun(c, x)
           /\ op = "selectDue" => c.method = "Sweep" /\ Begun(c, x)
           /\ op = "gate" => IsEvent(c) /\ Begun(c, x)
           /\ op = "lockBalance" => c.method = "HoldFunds" /\ Missed(c, x)
           /\ op = "insertHold" => c.method = "HoldFunds" /\ HoldChecked(c, x)
           /\ op = "openAccount" => c.method = "UserRegistered" /\ RegisterGated(c, x)
           /\ op = "findHold" => FailedGated(c, x) /\ x.todo = <<FindHold(c.payment)>>
           /\ op = "lockHold" =>
                \/ c.method \in {"CaptureFunds", "ReleaseFunds"} /\ Missed(c, x)
                \/ FailedGated(c, x) /\ \E g \in HoldId : x.todo = <<LockHold(g)>>
                \/ c.method = "Sweep" /\ \E D \in SUBSET HoldId : ReleaseDone(c, x, D)
           /\ op = "post" =>
                \/ c.method = "CaptureFunds" /\ CaptureLocked(c, x)
                \/ c.method = "UserRegistered" /\ c.seed > 0 /\ \E a \in UserAccount : RegisterOpened(c, x, a)
           /\ op = "close" =>
                \/ c.method = "CaptureFunds" /\ CaptureTransferred(c, x)
                \/ \E D \in SUBSET HoldId, h \in HoldId : ReleaseBumped(c, x, D, h)
           /\ op = "store" =>
                \/ c.method = "HoldFunds" /\ \E h \in HoldId : HoldBumped(c, x, h)
                \/ c.method = "CaptureFunds" /\ CaptureClosed(c, x)
                \/ c.method = "ReleaseFunds" /\ \E D \in SUBSET HoldId : ReleaseDone(c, x, D)
           /\ op = "bump" =>
                \/ c.method = "HoldFunds" /\ \E h \in HoldId : HoldInserted(c, x, h)
                \/ c.method = "CaptureFunds" /\ (CapturePosted(c, x) \/ CapturePaid(c, x))
                \/ c.method = "UserRegistered" /\ \E a \in UserAccount :
                        RegisterPosted(c, x, a) \/ RegisterDebited(c, x, a)
                \/ \E D \in SUBSET HoldId, h \in HoldId : ReleaseLocked(c, x, D, h)
<1>0. x.todo # <<>> /\ Head(x.todo).op = op
  BY DEF OpIs
<1>1. CASE Begun(c, x)
  BY <1>0, <1>1, FirstOps DEF OpIs
<1>2. CASE Missed(c, x)
  BY <1>0, <1>2, FirstOps DEF OpIs
<1>3. CASE Hit(c, x) \/ Processed(c, x)
  BY <1>0, <1>3, HitDone
<1>4. CASE HoldStage(c, x)
  <2> c.method = "HoldFunds"
    BY <1>4 DEF HoldStage
  <2>1. CASE HoldChecked(c, x)
    BY <1>0, <2>1, HoldOps DEF OpIs
  <2>2. ASSUME NEW h \in HoldId, HoldInserted(c, x, h) PROVE op = "bump"
    BY <1>0, <2>2, HoldOps DEF OpIs
  <2>3. ASSUME NEW h \in HoldId, HoldBumped(c, x, h) PROVE op = "store"
    BY <1>0, <2>3, HoldOps DEF OpIs
  <2>4. ASSUME NEW h \in HoldId, HoldStored(c, x, h) PROVE FALSE
    BY <1>0, <2>4, HitDone
  <2> QED BY <1>4, <2>1, <2>2, <2>3, <2>4 DEF HoldStage
<1>5. CASE CaptureStage(c, x)
  <2> c.method = "CaptureFunds"
    BY <1>5 DEF CaptureStage
  <2>1. CASE CaptureLocked(c, x)
    BY <1>0, <2>1, CaptureOps DEF OpIs
  <2>2. CASE CapturePosted(c, x) \/ CapturePaid(c, x)
    BY <1>0, <2>2, CaptureOps DEF OpIs
  <2>3. CASE CaptureTransferred(c, x)
    BY <1>0, <2>3, CaptureOps DEF OpIs
  <2>4. CASE CaptureClosed(c, x)
    BY <1>0, <2>4, CaptureOps DEF OpIs
  <2>5. CASE CaptureStored(c, x)
    BY <1>0, <2>5, HitDone
  <2> QED BY <1>5, <2>1, <2>2, <2>3, <2>4, <2>5 DEF CaptureStage
<1>6. CASE RegisterStage(c, x)
  <2> c.method = "UserRegistered"
    BY <1>6 DEF RegisterStage
  <2>1. CASE RegisterGated(c, x)
    BY <1>0, <2>1, RegisterOps DEF OpIs
  <2>2. ASSUME NEW a \in UserAccount, RegisterOpened(c, x, a) PROVE op = "post" /\ c.seed > 0
    BY <1>0, <2>2, RegisterOps DEF OpIs
  <2>3. ASSUME NEW a \in UserAccount, RegisterPosted(c, x, a) \/ RegisterDebited(c, x, a) PROVE op = "bump"
    BY <1>0, <2>3, RegisterOps DEF OpIs
  <2>4. ASSUME NEW a \in UserAccount, RegisterCredited(c, x, a) PROVE FALSE
    BY <1>0, <2>4, HitDone
  <2> QED BY <1>6, <2>1, <2>2, <2>3, <2>4 DEF RegisterStage
<1>7. CASE FailedGated(c, x)
  BY <1>0, <1>7, FirstOps DEF OpIs
<1>8. CASE ReleaseStage(c, x)
  <2>1. ASSUME NEW D \in SUBSET HoldId, ReleaseDone(c, x, D)
        PROVE  \/ c.method = "ReleaseFunds" /\ op = "store"
               \/ c.method = "Sweep" /\ op = "lockHold"
    BY <1>0, <2>1, ReleaseOps DEF OpIs
  <2>2. ASSUME NEW D \in SUBSET HoldId, NEW h \in HoldId, ReleaseLocked(c, x, D, h) PROVE op = "bump"
    BY <1>0, <2>2, ReleaseOps DEF OpIs
  <2>3. ASSUME NEW D \in SUBSET HoldId, NEW h \in HoldId, ReleaseBumped(c, x, D, h) PROVE op = "close"
    BY <1>0, <2>3, ReleaseOps DEF OpIs
  <2>4. ASSUME NEW h \in HoldId, ReleaseStored(c, x, h) PROVE FALSE
    BY <1>0, <2>4, HitDone
  <2> QED BY <1>8, <2>1, <2>2, <2>3, <2>4 DEF ReleaseStage
<1> QED BY <1>1, <1>2, <1>3, <1>4, <1>5, <1>6, <1>7, <1>8 DEF Stage

-----------------------------------------------------------------------------
(* From one stage to the next.                                             *)

\* A statement has been executed: rows are locked, wr written, ev emitted, and
\* more is to be done first.
Executed(x, y, rows, wr, ev, more) ==
    /\ y.todo = more \o Tail(x.todo)
    /\ DOMAIN y.writes = DOMAIN wr \cup DOMAIN x.writes
    /\ \A r \in DOMAIN wr : y.writes[r] = wr[r]
    /\ \A r \in DOMAIN x.writes : r \notin DOMAIN wr => y.writes[r] = x.writes[r]
    /\ y.locked = x.locked \cup rows \cup DOMAIN wr
    /\ y.emitted = x.emitted \cup ev
    /\ \A r \in x.locked : y.base[r] = x.base[r]

\* Two statements more, and nothing after them.
LEMMA LastTwo ==
    ASSUME NEW x, NEW y, NEW rows, NEW wr, NEW ev, NEW a, NEW b,
           Executed(x, y, rows, wr, ev, <<a, b>>), Tail(x.todo) = <<>>
    PROVE  y.todo = <<a, b>>
<1>1. y.todo = <<a, b>> \o Tail(x.todo)
  BY DEF Executed
<1>2. <<a, b>> \o <<>> = <<a, b>>
  OBVIOUS
<1> QED BY <1>1, <1>2

LEMMA MissStep ==
    ASSUME NEW c \in Call, NEW x, NEW y, NEW wr, DOMAIN wr = {},
           c.method \in Rpc, Begun(c, x), NEW rows, NEW ev, NEW more,
           rows = {},
           ev = {},
           more = <<>>,
           Executed(x, y, rows, wr, ev, more)
    PROVE  Missed(c, y)
<1>1. x.locked = {} /\ DOMAIN x.writes = {} /\ x.emitted = {}
  BY DEF Begun, Untouched
<1>2. y.todo = <<>> \o Tail(x.todo)
  BY DEF Executed
<1>3. CASE c.method = "HoldFunds"
  <2>1. Tail(x.todo) = <<LockBalance(c.account)>>
    BY <1>3, BegunNext DEF At
  <2>2. y.todo = <<LockBalance(c.account)>>
    BY <1>2, <2>1, ConcatFacts
  <2> QED BY <1>1, <1>3, <2>2 DEF Missed, Untouched, Executed
<1>4. CASE c.method \in {"CaptureFunds", "ReleaseFunds"}
  <2>1. Tail(x.todo) = <<LockHold(c.hold)>>
    BY <1>4, BegunNext DEF At
  <2>2. y.todo = <<LockHold(c.hold)>>
    BY <1>2, <2>1, ConcatFacts
  <2> QED BY <1>1, <1>4, <2>2 DEF Missed, Untouched, Executed
<1> QED BY <1>3, <1>4 DEF Rpc

LEMMA CheckStep ==
    ASSUME NEW c \in Call, NEW x, NEW y, NEW wr, DOMAIN wr = {},
           c.method = "HoldFunds", Missed(c, x), Affordable(c, y),
           NEW rows, NEW ev, NEW more,
           rows = {Bal(c.account)},
           ev = {},
           more = <<InsertHold(c.payment)>>,
           Executed(x, y, rows, wr, ev, more)
    PROVE  HoldChecked(c, y)
<1>1. x.locked = {} /\ DOMAIN x.writes = {} /\ x.emitted = {}
  BY DEF Missed, Untouched
<1>2. Tail(x.todo) = <<>>
  BY MissedNext DEF At
<1>3. y.todo = <<InsertHold(c.payment)>>
  BY <1>2, ConcatFacts DEF Executed
<1> QED BY <1>1, <1>3 DEF HoldChecked, Untouched, Executed

LEMMA InsertStep ==
    ASSUME NEW c \in Call, NEW x, NEW y, NEW wr, NEW h, DOMAIN wr = HoldRows(c, h),
           HoldChecked(c, x), c.amount > 0,
           y.base[HoldKey(h)] = NoRow, y.base[Pay(c.payment)] = NoRow,
           wr[Pay(c.payment)] = h,
           wr[HoldKey(h)] = [account |-> c.account, payment |-> c.payment, amount |-> c.amount,
                             currency |-> c.currency, status |-> "active"],
           NEW rows, NEW ev, NEW more,
           rows = {Pay(c.payment)},
           ev = {Funds("held", h, c.account, c.amount, "none")},
           more = <<BumpBalance(c.account, -c.amount, c.amount), Store(c.request, HoldAnswer(c, x, h))>>,
           Executed(x, y, rows, wr, ev, more)
    PROVE  HoldInserted(c, y, h)
<1>1. x.locked = {Bal(c.account)} /\ DOMAIN x.writes = {} /\ x.emitted = {} /\ Affordable(c, x)
  BY DEF HoldChecked, Untouched
<1>2. Tail(x.todo) = <<>>
  BY HoldNext DEF At
<1>3. y.base[Bal(c.account)] = x.base[Bal(c.account)]
  BY <1>1 DEF Executed
<1>4. HoldAnswer(c, y, h) = HoldAnswer(c, x, h) /\ Affordable(c, y)
  BY <1>1, <1>3 DEF HoldAnswer, Affordable
<1>5. y.todo = <<BumpBalance(c.account, -c.amount, c.amount), Store(c.request, HoldAnswer(c, y, h))>>
  BY <1>2, <1>4, LastTwo
<1>6. DOMAIN y.writes = HoldRows(c, h) /\ y.locked = HoldRows(c, h) \cup {Bal(c.account)}
  BY <1>1 DEF Executed, HoldRows
<1>7. Inserted(c, y, h)
  BY <1>1, <1>4 DEF Executed, Inserted, HoldRows
<1> QED BY <1>5, <1>6, <1>7 DEF HoldInserted

LEMMA ReserveStep ==
    ASSUME NEW c \in Call, NEW x, NEW y, NEW wr, NEW h, DOMAIN wr = {Bal(c.account)},
           HoldInserted(c, x, h),
           wr[Bal(c.account)] = Bumped(x.base[Bal(c.account)], -c.amount, c.amount),
           wr[Bal(c.account)] \in BalanceRow,
           NEW rows, NEW ev, NEW more,
           rows = {Bal(c.account)},
           ev = {},
           more = <<>>,
           Executed(x, y, rows, wr, ev, more)
    PROVE  HoldBumped(c, y, h)
<1>1. /\ x.locked = HoldRows(c, h) \cup {Bal(c.account)} /\ DOMAIN x.writes = HoldRows(c, h)
      /\ Inserted(c, x, h)
  BY DEF HoldInserted
<1>2. Tail(x.todo) = <<Store(c.request, HoldAnswer(c, x, h))>>
  BY HoldNext DEF At
<1>3. /\ y.base[Bal(c.account)] = x.base[Bal(c.account)]
      /\ y.base[HoldKey(h)] = x.base[HoldKey(h)] /\ y.base[Pay(c.payment)] = x.base[Pay(c.payment)]
  BY <1>1 DEF Executed, HoldRows
<1>4. HoldAnswer(c, y, h) = HoldAnswer(c, x, h)
  BY <1>3 DEF HoldAnswer
<1>5. y.todo = <<Store(c.request, HoldAnswer(c, y, h))>>
  BY <1>2, <1>4, ConcatFacts DEF Executed
<1>6. DOMAIN y.writes = HoldRows(c, h) \cup {Bal(c.account)} /\ y.locked = DOMAIN y.writes
  BY <1>1 DEF Executed
<1>7. y.writes[Pay(c.payment)] = x.writes[Pay(c.payment)] /\ y.writes[HoldKey(h)] = x.writes[HoldKey(h)]
  BY <1>1, KeyFacts DEF Executed, HoldRows
<1>8. Inserted(c, y, h)
  BY <1>1, <1>3, <1>7 DEF Executed, Inserted, Affordable
<1>9. Reserves(c, y)
  BY <1>3 DEF Executed, Reserves
<1> QED BY <1>5, <1>6, <1>8, <1>9 DEF HoldBumped

\* The last statement of an RPC.
LEMMA StoreHoldStep ==
    ASSUME NEW c \in Call, NEW x, NEW y, NEW wr, NEW h, DOMAIN wr = {Req(c.request)},
           HoldBumped(c, x, h),
           wr[Req(c.request)] = HoldAnswer(c, x, h), y.resp = HoldAnswer(c, x, h),
           y.base[Req(c.request)] = NoRow,
           NEW rows, NEW ev, NEW more,
           rows = {Req(c.request)},
           ev = {},
           more = <<>>,
           Executed(x, y, rows, wr, ev, more)
    PROVE  HoldStored(c, y, h)
<1>1. /\ x.locked = DOMAIN x.writes /\ DOMAIN x.writes = HoldRows(c, h) \cup {Bal(c.account)}
      /\ Inserted(c, x, h) /\ Reserves(c, x)
  BY DEF HoldBumped
<1>2. Tail(x.todo) = <<>>
  BY HoldNext DEF At
<1>3. /\ y.base[Bal(c.account)] = x.base[Bal(c.account)]
      /\ y.base[HoldKey(h)] = x.base[HoldKey(h)] /\ y.base[Pay(c.payment)] = x.base[Pay(c.payment)]
  BY <1>1 DEF Executed, HoldRows
<1>4. HoldAnswer(c, y, h) = HoldAnswer(c, x, h)
  BY <1>3 DEF HoldAnswer
<1>5. y.todo = <<>>
  BY <1>2, ConcatFacts DEF Executed
<1>6. DOMAIN y.writes = HoldRows(c, h) \cup {Bal(c.account), Req(c.request)} /\ y.locked = DOMAIN y.writes
  BY <1>1 DEF Executed
<1>7. /\ y.writes[Pay(c.payment)] = x.writes[Pay(c.payment)] /\ y.writes[HoldKey(h)] = x.writes[HoldKey(h)]
      /\ y.writes[Bal(c.account)] = x.writes[Bal(c.account)]
  BY <1>1, KeyFacts DEF Executed, HoldRows
<1>8. Inserted(c, y, h)
  BY <1>1, <1>3, <1>7 DEF Executed, Inserted, Affordable
<1>9. Reserves(c, y)
  BY <1>1, <1>3, <1>7 DEF Reserves
<1>10. Stored(c, y, HoldAnswer(c, y, h))
  BY <1>4, <1>5 DEF Executed, Stored
<1> QED BY <1>6, <1>8, <1>9, <1>10 DEF HoldStored

\* The hold stays locked, and its committed row what it was.
LEMMA CaptureKept ==
    ASSUME NEW c \in Call, NEW x, NEW y, NEW rows, NEW wr, NEW ev, NEW more,
           HoldKey(c.hold) \in x.locked, Executed(x, y, rows, wr, ev, more)
    PROVE  /\ CaptureRow(c, y) = CaptureRow(c, x)
           /\ CapturePosting(c, y) = CapturePosting(c, x)
           /\ Payer(c, y) = Payer(c, x) /\ Payee(c, y) = Payee(c, x)
           /\ BumpPayer(c, y) = BumpPayer(c, x) /\ BumpPayee(c, y) = BumpPayee(c, x)
           /\ CloseCaptured(c, y) = CloseCaptured(c, x)
           /\ CaptureRows(c, y) = CaptureRows(c, x)
           /\ Capturing(c, x) /\ ev = {} => Capturing(c, y)
<1>1. CaptureRow(c, y) = CaptureRow(c, x)
  BY DEF CaptureRow, Executed
<1>2. /\ CapturePosting(c, y) = CapturePosting(c, x)
      /\ Payer(c, y) = Payer(c, x) /\ Payee(c, y) = Payee(c, x)
      /\ BumpPayer(c, y) = BumpPayer(c, x) /\ BumpPayee(c, y) = BumpPayee(c, x)
      /\ CloseCaptured(c, y) = CloseCaptured(c, x)
  BY <1>1 DEF CapturePosting, Payer, Payee, BumpPayer, BumpPayee, CloseCaptured
<1>3. CaptureRows(c, y) = CaptureRows(c, x)
  BY <1>1, <1>2 DEF CaptureRows
<1>4. ASSUME Capturing(c, x), ev = {} PROVE Capturing(c, y)
  <2>1. y.emitted = x.emitted
    BY <1>4 DEF Executed
  <2>2. Locked(y, c.hold)
    BY <1>1, <1>4 DEF Capturing, Locked, CaptureRow
  <2> QED BY <1>1, <1>4, <2>1, <2>2 DEF Capturing
<1> QED BY <1>1, <1>2, <1>3, <1>4

LEMMA LockCaptureStep ==
    ASSUME NEW c \in Call, NEW x, NEW y, NEW wr, NEW row, DOMAIN wr = {},
           c.method = "CaptureFunds", Missed(c, x),
           row = y.base[HoldKey(c.hold)], Locked(y, c.hold), c.amount \in 1 .. row.amount,
           NEW rows, NEW ev, NEW more,
           rows = {HoldKey(c.hold)},
           ev = Events(c, c.hold, row),
           more = AfterLockHold(c, c.hold, row),
           Executed(x, y, rows, wr, ev, more)
    PROVE  CaptureLocked(c, y)
<1>1. x.locked = {} /\ DOMAIN x.writes = {} /\ x.emitted = {}
  BY DEF Missed, Untouched
<1>2. Tail(x.todo) = <<>>
  BY MissedNext DEF At
<1>3. row = CaptureRow(c, y)
  BY DEF CaptureRow
<1>4. AfterLockHold(c, c.hold, row) = CaptureSteps(c.hold, row, c.amount) \o <<StoreCapture(c)>>
  BY DEF AfterLockHold, StoreCapture, CaptureAnswer
<1>5. CaptureSteps(c.hold, row, c.amount) =
        <<Post(CaptureKey(c.hold), CapturePosting(c, y)), BumpPayer(c, y), BumpPayee(c, y), CloseCaptured(c, y)>>
  BY <1>3 DEF CaptureSteps, CapturePosting, BumpPayer, BumpPayee, CloseCaptured
<1>6. AfterLockHold(c, c.hold, row) =
        <<Post(CaptureKey(c.hold), CapturePosting(c, y)), BumpPayer(c, y), BumpPayee(c, y), CloseCaptured(c, y), StoreCapture(c)>>
  BY <1>4, <1>5, ConcatFacts
<1>7. PICK all : all = AfterLockHold(c, c.hold, row)
  OBVIOUS
<1>8. all \o <<>> = all
  BY <1>6, <1>7, ConcatFacts
<1>9. y.todo = all
  BY <1>2, <1>7, <1>8 DEF Executed
<1>10. DOMAIN y.writes = {} /\ y.locked = {HoldKey(c.hold)} /\ y.emitted = Events(c, c.hold, row)
  BY <1>1 DEF Executed
<1> QED BY <1>3, <1>6, <1>7, <1>9, <1>10 DEF CaptureLocked, Capturing

LEMMA PostCaptureStep ==
    ASSUME NEW c \in Call, NEW x, NEW y, NEW wr, DOMAIN wr = {Txn(CaptureKey(c.hold))},
           CaptureLocked(c, x), y.base[Txn(CaptureKey(c.hold))] = NoRow,
           wr[Txn(CaptureKey(c.hold))] \in TxnRow,
           wr[Txn(CaptureKey(c.hold))].posting = CapturePosting(c, x),
           NEW rows, NEW ev, NEW more,
           rows = {Txn(CaptureKey(c.hold))},
           ev = {},
           more = <<>>,
           Executed(x, y, rows, wr, ev, more)
    PROVE  CapturePosted(c, y)
<1>1. x.locked = {HoldKey(c.hold)} /\ DOMAIN x.writes = {} /\ Capturing(c, x)
  BY DEF CaptureLocked
<1>2. Tail(x.todo) = <<BumpPayer(c, x), BumpPayee(c, x), CloseCaptured(c, x), StoreCapture(c)>>
  BY CaptureNext DEF At
<1>3. /\ BumpPayer(c, y) = BumpPayer(c, x) /\ BumpPayee(c, y) = BumpPayee(c, x)
      /\ CloseCaptured(c, y) = CloseCaptured(c, x) /\ CapturePosting(c, y) = CapturePosting(c, x)
      /\ Capturing(c, y)
  BY <1>1, CaptureKept
<1>4. y.todo = Tail(x.todo)
  BY <1>2, ConcatFacts DEF Executed
<1>5. DOMAIN y.writes = {Txn(CaptureKey(c.hold))} /\ y.locked = {HoldKey(c.hold)} \cup DOMAIN y.writes
  BY <1>1 DEF Executed
<1>6. Posted(y, CaptureKey(c.hold), CapturePosting(c, y))
  BY <1>3 DEF Posted, Executed
<1> QED BY <1>2, <1>3, <1>4, <1>5, <1>6 DEF CapturePosted

LEMMA PayStep ==
    ASSUME NEW c \in Call, NEW x, NEW y, NEW wr, DOMAIN wr = {Payer(c, x)},
           CapturePosted(c, x), y.base[Payer(c, x)] \in BalanceRow,
           wr[Payer(c, x)] = Bumped(y.base[Payer(c, x)], CaptureRow(c, x).amount - c.amount, -CaptureRow(c, x).amount),
           wr[Payer(c, x)] \in BalanceRow,
           NEW rows, NEW ev, NEW more,
           rows = {Payer(c, x)},
           ev = {},
           more = <<>>,
           Executed(x, y, rows, wr, ev, more)
    PROVE  CapturePaid(c, y)
<1>1. /\ x.locked = {HoldKey(c.hold)} \cup DOMAIN x.writes /\ DOMAIN x.writes = {Txn(CaptureKey(c.hold))}
      /\ Capturing(c, x) /\ Posted(x, CaptureKey(c.hold), CapturePosting(c, x))
  BY DEF CapturePosted
<1>2. Tail(x.todo) = <<BumpPayee(c, x), CloseCaptured(c, x), StoreCapture(c)>>
  BY CaptureNext DEF At
<1>3. /\ CaptureRow(c, y) = CaptureRow(c, x) /\ BumpPayee(c, y) = BumpPayee(c, x)
      /\ CloseCaptured(c, y) = CloseCaptured(c, x) /\ CapturePosting(c, y) = CapturePosting(c, x)
      /\ Payer(c, y) = Payer(c, x) /\ Capturing(c, y)
  BY <1>1, CaptureKept
<1>4. y.todo = Tail(x.todo)
  BY <1>2, ConcatFacts DEF Executed
<1>5. DOMAIN y.writes = {Txn(CaptureKey(c.hold)), Payer(c, y)} /\ y.locked = {HoldKey(c.hold)} \cup DOMAIN y.writes
  BY <1>1, <1>3 DEF Executed
<1>6. Posted(y, CaptureKey(c.hold), CapturePosting(c, y))
  BY <1>1, <1>3, KeyFacts DEF Posted, Executed, Payer
<1>7. y.writes[Payer(c, y)] = Paid(c, y) /\ Paid(c, y) \in BalanceRow
  BY <1>3 DEF Executed, Paid
<1> QED BY <1>2, <1>3, <1>4, <1>5, <1>6, <1>7 DEF CapturePaid

LEMMA TransferStep ==
    ASSUME NEW c \in Call, NEW x, NEW y, NEW wr, NEW before, DOMAIN wr = {Payee(c, x)},
           CapturePaid(c, x), y.base[Payee(c, x)] \in BalanceRow,
           before = IF Payee(c, x) = Payer(c, x) THEN x.writes[Payee(c, x)] ELSE y.base[Payee(c, x)],
           wr[Payee(c, x)] = Bumped(before, c.amount, 0), wr[Payee(c, x)] \in BalanceRow,
           NEW rows, NEW ev, NEW more,
           rows = {Payee(c, x)},
           ev = {},
           more = <<>>,
           Executed(x, y, rows, wr, ev, more)
    PROVE  CaptureTransferred(c, y)
<1>1. /\ x.locked = {HoldKey(c.hold)} \cup DOMAIN x.writes /\ DOMAIN x.writes = {Txn(CaptureKey(c.hold)), Payer(c, x)}
      /\ Capturing(c, x) /\ Posted(x, CaptureKey(c.hold), CapturePosting(c, x))
      /\ x.base[Payer(c, x)] \in BalanceRow
      /\ x.writes[Payer(c, x)] = Paid(c, x) /\ Paid(c, x) \in BalanceRow
  BY DEF CapturePaid
<1>2. Tail(x.todo) = <<CloseCaptured(c, x), StoreCapture(c)>>
  BY CaptureNext DEF At
<1>3. /\ CaptureRow(c, y) = CaptureRow(c, x)
      /\ CloseCaptured(c, y) = CloseCaptured(c, x) /\ CapturePosting(c, y) = CapturePosting(c, x)
      /\ Payer(c, y) = Payer(c, x) /\ Payee(c, y) = Payee(c, x) /\ Capturing(c, y)
  BY <1>1, CaptureKept
<1>4. y.todo = Tail(x.todo)
  BY <1>2, ConcatFacts DEF Executed
<1>5. /\ DOMAIN y.writes = {Txn(CaptureKey(c.hold)), Payer(c, y), Payee(c, y)}
      /\ y.locked = {HoldKey(c.hold)} \cup DOMAIN y.writes
  BY <1>1, <1>3 DEF Executed
<1>6. Posted(y, CaptureKey(c.hold), CapturePosting(c, y))
  BY <1>1, <1>3, KeyFacts DEF Posted, Executed, Payee
<1>7. y.base[Payer(c, y)] = x.base[Payer(c, x)] /\ Paid(c, y) = Paid(c, x)
  BY <1>1, <1>3 DEF Executed, Paid
<1>8. y.writes[Payee(c, y)] = wr[Payee(c, x)]
  BY <1>3 DEF Executed
<1>9. Payee(c, x) # Payer(c, x) => y.writes[Payer(c, y)] = Paid(c, y)
  BY <1>1, <1>3, <1>7 DEF Executed
<1>10. Transferred(c, y)
  <2>1. CASE Payee(c, x) = Payer(c, x)
    BY <2>1, <1>1, <1>3, <1>6, <1>7, <1>8 DEF Transferred
  <2>2. CASE Payee(c, x) # Payer(c, x)
    BY <2>2, <1>1, <1>3, <1>6, <1>7, <1>8, <1>9 DEF Transferred
  <2> QED BY <2>1, <2>2
<1> QED BY <1>2, <1>3, <1>4, <1>5, <1>10 DEF CaptureTransferred

\* Neither the entries nor the balances are touched.
LEMMA TransferredKept ==
    ASSUME NEW c \in Call, NEW x, NEW y, NEW rows, NEW wr, NEW ev, NEW more,
           {HoldKey(c.hold), Txn(CaptureKey(c.hold)), Payer(c, x), Payee(c, x)} \subseteq x.locked,
           {Txn(CaptureKey(c.hold)), Payer(c, x), Payee(c, x)} \subseteq DOMAIN x.writes \ DOMAIN wr,
           Transferred(c, x), Executed(x, y, rows, wr, ev, more), ev = {}
    PROVE  Transferred(c, y)
<1>1. /\ CaptureRow(c, y) = CaptureRow(c, x) /\ CapturePosting(c, y) = CapturePosting(c, x)
      /\ Payer(c, y) = Payer(c, x) /\ Payee(c, y) = Payee(c, x) /\ Capturing(c, y)
  BY CaptureKept DEF Transferred
<1>2. /\ y.base[Payer(c, y)] = x.base[Payer(c, x)] /\ y.base[Payee(c, y)] = x.base[Payee(c, x)]
      /\ y.base[Txn(CaptureKey(c.hold))] = x.base[Txn(CaptureKey(c.hold))]
  BY <1>1 DEF Executed
<1>3. /\ y.writes[Payer(c, y)] = x.writes[Payer(c, x)] /\ y.writes[Payee(c, y)] = x.writes[Payee(c, x)]
      /\ y.writes[Txn(CaptureKey(c.hold))] = x.writes[Txn(CaptureKey(c.hold))]
  BY <1>1 DEF Executed
<1>4. Posted(y, CaptureKey(c.hold), CapturePosting(c, y))
  BY <1>1, <1>2, <1>3 DEF Posted, Transferred
<1>5. Paid(c, y) = Paid(c, x)
  BY <1>1, <1>2 DEF Paid
<1> QED BY <1>1, <1>2, <1>3, <1>4, <1>5 DEF Transferred

LEMMA CloseCaptureStep ==
    ASSUME NEW c \in Call, NEW x, NEW y, NEW wr,
           DOMAIN wr = {HoldKey(c.hold), Pay(CaptureRow(c, x).payment)},
           CaptureTransferred(c, x),
           wr[HoldKey(c.hold)] = Settled(x, c.hold, "captured"),
           wr[Pay(CaptureRow(c, x).payment)] = NoRow,
           NEW rows, NEW ev, NEW more,
           rows = {HoldKey(c.hold), Pay(CaptureRow(c, x).payment)},
           ev = {},
           more = <<>>,
           Executed(x, y, rows, wr, ev, more)
    PROVE  CaptureClosed(c, y)
<1>1. /\ x.locked = {HoldKey(c.hold)} \cup DOMAIN x.writes
      /\ DOMAIN x.writes = {Txn(CaptureKey(c.hold)), Payer(c, x), Payee(c, x)}
      /\ Transferred(c, x)
  BY DEF CaptureTransferred
<1>2. Tail(x.todo) = <<StoreCapture(c)>>
  BY CaptureNext DEF At
<1>3. /\ CaptureRow(c, y) = CaptureRow(c, x) /\ CaptureRows(c, y) = CaptureRows(c, x)
  BY <1>1, CaptureKept
<1>4. y.todo = <<StoreCapture(c)>>
  BY <1>2, ConcatFacts DEF Executed
<1>5. DOMAIN y.writes = CaptureRows(c, y) /\ y.locked = DOMAIN y.writes
  BY <1>1, <1>3 DEF Executed, CaptureRows
<1>6. {Txn(CaptureKey(c.hold)), Payer(c, x), Payee(c, x)} \subseteq DOMAIN x.writes \ DOMAIN wr
  BY <1>1, KeyFacts DEF Payer, Payee
<1>7. Transferred(c, y)
  BY <1>1, <1>6, TransferredKept
<1>8. Settled(y, c.hold, "captured") = Settled(x, c.hold, "captured")
  BY <1>3 DEF Settled, CaptureRow
<1>9. Closed(y, c.hold, "captured")
  BY <1>3, <1>8 DEF Closed, Executed, CaptureRow
<1> QED BY <1>4, <1>5, <1>7, <1>9 DEF CaptureClosed

LEMMA StoreCaptureStep ==
    ASSUME NEW c \in Call, NEW x, NEW y, NEW wr, DOMAIN wr = {Req(c.request)},
           CaptureClosed(c, x),
           wr[Req(c.request)] = CaptureAnswer(c), y.resp = CaptureAnswer(c),
           y.base[Req(c.request)] = NoRow,
           NEW rows, NEW ev, NEW more,
           rows = {Req(c.request)},
           ev = {},
           more = <<>>,
           Executed(x, y, rows, wr, ev, more)
    PROVE  CaptureStored(c, y)
<1>1. /\ x.locked = CaptureRows(c, x) /\ DOMAIN x.writes = CaptureRows(c, x)
      /\ Transferred(c, x) /\ Closed(x, c.hold, "captured")
  BY DEF CaptureClosed
<1>2. Tail(x.todo) = <<>>
  BY CaptureNext DEF At
<1>3. /\ CaptureRow(c, y) = CaptureRow(c, x) /\ CaptureRows(c, y) = CaptureRows(c, x)
  BY <1>1, CaptureKept DEF CaptureRows
<1>4. y.todo = <<>>
  BY <1>2, ConcatFacts DEF Executed
<1>5. DOMAIN y.writes = CaptureRows(c, y) \cup {Req(c.request)} /\ y.locked = DOMAIN y.writes
  BY <1>1, <1>3 DEF Executed
<1>6. Req(c.request) \notin CaptureRows(c, x)
  BY KeyFacts DEF CaptureRows, Payer, Payee
<1>7. Transferred(c, y)
  BY <1>1, <1>6, TransferredKept DEF CaptureRows
<1>8. /\ y.writes[HoldKey(c.hold)] = x.writes[HoldKey(c.hold)]
      /\ y.writes[Pay(CaptureRow(c, x).payment)] = x.writes[Pay(CaptureRow(c, x).payment)]
  BY <1>1, KeyFacts DEF Executed, CaptureRows
<1>9. Closed(y, c.hold, "captured")
  BY <1>1, <1>3, <1>8 DEF Closed, Settled, CaptureRow
<1>10. Stored(c, y, CaptureAnswer(c))
  BY <1>4 DEF Executed, Stored
<1> QED BY <1>5, <1>7, <1>9, <1>10 DEF CaptureStored

LEMMA DuplicateStep ==
    ASSUME NEW c \in Call, NEW x, NEW y, NEW wr, DOMAIN wr = {},
           IsEvent(c), Begun(c, x), y.base[Ev(c.event)] # NoRow,
           NEW rows, NEW ev, NEW more,
           rows = {Ev(c.event)},
           ev = {},
           more = <<>>,
           Executed(x, y, rows, wr, ev, more)
    PROVE  Processed(c, y)
<1>0. Tail(x.todo) = <<>>
  BY BegunNext DEF At
<1>1. y.todo = <<>>
  BY <1>0, ConcatFacts DEF Executed
<1>2. DOMAIN y.writes = {} /\ y.emitted = {} /\ y.locked = {Ev(c.event)}
  <2>1. x.locked = {} /\ DOMAIN x.writes = {} /\ x.emitted = {}
    BY DEF Begun, Untouched
  <2> QED BY <2>1 DEF Executed
<1> QED BY <1>1, <1>2 DEF Processed, Untouched

LEMMA GateOpens ==
    ASSUME NEW c \in Call, NEW x, NEW y, NEW wr, NEW s, DOMAIN wr = {Ev(c.event)},
           wr[Ev(c.event)] = "processed",
           IsEvent(c), Begun(c, x), y.base[Ev(c.event)] = NoRow,
           NEW rows, NEW ev, NEW more,
           rows = {Ev(c.event)},
           ev = {},
           more = <<s>>,
           Executed(x, y, rows, wr, ev, more)
    PROVE  /\ c.method = "UserRegistered" /\ s = OpenAccount => RegisterGated(c, y)
           /\ c.method = "PaymentFailed" /\ s = FindHold(c.payment) => FailedGated(c, y)
<1>0. Tail(x.todo) = <<>>
  BY BegunNext DEF At
<1>1. y.todo = <<s>>
  BY <1>0, ConcatFacts DEF Executed
<1>2. DOMAIN y.writes = {Ev(c.event)} /\ y.locked = DOMAIN y.writes /\ y.emitted = {}
  <2>1. x.locked = {} /\ DOMAIN x.writes = {} /\ x.emitted = {}
    BY DEF Begun, Untouched
  <2> QED BY <2>1 DEF Executed
<1>3. Gated(c, y)
  BY <1>2 DEF Gated, Executed
<1> QED BY <1>1, <1>2, <1>3 DEF RegisterGated, FailedGated

\* The gate's row stays, and so does an entry.
LEMMA GatedKept ==
    ASSUME NEW c \in Call, NEW x, NEW y, NEW rows, NEW wr, NEW ev, NEW more,
           Gated(c, x), Ev(c.event) \in DOMAIN x.writes \ DOMAIN wr, Executed(x, y, rows, wr, ev, more)
    PROVE  Gated(c, y)
BY DEF Gated, Executed

LEMMA PostedKept ==
    ASSUME NEW c \in Call, NEW x, NEW y, NEW rows, NEW wr, NEW ev, NEW more, NEW key, NEW posting,
           Posted(x, key, posting), Txn(key) \in DOMAIN x.writes \ DOMAIN wr, Txn(key) \in x.locked,
           Executed(x, y, rows, wr, ev, more)
    PROVE  Posted(y, key, posting)
BY DEF Posted, Executed

LEMMA OpenStep ==
    ASSUME NEW c \in Call, NEW x, NEW y, NEW wr, NEW a, DOMAIN wr = {Bal(a)}, wr[Bal(a)] = NewBalance,
           RegisterGated(c, x), y.base[Bal(a)] = NoRow,
           NEW rows, NEW ev, NEW more,
           rows = {},
           ev = {},
           more = IF c.seed > 0 THEN DepositSteps(c.user, a, c.seed) ELSE <<>>,
           Executed(x, y, rows, wr, ev, more)
    PROVE  RegisterOpened(c, y, a)
<1>1. DOMAIN x.writes = {Ev(c.event)} /\ x.locked = DOMAIN x.writes /\ Gated(c, x) /\ x.emitted = {}
  BY DEF RegisterGated
<1>2. Tail(x.todo) = <<>>
  BY RegisterNext DEF At
<1>3. more = IF c.seed > 0 THEN DepositSteps(c.user, a, c.seed) ELSE <<>>
  OBVIOUS
<1>4. more \o <<>> = more
  <2>1. CASE c.seed > 0
    BY <2>1, <1>3, ConcatFacts DEF DepositSteps
  <2>2. CASE ~ (c.seed > 0)
    BY <2>2, <1>3, ConcatFacts
  <2> QED BY <2>1, <2>2
<1>5. y.todo = more
  BY <1>2, <1>3, <1>4 DEF Executed
<1>6. DOMAIN y.writes = {Ev(c.event), Bal(a)} /\ y.locked = DOMAIN y.writes /\ y.emitted = {}
  BY <1>1 DEF Executed
<1>7. Gated(c, y)
  BY <1>1, KeyFacts, GatedKept
<1>8. y.writes[Bal(a)] = NewBalance
  BY DEF Executed
<1> QED BY <1>3, <1>5, <1>6, <1>7, <1>8 DEF RegisterOpened, Opening

LEMMA PostWelcomeStep ==
    ASSUME NEW c \in Call, NEW x, NEW y, NEW wr, NEW a, DOMAIN wr = {Txn(WelcomeKey(c.user))},
           RegisterOpened(c, x, a), c.seed > 0, y.base[Txn(WelcomeKey(c.user))] = NoRow,
           wr[Txn(WelcomeKey(c.user))] \in TxnRow,
           wr[Txn(WelcomeKey(c.user))].posting = WelcomePosting(c, a),
           NEW rows, NEW ev, NEW more,
           rows = {Txn(WelcomeKey(c.user))},
           ev = {},
           more = <<>>,
           Executed(x, y, rows, wr, ev, more)
    PROVE  RegisterPosted(c, y, a)
<1>1. /\ DOMAIN x.writes = {Ev(c.event), Bal(a)} /\ x.locked = DOMAIN x.writes /\ Opening(c, x, a)
      /\ x.writes[Bal(a)] = NewBalance
  BY DEF RegisterOpened
<1>2. Tail(x.todo) = <<BumpBalance(Settlement(DefaultCurrency), c.seed, 0), BumpBalance(a, c.seed, 0)>>
  BY RegisterNext DEF At
<1>3. y.todo = Tail(x.todo)
  BY <1>2, ConcatFacts DEF Executed
<1>4. /\ DOMAIN y.writes = {Ev(c.event), Bal(a), Txn(WelcomeKey(c.user))} /\ y.locked = DOMAIN y.writes
      /\ y.emitted = {}
  BY <1>1 DEF Executed, Opening
<1>5. Gated(c, y)
  BY <1>1, KeyFacts, GatedKept DEF Opening
<1>6. y.writes[Bal(a)] = NewBalance /\ y.base[Bal(a)] = NoRow
  BY <1>1, KeyFacts DEF Executed, Opening
<1>7. Posted(y, WelcomeKey(c.user), WelcomePosting(c, a))
  BY DEF Posted, Executed
<1> QED BY <1>2, <1>3, <1>4, <1>5, <1>6, <1>7 DEF RegisterPosted, Opening

LEMMA DebitStep ==
    ASSUME NEW c \in Call, NEW x, NEW y, NEW wr, NEW a \in UserAccount, DOMAIN wr = {SettlementRow},
           RegisterPosted(c, x, a), y.base[SettlementRow] \in BalanceRow,
           wr[SettlementRow] = Bumped(y.base[SettlementRow], c.seed, 0), wr[SettlementRow] \in BalanceRow,
           NEW rows, NEW ev, NEW more,
           rows = {SettlementRow},
           ev = {},
           more = <<>>,
           Executed(x, y, rows, wr, ev, more)
    PROVE  RegisterDebited(c, y, a)
<1>1. /\ DOMAIN x.writes = {Ev(c.event), Bal(a), Txn(WelcomeKey(c.user))} /\ x.locked = DOMAIN x.writes
      /\ Opening(c, x, a) /\ x.writes[Bal(a)] = NewBalance
      /\ c.seed > 0 /\ Posted(x, WelcomeKey(c.user), WelcomePosting(c, a))
  BY DEF RegisterPosted
<1>2. Tail(x.todo) = <<BumpBalance(a, c.seed, 0)>>
  BY RegisterNext DEF At
<1>3. y.todo = <<BumpBalance(a, c.seed, 0)>>
  BY <1>2, ConcatFacts DEF Executed
<1>4. DOMAIN y.writes = DepositRows(c, a) /\ y.locked = DOMAIN y.writes /\ y.emitted = {}
  BY <1>1 DEF Executed, Opening, DepositRows
<1>5. Gated(c, y)
  BY <1>1, KeyFacts, GatedKept DEF Opening, SettlementRow
<1>6. Bal(a) # SettlementRow
  BY KeyFacts, ConstantsAssumption DEF SettlementRow, SystemAccount
<1>7. y.writes[Bal(a)] = NewBalance /\ y.base[Bal(a)] = NoRow
  BY <1>1, <1>6 DEF Executed, Opening
<1>8. Posted(y, WelcomeKey(c.user), WelcomePosting(c, a))
  BY <1>1, KeyFacts, PostedKept DEF SettlementRow
<1>9. Debited(c, y)
  BY DEF Debited, Executed
<1> QED BY <1>1, <1>3, <1>4, <1>5, <1>7, <1>8, <1>9 DEF RegisterDebited, Opening

LEMMA CreditStep ==
    ASSUME NEW c \in Call, NEW x, NEW y, NEW wr, NEW a \in UserAccount, DOMAIN wr = {Bal(a)},
           RegisterDebited(c, x, a),
           wr[Bal(a)] = Bumped(NewBalance, c.seed, 0), wr[Bal(a)] \in BalanceRow,
           NEW rows, NEW ev, NEW more,
           rows = {Bal(a)},
           ev = {},
           more = <<>>,
           Executed(x, y, rows, wr, ev, more)
    PROVE  RegisterCredited(c, y, a)
<1>1. /\ DOMAIN x.writes = DepositRows(c, a) /\ x.locked = DOMAIN x.writes
      /\ Opening(c, x, a) /\ Debited(c, x)
      /\ c.seed > 0 /\ Posted(x, WelcomeKey(c.user), WelcomePosting(c, a))
  BY DEF RegisterDebited
<1>2. Tail(x.todo) = <<>>
  BY RegisterNext DEF At
<1>3. y.todo = <<>>
  BY <1>2, ConcatFacts DEF Executed
<1>4. DOMAIN y.writes = DepositRows(c, a) /\ y.locked = DOMAIN y.writes /\ y.emitted = {}
  BY <1>1 DEF Executed, Opening, DepositRows
<1>5. Gated(c, y)
  BY <1>1, KeyFacts, GatedKept DEF Opening, DepositRows
<1>6. Bal(a) # SettlementRow
  BY KeyFacts, ConstantsAssumption DEF SettlementRow, SystemAccount
<1>7. y.writes[Bal(a)] = wr[Bal(a)] /\ y.base[Bal(a)] = NoRow
  BY <1>1 DEF Executed, Opening, DepositRows
<1>8. Posted(y, WelcomeKey(c.user), WelcomePosting(c, a))
  BY <1>1, KeyFacts, PostedKept DEF DepositRows
<1>9. Debited(c, y)
  BY <1>1, <1>6 DEF Debited, Executed, DepositRows
<1> QED BY <1>1, <1>3, <1>4, <1>5, <1>7, <1>8, <1>9 DEF RegisterCredited, Opening

LEMMA FindStep ==
    ASSUME NEW c \in Call, NEW x, NEW y, NEW wr, NEW more, DOMAIN wr = {},
           FailedGated(c, x), x.todo = <<FindHold(c.payment)>>,
           more = <<>> \/ \E h \in HoldId : more = <<LockHold(h)>>,
           NEW rows, NEW ev,
           rows = {},
           ev = {},
           Executed(x, y, rows, wr, ev, more)
    PROVE  FailedGated(c, y) /\ y.todo = more
<1>1. DOMAIN x.writes = {Ev(c.event)} /\ x.locked = DOMAIN x.writes /\ Gated(c, x) /\ x.emitted = {}
  BY DEF FailedGated
<1>2. Tail(x.todo) = <<>>
  OBVIOUS
<1>3. y.todo = more
  BY <1>2, ConcatFacts DEF Executed
<1>4. DOMAIN y.writes = {Ev(c.event)} /\ y.locked = DOMAIN y.writes /\ y.emitted = {}
  BY <1>1 DEF Executed
<1>5. Gated(c, y)
  BY <1>1, GatedKept
<1> QED BY <1>3, <1>4, <1>5 DEF FailedGated

\* What the holds of a batch stand for.
LEMMA ReservedFacts ==
    ASSUME NEW x, NEW a, NEW D \in SUBSET HoldId, \A h \in D : x.base[HoldKey(h)] \in HoldRow
    PROVE  /\ AmountsOn(x, D, a) \in [HoldId -> Int]
           /\ ReservedOn(x, D, a) \in Int /\ CountOn(x, D, a) \in Nat
<1>1. AmountsOn(x, D, a) \in [HoldId -> Int]
  BY DEF AmountsOn, HoldRow
<1>2. ReservedOn(x, D, a) \in Int
  BY <1>1, SumType, ConstantsAssumption DEF ReservedOn
<1>3. CountOn(x, D, a) \in Nat
  <2>1. {h \in D : x.base[HoldKey(h)].account = a} \in SUBSET HoldId
    OBVIOUS
  <2> QED BY <2>1, HoldSets DEF CountOn
<1> QED BY <1>1, <1>2, <1>3

LEMMA ReservedMore ==
    ASSUME NEW x, NEW a, NEW D \in SUBSET HoldId, NEW h \in HoldId \ D,
           \A g \in D \cup {h} : x.base[HoldKey(g)] \in HoldRow
    PROVE  /\ x.base[HoldKey(h)].account = a =>
                /\ ReservedOn(x, D \cup {h}, a) = ReservedOn(x, D, a) + x.base[HoldKey(h)].amount
                /\ CountOn(x, D \cup {h}, a) = CountOn(x, D, a) + 1
           /\ x.base[HoldKey(h)].account # a =>
                /\ ReservedOn(x, D \cup {h}, a) = ReservedOn(x, D, a)
                /\ CountOn(x, D \cup {h}, a) = CountOn(x, D, a)
<1>1. PICK E \in SUBSET HoldId : E = D \cup {h}
  OBVIOUS
<1>2. PICK f : f = AmountsOn(x, D, a)
  OBVIOUS
<1>3. PICK g : g = AmountsOn(x, E, a)
  OBVIOUS
<1>4. f \in [HoldId -> Int] /\ g \in [HoldId -> Int]
  BY <1>1, <1>2, <1>3, ReservedFacts
<1>5. \A k \in HoldId : k # h => g[k] = f[k]
  BY <1>1, <1>2, <1>3 DEF AmountsOn
<1>6. f[h] = 0 /\ g[h] = IF x.base[HoldKey(h)].account = a THEN x.base[HoldKey(h)].amount ELSE 0
  BY <1>1, <1>2, <1>3 DEF AmountsOn
<1>7. SumFunction(g) = SumFunction(f) + (g[h] - f[h]) /\ SumFunction(f) \in Int
  BY <1>4, <1>5, SumUpdate, SumType, ConstantsAssumption
<1>8. x.base[HoldKey(h)].amount \in Int
  BY DEF HoldRow
<1>9. /\ x.base[HoldKey(h)].account = a =>
            ReservedOn(x, E, a) = ReservedOn(x, D, a) + x.base[HoldKey(h)].amount
      /\ x.base[HoldKey(h)].account # a => ReservedOn(x, E, a) = ReservedOn(x, D, a)
  BY <1>2, <1>3, <1>6, <1>7, <1>8 DEF ReservedOn
<1>10. PICK S : S = {k \in D : x.base[HoldKey(k)].account = a}
  OBVIOUS
<1>11. S \in SUBSET HoldId /\ h \notin S
  BY <1>10
<1>12. /\ x.base[HoldKey(h)].account = a => {k \in E : x.base[HoldKey(k)].account = a} = S \cup {h}
       /\ x.base[HoldKey(h)].account # a => {k \in E : x.base[HoldKey(k)].account = a} = S
  BY <1>1, <1>10
<1>13. Cardinality(S \cup {h}) = Cardinality(S) + 1
  BY <1>11, HoldSets, FS_AddElement
<1> QED BY <1>1, <1>9, <1>10, <1>12, <1>13 DEF CountOn

\* The holds in E stay locked, and their committed rows what they were.
HoldsKept(x, y, E) == \A h \in E :
    HoldKey(h) \in x.locked /\ HoldKey(h) \in y.locked /\ y.base[HoldKey(h)] = x.base[HoldKey(h)]

LEMMA HoldsStay ==
    ASSUME NEW x, NEW y, NEW rows, NEW wr, NEW ev, NEW more, NEW E,
           \A h \in E : HoldKey(h) \in x.locked, Executed(x, y, rows, wr, ev, more)
    PROVE  HoldsKept(x, y, E)
BY DEF Executed, HoldsKept

LEMMA ReleaseKept ==
    ASSUME NEW x, NEW y, NEW E, HoldsKept(x, y, E)
    PROVE  /\ BalancesOf(y, E) = BalancesOf(x, E)
           /\ PaymentsOf(y, E) = PaymentsOf(x, E)
           /\ \A a : ReservedOn(y, E, a) = ReservedOn(x, E, a) /\ CountOn(y, E, a) = CountOn(x, E, a)
           /\ \A a : y.base[Bal(a)] = x.base[Bal(a)] => Freed(y, E, a) = Freed(x, E, a)
           /\ \A c : ReleasedEvents(c, y, E) = ReleasedEvents(c, x, E)
<1>1. \A h \in E : y.base[HoldKey(h)] = x.base[HoldKey(h)]
  BY DEF HoldsKept
<1>2. BalancesOf(y, E) = BalancesOf(x, E) /\ PaymentsOf(y, E) = PaymentsOf(x, E)
  BY <1>1 DEF BalancesOf, PaymentsOf
<1>3. ASSUME NEW a
      PROVE  ReservedOn(y, E, a) = ReservedOn(x, E, a) /\ CountOn(y, E, a) = CountOn(x, E, a)
  <2>1. AmountsOn(y, E, a) = AmountsOn(x, E, a)
    BY <1>1 DEF AmountsOn
  <2>2. {h \in E : y.base[HoldKey(h)].account = a} = {h \in E : x.base[HoldKey(h)].account = a}
    BY <1>1
  <2> QED BY <2>1, <2>2 DEF ReservedOn, CountOn
<1>4. ASSUME NEW a, y.base[Bal(a)] = x.base[Bal(a)] PROVE Freed(y, E, a) = Freed(x, E, a)
  BY <1>3, <1>4 DEF Freed
<1>5. ASSUME NEW c PROVE ReleasedEvents(c, y, E) = ReleasedEvents(c, x, E)
  BY <1>1 DEF ReleasedEvents
<1> QED BY <1>2, <1>3, <1>4, <1>5

LEMMA TargetsKept ==
    ASSUME NEW c \in Call, NEW x, NEW y, NEW E, Targets(c, x, E), HoldsKept(x, y, E)
    PROVE  Targets(c, y, E)
<1>1. \A h \in E : HoldKey(h) \in x.locked /\ Locked(x, h)
  BY DEF Targets
<1>2. \A h \in E : HoldKey(h) \in y.locked /\ y.base[HoldKey(h)] = x.base[HoldKey(h)]
  BY DEF HoldsKept
<1>3. \A h \in E : Locked(y, h)
  BY <1>1, <1>2 DEF Locked
<1> QED BY <1>2, <1>3 DEF Targets

LEMMA BalancesKept ==
    ASSUME NEW x, NEW y, NEW rows, NEW wr, NEW ev, NEW more, NEW B,
           HoldsKept(x, y, B), BalancesFreed(x, B),
           BalancesOf(x, B) \subseteq DOMAIN x.writes, BalancesOf(x, B) \subseteq x.locked,
           \A a : Bal(a) \notin DOMAIN wr, Executed(x, y, rows, wr, ev, more)
    PROVE  BalancesFreed(y, B)
<1>1. SUFFICES ASSUME NEW a \in AccountId, Bal(a) \in BalancesOf(y, B)
               PROVE  /\ y.base[Bal(a)] \in BalanceRow
                      /\ y.writes[Bal(a)] = Freed(y, B, a) /\ y.writes[Bal(a)] \in BalanceRow
  BY DEF BalancesFreed
<1>2. Bal(a) \in BalancesOf(x, B)
  BY <1>1, ReleaseKept
<1>3. y.base[Bal(a)] = x.base[Bal(a)] /\ y.writes[Bal(a)] = x.writes[Bal(a)]
  BY <1>2 DEF Executed
<1>4. Freed(y, B, a) = Freed(x, B, a)
  BY <1>3, ReleaseKept
<1> QED BY <1>2, <1>3, <1>4 DEF BalancesFreed

LEMMA ClosedKept ==
    ASSUME NEW x, NEW y, NEW rows, NEW wr, NEW ev, NEW more, NEW D,
           HoldsKept(x, y, D),
           KeysOf(D) \cup PaymentsOf(x, D) \subseteq DOMAIN x.writes,
           (KeysOf(D) \cup PaymentsOf(x, D)) \cap DOMAIN wr = {},
           NEW status, \A h \in D : Closed(x, h, status),
           Executed(x, y, rows, wr, ev, more)
    PROVE  \A h \in D : Closed(y, h, status)
<1> TAKE h \in D
<1>1. y.base[HoldKey(h)] = x.base[HoldKey(h)]
  BY DEF HoldsKept
<1>2. HoldKey(h) \in KeysOf(D) /\ Pay(x.base[HoldKey(h)].payment) \in PaymentsOf(x, D)
  BY DEF KeysOf, PaymentsOf
<1>3. /\ y.writes[HoldKey(h)] = x.writes[HoldKey(h)]
      /\ y.writes[Pay(x.base[HoldKey(h)].payment)] = x.writes[Pay(x.base[HoldKey(h)].payment)]
  BY <1>2 DEF Executed
<1> QED BY <1>1, <1>3 DEF Closed, Settled

LEMMA FirstEvents ==
    ASSUME NEW c \in Call, NEW x, NEW h, NEW row, row = x.base[HoldKey(h)], Releases(c)
    PROVE  ReleasedEvents(c, x, {h}) = Events(c, h, row)
<1>1. Events(c, h, row) = {Funds("released", h, row.account, row.amount, ReasonOf(c))}
  BY DEF Events, ReasonOf, Releases
<1> QED BY <1>1 DEF ReleasedEvents

\* A hold has been locked, and its release is to be done first.
LEMMA AfterLock ==
    ASSUME NEW c \in Call, NEW y, NEW D \in SUBSET HoldId, NEW h \in HoldId \ D, NEW S, NEW rest \in Seq(S),
           NEW E, E = D \cup {h},
           Targets(c, y, E), DOMAIN y.writes = ReleaseRows(c, y, D, D),
           LocksOf(c, y, D, D, E), Effects(c, y, D, D, E),
           y.todo = ReleaseSteps(h, y.base[HoldKey(h)], ReasonOf(c)) \o rest,
           Pending(c, y, D, 1, rest)
    PROVE  ReleaseLocked(c, y, D, h)
<1>1. PICK a, b : ReleaseSteps(h, y.base[HoldKey(h)], ReasonOf(c)) = <<a, b>>
  BY DEF ReleaseSteps
<1>2. RestOf(y, 2) = rest
  BY <1>1, RestFacts DEF RestOf
<1> QED BY <1>2 DEF ReleaseLocked

LEMMA NoHoldsYet ==
    ASSUME NEW c \in Call, NEW y
    PROVE  /\ BalancesOf(y, {}) = {} /\ KeysOf({}) = {} /\ PaymentsOf(y, {}) = {}
           /\ BalancesFreed(y, {}) /\ ReleasedEvents(c, y, {}) = {}
           /\ ReleaseRows(c, y, {}, {}) = GateRow(c)
BY DEF BalancesOf, KeysOf, PaymentsOf, BalancesFreed, ReleasedEvents, ReleaseRows

LEMMA LockReleaseStep ==
    ASSUME NEW c \in Call, NEW x, NEW y, NEW wr, NEW row, DOMAIN wr = {},
           c.method = "ReleaseFunds", Missed(c, x),
           row = y.base[HoldKey(c.hold)], Locked(y, c.hold),
           NEW rows, NEW ev, NEW more,
           rows = {HoldKey(c.hold)},
           ev = Events(c, c.hold, row),
           more = AfterLockHold(c, c.hold, row),
           Executed(x, y, rows, wr, ev, more)
    PROVE  ReleaseLocked(c, y, {}, c.hold)
<1> DEFINE last == <<Store(c.request, [method |-> c.method])>>
<1>1. x.locked = {} /\ DOMAIN x.writes = {} /\ x.emitted = {}
  BY DEF Missed, Untouched
<1>2. Tail(x.todo) = <<>>
  BY MissedNext DEF At
<1>3. DOMAIN y.writes = {} /\ y.locked = {HoldKey(c.hold)} /\ y.emitted = Events(c, c.hold, row)
  BY <1>1 DEF Executed
<1>4. Releases(c) /\ ~ IsEvent(c) /\ GateRow(c) = {} /\ ReasonOf(c) = c.reason /\ c.hold \in HoldId
  BY CallFacts DEF Releases, IsEvent, GateRow, ReasonOf
<1>5. Targets(c, y, {c.hold})
  BY <1>3, <1>4 DEF Targets
<1>6. LocksOf(c, y, {}, {}, {c.hold})
  BY <1>3, <1>4, NoHoldsYet DEF LocksOf, KeysOf
<1>7. Effects(c, y, {}, {}, {c.hold})
  <2>0. PICK h : h = c.hold
    OBVIOUS
  <2>1. ReleasedEvents(c, y, {h}) = Events(c, h, row)
    BY <1>4, <2>0, FirstEvents
  <2> QED BY <1>3, <1>4, <2>0, <2>1, NoHoldsYet DEF Effects
<1>8. AfterLockHold(c, c.hold, row) = ReleaseSteps(c.hold, row, ReasonOf(c)) \o last
  BY <1>4 DEF AfterLockHold
<1>9. PICK a, b, d : ReleaseSteps(c.hold, row, ReasonOf(c)) = <<a, b>> /\ last = <<d>>
  BY DEF ReleaseSteps
<1>10. (<<a, b>> \o <<d>>) \o <<>> = <<a, b>> \o <<d>>
  <2>1. <<a, b>> \o <<d>> = Append(<<a, b>>, d)
    OBVIOUS
  <2>2. <<a, b>> \in Seq({a, b, d}) /\ d \in {a, b, d}
    OBVIOUS
  <2>3. <<a, b>> \o <<d>> \in Seq({a, b, d})
    BY <2>1, <2>2, AppendProperties
  <2> QED BY <2>3, ConcatEmptySeq
<1>11. y.todo = ReleaseSteps(c.hold, row, ReasonOf(c)) \o last
  BY <1>2, <1>8, <1>9, <1>10 DEF Executed
<1>12. last \in Seq({d})
  BY <1>9
<1>13. Pending(c, y, {}, 1, last)
  BY DEF Pending
<1> HIDE DEF last
<1>14. PICK D : D = {}
  OBVIOUS
<1>15. PICK E : E = {c.hold}
  OBVIOUS
<1>16. ReleaseLocked(c, y, D, c.hold)
  BY <1>3, <1>4, <1>5, <1>6, <1>7, <1>11, <1>12, <1>13, <1>14, <1>15, NoHoldsYet, AfterLock
<1> QED BY <1>14, <1>16

LEMMA LockFailedStep ==
    ASSUME NEW c \in Call, NEW x, NEW y, NEW wr, NEW row, NEW h \in HoldId, DOMAIN wr = {},
           FailedGated(c, x), x.todo = <<LockHold(h)>>,
           row = y.base[HoldKey(h)], Locked(y, h), row.payment = c.payment,
           NEW rows, NEW ev, NEW more,
           rows = {HoldKey(h)},
           ev = Events(c, h, row),
           more = AfterLockHold(c, h, row),
           Executed(x, y, rows, wr, ev, more)
    PROVE  ReleaseLocked(c, y, {}, h)
<1>1. DOMAIN x.writes = {Ev(c.event)} /\ x.locked = DOMAIN x.writes /\ Gated(c, x) /\ x.emitted = {}
  BY DEF FailedGated
<1>2. Tail(x.todo) = <<>>
  OBVIOUS
<1>3. /\ DOMAIN y.writes = {Ev(c.event)} /\ y.locked = {Ev(c.event), HoldKey(h)}
      /\ y.emitted = Events(c, h, row)
  BY <1>1 DEF Executed
<1>4. c.method = "PaymentFailed" /\ Releases(c) /\ GateRow(c) = {Ev(c.event)} /\ ReasonOf(c) = "compensation"
  BY DEF FailedGated, Releases, IsEvent, GateRow, ReasonOf
<1>5. Targets(c, y, {h})
  BY <1>3, <1>4 DEF Targets
<1>6. LocksOf(c, y, {}, {}, {h})
  BY <1>3, <1>4, NoHoldsYet DEF LocksOf, KeysOf
<1>7. Effects(c, y, {}, {}, {h})
  <2>1. ReleasedEvents(c, y, {h}) = Events(c, h, row)
    BY <1>4 DEF Events, ReleasedEvents
  <2>2. Gated(c, y)
    BY <1>1, GatedKept
  <2> QED BY <1>3, <1>4, <2>1, <2>2, NoHoldsYet DEF Effects
<1>8. AfterLockHold(c, h, row) = ReleaseSteps(h, row, ReasonOf(c))
  BY <1>4 DEF AfterLockHold
<1>9. y.todo = ReleaseSteps(h, row, ReasonOf(c)) \o <<>>
  BY <1>2, <1>8 DEF Executed
<1>10. Pending(c, y, {}, 1, <<>>)
  BY <1>4 DEF Pending
<1>11. PICK D : D = {}
  OBVIOUS
<1>12. PICK E : E = {h}
  OBVIOUS
<1>13. PICK rest : rest = <<>>
  OBVIOUS
<1>14. rest \in Seq({}) /\ D \in SUBSET HoldId /\ h \in HoldId \ D /\ E = D \cup {h}
  BY <1>11, <1>12, <1>13
<1>15. DOMAIN y.writes = ReleaseRows(c, y, D, D)
  BY <1>3, <1>4, <1>11, NoHoldsYet
<1>16. ReleaseLocked(c, y, D, h)
  BY <1>5, <1>6, <1>7, <1>9, <1>10, <1>11, <1>12, <1>13, <1>14, <1>15, AfterLock
<1> QED BY <1>11, <1>16

LEMMA LockSweptStep ==
    ASSUME NEW c \in Call, NEW x, NEW y, NEW wr, NEW row, NEW D \in SUBSET HoldId, NEW h \in HoldId \ D,
           DOMAIN wr = {}, c.method = "Sweep", ReleaseDone(c, x, D), x.todo # <<>>,
           At(x, LockHold(h), Tail(x.todo)), HoldKey(h) \in x.locked, Pending(c, x, D, 1, Tail(x.todo)),
           row = y.base[HoldKey(h)], Locked(y, h), y.resp = x.resp,
           NEW rows, NEW ev, NEW more,
           rows = {HoldKey(h)},
           ev = Events(c, h, row),
           more = AfterLockHold(c, h, row),
           Executed(x, y, rows, wr, ev, more)
    PROVE  ReleaseLocked(c, y, D, h)
<1>1. /\ Targets(c, x, D) /\ DOMAIN x.writes = ReleaseRows(c, x, D, D)
      /\ LocksOf(c, x, D, D, D) /\ Effects(c, x, D, D, D)
  BY DEF ReleaseDone
<1>2. PICK rest : rest = Tail(x.todo)
  OBVIOUS
<1>3. Releases(c) /\ ~ IsEvent(c) /\ GateRow(c) = {} /\ ReasonOf(c) = "expiry"
  BY DEF Releases, IsEvent, GateRow, ReasonOf
<1>4. PICK S : rest \in Seq(S)
  BY <1>2, <1>3, PendingFacts
<1>5. \A g \in D : HoldKey(g) \in x.locked /\ Locked(x, g)
  BY <1>1 DEF Targets
<1>6. HoldsKept(x, y, D)
  BY <1>5, HoldsStay
<1>7. /\ BalancesOf(y, D) = BalancesOf(x, D) /\ PaymentsOf(y, D) = PaymentsOf(x, D)
      /\ ReleasedEvents(c, y, D) = ReleasedEvents(c, x, D)
  BY <1>6, ReleaseKept
<1>8. DOMAIN y.writes = DOMAIN x.writes /\ y.locked = x.locked /\ y.emitted = x.emitted \cup Events(c, h, row)
  BY DEF Executed
<1>9. ReleaseRows(c, y, D, D) = ReleaseRows(c, x, D, D)
  BY <1>7 DEF ReleaseRows
<1>10. PICK E : E = D \cup {h}
  OBVIOUS
<1>11. Targets(c, y, E)
  <2>1. Targets(c, y, D)
    BY <1>1, <1>6, TargetsKept
  <2> QED BY <2>1, <1>8, <1>10 DEF Targets
<1>12. LocksOf(c, y, D, D, E)
  <2>1. /\ ReleaseRows(c, x, D, D) \cup KeysOf(D) \subseteq x.locked
        /\ x.locked \subseteq ReleaseRows(c, x, D, D) \cup KeysOf(D) \cup {HoldKey(g) : g \in HoldId}
        /\ \A g \in HoldId : HoldKey(g) \in x.locked => x.base[HoldKey(g)] \in HoldRow
    BY <1>1 DEF LocksOf
  <2>2. KeysOf(E) = KeysOf(D) \cup {HoldKey(h)}
    BY <1>10 DEF KeysOf
  <2>3. \A g \in HoldId : HoldKey(g) \in x.locked => y.base[HoldKey(g)] = x.base[HoldKey(g)]
    BY DEF Executed
  <2> QED BY <2>1, <2>2, <2>3, <1>8, <1>9 DEF LocksOf
<1>13. Effects(c, y, D, D, E)
  <2>1. BalancesOf(x, D) \subseteq DOMAIN x.writes /\ KeysOf(D) \cup PaymentsOf(x, D) \subseteq DOMAIN x.writes
    BY <1>1 DEF ReleaseRows
  <2>2. BalancesOf(x, D) \subseteq x.locked
    BY <1>1, <2>1 DEF LocksOf
  <2>3. BalancesFreed(y, D)
    BY <1>1, <1>6, <2>1, <2>2, BalancesKept DEF Effects
  <2>4. \A g \in D : Closed(y, g, StatusOf(c))
    BY <1>1, <1>6, <2>1, ClosedKept DEF Effects
  <2>5. ReleasedEvents(c, y, E) = ReleasedEvents(c, y, D) \cup Events(c, h, row)
    BY <1>3, <1>10 DEF Events, ReleasedEvents
  <2> QED BY <1>1, <1>3, <1>7, <1>8, <2>3, <2>4, <2>5 DEF Effects
<1>14. y.todo = ReleaseSteps(h, y.base[HoldKey(h)], ReasonOf(c)) \o rest
  BY <1>2, <1>3 DEF Executed, AfterLockHold
<1>15. Pending(c, y, D, 1, rest)
  BY <1>2, <1>8 DEF Pending
<1> QED BY <1>1, <1>4, <1>8, <1>9, <1>10, <1>11, <1>12, <1>13, <1>14, <1>15, AfterLock

LEMMA SelectStep ==
    ASSUME NEW c \in Call, NEW y, c.method = "Sweep",
           y.todo \in Seq({LockHold(h) : h \in HoldId}), Len(y.todo) <= SweepLimit,
           \A i \in 1 .. Len(y.todo) : y.todo[i].rows \subseteq y.locked,
           y.locked \subseteq {HoldKey(h) : h \in HoldId},
           \A h \in HoldId : HoldKey(h) \in y.locked => y.base[HoldKey(h)] \in HoldRow,
           DOMAIN y.writes = {}, y.emitted = {}, y.resp = [released |-> 0]
    PROVE  ReleaseDone(c, y, {})
<1>1. PICK D : D = {}
  OBVIOUS
<1>2. Releases(c) /\ ~ IsEvent(c) /\ GateRow(c) = {}
  BY DEF Releases, IsEvent, GateRow
<1>3. /\ ReleaseRows(c, y, D, D) = {} /\ KeysOf(D) = {} /\ BalancesFreed(y, D)
      /\ ReleasedEvents(c, y, D) = {}
  BY <1>1, <1>2, NoHoldsYet
<1>4. Targets(c, y, D)
  BY <1>1, <1>2 DEF Targets
<1>5. LocksOf(c, y, D, D, D)
  BY <1>3 DEF LocksOf
<1>6. Effects(c, y, D, D, D)
  BY <1>1, <1>2, <1>3 DEF Effects
<1>7. Pending(c, y, D, 0, y.todo)
  <2>1. Cardinality(D) = 0
    BY <1>1, FS_EmptySet
  <2>2. PICK todo : todo = y.todo
    OBVIOUS
  <2>3. PICK S : S = {LockHold(h) : h \in HoldId}
    OBVIOUS
  <2>4. Len(todo) \in Nat
    BY <2>2, <2>3, LenProperties
  <2>5. Cardinality(D) + 0 + Len(todo) <= SweepLimit
    BY <2>1, <2>2, <2>4
  <2> QED BY <2>1, <2>2, <2>5 DEF Pending
<1> QED BY <1>1, <1>3, <1>4, <1>5, <1>6, <1>7 DEF ReleaseDone

LEMMA ReservedNoneOn ==
    ASSUME NEW x, NEW a, NEW D \in SUBSET HoldId, Bal(a) \notin BalancesOf(x, D)
    PROVE  ReservedOn(x, D, a) = 0 /\ CountOn(x, D, a) = 0
<1>1. \A h \in D : x.base[HoldKey(h)].account # a
  BY DEF BalancesOf
<1>2. AmountsOn(x, D, a) \in [HoldId -> Int] /\ \A h \in HoldId : AmountsOn(x, D, a)[h] = 0
  BY <1>1 DEF AmountsOn
<1>3. ReservedOn(x, D, a) = 0
  BY <1>2, SumZero, ConstantsAssumption DEF ReservedOn
<1>4. {h \in D : x.base[HoldKey(h)].account = a} = {}
  BY <1>1
<1> QED BY <1>3, <1>4, FS_EmptySet DEF CountOn

\* One more hold released from a balance.
LEMMA FreedMore ==
    ASSUME NEW x, NEW a, NEW D \in SUBSET HoldId, NEW h \in HoldId \ D, NEW E, E = D \cup {h},
           \A g \in E : x.base[HoldKey(g)] \in HoldRow, x.base[Bal(a)] \in BalanceRow
    PROVE  /\ x.base[HoldKey(h)].account = a =>
                Freed(x, E, a) = Bumped(Freed(x, D, a), x.base[HoldKey(h)].amount, -x.base[HoldKey(h)].amount)
           /\ x.base[HoldKey(h)].account # a => Freed(x, E, a) = Freed(x, D, a)
<1>1. ReservedOn(x, D, a) \in Int /\ CountOn(x, D, a) \in Nat
  BY ReservedFacts
<1>2. PICK b : b = x.base[Bal(a)]
  OBVIOUS
<1>3. b \in [available : 0 .. MaxBigint, held : 0 .. MaxBigint, version : Nat]
  BY <1>2 DEF BalanceRow
<1>4. b.available \in Int /\ b.held \in Int /\ b.version \in Int /\
      b = [available |-> b.available, held |-> b.held, version |-> b.version]
  BY <1>3
<1>5. x.base[HoldKey(h)].amount \in Int
  BY DEF HoldRow
<1>6. ASSUME x.base[HoldKey(h)].account = a
      PROVE  Freed(x, E, a) = Bumped(Freed(x, D, a), x.base[HoldKey(h)].amount, -x.base[HoldKey(h)].amount)
  <2>1. /\ ReservedOn(x, E, a) = ReservedOn(x, D, a) + x.base[HoldKey(h)].amount
        /\ CountOn(x, E, a) = CountOn(x, D, a) + 1
    BY <1>6, ReservedMore
  <2> QED BY <1>1, <1>2, <1>4, <1>5, <2>1 DEF Freed, Bumped
<1>7. ASSUME x.base[HoldKey(h)].account # a PROVE Freed(x, E, a) = Freed(x, D, a)
  <2>1. ReservedOn(x, E, a) = ReservedOn(x, D, a) /\ CountOn(x, E, a) = CountOn(x, D, a)
    BY <1>7, ReservedMore
  <2> QED BY <2>1 DEF Freed
<1> QED BY <1>6, <1>7

LEMMA FreedNone ==
    ASSUME NEW x, NEW a, NEW D \in SUBSET HoldId, Bal(a) \notin BalancesOf(x, D), x.base[Bal(a)] \in BalanceRow
    PROVE  Freed(x, D, a) = x.base[Bal(a)]
<1>1. ReservedOn(x, D, a) = 0 /\ CountOn(x, D, a) = 0
  BY ReservedNoneOn
<1>2. PICK b : b = x.base[Bal(a)]
  OBVIOUS
<1>3. b \in [available : 0 .. MaxBigint, held : 0 .. MaxBigint, version : Nat]
  BY <1>2 DEF BalanceRow
<1>4. b.available \in Int /\ b.held \in Int /\ b.version \in Int /\
      b = [available |-> b.available, held |-> b.held, version |-> b.version]
  BY <1>3
<1> QED BY <1>1, <1>2, <1>4 DEF Freed

\* The rows a release writes, by table.
LEMMA ReleaseRowKinds ==
    ASSUME NEW c, NEW x, NEW B, NEW D
    PROVE  /\ \A a : Bal(a) \in ReleaseRows(c, x, B, D) <=> Bal(a) \in BalancesOf(x, B)
           /\ \A h : HoldKey(h) \in ReleaseRows(c, x, B, D) <=> h \in D
           /\ \A p : Pay(p) \in ReleaseRows(c, x, B, D) <=> Pay(p) \in PaymentsOf(x, D)
           /\ \A k : Txn(k) \notin ReleaseRows(c, x, B, D)
           /\ \A r : Req(r) \notin ReleaseRows(c, x, B, D)
           /\ \A e : Ev(e) \in ReleaseRows(c, x, B, D) => IsEvent(c) /\ e = c.event
<1>1. /\ \A row \in BalancesOf(x, B) : row[1] = "account_balances"
      /\ \A row \in KeysOf(D) : row[1] = "holds" /\ row[2] \in D
      /\ \A row \in PaymentsOf(x, D) : row[1] = "holds_active_payment_uq"
      /\ \A row \in GateRow(c) : IsEvent(c) /\ row[1] = "processed_events" /\ row[2] = c.event
      /\ \A h \in D : HoldKey(h) \in KeysOf(D)
  <2>1. \A row \in BalancesOf(x, B) : row[1] = "account_balances"
    BY KeyKinds DEF BalancesOf
  <2>2. \A row \in KeysOf(D) : row[1] = "holds" /\ row[2] \in D
    BY KeyKinds DEF KeysOf
  <2>3. \A row \in PaymentsOf(x, D) : row[1] = "holds_active_payment_uq"
    BY KeyKinds DEF PaymentsOf
  <2>4. \A row \in GateRow(c) : IsEvent(c) /\ row[1] = "processed_events" /\ row[2] = c.event
    BY KeyKinds DEF GateRow
  <2>5. \A h \in D : HoldKey(h) \in KeysOf(D)
    BY DEF KeysOf
  <2> QED BY <2>1, <2>2, <2>3, <2>4, <2>5
<1>2. ASSUME NEW a PROVE Bal(a) \in ReleaseRows(c, x, B, D) <=> Bal(a) \in BalancesOf(x, B)
  BY <1>1, KeyKinds DEF ReleaseRows
<1>3. ASSUME NEW h PROVE HoldKey(h) \in ReleaseRows(c, x, B, D) <=> h \in D
  BY <1>1, KeyKinds DEF ReleaseRows
<1>4. ASSUME NEW p PROVE Pay(p) \in ReleaseRows(c, x, B, D) <=> Pay(p) \in PaymentsOf(x, D)
  BY <1>1, KeyKinds DEF ReleaseRows
<1>5. ASSUME NEW k PROVE Txn(k) \notin ReleaseRows(c, x, B, D) /\ Req(k) \notin ReleaseRows(c, x, B, D)
  BY <1>1, KeyKinds DEF ReleaseRows
<1>6. ASSUME NEW e, Ev(e) \in ReleaseRows(c, x, B, D) PROVE IsEvent(c) /\ e = c.event
  BY <1>1, <1>6, KeyKinds DEF ReleaseRows
<1> QED BY <1>2, <1>3, <1>4, <1>5, <1>6

LEMMA FreeStep ==
    ASSUME NEW c \in Call, NEW x, NEW y, NEW wr, NEW D \in SUBSET HoldId, NEW h \in HoldId, NEW row, NEW before,
           ReleaseLocked(c, x, D, h), row = x.base[HoldKey(h)], DOMAIN wr = {Bal(row.account)},
           y.base[Bal(row.account)] \in BalanceRow, y.resp = x.resp,
           before = IF Bal(row.account) \in DOMAIN x.writes THEN x.writes[Bal(row.account)] ELSE y.base[Bal(row.account)],
           wr[Bal(row.account)] = Bumped(before, row.amount, -row.amount), wr[Bal(row.account)] \in BalanceRow,
           NEW rows, NEW ev, NEW more,
           rows = {Bal(row.account)},
           ev = {},
           more = <<>>,
           Executed(x, y, rows, wr, ev, more)
    PROVE  ReleaseBumped(c, y, D, h)
<1>1. PICK E : E = D \cup {h}
  OBVIOUS
<1>2. /\ h \in HoldId \ D /\ Targets(c, x, E) /\ DOMAIN x.writes = ReleaseRows(c, x, D, D)
      /\ LocksOf(c, x, D, D, E) /\ Effects(c, x, D, D, E)
  BY <1>1 DEF ReleaseLocked
<1>3. PICK rest : /\ At(x, BumpReleased(x, h), <<CloseReleased(c, x, h)>> \o rest)
                  /\ Pending(c, x, D, 1, rest) /\ \E S : rest \in Seq(S)
  BY ReleaseNext
<1>4. PICK S : rest \in Seq(S)
  BY <1>3
<1>5. \A g \in E : HoldKey(g) \in x.locked /\ Locked(x, g)
  BY <1>2 DEF Targets
<1>6. HoldsKept(x, y, E) /\ HoldsKept(x, y, D)
  <2>1. HoldsKept(x, y, E)
    BY <1>5 DEF Executed, HoldsKept
  <2> QED BY <1>1, <2>1 DEF HoldsKept
<1>7. /\ BalancesOf(y, D) = BalancesOf(x, D) /\ PaymentsOf(y, D) = PaymentsOf(x, D)
      /\ BalancesOf(y, E) = BalancesOf(x, E) /\ ReleasedEvents(c, y, E) = ReleasedEvents(c, x, E)
  BY <1>6, ReleaseKept
<1>8. /\ DOMAIN y.writes = DOMAIN x.writes \cup {Bal(row.account)} /\ y.locked = x.locked \cup {Bal(row.account)}
      /\ y.emitted = x.emitted
  BY DEF Executed
<1>9. BalancesOf(x, E) = BalancesOf(x, D) \cup {Bal(row.account)}
  BY <1>1 DEF BalancesOf
<1>10. ReleaseRows(c, y, E, D) = ReleaseRows(c, x, D, D) \cup {Bal(row.account)}
  BY <1>7, <1>9 DEF ReleaseRows
<1>11. y.base[HoldKey(h)] = row
  BY <1>1, <1>6 DEF HoldsKept
<1>12. Targets(c, y, E)
  BY <1>2, <1>6, TargetsKept
<1>13. LocksOf(c, y, E, D, E)
  <2>1. CASE c.method = "Sweep"
    <3>1. /\ ReleaseRows(c, x, D, D) \cup KeysOf(E) \subseteq x.locked
          /\ x.locked \subseteq ReleaseRows(c, x, D, D) \cup KeysOf(E) \cup {HoldKey(g) : g \in HoldId}
          /\ \A g \in HoldId : HoldKey(g) \in x.locked => x.base[HoldKey(g)] \in HoldRow
      BY <1>2, <2>1 DEF LocksOf
    <3>2. \A g \in HoldId : HoldKey(g) \in y.locked =>
                HoldKey(g) \in x.locked /\ y.base[HoldKey(g)] = x.base[HoldKey(g)]
      BY <1>8, KeyFacts DEF Executed
    <3> QED BY <2>1, <3>1, <3>2, <1>8, <1>10 DEF LocksOf
  <2>2. CASE c.method # "Sweep"
    BY <2>2, <1>2, <1>8, <1>10 DEF LocksOf
  <2> QED BY <2>1, <2>2
<1>14. BalancesFreed(y, E)
  <2> SUFFICES ASSUME NEW a \in AccountId, Bal(a) \in BalancesOf(y, E)
               PROVE  /\ y.base[Bal(a)] \in BalanceRow
                      /\ y.writes[Bal(a)] = Freed(y, E, a) /\ y.writes[Bal(a)] \in BalanceRow
    BY DEF BalancesFreed
  <2>1. BalancesOf(x, D) \subseteq DOMAIN x.writes /\ BalancesOf(x, D) \subseteq x.locked
    BY <1>2 DEF ReleaseRows, LocksOf
  <2>2. \A g \in E : y.base[HoldKey(g)] \in HoldRow
    BY <1>5, <1>6 DEF Locked, HoldsKept
  <2>3. BalancesFreed(x, D)
    BY <1>2 DEF Effects
  <2>4. ASSUME Bal(a) \in BalancesOf(x, D)
        PROVE  /\ y.base[Bal(a)] = x.base[Bal(a)] /\ x.base[Bal(a)] \in BalanceRow
               /\ x.writes[Bal(a)] = Freed(y, D, a) /\ x.writes[Bal(a)] \in BalanceRow
    <3>1. y.base[Bal(a)] = x.base[Bal(a)]
      BY <2>1, <2>4 DEF Executed
    <3>2. Freed(y, D, a) = Freed(x, D, a)
      BY <1>6, <3>1, ReleaseKept
    <3> QED BY <2>3, <2>4, <3>1, <3>2 DEF BalancesFreed
  <2>5. CASE a = row.account
    <3>1. y.base[Bal(a)] \in BalanceRow
      BY <2>5
    <3>2. y.writes[Bal(a)] = Bumped(before, row.amount, -row.amount) /\ y.writes[Bal(a)] \in BalanceRow
      BY <2>5 DEF Executed
    <3>3. before = Freed(y, D, a)
      <4>1. CASE Bal(a) \in BalancesOf(x, D)
        BY <4>1, <2>1, <2>4, <2>5
      <4>2. CASE Bal(a) \notin BalancesOf(x, D)
        <5>1. Bal(a) \notin DOMAIN x.writes
          BY <4>2, <1>2, ReleaseRowKinds
        <5>2. Freed(y, D, a) = y.base[Bal(a)]
          BY <4>2, <1>7, <3>1, FreedNone
        <5> QED BY <5>1, <5>2, <2>5
      <4> QED BY <4>1, <4>2
    <3>4. Freed(y, E, a) = Bumped(Freed(y, D, a), row.amount, -row.amount)
      BY <1>1, <1>2, <1>11, <2>2, <2>5, <3>1, FreedMore
    <3> QED BY <3>1, <3>2, <3>3, <3>4
  <2>6. CASE a # row.account
    <3>1. Bal(a) \in BalancesOf(x, D) /\ Bal(a) # Bal(row.account)
      BY <1>7, <1>9, <2>6, KeyFacts
    <3>2. y.writes[Bal(a)] = x.writes[Bal(a)]
      BY <2>1, <3>1 DEF Executed
    <3>3. Freed(y, E, a) = Freed(y, D, a)
      BY <1>1, <1>2, <1>11, <2>2, <2>4, <2>6, <3>1, FreedMore
    <3> QED BY <2>4, <3>1, <3>2, <3>3
  <2> QED BY <2>5, <2>6
<1>15. \A g \in D : Closed(y, g, StatusOf(c))
  <2>1. KeysOf(D) \cup PaymentsOf(x, D) \subseteq DOMAIN x.writes
    BY <1>2 DEF ReleaseRows
  <2>2. (KeysOf(D) \cup PaymentsOf(x, D)) \cap DOMAIN wr = {}
    BY KeyFacts DEF KeysOf, PaymentsOf
  <2> QED BY <1>2, <1>6, <2>1, <2>2, ClosedKept DEF Effects
<1>16. IsEvent(c) => Gated(c, y)
  <2>1. IsEvent(c) => Ev(c.event) \in DOMAIN x.writes \ DOMAIN wr
    BY <1>2, KeyFacts DEF ReleaseRows, GateRow
  <2> QED BY <1>2, <2>1, GatedKept DEF Effects
<1>17. Effects(c, y, E, D, E)
  BY <1>2, <1>7, <1>8, <1>14, <1>15, <1>16 DEF Effects
<1>18. CloseReleased(c, y, h) = CloseReleased(c, x, h)
  BY <1>11 DEF CloseReleased
<1>19. y.todo = <<CloseReleased(c, y, h)>> \o rest
  <2>1. y.todo = <<>> \o (<<CloseReleased(c, x, h)>> \o rest)
    BY <1>3 DEF Executed, At
  <2>2. PICK t : t = CloseReleased(c, x, h)
    OBVIOUS
  <2>3. <<>> \o (<<t>> \o rest) = <<t>> \o rest
    BY <1>4
  <2> QED BY <1>18, <2>1, <2>2, <2>3
<1>20. RestOf(y, 1) = rest
  <2>1. PICK t : t = CloseReleased(c, y, h)
    OBVIOUS
  <2> QED BY <1>4, <1>19, <2>1, RestFacts DEF RestOf
<1>21. Pending(c, y, D, 1, rest)
  BY <1>3, <1>8 DEF Pending
<1> QED BY <1>1, <1>2, <1>8, <1>10, <1>12, <1>13, <1>17, <1>19, <1>20, <1>21 DEF ReleaseBumped, CloseReleased

LEMMA CloseReleaseStep ==
    ASSUME NEW c \in Call, NEW x, NEW y, NEW wr, NEW D \in SUBSET HoldId, NEW h \in HoldId, NEW row,
           ReleaseBumped(c, x, D, h), row = x.base[HoldKey(h)], DOMAIN wr = {HoldKey(h), Pay(row.payment)},
           wr[HoldKey(h)] = Settled(x, h, StatusOf(c)), wr[Pay(row.payment)] = NoRow,
           c.method = "Sweep" => y.resp = [released |-> x.resp.released + 1],
           NEW rows, NEW ev, NEW more,
           rows = {HoldKey(h), Pay(row.payment)},
           ev = {},
           more = <<>>,
           Executed(x, y, rows, wr, ev, more)
    PROVE  ReleaseDone(c, y, D \cup {h})
<1>1. PICK E : E = D \cup {h}
  OBVIOUS
<1>2. /\ h \in HoldId \ D /\ Targets(c, x, E) /\ DOMAIN x.writes = ReleaseRows(c, x, E, D)
      /\ LocksOf(c, x, E, D, E) /\ Effects(c, x, E, D, E)
  BY <1>1 DEF ReleaseBumped
<1>3. PICK rest : At(x, CloseReleased(c, x, h), rest) /\ Pending(c, x, D, 1, rest) /\ \E S : rest \in Seq(S)
  BY ReleaseNext
<1>4. PICK S : rest \in Seq(S)
  BY <1>3
<1>5. \A g \in E : HoldKey(g) \in x.locked /\ Locked(x, g)
  BY <1>2 DEF Targets
<1>6. HoldsKept(x, y, E) /\ HoldsKept(x, y, D)
  <2>1. HoldsKept(x, y, E)
    BY <1>5 DEF Executed, HoldsKept
  <2> QED BY <1>1, <2>1 DEF HoldsKept
<1>7. /\ BalancesOf(y, E) = BalancesOf(x, E) /\ ReleasedEvents(c, y, E) = ReleasedEvents(c, x, E)
      /\ PaymentsOf(y, E) = PaymentsOf(x, E)
  BY <1>6, ReleaseKept
<1>8. /\ DOMAIN y.writes = DOMAIN x.writes \cup {HoldKey(h), Pay(row.payment)}
      /\ y.locked = x.locked \cup {HoldKey(h), Pay(row.payment)}
      /\ y.emitted = x.emitted
  BY DEF Executed
<1>9. PaymentsOf(x, E) = PaymentsOf(x, D) \cup {Pay(row.payment)} /\ KeysOf(E) = KeysOf(D) \cup {HoldKey(h)}
  BY <1>1 DEF PaymentsOf, KeysOf
<1>10. ReleaseRows(c, y, E, E) = ReleaseRows(c, x, E, D) \cup {HoldKey(h), Pay(row.payment)}
  BY <1>7, <1>9 DEF ReleaseRows
<1>11. y.base[HoldKey(h)] = row
  BY <1>1, <1>6 DEF HoldsKept
<1>12. Targets(c, y, E)
  BY <1>2, <1>6, TargetsKept
<1>13. LocksOf(c, y, E, E, E)
  <2>1. CASE c.method = "Sweep"
    <3>1. /\ ReleaseRows(c, x, E, D) \cup KeysOf(E) \subseteq x.locked
          /\ x.locked \subseteq ReleaseRows(c, x, E, D) \cup KeysOf(E) \cup {HoldKey(g) : g \in HoldId}
          /\ \A g \in HoldId : HoldKey(g) \in x.locked => x.base[HoldKey(g)] \in HoldRow
      BY <1>2, <2>1 DEF LocksOf
    <3>2. HoldKey(h) \in x.locked
      BY <1>1, <1>5
    <3>3. \A g \in HoldId : HoldKey(g) \in y.locked => HoldKey(g) \in x.locked
      BY <1>8, <3>2, KeyKinds
    <3>4. \A g \in HoldId : HoldKey(g) \in y.locked => y.base[HoldKey(g)] = x.base[HoldKey(g)]
      BY <3>3 DEF Executed
    <3> QED BY <2>1, <3>1, <3>3, <3>4, <1>8, <1>10 DEF LocksOf
  <2>2. CASE c.method # "Sweep"
    BY <2>2, <1>2, <1>8, <1>10 DEF LocksOf
  <2> QED BY <2>1, <2>2
<1>14. BalancesFreed(y, E)
  <2>1. BalancesOf(x, E) \subseteq DOMAIN x.writes /\ BalancesOf(x, E) \subseteq x.locked
    BY <1>2 DEF ReleaseRows, LocksOf
  <2>2. \A a : Bal(a) \notin DOMAIN wr
    BY KeyKinds
  <2> QED BY <1>2, <1>6, <2>1, <2>2, BalancesKept DEF Effects
<1>15. \A g \in E : Closed(y, g, StatusOf(c))
  <2> TAKE g \in E
  <2>1. CASE g = h
    BY <2>1, <1>11 DEF Executed, Closed, Settled
  <2>2. CASE g # h
    <3>1. g \in D /\ y.base[HoldKey(g)] = x.base[HoldKey(g)] /\ Closed(x, g, StatusOf(c))
      BY <2>2, <1>1, <1>2, <1>6 DEF HoldsKept, Effects
    <3>2. HoldKey(g) \in DOMAIN x.writes /\ Pay(x.base[HoldKey(g)].payment) \in DOMAIN x.writes
      BY <3>1, <1>2 DEF ReleaseRows, KeysOf, PaymentsOf
    <3>3. y.writes[HoldKey(g)] = x.writes[HoldKey(g)]
      BY <2>2, <3>2, KeyKinds DEF Executed
    <3>4. y.writes[Pay(x.base[HoldKey(g)].payment)] = NoRow
      <4>1. PICK p : p = Pay(x.base[HoldKey(g)].payment)
        OBVIOUS
      <4>2. p # HoldKey(h)
        BY <4>1, KeyKinds
      <4>3. CASE p \in DOMAIN wr
        BY <4>1, <4>2, <4>3 DEF Executed
      <4>4. CASE p \notin DOMAIN wr
        BY <3>1, <3>2, <4>1, <4>4 DEF Executed, Closed
      <4> QED BY <4>1, <4>3, <4>4
    <3> QED BY <3>1, <3>3, <3>4 DEF Closed, Settled
  <2> QED BY <2>1, <2>2
<1>16. IsEvent(c) => Gated(c, y)
  <2>1. IsEvent(c) => Ev(c.event) \in DOMAIN x.writes \ DOMAIN wr
    BY <1>2, KeyKinds DEF ReleaseRows, GateRow
  <2> QED BY <1>2, <2>1, GatedKept DEF Effects
<1>17. Effects(c, y, E, E, E)
  BY <1>2, <1>7, <1>8, <1>14, <1>15, <1>16 DEF Effects
<1>18. y.todo = rest
  <2>1. y.todo = <<>> \o rest
    BY <1>3 DEF Executed, At
  <2> QED BY <1>4, <2>1, RestFacts
<1>19. Pending(c, y, E, 0, y.todo)
  <2>1. CASE c.method = "Sweep"
    <3>1. Cardinality(E) = Cardinality(D) + 1 /\ Cardinality(D) \in Nat
      BY <1>1, <1>2, HoldSets, FS_AddElement
    <3>2. /\ rest \in Seq({LockHold(g) : g \in HoldId})
          /\ \A i \in 1 .. Len(rest) : rest[i].rows \subseteq x.locked
          /\ Cardinality(D) + 1 + Len(rest) <= SweepLimit
          /\ x.resp = [released |-> Cardinality(D)]
      BY <1>3, <2>1 DEF Pending
    <3>3. Len(rest) \in Nat
      BY <1>4, LenProperties
    <3>4. y.resp = [released |-> Cardinality(E)]
      BY <2>1, <3>1, <3>2
    <3>5. Cardinality(E) + 0 + Len(rest) <= SweepLimit
      BY <3>1, <3>2, <3>3
    <3> QED BY <1>8, <1>18, <2>1, <3>2, <3>4, <3>5 DEF Pending
  <2>2. CASE c.method # "Sweep"
    BY <2>2, <1>3, <1>18 DEF Pending
  <2> QED BY <2>1, <2>2
<1> QED BY <1>1, <1>2, <1>8, <1>10, <1>12, <1>13, <1>17, <1>19 DEF ReleaseDone

LEMMA StoreReleaseStep ==
    ASSUME NEW c \in Call, NEW x, NEW y, NEW wr, NEW D \in SUBSET HoldId, DOMAIN wr = {Req(c.request)},
           c.method = "ReleaseFunds", ReleaseDone(c, x, D),
           wr[Req(c.request)] = [method |-> c.method], y.resp = [method |-> c.method],
           y.base[Req(c.request)] = NoRow,
           NEW rows, NEW ev, NEW more,
           rows = {Req(c.request)},
           ev = {},
           more = <<>>,
           Executed(x, y, rows, wr, ev, more)
    PROVE  \E h \in HoldId : ReleaseStored(c, y, h)
<1>1. /\ Targets(c, x, D) /\ DOMAIN x.writes = ReleaseRows(c, x, D, D)
      /\ LocksOf(c, x, D, D, D) /\ Effects(c, x, D, D, D)
  BY DEF ReleaseDone
<1>2. PICK h \in HoldId : D = {h}
  BY <1>1 DEF Targets
<1>3. Tail(x.todo) = <<>>
  BY DoneNext DEF At
<1>4. y.todo = <<>>
  BY <1>3, ConcatFacts DEF Executed
<1>5. \A g \in D : HoldKey(g) \in x.locked
  BY <1>1 DEF Targets
<1>6. HoldsKept(x, y, D)
  BY <1>5, HoldsStay
<1>7. /\ BalancesOf(y, D) = BalancesOf(x, D) /\ ReleasedEvents(c, y, D) = ReleasedEvents(c, x, D)
      /\ PaymentsOf(y, D) = PaymentsOf(x, D)
  BY <1>6, ReleaseKept
<1>8. /\ DOMAIN y.writes = DOMAIN x.writes \cup {Req(c.request)}
      /\ y.locked = x.locked \cup {Req(c.request)}
      /\ y.emitted = x.emitted
  BY DEF Executed
<1>9. ReleaseRows(c, y, D, D) = ReleaseRows(c, x, D, D) /\ KeysOf(D) \subseteq ReleaseRows(c, x, D, D)
  BY <1>7 DEF ReleaseRows
<1>10. x.locked = DOMAIN x.writes
  BY <1>1, <1>9 DEF LocksOf
<1>11. Targets(c, y, D)
  BY <1>1, <1>6, TargetsKept
<1>12. BalancesFreed(y, D)
  <2>1. BalancesOf(x, D) \subseteq DOMAIN x.writes /\ BalancesOf(x, D) \subseteq x.locked
    BY <1>1, <1>10 DEF ReleaseRows
  <2>2. \A a : Bal(a) \notin DOMAIN wr
    BY KeyKinds
  <2> QED BY <1>1, <1>6, <2>1, <2>2, BalancesKept DEF Effects
<1>13. \A g \in D : Closed(y, g, StatusOf(c))
  <2>1. KeysOf(D) \cup PaymentsOf(x, D) \subseteq DOMAIN x.writes
    BY <1>1 DEF ReleaseRows
  <2>2. (KeysOf(D) \cup PaymentsOf(x, D)) \cap DOMAIN wr = {}
    BY <1>1, <2>1, ReleaseRowKinds
  <2> QED BY <1>1, <1>6, <2>1, <2>2, ClosedKept DEF Effects
<1>14. ~ IsEvent(c)
  BY DEF IsEvent
<1>15. Effects(c, y, D, D, D)
  BY <1>1, <1>7, <1>8, <1>12, <1>13, <1>14 DEF Effects
<1>16. Stored(c, y, [method |-> c.method])
  BY <1>4 DEF Stored, Executed
<1>17. ReleaseStored(c, y, h)
  BY <1>1, <1>2, <1>8, <1>9, <1>10, <1>11, <1>15, <1>16 DEF ReleaseStored
<1> QED BY <1>17


\* What executing a statement does to the transaction, and what it leaves alone.
LEMMA ProceedFacts ==
    ASSUME NEW w \in Worker, tx = [v \in Worker |-> tx[v]], DOMAIN tx[w] = TxFields,
           NEW wr, NEW ev, NEW more, Proceed(w, wr, ev, more)
    PROVE  /\ tx' = [v \in Worker |-> tx'[v]] /\ DOMAIN tx'[w] = TxFields
           /\ \A v \in Worker \ {w} : tx'[v] = tx[v]
           /\ tx'[w].older = tx[w].older
           /\ tx'[w].todo = more \o Tail(tx[w].todo)
           /\ tx'[w].writes = Over(wr, tx[w].writes)
           /\ tx'[w].locked = tx[w].locked \cup Statement(w).rows \cup DOMAIN wr
           /\ tx'[w].emitted = tx[w].emitted \cup ev
           /\ UNCHANGED <<db, outbox, due, call, attempt, outcome>>
BY DEF Proceed, TxFields

LEMMA ProceedExecuted ==
    ASSUME NEW w \in Worker, tx = [v \in Worker |-> tx[v]], DOMAIN tx[w] = TxFields,
           NEW wr, NEW ev, NEW more, Proceed(w, wr, ev, more),
           NEW x, NEW y, NEW rows, x = Progress(w), y = Progress(w)', rows = Statement(w).rows
    PROVE  Executed(x, y, rows, wr, ev, more)
<1>1. x.todo = tx[w].todo /\ x.writes = tx[w].writes /\ x.locked = tx[w].locked /\ x.emitted = tx[w].emitted
      /\ \A r \in x.locked : x.base[r] = db[r]
  BY DEF Progress
<1>2. y.todo = tx'[w].todo /\ y.writes = tx'[w].writes /\ y.locked = tx'[w].locked /\ y.emitted = tx'[w].emitted
      /\ \A r \in y.locked : y.base[r] = db'[r]
  BY DEF Progress
<1>3. y.todo = more \o Tail(x.todo) /\ y.locked = x.locked \cup Statement(w).rows \cup DOMAIN wr
      /\ y.emitted = x.emitted \cup ev /\ y.writes = Over(wr, x.writes) /\ db' = db
  BY <1>1, <1>2, ProceedFacts
<1>4. DOMAIN y.writes = DOMAIN wr \cup DOMAIN x.writes
      /\ (\A r \in DOMAIN wr : y.writes[r] = wr[r])
      /\ \A r \in DOMAIN x.writes : r \notin DOMAIN wr => y.writes[r] = x.writes[r]
  <2>1. PICK f : f = x.writes
    OBVIOUS
  <2>2. y.writes = Over(wr, f)
    BY <1>3, <2>1
  <2>3. PICK g : g = y.writes
    OBVIOUS
  <2>4. DOMAIN g = DOMAIN wr \cup DOMAIN f
    BY <2>2, <2>3 DEF Over
  <2>5. \A r \in DOMAIN wr : g[r] = wr[r]
    BY <2>2, <2>3 DEF Over
  <2>6. \A r \in DOMAIN f : r \notin DOMAIN wr => g[r] = f[r]
    BY <2>2, <2>3 DEF Over
  <2> QED BY <2>1, <2>3, <2>4, <2>5, <2>6
<1> QED BY <1>1, <1>2, <1>3, <1>4 DEF Executed

-----------------------------------------------------------------------------
(* What a transaction has locked.                                          *)

LEMMA NoRowFacts ==
    /\ NoRow \notin BalanceRow /\ NoRow \notin HoldRow /\ NoRow \notin TxnRow /\ NoRow \notin Response
    /\ NoRow \notin HoldId /\ NoRow # "processed"
BY ConstantsAssumption, TransactionsAssumption

LEMMA AccountFacts ==
    /\ \A a \in UserAccount : a \in AccountId /\ a \notin SystemAccount
    /\ \A cur \in Currency : Payable(cur) \in AccountId /\ Settlement(cur) \in AccountId
    /\ Settlement(DefaultCurrency) \in AccountId
    /\ \A h \in HoldId : CaptureKey(h) \in IdemKey
    /\ \A u \in User : WelcomeKey(u) \in IdemKey
BY ConstantsAssumption DEF AccountId, SystemAccount, IdemKey

LEMMA HoldRowFacts ==
    ASSUME NEW row \in HoldRow
    PROVE  /\ row.account \in AccountId /\ row.payment \in Payment /\ row.amount \in Nat \ {0}
           /\ row.currency \in Currency /\ Payable(row.currency) \in AccountId
BY AccountFacts DEF HoldRow

\* A locked balance or hold is one that exists or that the transaction writes.
LocksKnown(x) ==
    /\ DOMAIN x.writes \subseteq x.locked /\ x.locked \subseteq Row
    /\ \A a \in AccountId : Bal(a) \in x.locked /\ Bal(a) \notin DOMAIN x.writes => x.base[Bal(a)] # NoRow
    /\ \A h \in HoldId : HoldKey(h) \in x.locked /\ HoldKey(h) \notin DOMAIN x.writes => x.base[HoldKey(h)] # NoRow

LEMMA NothingLocked ==
    ASSUME NEW x, x.locked = {}, DOMAIN x.writes = {}
    PROVE  LocksKnown(x)
BY DEF LocksKnown

LEMMA AllWritten ==
    ASSUME NEW x, x.locked = DOMAIN x.writes, x.locked \subseteq Row
    PROVE  LocksKnown(x)
BY DEF LocksKnown

LEMMA HoldLocks ==
    ASSUME NEW c \in Call, NEW x, HoldStage(c, x)
    PROVE  LocksKnown(x)
<1>1. c.method = "HoldFunds"
  BY DEF HoldStage
<1>2. Bal(c.account) \in Row /\ Pay(c.payment) \in Row /\ Req(c.request) \in Row
  BY <1>1, CallFacts, RowFacts
<1>3. \A h \in HoldId : HoldKey(h) \in Row
  BY RowFacts
<1>4. Affordable(c, x) => x.base[Bal(c.account)] # NoRow
  BY NoRowFacts DEF Affordable
<1>5. CASE HoldChecked(c, x)
  BY <1>2, <1>4, <1>5, KeyKinds DEF HoldChecked, Untouched, LocksKnown
<1>6. ASSUME NEW h \in HoldId, HoldInserted(c, x, h) PROVE LocksKnown(x)
  BY <1>2, <1>3, <1>4, <1>6, KeyKinds DEF HoldInserted, HoldRows, Inserted, LocksKnown
<1>7. ASSUME NEW h \in HoldId, HoldBumped(c, x, h) PROVE LocksKnown(x)
  BY <1>2, <1>3, <1>7, AllWritten DEF HoldBumped, HoldRows
<1>8. ASSUME NEW h \in HoldId, HoldStored(c, x, h) PROVE LocksKnown(x)
  BY <1>2, <1>3, <1>8, AllWritten DEF HoldStored, HoldRows
<1> QED BY <1>5, <1>6, <1>7, <1>8 DEF HoldStage

LEMMA CaptureLocks ==
    ASSUME NEW c \in Call, NEW x, CaptureStage(c, x)
    PROVE  LocksKnown(x)
<1>1. c.method = "CaptureFunds" /\ c.hold \in HoldId
  BY CallFacts DEF CaptureStage
<1>2. Locked(x, c.hold)
  BY DEF CaptureStage, CaptureLocked, CapturePosted, CapturePaid, CaptureTransferred, CaptureClosed,
         CaptureStored, Transferred, Capturing
<1>3. PICK row : row = CaptureRow(c, x) /\ row \in HoldRow
  BY <1>2 DEF Locked, CaptureRow
<1>4. /\ HoldKey(c.hold) \in Row /\ Txn(CaptureKey(c.hold)) \in Row /\ Payer(c, x) \in Row /\ Payee(c, x) \in Row
      /\ Pay(CaptureRow(c, x).payment) \in Row /\ Req(c.request) \in Row
  BY <1>1, <1>3, CallFacts, HoldRowFacts, AccountFacts, RowFacts DEF Payer, Payee
<1>5. x.base[HoldKey(c.hold)] # NoRow
  BY <1>3, NoRowFacts DEF CaptureRow
<1>6. ASSUME x.locked = {HoldKey(c.hold)} \cup DOMAIN x.writes, DOMAIN x.writes \subseteq Row PROVE LocksKnown(x)
  BY <1>4, <1>5, <1>6, KeyKinds DEF LocksKnown
<1>7. CASE CaptureLocked(c, x)
  BY <1>6, <1>7 DEF CaptureLocked
<1>8. CASE CapturePosted(c, x)
  BY <1>4, <1>6, <1>8 DEF CapturePosted
<1>9. CASE CapturePaid(c, x)
  BY <1>4, <1>6, <1>9 DEF CapturePaid
<1>10. CASE CaptureTransferred(c, x)
  BY <1>4, <1>6, <1>10 DEF CaptureTransferred
<1>11. CASE CaptureClosed(c, x)
  BY <1>4, <1>11, AllWritten DEF CaptureClosed, CaptureRows
<1>12. CASE CaptureStored(c, x)
  BY <1>4, <1>12, AllWritten DEF CaptureStored, CaptureRows
<1> QED BY <1>7, <1>8, <1>9, <1>10, <1>11, <1>12 DEF CaptureStage

LEMMA EventLocks ==
    ASSUME NEW c \in Call, NEW x, Processed(c, x) \/ RegisterStage(c, x) \/ FailedGated(c, x)
    PROVE  LocksKnown(x)
<1>1. IsEvent(c) /\ Ev(c.event) \in Row
  <2>1. IsEvent(c)
    BY DEF Processed, RegisterStage, FailedGated, IsEvent
  <2> QED BY <2>1, CallFacts, RowFacts DEF IsEvent
<1>2. CASE Processed(c, x)
  BY <1>1, <1>2, KeyKinds DEF Processed, Untouched, LocksKnown
<1>3. CASE FailedGated(c, x)
  BY <1>1, <1>3, AllWritten DEF FailedGated
<1>4. CASE RegisterGated(c, x)
  BY <1>1, <1>4, AllWritten DEF RegisterGated
<1>5. ASSUME c.method = "UserRegistered", NEW a \in UserAccount,
             RegisterOpened(c, x, a) \/ RegisterPosted(c, x, a) \/ RegisterDebited(c, x, a) \/ RegisterCredited(c, x, a)
      PROVE  LocksKnown(x)
  <2>1. Bal(a) \in Row /\ SettlementRow \in Row /\ Txn(WelcomeKey(c.user)) \in Row
    BY <1>5, CallFacts, AccountFacts, RowFacts DEF SettlementRow
  <2>2. x.locked = DOMAIN x.writes /\ x.locked \subseteq Row
    BY <1>1, <1>5, <2>1 DEF RegisterOpened, RegisterPosted, RegisterDebited, RegisterCredited, DepositRows
  <2> QED BY <2>2, AllWritten
<1> QED BY <1>2, <1>3, <1>4, <1>5 DEF RegisterStage

LEMMA ReleaseRowsKnown ==
    ASSUME NEW c \in Call, NEW x, NEW B, NEW D, NEW E \in SUBSET HoldId, B \subseteq E, D \subseteq E,
           Targets(c, x, E)
    PROVE  ReleaseRows(c, x, B, D) \subseteq Row
<1>1. \A h \in E : x.base[HoldKey(h)] \in HoldRow
  BY DEF Targets, Locked
<1>2. GateRow(c) \subseteq Row
  BY CallFacts, RowFacts DEF GateRow, IsEvent
<1>3. ASSUME NEW h \in E
      PROVE  HoldKey(h) \in Row /\ Bal(x.base[HoldKey(h)].account) \in Row /\ Pay(x.base[HoldKey(h)].payment) \in Row
  <2>1. PICK row : row = x.base[HoldKey(h)]
    OBVIOUS
  <2>2. row \in HoldRow
    BY <1>1, <2>1
  <2> QED BY <2>1, <2>2, HoldRowFacts, RowFacts
<1>4. BalancesOf(x, B) \subseteq Row
  BY <1>3 DEF BalancesOf
<1>5. KeysOf(D) \subseteq Row /\ PaymentsOf(x, D) \subseteq Row
  BY <1>3 DEF KeysOf, PaymentsOf
<1> QED BY <1>2, <1>4, <1>5 DEF ReleaseRows

LEMMA ReleaseLocks ==
    ASSUME NEW c \in Call, NEW x, NEW B, NEW D, NEW E \in SUBSET HoldId, B \subseteq E, D \subseteq E,
           Targets(c, x, E), DOMAIN x.writes = ReleaseRows(c, x, B, D), LocksOf(c, x, B, D, E)
    PROVE  LocksKnown(x)
<1>1. ReleaseRows(c, x, B, D) \subseteq Row
  BY ReleaseRowsKnown
<1>2. ReleaseRows(c, x, B, D) \subseteq x.locked
        /\ x.locked \subseteq ReleaseRows(c, x, B, D) \cup {HoldKey(h) : h \in HoldId}
  BY DEF LocksOf, KeysOf
<1>3. \A h \in HoldId : HoldKey(h) \in x.locked => HoldKey(h) \in ReleaseRows(c, x, B, D) \/ x.base[HoldKey(h)] # NoRow
  <2>1. CASE c.method = "Sweep"
    BY <2>1, NoRowFacts DEF LocksOf
  <2>2. CASE c.method # "Sweep"
    <3>1. x.locked = ReleaseRows(c, x, B, D) \cup KeysOf(E)
      BY <2>2 DEF LocksOf
    <3>2. \A h \in E : x.base[HoldKey(h)] # NoRow
      BY NoRowFacts DEF Targets, Locked
    <3>3. \A h \in HoldId : HoldKey(h) \in KeysOf(E) => h \in E
      BY KeyKinds DEF KeysOf
    <3> QED BY <3>1, <3>2, <3>3
  <2> QED BY <2>1, <2>2
<1>4. x.locked \subseteq Row
  BY <1>1, <1>2, RowFacts
<1>5. \A a \in AccountId : Bal(a) \in x.locked => Bal(a) \in ReleaseRows(c, x, B, D)
  <2>1. \A row \in {HoldKey(h) : h \in HoldId} : row[1] = "holds"
    BY KeyKinds
  <2> QED BY <1>2, <2>1, KeyKinds
<1> QED BY <1>2, <1>3, <1>4, <1>5 DEF LocksKnown

LEMMA StageLocks ==
    ASSUME NEW c \in Call, NEW x, Stage(c, x)
    PROVE  LocksKnown(x)
<1>1. CASE Begun(c, x) \/ Missed(c, x) \/ Hit(c, x)
  BY <1>1, NothingLocked DEF Begun, Missed, Hit, Untouched
<1>2. CASE HoldStage(c, x) \/ CaptureStage(c, x)
  BY <1>2, HoldLocks, CaptureLocks
<1>3. CASE Processed(c, x) \/ RegisterStage(c, x) \/ FailedGated(c, x)
  BY <1>3, EventLocks
<1>4. ASSUME NEW D \in SUBSET HoldId, ReleaseDone(c, x, D) PROVE LocksKnown(x)
  BY <1>4, ReleaseLocks DEF ReleaseDone
<1>5. ASSUME NEW D \in SUBSET HoldId, NEW h \in HoldId, ReleaseLocked(c, x, D, h) \/ ReleaseBumped(c, x, D, h)
      PROVE  LocksKnown(x)
  <2>1. PICK E \in SUBSET HoldId : E = D \cup {h}
    OBVIOUS
  <2>2. D \subseteq E /\ E \subseteq E
    BY <2>1
  <2>3. CASE ReleaseLocked(c, x, D, h)
    <3>1. Targets(c, x, E) /\ DOMAIN x.writes = ReleaseRows(c, x, D, D) /\ LocksOf(c, x, D, D, E)
      BY <2>1, <2>3 DEF ReleaseLocked
    <3> QED BY <2>2, <3>1, ReleaseLocks
  <2>4. CASE ReleaseBumped(c, x, D, h)
    <3>1. Targets(c, x, E) /\ DOMAIN x.writes = ReleaseRows(c, x, E, D) /\ LocksOf(c, x, E, D, E)
      BY <2>1, <2>4 DEF ReleaseBumped
    <3> QED BY <2>2, <3>1, ReleaseLocks
  <2> QED BY <1>5, <2>3, <2>4
<1>6. ASSUME NEW h \in HoldId, ReleaseStored(c, x, h) PROVE LocksKnown(x)
  <2>1. PICK E \in SUBSET HoldId : E = {h}
    OBVIOUS
  <2>2. Targets(c, x, E) /\ x.locked = ReleaseRows(c, x, E, E) \cup {Req(c.request)} /\ x.locked = DOMAIN x.writes
    BY <1>6, <2>1 DEF ReleaseStored
  <2>3. ReleaseRows(c, x, E, E) \subseteq Row
    BY <2>2, ReleaseRowsKnown
  <2>4. Req(c.request) \in Row
    BY <1>6, CallFacts, RowFacts DEF ReleaseStored
  <2> QED BY <2>2, <2>3, <2>4, AllWritten
<1> QED BY <1>1, <1>2, <1>3, <1>4, <1>5, <1>6 DEF Stage, ReleaseStage

-----------------------------------------------------------------------------
(* What a transaction that can commit has written, table by table.         *)

BalancesWritten(x) == \A a \in AccountId : Bal(a) \in DOMAIN x.writes => x.writes[Bal(a)] \in BalanceRow

\* A hold is new and occupies its payment, or is settled and frees it.
Created(x, h) ==
    /\ x.base[HoldKey(h)] = NoRow
    /\ x.writes[HoldKey(h)] \in HoldRow /\ x.writes[HoldKey(h)].status = "active"
    /\ x.writes[HoldKey(h)].currency = AccountCurrency(x.writes[HoldKey(h)].account)
    /\ Bal(x.writes[HoldKey(h)].account) \in DOMAIN x.writes
    /\ Pay(x.writes[HoldKey(h)].payment) \in DOMAIN x.writes
    /\ x.base[Pay(x.writes[HoldKey(h)].payment)] = NoRow
    /\ x.writes[Pay(x.writes[HoldKey(h)].payment)] = h

Closes(x, h) ==
    /\ Locked(x, h)
    /\ Pay(x.base[HoldKey(h)].payment) \in DOMAIN x.writes
    /\ \E status \in HoldStatus \ {"active"} : Closed(x, h, status)

HoldsWritten(x) == \A h \in HoldId : HoldKey(h) \in DOMAIN x.writes => Created(x, h) \/ Closes(x, h)

PaymentsWritten(x) == \A p \in Payment : Pay(p) \in DOMAIN x.writes =>
    \E h \in HoldId : /\ HoldKey(h) \in DOMAIN x.writes
                      /\ x.writes[HoldKey(h)].payment = p

EntriesWritten(x) == \A k \in IdemKey : Txn(k) \in DOMAIN x.writes =>
    /\ x.writes[Txn(k)] \in TxnRow /\ x.base[Txn(k)] = NoRow
    /\ \A a \in AccountsOf(x.writes[Txn(k)]) : Bal(a) \in DOMAIN x.writes

RequestsWritten(c, x) == \A r \in RequestId : Req(r) \in DOMAIN x.writes =>
    /\ x.writes[Req(r)] \in Response /\ x.base[Req(r)] = NoRow
    /\ c.method \in Rpc /\ c.request = r /\ Names(c) \subseteq DOMAIN x.writes

EventsWritten(c, x) == \A e \in EventId : Ev(e) \in DOMAIN x.writes =>
    /\ x.writes[Ev(e)] = "processed" /\ x.base[Ev(e)] = NoRow
    /\ IsEvent(c) /\ c.event = e

Complete(c, x) ==
    /\ BalancesWritten(x) /\ HoldsWritten(x) /\ PaymentsWritten(x)
    /\ EntriesWritten(x) /\ RequestsWritten(c, x) /\ EventsWritten(c, x)

LEMMA NothingWritten ==
    ASSUME NEW c, NEW x, DOMAIN x.writes = {}
    PROVE  Complete(c, x)
BY DEF Complete, BalancesWritten, HoldsWritten, PaymentsWritten, EntriesWritten, RequestsWritten, EventsWritten

LEMMA HoldComplete ==
    ASSUME NEW c \in Call, c.method = "HoldFunds", NEW x, NEW h \in HoldId, HoldStored(c, x, h)
    PROVE  Complete(c, x)
<1>1. /\ DOMAIN x.writes = {Pay(c.payment), HoldKey(h), Bal(c.account), Req(c.request)}
      /\ Inserted(c, x, h) /\ Reserves(c, x) /\ Stored(c, x, HoldAnswer(c, x, h))
  BY DEF HoldStored, HoldRows
<1>2. BalancesWritten(x)
  BY <1>1, KeyKinds DEF BalancesWritten, Reserves
<1>3. PICK row : row = x.writes[HoldKey(h)]
  OBVIOUS
<1>4. /\ row \in HoldRow /\ row.status = "active" /\ row.account = c.account /\ row.payment = c.payment
      /\ row.currency = AccountCurrency(row.account)
  <2>1. row = [account |-> c.account, payment |-> c.payment, amount |-> c.amount,
               currency |-> c.currency, status |-> "active"]
    BY <1>1, <1>3 DEF Inserted
  <2>2. c.amount > 0 /\ AccountCurrency(c.account) = c.currency
    BY <1>1 DEF Inserted, Affordable
  <2>3. c.account \in AccountId /\ c.payment \in Payment /\ c.amount \in Nat \ {0} /\ c.currency \in Currency
    BY <2>2, CallFacts
  <2> QED BY <2>1, <2>2, <2>3 DEF HoldRow, HoldStatus
<1>5. Created(x, h)
  BY <1>1, <1>3, <1>4 DEF Created, Inserted
<1>6. HoldsWritten(x)
  BY <1>1, <1>5, KeyKinds DEF HoldsWritten
<1>7. PaymentsWritten(x)
  BY <1>1, <1>3, <1>4, KeyKinds DEF PaymentsWritten
<1>8. EntriesWritten(x) /\ EventsWritten(c, x)
  BY <1>1, KeyKinds DEF EntriesWritten, EventsWritten
<1>9. HoldAnswer(c, x, h) \in Response
  <2>1. x.base[Bal(c.account)].available \in Int /\ c.amount \in Int
    BY <1>1, ConstantsAssumption, CallFacts DEF Inserted, Affordable, BalanceRow
  <2> QED BY <2>1 DEF HoldAnswer, Response
<1>10. RequestsWritten(c, x)
  BY <1>1, <1>9, KeyKinds DEF RequestsWritten, Stored, Names, Rpc
<1> QED BY <1>2, <1>6, <1>7, <1>8, <1>10 DEF Complete

LEMMA CaptureComplete ==
    ASSUME NEW c \in Call, c.method = "CaptureFunds", NEW x, CaptureStored(c, x)
    PROVE  Complete(c, x)
<1>1. /\ DOMAIN x.writes = {Txn(CaptureKey(c.hold)), Payer(c, x), Payee(c, x), HoldKey(c.hold),
                            Pay(CaptureRow(c, x).payment), Req(c.request)}
      /\ Transferred(c, x) /\ Closed(x, c.hold, "captured") /\ Stored(c, x, CaptureAnswer(c))
  BY DEF CaptureStored, CaptureRows
<1>2. Locked(x, c.hold) /\ c.hold \in HoldId /\ Posted(x, CaptureKey(c.hold), CapturePosting(c, x))
  BY <1>1, CallFacts DEF Transferred, Capturing
<1>3. PICK row : row = CaptureRow(c, x) /\ row \in HoldRow
  BY <1>2 DEF Locked, CaptureRow
<1>4. BalancesWritten(x)
  BY <1>1, KeyKinds DEF BalancesWritten, Transferred, Payer, Payee
<1>5. Closes(x, c.hold)
  <2>1. "captured" \in HoldStatus \ {"active"}
    BY DEF HoldStatus
  <2> QED BY <1>1, <1>2, <2>1 DEF Closes, CaptureRow
<1>6. HoldsWritten(x)
  BY <1>1, <1>5, KeyKinds DEF HoldsWritten, Payer, Payee
<1>7. x.writes[HoldKey(c.hold)].payment = row.payment
  BY <1>1, <1>3 DEF Closed, Settled, CaptureRow, HoldRow
<1>8. PaymentsWritten(x)
  BY <1>1, <1>2, <1>3, <1>7, KeyKinds DEF PaymentsWritten, Payer, Payee
<1>9. EntriesWritten(x)
  <2>1. AccountsOf(x.writes[Txn(CaptureKey(c.hold))]) = {row.account, Payable(row.currency)}
    BY <1>2, <1>3 DEF Posted, CapturePosting, AccountsOf
  <2> QED BY <1>1, <1>2, <1>3, <2>1, KeyKinds DEF EntriesWritten, Posted, Payer, Payee
<1>10. EventsWritten(c, x)
  BY <1>1, KeyKinds DEF EventsWritten, Payer, Payee
<1>11. CaptureAnswer(c) \in Response
  BY <1>2, AccountFacts DEF CaptureAnswer, Response
<1>12. RequestsWritten(c, x)
  BY <1>1, <1>11, KeyKinds DEF RequestsWritten, Stored, Names, Rpc, Payer, Payee
<1> QED BY <1>4, <1>6, <1>8, <1>9, <1>10, <1>12 DEF Complete

LEMMA RegisterComplete ==
    ASSUME NEW c \in Call, c.method = "UserRegistered", NEW x, NEW a \in UserAccount,
           (RegisterOpened(c, x, a) /\ x.todo = <<>>) \/ RegisterCredited(c, x, a)
    PROVE  Complete(c, x)
<1>1. Gated(c, x) /\ IsEvent(c)
  BY DEF RegisterOpened, RegisterCredited, Opening, IsEvent
<1>2. \/ DOMAIN x.writes = {Ev(c.event), Bal(a)} /\ x.writes[Bal(a)] = NewBalance
      \/ /\ DOMAIN x.writes = {Ev(c.event), Bal(a), Txn(WelcomeKey(c.user)), SettlementRow}
         /\ x.writes[Bal(a)] \in BalanceRow /\ x.writes[SettlementRow] \in BalanceRow
         /\ Posted(x, WelcomeKey(c.user), WelcomePosting(c, a))
  BY DEF RegisterOpened, RegisterCredited, DepositRows, Debited
<1>3. NewBalance \in BalanceRow
  BY ConstantsAssumption DEF NewBalance, BalanceRow
<1>4. BalancesWritten(x)
  BY <1>2, <1>3, KeyKinds DEF BalancesWritten, SettlementRow
<1>5. HoldsWritten(x) /\ PaymentsWritten(x)
  BY <1>2, KeyKinds DEF HoldsWritten, PaymentsWritten, SettlementRow
<1>6. EntriesWritten(x)
  <2>1. CASE DOMAIN x.writes = {Ev(c.event), Bal(a)}
    BY <2>1, KeyKinds DEF EntriesWritten
  <2>2. CASE /\ DOMAIN x.writes = {Ev(c.event), Bal(a), Txn(WelcomeKey(c.user)), SettlementRow}
             /\ Posted(x, WelcomeKey(c.user), WelcomePosting(c, a))
    <3>1. AccountsOf(x.writes[Txn(WelcomeKey(c.user))]) = {Settlement(DefaultCurrency), a}
      BY <2>2 DEF Posted, WelcomePosting, AccountsOf
    <3> QED BY <2>2, <3>1, KeyKinds DEF EntriesWritten, Posted, SettlementRow
  <2> QED BY <1>2, <2>1, <2>2
<1>7. RequestsWritten(c, x)
  BY <1>2, KeyKinds DEF RequestsWritten, SettlementRow
<1>8. EventsWritten(c, x)
  BY <1>1, <1>2, KeyKinds DEF EventsWritten, SettlementRow, Gated
<1> QED BY <1>4, <1>5, <1>6, <1>7, <1>8 DEF Complete

LEMMA FailedComplete ==
    ASSUME NEW c \in Call, NEW x, FailedGated(c, x)
    PROVE  Complete(c, x)
<1>1. Gated(c, x) /\ IsEvent(c) /\ DOMAIN x.writes = {Ev(c.event)}
  BY DEF FailedGated, IsEvent
<1>2. BalancesWritten(x) /\ HoldsWritten(x) /\ PaymentsWritten(x)
  BY <1>1, KeyKinds DEF BalancesWritten, HoldsWritten, PaymentsWritten
<1>3. EntriesWritten(x) /\ RequestsWritten(c, x) /\ EventsWritten(c, x)
  BY <1>1, KeyKinds DEF EntriesWritten, RequestsWritten, EventsWritten, Gated
<1> QED BY <1>2, <1>3 DEF Complete

\* The rows a release has written, with or without an answer.
LEMMA ReleaseWrites ==
    ASSUME NEW c \in Call, NEW x, NEW D \in SUBSET HoldId, NEW last,
           Targets(c, x, D), Effects(c, x, D, D, D),
           DOMAIN x.writes = ReleaseRows(c, x, D, D) \cup last, \A row \in last : row[1] = "grpc_idempotency"
    PROVE  /\ BalancesWritten(x) /\ HoldsWritten(x) /\ PaymentsWritten(x)
           /\ EntriesWritten(x) /\ EventsWritten(c, x)
<1>1. /\ \A a : Bal(a) \in DOMAIN x.writes <=> Bal(a) \in BalancesOf(x, D)
      /\ \A h : HoldKey(h) \in DOMAIN x.writes <=> h \in D
      /\ \A p : Pay(p) \in DOMAIN x.writes <=> Pay(p) \in PaymentsOf(x, D)
      /\ \A k : Txn(k) \notin DOMAIN x.writes
      /\ \A e : Ev(e) \in DOMAIN x.writes => IsEvent(c) /\ e = c.event
  BY ReleaseRowKinds, KeyKinds
<1>2. BalancesWritten(x)
  BY <1>1 DEF BalancesWritten, Effects, BalancesFreed
<1>3. StatusOf(c) \in HoldStatus \ {"active"}
  BY DEF StatusOf, HoldStatus
<1>4. ASSUME NEW h \in D PROVE Closes(x, h) /\ x.writes[HoldKey(h)].payment = x.base[HoldKey(h)].payment
  <2>1. Locked(x, h) /\ Closed(x, h, StatusOf(c))
    BY DEF Targets, Effects
  <2>2. Pay(x.base[HoldKey(h)].payment) \in DOMAIN x.writes
    BY <1>1 DEF PaymentsOf
  <2>3. x.writes[HoldKey(h)].payment = x.base[HoldKey(h)].payment
    BY <2>1 DEF Closed, Settled, Locked, HoldRow
  <2> QED BY <1>3, <2>1, <2>2, <2>3 DEF Closes
<1>5. HoldsWritten(x)
  BY <1>1, <1>4 DEF HoldsWritten
<1>6. PaymentsWritten(x)
  <2>1. SUFFICES ASSUME NEW p \in Payment, Pay(p) \in DOMAIN x.writes
                 PROVE  \E h \in HoldId : HoldKey(h) \in DOMAIN x.writes /\ x.writes[HoldKey(h)].payment = p
    BY DEF PaymentsWritten
  <2>2. PICK h \in D : Pay(p) = Pay(x.base[HoldKey(h)].payment)
    BY <1>1, <2>1 DEF PaymentsOf
  <2>3. p = x.base[HoldKey(h)].payment
    BY <2>2, KeyKinds
  <2> QED BY <1>1, <1>4, <2>3
<1>7. EntriesWritten(x)
  BY <1>1 DEF EntriesWritten
<1>8. EventsWritten(c, x)
  BY <1>1 DEF EventsWritten, Effects, Gated
<1> QED BY <1>2, <1>5, <1>6, <1>7, <1>8

LEMMA ReleaseComplete ==
    ASSUME NEW c \in Call, NEW x, NEW D \in SUBSET HoldId, ReleaseDone(c, x, D), x.todo = <<>>
    PROVE  Complete(c, x)
<1>1. PICK last : last = {}
  OBVIOUS
<1>2. Targets(c, x, D) /\ Effects(c, x, D, D, D) /\ DOMAIN x.writes = ReleaseRows(c, x, D, D) \cup last
  BY <1>1 DEF ReleaseDone
<1>3. RequestsWritten(c, x)
  BY <1>1, <1>2, ReleaseRowKinds DEF RequestsWritten
<1> QED BY <1>1, <1>2, <1>3, ReleaseWrites DEF Complete

LEMMA ReleaseStoredComplete ==
    ASSUME NEW c \in Call, NEW x, NEW h \in HoldId, ReleaseStored(c, x, h)
    PROVE  Complete(c, x)
<1>1. PICK last : last = {Req(c.request)}
  OBVIOUS
<1>2. PICK D \in SUBSET HoldId : D = {h}
  OBVIOUS
<1>3. /\ Targets(c, x, D) /\ Effects(c, x, D, D, D) /\ DOMAIN x.writes = ReleaseRows(c, x, D, D) \cup last
      /\ Stored(c, x, [method |-> c.method]) /\ c.method = "ReleaseFunds"
  BY <1>1, <1>2 DEF ReleaseStored
<1>4. RequestsWritten(c, x)
  <2>1. [method |-> c.method] \in Response
    BY <1>3 DEF Response
  <2>2. \A r : Req(r) \in DOMAIN x.writes <=> r = c.request
    BY <1>1, <1>3, ReleaseRowKinds, KeyKinds
  <2>3. Names(c) \subseteq DOMAIN x.writes
    <3>1. c.hold = h
      BY <1>2, <1>3 DEF Targets
    <3> QED BY <1>2, <1>3, <3>1, ReleaseRowKinds DEF Names
  <2> QED BY <1>3, <2>1, <2>2, <2>3 DEF RequestsWritten, Stored, Rpc
<1>5. \A row \in last : row[1] = "grpc_idempotency"
  BY <1>1, KeyKinds
<1> QED BY <1>3, <1>4, <1>5, ReleaseWrites DEF Complete

\* A transaction that has no statement left is complete.
LEMMA StageComplete ==
    ASSUME NEW c \in Call, NEW x, Stage(c, x), x.todo = <<>>
    PROVE  Complete(c, x)
<1>1. ASSUME NEW op PROVE ~ OpIs(x, op)
  BY DEF OpIs
<1>2. CASE Begun(c, x) \/ Missed(c, x) \/ Hit(c, x) \/ Processed(c, x)
  BY <1>2, NothingWritten DEF Begun, Missed, Hit, Processed, Untouched
<1>3. CASE HoldStage(c, x)
  <2>1. PICK h \in HoldId : HoldStored(c, x, h)
    BY <1>1, <1>3, HoldOps DEF HoldStage
  <2> QED BY <1>3, <2>1, HoldComplete DEF HoldStage
<1>4. CASE CaptureStage(c, x)
  <2>1. CaptureStored(c, x)
    BY <1>1, <1>4, CaptureOps DEF CaptureStage
  <2> QED BY <1>4, <2>1, CaptureComplete DEF CaptureStage
<1>5. CASE RegisterStage(c, x)
  <2>1. PICK a \in UserAccount : RegisterOpened(c, x, a) \/ RegisterCredited(c, x, a)
    BY <1>1, <1>5, RegisterOps DEF RegisterStage
  <2> QED BY <1>5, <2>1, RegisterComplete DEF RegisterStage
<1>6. CASE FailedGated(c, x)
  BY <1>6, FailedComplete
<1>7. CASE ReleaseStage(c, x)
  <2>1. \/ \E D \in SUBSET HoldId : ReleaseDone(c, x, D)
        \/ \E h \in HoldId : ReleaseStored(c, x, h)
    BY <1>1, <1>7, ReleaseOps DEF ReleaseStage
  <2> QED BY <2>1, ReleaseComplete, ReleaseStoredComplete
<1> QED BY <1>2, <1>3, <1>4, <1>5, <1>6, <1>7 DEF Stage

\* x's writes on top of rows.
Applied(x, rows, new) ==
    /\ DOMAIN x.writes \subseteq Row /\ DOMAIN new = Row
    /\ \A row \in DOMAIN x.writes : x.base[row] = rows[row] /\ new[row] = x.writes[row]
    /\ \A row \in Row \ DOMAIN x.writes : new[row] = rows[row]

\* What becomes of the rows of a hold and of the index entry of its payment.
LEMMA AppliedHold ==
    ASSUME NEW c \in Call, NEW x, Complete(c, x), NEW rows, NEW new, Consistent(rows), Applied(x, rows, new),
           NEW h \in HoldId, HoldKey(h) \in DOMAIN x.writes
    PROVE  /\ new[HoldKey(h)] \in HoldRow
           /\ new[HoldKey(h)].currency = AccountCurrency(new[HoldKey(h)].account)
           /\ new[Bal(new[HoldKey(h)].account)] # NoRow
           /\ Pay(new[HoldKey(h)].payment) \in DOMAIN x.writes
           /\ \/ /\ rows[HoldKey(h)] = NoRow /\ rows[Pay(new[HoldKey(h)].payment)] = NoRow
                 /\ new[Pay(new[HoldKey(h)].payment)] = h
                 /\ new[HoldKey(h)].status = "active"
              \/ /\ rows[HoldKey(h)] \in HoldRow /\ rows[HoldKey(h)].status = "active"
                 /\ rows[HoldKey(h)].payment = new[HoldKey(h)].payment
                 /\ new[Pay(new[HoldKey(h)].payment)] = NoRow
                 /\ new[HoldKey(h)].status # "active"
<1>1. PICK old, row : /\ old = rows[HoldKey(h)] /\ old = x.base[HoldKey(h)]
                      /\ row = new[HoldKey(h)] /\ row = x.writes[HoldKey(h)]
  BY DEF Applied
<1>2. Created(x, h) \/ Closes(x, h)
  BY DEF Complete, HoldsWritten
<1>3. BalancesWritten(x)
  BY DEF Complete
<1>4. CASE Created(x, h)
  <2>1. /\ old = NoRow /\ row \in HoldRow /\ row.status = "active" /\ row.currency = AccountCurrency(row.account)
        /\ Bal(row.account) \in DOMAIN x.writes /\ Pay(row.payment) \in DOMAIN x.writes
        /\ x.base[Pay(row.payment)] = NoRow /\ x.writes[Pay(row.payment)] = h
    BY <1>1, <1>4 DEF Created
  <2>2. new[Bal(row.account)] \in BalanceRow
    BY <1>3, <2>1, HoldRowFacts DEF Applied, BalancesWritten
  <2>3. rows[Pay(row.payment)] = NoRow /\ new[Pay(row.payment)] = h
    BY <2>1 DEF Applied
  <2> QED BY <1>1, <2>1, <2>2, <2>3, NoRowFacts
<1>5. CASE Closes(x, h)
  <2>1. PICK status \in HoldStatus \ {"active"} :
            /\ old \in HoldRow /\ old.status = "active" /\ row = [old EXCEPT !.status = status]
            /\ Pay(old.payment) \in DOMAIN x.writes /\ x.writes[Pay(old.payment)] = NoRow
    BY <1>1, <1>5 DEF Closes, Closed, Settled, Locked
  <2>2. /\ row \in HoldRow /\ row.account = old.account /\ row.payment = old.payment /\ row.currency = old.currency
        /\ row.status # "active"
    BY <2>1 DEF HoldRow
  <2>3. old.currency = AccountCurrency(old.account) /\ rows[Bal(old.account)] # NoRow /\ old.account \in AccountId
    <3>1. rows[HoldKey(h)] # NoRow /\ old.account \in AccountId
      BY <1>1, <2>1, NoRowFacts, HoldRowFacts
    <3>2. /\ rows[Bal(rows[HoldKey(h)].account)] # NoRow
          /\ rows[HoldKey(h)].currency = AccountCurrency(rows[HoldKey(h)].account)
      BY <3>1 DEF Consistent
    <3> QED BY <1>1, <3>1, <3>2
  <2>4. new[Bal(old.account)] # NoRow
    BY <1>3, <2>3, NoRowFacts, RowFacts DEF Applied, BalancesWritten
  <2>5. new[Pay(old.payment)] = NoRow
    BY <2>1 DEF Applied
  <2> QED BY <1>1, <2>1, <2>2, <2>3, <2>4, <2>5
<1> QED BY <1>2, <1>4, <1>5

LEMMA AppliedIndex ==
    ASSUME NEW c \in Call, NEW x, Complete(c, x), NEW rows, NEW new, Consistent(rows), Applied(x, rows, new),
           NEW p \in Payment, NEW h \in HoldId
    PROVE  new[Pay(p)] = h <=>
                new[HoldKey(h)] # NoRow /\ new[HoldKey(h)].payment = p /\ new[HoldKey(h)].status = "active"
<1>1. /\ HoldKey(h) \in Row /\ Pay(p) \in Row
      /\ \A g \in HoldId : rows[Pay(p)] = g <=>
            rows[HoldKey(g)] # NoRow /\ rows[HoldKey(g)].payment = p /\ rows[HoldKey(g)].status = "active"
  BY RowFacts DEF Consistent
<1>2. CASE Pay(p) \notin DOMAIN x.writes
  <2>1. new[Pay(p)] = rows[Pay(p)]
    BY <1>1, <1>2 DEF Applied
  <2>2. CASE HoldKey(h) \notin DOMAIN x.writes
    BY <1>1, <2>1, <2>2 DEF Applied
  <2>3. CASE HoldKey(h) \in DOMAIN x.writes
    <3>1. new[HoldKey(h)].payment # p
      BY <1>2, <2>3, AppliedHold
    <3>2. rows[Pay(p)] # h
      BY <1>1, <2>3, <3>1, AppliedHold
    <3> QED BY <2>1, <3>1, <3>2
  <2> QED BY <2>2, <2>3
<1>3. CASE Pay(p) \in DOMAIN x.writes
  <2>1. PICK g \in HoldId : HoldKey(g) \in DOMAIN x.writes /\ new[HoldKey(g)].payment = p
    BY <1>3 DEF Complete, PaymentsWritten, Applied
  <2>2. new[HoldKey(g)] \in HoldRow
    BY <2>1, AppliedHold
  <2>3. CASE /\ rows[HoldKey(g)] = NoRow /\ rows[Pay(p)] = NoRow /\ new[Pay(p)] = g /\ new[HoldKey(g)].status = "active"
    <3>1. CASE h = g
      BY <2>1, <2>2, <2>3, <3>1, NoRowFacts
    <3>2. CASE h # g /\ HoldKey(h) \notin DOMAIN x.writes
      <4>1. new[HoldKey(h)] = rows[HoldKey(h)]
        BY <1>1, <3>2 DEF Applied
      <4> QED BY <1>1, <2>3, <3>2, <4>1, NoRowFacts
    <3>3. CASE h # g /\ HoldKey(h) \in DOMAIN x.writes
      <4>1. \/ new[Pay(new[HoldKey(h)].payment)] = h
            \/ new[HoldKey(h)].status # "active"
        BY <3>3, AppliedHold
      <4> QED BY <2>3, <3>3, <4>1
    <3> QED BY <3>1, <3>2, <3>3
  <2>4. CASE /\ rows[HoldKey(g)] \in HoldRow /\ rows[HoldKey(g)].status = "active" /\ rows[HoldKey(g)].payment = p
             /\ new[Pay(p)] = NoRow /\ new[HoldKey(g)].status # "active"
    <3>1. rows[Pay(p)] = g /\ new[Pay(p)] # h
      BY <1>1, <2>4, NoRowFacts
    <3>2. CASE HoldKey(h) \notin DOMAIN x.writes
      <4>1. new[HoldKey(h)] = rows[HoldKey(h)] /\ h # g
        BY <1>1, <2>1, <3>2 DEF Applied
      <4> QED BY <1>1, <3>1, <4>1
    <3>3. CASE HoldKey(h) \in DOMAIN x.writes
      <4>1. \/ new[Pay(new[HoldKey(h)].payment)] = h
            \/ new[HoldKey(h)].status # "active"
        BY <3>3, AppliedHold
      <4> QED BY <3>1, <4>1
    <3> QED BY <3>2, <3>3
  <2> QED BY <2>1, <2>3, <2>4, AppliedHold
<1> QED BY <1>2, <1>3

LEMMA CommitConsistent ==
    ASSUME NEW c \in Call, NEW x, Complete(c, x), NEW rows, NEW new, Consistent(rows), Applied(x, rows, new)
    PROVE  Consistent(new)
<1>1. DOMAIN new = Row
  BY DEF Applied
<1>2. \A a \in AccountId : /\ new[Bal(a)] \in BalanceRow \cup {NoRow}
                           /\ rows[Bal(a)] # NoRow => new[Bal(a)] # NoRow
  BY RowFacts, NoRowFacts DEF Applied, Complete, BalancesWritten, Consistent
<1>3. \A a \in SystemAccount : new[Bal(a)] # NoRow
  BY <1>2 DEF Consistent, AccountId
<1>4. ASSUME NEW h \in HoldId, new[HoldKey(h)] # NoRow
      PROVE  /\ new[HoldKey(h)] \in HoldRow
             /\ new[Bal(new[HoldKey(h)].account)] # NoRow
             /\ new[HoldKey(h)].currency = AccountCurrency(new[HoldKey(h)].account)
  <2>1. CASE HoldKey(h) \in DOMAIN x.writes
    BY <2>1, AppliedHold
  <2>2. CASE HoldKey(h) \notin DOMAIN x.writes
    <3>1. new[HoldKey(h)] = rows[HoldKey(h)]
      BY <2>2, RowFacts DEF Applied
    <3>2. PICK row : row = rows[HoldKey(h)]
      OBVIOUS
    <3>3. row \in HoldRow /\ rows[Bal(row.account)] # NoRow /\ row.currency = AccountCurrency(row.account)
      BY <1>4, <3>1, <3>2 DEF Consistent
    <3> QED BY <1>2, <3>1, <3>2, <3>3, HoldRowFacts
  <2> QED BY <2>1, <2>2
<1>5. ASSUME NEW p \in Payment PROVE new[Pay(p)] \in HoldId \cup {NoRow}
  <2>1. CASE Pay(p) \notin DOMAIN x.writes
    BY <2>1, RowFacts DEF Applied, Consistent
  <2>2. CASE Pay(p) \in DOMAIN x.writes
    <3>1. PICK g \in HoldId : HoldKey(g) \in DOMAIN x.writes /\ new[HoldKey(g)].payment = p
      BY <2>2 DEF Complete, PaymentsWritten, Applied
    <3> QED BY <3>1, AppliedHold
  <2> QED BY <2>1, <2>2
<1>6. \A k \in IdemKey : new[Txn(k)] \in TxnRow \cup {NoRow}
  BY RowFacts DEF Applied, Complete, EntriesWritten, Consistent
<1>7. \A r \in RequestId : new[Req(r)] \in Response \cup {NoRow}
  BY RowFacts DEF Applied, Complete, RequestsWritten, Consistent
<1>8. \A e \in EventId : new[Ev(e)] \in {"processed", NoRow}
  BY RowFacts DEF Applied, Complete, EventsWritten, Consistent
<1>9. \A p \in Payment, h \in HoldId : new[Pay(p)] = h <=>
            new[HoldKey(h)] # NoRow /\ new[HoldKey(h)].payment = p /\ new[HoldKey(h)].status = "active"
  BY AppliedIndex
<1> QED BY <1>1, <1>2, <1>3, <1>4, <1>5, <1>6, <1>7, <1>8, <1>9 DEF Consistent

-----------------------------------------------------------------------------
(* A worker moves on within its transaction.                               *)

\* Only worker w's transaction, its captured variable and the sequence change.
Moves(w) ==
    /\ UNCHANGED <<db, outbox, due, call, attempt, outcome>>
    /\ tx' = [v \in Worker |-> tx'[v]] /\ resp' = [v \in Worker |-> resp'[v]]
    /\ \A v \in Worker \ {w} : tx'[v] = tx[v] /\ resp'[v] = resp[v]
    /\ nextEntry' \in Int /\ nextEntry' >= nextEntry

\* No id that has just been drawn has been named by a caller.
DrawnApart == \A row \in Drawn' : row \in Drawn \/ db[row] # NoRow \/
    \A v \in Worker : call[v] # None => row \notin Names(call[v])

LEMMA StageStays ==
    ASSUME NEW v \in Worker, StageOK(v), tx'[v] = tx[v], resp'[v] = resp[v], call'[v] = call[v], db' = db
    PROVE  StageOK(v)'
<1>1. PICK x : x = Progress(v)
  OBVIOUS
<1>2. x = Progress(v)'
  BY <1>1 DEF Progress
<1>3. Running(v)' => Stage(call[v], x)
  BY <1>1 DEF StageOK, Running
<1> QED BY <1>2, <1>3 DEF StageOK

LEMMA CopiesStay ==
    ASSUME NEW v \in Worker, call' = call
    PROVE  Copies(v)' = Copies(v)
BY DEF Copies

\* What a worker relies on is left alone by the moves of another.
Undisturbed(v) ==
    /\ tx'[v] = tx[v] /\ resp'[v] = resp[v] /\ call'[v] = call[v]
    /\ attempt'[v] = attempt[v] /\ outcome'[v] = outcome[v]
    /\ db' = db /\ due \subseteq due'
    /\ nextEntry' \in Int /\ nextEntry' >= nextEntry
    /\ \A u \in Copies(v) : u \in Copies(v)' /\ call'[u] = call[u]

LEMMA WorkerStays ==
    ASSUME NEW v \in Worker, WorkerOK(v), Undisturbed(v), nextEntry \in Int,
           Running(v) => \A k \in IdemKey : Txn(k) \in DOMAIN tx[v].writes => tx[v].writes[Txn(k)].id \in Int,
           NamesOK(v)'
    PROVE  WorkerOK(v)'
<1>1. Running(v)' <=> Running(v)
  BY DEF Running, Undisturbed
<1>2. ControlOK(v)'
  BY <1>1 DEF WorkerOK, ControlOK, Undisturbed
<1>3. StageOK(v)'
  BY StageStays DEF WorkerOK, Undisturbed
<1>4. \A h, p : KnownHold(h, p)' <=> KnownHold(h, p)
  BY DEF KnownHold, Undisturbed
<1>5. PICK c, t : c = call[v] /\ c = call'[v] /\ t = tx[v] /\ t = tx'[v]
  BY DEF Undisturbed
<1>6. OlderOK(v)'
  BY <1>1, <1>4, <1>5 DEF WorkerOK, OlderOK, SeesActive, Snapshot, Undisturbed
<1>7. ReplayOK(v)'
  <2>1. PICK x : x = Progress(v) /\ x = Progress(v)'
    BY DEF Progress, Undisturbed
  <2>2. (\A u \in Copies(v)' : call'[u] = c) => \A u \in Copies(v) : call[u] = c
    BY DEF Undisturbed
  <2> QED BY <1>1, <1>5, <2>1, <2>2 DEF WorkerOK, ReplayOK, Undisturbed
<1>8. TargetOK(v)'
  BY <1>1, <1>4, <1>5 DEF WorkerOK, TargetOK, FoundNone, Progress, Snapshot, Undisturbed
<1>9. EntriesOK(v)'
  BY <1>1 DEF WorkerOK, EntriesOK, Undisturbed
<1> QED BY <1>2, <1>3, <1>6, <1>7, <1>8, <1>9 DEF WorkerOK

\* An entry that a transaction has written is one.
LEMMA StageEntries ==
    ASSUME NEW c \in Call, NEW x, Stage(c, x), NEW k, Txn(k) \in DOMAIN x.writes
    PROVE  x.writes[Txn(k)] \in TxnRow
<1>1. CASE Begun(c, x) \/ Missed(c, x) \/ Hit(c, x) \/ Processed(c, x)
  BY <1>1 DEF Begun, Missed, Hit, Processed, Untouched
<1>2. CASE HoldStage(c, x)
  <2>1. DOMAIN x.writes = {} \/ \E h : DOMAIN x.writes \subseteq {Pay(c.payment), HoldKey(h), Bal(c.account), Req(c.request)}
    BY <1>2 DEF HoldStage, HoldChecked, HoldInserted, HoldBumped, HoldStored, HoldRows, Untouched
  <2> QED BY <2>1, KeyKinds
<1>3. CASE CaptureStage(c, x)
  <2>1. \/ DOMAIN x.writes = {}
        \/ /\ Posted(x, CaptureKey(c.hold), CapturePosting(c, x))
           /\ DOMAIN x.writes \subseteq CaptureRows(c, x) \cup {Req(c.request)}
    <3>1. CASE CaptureLocked(c, x)
      BY <3>1 DEF CaptureLocked
    <3>2. CASE CapturePosted(c, x)
      BY <3>2 DEF CapturePosted, CaptureRows
    <3>3. CASE CapturePaid(c, x)
      BY <3>3 DEF CapturePaid, CaptureRows
    <3>4. CASE CaptureTransferred(c, x)
      BY <3>4 DEF CaptureTransferred, CaptureRows, Transferred
    <3>5. CASE CaptureClosed(c, x)
      BY <3>5 DEF CaptureClosed, Transferred
    <3>6. CASE CaptureStored(c, x)
      BY <3>6 DEF CaptureStored, Transferred
    <3> QED BY <1>3, <3>1, <3>2, <3>3, <3>4, <3>5, <3>6 DEF CaptureStage
  <2>2. Txn(k) \in CaptureRows(c, x) \cup {Req(c.request)} => k = CaptureKey(c.hold)
    BY KeyKinds DEF CaptureRows, Payer, Payee
  <2> QED BY <2>1, <2>2 DEF Posted
<1>4. CASE RegisterStage(c, x)
  <2>1. CASE RegisterGated(c, x)
    BY <2>1, KeyKinds DEF RegisterGated
  <2>2. ASSUME NEW a, RegisterOpened(c, x, a) PROVE FALSE
    BY <2>2, KeyKinds DEF RegisterOpened
  <2>3. ASSUME NEW a, RegisterPosted(c, x, a) \/ RegisterDebited(c, x, a) \/ RegisterCredited(c, x, a)
        PROVE  x.writes[Txn(k)] \in TxnRow
    <3>1. /\ Posted(x, WelcomeKey(c.user), WelcomePosting(c, a))
          /\ DOMAIN x.writes \subseteq {Ev(c.event), Bal(a), Txn(WelcomeKey(c.user)), SettlementRow}
      BY <2>3 DEF RegisterPosted, RegisterDebited, RegisterCredited, DepositRows
    <3> QED BY <3>1, KeyKinds DEF Posted, SettlementRow
  <2> QED BY <1>4, <2>1, <2>2, <2>3 DEF RegisterStage
<1>5. CASE FailedGated(c, x)
  BY <1>5, KeyKinds DEF FailedGated
<1>6. CASE ReleaseStage(c, x)
  <2>1. PICK B, D : DOMAIN x.writes \subseteq ReleaseRows(c, x, B, D) \cup {Req(c.request)}
    BY <1>6 DEF ReleaseStage, ReleaseDone, ReleaseLocked, ReleaseBumped, ReleaseStored
  <2> QED BY <2>1, ReleaseRowKinds, KeyKinds
<1> QED BY <1>1, <1>2, <1>3, <1>4, <1>5, <1>6 DEF Stage

LEMMA ProgressFacts ==
    ASSUME NEW w, NEW x, x = Progress(w)
    PROVE  /\ x.todo = tx[w].todo /\ x.writes = tx[w].writes /\ x.locked = tx[w].locked
           /\ x.emitted = tx[w].emitted /\ x.resp = resp[w]
           /\ \A row \in x.locked : x.base[row] = db[row]
BY DEF Progress

\* What the invariant says of a running transaction.
LEMMA RunningFacts ==
    ASSUME TxInv, NEW w \in Worker, Running(w), NEW x, x = Progress(w), NEW c, c = call[w]
    PROVE  /\ c \in Call /\ Stage(c, x) /\ LocksKnown(x) /\ DOMAIN tx[w] = TxFields
           /\ outcome[w] = None
           /\ \A k \in IdemKey : Txn(k) \in DOMAIN tx[w].writes => tx[w].writes[Txn(k)].id \in Int
<1>1. ControlOK(w) /\ StageOK(w)
  BY DEF TxInv, WorkerOK
<1>2. c \in Call /\ Stage(c, x) /\ DOMAIN tx[w] = TxFields /\ outcome[w] = None
  BY <1>1 DEF ControlOK, StageOK
<1>3. LocksKnown(x)
  BY <1>2, StageLocks
<1>4. \A k \in IdemKey : Txn(k) \in DOMAIN x.writes => x.writes[Txn(k)] \in TxnRow
  BY <1>2, StageEntries
<1> QED BY <1>2, <1>3, <1>4, ProgressFacts DEF TxnRow

LEMMA MoveStep ==
    ASSUME TxInv, NEW w \in Worker, Moves(w), Running(w), Running(w)', DOMAIN tx'[w] = TxFields,
           tx'[w].older = tx[w].older,
           NEW y, y = Progress(w)', Stage(call[w], y),
           \A v \in Worker \ {w} : Running(v) => tx[v].locked \cap tx'[w].locked = {},
           \A a \in AccountId : Bal(a) \in tx'[w].locked => Bal(a) \notin DOMAIN tx[w].older,
           \A h \in HoldId : HoldKey(h) \in tx'[w].locked => HoldKey(h) \notin DOMAIN tx[w].older,
           DrawnApart, ReplayOK(w)', TargetOK(w)', EntriesOK(w)'
    PROVE  TxInv'
<1>1. TablesOK /\ LocksApart /\ nextEntry \in Int
  BY DEF TxInv, TablesOK
<1>2. TablesOK'
  BY <1>1 DEF TablesOK, Moves, TxnRow, Consistent
<1>3. \A v \in Worker \ {w} : Running(v)' <=> Running(v)
  BY DEF Moves, Running
<1>4. LocksApart'
  BY <1>1, <1>3 DEF LocksApart, Moves
<1>5. ASSUME NEW v \in Worker PROVE NamesOK(v)'
  <2>1. PICK c : c = call[v] /\ c = call'[v]
    BY DEF Moves
  <2>2. c # None => \A row \in Names(c) : row \in Drawn' => db[row] # NoRow
    BY <2>1 DEF TxInv, WorkerOK, NamesOK, DrawnApart
  <2> QED BY <2>1, <2>2 DEF NamesOK, Moves
<1>6. ASSUME NEW v \in Worker \ {w} PROVE WorkerOK(v)'
  <2>1. Running(v) => \A k \in IdemKey : Txn(k) \in DOMAIN tx[v].writes => tx[v].writes[Txn(k)].id \in Int
    BY RunningFacts
  <2>2. WorkerOK(v)
    BY DEF TxInv
  <2>3. Undisturbed(v)
    BY CopiesStay DEF Moves, Undisturbed
  <2> QED BY <1>1, <1>5, <2>1, <2>2, <2>3, WorkerStays
<1>7. WorkerOK(w)'
  <2>1. ControlOK(w)'
    BY DEF TxInv, WorkerOK, ControlOK, Moves
  <2>2. StageOK(w)'
    BY DEF StageOK, Moves
  <2>3. OlderOK(w)'
    <3>1. \A h, p : KnownHold(h, p)' <=> KnownHold(h, p)
      BY DEF KnownHold, Moves
    <3>2. PICK c : c = call[w] /\ c = call'[w]
      BY DEF Moves
    <3>3. OlderOK(w) /\ db' = db
      BY DEF TxInv, WorkerOK, Moves
    <3> QED BY <3>1, <3>2, <3>3 DEF OlderOK, SeesActive, Snapshot
  <2> QED BY <1>5, <2>1, <2>2, <2>3 DEF WorkerOK
<1>8. /\ call' = [v \in Worker |-> call'[v]] /\ attempt' = [v \in Worker |-> attempt'[v]]
      /\ outcome' = [v \in Worker |-> outcome'[v]]
  BY DEF TxInv, Moves
<1> QED BY <1>2, <1>4, <1>6, <1>7, <1>8 DEF TxInv, Moves

\* An id that has just been drawn.
NewId(row) == Fresh(row) /\ ((\E a \in AccountId : row = Bal(a)) \/ (\E h \in HoldId : row = HoldKey(h)))

LEMMA NewIdFacts ==
    ASSUME TxInv, NEW row, NewId(row), NEW v \in Worker, Running(v)
    PROVE  row \notin tx[v].locked /\ row \notin DOMAIN tx[v].older
<1>1. PICK x : x = Progress(v)
  OBVIOUS
<1>2. LocksKnown(x) /\ OlderOK(v)
  BY <1>1, RunningFacts DEF TxInv, WorkerOK
<1>3. db[row] = NoRow /\ row \notin DOMAIN tx[v].writes
  BY DEF NewId, Fresh, Drawn
<1>4. x.writes = tx[v].writes /\ x.locked = tx[v].locked /\ \A r \in x.locked : x.base[r] = db[r]
  BY <1>1, ProgressFacts
<1>5. CASE \E a \in AccountId : row = Bal(a)
  BY <1>2, <1>3, <1>4, <1>5 DEF LocksKnown, OlderOK
<1>6. CASE \E h \in HoldId : row = HoldKey(h)
  BY <1>2, <1>3, <1>4, <1>6 DEF LocksKnown, OlderOK
<1> QED BY <1>5, <1>6 DEF NewId

\* A statement may lock the rows it names, and write them and new ones.
MayWrite(w, wr) ==
    /\ \A row \in DOMAIN wr : row \in Statement(w).rows \/ NewId(row)
    /\ \A a \in AccountId : Bal(a) \in Statement(w).rows =>
            Bal(a) \in tx[w].locked \/ Bal(a) \notin DOMAIN tx[w].older
    /\ \A h \in HoldId : HoldKey(h) \in Statement(w).rows =>
            HoldKey(h) \in tx[w].locked \/ HoldKey(h) \notin DOMAIN tx[w].older
    /\ \A row \in DOMAIN wr \cap Statement(w).rows :
            row \in DOMAIN tx[w].writes \/ db[row] # NoRow \/ row[1] \notin {"account_balances", "holds"}

LEMMA NameKinds ==
    ASSUME NEW c \in Call, NEW row \in Names(c)
    PROVE  row[1] \in {"account_balances", "holds"}
BY CallFacts, KeyKinds DEF Names

LEMMA ProceedStep ==
    ASSUME TxInv, NEW w \in Worker, Running(w), Blockers(w) = {}, tx[w].todo # <<>>,
           NEW wr, NEW ev, NEW more, Proceed(w, wr, ev, more), MayWrite(w, wr),
           nextEntry' \in Int, nextEntry' >= nextEntry,
           resp' = [v \in Worker |-> resp'[v]], \A v \in Worker \ {w} : resp'[v] = resp[v],
           NEW y, y = Progress(w)', Stage(call[w], y),
           ReplayOK(w)', TargetOK(w)', EntriesOK(w)'
    PROVE  TxInv'
<1>1. PICK x : x = Progress(w)
  OBVIOUS
<1>2. DOMAIN tx[w] = TxFields /\ tx = [v \in Worker |-> tx[v]] /\ OlderOK(w)
  BY <1>1, RunningFacts DEF TxInv, WorkerOK
<1>3. /\ tx' = [v \in Worker |-> tx'[v]] /\ DOMAIN tx'[w] = TxFields
      /\ \A v \in Worker \ {w} : tx'[v] = tx[v]
      /\ tx'[w].older = tx[w].older /\ tx'[w].writes = Over(wr, tx[w].writes)
      /\ tx'[w].locked = tx[w].locked \cup Statement(w).rows \cup DOMAIN wr
      /\ UNCHANGED <<db, outbox, due, call, attempt, outcome>>
  BY <1>2, ProceedFacts
<1>4. Running(w)'
  BY <1>3 DEF Running, NoTx, TxFields
<1>5. Moves(w)
  BY <1>3 DEF Moves
<1>6. ASSUME NEW v \in Worker \ {w}, Running(v) PROVE tx[v].locked \cap tx'[w].locked = {}
  <2>1. tx[v].locked \cap tx[w].locked = {}
    BY <1>6 DEF TxInv, LocksApart
  <2>2. tx[v].locked \cap Statement(w).rows = {}
    BY <1>6 DEF Blockers
  <2>3. \A row \in DOMAIN wr : row \in Statement(w).rows \/ row \notin tx[v].locked
    BY <1>6, NewIdFacts DEF MayWrite
  <2> QED BY <1>3, <2>1, <2>2, <2>3
<1>7. \A row \in DOMAIN wr : row \in Statement(w).rows \/ row \notin DOMAIN tx[w].older
  BY NewIdFacts DEF MayWrite
<1>8. \A a \in AccountId : Bal(a) \in tx'[w].locked => Bal(a) \notin DOMAIN tx[w].older
  BY <1>2, <1>3, <1>7 DEF MayWrite, OlderOK
<1>9. \A h \in HoldId : HoldKey(h) \in tx'[w].locked => HoldKey(h) \notin DOMAIN tx[w].older
  BY <1>2, <1>3, <1>7 DEF MayWrite, OlderOK
<1>10. DrawnApart
  <2>1. SUFFICES ASSUME NEW row \in Drawn', row \notin Drawn, db[row] = NoRow,
                        NEW v \in Worker, call[v] # None, row \in Names(call[v])
                 PROVE  FALSE
    BY DEF DrawnApart
  <2>2. row \in DOMAIN tx'[w].writes /\ row \notin DOMAIN tx[w].writes
    <3>1. PICK u \in Worker : Running(u)' /\ row \in DOMAIN tx'[u].writes
      BY <2>1 DEF Drawn
    <3>2. u # w => Running(u)
      BY <1>3, <3>1 DEF Running
    <3> QED BY <1>3, <2>1, <3>1, <3>2 DEF Drawn
  <2>3. row \in DOMAIN wr
    <3>1. PICK f : f = tx[w].writes
      OBVIOUS
    <3>2. DOMAIN Over(wr, f) = DOMAIN wr \cup DOMAIN f
      BY OverFacts
    <3> QED BY <1>3, <2>2, <3>1, <3>2
  <2>4. call[v] \in Call
    BY <2>1 DEF TxInv, WorkerOK, ControlOK
  <2>5. row[1] \in {"account_balances", "holds"}
    BY <2>1, <2>4, NameKinds
  <2>6. NewId(row)
    BY <2>1, <2>2, <2>3, <2>5 DEF MayWrite
  <2> QED BY <2>1, <2>6 DEF NewId, Fresh
<1> QED BY <1>3, <1>4, <1>5, <1>6, <1>8, <1>9, <1>10, MoveStep

\* The parts of the invariant that a statement seldom touches.
LEMMA ReplayStays ==
    ASSUME NEW w \in Worker, ReplayOK(w), Running(w), call' = call, tx'[w].older = tx[w].older,
           tx'[w].locked # {}
    PROVE  ReplayOK(w)'
<1>1. PICK c : c = call[w] /\ c = call'[w]
  OBVIOUS
<1>2. PICK y : y = Progress(w)'
  OBVIOUS
<1>3. y.locked # {}
  BY <1>2 DEF Progress
<1>4. ~ Hit(c, y) /\ ~ Missed(c, y)
  BY <1>3 DEF Hit, Missed
<1> QED BY <1>1, <1>2, <1>4, CopiesStay DEF ReplayOK

LEMMA EntriesStay ==
    ASSUME NEW w \in Worker, EntriesOK(w), Running(w), db' = db, tx'[w].older = tx[w].older, nextEntry' = nextEntry,
           NEW wr, tx'[w].writes = Over(wr, tx[w].writes), \A k \in IdemKey : Txn(k) \notin DOMAIN wr
    PROVE  EntriesOK(w)'
<1>1. PICK f : f = tx[w].writes
  OBVIOUS
<1>2. \A k \in IdemKey : Txn(k) \in DOMAIN tx'[w].writes =>
            Txn(k) \in DOMAIN f /\ tx'[w].writes[Txn(k)] = f[Txn(k)]
  <2>1. PICK g : g = tx'[w].writes
    OBVIOUS
  <2>2. g = Over(wr, f)
    BY <1>1, <2>1
  <2>3. DOMAIN g = DOMAIN wr \cup DOMAIN f
    BY <2>2 DEF Over
  <2>4. \A r \in DOMAIN f : r \notin DOMAIN wr => g[r] = f[r]
    BY <2>2 DEF Over
  <2> QED BY <2>1, <2>3, <2>4
<1> QED BY <1>1, <1>2 DEF EntriesOK

-----------------------------------------------------------------------------
(* A transaction ends without effect, or begins.                           *)

LEMMA EndStep ==
    ASSUME TxInv, NEW w \in Worker, tx' = [tx EXCEPT ![w] = NoTx],
           UNCHANGED <<db, due, nextEntry, call, attempt>>,
           resp' = [v \in Worker |-> resp'[v]], \A v \in Worker \ {w} : resp'[v] = resp[v],
           outcome' = [v \in Worker |-> outcome'[v]], \A v \in Worker \ {w} : outcome'[v] = outcome[v],
           ControlOK(w)'
    PROVE  TxInv'
<1>1. tx = [v \in Worker |-> tx[v]] /\ nextEntry \in Int
  BY DEF TxInv, TablesOK
<1>2. ~ Running(w)' /\ \A v \in Worker \ {w} : tx'[v] = tx[v]
  BY <1>1 DEF Running
<1>3. \A v \in Worker \ {w} : Running(v)' <=> Running(v)
  BY <1>2 DEF Running
<1>4. Drawn' \subseteq Drawn
  BY <1>2, <1>3 DEF Drawn
<1>5. ASSUME NEW v \in Worker PROVE NamesOK(v)'
  <2>1. PICK c : c = call[v] /\ c = call'[v]
    OBVIOUS
  <2> QED BY <1>4, <2>1 DEF TxInv, WorkerOK, NamesOK
<1>6. ASSUME NEW v \in Worker \ {w} PROVE WorkerOK(v)'
  <2>1. Running(v) => \A k \in IdemKey : Txn(k) \in DOMAIN tx[v].writes => tx[v].writes[Txn(k)].id \in Int
    BY RunningFacts
  <2>2. WorkerOK(v)
    BY DEF TxInv
  <2>3. Undisturbed(v)
    BY <1>1, <1>2, CopiesStay DEF Undisturbed
  <2> QED BY <1>1, <1>5, <2>1, <2>2, <2>3, WorkerStays
<1>7. WorkerOK(w)'
  BY <1>2, <1>5 DEF WorkerOK, StageOK, OlderOK, ReplayOK, TargetOK, EntriesOK
<1>8. TablesOK' /\ LocksApart'
  BY <1>2, <1>3 DEF TxInv, TablesOK, LocksApart
<1> QED BY <1>1, <1>6, <1>7, <1>8 DEF TxInv

LEMMA RollbackStep ==
    ASSUME TxInv, NEW w \in Worker, Running(w), NEW result \in Result, Rollback(w, result)
    PROVE  TxInv'
<1>1. tx = [v \in Worker |-> tx[v]] /\ outcome = [v \in Worker |-> outcome[v]] /\ ControlOK(w)
  BY DEF TxInv, WorkerOK
<1>2. outcome' = [v \in Worker |-> outcome'[v]] /\ outcome'[w] = result /\ \A v \in Worker \ {w} : outcome'[v] = outcome[v]
  BY <1>1 DEF Rollback
<1>3. ~ Running(w)'
  BY <1>1 DEF Rollback, Running
<1>4. result # None
  BY TransactionsAssumption
<1>5. ControlOK(w)'
  BY <1>1, <1>2, <1>3, <1>4 DEF Rollback, ControlOK
<1>6. resp' = resp /\ resp = [v \in Worker |-> resp[v]]
  BY DEF TxInv, Rollback
<1> QED BY <1>2, <1>5, <1>6, EndStep DEF Rollback

LEMMA RetryStep ==
    ASSUME TxInv, NEW w \in Worker, Running(w), Retry(w)
    PROVE  TxInv'
<1>1. "Internal" \in Result
  BY DEF Result
<1>2. CASE attempt[w] < MaxAttempts
  <2>1. tx = [v \in Worker |-> tx[v]] /\ outcome = [v \in Worker |-> outcome[v]] /\ resp = [v \in Worker |-> resp[v]]
        /\ ControlOK(w)
    BY DEF TxInv, WorkerOK
  <2>2. tx' = [tx EXCEPT ![w] = NoTx] /\ UNCHANGED <<db, outbox, due, nextEntry, call, attempt, resp, outcome>>
    BY <1>2 DEF Retry
  <2>3. ~ Running(w)'
    BY <2>1, <2>2 DEF Running
  <2>4. ControlOK(w)'
    BY <1>2, <2>1, <2>2, <2>3 DEF ControlOK
  <2> QED BY <2>1, <2>2, <2>4, EndStep
<1>3. CASE ~ (attempt[w] < MaxAttempts)
  BY <1>1, <1>3, RollbackStep DEF Retry
<1> QED BY <1>2, <1>3

LEMMA ViolationStep ==
    ASSUME TxInv, NEW w \in Worker, Running(w), Violation(w)
    PROVE  TxInv'
BY RollbackStep, RetryStep DEF Violation, Result

LEMMA StoreFailsStep ==
    ASSUME TxInv, NEW w \in Worker, Running(w), NEW result \in {"Internal", None}, StoreFails(w, result),
           nextEntry' = nextEntry, NEW a, resp' = [resp EXCEPT ![w] = a]
    PROVE  TxInv'
<1>1. /\ tx = [v \in Worker |-> tx[v]] /\ outcome = [v \in Worker |-> outcome[v]] /\ resp = [v \in Worker |-> resp[v]]
      /\ ControlOK(w)
  BY DEF TxInv, WorkerOK
<1>2. /\ resp' = [v \in Worker |-> resp'[v]] /\ (\A v \in Worker \ {w} : resp'[v] = resp[v])
      /\ outcome' = [v \in Worker |-> outcome'[v]] /\ outcome'[w] = result
      /\ \A v \in Worker \ {w} : outcome'[v] = outcome[v]
  BY <1>1 DEF StoreFails
<1>3. ~ Running(w)'
  BY <1>1 DEF StoreFails, Running
<1>4. result \in Result \cup {None} /\ (result = None => attempt[w] < MaxAttempts)
  BY DEF StoreFails, Result
<1>5. ControlOK(w)'
  BY <1>1, <1>2, <1>3, <1>4 DEF StoreFails, ControlOK
<1> QED BY <1>2, <1>5, EndStep DEF StoreFails

LEMMA StartStep ==
    ASSUME TxInv, NEW w \in Worker, NEW c \in Call, Start(w, c)
    PROVE  TxInv'
<1>1. /\ call = [v \in Worker |-> call[v]] /\ nextEntry \in Int /\ ControlOK(w) /\ call[w] = None
  BY DEF TxInv, TablesOK, WorkerOK, Start
<1>2. /\ call' = [v \in Worker |-> call'[v]] /\ call'[w] = c /\ (\A v \in Worker \ {w} : call'[v] = call[v])
      /\ UNCHANGED <<db, outbox, due, nextEntry, tx, attempt, resp, outcome>>
  BY <1>1 DEF Start
<1>3. c # None
  BY CallFacts
<1>4. ~ Running(w) /\ \A v \in Worker : Running(v)' <=> Running(v)
  BY <1>1, <1>2 DEF ControlOK, Running
<1>5. Drawn' = Drawn
  BY <1>2, <1>4 DEF Drawn
<1>6. NamesOK(w)'
  <2>1. \A row \in Names(c) : row \in Drawn => db[row] # NoRow
    BY DEF Start
  <2> QED BY <1>2, <1>5, <2>1 DEF NamesOK
<1>7. ASSUME NEW v \in Worker \ {w} PROVE WorkerOK(v)'
  <2>1. Running(v) => \A k \in IdemKey : Txn(k) \in DOMAIN tx[v].writes => tx[v].writes[Txn(k)].id \in Int
    BY RunningFacts
  <2>2. WorkerOK(v)
    BY DEF TxInv
  <2>3. NamesOK(v)'
    <3>1. PICK d : d = call[v] /\ d = call'[v]
      BY <1>2
    <3> QED BY <1>2, <1>5, <2>2, <3>1 DEF WorkerOK, NamesOK
  <2>4. ASSUME NEW u \in Copies(v) PROVE u \in Copies(v)' /\ call'[u] = call[u]
    <3>1. u # w /\ u \in Worker
      BY <1>1 DEF Copies
    <3> QED BY <1>2, <3>1 DEF Copies
  <2>5. Undisturbed(v)
    BY <1>1, <1>2, <2>4 DEF Undisturbed
  <2> QED BY <1>1, <2>1, <2>2, <2>3, <2>5, WorkerStays
<1>8. ControlOK(w)'
  BY <1>1, <1>2, <1>3, <1>4 DEF ControlOK
<1>9. WorkerOK(w)'
  BY <1>4, <1>6, <1>8 DEF WorkerOK, StageOK, OlderOK, ReplayOK, TargetOK, EntriesOK
<1>10. TablesOK' /\ LocksApart'
  BY <1>2, <1>4 DEF TxInv, TablesOK, LocksApart
<1> QED BY <1>2, <1>7, <1>9, <1>10 DEF TxInv

LEMMA BeginStep ==
    ASSUME TxInv, NEW w \in Worker, Begin(w)
    PROVE  TxInv'
<1>1. /\ tx = [v \in Worker |-> tx[v]] /\ attempt = [v \in Worker |-> attempt[v]] /\ nextEntry \in Int
      /\ ControlOK(w) /\ call[w] # None /\ outcome[w] = None /\ ~ Running(w)
  BY DEF TxInv, TablesOK, WorkerOK, Begin
<1>2. PICK c \in Call : c = call[w]
  BY <1>1 DEF ControlOK
<1>3. /\ tx' = [v \in Worker |-> tx'[v]] /\ \A v \in Worker \ {w} : tx'[v] = tx[v]
      /\ tx'[w] = [todo |-> Program(c), older |-> <<>>, writes |-> <<>>, locked |-> {}, emitted |-> {}]
      /\ attempt' = [v \in Worker |-> attempt'[v]] /\ attempt'[w] = attempt[w] + 1
      /\ \A v \in Worker \ {w} : attempt'[v] = attempt[v]
      /\ UNCHANGED <<db, outbox, due, nextEntry, call, resp, outcome>>
  BY <1>1, <1>2 DEF Begin
<1>4. /\ DOMAIN tx'[w] = TxFields /\ DOMAIN tx'[w].older = {} /\ DOMAIN tx'[w].writes = {}
      /\ tx'[w].locked = {} /\ tx'[w].emitted = {} /\ tx'[w].todo = Program(c)
  BY <1>3 DEF TxFields
<1>5. Running(w)' /\ \A v \in Worker \ {w} : Running(v)' <=> Running(v)
  BY <1>3, <1>4 DEF Running, NoTx, TxFields
<1>6. Drawn' \subseteq Drawn
  BY <1>3, <1>4, <1>5 DEF Drawn
<1>7. ASSUME NEW v \in Worker PROVE NamesOK(v)'
  <2>1. PICK d : d = call[v] /\ d = call'[v]
    BY <1>3
  <2> QED BY <1>3, <1>6, <2>1 DEF TxInv, WorkerOK, NamesOK
<1>8. ASSUME NEW v \in Worker \ {w} PROVE WorkerOK(v)'
  <2>1. Running(v) => \A k \in IdemKey : Txn(k) \in DOMAIN tx[v].writes => tx[v].writes[Txn(k)].id \in Int
    BY RunningFacts
  <2>2. WorkerOK(v)
    BY DEF TxInv
  <2>3. Undisturbed(v)
    BY <1>1, <1>3, CopiesStay DEF Undisturbed
  <2> QED BY <1>1, <1>7, <2>1, <2>2, <2>3, WorkerStays
<1>9. WorkerOK(w)'
  <2>1. attempt[w] \in 0 .. MaxAttempts /\ attempt[w] < MaxAttempts /\ MaxAttempts \in Nat
    BY <1>1, TransactionsAssumption DEF ControlOK
  <2>2. ControlOK(w)'
    BY <1>1, <1>3, <1>4, <1>5, <2>1 DEF ControlOK
  <2>3. PICK y : y = Progress(w)'
    OBVIOUS
  <2>4. y.todo = Program(c) /\ DOMAIN y.writes = {} /\ y.locked = {} /\ y.emitted = {}
    BY <1>4, <2>3 DEF Progress
  <2>5. Begun(c, y)
    BY <2>4 DEF Begun, Untouched
  <2>6. StageOK(w)'
    BY <1>2, <1>3, <2>3, <2>5 DEF StageOK, Stage
  <2>7. OlderOK(w)'
    <3>1. Consistent(db) /\ db' = db /\ \A row : Snapshot(w, row)' = db[row]
      BY <1>3, <1>4 DEF TxInv, TablesOK, Snapshot
    <3>2. SeesActive(w)'
      BY <3>1 DEF SeesActive, Consistent, HoldRow
    <3> QED BY <1>4, <3>2 DEF OlderOK
  <2>8. ReplayOK(w)'
    <3>1. c.method \in Rpc => ~ Hit(c, y) /\ ~ Missed(c, y)
      BY <2>4, <2>5, FirstOps, StatementFacts, BegunNext, MissedNext DEF Hit, OpIs, At
    <3> QED BY <1>2, <1>3, <1>4, <2>3, <3>1 DEF ReplayOK
  <2>9. TargetOK(w)'
    <3>1. ASSUME NEW h, Program(c) = <<LockHold(h)>>, c.method = "PaymentFailed" PROVE FALSE
      <4>1. Program(c) = <<Gate(c.event)>>
        BY <3>1, ProgramFacts DEF IsEvent
      <4>2. Gate(c.event) = LockHold(h)
        BY <3>1, <4>1
      <4> QED BY <4>2, StatementFacts
    <3> QED BY <1>2, <1>3, <1>4, <2>3, <2>4, <3>1 DEF TargetOK, FoundNone
  <2>10. EntriesOK(w)'
    BY <1>4 DEF EntriesOK
  <2> QED BY <1>7, <2>2, <2>6, <2>7, <2>8, <2>9, <2>10 DEF WorkerOK
<1>10. TablesOK' /\ LocksApart'
  BY <1>3, <1>4, <1>5 DEF TxInv, TablesOK, LocksApart
<1> QED BY <1>3, <1>8, <1>9, <1>10 DEF TxInv

LEMMA ExpiryStep ==
    ASSUME TxInv, NEW h \in HoldId, PassExpiry(h)
    PROVE  TxInv'
<1>1. UNCHANGED <<db, outbox, nextEntry, tx, call, attempt, resp, outcome>> /\ due' = due \cup {h} /\ nextEntry \in Int
  BY DEF PassExpiry, TxInv, TablesOK
<1>2. \A v \in Worker : Running(v)' <=> Running(v)
  BY <1>1 DEF Running
<1>3. Drawn' = Drawn
  BY <1>1, <1>2 DEF Drawn
<1>4. ASSUME NEW v \in Worker PROVE WorkerOK(v)'
  <2>1. Running(v) => \A k \in IdemKey : Txn(k) \in DOMAIN tx[v].writes => tx[v].writes[Txn(k)].id \in Int
    BY RunningFacts
  <2>2. WorkerOK(v)
    BY DEF TxInv
  <2>3. Undisturbed(v)
    BY <1>1, CopiesStay DEF Undisturbed
  <2>4. NamesOK(v)'
    <3>1. PICK d : d = call[v] /\ d = call'[v]
      BY <1>1
    <3> QED BY <1>1, <1>3, <2>2, <3>1 DEF WorkerOK, NamesOK
  <2> QED BY <1>1, <2>1, <2>2, <2>3, <2>4, WorkerStays
<1>5. TablesOK' /\ LocksApart'
  BY <1>1, <1>2 DEF TxInv, TablesOK, LocksApart
<1> QED BY <1>1, <1>4, <1>5 DEF TxInv

-----------------------------------------------------------------------------
(* COMMIT.                                                                 *)

\* What a commit does to the rows and to the other transactions.
LEMMA CommitFacts ==
    ASSUME TxInv, NEW w \in Worker, NEW result, Commit(w, result), NEW x, x = Progress(w), NEW c, c = call[w]
    PROVE  /\ c \in Call /\ Stage(c, x) /\ Complete(c, x) /\ LocksKnown(x) /\ x.todo = <<>>
           /\ Applied(x, db, db')
           /\ x.writes = tx[w].writes /\ x.emitted = tx[w].emitted /\ x.resp = resp[w]
           /\ tx' = [v \in Worker |-> tx'[v]] /\ tx'[w] = NoTx
           /\ outcome' = [v \in Worker |-> outcome'[v]] /\ outcome'[w] = result
           /\ \A v \in Worker \ {w} : outcome'[v] = outcome[v]
           /\ UNCHANGED <<due, nextEntry, call, attempt, resp>>
<1>1. Running(w) /\ tx[w].todo = <<>>
  BY DEF Commit
<1>2. c \in Call /\ Stage(c, x) /\ LocksKnown(x)
  BY <1>1, RunningFacts
<1>3. x.todo = <<>> /\ x.writes = tx[w].writes /\ x.locked = tx[w].locked /\ x.emitted = tx[w].emitted
      /\ x.resp = resp[w] /\ \A row \in x.locked : x.base[row] = db[row]
  BY <1>1, ProgressFacts
<1>4. Complete(c, x)
  BY <1>2, <1>3, StageComplete
<1>5. Applied(x, db, db')
  <2>1. PICK f : f = tx[w].writes
    OBVIOUS
  <2>2. db' = Over(f, db) /\ DOMAIN db = Row
    BY <2>1 DEF Commit, TxInv, TablesOK, Consistent
  <2>3. DOMAIN f \subseteq x.locked /\ DOMAIN f \subseteq Row
    BY <1>2, <1>3, <2>1 DEF LocksKnown
  <2>4. DOMAIN db' = Row /\ (\A row \in DOMAIN f : db'[row] = f[row]) /\ \A row \in Row \ DOMAIN f : db'[row] = db[row]
    BY <2>2, <2>3 DEF Over
  <2> QED BY <1>3, <2>1, <2>3, <2>4 DEF Applied
<1>6. /\ tx' = [v \in Worker |-> tx'[v]] /\ tx'[w] = NoTx
      /\ outcome' = [v \in Worker |-> outcome'[v]] /\ outcome'[w] = result
      /\ \A v \in Worker \ {w} : outcome'[v] = outcome[v]
      /\ UNCHANGED <<due, nextEntry, call, attempt, resp>>
  BY DEF Commit, TxInv
<1> QED BY <1>2, <1>3, <1>4, <1>5, <1>6

\* Another transaction, when w has committed: rows have older versions more.
Overtaken(v, w) ==
    /\ Running(v) /\ Running(v)' /\ DOMAIN tx'[v] = DOMAIN tx[v]
    /\ tx'[v].todo = tx[v].todo /\ tx'[v].writes = tx[v].writes /\ tx'[v].locked = tx[v].locked
    /\ tx'[v].emitted = tx[v].emitted
    /\ DOMAIN tx'[v].older = DOMAIN tx[v].older \cup DOMAIN tx[w].writes
    /\ \A row \in DOMAIN tx[v].older : tx'[v].older[row] = tx[v].older[row]
    /\ \A row \in DOMAIN tx[w].writes : row \notin DOMAIN tx[v].older => tx'[v].older[row] = db[row]

LEMMA CommitOthers ==
    ASSUME TxInv, NEW w \in Worker, NEW result, Commit(w, result), NEW v \in Worker \ {w}
    PROVE  /\ Running(v)' <=> Running(v)
           /\ Running(v) => Overtaken(v, w)
           /\ ~ Running(v) => tx'[v] = tx[v]
<1>1. CASE ~ Running(v)
  BY <1>1 DEF Commit, Running
<1>2. CASE Running(v)
  <2>1. PICK t : t = tx[v]
    OBVIOUS
  <2>2. DOMAIN t = TxFields
    BY <1>2, <2>1, RunningFacts
  <2>3. PICK f, g : f = tx[w].writes /\ g = t.older
    OBVIOUS
  <2>4. PICK old : old = Over(g, [row \in DOMAIN f |-> db[row]])
    OBVIOUS
  <2>5. tx'[v] = [t EXCEPT !.older = old]
    BY <1>2, <2>1, <2>3, <2>4 DEF Commit
  <2>6. /\ DOMAIN tx'[v] = TxFields /\ tx'[v].older = old /\ tx'[v].todo = t.todo /\ tx'[v].writes = t.writes
        /\ tx'[v].locked = t.locked /\ tx'[v].emitted = t.emitted
    BY <2>2, <2>5 DEF TxFields
  <2>7. /\ DOMAIN old = DOMAIN g \cup DOMAIN f
        /\ \A row \in DOMAIN g : old[row] = g[row]
        /\ \A row \in DOMAIN f : row \notin DOMAIN g => old[row] = db[row]
    BY <2>4 DEF Over
  <2>8. Running(v)'
    BY <2>6 DEF Running, NoTx, TxFields
  <2> QED BY <1>2, <2>1, <2>2, <2>3, <2>6, <2>7, <2>8 DEF Overtaken
<1> QED BY <1>1, <1>2

\* A hold keeps its payment, and no hold, account or answer goes away.
LEMMA AppliedKeeps ==
    ASSUME NEW c \in Call, NEW x, Complete(c, x), NEW rows, NEW new, Consistent(rows), Applied(x, rows, new)
    PROVE  /\ \A a \in AccountId : rows[Bal(a)] # NoRow \/ Bal(a) \in DOMAIN x.writes => new[Bal(a)] # NoRow
           /\ \A h \in HoldId : rows[HoldKey(h)] # NoRow \/ HoldKey(h) \in DOMAIN x.writes => new[HoldKey(h)] # NoRow
           /\ \A h \in HoldId : rows[HoldKey(h)] # NoRow => new[HoldKey(h)].payment = rows[HoldKey(h)].payment
           /\ \A r \in RequestId : rows[Req(r)] # NoRow => new[Req(r)] = rows[Req(r)]
<1>1. \A a \in AccountId : rows[Bal(a)] # NoRow \/ Bal(a) \in DOMAIN x.writes => new[Bal(a)] # NoRow
  BY RowFacts, NoRowFacts DEF Applied, Complete, BalancesWritten
<1>2. ASSUME NEW h \in HoldId, HoldKey(h) \in DOMAIN x.writes
      PROVE  new[HoldKey(h)] # NoRow /\ (rows[HoldKey(h)] # NoRow => new[HoldKey(h)].payment = rows[HoldKey(h)].payment)
  BY <1>2, AppliedHold, NoRowFacts
<1>3. \A h \in HoldId : HoldKey(h) \notin DOMAIN x.writes => new[HoldKey(h)] = rows[HoldKey(h)]
  BY RowFacts DEF Applied
<1>4. \A r \in RequestId : rows[Req(r)] # NoRow => new[Req(r)] = rows[Req(r)]
  BY RowFacts DEF Applied, Complete, RequestsWritten
<1> QED BY <1>1, <1>2, <1>3, <1>4

LEMMA OvertakenStage ==
    ASSUME TxInv, NEW w \in Worker, NEW result, Commit(w, result), NEW v \in Worker \ {w}, Running(v)
    PROVE  Progress(v)' = Progress(v) /\ StageOK(v)'
<1>1. PICK x : x = Progress(w)
  OBVIOUS
<1>2. Applied(x, db, db') /\ LocksKnown(x) /\ UNCHANGED <<call, resp>>
  BY <1>1, CommitFacts
<1>3. x.writes = tx[w].writes /\ x.locked = tx[w].locked
  BY <1>1, ProgressFacts
<1>4. PICK z : z = Progress(v)
  OBVIOUS
<1>5. LocksKnown(z) /\ z.locked = tx[v].locked
  BY <1>4, RunningFacts, ProgressFacts
<1>6. tx[v].locked \cap tx[w].locked = {}
  BY DEF Commit, TxInv, LocksApart
<1>7. \A row \in tx[v].locked : db'[row] = db[row]
  BY <1>2, <1>3, <1>5, <1>6 DEF Applied, LocksKnown
<1>8. Overtaken(v, w)
  BY CommitOthers
<1>9. Progress(v)' = Progress(v)
  BY <1>2, <1>7, <1>8 DEF Progress, Overtaken
<1>10. StageOK(v)'
  <2>1. PICK c : c = call[v] /\ c = call'[v]
    BY <1>2
  <2>2. Stage(c, z)
    BY <1>4, <2>1, RunningFacts
  <2>3. z = Progress(v)'
    BY <1>4, <1>9
  <2> QED BY <2>1, <2>2, <2>3 DEF StageOK
<1> QED BY <1>9, <1>10

LEMMA SnapshotKept ==
    ASSUME TxInv, NEW w \in Worker, NEW result, Commit(w, result), NEW v \in Worker \ {w}, Running(v)
    PROVE  \A row \in Row : Snapshot(v, row)' = Snapshot(v, row)
<1>1. PICK x : x = Progress(w)
  OBVIOUS
<1>2. Applied(x, db, db') /\ x.writes = tx[w].writes /\ Overtaken(v, w)
  BY <1>1, CommitFacts, CommitOthers
<1> QED BY <1>2 DEF Applied, Overtaken, Snapshot

LEMMA OvertakenOlder ==
    ASSUME TxInv, NEW w \in Worker, NEW result, Commit(w, result), NEW v \in Worker \ {w}, Running(v)
    PROVE  OlderOK(v)'
<1>1. PICK x : x = Progress(w)
  OBVIOUS
<1>2. PICK d : d = call[w]
  OBVIOUS
<1>3. Applied(x, db, db') /\ LocksKnown(x) /\ Complete(d, x) /\ d \in Call /\ call' = call
  BY <1>1, <1>2, CommitFacts
<1>4. x.writes = tx[w].writes /\ x.locked = tx[w].locked
  BY <1>1, ProgressFacts
<1>5. Overtaken(v, w) /\ OlderOK(v) /\ Consistent(db) /\ NamesOK(v)
  BY CommitOthers DEF TxInv, TablesOK, WorkerOK
<1>6. PICK old, new, f, locked :
        /\ old = tx[v].older /\ new = tx'[v].older /\ f = tx[w].writes /\ locked = tx[v].locked
  OBVIOUS
<1>7. /\ DOMAIN new = DOMAIN old \cup DOMAIN f /\ locked = tx'[v].locked
      /\ \A row \in DOMAIN old : new[row] = old[row]
      /\ \A row \in DOMAIN f : row \notin DOMAIN old => new[row] = db[row]
  BY <1>5, <1>6 DEF Overtaken
<1>8. locked \cap DOMAIN f = {} /\ DOMAIN f \subseteq Row /\ DOMAIN f \subseteq DOMAIN x.writes
  <2>1. tx[v].locked \cap tx[w].locked = {}
    BY DEF Commit, TxInv, LocksApart
  <2> QED BY <1>3, <1>4, <1>6, <2>1 DEF LocksKnown
<1>9. /\ \A a \in AccountId : db[Bal(a)] # NoRow \/ Bal(a) \in DOMAIN x.writes => db'[Bal(a)] # NoRow
      /\ \A h \in HoldId : db[HoldKey(h)] # NoRow \/ HoldKey(h) \in DOMAIN x.writes => db'[HoldKey(h)] # NoRow
      /\ \A h \in HoldId : db[HoldKey(h)] # NoRow => db'[HoldKey(h)].payment = db[HoldKey(h)].payment
  BY <1>3, <1>5, AppliedKeeps
<1>10. \A h, p : KnownHold(h, p) => KnownHold(h, p)'
  BY <1>9 DEF KnownHold
<1>11. DOMAIN new \subseteq Row
  BY <1>5, <1>6, <1>7, <1>8 DEF OlderOK
<1>12. \A a \in AccountId : Bal(a) \in DOMAIN new => db'[Bal(a)] # NoRow /\ Bal(a) \notin locked
  BY <1>5, <1>6, <1>7, <1>8, <1>9 DEF OlderOK
<1>13. \A h \in HoldId : HoldKey(h) \in DOMAIN new => db'[HoldKey(h)] # NoRow /\ HoldKey(h) \notin locked
  BY <1>5, <1>6, <1>7, <1>8, <1>9 DEF OlderOK
<1>14. ASSUME NEW p \in Payment, Pay(p) \in DOMAIN new PROVE new[Pay(p)] = NoRow \/ KnownHold(new[Pay(p)], p)'
  <2>1. CASE Pay(p) \in DOMAIN old
    <3>1. PICK h : h = new[Pay(p)]
      OBVIOUS
    <3>2. h = old[Pay(p)]
      BY <1>7, <2>1, <3>1
    <3>3. h = NoRow \/ KnownHold(h, p)
      BY <1>5, <1>6, <2>1, <3>2 DEF OlderOK
    <3>4. h = NoRow \/ KnownHold(h, p)'
      BY <1>10, <3>3
    <3> QED BY <1>6, <3>1, <3>4
  <2>2. CASE Pay(p) \notin DOMAIN old
    <3>1. new[Pay(p)] = db[Pay(p)]
      BY <1>7, <1>14, <2>2
    <3>2. PICK h : h = db[Pay(p)]
      OBVIOUS
    <3>3. h \in HoldId => KnownHold(h, p)
      BY <1>5, <3>2 DEF Consistent, KnownHold
    <3>4. h \in HoldId \cup {NoRow}
      BY <1>5, <3>2 DEF Consistent
    <3>5. h = NoRow \/ KnownHold(h, p)'
      BY <1>10, <3>3, <3>4
    <3>6. h = tx'[v].older[Pay(p)]
      BY <1>6, <3>1, <3>2
    <3> QED BY <1>6, <3>5, <3>6
  <2> QED BY <2>1, <2>2
<1>15. \A r \in RequestId : Req(r) \in DOMAIN new => new[Req(r)] = NoRow
  <2>1. ASSUME NEW r \in RequestId, Req(r) \in DOMAIN f PROVE db[Req(r)] = NoRow
    BY <1>3, <1>4, <1>6, <2>1 DEF Complete, RequestsWritten, Applied
  <2> QED BY <1>5, <1>6, <1>7, <2>1 DEF OlderOK
<1>16. PICK c : c = call[v] /\ c = call'[v]
  BY <1>3
<1>17. \A row \in Names(c) : row \in DOMAIN new => new[row] # NoRow
  <2>1. c # None
    BY <1>16, RunningFacts, CallFacts
  <2>2. \A row \in DOMAIN f : row \in Drawn
    BY <1>6 DEF Drawn, Commit
  <2> QED BY <1>5, <1>6, <1>7, <1>16, <2>1, <2>2 DEF OlderOK, NamesOK
<1>18. SeesActive(v)'
  <2>1. SUFFICES ASSUME NEW h \in HoldId, db'[HoldKey(h)] # NoRow, db'[HoldKey(h)].status = "active",
                        Snapshot(v, HoldKey(h))' # NoRow
                 PROVE  Snapshot(v, Pay(db[HoldKey(h)].payment))' = h
    BY DEF SeesActive
  <2>2. Snapshot(v, HoldKey(h)) # NoRow
    BY <2>1, SnapshotKept, RowFacts
  <2>3. db[HoldKey(h)] # NoRow
    BY <1>5, <2>2 DEF OlderOK, Snapshot
  <2>4. HoldKey(h) \notin DOMAIN x.writes
    BY <1>3, <1>5, <2>1, <2>3, AppliedHold
  <2>5. PICK row : row = db[HoldKey(h)] /\ row = db'[HoldKey(h)]
    BY <1>3, <2>4, RowFacts DEF Applied
  <2>6. Snapshot(v, Pay(row.payment)) = h /\ Pay(row.payment) \in Row
    BY <1>5, <2>1, <2>2, <2>5, RowFacts DEF OlderOK, SeesActive, Consistent, HoldRow
  <2>7. Snapshot(v, Pay(row.payment))' = h
    BY <2>6, SnapshotKept
  <2> QED BY <2>5, <2>7
<1> QED BY <1>6, <1>7, <1>11, <1>12, <1>13, <1>14, <1>15, <1>16, <1>17, <1>18 DEF OlderOK

LEMMA OvertakenReplay ==
    ASSUME TxInv, NEW w \in Worker, NEW result, Commit(w, result), NEW v \in Worker \ {w}, Running(v)
    PROVE  ReplayOK(v)'
<1>1. PICK x, d, c : x = Progress(w) /\ d = call[w] /\ c = call[v]
  OBVIOUS
<1>2. Applied(x, db, db') /\ Complete(d, x) /\ d \in Call /\ call' = call /\ resp' = resp /\ x.writes = tx[w].writes
  BY <1>1, CommitFacts
<1>3. PICK y : y = Progress(v) /\ y = Progress(v)'
  BY OvertakenStage
<1>4. Overtaken(v, w) /\ ReplayOK(v) /\ Consistent(db) /\ c = call'[v] /\ c \in Call
  BY <1>1, <1>2, CommitOthers, RunningFacts DEF TxInv, TablesOK, WorkerOK
<1>5. SUFFICES ASSUME c.method \in Rpc
               PROVE  /\ Hit(c, y) => db'[Req(c.request)] # NoRow /\ resp'[v] = Decode(db'[Req(c.request)], c.method)
                      /\ Missed(c, y) => db'[Req(c.request)] = NoRow \/ Req(c.request) \in DOMAIN tx'[v].older
                      /\ Req(c.request) \in DOMAIN tx'[v].older /\ (\A u \in Copies(v)' : call'[u] = c)
                            => Names(c) \subseteq DOMAIN tx'[v].older
  BY <1>3, <1>4 DEF ReplayOK
<1>6. c.request \in RequestId /\ Req(c.request) \in Row
  BY <1>4, <1>5, CallFacts, RowFacts DEF Rpc
<1>7. ASSUME Hit(c, y) PROVE db'[Req(c.request)] # NoRow /\ resp'[v] = Decode(db'[Req(c.request)], c.method)
  <2>1. db[Req(c.request)] # NoRow /\ resp[v] = Decode(db[Req(c.request)], c.method)
    BY <1>1, <1>3, <1>4, <1>5, <1>7 DEF ReplayOK
  <2>2. db'[Req(c.request)] = db[Req(c.request)]
    BY <1>2, <1>4, <1>6, <2>1, AppliedKeeps
  <2> QED BY <1>2, <2>1, <2>2
<1>8. ASSUME Missed(c, y) PROVE db'[Req(c.request)] = NoRow \/ Req(c.request) \in DOMAIN tx'[v].older
  <2>1. db[Req(c.request)] = NoRow \/ Req(c.request) \in DOMAIN tx[v].older
    BY <1>1, <1>3, <1>4, <1>5, <1>8 DEF ReplayOK
  <2>2. db'[Req(c.request)] = db[Req(c.request)] \/ Req(c.request) \in DOMAIN tx[w].writes
    BY <1>2, <1>6 DEF Applied
  <2> QED BY <1>4, <2>1, <2>2 DEF Overtaken
<1>9. ASSUME Req(c.request) \in DOMAIN tx'[v].older, \A u \in Copies(v)' : call'[u] = c
      PROVE  Names(c) \subseteq DOMAIN tx'[v].older
  <2>1. \A u \in Copies(v) : call[u] = c
    BY <1>2, <1>9, CopiesStay
  <2>2. CASE Req(c.request) \in DOMAIN tx[v].older
    <3>1. Names(c) \subseteq DOMAIN tx[v].older
      BY <1>1, <1>4, <1>5, <2>1, <2>2 DEF ReplayOK
    <3> QED BY <1>4, <3>1 DEF Overtaken
  <2>3. CASE Req(c.request) \in DOMAIN tx[w].writes
    <3>1. d.method \in Rpc /\ d.request = c.request /\ Names(d) \subseteq DOMAIN tx[w].writes
      BY <1>2, <1>6, <2>3 DEF Complete, RequestsWritten
    <3>2. w \in Copies(v)
      BY <1>1, <1>2, <3>1, CallFacts DEF Copies
    <3>3. d = c
      BY <1>1, <2>1, <3>2
    <3> QED BY <1>4, <3>1, <3>3 DEF Overtaken
  <2> QED BY <1>4, <1>9, <2>2, <2>3 DEF Overtaken
<1> QED BY <1>7, <1>8, <1>9

LEMMA OvertakenEntries ==
    ASSUME TxInv, NEW w \in Worker, NEW result, Commit(w, result), NEW v \in Worker \ {w}, Running(v)
    PROVE  TargetOK(v)' /\ EntriesOK(v)'
<1>1. PICK x, d : x = Progress(w) /\ d = call[w]
  OBVIOUS
<1>2. /\ Applied(x, db, db') /\ Complete(d, x) /\ d \in Call /\ x.writes = tx[w].writes
      /\ call' = call /\ due' = due /\ nextEntry' = nextEntry
  BY <1>1, CommitFacts
<1>3. Overtaken(v, w) /\ TargetOK(v) /\ EntriesOK(v) /\ Consistent(db)
  BY CommitOthers DEF TxInv, TablesOK, WorkerOK
<1>4. TargetOK(v)'
  <2>1. /\ \A h \in HoldId : db[HoldKey(h)] # NoRow \/ HoldKey(h) \in DOMAIN x.writes => db'[HoldKey(h)] # NoRow
        /\ \A h \in HoldId : db[HoldKey(h)] # NoRow => db'[HoldKey(h)].payment = db[HoldKey(h)].payment
    BY <1>2, <1>3, AppliedKeeps
  <2>2. \A h, p : KnownHold(h, p) => KnownHold(h, p)'
    BY <2>1 DEF KnownHold
  <2>3. PICK c, y : c = call[v] /\ c = call'[v] /\ y = Progress(v) /\ y = Progress(v)'
    BY <1>2, OvertakenStage
  <2>4. c \in Call
    BY <2>3, RunningFacts
  <2>5. c.method = "PaymentFailed" => Snapshot(v, Pay(c.payment))' = Snapshot(v, Pay(c.payment))
    BY <2>4, SnapshotKept, CallFacts, RowFacts
  <2> QED BY <1>2, <1>3, <2>2, <2>3, <2>5 DEF TargetOK, Overtaken
<1>5. EntriesOK(v)'
  <2>1. SUFFICES ASSUME NEW k \in IdemKey, Txn(k) \in DOMAIN tx'[v].writes
                 PROVE  /\ tx'[v].writes[Txn(k)].id < nextEntry'
                        /\ \A j \in IdemKey : db'[Txn(j)] # NoRow => \A a \in AccountId :
                             a \in AccountsOf(db'[Txn(j)]) /\ a \in AccountsOf(tx'[v].writes[Txn(k)]) =>
                                db'[Txn(j)].id < tx'[v].writes[Txn(k)].id \/ Bal(a) \in DOMAIN tx'[v].older
    BY DEF EntriesOK
  <2>2. PICK mine : mine = tx[v].writes[Txn(k)] /\ mine = tx'[v].writes[Txn(k)]
    BY <1>3 DEF Overtaken
  <2>3. /\ mine.id < nextEntry
        /\ \A j \in IdemKey : db[Txn(j)] # NoRow => \A a \in AccountId :
             a \in AccountsOf(db[Txn(j)]) /\ a \in AccountsOf(mine) =>
                db[Txn(j)].id < mine.id \/ Bal(a) \in DOMAIN tx[v].older
    BY <1>3, <2>1, <2>2 DEF EntriesOK, Overtaken
  <2>4. ASSUME NEW j \in IdemKey, db'[Txn(j)] # NoRow, NEW a \in AccountId,
               a \in AccountsOf(db'[Txn(j)]), a \in AccountsOf(mine)
        PROVE  db'[Txn(j)].id < mine.id \/ Bal(a) \in DOMAIN tx'[v].older
    <3>1. CASE Txn(j) \notin DOMAIN x.writes
      <4>1. PICK entry : entry = db[Txn(j)] /\ entry = db'[Txn(j)]
        BY <1>2, <3>1, RowFacts DEF Applied
      <4> QED BY <1>3, <2>3, <2>4, <4>1 DEF Overtaken
    <3>2. CASE Txn(j) \in DOMAIN x.writes
      <4>1. PICK entry : entry = x.writes[Txn(j)] /\ entry = db'[Txn(j)]
        BY <1>2, <3>2 DEF Applied
      <4>2. \A b \in AccountsOf(entry) : Bal(b) \in DOMAIN x.writes
        BY <1>2, <3>2, <4>1 DEF Complete, EntriesWritten
      <4>3. a \in AccountsOf(entry)
        BY <2>4, <4>1
      <4> QED BY <1>2, <1>3, <4>2, <4>3 DEF Overtaken
    <3> QED BY <3>1, <3>2
  <2>5. PICK accounts : accounts = AccountsOf(mine) /\ accounts = AccountsOf(tx'[v].writes[Txn(k)])
    BY <2>2
  <2> QED BY <1>2, <2>2, <2>3, <2>4, <2>5
<1> QED BY <1>4, <1>5

LEMMA CommitStep ==
    ASSUME TxInv, NEW w \in Worker, NEW result \in Result, Commit(w, result)
    PROVE  TxInv'
<1>1. PICK x, d : x = Progress(w) /\ d = call[w]
  OBVIOUS
<1>2. /\ Applied(x, db, db') /\ Complete(d, x) /\ d \in Call /\ x.writes = tx[w].writes /\ tx'[w] = NoTx
      /\ tx' = [v \in Worker |-> tx'[v]] /\ outcome' = [v \in Worker |-> outcome'[v]] /\ outcome'[w] = result
      /\ (\A v \in Worker \ {w} : outcome'[v] = outcome[v]) /\ UNCHANGED <<due, nextEntry, call, attempt, resp>>
  BY <1>1, CommitFacts
<1>3. Consistent(db) /\ Running(w)
  BY DEF TxInv, TablesOK, Commit
<1>4. ~ Running(w)' /\ \A v \in Worker \ {w} : Running(v)' <=> Running(v)
  BY <1>2, CommitOthers DEF Running
<1>5. TablesOK'
  <2>1. Consistent(db)'
    <3>1. PICK new : new = db'
      OBVIOUS
    <3>2. Consistent(new)
      BY <1>2, <1>3, <3>1, CommitConsistent
    <3> QED BY <3>1, <3>2
  <2>2. ASSUME NEW k \in IdemKey, db'[Txn(k)] # NoRow PROVE db'[Txn(k)].id < nextEntry
    <3>1. CASE Txn(k) \notin DOMAIN x.writes
      <4>1. db'[Txn(k)] = db[Txn(k)]
        BY <1>2, <3>1, RowFacts DEF Applied
      <4> QED BY <2>2, <4>1 DEF TxInv, TablesOK
    <3>2. CASE Txn(k) \in DOMAIN x.writes
      <4>1. db'[Txn(k)] = tx[w].writes[Txn(k)]
        BY <1>2, <3>2 DEF Applied
      <4>2. EntriesOK(w)
        BY DEF TxInv, WorkerOK
      <4> QED BY <1>2, <1>3, <3>2, <4>1, <4>2 DEF EntriesOK
    <3> QED BY <3>1, <3>2
  <2> QED BY <1>2, <2>1, <2>2 DEF TxInv, TablesOK
<1>6. LocksApart'
  <2>1. \A v \in Worker \ {w} : Running(v) => tx'[v].locked = tx[v].locked
    BY CommitOthers DEF Overtaken
  <2> QED BY <1>4, <2>1 DEF TxInv, LocksApart
<1>7. Drawn' \subseteq Drawn
  <2>1. \A v \in Worker \ {w} : Running(v) => tx'[v].writes = tx[v].writes
    BY CommitOthers DEF Overtaken
  <2> QED BY <1>4, <2>1 DEF Drawn
<1>8. ASSUME NEW v \in Worker PROVE NamesOK(v)'
  <2>1. PICK c : c = call[v] /\ c = call'[v]
    BY <1>2
  <2>2. ASSUME c # None, NEW row \in Names(c), row \in Drawn' PROVE db'[row] # NoRow
    <3>1. db[row] # NoRow
      BY <1>7, <2>1, <2>2 DEF TxInv, WorkerOK, NamesOK
    <3>2. c \in Call
      BY <2>1, <2>2 DEF TxInv, WorkerOK, ControlOK
    <3>3. (\E a \in AccountId : row = Bal(a)) \/ (\E h \in HoldId : row = HoldKey(h))
      BY <2>2, <3>2, CallFacts DEF Names
    <3> QED BY <1>2, <1>3, <3>1, <3>3, AppliedKeeps
  <2> QED BY <2>1, <2>2 DEF NamesOK
<1>9. ASSUME NEW v \in Worker PROVE ControlOK(v)'
  <2>1. ControlOK(v)
    BY DEF TxInv, WorkerOK
  <2>2. CASE v = w
    <3>1. result # None /\ d # None
      BY <1>2, CallFacts, TransactionsAssumption
    <3> QED BY <1>1, <1>2, <1>4, <2>1, <2>2, <3>1 DEF ControlOK
  <2>3. CASE v # w
    <3>1. Running(v) => DOMAIN tx'[v] = DOMAIN tx[v]
      BY <2>3, CommitOthers DEF Overtaken
    <3> QED BY <1>2, <1>4, <2>1, <2>3, <3>1 DEF ControlOK
  <2> QED BY <2>2, <2>3
<1>10. ASSUME NEW v \in Worker PROVE WorkerOK(v)'
  <2>1. CASE Running(v)'
    <3>1. v \in Worker \ {w} /\ Running(v)
      BY <1>4, <2>1
    <3> QED BY <1>8, <1>9, <3>1, OvertakenStage, OvertakenOlder, OvertakenReplay, OvertakenEntries DEF WorkerOK
  <2>2. CASE ~ Running(v)'
    BY <1>8, <1>9, <2>2 DEF WorkerOK, StageOK, OlderOK, ReplayOK, TargetOK, EntriesOK
  <2> QED BY <2>1, <2>2
<1>11. call' = [v \in Worker |-> call'[v]] /\ attempt' = [v \in Worker |-> attempt'[v]] /\ resp' = [v \in Worker |-> resp'[v]]
  BY <1>2 DEF TxInv
<1> QED BY <1>2, <1>5, <1>6, <1>10, <1>11 DEF TxInv

-----------------------------------------------------------------------------
(* The statements.                                                         *)

LEMMA ReadyFacts ==
    ASSUME TxInv, NEW w \in Worker, NEW op, Ready(w, op), NEW x, x = Progress(w), NEW c, c = call[w]
    PROVE  /\ Running(w) /\ Blockers(w) = {} /\ tx[w].todo # <<>>
           /\ OpIs(x, op) /\ Statement(w) = Head(x.todo) /\ c \in Call /\ Stage(c, x)
           /\ DOMAIN tx[w] = TxFields
           /\ OlderOK(w) /\ ReplayOK(w) /\ TargetOK(w) /\ EntriesOK(w)
           /\ Consistent(db) /\ nextEntry \in Int /\ resp = [v \in Worker |-> resp[v]] /\ tx = [v \in Worker |-> tx[v]]
<1>1. Running(w) /\ Blockers(w) = {} /\ tx[w].todo # <<>> /\ Statement(w).op = op
  BY DEF Ready
<1>2. x.todo = tx[w].todo
  BY ProgressFacts
<1>3. OpIs(x, op) /\ Statement(w) = Head(x.todo)
  BY <1>1, <1>2 DEF OpIs, Statement
<1>4. c \in Call /\ Stage(c, x) /\ DOMAIN tx[w] = TxFields
  BY <1>1, RunningFacts
<1>5. OlderOK(w) /\ ReplayOK(w) /\ TargetOK(w) /\ EntriesOK(w)
  BY DEF TxInv, WorkerOK
<1>6. Consistent(db) /\ nextEntry \in Int /\ resp = [v \in Worker |-> resp[v]] /\ tx = [v \in Worker |-> tx[v]]
  BY DEF TxInv, TablesOK
<1> QED BY <1>1, <1>3, <1>4, <1>5, <1>6

\* What a transaction sees of a row that nobody has changed since.
LEMMA ViewFacts ==
    ASSUME NEW w \in Worker, NEW row, row \notin DOMAIN tx[w].older
    PROVE  View(w, row) = IF row \in DOMAIN tx[w].writes THEN tx[w].writes[row] ELSE db[row]
BY DEF View, Snapshot

\* Nothing is written, and the statement's rows are locked.
LEMMA WritesNothing ==
    ASSUME NEW w \in Worker,
           \A a \in AccountId : Bal(a) \in Statement(w).rows =>
                Bal(a) \in tx[w].locked \/ Bal(a) \notin DOMAIN tx[w].older,
           \A h \in HoldId : HoldKey(h) \in Statement(w).rows =>
                HoldKey(h) \in tx[w].locked \/ HoldKey(h) \notin DOMAIN tx[w].older
    PROVE  MayWrite(w, <<>>)
BY DEF MayWrite

\* A statement that draws no entry id leads from one stage to the next.
LEMMA StatementStep ==
    ASSUME TxInv, NEW w \in Worker, NEW op, Ready(w, op),
           NEW wr, NEW ev, NEW more, Proceed(w, wr, ev, more), MayWrite(w, wr),
           \A k \in IdemKey : Txn(k) \notin DOMAIN wr,
           nextEntry' = nextEntry, Statement(w).rows \cup DOMAIN wr \cup tx[w].locked # {},
           resp' = [v \in Worker |-> resp'[v]], \A v \in Worker \ {w} : resp'[v] = resp[v],
           NEW y, y = Progress(w)', Stage(call[w], y), TargetOK(w)'
    PROVE  TxInv'
<1>1. PICK x, c : x = Progress(w) /\ c = call[w]
  OBVIOUS
<1>2. /\ Running(w) /\ Blockers(w) = {} /\ tx[w].todo # <<>> /\ DOMAIN tx[w] = TxFields
      /\ ReplayOK(w) /\ EntriesOK(w) /\ nextEntry \in Int /\ tx = [v \in Worker |-> tx[v]]
  BY <1>1, ReadyFacts
<1>3. /\ tx'[w].older = tx[w].older /\ tx'[w].writes = Over(wr, tx[w].writes) /\ db' = db /\ call' = call
      /\ tx'[w].locked = tx[w].locked \cup Statement(w).rows \cup DOMAIN wr
  BY <1>2, ProceedFacts
<1>4. ReplayOK(w)'
  BY <1>2, <1>3, ReplayStays
<1>5. EntriesOK(w)'
  BY <1>2, <1>3, EntriesStay
<1>6. nextEntry' \in Int /\ nextEntry' >= nextEntry
  BY <1>2
<1> QED BY <1>2, <1>4, <1>5, <1>6, ProceedStep

LEMMA TargetFree ==
    ASSUME NEW w \in Worker, call' = call, call[w].method \notin {"PaymentFailed", "Sweep"}
    PROVE  TargetOK(w)'
BY DEF TargetOK

LEMMA ReplayInv ==
    ASSUME TxInv, NEW w \in Worker, Replay(w)
    PROVE  TxInv'
<1>1. PICK x, c : x = Progress(w) /\ c = call[w]
  OBVIOUS
<1>2. /\ Running(w) /\ Blockers(w) = {} /\ tx[w].todo # <<>> /\ OpIs(x, "replay") /\ Statement(w) = Head(x.todo)
      /\ c \in Call /\ Stage(c, x) /\ DOMAIN tx[w] = TxFields /\ OlderOK(w) /\ ReplayOK(w) /\ TargetOK(w) /\ EntriesOK(w)
      /\ nextEntry \in Int /\ resp = [v \in Worker |-> resp[v]] /\ tx = [v \in Worker |-> tx[v]]
  BY <1>1, ReadyFacts DEF Replay
<1>3. c.method \in Rpc /\ Begun(c, x)
  BY <1>2, StageOf
<1>4. /\ x.writes = tx[w].writes /\ x.locked = tx[w].locked /\ x.emitted = tx[w].emitted
      /\ x.locked = {} /\ DOMAIN x.writes = {} /\ x.emitted = {}
  BY <1>1, <1>3, ProgressFacts DEF Begun, Untouched
<1>5. Statement(w) = LookUp(c.request)
  BY <1>2, <1>3, BegunNext DEF Rpc, At
<1>6. Statement(w).rows = {} /\ Statement(w).request = c.request /\ c.request \in RequestId
  BY <1>2, <1>3, <1>5, StatementFacts, CallFacts DEF Rpc
<1>7. PICK row : row = View(w, Req(c.request))
  OBVIOUS
<1>8. row = IF Req(c.request) \in DOMAIN tx[w].older THEN tx[w].older[Req(c.request)] ELSE db[Req(c.request)]
  BY <1>4, <1>7 DEF View, Snapshot
<1>9. PICK y : y = Progress(w)'
  OBVIOUS
<1>10. CASE row = NoRow
  <2>1. PICK wr : wr = <<>>
    OBVIOUS
  <2>2. PICK rows, more : rows = {} /\ more = <<>>
    OBVIOUS
  <2>3. Proceed(w, wr, rows, more) /\ resp' = resp /\ nextEntry' = nextEntry
    BY <1>6, <1>7, <1>10, <2>1, <2>2 DEF Replay
  <2>4. Executed(x, y, rows, wr, rows, more) /\ DOMAIN wr = {}
    <3>1. rows = Statement(w).rows /\ DOMAIN wr = {}
      BY <1>6, <2>1, <2>2
    <3> QED BY <1>1, <1>2, <1>9, <2>3, <3>1, ProceedExecuted
  <2>5. Missed(c, y)
    BY <1>2, <1>3, <2>2, <2>4, MissStep
  <2>6. /\ tx'[w].older = tx[w].older /\ tx'[w].writes = Over(wr, tx[w].writes) /\ db' = db /\ call' = call
    BY <1>2, <2>3, ProceedFacts
  <2>7. ReplayOK(w)'
    <3>1. ~ Hit(c, y)
      BY <1>2, <2>5, FirstOps DEF Hit, OpIs
    <3>2. db[Req(c.request)] = NoRow \/ Req(c.request) \in DOMAIN tx[w].older
      BY <1>8, <1>10
    <3>3. c = call'[w]
      BY <1>1, <2>6
    <3> QED BY <1>1, <1>2, <1>9, <2>6, <3>1, <3>2, <3>3, CopiesStay DEF ReplayOK
  <2>8. TargetOK(w)'
    BY <1>1, <1>3, <2>6, TargetFree DEF Rpc
  <2>9. EntriesOK(w)'
    BY <1>2, <2>3, <2>4, <2>6, EntriesStay
  <2>10. MayWrite(w, wr)
    BY <1>6, <2>1, WritesNothing
  <2>11. Stage(c, y)
    BY <2>5 DEF Stage
  <2> QED BY <1>1, <1>2, <1>9, <2>3, <2>7, <2>8, <2>9, <2>10, <2>11, ProceedStep
<1>11. CASE row # NoRow
  <2>1. /\ resp' = [resp EXCEPT ![w] = Decode(row, c.method)] /\ tx' = [tx EXCEPT ![w].todo = <<>>]
        /\ UNCHANGED <<db, outbox, due, call, attempt, outcome, nextEntry>>
    BY <1>1, <1>6, <1>7, <1>11 DEF Replay, Unmarshal
  <2>2. /\ tx' = [v \in Worker |-> tx'[v]] /\ DOMAIN tx'[w] = TxFields /\ \A v \in Worker \ {w} : tx'[v] = tx[v]
        /\ tx'[w].todo = <<>> /\ tx'[w].writes = tx[w].writes /\ tx'[w].locked = tx[w].locked
        /\ tx'[w].emitted = tx[w].emitted /\ tx'[w].older = tx[w].older
    BY <1>2, <2>1 DEF TxFields
  <2>3. /\ resp' = [v \in Worker |-> resp'[v]] /\ resp'[w] = Decode(row, c.method)
        /\ \A v \in Worker \ {w} : resp'[v] = resp[v]
    BY <1>2, <2>1
  <2>4. Moves(w) /\ Running(w)'
    BY <1>2, <2>1, <2>2, <2>3 DEF Moves, Running, NoTx, TxFields
  <2>5. y.todo = <<>> /\ DOMAIN y.writes = {} /\ y.locked = {} /\ y.emitted = {}
    BY <1>4, <1>9, <2>2 DEF Progress
  <2>6. Hit(c, y)
    BY <1>3, <2>5 DEF Hit, Untouched
  <2>7. row = db[Req(c.request)]
    BY <1>2, <1>6, <1>8, <1>11 DEF OlderOK
  <2>8. ReplayOK(w)'
    <3>1. ~ Missed(c, y)
      BY <1>2, <2>5, FirstOps DEF OpIs
    <3>2. c = call'[w]
      BY <1>1, <2>1
    <3> QED BY <1>1, <1>2, <1>9, <1>11, <2>1, <2>2, <2>3, <2>7, <3>1, <3>2, CopiesStay DEF ReplayOK
  <2>9. TargetOK(w)'
    BY <1>1, <1>3, <2>1, TargetFree DEF Rpc
  <2>10. EntriesOK(w)'
    BY <1>4, <2>2 DEF EntriesOK
  <2>11. DrawnApart
    <3>1. \A v \in Worker : Running(v)' <=> Running(v)
      BY <1>2, <2>2, <2>4 DEF Running
    <3>2. Drawn' \subseteq Drawn
      BY <2>2, <3>1 DEF Drawn
    <3> QED BY <3>2 DEF DrawnApart
  <2>12. Stage(c, y)
    BY <2>6 DEF Stage
  <2> QED BY <1>1, <1>2, <1>4, <1>9, <2>2, <2>4, <2>8, <2>9, <2>10, <2>11, <2>12, MoveStep
<1> QED BY <1>10, <1>11

LEMMA LockBalanceInv ==
    ASSUME TxInv, NEW w \in Worker, LockBalanceStep(w)
    PROVE  TxInv'
<1>1. PICK x, c : x = Progress(w) /\ c = call[w]
  OBVIOUS
<1>2. PICK op : op = "lockBalance"
  OBVIOUS
<1>3. Ready(w, op)
  BY <1>2 DEF LockBalanceStep
<1>4. /\ Running(w) /\ tx[w].todo # <<>> /\ OpIs(x, op) /\ Statement(w) = Head(x.todo)
      /\ c \in Call /\ Stage(c, x) /\ DOMAIN tx[w] = TxFields /\ Consistent(db)
      /\ resp = [v \in Worker |-> resp[v]] /\ tx = [v \in Worker |-> tx[v]]
  BY <1>1, <1>3, ReadyFacts
<1>5. c.method = "HoldFunds" /\ Missed(c, x)
  BY <1>2, <1>4, StageOf
<1>6. Statement(w).rows = {Bal(c.account)} /\ c.account \in AccountId
  BY <1>4, <1>5, MissedNext, StatementFacts, CallFacts DEF At
<1>7. x.writes = tx[w].writes /\ x.locked = tx[w].locked /\ x.locked = {} /\ DOMAIN x.writes = {}
  BY <1>1, <1>5, ProgressFacts DEF Missed, Untouched
<1>8. PICK b : b = View(w, Bal(c.account))
  OBVIOUS
<1>9. /\ "NotFound" \in Result /\ "InvalidArgument" \in Result /\ "FailedPrecondition" \in Result
  BY DEF Result
<1>10. CASE b = NoRow
  BY <1>1, <1>4, <1>8, <1>9, <1>10, RollbackStep DEF LockBalanceStep
<1>11. CASE b # NoRow /\ Conflict(w)
  BY <1>1, <1>4, <1>8, <1>11, RetryStep DEF LockBalanceStep
<1>12. CASE b # NoRow /\ ~ Conflict(w) /\ AccountCurrency(c.account) # c.currency
  BY <1>1, <1>4, <1>8, <1>9, <1>12, RollbackStep DEF LockBalanceStep
<1>13. CASE b # NoRow /\ ~ Conflict(w) /\ AccountCurrency(c.account) = c.currency /\ b.available < c.amount
  BY <1>1, <1>4, <1>8, <1>9, <1>13, RollbackStep DEF LockBalanceStep
<1>14. CASE b # NoRow /\ ~ Conflict(w) /\ AccountCurrency(c.account) = c.currency /\ ~ (b.available < c.amount)
  <2>1. PICK wr, rows, ev, more :
            wr = <<>> /\ rows = {Bal(c.account)} /\ ev = {} /\ more = <<InsertHold(c.payment)>>
    OBVIOUS
  <2>2. Proceed(w, wr, ev, more) /\ UNCHANGED <<nextEntry, resp>>
    BY <1>1, <1>8, <1>14, <2>1 DEF LockBalanceStep
  <2>3. Bal(c.account) \notin DOMAIN tx[w].older
    BY <1>6, <1>7, <1>14 DEF Conflict
  <2>4. b = db[Bal(c.account)]
    BY <1>7, <1>8, <2>3, ViewFacts
  <2>5. PICK y : y = Progress(w)'
    OBVIOUS
  <2>6. rows = Statement(w).rows /\ DOMAIN wr = {}
    BY <1>6, <2>1
  <2>7. Executed(x, y, rows, wr, ev, more)
    BY <1>1, <1>4, <2>2, <2>5, <2>6, ProceedExecuted
  <2>8. db' = db /\ call' = call
    BY <1>4, <2>2, ProceedFacts
  <2>9. Affordable(c, y)
    <3>1. y.base[Bal(c.account)] = b
      <4>1. Bal(c.account) \in y.locked
        BY <2>1, <2>7 DEF Executed
      <4> QED BY <2>4, <2>5, <2>8, <4>1 DEF Progress
    <3>2. b \in BalanceRow
      BY <1>4, <1>6, <1>14, <2>4 DEF Consistent
    <3>3. b.available \in Int /\ c.amount \in Int
      BY <1>4, <1>5, <3>2, CallFacts, ConstantsAssumption DEF BalanceRow
    <3> QED BY <1>14, <3>1, <3>2, <3>3 DEF Affordable
  <2>10. HoldChecked(c, y)
    BY <1>4, <1>5, <2>1, <2>6, <2>7, <2>9, CheckStep
  <2>11. Stage(c, y)
    BY <1>5, <2>10 DEF Stage, HoldStage
  <2>12. MayWrite(w, wr)
    BY <1>6, <2>1, <2>3, KeyKinds, WritesNothing
  <2>13. TargetOK(w)'
    BY <1>1, <1>5, <2>8, TargetFree
  <2>14. Statement(w).rows \cup DOMAIN wr \cup tx[w].locked # {}
    BY <1>6
  <2>15. /\ resp' = [v \in Worker |-> resp'[v]] /\ (\A v \in Worker \ {w} : resp'[v] = resp[v])
         /\ nextEntry' = nextEntry /\ \A k \in IdemKey : Txn(k) \notin DOMAIN wr
    BY <1>4, <2>2, <2>6
  <2> QED BY <1>1, <1>3, <2>2, <2>5, <2>11, <2>12, <2>13, <2>14, <2>15, StatementStep
<1> QED BY <1>10, <1>11, <1>12, <1>13, <1>14

LEMMA InsertHoldInv ==
    ASSUME TxInv, NEW w \in Worker, InsertHoldStep(w)
    PROVE  TxInv'
<1>1. PICK x, c : x = Progress(w) /\ c = call[w]
  OBVIOUS
<1>2. PICK op : op = "insertHold"
  OBVIOUS
<1>3. Ready(w, op)
  BY <1>2 DEF InsertHoldStep
<1>4. /\ Running(w) /\ tx[w].todo # <<>> /\ OpIs(x, op) /\ Statement(w) = Head(x.todo)
      /\ c \in Call /\ Stage(c, x) /\ DOMAIN tx[w] = TxFields /\ OlderOK(w)
      /\ resp = [v \in Worker |-> resp[v]] /\ tx = [v \in Worker |-> tx[v]]
  BY <1>1, <1>3, ReadyFacts
<1>5. c.method = "HoldFunds" /\ HoldChecked(c, x)
  BY <1>2, <1>4, StageOf
<1>6. Statement(w).rows = {Pay(c.payment)} /\ c.account \in AccountId /\ c.payment \in Payment /\ c.amount \in Int
  <2>1. PICK s : s = InsertHold(c.payment)
    OBVIOUS
  <2>2. At(x, s, <<>>)
    BY <1>5, <2>1, AtOne DEF HoldChecked
  <2>3. Statement(w) = s /\ s.rows = {Pay(c.payment)}
    BY <1>4, <2>1, <2>2, StatementFacts DEF At
  <2> QED BY <1>4, <1>5, <2>3, CallFacts
<1>7. /\ x.writes = tx[w].writes /\ x.locked = tx[w].locked /\ x.locked = {Bal(c.account)} /\ DOMAIN x.writes = {}
      /\ x.base[Bal(c.account)] = db[Bal(c.account)]
  BY <1>1, <1>5, ProgressFacts DEF HoldChecked, Untouched
<1>8. CASE c.amount <= 0
  <2>1. PICK result \in Result : result = "Internal"
    BY DEF Result
  <2>2. Rollback(w, result)
    BY <1>1, <1>6, <1>8, <2>1 DEF InsertHoldStep
  <2> QED BY <1>4, <2>2, RollbackStep
<1>9. CASE c.amount > 0 /\ Duplicate(w)
  BY <1>1, <1>4, <1>6, <1>9, ViolationStep DEF InsertHoldStep
<1>10. CASE c.amount > 0 /\ ~ Duplicate(w)
  <2>1. Bal(c.account) \notin DOMAIN tx[w].older
    BY <1>4, <1>6, <1>7 DEF OlderOK
  <2>2. View(w, Bal(c.account)) = x.base[Bal(c.account)]
    BY <1>7, <2>1, ViewFacts
  <2>20. PICK h \in HoldId :
            /\ Fresh(HoldKey(h)) /\ UNCHANGED <<nextEntry, resp>>
            /\ Proceed(w,
                    Over(Put(Pay(c.payment), h),
                         Put(HoldKey(h), [account |-> c.account, payment |-> c.payment, amount |-> c.amount,
                                          currency |-> c.currency, status |-> "active"])),
                    {Funds("held", h, c.account, c.amount, "none")},
                    <<BumpBalance(c.account, -c.amount, c.amount),
                      Store(c.request, [method |-> c.method, hold |-> h,
                        availableAfter |-> View(w, Bal(c.account)).available - c.amount])>>)
    <3>1. ~ (c.amount <= 0) /\ ~ (c.amount > 0 /\ Duplicate(w))
      BY <1>6, <1>10
    <3> QED BY <1>1, <3>1, Zenon DEF InsertHoldStep
  <2>21. HoldAnswer(c, x, h) = [method |-> c.method, hold |-> h,
                        availableAfter |-> View(w, Bal(c.account)).available - c.amount]
    BY <2>2 DEF HoldAnswer
  <2>3. PICK wr, ev, more :
            /\ Proceed(w, wr, ev, more)
            /\ wr = Over(Put(Pay(c.payment), h),
                         Put(HoldKey(h), [account |-> c.account, payment |-> c.payment, amount |-> c.amount,
                                          currency |-> c.currency, status |-> "active"]))
            /\ ev = {Funds("held", h, c.account, c.amount, "none")}
            /\ more = <<BumpBalance(c.account, -c.amount, c.amount), Store(c.request, HoldAnswer(c, x, h))>>
    BY <2>20, <2>21
  <2>4. /\ DOMAIN wr = HoldRows(c, h) /\ wr[Pay(c.payment)] = h
        /\ wr[HoldKey(h)] = [account |-> c.account, payment |-> c.payment, amount |-> c.amount,
                             currency |-> c.currency, status |-> "active"]
    BY <2>3, KeyKinds DEF Over, Put, HoldRows
  <2>5. PICK y, rows : y = Progress(w)' /\ rows = Statement(w).rows
    OBVIOUS
  <2>6. Executed(x, y, rows, wr, ev, more)
    BY <1>1, <1>4, <2>3, <2>5, ProceedExecuted
  <2>7. db' = db /\ call' = call
    BY <1>4, <2>3, ProceedFacts
  <2>8. y.base[HoldKey(h)] = NoRow /\ y.base[Pay(c.payment)] = NoRow
    <3>1. HoldKey(h) \in y.locked /\ Pay(c.payment) \in y.locked
      BY <2>4, <2>6 DEF Executed, HoldRows
    <3>2. db[HoldKey(h)] = NoRow /\ db[Pay(c.payment)] = NoRow
      BY <1>6, <1>10, <2>20 DEF Fresh, Duplicate
    <3> QED BY <2>5, <2>7, <3>1, <3>2 DEF Progress
  <2>9. HoldInserted(c, y, h)
    BY <1>4, <1>5, <1>6, <1>10, <2>3, <2>4, <2>5, <2>6, <2>8, InsertStep
  <2>10. Stage(c, y)
    BY <1>5, <2>9 DEF Stage, HoldStage
  <2>11. MayWrite(w, wr)
    <3>1. NewId(HoldKey(h))
      BY <2>20 DEF NewId
    <3>2. Pay(c.payment)[1] \notin {"account_balances", "holds"}
      BY KeyKinds
    <3> QED BY <1>6, <2>4, <3>1, <3>2, KeyKinds DEF MayWrite, HoldRows
  <2>12. TargetOK(w)'
    BY <1>1, <1>5, <2>7, TargetFree
  <2>13. Statement(w).rows \cup DOMAIN wr \cup tx[w].locked # {}
    BY <1>6
  <2>14. /\ resp' = [v \in Worker |-> resp'[v]] /\ (\A v \in Worker \ {w} : resp'[v] = resp[v])
         /\ nextEntry' = nextEntry /\ \A k \in IdemKey : Txn(k) \notin DOMAIN wr
    BY <1>4, <2>20, <2>4, KeyKinds DEF HoldRows
  <2> QED BY <1>1, <1>3, <2>3, <2>5, <2>10, <2>11, <2>12, <2>13, <2>14, StatementStep
<1> QED BY <1>6, <1>8, <1>9, <1>10

\* A statement that succeeds, as its transaction sees it.
LEMMA ExecFacts ==
    ASSUME TxInv, NEW w \in Worker, NEW op, Ready(w, op), NEW wr, NEW ev, NEW more, Proceed(w, wr, ev, more),
           NEW x, NEW y, NEW rows, x = Progress(w), y = Progress(w)', rows = Statement(w).rows
    PROVE  /\ Executed(x, y, rows, wr, ev, more)
           /\ db' = db /\ call' = call /\ due' = due
           /\ y.resp = resp'[w] /\ y.todo = tx'[w].todo /\ y.locked = tx'[w].locked
           /\ \A row \in y.locked : y.base[row] = db[row]
<1>1. tx = [v \in Worker |-> tx[v]] /\ DOMAIN tx[w] = TxFields
  BY ReadyFacts
<1>2. Executed(x, y, rows, wr, ev, more) /\ db' = db /\ call' = call /\ due' = due
  BY <1>1, ProceedFacts, ProceedExecuted
<1>3. y.resp = resp'[w] /\ y.todo = tx'[w].todo /\ y.locked = tx'[w].locked
  BY DEF Progress
<1>4. \A row \in y.locked : y.base[row] = db[row]
  BY <1>2 DEF Progress
<1> QED BY <1>2, <1>3, <1>4

\* A compensation that is past its hold, and a sweep that locks no more.
LEMMA TargetStays ==
    ASSUME NEW w \in Worker, TargetOK(w), Running(w), call' = call, db' = db, due' = due,
           NEW y, y = Progress(w)',
           call[w].method = "PaymentFailed" => y.todo = <<>> \/ \E op : OpIs(y, op) /\ op # "lockHold",
           call[w].method = "PaymentFailed" => ~ FoundNone(call[w], y),
           call[w].method = "Sweep" => \A h \in HoldId : HoldKey(h) \in y.locked => HoldKey(h) \in tx[w].locked
    PROVE  TargetOK(w)'
<1>1. y.todo = tx'[w].todo /\ y.locked = tx'[w].locked
  BY DEF Progress
<1>2. ASSUME NEW h, call[w].method = "PaymentFailed" PROVE tx'[w].todo # <<LockHold(h)>>
  <2>1. PICK s : s = LockHold(h)
    OBVIOUS
  <2>2. s.op = "lockHold"
    BY <2>1, StatementFacts
  <2>3. <<s>> # <<>> /\ Head(<<s>>) = s
    OBVIOUS
  <2> QED BY <1>1, <1>2, <2>1, <2>2, <2>3 DEF OpIs
<1> QED BY <1>1, <1>2 DEF TargetOK

\* The captured variable is left alone.
LEMMA RespStays ==
    ASSUME TxInv, UNCHANGED <<nextEntry, resp>>
    PROVE  /\ resp' = [v \in Worker |-> resp'[v]] /\ \A v \in Worker : resp'[v] = resp[v]
           /\ nextEntry' = nextEntry
BY DEF TxInv

LEMMA LockHoldNext ==
    ASSUME NEW c \in Call, NEW x, Stage(c, x), OpIs(x, "lockHold")
    PROVE  \E h \in HoldId :
            /\ Head(x.todo) = LockHold(h)
            /\ \/ c.method \in {"CaptureFunds", "ReleaseFunds"} /\ Missed(c, x) /\ h = c.hold
               \/ FailedGated(c, x) /\ x.todo = <<LockHold(h)>>
               \/ /\ c.method = "Sweep" /\ HoldKey(h) \in x.locked
                  /\ \E D \in SUBSET HoldId : /\ ReleaseDone(c, x, D) /\ At(x, LockHold(h), Tail(x.todo))
                                              /\ Pending(c, x, D, 1, Tail(x.todo))
<1>1. CASE c.method \in {"CaptureFunds", "ReleaseFunds"} /\ Missed(c, x)
  BY <1>1, MissedNext, CallFacts DEF At
<1>2. CASE FailedGated(c, x) /\ \E g \in HoldId : x.todo = <<LockHold(g)>>
  <2>1. PICK g \in HoldId : x.todo = <<LockHold(g)>>
    BY <1>2
  <2>2. PICK s : s = LockHold(g)
    OBVIOUS
  <2>3. Head(x.todo) = s
    BY <2>1, <2>2, AtOne DEF At
  <2> QED BY <1>2, <2>1, <2>2, <2>3
<1>3. CASE c.method = "Sweep" /\ \E D \in SUBSET HoldId : ReleaseDone(c, x, D)
  <2>1. PICK D \in SUBSET HoldId : ReleaseDone(c, x, D)
    BY <1>3
  <2>2. x.todo # <<>>
    BY DEF OpIs
  <2>3. PICK h \in HoldId : At(x, LockHold(h), Tail(x.todo)) /\ HoldKey(h) \in x.locked /\ Pending(c, x, D, 1, Tail(x.todo))
    BY <1>3, <2>1, <2>2, DoneNext
  <2> QED BY <1>3, <2>1, <2>3 DEF At
<1>4. PICK op : op = "lockHold"
  OBVIOUS
<1> QED BY <1>1, <1>2, <1>3, <1>4, StageOf

\* The hold that is locked, as the transaction sees it.
LEMMA LockedView ==
    ASSUME TxInv, NEW w \in Worker, NEW x, x = Progress(w), NEW c, c = call[w], c \in Call, Running(w),
           OlderOK(w), Consistent(db), NEW h \in HoldId, Statement(w) = LockHold(h), ~ Conflict(w),
           NEW row, row = View(w, HoldKey(h)), row # NoRow, row.status = "active",
           \/ c.method \in {"CaptureFunds", "ReleaseFunds"} /\ Missed(c, x)
           \/ FailedGated(c, x)
           \/ c.method = "Sweep" /\ \E D \in SUBSET HoldId : ReleaseDone(c, x, D)
    PROVE  HoldKey(h) \notin DOMAIN tx[w].older /\ HoldKey(h) \notin DOMAIN x.writes
           /\ row = db[HoldKey(h)] /\ row \in HoldRow
<1>1. x.writes = tx[w].writes /\ x.locked = tx[w].locked
  BY ProgressFacts
<1>2. HoldKey(h) \notin DOMAIN tx[w].older
  <2>1. Statement(w).rows = {HoldKey(h)}
    BY StatementFacts
  <2> QED BY <2>1 DEF Conflict, OlderOK
<1>3. row = IF HoldKey(h) \in DOMAIN x.writes THEN x.writes[HoldKey(h)] ELSE db[HoldKey(h)]
  BY <1>1, <1>2, ViewFacts
<1>4. HoldKey(h) \notin DOMAIN x.writes
  <2>1. CASE Missed(c, x)
    BY <2>1 DEF Missed, Untouched
  <2>2. CASE FailedGated(c, x)
    BY <2>2, KeyKinds DEF FailedGated
  <2>3. CASE c.method = "Sweep" /\ \E D \in SUBSET HoldId : ReleaseDone(c, x, D)
    <3>1. PICK D \in SUBSET HoldId : ReleaseDone(c, x, D)
      BY <2>3
    <3>2. DOMAIN x.writes = ReleaseRows(c, x, D, D) /\ \A g \in D : Closed(x, g, StatusOf(c))
      BY <3>1 DEF ReleaseDone, Effects
    <3>3. ASSUME h \in D PROVE FALSE
      <4>1. x.writes[HoldKey(h)] = Settled(x, h, StatusOf(c)) /\ HoldKey(h) \in DOMAIN x.writes
        BY <3>2, <3>3, ReleaseRowKinds DEF Closed
      <4>2. Locked(x, h)
        BY <3>1, <3>3 DEF ReleaseDone, Targets
      <4>3. row.status = StatusOf(c)
        BY <1>3, <4>1, <4>2 DEF Settled, Locked, HoldRow
      <4>4. StatusOf(c) = "expired"
        BY <2>3 DEF StatusOf, ReasonOf
      <4> QED BY <4>3, <4>4
    <3> QED BY <3>2, <3>3, ReleaseRowKinds
  <2> QED BY <2>1, <2>2, <2>3
<1>5. row = db[HoldKey(h)]
  BY <1>3, <1>4
<1>6. row \in HoldRow
  BY <1>5 DEF Consistent
<1> QED BY <1>2, <1>4, <1>5, <1>6

LEMMA LockHoldInv ==
    ASSUME TxInv, NEW w \in Worker, LockHoldStep(w)
    PROVE  TxInv'
<1>1. PICK x, c, op : x = Progress(w) /\ c = call[w] /\ op = "lockHold"
  OBVIOUS
<1>2. Ready(w, op)
  BY <1>1 DEF LockHoldStep
<1>3. /\ Running(w) /\ OpIs(x, op) /\ Statement(w) = Head(x.todo) /\ c \in Call /\ Stage(c, x)
      /\ OlderOK(w) /\ TargetOK(w) /\ Consistent(db)
  BY <1>1, <1>2, ReadyFacts
<1>4. PICK h \in HoldId :
            /\ Head(x.todo) = LockHold(h)
            /\ \/ c.method \in {"CaptureFunds", "ReleaseFunds"} /\ Missed(c, x) /\ h = c.hold
               \/ FailedGated(c, x) /\ x.todo = <<LockHold(h)>>
               \/ /\ c.method = "Sweep" /\ HoldKey(h) \in x.locked
                  /\ \E D \in SUBSET HoldId : /\ ReleaseDone(c, x, D) /\ At(x, LockHold(h), Tail(x.todo))
                                              /\ Pending(c, x, D, 1, Tail(x.todo))
  BY <1>1, <1>3, LockHoldNext
<1>5. Statement(w).rows = {HoldKey(h)} /\ Statement(w).hold = h
  BY <1>3, <1>4, StatementFacts
<1>6. PICK row : row = View(w, HoldKey(h))
  OBVIOUS
<1>7. /\ "NotFound" \in Result /\ "InvalidArgument" \in Result /\ "FailedPrecondition" \in Result
  BY DEF Result
<1>8. CASE row = NoRow
  BY <1>1, <1>3, <1>5, <1>6, <1>7, <1>8, RollbackStep DEF LockHoldStep
<1>9. CASE row # NoRow /\ Conflict(w)
  BY <1>1, <1>3, <1>5, <1>6, <1>9, RetryStep DEF LockHoldStep
<1>10. CASE row # NoRow /\ ~ Conflict(w) /\ row.status # "active"
  BY <1>1, <1>3, <1>5, <1>6, <1>7, <1>10, RollbackStep DEF LockHoldStep
<1>11. CASE row # NoRow /\ ~ Conflict(w) /\ row.status = "active" /\ c.method = "CaptureFunds" /\ c.amount \notin 1 .. row.amount
  <2>1. PICK result \in Result : result = "InvalidArgument"
    BY <1>7
  <2>2. Rollback(w, result)
    BY <1>1, <1>5, <1>6, <1>11, <2>1 DEF LockHoldStep
  <2> QED BY <1>3, <2>2, RollbackStep
<1>12. CASE row # NoRow /\ ~ Conflict(w) /\ row.status = "active" /\ ~ (c.method = "CaptureFunds" /\ c.amount \notin 1 .. row.amount)
  <2>1. PICK wr, rows, ev, more :
            wr = <<>> /\ rows = {HoldKey(h)} /\ ev = Events(c, h, row) /\ more = AfterLockHold(c, h, row)
    OBVIOUS
  <2>2. Proceed(w, wr, ev, more) /\ UNCHANGED <<nextEntry, resp>>
    BY <1>1, <1>5, <1>6, <1>12, <2>1, Zenon DEF LockHoldStep
  <2>3. PICK y : y = Progress(w)'
    OBVIOUS
  <2>4. rows = Statement(w).rows /\ DOMAIN wr = {}
    BY <1>5, <2>1
  <2>5. /\ Executed(x, y, rows, wr, ev, more) /\ db' = db /\ call' = call /\ due' = due
        /\ y.resp = resp'[w] /\ y.todo = tx'[w].todo /\ y.locked = tx'[w].locked
        /\ \A r \in y.locked : y.base[r] = db[r]
    BY <1>1, <1>2, <2>2, <2>3, <2>4, ExecFacts
  <2>6. /\ HoldKey(h) \notin DOMAIN tx[w].older /\ HoldKey(h) \notin DOMAIN x.writes
        /\ row = db[HoldKey(h)] /\ row \in HoldRow
    <3>1. Statement(w) = LockHold(h)
      BY <1>3, <1>4
    <3> QED BY <1>1, <1>3, <1>4, <1>6, <1>12, <3>1, LockedView
  <2>7. HoldKey(h) \in y.locked
    BY <2>1, <2>5 DEF Executed
  <2>8. row = y.base[HoldKey(h)] /\ Locked(y, h)
    BY <1>12, <2>5, <2>6, <2>7 DEF Locked
  <2>9. /\ resp' = [v \in Worker |-> resp'[v]] /\ (\A v \in Worker : resp'[v] = resp[v]) /\ nextEntry' = nextEntry
    BY <2>2, RespStays
  <2>10. MayWrite(w, wr)
    <3>1. \A a \in AccountId : Bal(a) \notin Statement(w).rows
      BY <1>5, KeyKinds
    <3> QED BY <1>5, <2>1, <2>6, <3>1, WritesNothing
  <2>11. Stage(c, y) /\ (c.method = "PaymentFailed" => OpIs(y, "bump"))
    <3>1. CASE c.method = "CaptureFunds" /\ Missed(c, x) /\ h = c.hold
      <4>1. c.amount \in 1 .. row.amount
        BY <1>12, <3>1
      <4>2. CaptureLocked(c, y)
        BY <1>3, <2>1, <2>4, <2>5, <2>8, <3>1, <4>1, LockCaptureStep
      <4> QED BY <2>7, <3>1, <4>2 DEF Stage, CaptureStage
    <3>2. CASE c.method = "ReleaseFunds" /\ Missed(c, x) /\ h = c.hold
      <4>1. PICK D : D = {}
        OBVIOUS
      <4>2. ReleaseLocked(c, y, D, h)
        BY <1>3, <2>1, <2>4, <2>5, <2>8, <3>2, <4>1, LockReleaseStep
      <4> QED BY <3>2, <4>1, <4>2 DEF Stage, ReleaseStage
    <3>3. CASE FailedGated(c, x) /\ x.todo = <<LockHold(h)>>
      <4>1. PICK D \in SUBSET HoldId : D = {}
        OBVIOUS
      <4>2. c.method = "PaymentFailed" /\ x.todo = tx[w].todo
        BY <1>1, <3>3, ProgressFacts DEF FailedGated
      <4>3. row.payment = c.payment
        BY <1>1, <1>3, <2>6, <3>3, <4>2 DEF TargetOK, KnownHold
      <4>4. ReleaseLocked(c, y, D, h)
        BY <1>3, <2>1, <2>4, <2>5, <2>8, <3>3, <4>1, <4>3, LockFailedStep
      <4>5. OpIs(y, "bump")
        BY <1>3, <4>4, ReleaseOps
      <4> QED BY <4>4, <4>5 DEF Stage, ReleaseStage
    <3>4. CASE c.method = "Sweep" /\ HoldKey(h) \in x.locked
                /\ \E D \in SUBSET HoldId : /\ ReleaseDone(c, x, D) /\ At(x, LockHold(h), Tail(x.todo))
                                            /\ Pending(c, x, D, 1, Tail(x.todo))
      <4>1. PICK D \in SUBSET HoldId : ReleaseDone(c, x, D) /\ At(x, LockHold(h), Tail(x.todo))
                                            /\ Pending(c, x, D, 1, Tail(x.todo))
        BY <3>4
      <4>2. h \notin D
        <5>1. DOMAIN x.writes = ReleaseRows(c, x, D, D)
          BY <4>1 DEF ReleaseDone
        <5> QED BY <2>6, <5>1, ReleaseRowKinds
      <4>3. y.resp = x.resp
        BY <1>1, <2>5, <2>9, ProgressFacts
      <4>4. x.todo # <<>>
        BY <1>3 DEF OpIs
      <4>5. ReleaseLocked(c, y, D, h)
        BY <1>3, <2>1, <2>4, <2>5, <2>8, <3>4, <4>1, <4>2, <4>3, <4>4, LockSweptStep
      <4> QED BY <3>4, <4>5 DEF Stage, ReleaseStage
    <3> QED BY <1>4, <3>1, <3>2, <3>3, <3>4
  <2>12. TargetOK(w)'
    <3>1. call[w].method = "Sweep" => \A g \in HoldId : HoldKey(g) \in y.locked => HoldKey(g) \in tx[w].locked
      <4>1. c.method = "Sweep" => HoldKey(h) \in x.locked
        BY <1>4 DEF Missed, Rpc, FailedGated
      <4>2. x.locked = tx[w].locked
        BY <1>1, ProgressFacts
      <4> QED BY <1>1, <2>1, <2>4, <2>5, <4>1, <4>2 DEF Executed
    <3> QED BY <1>1, <1>3, <2>3, <2>5, <2>11, <3>1, TargetStays DEF FoundNone, OpIs
  <2>13. Statement(w).rows \cup DOMAIN wr \cup tx[w].locked # {}
    BY <1>5
  <2> QED BY <1>1, <1>2, <2>2, <2>3, <2>4, <2>9, <2>10, <2>11, <2>12, <2>13, StatementStep
<1> QED BY <1>8, <1>9, <1>10, <1>11, <1>12

\* The balances that are updated at each stage, and by how much.
BumpsHold(c, x, a, d, e, h) ==
    c.method = "HoldFunds" /\ HoldInserted(c, x, h) /\ a = c.account /\ d = -c.amount /\ e = c.amount
BumpsPayer(c, x, a, d, e) ==
    /\ c.method = "CaptureFunds" /\ CapturePosted(c, x) /\ a = CaptureRow(c, x).account
    /\ d = CaptureRow(c, x).amount - c.amount /\ e = -CaptureRow(c, x).amount
BumpsPayee(c, x, a, d, e) ==
    /\ c.method = "CaptureFunds" /\ CapturePaid(c, x) /\ a = Payable(CaptureRow(c, x).currency)
    /\ d = c.amount /\ e = 0
BumpsSettlement(c, x, a, d, e, u) ==
    /\ c.method = "UserRegistered" /\ RegisterPosted(c, x, u) /\ a = Settlement(DefaultCurrency)
    /\ d = c.seed /\ e = 0
BumpsNew(c, x, a, d, e) == c.method = "UserRegistered" /\ RegisterDebited(c, x, a) /\ d = c.seed /\ e = 0
BumpsFreed(c, x, a, d, e, D, h) ==
    /\ ReleaseLocked(c, x, D, h) /\ a = x.base[HoldKey(h)].account
    /\ d = x.base[HoldKey(h)].amount /\ e = -x.base[HoldKey(h)].amount

Bumps(c, x, a, d, e) ==
    \/ \E h \in HoldId : BumpsHold(c, x, a, d, e, h)
    \/ BumpsPayer(c, x, a, d, e)
    \/ BumpsPayee(c, x, a, d, e)
    \/ \E u \in UserAccount : BumpsSettlement(c, x, a, d, e, u)
    \/ a \in UserAccount /\ BumpsNew(c, x, a, d, e)
    \/ \E D \in SUBSET HoldId, h \in HoldId : BumpsFreed(c, x, a, d, e, D, h)

\* Both versions of the balance, the committed one and the transaction's.
BumpTarget(x, a, d, e) ==
    /\ a \in AccountId /\ d \in Int /\ e \in Int
    /\ Bal(a) \in DOMAIN x.writes => x.writes[Bal(a)] \in BalanceRow
    /\ Bal(a) \in DOMAIN x.writes \/ db[Bal(a)] \in BalanceRow

\* A committed hold is on an account that exists.
LEMMA HoldAccount ==
    ASSUME NEW w \in Worker, NEW x, x = Progress(w), Consistent(db), NEW h \in HoldId, HoldKey(h) \in x.locked, Locked(x, h)
    PROVE  /\ x.base[HoldKey(h)].account \in AccountId /\ x.base[HoldKey(h)].amount \in Nat \ {0}
           /\ db[Bal(x.base[HoldKey(h)].account)] \in BalanceRow
           /\ db[Bal(Payable(x.base[HoldKey(h)].currency))] \in BalanceRow
           /\ Payable(x.base[HoldKey(h)].currency) \in AccountId
<1>1. PICK row : row = x.base[HoldKey(h)]
  OBVIOUS
<1>2. row = db[HoldKey(h)] /\ row \in HoldRow
  BY <1>1, ProgressFacts DEF Locked
<1>3. row.account \in AccountId /\ row.amount \in Nat \ {0} /\ row.currency \in Currency /\ Payable(row.currency) \in AccountId
  BY <1>2, HoldRowFacts
<1>4. row # NoRow
  BY <1>2, NoRowFacts
<1>5. db[Bal(row.account)] # NoRow
  BY <1>2, <1>4 DEF Consistent
<1>6. Payable(row.currency) \in SystemAccount
  BY <1>3 DEF SystemAccount
<1> QED BY <1>1, <1>3, <1>5, <1>6 DEF Consistent

LEMMA BumpNext ==
    ASSUME TxInv, NEW w \in Worker, NEW op, op = "bump", Ready(w, op), NEW x, x = Progress(w), NEW c, c = call[w]
    PROVE  \E a, d, e : /\ Head(x.todo) = BumpBalance(a, d, e) /\ Bumps(c, x, a, d, e)
                        /\ BumpTarget(x, a, d, e)
<1>1. OpIs(x, op) /\ c \in Call /\ Stage(c, x) /\ Consistent(db)
  BY ReadyFacts
<1>2. x.writes = tx[w].writes /\ x.locked = tx[w].locked /\ \A row \in x.locked : x.base[row] = db[row]
  BY ProgressFacts
<1>3. CASE c.method = "HoldFunds" /\ \E h \in HoldId : HoldInserted(c, x, h)
  <2>1. PICK h \in HoldId : HoldInserted(c, x, h)
    BY <1>3
  <2>2. PICK a, d, e : a = c.account /\ d = -c.amount /\ e = c.amount
    OBVIOUS
  <2>3. Head(x.todo) = BumpBalance(a, d, e)
    BY <1>1, <2>1, <2>2, HoldNext DEF At
  <2>4. a \in AccountId /\ d \in Int /\ e \in Int
    BY <1>1, <1>3, <2>2, CallFacts
  <2>5. x.base[Bal(a)] \in BalanceRow /\ Bal(a) \in x.locked /\ Bal(a) \notin DOMAIN x.writes
    BY <2>1, <2>2, KeyKinds DEF HoldInserted, Inserted, Affordable, HoldRows
  <2> QED BY <1>2, <1>3, <2>1, <2>2, <2>3, <2>4, <2>5 DEF Bumps, BumpsHold, BumpTarget
<1>4. CASE c.method = "CaptureFunds" /\ CapturePosted(c, x)
  <2>1. PICK a, d, e : a = CaptureRow(c, x).account /\ d = CaptureRow(c, x).amount - c.amount /\ e = -CaptureRow(c, x).amount
    OBVIOUS
  <2>2. Head(x.todo) = BumpBalance(a, d, e)
    BY <1>1, <1>4, <2>1, CaptureNext DEF At, BumpPayer
  <2>3. Locked(x, c.hold) /\ HoldKey(c.hold) \in x.locked /\ c.hold \in HoldId /\ c.amount \in Int
    BY <1>1, <1>4, CallFacts DEF CapturePosted, Capturing
  <2>4. a \in AccountId /\ d \in Int /\ e \in Int /\ db[Bal(a)] \in BalanceRow
    BY <1>1, <2>1, <2>3, HoldAccount DEF CaptureRow
  <2>5. Bal(a) \notin DOMAIN x.writes
    BY <1>4, KeyKinds DEF CapturePosted
  <2> QED BY <1>2, <1>4, <2>1, <2>2, <2>4, <2>5 DEF Bumps, BumpsPayer, BumpTarget
<1>5. CASE c.method = "CaptureFunds" /\ CapturePaid(c, x)
  <2>1. PICK a, d, e : a = Payable(CaptureRow(c, x).currency) /\ d = c.amount /\ e = 0
    OBVIOUS
  <2>2. Head(x.todo) = BumpBalance(a, d, e)
    BY <1>1, <1>5, <2>1, CaptureNext DEF At, BumpPayee
  <2>3. Locked(x, c.hold) /\ HoldKey(c.hold) \in x.locked /\ c.hold \in HoldId /\ c.amount \in Int
    BY <1>1, <1>5, CallFacts DEF CapturePaid, Capturing
  <2>4. a \in AccountId /\ d \in Int /\ e \in Int /\ db[Bal(a)] \in BalanceRow
    BY <1>1, <2>1, <2>3, HoldAccount DEF CaptureRow
  <2>5. Bal(a) \in DOMAIN x.writes => x.writes[Bal(a)] \in BalanceRow
    BY <1>5, KeyKinds DEF CapturePaid
  <2> QED BY <1>2, <1>5, <2>1, <2>2, <2>4, <2>5 DEF Bumps, BumpsPayee, BumpTarget
<1>6. ASSUME c.method = "UserRegistered", NEW u \in UserAccount, RegisterPosted(c, x, u)
      PROVE  \E a, d, e : Head(x.todo) = BumpBalance(a, d, e) /\ Bumps(c, x, a, d, e) /\ BumpTarget(x, a, d, e)
  <2>1. PICK a, d, e : a = Settlement(DefaultCurrency) /\ d = c.seed /\ e = 0
    OBVIOUS
  <2>2. Head(x.todo) = BumpBalance(a, d, e)
    BY <1>1, <1>6, <2>1, RegisterNext DEF At
  <2>3. a \in AccountId /\ d \in Int /\ e \in Int /\ a # u /\ a \in SystemAccount
    <3>1. a \in SystemAccount
      BY <2>1, ConstantsAssumption DEF SystemAccount
    <3> QED BY <1>1, <1>6, <2>1, <3>1, CallFacts, AccountFacts
  <2>4. db[Bal(a)] \in BalanceRow
    BY <1>1, <2>3 DEF Consistent
  <2>5. Bal(a) \notin DOMAIN x.writes
    BY <1>6, <2>3, KeyKinds DEF RegisterPosted
  <2> QED BY <1>2, <1>6, <2>1, <2>2, <2>3, <2>4, <2>5 DEF Bumps, BumpsSettlement, BumpTarget
<1>7. ASSUME c.method = "UserRegistered", NEW u \in UserAccount, RegisterDebited(c, x, u)
      PROVE  \E a, d, e : Head(x.todo) = BumpBalance(a, d, e) /\ Bumps(c, x, a, d, e) /\ BumpTarget(x, a, d, e)
  <2>1. PICK d, e : d = c.seed /\ e = 0
    OBVIOUS
  <2>2. Head(x.todo) = BumpBalance(u, d, e)
    BY <1>1, <1>7, <2>1, RegisterNext DEF At
  <2>3. u \in AccountId /\ d \in Int /\ e \in Int
    BY <1>1, <1>7, <2>1, CallFacts, AccountFacts
  <2>4. Bal(u) \in DOMAIN x.writes /\ x.writes[Bal(u)] = NewBalance
    BY <1>7 DEF RegisterDebited, DepositRows
  <2>5. NewBalance \in BalanceRow
    BY ConstantsAssumption DEF NewBalance, BalanceRow
  <2> QED BY <1>2, <1>7, <2>1, <2>2, <2>3, <2>4, <2>5 DEF Bumps, BumpsNew, BumpTarget
<1>8. CASE \E D \in SUBSET HoldId, h \in HoldId : ReleaseLocked(c, x, D, h)
  <2>1. PICK D \in SUBSET HoldId, h \in HoldId : ReleaseLocked(c, x, D, h)
    BY <1>8
  <2>2. PICK a, d, e : a = x.base[HoldKey(h)].account /\ d = x.base[HoldKey(h)].amount /\ e = -x.base[HoldKey(h)].amount
    OBVIOUS
  <2>3. Head(x.todo) = BumpBalance(a, d, e)
    BY <1>1, <2>1, <2>2, ReleaseNext DEF At, BumpReleased
  <2>4. HoldKey(h) \in x.locked /\ Locked(x, h)
    BY <2>1 DEF ReleaseLocked, Targets
  <2>5. a \in AccountId /\ d \in Int /\ e \in Int /\ db[Bal(a)] \in BalanceRow
    BY <1>1, <2>2, <2>4, HoldAccount
  <2>6. Bal(a) \in DOMAIN x.writes => x.writes[Bal(a)] \in BalanceRow
    <3>1. DOMAIN x.writes = ReleaseRows(c, x, D, D) /\ BalancesFreed(x, D)
      BY <2>1 DEF ReleaseLocked, Effects
    <3> QED BY <2>5, <3>1, ReleaseRowKinds DEF BalancesFreed
  <2>7. BumpsFreed(c, x, a, d, e, D, h)
    BY <2>1, <2>2 DEF BumpsFreed
  <2> QED BY <2>3, <2>5, <2>6, <2>7 DEF Bumps, BumpTarget
<1> QED BY <1>1, <1>3, <1>4, <1>5, <1>6, <1>7, <1>8, StageOf

\* The updated balance, written over the version the transaction sees.
BumpWrites(w, x, a, d, e, wr) ==
    /\ DOMAIN wr = {Bal(a)} /\ wr[Bal(a)] \in BalanceRow
    /\ wr[Bal(a)] = Bumped(IF Bal(a) \in DOMAIN x.writes THEN x.writes[Bal(a)] ELSE db[Bal(a)], d, e)
    /\ MayWrite(w, wr)

LEMMA BumpOutcome ==
    ASSUME TxInv, NEW w \in Worker, NEW op, op = "bump", Ready(w, op), BumpStep(w), NEW x, x = Progress(w),
           NEW a, NEW d, NEW e, Statement(w) = BumpBalance(a, d, e), BumpTarget(x, a, d, e)
    PROVE  \/ TxInv'
           \/ \E wr, ev, more : /\ Proceed(w, wr, ev, more) /\ UNCHANGED <<nextEntry, resp>>
                                /\ ev = {} /\ more = <<>> /\ BumpWrites(w, x, a, d, e, wr)
<1>1. Running(w) /\ OlderOK(w)
  BY ReadyFacts
<1>2. /\ Statement(w).rows = {Bal(a)} /\ Statement(w).account = a
      /\ Statement(w).dAvailable = d /\ Statement(w).dHeld = e
  BY StatementFacts
<1>3. PICK b : b = View(w, Bal(a))
  OBVIOUS
<1>4. PICK new : new = [available |-> b.available + d, held |-> b.held + e, version |-> b.version + 1]
  OBVIOUS
<1>5. CASE Conflict(w)
  BY <1>1, <1>5, RetryStep DEF BumpStep
<1>6. CASE ~ Conflict(w) /\ ~ ({new.available, new.held} \subseteq 0 .. MaxBigint)
  <2>1. PICK result \in Result : result = "Internal"
    BY DEF Result
  <2>2. Rollback(w, result)
    BY <1>2, <1>3, <1>4, <1>6, <2>1 DEF BumpStep
  <2> QED BY <1>1, <2>2, RollbackStep
<1>7. CASE ~ Conflict(w) /\ {new.available, new.held} \subseteq 0 .. MaxBigint
  <2>1. PICK wr, ev, more : wr = Put(Bal(a), new) /\ ev = {} /\ more = <<>>
    OBVIOUS
  <2>2. Proceed(w, wr, ev, more) /\ UNCHANGED <<nextEntry, resp>>
    BY <1>2, <1>3, <1>4, <1>7, <2>1 DEF BumpStep
  <2>3. Bal(a) \notin DOMAIN tx[w].older
    BY <1>1, <1>2, <1>7 DEF Conflict, OlderOK, BumpTarget
  <2>4. x.writes = tx[w].writes
    BY ProgressFacts
  <2>5. b = IF Bal(a) \in DOMAIN x.writes THEN x.writes[Bal(a)] ELSE db[Bal(a)]
    BY <1>3, <2>3, <2>4, ViewFacts
  <2>6. b \in BalanceRow
    BY <2>5 DEF BumpTarget
  <2>7. new = Bumped(b, d, e)
    BY <1>4 DEF Bumped
  <2>8. new \in BalanceRow
    BY <1>4, <1>7, <2>6 DEF BalanceRow
  <2>9. DOMAIN wr = {Bal(a)} /\ wr[Bal(a)] = new
    BY <2>1, PutFacts
  <2>10. MayWrite(w, wr)
    <3>1. Bal(a) \in DOMAIN tx[w].writes \/ db[Bal(a)] # NoRow
      BY <2>4, NoRowFacts DEF BumpTarget
    <3>2. \A r \in AccountId : Bal(r) = Bal(a) => r = a
      BY KeyKinds
    <3>3. \A h : HoldKey(h) # Bal(a)
      BY KeyKinds
    <3> QED BY <1>2, <2>3, <2>9, <3>1, <3>2, <3>3 DEF MayWrite
  <2> QED BY <2>1, <2>2, <2>5, <2>7, <2>8, <2>9, <2>10 DEF BumpWrites
<1> QED BY <1>5, <1>6, <1>7

LEMMA BumpStage ==
    ASSUME NEW w \in Worker, NEW c \in Call, NEW x, NEW y, NEW a, NEW d, NEW e, NEW wr, NEW rows, NEW ev, NEW more,
           Bumps(c, x, a, d, e), BumpTarget(x, a, d, e), BumpWrites(w, x, a, d, e, wr),
           rows = {Bal(a)}, ev = {}, more = <<>>, Executed(x, y, rows, wr, ev, more),
           y.base[Bal(a)] = db[Bal(a)], y.resp = x.resp, Consistent(db), x = Progress(w)
    PROVE  Stage(c, y) /\ (c.method = "PaymentFailed" => OpIs(y, "close"))
<1>1. /\ DOMAIN wr = {Bal(a)} /\ wr[Bal(a)] \in BalanceRow
      /\ wr[Bal(a)] = Bumped(IF Bal(a) \in DOMAIN x.writes THEN x.writes[Bal(a)] ELSE db[Bal(a)], d, e)
  BY DEF BumpWrites
<1>2. Bal(a) \in DOMAIN x.writes \/ y.base[Bal(a)] \in BalanceRow
  BY DEF BumpTarget
<1>3. \A row \in x.locked : x.base[row] = db[row]
  BY ProgressFacts
<1>4. ASSUME NEW h \in HoldId, BumpsHold(c, x, a, d, e, h) PROVE Stage(c, y) /\ c.method # "PaymentFailed"
  <2>1. c.method = "HoldFunds" /\ HoldInserted(c, x, h) /\ a = c.account /\ d = -c.amount /\ e = c.amount
    BY <1>4 DEF BumpsHold
  <2>2. Bal(a) \in x.locked /\ Bal(a) \notin DOMAIN x.writes
    BY <2>1, KeyKinds DEF HoldInserted, HoldRows
  <2>3. wr[Bal(c.account)] = Bumped(x.base[Bal(c.account)], -c.amount, c.amount)
    BY <1>1, <1>3, <2>1, <2>2
  <2>4. HoldBumped(c, y, h)
    BY <1>1, <2>1, <2>3, ReserveStep
  <2> QED BY <2>1, <2>4 DEF Stage, HoldStage
<1>5. ASSUME BumpsPayer(c, x, a, d, e) PROVE Stage(c, y) /\ c.method # "PaymentFailed"
  <2>1. /\ c.method = "CaptureFunds" /\ CapturePosted(c, x) /\ Bal(a) = Payer(c, x)
        /\ d = CaptureRow(c, x).amount - c.amount /\ e = -CaptureRow(c, x).amount
    BY <1>5 DEF BumpsPayer, Payer
  <2>2. Bal(a) \notin DOMAIN x.writes
    BY <2>1, KeyKinds DEF CapturePosted
  <2>3. CapturePaid(c, y)
    BY <1>1, <1>2, <2>1, <2>2, PayStep
  <2>4. HoldKey(c.hold) \in y.locked
    BY <2>1 DEF CapturePosted, Executed
  <2> QED BY <2>1, <2>3, <2>4 DEF Stage, CaptureStage
<1>6. ASSUME BumpsPayee(c, x, a, d, e) PROVE Stage(c, y) /\ c.method # "PaymentFailed"
  <2>1. c.method = "CaptureFunds" /\ CapturePaid(c, x) /\ Bal(a) = Payee(c, x) /\ d = c.amount /\ e = 0
    BY <1>6 DEF BumpsPayee, Payee
  <2>2. /\ Bal(a) \in DOMAIN x.writes <=> Payee(c, x) = Payer(c, x)
        /\ Locked(x, c.hold) /\ HoldKey(c.hold) \in x.locked /\ c.hold \in HoldId
    BY <2>1, KeyKinds, CallFacts DEF CapturePaid, Capturing, Payee
  <2>3. y.base[Payee(c, x)] \in BalanceRow
    <3>1. a = Payable(CaptureRow(c, x).currency)
      BY <1>6 DEF BumpsPayee
    <3> QED BY <2>1, <2>2, <3>1, HoldAccount DEF CaptureRow
  <2>4. PICK before : before = IF Payee(c, x) = Payer(c, x) THEN x.writes[Payee(c, x)] ELSE y.base[Payee(c, x)]
    OBVIOUS
  <2>5. wr[Payee(c, x)] = Bumped(before, c.amount, 0)
    BY <1>1, <2>1, <2>2, <2>4
  <2>6. CaptureTransferred(c, y)
    BY <1>1, <2>1, <2>3, <2>4, <2>5, TransferStep
  <2>7. HoldKey(c.hold) \in y.locked
    BY <2>2 DEF Executed
  <2> QED BY <2>1, <2>6, <2>7 DEF Stage, CaptureStage
<1>7. ASSUME NEW u \in UserAccount, BumpsSettlement(c, x, a, d, e, u) PROVE Stage(c, y) /\ c.method # "PaymentFailed"
  <2>1. c.method = "UserRegistered" /\ RegisterPosted(c, x, u) /\ a = Settlement(DefaultCurrency) /\ d = c.seed /\ e = 0
    BY <1>7 DEF BumpsSettlement
  <2>2. Bal(a) = SettlementRow /\ a # u
    <3>1. a \in SystemAccount
      BY <2>1, ConstantsAssumption DEF SystemAccount
    <3> QED BY <2>1, <3>1, AccountFacts DEF SettlementRow
  <2>3. Bal(a) \notin DOMAIN x.writes
    BY <2>1, <2>2, KeyKinds DEF RegisterPosted
  <2>4. RegisterDebited(c, y, u)
    BY <1>1, <1>2, <2>1, <2>2, <2>3, DebitStep
  <2> QED BY <2>1, <2>4 DEF Stage, RegisterStage
<1>8. ASSUME a \in UserAccount, BumpsNew(c, x, a, d, e) PROVE Stage(c, y) /\ c.method # "PaymentFailed"
  <2>1. c.method = "UserRegistered" /\ RegisterDebited(c, x, a) /\ d = c.seed /\ e = 0
    BY <1>8 DEF BumpsNew
  <2>2. Bal(a) \in DOMAIN x.writes /\ x.writes[Bal(a)] = NewBalance
    BY <2>1 DEF RegisterDebited, DepositRows
  <2>3. RegisterCredited(c, y, a)
    BY <1>1, <1>8, <2>1, <2>2, CreditStep
  <2> QED BY <1>8, <2>1, <2>3 DEF Stage, RegisterStage
<1>9. ASSUME NEW D \in SUBSET HoldId, NEW h \in HoldId, BumpsFreed(c, x, a, d, e, D, h)
      PROVE  Stage(c, y) /\ (c.method = "PaymentFailed" => OpIs(y, "close"))
  <2>1. PICK row : row = x.base[HoldKey(h)]
    OBVIOUS
  <2>2. ReleaseLocked(c, x, D, h) /\ a = row.account /\ d = row.amount /\ e = -row.amount
    BY <1>9, <2>1 DEF BumpsFreed
  <2>3. HoldKey(h) \in x.locked /\ Locked(x, h)
    BY <2>2 DEF ReleaseLocked, Targets
  <2>4. y.base[Bal(row.account)] \in BalanceRow
    BY <2>1, <2>2, <2>3, HoldAccount
  <2>5. PICK before : before = IF Bal(row.account) \in DOMAIN x.writes THEN x.writes[Bal(row.account)] ELSE y.base[Bal(row.account)]
    OBVIOUS
  <2>6. ReleaseBumped(c, y, D, h)
    BY <1>1, <2>1, <2>2, <2>4, <2>5, FreeStep
  <2>7. OpIs(y, "close")
    BY <2>6, ReleaseOps
  <2> QED BY <2>6, <2>7 DEF Stage, ReleaseStage
<1> QED BY <1>4, <1>5, <1>6, <1>7, <1>8, <1>9 DEF Bumps

LEMMA BumpInv ==
    ASSUME TxInv, NEW w \in Worker, BumpStep(w)
    PROVE  TxInv'
<1>1. PICK x, c, op : x = Progress(w) /\ c = call[w] /\ op = "bump"
  OBVIOUS
<1>2. Ready(w, op)
  BY <1>1 DEF BumpStep
<1>3. /\ Running(w) /\ Statement(w) = Head(x.todo) /\ c \in Call /\ TargetOK(w) /\ Consistent(db)
  BY <1>1, <1>2, ReadyFacts
<1>4. PICK a, d, e : Head(x.todo) = BumpBalance(a, d, e) /\ Bumps(c, x, a, d, e) /\ BumpTarget(x, a, d, e)
  BY <1>1, <1>2, BumpNext
<1>5. SUFFICES ASSUME NEW wr, NEW ev, NEW more, Proceed(w, wr, ev, more), UNCHANGED <<nextEntry, resp>>,
                      ev = {}, more = <<>>, BumpWrites(w, x, a, d, e, wr)
               PROVE  TxInv'
  BY <1>1, <1>2, <1>3, <1>4, BumpOutcome
<1>6. PICK y, rows : y = Progress(w)' /\ rows = {Bal(a)}
  OBVIOUS
<1>7. rows = Statement(w).rows /\ DOMAIN wr = {Bal(a)} /\ MayWrite(w, wr) /\ Proceed(w, wr, ev, more)
  BY <1>3, <1>4, <1>5, <1>6, StatementFacts DEF BumpWrites
<1>8. /\ Executed(x, y, rows, wr, ev, more) /\ db' = db /\ call' = call /\ due' = due
      /\ y.resp = resp'[w] /\ \A r \in y.locked : y.base[r] = db[r]
  BY <1>1, <1>2, <1>6, <1>7, ExecFacts
<1>9. /\ resp' = [v \in Worker |-> resp'[v]] /\ (\A v \in Worker : resp'[v] = resp[v]) /\ nextEntry' = nextEntry
  BY <1>5, RespStays
<1>10. y.locked = x.locked \cup {Bal(a)} /\ x.locked = tx[w].locked /\ x.resp = resp[w]
  BY <1>1, <1>6, <1>7, <1>8, ProgressFacts DEF Executed
<1>11. y.base[Bal(a)] = db[Bal(a)] /\ y.resp = x.resp
  BY <1>8, <1>9, <1>10
<1>12. Stage(c, y) /\ (c.method = "PaymentFailed" => OpIs(y, "close"))
  BY <1>1, <1>3, <1>4, <1>5, <1>6, <1>8, <1>11, BumpStage
<1>13. TargetOK(w)'
  <2>1. \A h \in HoldId : HoldKey(h) \in y.locked => HoldKey(h) \in tx[w].locked
    BY <1>10, KeyKinds
  <2> QED BY <1>1, <1>3, <1>6, <1>8, <1>12, <2>1, TargetStays DEF FoundNone, OpIs
<1>14. Statement(w).rows \cup DOMAIN wr \cup tx[w].locked # {} /\ \A k \in IdemKey : Txn(k) \notin DOMAIN wr
  BY <1>6, <1>7, KeyKinds
<1> QED BY <1>1, <1>2, <1>6, <1>7, <1>9, <1>12, <1>13, <1>14, StatementStep

\* The entries that are posted at each stage.
PostsCapture(c, x, key, posting) ==
    c.method = "CaptureFunds" /\ CaptureLocked(c, x) /\ key = CaptureKey(c.hold) /\ posting = CapturePosting(c, x)
PostsWelcome(c, x, key, posting, u) ==
    /\ c.method = "UserRegistered" /\ c.seed > 0 /\ RegisterOpened(c, x, u)
    /\ key = WelcomeKey(c.user) /\ posting = WelcomePosting(c, u)

Posts(c, x, key, posting) ==
    \/ PostsCapture(c, x, key, posting)
    \/ \E u \in UserAccount : PostsWelcome(c, x, key, posting, u)

LEMMA PostNext ==
    ASSUME TxInv, NEW w \in Worker, NEW op, op = "post", Ready(w, op), NEW x, x = Progress(w), NEW c, c = call[w]
    PROVE  \E key \in IdemKey, posting \in Posting :
                /\ Head(x.todo) = Post(key, posting) /\ Posts(c, x, key, posting)
                /\ \A k : Txn(k) \notin DOMAIN x.writes
<1>1. OpIs(x, op) /\ c \in Call /\ Stage(c, x)
  BY ReadyFacts
<1>2. CASE c.method = "CaptureFunds" /\ CaptureLocked(c, x)
  <2>1. PICK key, posting : key = CaptureKey(c.hold) /\ posting = CapturePosting(c, x)
    OBVIOUS
  <2>2. Head(x.todo) = Post(key, posting)
    BY <1>1, <1>2, <2>1, CaptureNext DEF At
  <2>3. key \in IdemKey
    BY <1>1, <1>2, <2>1, CallFacts, AccountFacts
  <2>4. PICK row : row = CaptureRow(c, x)
    OBVIOUS
  <2>5. row \in HoldRow /\ c.amount \in 1 .. row.amount /\ DOMAIN x.writes = {}
    BY <1>2, <2>4 DEF CaptureLocked, Capturing, Locked, CaptureRow
  <2>6. posting \in Posting
    BY <2>1, <2>4, <2>5, HoldRowFacts DEF CapturePosting, Posting
  <2> QED BY <1>2, <2>1, <2>2, <2>3, <2>5, <2>6 DEF Posts, PostsCapture
<1>3. CASE c.method = "UserRegistered" /\ c.seed > 0 /\ \E a \in UserAccount : RegisterOpened(c, x, a)
  <2>1. PICK u \in UserAccount : RegisterOpened(c, x, u)
    BY <1>3
  <2>2. PICK key, posting : key = WelcomeKey(c.user) /\ posting = WelcomePosting(c, u)
    OBVIOUS
  <2>3. Head(x.todo) = Post(key, posting)
    BY <1>1, <1>3, <2>1, <2>2, RegisterNext DEF At
  <2>4. key \in IdemKey /\ c.seed \in Int
    BY <1>1, <1>3, <2>2, CallFacts, AccountFacts
  <2>5. posting \in Posting
    BY <1>3, <2>2, <2>4, AccountFacts, ConstantsAssumption DEF WelcomePosting, Posting
  <2>6. \A k : Txn(k) \notin DOMAIN x.writes
    BY <2>1, KeyKinds DEF RegisterOpened
  <2>7. PostsWelcome(c, x, key, posting, u)
    BY <1>3, <2>1, <2>2 DEF PostsWelcome
  <2> QED BY <2>3, <2>4, <2>5, <2>6, <2>7 DEF Posts
<1> QED BY <1>1, <1>2, <1>3, StageOf

LEMMA PostStage ==
    ASSUME NEW c \in Call, NEW x, NEW y, NEW key, NEW posting, NEW wr, NEW rows, NEW ev, NEW more,
           Posts(c, x, key, posting), DOMAIN wr = {Txn(key)}, wr[Txn(key)] \in TxnRow, wr[Txn(key)].posting = posting,
           rows = {Txn(key)}, ev = {}, more = <<>>, Executed(x, y, rows, wr, ev, more), y.base[Txn(key)] = NoRow
    PROVE  Stage(c, y) /\ c.method \notin {"PaymentFailed", "Sweep"}
<1>1. ASSUME PostsCapture(c, x, key, posting) PROVE Stage(c, y) /\ c.method = "CaptureFunds"
  <2>1. /\ c.method = "CaptureFunds" /\ CaptureLocked(c, x)
        /\ key = CaptureKey(c.hold) /\ posting = CapturePosting(c, x)
    BY <1>1 DEF PostsCapture
  <2>2. CapturePosted(c, y)
    BY <2>1, PostCaptureStep
  <2>3. HoldKey(c.hold) \in y.locked
    BY <2>1 DEF CaptureLocked, Executed
  <2> QED BY <2>1, <2>2, <2>3 DEF Stage, CaptureStage
<1>2. ASSUME NEW u \in UserAccount, PostsWelcome(c, x, key, posting, u)
      PROVE  Stage(c, y) /\ c.method = "UserRegistered"
  <2>1. /\ c.method = "UserRegistered" /\ c.seed > 0 /\ RegisterOpened(c, x, u)
        /\ key = WelcomeKey(c.user) /\ posting = WelcomePosting(c, u)
    BY <1>2 DEF PostsWelcome
  <2>2. RegisterPosted(c, y, u)
    BY <2>1, PostWelcomeStep
  <2> QED BY <2>1, <2>2 DEF Stage, RegisterStage
<1> QED BY <1>1, <1>2 DEF Posts

LEMMA PostInv ==
    ASSUME TxInv, NEW w \in Worker, PostStep(w)
    PROVE  TxInv'
<1>1. PICK x, c, op : x = Progress(w) /\ c = call[w] /\ op = "post"
  OBVIOUS
<1>2. Ready(w, op)
  BY <1>1 DEF PostStep
<1>3. /\ Running(w) /\ Blockers(w) = {} /\ tx[w].todo # <<>> /\ Statement(w) = Head(x.todo) /\ c \in Call
      /\ ReplayOK(w) /\ Consistent(db) /\ nextEntry \in Int /\ tx = [v \in Worker |-> tx[v]] /\ DOMAIN tx[w] = TxFields
  BY <1>1, <1>2, ReadyFacts
<1>4. PICK key \in IdemKey, posting \in Posting :
            /\ Head(x.todo) = Post(key, posting) /\ Posts(c, x, key, posting)
            /\ \A k : Txn(k) \notin DOMAIN x.writes
  BY <1>1, <1>2, PostNext
<1>5. Statement(w).rows = {Txn(key)} /\ Statement(w).key = key /\ Statement(w).posting = posting
  BY <1>3, <1>4, StatementFacts
<1>6. CASE Duplicate(w)
  BY <1>3, <1>6, ViolationStep DEF PostStep
<1>7. CASE ~ Duplicate(w)
  <2>1. PICK wr, rows, ev, more, entry :
            /\ entry = [posting |-> posting, id |-> nextEntry]
            /\ wr = Put(Txn(key), entry) /\ rows = {Txn(key)} /\ ev = {} /\ more = <<>>
    OBVIOUS
  <2>2. Proceed(w, wr, ev, more) /\ nextEntry' = nextEntry + 1 /\ resp' = resp
    BY <1>5, <1>7, <2>1 DEF PostStep
  <2>3. DOMAIN wr = {Txn(key)} /\ wr[Txn(key)] = entry
    BY <2>1, PutFacts
  <2>4. entry \in TxnRow /\ entry.posting = posting /\ entry.id = nextEntry
    BY <1>3, <1>4, <2>1 DEF TxnRow
  <2>5. PICK y : y = Progress(w)'
    OBVIOUS
  <2>6. rows = Statement(w).rows
    BY <1>5, <2>1
  <2>7. /\ Executed(x, y, rows, wr, ev, more) /\ db' = db /\ call' = call
        /\ y.locked = tx'[w].locked /\ \A r \in y.locked : y.base[r] = db[r]
    BY <1>1, <1>2, <2>2, <2>5, <2>6, ExecFacts
  <2>8. Txn(key) \in y.locked /\ db[Txn(key)] = NoRow
    BY <1>5, <1>7, <2>1, <2>7 DEF Executed, Duplicate
  <2>9. Stage(c, y) /\ c.method \notin {"PaymentFailed", "Sweep"}
    BY <1>3, <1>4, <2>1, <2>3, <2>4, <2>7, <2>8, PostStage
  <2>10. tx'[w].older = tx[w].older /\ tx'[w].writes = Over(wr, tx[w].writes)
    BY <1>3, <2>2, ProceedFacts
  <2>11. ReplayOK(w)'
    BY <1>3, <2>7, <2>8, <2>10, ReplayStays
  <2>12. TargetOK(w)'
    BY <1>1, <2>7, <2>9, TargetFree
  <2>13. EntriesOK(w)'
    <3>1. x.writes = tx[w].writes
      BY <1>1, ProgressFacts
    <3>2. ASSUME NEW k \in IdemKey, Txn(k) \in DOMAIN tx'[w].writes
          PROVE  k = key /\ tx'[w].writes[Txn(k)] = entry
      <4>1. PICK f : f = tx[w].writes
        OBVIOUS
      <4>2. Txn(k) \in DOMAIN wr \cup DOMAIN f /\ Txn(k) \notin DOMAIN f
        BY <1>4, <2>10, <3>1, <3>2, <4>1 DEF Over
      <4>3. k = key
        BY <2>3, <4>2, KeyKinds
      <4> QED BY <2>3, <2>10, <4>1, <4>3 DEF Over
    <3>3. \A j \in IdemKey : db'[Txn(j)] # NoRow => db'[Txn(j)].id < nextEntry
      BY <2>7 DEF TxInv, TablesOK
    <3>4. nextEntry < nextEntry'
      BY <1>3, <2>2
    <3> QED BY <2>4, <3>2, <3>3, <3>4 DEF EntriesOK
  <2>14. MayWrite(w, wr)
    <3>1. Txn(key)[1] \notin {"account_balances", "holds"}
      BY KeyKinds
    <3>2. (\A a : Bal(a) # Txn(key)) /\ (\A h : HoldKey(h) # Txn(key))
      BY KeyKinds
    <3> QED BY <1>5, <2>3, <3>1, <3>2 DEF MayWrite
  <2>15. nextEntry' \in Int /\ nextEntry' >= nextEntry
    BY <1>3, <2>2
  <2>16. resp' = [v \in Worker |-> resp'[v]] /\ \A v \in Worker \ {w} : resp'[v] = resp[v]
    BY <2>2 DEF TxInv
  <2> QED BY <1>1, <1>3, <2>2, <2>5, <2>9, <2>11, <2>12, <2>13, <2>14, <2>15, <2>16, ProceedStep
<1> QED BY <1>6, <1>7

\* The holds that are closed at each stage.
ClosesCaptured(c, x, h, status) ==
    c.method = "CaptureFunds" /\ CaptureTransferred(c, x) /\ h = c.hold /\ status = "captured"
ClosesReleased(c, x, h, status, D) == ReleaseBumped(c, x, D, h) /\ status = StatusOf(c)

ClosesHold(c, x, h, status) ==
    \/ ClosesCaptured(c, x, h, status)
    \/ \E D \in SUBSET HoldId : ClosesReleased(c, x, h, status, D)

LEMMA CloseNext ==
    ASSUME TxInv, NEW w \in Worker, NEW op, op = "close", Ready(w, op), NEW x, x = Progress(w), NEW c, c = call[w]
    PROVE  \E h \in HoldId : \E status :
                /\ Head(x.todo) = CloseHold(h, x.base[HoldKey(h)].payment, status) /\ ClosesHold(c, x, h, status)
                /\ HoldKey(h) \in x.locked /\ Locked(x, h) /\ HoldKey(h) \notin DOMAIN x.writes
<1>1. OpIs(x, op) /\ c \in Call /\ Stage(c, x)
  BY ReadyFacts
<1>2. CASE c.method = "CaptureFunds" /\ CaptureTransferred(c, x)
  <2>1. PICK h, status : h = c.hold /\ status = "captured"
    OBVIOUS
  <2>2. Head(x.todo) = CloseHold(h, x.base[HoldKey(h)].payment, status)
    BY <1>1, <1>2, <2>1, CaptureNext DEF At, CloseCaptured, CaptureRow
  <2>3. h \in HoldId
    BY <1>1, <1>2, <2>1, CallFacts
  <2>4. HoldKey(h) \in x.locked /\ Locked(x, h) /\ HoldKey(h) \notin DOMAIN x.writes
    BY <1>2, <2>1, KeyKinds DEF CaptureTransferred, Transferred, Capturing, Payer, Payee
  <2> QED BY <1>2, <2>1, <2>2, <2>3, <2>4 DEF ClosesHold, ClosesCaptured
<1>3. CASE \E D \in SUBSET HoldId, h \in HoldId : ReleaseBumped(c, x, D, h)
  <2>1. PICK D \in SUBSET HoldId, h \in HoldId : ReleaseBumped(c, x, D, h)
    BY <1>3
  <2>2. PICK status : status = StatusOf(c)
    OBVIOUS
  <2>3. Head(x.todo) = CloseHold(h, x.base[HoldKey(h)].payment, status)
    BY <1>1, <2>1, <2>2, ReleaseNext DEF At, CloseReleased
  <2>4. HoldKey(h) \in x.locked /\ Locked(x, h)
    BY <2>1 DEF ReleaseBumped, Targets
  <2>5. HoldKey(h) \notin DOMAIN x.writes
    <3>1. PICK E : E = D \cup {h}
      OBVIOUS
    <3>2. DOMAIN x.writes = ReleaseRows(c, x, E, D) /\ h \notin D
      BY <2>1, <3>1 DEF ReleaseBumped
    <3> QED BY <3>2, ReleaseRowKinds
  <2> QED BY <2>1, <2>2, <2>3, <2>4, <2>5 DEF ClosesHold, ClosesReleased
<1> QED BY <1>1, <1>2, <1>3, StageOf

LEMMA CloseStage ==
    ASSUME NEW c \in Call, NEW x, NEW y, NEW h \in HoldId, NEW status, NEW wr, NEW rows, NEW ev, NEW more, NEW row,
           ClosesHold(c, x, h, status), row = x.base[HoldKey(h)], DOMAIN wr = {HoldKey(h), Pay(row.payment)},
           wr[HoldKey(h)] = Settled(x, h, status), wr[Pay(row.payment)] = NoRow,
           c.method = "Sweep" => y.resp = [released |-> x.resp.released + 1],
           rows = {HoldKey(h), Pay(row.payment)}, ev = {}, more = <<>>, Executed(x, y, rows, wr, ev, more)
    PROVE  Stage(c, y) /\ (c.method = "PaymentFailed" => y.todo = <<>>)
<1>1. ASSUME ClosesCaptured(c, x, h, status) PROVE Stage(c, y) /\ c.method = "CaptureFunds"
  <2>1. c.method = "CaptureFunds" /\ CaptureTransferred(c, x) /\ h = c.hold /\ status = "captured"
    BY <1>1 DEF ClosesCaptured
  <2>2. row = CaptureRow(c, x)
    BY <2>1 DEF CaptureRow
  <2>3. CaptureClosed(c, y)
    BY <2>1, <2>2, CloseCaptureStep
  <2>4. HoldKey(c.hold) \in y.locked
    BY <2>1 DEF Executed
  <2> QED BY <2>1, <2>3, <2>4 DEF Stage, CaptureStage
<1>2. ASSUME NEW D \in SUBSET HoldId, ClosesReleased(c, x, h, status, D)
      PROVE  Stage(c, y) /\ (c.method = "PaymentFailed" => y.todo = <<>>)
  <2>1. ReleaseBumped(c, x, D, h) /\ status = StatusOf(c)
    BY <1>2 DEF ClosesReleased
  <2>2. PICK E : E = D \cup {h}
    OBVIOUS
  <2>3. ReleaseDone(c, y, E)
    BY <2>1, <2>2, CloseReleaseStep
  <2>4. E \in SUBSET HoldId
    BY <2>2
  <2>5. c.method = "PaymentFailed" => y.todo = <<>>
    BY <2>3, <2>4, DoneNext
  <2> QED BY <2>3, <2>4, <2>5 DEF Stage, ReleaseStage
<1> QED BY <1>1, <1>2 DEF ClosesHold

LEMMA CloseInv ==
    ASSUME TxInv, NEW w \in Worker, CloseStep(w)
    PROVE  TxInv'
<1>1. PICK x, c, op : x = Progress(w) /\ c = call[w] /\ op = "close"
  OBVIOUS
<1>2. Ready(w, op)
  BY <1>1 DEF CloseStep
<1>3. /\ Running(w) /\ Statement(w) = Head(x.todo) /\ c \in Call /\ TargetOK(w) /\ OlderOK(w) /\ Stage(c, x)
      /\ resp = [v \in Worker |-> resp[v]]
  BY <1>1, <1>2, ReadyFacts
<1>4. PICK h, status :
            /\ h \in HoldId
            /\ Head(x.todo) = CloseHold(h, x.base[HoldKey(h)].payment, status) /\ ClosesHold(c, x, h, status)
            /\ HoldKey(h) \in x.locked /\ Locked(x, h) /\ HoldKey(h) \notin DOMAIN x.writes
  BY <1>1, <1>2, CloseNext
<1>5. PICK row, p : row = x.base[HoldKey(h)] /\ p = row.payment
  OBVIOUS
<1>6. /\ Statement(w).rows = {HoldKey(h), Pay(p)} /\ Statement(w).hold = h
      /\ Statement(w).payment = p /\ Statement(w).status = status
  BY <1>3, <1>4, <1>5, StatementFacts
<1>7. x.writes = tx[w].writes /\ x.locked = tx[w].locked /\ x.resp = resp[w] /\ row = db[HoldKey(h)]
  BY <1>1, <1>4, <1>5, ProgressFacts
<1>8. HoldKey(h) \notin DOMAIN tx[w].older
  BY <1>3, <1>4, <1>7 DEF OlderOK
<1>9. View(w, HoldKey(h)) = row
  BY <1>4, <1>7, <1>8, ViewFacts
<1>10. PICK wr, rows, ev, more, new :
            /\ new = [row EXCEPT !.status = status]
            /\ wr = Over(Put(Pay(p), NoRow), Put(HoldKey(h), new))
            /\ rows = {HoldKey(h), Pay(p)} /\ ev = {} /\ more = <<>>
  OBVIOUS
<1>11. /\ Proceed(w, wr, ev, more) /\ nextEntry' = nextEntry
       /\ resp' = IF c.method = "Sweep" THEN [resp EXCEPT ![w].released = @ + 1] ELSE resp
  BY <1>1, <1>6, <1>9, <1>10 DEF CloseStep
<1>12. DOMAIN wr = {HoldKey(h), Pay(p)} /\ wr[HoldKey(h)] = new /\ wr[Pay(p)] = NoRow
  BY <1>10, KeyKinds DEF Over, Put
<1>13. new = Settled(x, h, status)
  BY <1>5, <1>10 DEF Settled
<1>14. rows = Statement(w).rows
  BY <1>6, <1>10
<1>15. PICK y : y = Progress(w)'
  OBVIOUS
<1>16. /\ Executed(x, y, rows, wr, ev, more) /\ db' = db /\ call' = call /\ due' = due
       /\ y.resp = resp'[w] /\ \A r \in y.locked : y.base[r] = db[r]
  BY <1>1, <1>2, <1>11, <1>14, <1>15, ExecFacts
<1>17. /\ resp' = [v \in Worker |-> resp'[v]] /\ (\A v \in Worker \ {w} : resp'[v] = resp[v])
  <2>1. CASE c.method = "Sweep"
    <3>1. PICK f : f = [resp[w] EXCEPT !.released = @ + 1]
      OBVIOUS
    <3>2. resp' = [resp EXCEPT ![w] = f]
      BY <1>11, <2>1, <3>1
    <3> QED BY <1>3, <3>2
  <2>2. CASE c.method # "Sweep"
    BY <1>3, <1>11, <2>2
  <2> QED BY <2>1, <2>2
<1>18. ASSUME c.method = "Sweep" PROVE y.resp = [released |-> x.resp.released + 1]
  <2>1. PICK D : x.resp = [released |-> Cardinality(D)]
    <3>1. PICK D \in SUBSET HoldId : ReleaseBumped(c, x, D, h)
      BY <1>4, <1>18 DEF ClosesHold, ClosesCaptured, ClosesReleased
    <3> QED BY <1>18, <3>1 DEF ReleaseBumped, Pending
  <2>2. PICK n : n = Cardinality(D)
    OBVIOUS
  <2>3. resp[w] = [released |-> n]
    BY <1>7, <2>1, <2>2
  <2>4. resp'[w] = [resp[w] EXCEPT !.released = @ + 1]
    BY <1>3, <1>11, <1>18
  <2>5. resp'[w] = [released |-> n + 1]
    BY <2>3, <2>4
  <2> QED BY <1>7, <1>16, <2>3, <2>5
<1>19. Stage(c, y) /\ (c.method = "PaymentFailed" => y.todo = <<>>)
  BY <1>3, <1>4, <1>5, <1>10, <1>12, <1>13, <1>16, <1>18, CloseStage
<1>20. TargetOK(w)'
  <2>1. \A g \in HoldId : HoldKey(g) \in y.locked => HoldKey(g) \in tx[w].locked
    BY <1>4, <1>7, <1>10, <1>12, <1>16, KeyKinds DEF Executed
  <2>2. HoldKey(h) \in y.locked /\ HoldKey(h) # Ev(c.event)
    BY <1>10, <1>16, KeyKinds DEF Executed
  <2>3. ~ FoundNone(c, y)
    BY <2>2 DEF FoundNone
  <2> QED BY <1>1, <1>3, <1>15, <1>16, <1>19, <2>1, <2>3, TargetStays
<1>21. MayWrite(w, wr)
  <2>1. db[HoldKey(h)] # NoRow
    BY <1>4, <1>5, <1>7, NoRowFacts DEF Locked
  <2>2. Pay(p)[1] \notin {"account_balances", "holds"}
    BY KeyKinds
  <2>3. (\A a : Bal(a) \notin {HoldKey(h), Pay(p)}) /\ (\A g : HoldKey(g) \in {HoldKey(h), Pay(p)} => g = h)
    BY KeyKinds
  <2> QED BY <1>6, <1>8, <1>12, <2>1, <2>2, <2>3 DEF MayWrite
<1>22. Statement(w).rows \cup DOMAIN wr \cup tx[w].locked # {} /\ \A k \in IdemKey : Txn(k) \notin DOMAIN wr
  BY <1>6, <1>12, KeyKinds
<1> QED BY <1>1, <1>2, <1>11, <1>15, <1>17, <1>19, <1>20, <1>21, <1>22, StatementStep

\* The answers that are stored at each stage.
StoresHold(c, x, answer, h) == c.method = "HoldFunds" /\ HoldBumped(c, x, h) /\ answer = HoldAnswer(c, x, h)
StoresCapture(c, x, answer) == c.method = "CaptureFunds" /\ CaptureClosed(c, x) /\ answer = CaptureAnswer(c)
StoresRelease(c, x, answer, D) ==
    c.method = "ReleaseFunds" /\ ReleaseDone(c, x, D) /\ answer = [method |-> c.method]

StoresAnswer(c, x, answer) ==
    \/ \E h \in HoldId : StoresHold(c, x, answer, h)
    \/ StoresCapture(c, x, answer)
    \/ \E D \in SUBSET HoldId : StoresRelease(c, x, answer, D)

LEMMA StoreNext ==
    ASSUME TxInv, NEW w \in Worker, NEW op, op = "store", Ready(w, op), NEW x, x = Progress(w), NEW c, c = call[w]
    PROVE  /\ c.method \in Rpc
           /\ \E answer : Head(x.todo) = Store(c.request, answer) /\ StoresAnswer(c, x, answer)
<1>1. OpIs(x, op) /\ c \in Call /\ Stage(c, x)
  BY ReadyFacts
<1>2. CASE c.method = "HoldFunds" /\ \E h \in HoldId : HoldBumped(c, x, h)
  <2>1. PICK h \in HoldId : HoldBumped(c, x, h)
    BY <1>2
  <2>2. PICK answer : answer = HoldAnswer(c, x, h)
    OBVIOUS
  <2>3. Head(x.todo) = Store(c.request, answer)
    BY <1>1, <2>1, <2>2, HoldNext DEF At
  <2> QED BY <1>2, <2>1, <2>2, <2>3 DEF StoresAnswer, StoresHold, Rpc
<1>3. CASE c.method = "CaptureFunds" /\ CaptureClosed(c, x)
  <2>1. PICK answer : answer = CaptureAnswer(c)
    OBVIOUS
  <2>2. Head(x.todo) = Store(c.request, answer)
    BY <1>1, <1>3, <2>1, CaptureNext DEF At, StoreCapture
  <2> QED BY <1>3, <2>1, <2>2 DEF StoresAnswer, StoresCapture, Rpc
<1>4. CASE c.method = "ReleaseFunds" /\ \E D \in SUBSET HoldId : ReleaseDone(c, x, D)
  <2>1. PICK D \in SUBSET HoldId : ReleaseDone(c, x, D)
    BY <1>4
  <2>2. PICK answer : answer = [method |-> c.method]
    OBVIOUS
  <2>3. Head(x.todo) = Store(c.request, answer)
    BY <1>1, <1>4, <2>1, <2>2, DoneNext DEF At
  <2> QED BY <1>4, <2>1, <2>2, <2>3 DEF StoresAnswer, StoresRelease, Rpc
<1> QED BY <1>1, <1>2, <1>3, <1>4, StageOf

LEMMA StoreStage ==
    ASSUME NEW c \in Call, NEW x, NEW y, NEW answer, NEW wr, NEW rows, NEW ev, NEW more,
           StoresAnswer(c, x, answer), DOMAIN wr = {Req(c.request)}, wr[Req(c.request)] = answer, y.resp = answer,
           y.base[Req(c.request)] = NoRow,
           rows = {Req(c.request)}, ev = {}, more = <<>>, Executed(x, y, rows, wr, ev, more)
    PROVE  Stage(c, y)
<1>1. ASSUME NEW h \in HoldId, StoresHold(c, x, answer, h) PROVE Stage(c, y)
  <2>1. c.method = "HoldFunds" /\ HoldBumped(c, x, h) /\ answer = HoldAnswer(c, x, h)
    BY <1>1 DEF StoresHold
  <2>2. HoldStored(c, y, h)
    BY <2>1, StoreHoldStep
  <2> QED BY <2>1, <2>2 DEF Stage, HoldStage
<1>2. ASSUME StoresCapture(c, x, answer) PROVE Stage(c, y)
  <2>1. c.method = "CaptureFunds" /\ CaptureClosed(c, x) /\ answer = CaptureAnswer(c)
    BY <1>2 DEF StoresCapture
  <2>2. CaptureStored(c, y)
    BY <2>1, StoreCaptureStep
  <2>3. HoldKey(c.hold) \in y.locked
    BY <2>1 DEF CaptureClosed, CaptureRows, Executed
  <2> QED BY <2>1, <2>2, <2>3 DEF Stage, CaptureStage
<1>3. ASSUME NEW D \in SUBSET HoldId, StoresRelease(c, x, answer, D) PROVE Stage(c, y)
  <2>1. c.method = "ReleaseFunds" /\ ReleaseDone(c, x, D) /\ answer = [method |-> c.method]
    BY <1>3 DEF StoresRelease
  <2>2. \E h \in HoldId : ReleaseStored(c, y, h)
    BY <2>1, StoreReleaseStep
  <2> QED BY <2>2 DEF Stage, ReleaseStage
<1> QED BY <1>1, <1>2, <1>3 DEF StoresAnswer

LEMMA StoreInv ==
    ASSUME TxInv, NEW w \in Worker, StoreStep(w)
    PROVE  TxInv'
<1>1. PICK x, c, op : x = Progress(w) /\ c = call[w] /\ op = "store"
  OBVIOUS
<1>2. Ready(w, op)
  BY <1>1 DEF StoreStep
<1>3. /\ Running(w) /\ Statement(w) = Head(x.todo) /\ c \in Call /\ resp = [v \in Worker |-> resp[v]]
  BY <1>1, <1>2, ReadyFacts
<1>4. PICK answer : Head(x.todo) = Store(c.request, answer) /\ StoresAnswer(c, x, answer)
  BY <1>1, <1>2, StoreNext
<1>5. Statement(w).rows = {Req(c.request)} /\ Statement(w).request = c.request /\ Statement(w).response = answer
  BY <1>3, <1>4, StatementFacts
<1>6. CASE Duplicate(w)
  BY <1>3, <1>6, StoreFailsStep DEF StoreStep
<1>7. CASE ~ Duplicate(w)
  <2>1. PICK wr, rows, ev, more : wr = Put(Req(c.request), answer) /\ rows = {Req(c.request)} /\ ev = {} /\ more = <<>>
    OBVIOUS
  <2>2. Proceed(w, wr, ev, more) /\ nextEntry' = nextEntry /\ resp' = [resp EXCEPT ![w] = answer]
    BY <1>5, <1>7, <2>1 DEF StoreStep
  <2>3. DOMAIN wr = {Req(c.request)} /\ wr[Req(c.request)] = answer
    BY <2>1, PutFacts
  <2>4. PICK y : y = Progress(w)'
    OBVIOUS
  <2>5. rows = Statement(w).rows
    BY <1>5, <2>1
  <2>6. /\ Executed(x, y, rows, wr, ev, more) /\ db' = db /\ call' = call
        /\ y.resp = resp'[w] /\ \A r \in y.locked : y.base[r] = db[r]
    BY <1>1, <1>2, <2>2, <2>4, <2>5, ExecFacts
  <2>7. Req(c.request) \in y.locked /\ db[Req(c.request)] = NoRow
    BY <1>5, <1>7, <2>1, <2>6 DEF Executed, Duplicate
  <2>8. /\ resp' = [v \in Worker |-> resp'[v]] /\ (\A v \in Worker \ {w} : resp'[v] = resp[v]) /\ resp'[w] = answer
    BY <1>3, <2>2
  <2>9. Stage(c, y)
    BY <1>3, <1>4, <2>1, <2>3, <2>6, <2>7, <2>8, StoreStage
  <2>10. TargetOK(w)'
    <3>1. c.method \in Rpc
      BY <1>1, <1>2, StoreNext
    <3> QED BY <1>1, <2>6, <3>1, TargetFree DEF Rpc
  <2>11. MayWrite(w, wr)
    <3>1. Req(c.request)[1] \notin {"account_balances", "holds"}
      BY KeyKinds
    <3>2. (\A a : Bal(a) # Req(c.request)) /\ (\A h : HoldKey(h) # Req(c.request))
      BY KeyKinds
    <3> QED BY <1>5, <2>3, <3>1, <3>2 DEF MayWrite
  <2>12. Statement(w).rows \cup DOMAIN wr \cup tx[w].locked # {} /\ \A k \in IdemKey : Txn(k) \notin DOMAIN wr
    BY <1>5, <2>3, KeyKinds
  <2>13. nextEntry' = nextEntry
    BY <2>2
  <2> QED BY <1>1, <1>2, <2>2, <2>4, <2>8, <2>9, <2>10, <2>11, <2>12, <2>13, StatementStep
<1> QED BY <1>6, <1>7

\* The event is a duplicate, or the handler's first statement is next.
GatePassed(c, y) ==
    Stage(c, y) /\ ((y.todo = <<>> /\ DOMAIN y.writes = {}) \/ \E op : OpIs(y, op) /\ op # "lockHold")

LEMMA GateInv ==
    ASSUME TxInv, NEW w \in Worker, GateStep(w)
    PROVE  TxInv'
<1>1. PICK x, c, op : x = Progress(w) /\ c = call[w] /\ op = "gate"
  OBVIOUS
<1>2. Ready(w, op)
  BY <1>1 DEF GateStep
<1>3. /\ Running(w) /\ OpIs(x, op) /\ Statement(w) = Head(x.todo) /\ c \in Call /\ Stage(c, x)
      /\ TargetOK(w) /\ Consistent(db)
  BY <1>1, <1>2, ReadyFacts
<1>4. IsEvent(c) /\ Begun(c, x)
  BY <1>1, <1>3, StageOf
<1>5. Statement(w).rows = {Ev(c.event)}
  BY <1>3, <1>4, BegunNext, StatementFacts DEF At
<1>6. x.locked = tx[w].locked /\ x.locked = {}
  BY <1>1, <1>4, ProgressFacts DEF Begun
<1>7. CASE Conflict(w)
  BY <1>3, <1>7, RetryStep DEF GateStep
<1>8. ASSUME NEW wr, NEW ev, NEW more, NEW rows, NEW y, y = Progress(w)', rows = {Ev(c.event)}, ev = {},
             Proceed(w, wr, ev, more), UNCHANGED <<nextEntry, resp>>, DOMAIN wr \subseteq {Ev(c.event)},
             Executed(x, y, rows, wr, ev, more) => GatePassed(c, y) \/ y.base[Ev(c.event)] # db[Ev(c.event)]
      PROVE  TxInv'
  <2>1. rows = Statement(w).rows /\ y = Progress(w)' /\ Proceed(w, wr, ev, more)
    BY <1>5, <1>8
  <2>2. /\ Executed(x, y, rows, wr, ev, more) /\ db' = db /\ call' = call /\ due' = due
        /\ \A r \in y.locked : y.base[r] = db[r]
    BY <1>1, <1>2, <2>1, ExecFacts
  <2>3. y.locked = x.locked \cup {Ev(c.event)}
    BY <1>8, <2>2 DEF Executed
  <2>4. Stage(c, y) /\ ((y.todo = <<>> /\ DOMAIN y.writes = {}) \/ \E o : OpIs(y, o) /\ o # "lockHold")
    BY <1>8, <2>2, <2>3 DEF GatePassed
  <2>5. TargetOK(w)'
    <3>1. \A h \in HoldId : HoldKey(h) \in y.locked => HoldKey(h) \in tx[w].locked
      BY <1>6, <2>3, KeyKinds
    <3> QED BY <1>1, <1>3, <2>1, <2>2, <2>4, <3>1, TargetStays DEF FoundNone, OpIs
  <2>6. MayWrite(w, wr)
    <3>1. Ev(c.event)[1] \notin {"account_balances", "holds"}
      BY KeyKinds
    <3>2. (\A a : Bal(a) # Ev(c.event)) /\ (\A h : HoldKey(h) # Ev(c.event))
      BY KeyKinds
    <3> QED BY <1>5, <1>8, <3>1, <3>2 DEF MayWrite
  <2>7. Statement(w).rows \cup DOMAIN wr \cup tx[w].locked # {} /\ \A k \in IdemKey : Txn(k) \notin DOMAIN wr
    BY <1>5, <1>8, KeyKinds
  <2>8. /\ resp' = [v \in Worker |-> resp'[v]] /\ (\A v \in Worker : resp'[v] = resp[v]) /\ nextEntry' = nextEntry
    BY <1>8, RespStays
  <2> QED BY <1>1, <1>2, <2>1, <2>4, <2>5, <2>6, <2>7, <2>8, StatementStep
<1>9. CASE ~ Conflict(w) /\ Duplicate(w)
  <2>1. PICK wr, ev, more, rows, y : /\ wr = <<>> /\ ev = {} /\ more = <<>> /\ rows = {Ev(c.event)}
                                     /\ y = Progress(w)'
    OBVIOUS
  <2>2. Proceed(w, wr, ev, more) /\ UNCHANGED <<nextEntry, resp>>
    BY <1>9, <2>1 DEF GateStep
  <2>3. db[Ev(c.event)] # NoRow /\ DOMAIN wr = {}
    BY <1>5, <1>9, <2>1 DEF Duplicate
  <2>4. ASSUME Executed(x, y, rows, wr, ev, more), y.base[Ev(c.event)] = db[Ev(c.event)]
        PROVE  GatePassed(c, y)
    <3>1. Processed(c, y)
      BY <1>3, <1>4, <2>1, <2>3, <2>4, DuplicateStep
    <3> QED BY <3>1 DEF GatePassed, Stage, Processed, Untouched
  <2>5. y = Progress(w)' /\ rows = {Ev(c.event)} /\ ev = {} /\ DOMAIN wr \subseteq {Ev(c.event)}
    BY <2>1, <2>3
  <2> QED BY <1>8, <2>2, <2>4, <2>5
<1>10. CASE ~ Conflict(w) /\ ~ Duplicate(w)
  <2>1. PICK s : s = IF c.method = "UserRegistered" THEN OpenAccount ELSE FindHold(c.payment)
    OBVIOUS
  <2>2. PICK wr, ev, more, rows, y : /\ wr = Put(Ev(c.event), "processed") /\ ev = {} /\ more = <<s>>
                                     /\ rows = {Ev(c.event)} /\ y = Progress(w)'
    OBVIOUS
  <2>3. Proceed(w, wr, ev, more) /\ UNCHANGED <<nextEntry, resp>>
    BY <1>1, <1>10, <2>1, <2>2 DEF GateStep
  <2>4. DOMAIN wr = {Ev(c.event)} /\ wr[Ev(c.event)] = "processed"
    BY <2>2, PutFacts
  <2>5. db[Ev(c.event)] = NoRow
    BY <1>5, <1>10 DEF Duplicate
  <2>6. ASSUME Executed(x, y, rows, wr, ev, more), y.base[Ev(c.event)] = db[Ev(c.event)]
        PROVE  GatePassed(c, y)
    <3>1. /\ c.method = "UserRegistered" /\ s = OpenAccount => RegisterGated(c, y)
          /\ c.method = "PaymentFailed" /\ s = FindHold(c.payment) => FailedGated(c, y)
      BY <1>3, <1>4, <2>2, <2>4, <2>5, <2>6, GateOpens
    <3>2. CASE c.method = "UserRegistered"
      <4>1. RegisterGated(c, y)
        BY <2>1, <3>1, <3>2
      <4>2. OpIs(y, "openAccount")
        BY <1>3, <4>1, RegisterOps
      <4> QED BY <3>2, <4>1, <4>2 DEF GatePassed, Stage, RegisterStage
    <3>3. CASE c.method = "PaymentFailed"
      <4>1. FailedGated(c, y) /\ s = FindHold(c.payment)
        BY <2>1, <3>1, <3>3
      <4>2. y.todo = <<s>>
        <5>1. Tail(x.todo) = <<>>
          BY <1>3, <1>4, BegunNext DEF At
        <5>2. y.todo = <<s>> \o <<>>
          BY <2>2, <2>6, <5>1 DEF Executed
        <5> QED BY <5>2, ConcatFacts
      <4>3. OpIs(y, "findHold")
        BY <4>1, <4>2, AtOne, StatementOps
      <4> QED BY <4>1, <4>3 DEF GatePassed, Stage
    <3> QED BY <1>4, <3>2, <3>3 DEF IsEvent
  <2>7. y = Progress(w)' /\ rows = {Ev(c.event)} /\ ev = {} /\ DOMAIN wr \subseteq {Ev(c.event)}
    BY <2>2, <2>4
  <2> QED BY <1>8, <2>3, <2>6, <2>7
<1> QED BY <1>7, <1>9, <1>10

LEMMA OpenAccountInv ==
    ASSUME TxInv, NEW w \in Worker, OpenAccountStep(w)
    PROVE  TxInv'
<1>1. PICK x, c, op : x = Progress(w) /\ c = call[w] /\ op = "openAccount"
  OBVIOUS
<1>2. Ready(w, op)
  BY <1>1 DEF OpenAccountStep
<1>3. /\ Running(w) /\ OpIs(x, op) /\ Statement(w) = Head(x.todo) /\ c \in Call /\ Stage(c, x)
  BY <1>1, <1>2, ReadyFacts
<1>4. c.method = "UserRegistered" /\ RegisterGated(c, x)
  BY <1>1, <1>3, StageOf
<1>5. Statement(w).rows = {}
  <2>1. Statement(w) = OpenAccount
    BY <1>3, <1>4, RegisterNext DEF At
  <2> QED BY <2>1, StatementFacts
<1>6. PICK a \in UserAccount :
        /\ Fresh(Bal(a)) /\ UNCHANGED <<nextEntry, resp>>
        /\ Proceed(w, Put(Bal(a), NewBalance), {},
                IF c.seed > 0 THEN DepositSteps(c.user, a, c.seed) ELSE <<>>)
  BY <1>1 DEF OpenAccountStep
<1>7. PICK wr, ev, rows, more, y :
        /\ wr = Put(Bal(a), NewBalance) /\ ev = {} /\ rows = {} /\ y = Progress(w)'
        /\ more = IF c.seed > 0 THEN DepositSteps(c.user, a, c.seed) ELSE <<>>
  OBVIOUS
<1>8. Proceed(w, wr, ev, more) /\ rows = Statement(w).rows /\ y = Progress(w)'
  BY <1>5, <1>6, <1>7
<1>9. DOMAIN wr = {Bal(a)} /\ wr[Bal(a)] = NewBalance
  BY <1>7, PutFacts
<1>10. /\ Executed(x, y, rows, wr, ev, more) /\ db' = db /\ call' = call
       /\ \A r \in y.locked : y.base[r] = db[r]
  BY <1>1, <1>2, <1>8, ExecFacts
<1>11. y.base[Bal(a)] = NoRow
  BY <1>6, <1>9, <1>10 DEF Executed, Fresh
<1>12. RegisterOpened(c, y, a)
  BY <1>3, <1>4, <1>7, <1>9, <1>10, <1>11, OpenStep
<1>13. Stage(c, y)
  BY <1>4, <1>12 DEF Stage, RegisterStage
<1>14. TargetOK(w)'
  BY <1>1, <1>4, <1>10, TargetFree
<1>15. MayWrite(w, wr)
  <2>1. NewId(Bal(a))
    BY <1>6, AccountFacts DEF NewId
  <2> QED BY <1>5, <1>9, <2>1 DEF MayWrite
<1>16. Statement(w).rows \cup DOMAIN wr \cup tx[w].locked # {} /\ \A k \in IdemKey : Txn(k) \notin DOMAIN wr
  BY <1>9, KeyKinds
<1>17. /\ resp' = [v \in Worker |-> resp'[v]] /\ (\A v \in Worker : resp'[v] = resp[v]) /\ nextEntry' = nextEntry
  BY <1>6, RespStays
<1> QED BY <1>1, <1>2, <1>8, <1>13, <1>14, <1>15, <1>16, <1>17, StatementStep

LEMMA FindHoldInv ==
    ASSUME TxInv, NEW w \in Worker, FindHoldStep(w)
    PROVE  TxInv'
<1>1. PICK x, c, op : x = Progress(w) /\ c = call[w] /\ op = "findHold"
  OBVIOUS
<1>2. Ready(w, op)
  BY <1>1 DEF FindHoldStep
<1>3. /\ Running(w) /\ OpIs(x, op) /\ Statement(w) = Head(x.todo) /\ c \in Call /\ Stage(c, x)
      /\ OlderOK(w) /\ Consistent(db)
  BY <1>1, <1>2, ReadyFacts
<1>4. FailedGated(c, x) /\ x.todo = <<FindHold(c.payment)>> /\ c.method = "PaymentFailed" /\ c.payment \in Payment
  BY <1>1, <1>3, StageOf, CallFacts DEF FailedGated
<1>5. Statement(w).rows = {} /\ Statement(w).payment = c.payment
  <2>1. PICK s : s = FindHold(c.payment)
    OBVIOUS
  <2>2. Statement(w) = s
    BY <1>3, <1>4, <2>1, AtOne DEF At
  <2> QED BY <2>1, <2>2, StatementFacts
<1>6. PICK h : h = View(w, Pay(c.payment))
  OBVIOUS
<1>7. x.writes = tx[w].writes /\ x.locked = tx[w].locked
  BY <1>1, ProgressFacts
<1>8. h = NoRow \/ KnownHold(h, c.payment)
  <2>1. Pay(c.payment) \notin DOMAIN tx[w].writes
    BY <1>4, <1>7, KeyKinds DEF FailedGated
  <2>2. h = IF Pay(c.payment) \in DOMAIN tx[w].older THEN tx[w].older[Pay(c.payment)] ELSE db[Pay(c.payment)]
    BY <1>6, <2>1 DEF View, Snapshot
  <2>3. CASE Pay(c.payment) \in DOMAIN tx[w].older
    BY <1>3, <1>4, <2>2, <2>3 DEF OlderOK
  <2>4. CASE Pay(c.payment) \notin DOMAIN tx[w].older
    BY <1>3, <1>4, <2>2, <2>4 DEF Consistent, KnownHold
  <2> QED BY <2>3, <2>4
<1>9. PICK wr, ev, rows, more, y :
        /\ wr = <<>> /\ ev = {} /\ rows = {} /\ y = Progress(w)'
        /\ more = IF h = NoRow THEN <<>> ELSE <<LockHold(h)>>
  OBVIOUS
<1>10. Proceed(w, wr, ev, more) /\ UNCHANGED <<nextEntry, resp>>
  BY <1>5, <1>6, <1>9 DEF FindHoldStep
<1>11. rows = Statement(w).rows /\ y = Progress(w)' /\ DOMAIN wr = {}
  BY <1>5, <1>9
<1>12. /\ Executed(x, y, rows, wr, ev, more) /\ db' = db /\ call' = call
       /\ y.todo = tx'[w].todo
  BY <1>1, <1>2, <1>10, <1>11, ExecFacts
<1>13. more = <<>> \/ \E g \in HoldId : more = <<LockHold(g)>>
  BY <1>8, <1>9 DEF KnownHold
<1>14. FailedGated(c, y) /\ y.todo = more
  BY <1>3, <1>4, <1>9, <1>11, <1>12, <1>13, FindStep
<1>15. Stage(c, y)
  BY <1>14 DEF Stage
<1>16. TargetOK(w)'
  <2>1. ASSUME NEW g \in HoldId, tx'[w].todo = <<LockHold(g)>> PROVE KnownHold(g, c.payment)
    <3>1. PICK s, t : s = LockHold(g) /\ t = LockHold(h)
      OBVIOUS
    <3>2. more = <<s>>
      BY <1>12, <1>14, <2>1, <3>1
    <3>3. h # NoRow
      BY <1>9, <3>2
    <3>4. <<s>> = <<t>>
      BY <1>9, <3>1, <3>2, <3>3
    <3>5. s = t /\ s.hold = g /\ t.hold = h
      BY <3>1, <3>4, StatementFacts
    <3> QED BY <1>8, <3>3, <3>5
  <2>2. \A g, p : KnownHold(g, p)' <=> KnownHold(g, p)
    BY <1>12 DEF KnownHold
  <2>3. y.todo = <<>> => Snapshot(w, Pay(c.payment))' = NoRow
    <3>1. Pay(c.payment) \notin DOMAIN tx[w].writes
      BY <1>4, <1>7, KeyKinds DEF FailedGated
    <3>2. tx'[w].older = tx[w].older
      <4>1. tx = [v \in Worker |-> tx[v]] /\ DOMAIN tx[w] = TxFields
        BY <1>2, ReadyFacts
      <4> QED BY <1>10, <4>1, ProceedFacts
    <3>3. h = Snapshot(w, Pay(c.payment))
      BY <1>6, <3>1 DEF View
    <3>4. Snapshot(w, Pay(c.payment))' = Snapshot(w, Pay(c.payment))
      BY <1>12, <3>2 DEF Snapshot
    <3>5. y.todo = <<>> => h = NoRow
      <4>1. PICK t : t = LockHold(h)
        OBVIOUS
      <4>2. more = IF h = NoRow THEN <<>> ELSE <<t>>
        BY <1>9, <4>1
      <4>3. <<t>> # <<>>
        OBVIOUS
      <4> QED BY <1>14, <4>2, <4>3
    <3> QED BY <3>3, <3>4, <3>5
  <2> QED BY <1>1, <1>4, <1>9, <1>12, <2>1, <2>2, <2>3 DEF TargetOK, FoundNone
<1>17. MayWrite(w, wr)
  BY <1>5, <1>9, WritesNothing
<1>18. Statement(w).rows \cup DOMAIN wr \cup tx[w].locked # {} /\ \A k \in IdemKey : Txn(k) \notin DOMAIN wr
  BY <1>4, <1>7, <1>11 DEF FailedGated
<1>19. /\ resp' = [v \in Worker |-> resp'[v]] /\ (\A v \in Worker : resp'[v] = resp[v]) /\ nextEntry' = nextEntry
  BY <1>10, RespStays
<1> QED BY <1>1, <1>2, <1>10, <1>11, <1>15, <1>16, <1>17, <1>18, <1>19, StatementStep

LEMMA SelectDueInv ==
    ASSUME TxInv, NEW w \in Worker, SelectDueStep(w)
    PROVE  TxInv'
<1>1. PICK x, c, op : x = Progress(w) /\ c = call[w] /\ op = "selectDue"
  OBVIOUS
<1>2. Ready(w, op)
  BY <1>1 DEF SelectDueStep
<1>3. /\ Running(w) /\ OpIs(x, op) /\ Statement(w) = Head(x.todo) /\ c \in Call /\ Stage(c, x)
      /\ Consistent(db) /\ DOMAIN tx[w] = TxFields /\ resp = [v \in Worker |-> resp[v]] /\ tx = [v \in Worker |-> tx[v]]
      /\ nextEntry \in Int
  BY <1>1, <1>2, ReadyFacts
<1>4. c.method = "Sweep" /\ Begun(c, x)
  BY <1>1, <1>3, StageOf
<1>5. /\ x.writes = tx[w].writes /\ x.emitted = tx[w].emitted /\ DOMAIN x.writes = {} /\ x.emitted = {}
      /\ x.locked = tx[w].locked /\ x.locked = {}
  BY <1>1, <1>4, ProgressFacts DEF Begun, Untouched
<1>6. PICK free : free = {h \in due : /\ View(w, HoldKey(h)) # NoRow
                                      /\ View(w, HoldKey(h)).status = "active"
                                      /\ \A v \in Worker : Running(v) => HoldKey(h) \notin tx[v].locked}
  OBVIOUS
<1>7. PICK size : size = IF Cardinality(free) < SweepLimit THEN Cardinality(free) ELSE SweepLimit
  OBVIOUS
<1>8. PICK D \in SUBSET free :
            /\ Cardinality(D) = size
            /\ \/ Rollback(w, "Internal")
               \/ /\ \A h \in D : HoldKey(h) \notin DOMAIN tx[w].older
                  /\ \E order \in Bijection(1 .. size, D) :
                    /\ tx' = [tx EXCEPT ![w].todo = [i \in 1 .. size |-> LockHold(order[i])],
                                        ![w].locked = {HoldKey(h) : h \in D}]
                    /\ resp' = [resp EXCEPT ![w] = SweepReset(w)]
                    /\ UNCHANGED <<db, outbox, due, nextEntry, call, attempt, outcome>>
  BY <1>6, <1>7 DEF SelectDueStep
<1>9. CASE Rollback(w, "Internal")
  BY <1>3, <1>9, RollbackStep DEF Result
<1>10. CASE ~ Rollback(w, "Internal")
  <2>1. \A h \in D : HoldKey(h) \notin DOMAIN tx[w].older
    BY <1>8, <1>10
  <2>2. PICK order \in Bijection(1 .. size, D) :
            /\ tx' = [tx EXCEPT ![w].todo = [i \in 1 .. size |-> LockHold(order[i])],
                                ![w].locked = {HoldKey(h) : h \in D}]
            /\ resp' = [resp EXCEPT ![w] = SweepReset(w)]
            /\ UNCHANGED <<db, outbox, due, nextEntry, call, attempt, outcome>>
    BY <1>8, <1>10
  <2>3. PICK todo, locked : todo = [i \in 1 .. size |-> LockHold(order[i])] /\ locked = {HoldKey(h) : h \in D}
    OBVIOUS
  <2>4. /\ tx' = [v \in Worker |-> tx'[v]] /\ DOMAIN tx'[w] = TxFields /\ (\A v \in Worker \ {w} : tx'[v] = tx[v])
        /\ tx'[w].todo = todo /\ tx'[w].writes = tx[w].writes /\ tx'[w].locked = locked
        /\ tx'[w].emitted = tx[w].emitted /\ tx'[w].older = tx[w].older
    <3>1. tx' = [tx EXCEPT ![w].todo = todo, ![w].locked = locked]
      BY <2>2, <2>3
    <3> QED BY <1>3, <3>1 DEF TxFields
  <2>5. /\ resp' = [v \in Worker |-> resp'[v]] /\ (\A v \in Worker \ {w} : resp'[v] = resp[v])
        /\ resp'[w] = [released |-> 0]
    BY <1>3, <2>2 DEF SweepReset
  <2>6. due \subseteq HoldId
    BY DEF TxInv, TablesOK
  <2>7. D \in SUBSET HoldId /\ free \in SUBSET HoldId
    BY <1>6, <1>8, <2>6
  <2>8. size \in Nat /\ size <= SweepLimit
    <3>1. Cardinality(free) \in Nat
      BY <2>7, HoldSets
    <3> QED BY <1>7, <3>1, ConstantsAssumption
  <2>9. \A i \in 1 .. size : order[i] \in D
    BY <2>2 DEF Bijection, Injection
  <2>10. \A h \in D : /\ h \in HoldId /\ h \in due /\ db[HoldKey(h)] \in HoldRow
                      /\ \A v \in Worker : Running(v) => HoldKey(h) \notin tx[v].locked
    <3>1. ASSUME NEW h \in D PROVE db[HoldKey(h)] # NoRow
      <4>1. View(w, HoldKey(h)) = db[HoldKey(h)]
        BY <1>5, <2>1, ViewFacts
      <4> QED BY <1>6, <1>8, <4>1
    <3> QED BY <1>3, <1>6, <1>8, <2>7, <3>1 DEF Consistent
  <2>11. todo \in Seq({LockHold(h) : h \in HoldId}) /\ Len(todo) = size
    <3>1. PICK S : S = {LockHold(h) : h \in HoldId}
      OBVIOUS
    <3>2. \A i \in 1 .. size : LockHold(order[i]) \in S
      BY <2>7, <2>9, <3>1
    <3>3. todo \in [1 .. size -> S]
      BY <2>3, <3>2
    <3>4. todo \in Seq(S)
      BY <2>8, <3>3
    <3>5. Len(todo) = size
      BY <2>8, <3>3, <3>4, LenProperties
    <3> QED BY <3>1, <3>4, <3>5
  <2>12. \A i \in 1 .. Len(todo) : todo[i].rows \subseteq locked
    <3>1. ASSUME NEW i \in 1 .. size PROVE todo[i].rows \subseteq locked
      <4>1. PICK h \in D : h = order[i]
        BY <2>9
      <4>2. todo[i] = LockHold(h)
        BY <2>3, <4>1
      <4>3. todo[i].rows = {HoldKey(h)}
        BY <4>2, StatementFacts
      <4> QED BY <2>3, <4>3
    <3> QED BY <2>11, <3>1
  <2>13. PICK y : y = Progress(w)'
    OBVIOUS
  <2>14. /\ y.todo = todo /\ y.writes = x.writes /\ y.locked = locked /\ y.emitted = x.emitted
         /\ y.resp = [released |-> 0] /\ \A row \in y.locked : y.base[row] = db[row]
    BY <1>5, <2>2, <2>4, <2>5, <2>13 DEF Progress
  <2>15. \A h \in HoldId : HoldKey(h) \in locked <=> h \in D
    BY <2>3, KeyKinds
  <2>16. \A row \in locked : \E h \in D : row = HoldKey(h)
    BY <2>3
  <2>17. PICK E : E = {}
    OBVIOUS
  <2>18. ReleaseDone(c, y, E)
    <3>1. \A h \in HoldId : HoldKey(h) \in y.locked => y.base[HoldKey(h)] \in HoldRow
      BY <2>10, <2>14, <2>15
    <3>2. y.locked \subseteq {HoldKey(h) : h \in HoldId}
      BY <2>7, <2>14, <2>16
    <3>3. Len(y.todo) <= SweepLimit
      BY <2>8, <2>11, <2>14
    <3> QED BY <1>3, <1>4, <1>5, <2>11, <2>12, <2>14, <2>17, <3>1, <3>2, <3>3, SelectStep
  <2>19. Stage(c, y)
    BY <2>17, <2>18 DEF Stage, ReleaseStage
  <2>20. Moves(w) /\ Running(w)'
    <3>1. UNCHANGED <<db, outbox, due, nextEntry, call, attempt, outcome>>
      BY <2>2
    <3>2. Moves(w)
      BY <1>3, <2>4, <2>5, <3>1 DEF Moves
    <3>3. Running(w)'
      BY <2>4 DEF Running, NoTx, TxFields
    <3> QED BY <3>2, <3>3
  <2>21. \A v \in Worker \ {w} : Running(v) => tx[v].locked \cap tx'[w].locked = {}
    BY <2>4, <2>10, <2>16
  <2>22. /\ \A a \in AccountId : Bal(a) \in tx'[w].locked => Bal(a) \notin DOMAIN tx[w].older
         /\ \A h \in HoldId : HoldKey(h) \in tx'[w].locked => HoldKey(h) \notin DOMAIN tx[w].older
    <3>1. \A a : Bal(a) \notin locked
      BY <2>16, KeyKinds
    <3> QED BY <2>1, <2>4, <2>15, <3>1
  <2>23. DrawnApart
    <3>1. \A v \in Worker : Running(v)' <=> Running(v)
      BY <1>3, <2>4, <2>20 DEF Running
    <3>2. Drawn' \subseteq Drawn
      BY <2>4, <3>1 DEF Drawn
    <3> QED BY <3>2 DEF DrawnApart
  <2>24. call' = call /\ due' = due
    BY <2>2
  <2>25. ReplayOK(w)'
    BY <1>1, <1>4, <2>24 DEF ReplayOK, Rpc
  <2>26. TargetOK(w)'
    BY <1>1, <1>4, <2>4, <2>10, <2>15, <2>24 DEF TargetOK
  <2>27. EntriesOK(w)'
    BY <1>5, <2>4 DEF EntriesOK
  <2> QED BY <1>1, <1>3, <2>4, <2>13, <2>19, <2>20, <2>21, <2>22, <2>23, <2>25, <2>26, <2>27, MoveStep
<1> QED BY <1>9, <1>10

-----------------------------------------------------------------------------

LEMMA EarlierTables ==
    ASSUME Init
    PROVE  TablesOK
<1>1. Consistent(db)
  BY TransactionsAssumption DEF Init
<1>2. ASSUME NEW k \in IdemKey, db[Txn(k)] # NoRow PROVE db[Txn(k)].id < nextEntry
  <2>1. PICK f, g : f = Earlier /\ g = Migrated
    OBVIOUS
  <2>2. db = Over(f, g)
    BY <2>1 DEF Init
  <2>3. Txn(k) \in DOMAIN g /\ g[Txn(k)] = NoRow
    BY <2>1, KeyKinds, RowFacts DEF Migrated
  <2>4. db[Txn(k)] = IF Txn(k) \in DOMAIN f THEN f[Txn(k)] ELSE g[Txn(k)]
    BY <2>2, <2>3 DEF Over
  <2>5. Txn(k) \in DOMAIN Earlier /\ db[Txn(k)] = Earlier[Txn(k)]
    BY <1>2, <2>1, <2>3, <2>4
  <2> QED BY <2>5, TransactionsAssumption DEF Init
<1> QED BY <1>1, <1>2 DEF TablesOK, Init

LEMMA InitTxInv ==
    ASSUME Init
    PROVE  TxInv
<1>1. TablesOK
  BY EarlierTables
<1>2. /\ tx = [w \in Worker |-> NoTx] /\ call = [w \in Worker |-> None] /\ attempt = [w \in Worker |-> 0]
      /\ resp = [w \in Worker |-> None] /\ outcome = [w \in Worker |-> None]
  BY DEF Init
<1>3. \A w \in Worker : ~ Running(w)
  BY <1>2 DEF Running
<1>4. ASSUME NEW w \in Worker PROVE WorkerOK(w)
  <2>1. ControlOK(w)
    <3>1. MaxAttempts \in Nat \ {0}
      BY TransactionsAssumption
    <3> QED BY <1>2, <1>3, <3>1 DEF ControlOK
  <2>2. StageOK(w) /\ OlderOK(w) /\ ReplayOK(w) /\ TargetOK(w) /\ EntriesOK(w)
    BY <1>3 DEF StageOK, OlderOK, ReplayOK, TargetOK, EntriesOK
  <2>3. NamesOK(w)
    BY <1>2 DEF NamesOK
  <2> QED BY <2>1, <2>2, <2>3 DEF WorkerOK
<1>5. LocksApart
  BY <1>3 DEF LocksApart
<1> QED BY <1>1, <1>2, <1>4, <1>5 DEF TxInv

LEMMA StutterTxInv ==
    ASSUME TxInv, UNCHANGED vars
    PROVE  TxInv'
<1>1. /\ db' = db /\ due' = due /\ nextEntry' = nextEntry /\ tx' = tx /\ call' = call /\ attempt' = attempt
      /\ resp' = resp /\ outcome' = outcome
  BY DEF vars
<1>2. TablesOK' /\ LocksApart'
  <2>1. \A v \in Worker : Running(v)' <=> Running(v)
    BY <1>1 DEF Running
  <2> QED BY <1>1, <2>1 DEF TxInv, TablesOK, LocksApart, Consistent
<1>3. ASSUME NEW v \in Worker PROVE WorkerOK(v)'
  <2>1. WorkerOK(v) /\ nextEntry \in Int /\ tx = [u \in Worker |-> tx[u]]
    BY DEF TxInv, TablesOK
  <2>2. Undisturbed(v)
    <3>1. nextEntry' \in Int /\ nextEntry' >= nextEntry
      BY <1>1, <2>1
    <3>2. Copies(v)' = Copies(v)
      BY <1>1, CopiesStay
    <3> QED BY <1>1, <3>1, <3>2 DEF Undisturbed
  <2>3. Running(v) => \A k \in IdemKey : Txn(k) \in DOMAIN tx[v].writes => tx[v].writes[Txn(k)].id \in Int
    BY RunningFacts
  <2>4. NamesOK(v)'
    <3>1. Drawn' = Drawn
      BY <1>1 DEF Drawn, Running
    <3> QED BY <1>1, <2>1, <3>1 DEF WorkerOK, NamesOK
  <2> QED BY <2>1, <2>2, <2>3, <2>4, WorkerStays
<1> QED BY <1>1, <1>2, <1>3 DEF TxInv

LEMMA NextTxInv ==
    ASSUME TxInv, Next
    PROVE  TxInv'
<1>1. ASSUME NEW w \in Worker, NEW c \in Call, Start(w, c) PROVE TxInv'
  BY <1>1, StartStep
<1>2. ASSUME NEW w \in Worker, Step(w) PROVE TxInv'
  <2>1. PICK result \in Result : result = "OK"
    BY DEF Result
  <2>2. CASE Commit(w, result)
    BY <2>2, CommitStep
  <2>3. CASE ~ Commit(w, result)
    BY <1>2, <2>1, <2>3, BeginStep, ReplayInv, LockBalanceInv, InsertHoldInv, LockHoldInv, BumpInv, PostInv, CloseInv,
       StoreInv, GateInv, OpenAccountInv, FindHoldInv, SelectDueInv DEF Step
  <2> QED BY <2>2, <2>3
<1>3. ASSUME NEW w \in Worker, Commit(w, "Internal") PROVE TxInv'
  BY <1>3, CommitStep DEF Result
<1>4. ASSUME NEW w \in Worker, SerializationFailure(w) PROVE TxInv'
  BY <1>4, RetryStep DEF SerializationFailure
<1>5. ASSUME NEW w \in Worker, ConnectionLost(w) PROVE TxInv'
  BY <1>5, RollbackStep DEF ConnectionLost, Result
<1>6. ASSUME NEW w \in Worker, DeadlockDetected(w) PROVE TxInv'
  <2>1. Running(w) /\ Retry(w)
    BY <1>6 DEF DeadlockDetected, Blockers
  <2> QED BY <2>1, RetryStep
<1>7. ASSUME NEW h \in HoldId, PassExpiry(h) PROVE TxInv'
  BY <1>7, ExpiryStep
<1> QED BY <1>1, <1>2, <1>3, <1>4, <1>5, <1>6, <1>7 DEF Next

\* The inductive invariant holds in every state.
LEMMA AlwaysTxInv == Spec => []TxInv
<1>1. Init => TxInv
  BY InitTxInv
<1>2. TxInv /\ [Next]_vars => TxInv'
  BY NextTxInv, StutterTxInv
<1> QED BY <1>1, <1>2, PTL DEF Spec

(***************************************************************************)
(* InTx keeps its books, for any number of calls at the same time: at      *)
(* most MaxAttempts attempts are made, no transaction is open before the   *)
(* call or after it has returned, and no row is locked by two of them.     *)
(***************************************************************************)
THEOREM TransactionsTypes == Spec => []TransactionsTypeOK
<1>1. TxInv => TransactionsTypeOK
  BY DEF TxInv, TablesOK, Consistent, LocksApart, WorkerOK, ControlOK, TransactionsTypeOK
<1> QED BY <1>1, AlwaysTxInv, PTL

-----------------------------------------------------------------------------
(* What a step does to the tables and to the answers.                      *)

\* A step of w that touches neither the tables nor another worker's answer.
Silent(w) ==
    /\ UNCHANGED <<db, outbox, due, call>>
    /\ \A v \in Worker \ {w} : outcome'[v] = outcome[v]

Harmless(w) == Silent(w) /\ outcome'[w] \in {outcome[w], "Internal"}

Refusal == {"NotFound", "InvalidArgument", "FailedPrecondition"}

LEMMA RollbackSilent ==
    ASSUME TxInv, NEW w \in Worker, NEW result, Rollback(w, result)
    PROVE  Silent(w) /\ outcome'[w] = result
<1>1. outcome = [v \in Worker |-> outcome[v]]
  BY DEF TxInv
<1> QED BY <1>1 DEF Rollback, Silent

LEMMA RetryHarmless ==
    ASSUME TxInv, NEW w \in Worker, Retry(w)
    PROVE  Harmless(w)
BY RollbackSilent DEF Retry, Harmless, Silent

LEMMA ViolationHarmless ==
    ASSUME TxInv, NEW w \in Worker, Violation(w)
    PROVE  Harmless(w)
BY RollbackSilent, RetryHarmless DEF Violation, Harmless

LEMMA ProceedHarmless ==
    ASSUME NEW w \in Worker, NEW wr, NEW ev, NEW more, Proceed(w, wr, ev, more)
    PROVE  Harmless(w)
BY DEF Proceed, Harmless, Silent

LEMMA LockBalanceSilent ==
    ASSUME TxInv, NEW w \in Worker, LockBalanceStep(w)
    PROVE  Silent(w) /\ outcome'[w] \in Refusal \cup {outcome[w], "Internal"}
<1>1. PICK c, b : c = call[w] /\ b = View(w, Bal(c.account))
  OBVIOUS
<1>2. CASE b = NoRow
  BY <1>1, <1>2, RollbackSilent DEF LockBalanceStep, Refusal
<1>3. CASE b # NoRow /\ Conflict(w)
  BY <1>1, <1>3, RetryHarmless DEF LockBalanceStep, Harmless
<1>4. CASE b # NoRow /\ ~ Conflict(w) /\ AccountCurrency(c.account) # c.currency
  BY <1>1, <1>4, RollbackSilent DEF LockBalanceStep, Refusal
<1>5. CASE b # NoRow /\ ~ Conflict(w) /\ AccountCurrency(c.account) = c.currency /\ b.available < c.amount
  BY <1>1, <1>5, RollbackSilent DEF LockBalanceStep, Refusal
<1>6. CASE b # NoRow /\ ~ Conflict(w) /\ AccountCurrency(c.account) = c.currency /\ ~ (b.available < c.amount)
  BY <1>1, <1>6, ProceedHarmless DEF LockBalanceStep, Harmless
<1> QED BY <1>2, <1>3, <1>4, <1>5, <1>6

LEMMA LockHoldSilent ==
    ASSUME TxInv, NEW w \in Worker, LockHoldStep(w)
    PROVE  Silent(w) /\ outcome'[w] \in Refusal \cup {outcome[w], "Internal"}
<1>1. PICK c, h, row : c = call[w] /\ h = Statement(w).hold /\ row = View(w, HoldKey(h))
  OBVIOUS
<1>2. CASE row = NoRow
  BY <1>1, <1>2, RollbackSilent DEF LockHoldStep, Refusal
<1>3. CASE row # NoRow /\ Conflict(w)
  BY <1>1, <1>3, RetryHarmless DEF LockHoldStep, Harmless
<1>4. CASE row # NoRow /\ ~ Conflict(w) /\ row.status # "active"
  BY <1>1, <1>4, RollbackSilent DEF LockHoldStep, Refusal
<1>5. CASE row # NoRow /\ ~ Conflict(w) /\ row.status = "active" /\ c.method = "CaptureFunds" /\ c.amount \notin 1 .. row.amount
  <2>1. Rollback(w, "InvalidArgument")
    BY <1>1, <1>5 DEF LockHoldStep
  <2> QED BY <2>1, RollbackSilent DEF Refusal
<1>6. CASE row # NoRow /\ ~ Conflict(w) /\ row.status = "active" /\ ~ (c.method = "CaptureFunds" /\ c.amount \notin 1 .. row.amount)
  <2>1. Proceed(w, <<>>, Events(c, h, row), AfterLockHold(c, h, row))
    BY <1>1, <1>6, Zenon DEF LockHoldStep
  <2> QED BY <2>1, ProceedHarmless DEF Harmless
<1> QED BY <1>2, <1>3, <1>4, <1>5, <1>6

LEMMA InsertHoldHarmless ==
    ASSUME TxInv, NEW w \in Worker, InsertHoldStep(w)
    PROVE  Harmless(w)
<1>1. ASSUME Rollback(w, "Internal") PROVE Harmless(w)
  BY <1>1, RollbackSilent DEF Harmless
<1> QED BY <1>1, ViolationHarmless, ProceedHarmless, Zenon DEF InsertHoldStep

LEMMA StepSilent ==
    ASSUME TxInv, NEW w \in Worker, Step(w), ~ Commit(w, "OK")
    PROVE  \/ Harmless(w)
           \/ /\ Silent(w) /\ outcome'[w] \in Refusal
              /\ LockBalanceStep(w) \/ LockHoldStep(w)
<1>1. ASSUME Rollback(w, "Internal") PROVE Harmless(w)
  BY <1>1, RollbackSilent DEF Harmless
<1>2. ASSUME UNCHANGED <<db, outbox, due, call, outcome>> PROVE Harmless(w)
  BY <1>2 DEF Harmless, Silent
<1>3. CASE Begin(w)
  BY <1>2, <1>3 DEF Begin
<1>4. CASE Replay(w)
  BY <1>2, <1>4, ProceedHarmless DEF Replay
<1>5. CASE LockBalanceStep(w)
  BY <1>5, LockBalanceSilent DEF Harmless
<1>6. CASE InsertHoldStep(w)
  BY <1>6, InsertHoldHarmless
<1>7. CASE LockHoldStep(w)
  BY <1>7, LockHoldSilent DEF Harmless
<1>8. CASE BumpStep(w)
  BY <1>1, <1>8, RetryHarmless, ProceedHarmless, Zenon DEF BumpStep
<1>9. CASE PostStep(w)
  BY <1>9, ViolationHarmless, ProceedHarmless DEF PostStep
<1>10. CASE CloseStep(w)
  BY <1>10, ProceedHarmless DEF CloseStep
<1>11. CASE StoreStep(w)
  <2>1. \A v \in Worker : Running(v) => outcome[v] = None
    BY DEF TxInv, WorkerOK, ControlOK
  <2>2. outcome = [v \in Worker |-> outcome[v]]
    BY DEF TxInv
  <2> QED BY <1>11, <2>1, <2>2, ProceedHarmless DEF StoreStep, StoreFails, Ready, Harmless, Silent
<1>12. CASE GateStep(w)
  BY <1>12, RetryHarmless, ProceedHarmless, Zenon DEF GateStep
<1>13. CASE OpenAccountStep(w)
  BY <1>13, ProceedHarmless DEF OpenAccountStep
<1>14. CASE FindHoldStep(w)
  BY <1>14, ProceedHarmless DEF FindHoldStep
<1>15. CASE SelectDueStep(w)
  BY <1>1, <1>2, <1>15 DEF SelectDueStep
<1> QED BY <1>3, <1>4, <1>5, <1>6, <1>7, <1>8, <1>9, <1>10, <1>11, <1>12, <1>13, <1>14, <1>15 DEF Step

\* The tables change when a transaction commits and when the clock moves on.
LEMMA NextKinds ==
    ASSUME TxInv, [Next]_vars
    PROVE  \/ \E w \in Worker, result \in {"OK", "Internal"} : Commit(w, result)
           \/ \E h \in HoldId : PassExpiry(h)
           \/ \E w \in Worker : Harmless(w)
           \/ \E w \in Worker : /\ Silent(w) /\ outcome'[w] \in Refusal
                                /\ LockBalanceStep(w) \/ LockHoldStep(w)
           \/ \E w \in Worker, c \in Call : Start(w, c)
           \/ UNCHANGED vars
<1>1. ASSUME NEW w \in Worker, SerializationFailure(w) PROVE Harmless(w)
  BY <1>1, RetryHarmless DEF SerializationFailure
<1>2. ASSUME NEW w \in Worker, ConnectionLost(w) PROVE Harmless(w)
  BY <1>2, RollbackSilent DEF ConnectionLost, Harmless
<1>3. ASSUME NEW w \in Worker, DeadlockDetected(w) PROVE Harmless(w)
  BY <1>3, RetryHarmless DEF DeadlockDetected
<1> QED BY <1>1, <1>2, <1>3, StepSilent DEF Next

-----------------------------------------------------------------------------
(* Errors are definite. *)

\* A request that another copy has overtaken finds the row it names changed.
LEMMA OvertakenConflict ==
    ASSUME TxInv, NEW w \in Worker, Running(w), NEW c, c = call[w], NEW x, x = Progress(w), c \in Call, Missed(c, x),
           \A v \in Copies(w) : call[v] = call[w], db[Req(c.request)] # NoRow,
           NEW row, Names(c) = {row}, Statement(w).rows = {row}
    PROVE  View(w, row) # NoRow /\ Conflict(w)
<1>1. OlderOK(w) /\ ReplayOK(w)
  BY DEF TxInv, WorkerOK
<1>2. c.method \in Rpc /\ x.locked = tx[w].locked /\ x.writes = tx[w].writes /\ x.locked = {} /\ DOMAIN x.writes = {}
  BY ProgressFacts DEF Missed, Untouched
<1>3. Req(c.request) \in DOMAIN tx[w].older
  BY <1>1, <1>2 DEF ReplayOK
<1>4. row \in DOMAIN tx[w].older
  BY <1>1, <1>2, <1>3 DEF ReplayOK
<1>5. tx[w].older[row] # NoRow
  BY <1>1, <1>4 DEF OlderOK
<1>6. View(w, row) = tx[w].older[row]
  BY <1>2, <1>4 DEF View, Snapshot
<1>7. Conflict(w)
  BY <1>2, <1>4 DEF Conflict
<1> QED BY <1>5, <1>6, <1>7

\* What DefiniteErrors says of a step.
Definite == \A w \in Worker :
    /\ outcome[w] = None /\ outcome'[w] \in Refusal
    /\ "request" \in DOMAIN call[w]
    /\ \A v \in Copies(w) : call[v] = call[w]
    => db[Req(call[w].request)] = NoRow

LEMMA RefusalDefinite ==
    ASSUME TxInv, NEW w \in Worker, outcome[w] = None, outcome'[w] \in Refusal,
           LockBalanceStep(w) \/ LockHoldStep(w),
           "request" \in DOMAIN call[w], \A v \in Copies(w) : call[v] = call[w]
    PROVE  db[Req(call[w].request)] = NoRow
<1>1. PICK c, x : c = call[w] /\ x = Progress(w)
  OBVIOUS
<1>2. SUFFICES ASSUME db[Req(c.request)] # NoRow PROVE FALSE
  BY <1>1
<1>3. ~ Retry(w)
  <2>1. None \notin Refusal /\ "Internal" \notin Refusal
    BY TransactionsAssumption DEF Result, Refusal
  <2> QED BY <2>1, RetryHarmless DEF Harmless
<1>4. CASE LockBalanceStep(w)
  <2>1. PICK op : op = "lockBalance"
    OBVIOUS
  <2>2. Ready(w, op)
    BY <1>4, <2>1 DEF LockBalanceStep
  <2>3. Running(w) /\ OpIs(x, op) /\ Statement(w) = Head(x.todo) /\ c \in Call /\ Stage(c, x)
    BY <1>1, <2>2, ReadyFacts
  <2>4. c.method = "HoldFunds" /\ Missed(c, x)
    BY <2>1, <2>3, StageOf
  <2>5. PICK row : row = Bal(c.account)
    OBVIOUS
  <2>6. Statement(w).rows = {row}
    BY <2>3, <2>4, <2>5, MissedNext, StatementFacts DEF At
  <2>7. Names(c) = {row}
    BY <2>4, <2>5 DEF Names
  <2>8. View(w, row) # NoRow /\ Conflict(w)
    BY <1>1, <1>2, <2>3, <2>4, <2>6, <2>7, OvertakenConflict
  <2> QED BY <1>1, <1>3, <1>4, <2>5, <2>8 DEF LockBalanceStep
<1>5. CASE LockHoldStep(w)
  <2>1. PICK op : op = "lockHold"
    OBVIOUS
  <2>2. Ready(w, op)
    BY <1>5, <2>1 DEF LockHoldStep
  <2>3. Running(w) /\ OpIs(x, op) /\ Statement(w) = Head(x.todo) /\ c \in Call /\ Stage(c, x)
    BY <1>1, <2>2, ReadyFacts
  <2>4. c.method \in Rpc
    BY <1>1, <2>3, CallFacts
  <2>5. c.method \in {"CaptureFunds", "ReleaseFunds"} /\ Missed(c, x)
    BY <2>1, <2>3, <2>4, StageOf DEF Rpc, FailedGated
  <2>6. PICK row : row = HoldKey(c.hold)
    OBVIOUS
  <2>7. Statement(w).rows = {row} /\ Statement(w).hold = c.hold
    BY <2>3, <2>5, <2>6, MissedNext, StatementFacts DEF At
  <2>8. Names(c) = {row}
    BY <2>5, <2>6 DEF Names
  <2>9. View(w, row) # NoRow /\ Conflict(w)
    BY <1>1, <1>2, <2>3, <2>5, <2>7, <2>8, OvertakenConflict
  <2> QED BY <1>3, <1>5, <2>6, <2>7, <2>9 DEF LockHoldStep
<1> QED BY <1>4, <1>5

LEMMA NextDefinite ==
    ASSUME TxInv, [Next]_vars
    PROVE  Definite
<1> SUFFICES ASSUME NEW w \in Worker, outcome[w] = None, outcome'[w] \in Refusal,
                    "request" \in DOMAIN call[w], \A v \in Copies(w) : call[v] = call[w]
             PROVE  db[Req(call[w].request)] = NoRow
  BY DEF Definite
<1>1. None \notin Refusal /\ "Internal" \notin Refusal /\ "OK" \notin Refusal
  BY TransactionsAssumption DEF Result, Refusal
<1>2. ASSUME NEW v \in Worker, NEW result \in {"OK", "Internal"}, Commit(v, result) PROVE FALSE
  <2>1. outcome = [u \in Worker |-> outcome[u]]
    BY DEF TxInv
  <2> QED BY <1>1, <1>2, <2>1 DEF Commit
<1>3. ASSUME NEW h \in HoldId, PassExpiry(h) PROVE FALSE
  BY <1>1, <1>3 DEF PassExpiry
<1>4. ASSUME NEW v \in Worker, Harmless(v) PROVE FALSE
  BY <1>1, <1>4 DEF Harmless, Silent
<1>5. ASSUME NEW v \in Worker, Silent(v), LockBalanceStep(v) \/ LockHoldStep(v)
      PROVE  db[Req(call[w].request)] = NoRow
  <2>1. v = w
    BY <1>1, <1>5 DEF Silent
  <2> QED BY <1>5, <2>1, RefusalDefinite
<1>6. ASSUME NEW v \in Worker, NEW c \in Call, Start(v, c) PROVE FALSE
  BY <1>1, <1>6 DEF Start
<1>7. ASSUME UNCHANGED vars PROVE FALSE
  BY <1>1, <1>7 DEF vars
<1> QED BY <1>2, <1>3, <1>4, <1>5, <1>6, <1>7, NextKinds

(***************************************************************************)
(* NotFound, InvalidArgument and FailedPrecondition are definite, for any  *)
(* number of copies of the request: when a caller gets one, no copy has    *)
(* committed its effect.                                                   *)
(***************************************************************************)
THEOREM ErrorsAreDefinite == Spec => DefiniteErrors
<1>1. TxInv /\ [Next]_vars => [Definite]_vars
  BY NextDefinite
<1> QED BY <1>1, AlwaysTxInv, PTL DEF Spec, DefiniteErrors, Definite, Refusal

-----------------------------------------------------------------------------
(* Entries become visible in the order of their ids. *)

Ordered == \A j, k \in IdemKey :
    LET accountsOf(p) == {p.posting.debit, p.posting.credit} IN
    /\ db[Txn(j)] # NoRow /\ db[Txn(k)] = NoRow /\ db'[Txn(k)] # NoRow
    /\ accountsOf(db[Txn(j)]) \cap accountsOf(db'[Txn(k)]) # {}
    => db[Txn(j)].id < db'[Txn(k)].id

LEMMA NextOrdered ==
    ASSUME TxInv, [Next]_vars
    PROVE  Ordered
<1> SUFFICES ASSUME NEW j \in IdemKey, NEW k \in IdemKey, db[Txn(j)] # NoRow, db[Txn(k)] = NoRow, db'[Txn(k)] # NoRow,
                    AccountsOf(db[Txn(j)]) \cap AccountsOf(db'[Txn(k)]) # {}
             PROVE  db[Txn(j)].id < db'[Txn(k)].id
  BY DEF Ordered, AccountsOf
<1>1. ASSUME NEW w \in Worker, NEW result \in {"OK", "Internal"}, Commit(w, result)
      PROVE  db[Txn(j)].id < db'[Txn(k)].id
  <2>1. PICK c, x : c = call[w] /\ x = Progress(w)
    OBVIOUS
  <2>2. /\ c \in Call /\ Complete(c, x) /\ LocksKnown(x) /\ Applied(x, db, db') /\ x.writes = tx[w].writes
    BY <1>1, <2>1, CommitFacts
  <2>3. Txn(k) \in Row
    BY RowFacts
  <2>4. Txn(k) \in DOMAIN x.writes /\ db'[Txn(k)] = x.writes[Txn(k)]
    BY <2>2, <2>3 DEF Applied
  <2>5. /\ x.writes[Txn(k)] \in TxnRow
        /\ \A a \in AccountsOf(x.writes[Txn(k)]) : Bal(a) \in DOMAIN x.writes
    BY <2>2, <2>4 DEF Complete, EntriesWritten
  <2>6. PICK a : a \in AccountsOf(db[Txn(j)]) /\ a \in AccountsOf(x.writes[Txn(k)])
    BY <2>4
  <2>7. a \in AccountId
    BY <2>5, <2>6 DEF TxnRow, Posting, AccountsOf
  <2>8. Bal(a) \in x.locked /\ x.locked = tx[w].locked
    BY <2>1, <2>2, <2>5, <2>6, ProgressFacts DEF LocksKnown
  <2>9. Running(w) /\ OlderOK(w) /\ EntriesOK(w)
    BY <1>1 DEF Commit, TxInv, WorkerOK
  <2>10. Bal(a) \notin DOMAIN tx[w].older
    BY <2>7, <2>8, <2>9 DEF OlderOK
  <2> QED BY <2>2, <2>4, <2>6, <2>7, <2>9, <2>10 DEF EntriesOK
<1>2. ASSUME db' = db PROVE FALSE
  BY <1>2
<1> QED BY <1>1, <1>2, NextKinds DEF PassExpiry, Harmless, Silent, Start, vars

(***************************************************************************)
(* Two entries of one account become visible in the order of their ids,    *)
(* whatever the interleaving: an id is drawn before the balance is locked, *)
(* but a transaction overtaken on the balance does not commit.             *)
(***************************************************************************)
THEOREM EntriesAreOrdered == Spec => EntriesInOrder
<1>1. TxInv /\ [Next]_vars => [Ordered]_vars
  BY NextOrdered
<1> QED BY <1>1, AlwaysTxInv, PTL DEF Spec, EntriesInOrder, Ordered

-----------------------------------------------------------------------------
(* OK means what it says. *)

\* What a transaction that can commit has come to, by the method of its call.
LEMMA LastStage ==
    ASSUME NEW c \in Call, NEW x, Stage(c, x), x.todo = <<>>
    PROVE  /\ c.method = "HoldFunds" => Hit(c, x) \/ \E h \in HoldId : HoldStored(c, x, h)
           /\ c.method = "CaptureFunds" => Hit(c, x) \/ (HoldKey(c.hold) \in x.locked /\ CaptureStored(c, x))
           /\ c.method = "ReleaseFunds" => Hit(c, x) \/ \E h \in HoldId : ReleaseStored(c, x, h)
           /\ c.method = "Sweep" => \E D \in SUBSET HoldId : ReleaseDone(c, x, D)
           /\ c.method = "PaymentFailed" =>
                Processed(c, x) \/ FailedGated(c, x) \/ \E D \in SUBSET HoldId : ReleaseDone(c, x, D)
           /\ c.method = "UserRegistered" =>
                \/ Processed(c, x)
                \/ \E a \in UserAccount : (c.seed <= 0 /\ RegisterOpened(c, x, a)) \/ RegisterCredited(c, x, a)
<1>1. \A op : ~ OpIs(x, op)
  BY DEF OpIs
<1>2. ~ Begun(c, x) /\ ~ Missed(c, x)
  BY <1>1, FirstOps
<1>3. HoldStage(c, x) => c.method = "HoldFunds" /\ \E h \in HoldId : HoldStored(c, x, h)
  BY <1>1, HoldOps DEF HoldStage
<1>4. CaptureStage(c, x) => c.method = "CaptureFunds" /\ HoldKey(c.hold) \in x.locked /\ CaptureStored(c, x)
  BY <1>1, CaptureOps DEF CaptureStage
<1>5. RegisterStage(c, x) =>
            /\ c.method = "UserRegistered"
            /\ \E a \in UserAccount : (c.seed <= 0 /\ RegisterOpened(c, x, a)) \/ RegisterCredited(c, x, a)
  <2>1. c.method = "UserRegistered" => c.seed \in Int
    BY CallFacts
  <2>2. \A a \in UserAccount : RegisterOpened(c, x, a) => ~ (c.seed > 0)
    BY <1>1, RegisterOps
  <2>3. \A a \in UserAccount : ~ RegisterPosted(c, x, a) /\ ~ RegisterDebited(c, x, a)
    BY <1>1, RegisterOps
  <2>4. ~ RegisterGated(c, x)
    BY <1>1, RegisterOps
  <2>5. ASSUME RegisterStage(c, x) PROVE c.method = "UserRegistered"
    BY <2>5 DEF RegisterStage
  <2>6. ASSUME RegisterStage(c, x)
        PROVE  \E a \in UserAccount : (c.seed <= 0 /\ RegisterOpened(c, x, a)) \/ RegisterCredited(c, x, a)
    <3>1. PICK a \in UserAccount : RegisterOpened(c, x, a) \/ RegisterCredited(c, x, a)
      BY <2>3, <2>4, <2>6, Zenon DEF RegisterStage
    <3>2. ASSUME RegisterOpened(c, x, a) PROVE c.seed <= 0
      BY <2>1, <2>2, <2>5, <2>6, <3>2
    <3> QED BY <3>1, <3>2
  <2> QED BY <2>5, <2>6
<1>6. ReleaseStage(c, x) => \/ \E D \in SUBSET HoldId : ReleaseDone(c, x, D)
                            \/ \E h \in HoldId : ReleaseStored(c, x, h)
  BY <1>1, ReleaseOps DEF ReleaseStage
<1>7. \A D \in SUBSET HoldId : ReleaseDone(c, x, D) => c.method \in {"PaymentFailed", "Sweep"}
  <2>1. ASSUME NEW D \in SUBSET HoldId, ReleaseDone(c, x, D) PROVE c.method \in {"PaymentFailed", "Sweep"}
    BY <2>1, DoneNext DEF Releases, At
  <2> QED BY <2>1
<1>8. \A h \in HoldId : ReleaseStored(c, x, h) => c.method = "ReleaseFunds"
  BY DEF ReleaseStored
<1>9. /\ Hit(c, x) => c.method \in Rpc
      /\ Processed(c, x) => c.method \in {"UserRegistered", "PaymentFailed"}
      /\ FailedGated(c, x) => c.method = "PaymentFailed"
  BY DEF Hit, Processed, IsEvent, FailedGated
<1>10. Hit(c, x) \/ HoldStage(c, x) \/ CaptureStage(c, x) \/ Processed(c, x) \/ RegisterStage(c, x)
       \/ FailedGated(c, x) \/ ReleaseStage(c, x)
  BY <1>2 DEF Stage
<1> QED BY <1>3, <1>4, <1>5, <1>6, <1>7, <1>8, <1>9, <1>10 DEF Rpc

\* The answer of a request that has had its effect is the one it has stored.
LEMMA StoredTrue ==
    ASSUME NEW c, NEW x, NEW answer, Stored(c, x, answer), answer.method = c.method,
           Req(c.request) \in DOMAIN x.writes, NEW rows, NEW new, Applied(x, rows, new), answer # NoRow
    PROVE  new[Req(c.request)] # NoRow /\ x.resp = Decode(new[Req(c.request)], c.method)
BY DEF Stored, Applied, Decode

LEMMA SweepTrue ==
    ASSUME NEW c \in Call, c.method = "Sweep", NEW x, NEW D \in SUBSET HoldId, ReleaseDone(c, x, D),
           NEW rows, NEW new, Applied(x, rows, new)
    PROVE  x.resp.released = Cardinality({h \in HoldId : new[HoldKey(h)] # rows[HoldKey(h)]})
<1>1. x.resp = [released |-> Cardinality(D)]
  BY DEF ReleaseDone, Pending
<1>2. DOMAIN x.writes = ReleaseRows(c, x, D, D)
  BY DEF ReleaseDone
<1>3. ASSUME NEW h \in HoldId PROVE new[HoldKey(h)] # rows[HoldKey(h)] <=> h \in D
  <2>1. HoldKey(h) \in DOMAIN x.writes <=> h \in D
    BY <1>2, ReleaseRowKinds
  <2>2. HoldKey(h) \in Row
    BY RowFacts
  <2>3. ASSUME h \in D PROVE new[HoldKey(h)] # rows[HoldKey(h)]
    <3>1. PICK row : row = x.base[HoldKey(h)]
      OBVIOUS
    <3>2. row \in HoldRow /\ row.status = "active" /\ new[HoldKey(h)] = [row EXCEPT !.status = StatusOf(c)]
          /\ rows[HoldKey(h)] = row
      BY <2>1, <2>3, <3>1 DEF ReleaseDone, Targets, Locked, Effects, Closed, Settled, Applied
    <3>3. StatusOf(c) # "active"
      BY DEF StatusOf
    <3>4. [row EXCEPT !.status = StatusOf(c)].status = StatusOf(c)
      BY <3>2 DEF HoldRow
    <3> QED BY <3>2, <3>3, <3>4
  <2> QED BY <2>1, <2>2, <2>3 DEF Applied
<1>4. {h \in HoldId : new[HoldKey(h)] # rows[HoldKey(h)]} = D
  BY <1>3
<1> QED BY <1>1, <1>4

\* What AnswersAreTrue says of the answer of one call.
TrueAnswer(c, answer, rows, new) ==
    /\ c.method \in {"HoldFunds", "CaptureFunds", "ReleaseFunds"} =>
        /\ new[Req(c.request)] # NoRow
        /\ answer = Decode(new[Req(c.request)], c.method)
    /\ c.method = "HoldFunds" /\ rows[Req(c.request)] = NoRow =>
        answer.availableAfter = new[Bal(c.account)].available
    /\ c.method = "Sweep" =>
        answer.released = Cardinality({h \in HoldId : new[HoldKey(h)] # rows[HoldKey(h)]})

LEMMA CommitTrue ==
    ASSUME TxInv, NEW w \in Worker, NEW result, Commit(w, result), NEW c, c = call[w]
    PROVE  TrueAnswer(c, resp[w], db, db')
<1>1. PICK x : x = Progress(w)
  OBVIOUS
<1>2. c \in Call /\ Stage(c, x) /\ x.todo = <<>> /\ Applied(x, db, db') /\ x.writes = tx[w].writes /\ x.resp = resp[w]
  BY <1>1, CommitFacts
<1>3. CASE Hit(c, x)
  <2>1. c.method \in Rpc /\ DOMAIN x.writes = {} /\ c.request \in RequestId
    BY <1>2, <1>3, CallFacts DEF Hit, Untouched, Rpc
  <2>2. Running(w) /\ ReplayOK(w)
    BY DEF Commit, TxInv, WorkerOK
  <2>3. db[Req(c.request)] # NoRow /\ resp[w] = Decode(db[Req(c.request)], c.method)
    BY <1>1, <1>3, <2>1, <2>2 DEF ReplayOK
  <2>4. db'[Req(c.request)] = db[Req(c.request)]
    BY <1>2, <2>1, RowFacts DEF Applied
  <2> QED BY <2>1, <2>3, <2>4 DEF TrueAnswer, Rpc
<1>4. ASSUME c.method = "HoldFunds", NEW h \in HoldId, HoldStored(c, x, h) PROVE TrueAnswer(c, resp[w], db, db')
  <2>1. PICK answer : answer = HoldAnswer(c, x, h)
    OBVIOUS
  <2>2. /\ answer.method = c.method /\ answer.hold = h
        /\ answer.availableAfter = x.base[Bal(c.account)].available - c.amount
    BY <2>1 DEF HoldAnswer
  <2>3. Stored(c, x, answer) /\ Req(c.request) \in DOMAIN x.writes /\ Bal(c.account) \in DOMAIN x.writes /\ Reserves(c, x)
        /\ x.base[Bal(c.account)] \in BalanceRow
    BY <1>4, <2>1 DEF HoldStored, Inserted, Affordable
  <2>4. answer # NoRow
    <3>1. c.request \in RequestId
      BY <1>2, <1>4, CallFacts
    <3>2. RequestsWritten(c, x) /\ x.writes[Req(c.request)] = answer
      BY <1>2, <2>3, StageComplete DEF Complete, Stored
    <3> QED BY <2>3, <3>1, <3>2, NoRowFacts DEF RequestsWritten
  <2>5. db'[Req(c.request)] # NoRow /\ resp[w] = Decode(db'[Req(c.request)], c.method) /\ resp[w] = answer
    BY <1>2, <2>2, <2>3, <2>4, StoredTrue DEF Stored
  <2>6. db'[Bal(c.account)] = Bumped(x.base[Bal(c.account)], -c.amount, c.amount)
    BY <1>2, <2>3 DEF Applied, Reserves
  <2>7. db'[Bal(c.account)].available = x.base[Bal(c.account)].available + (-c.amount)
    BY <2>6 DEF Bumped
  <2>8. c.amount \in Int /\ x.base[Bal(c.account)].available \in Int
    BY <1>2, <1>4, <2>3, CallFacts, ConstantsAssumption DEF BalanceRow
  <2>9. answer.availableAfter = db'[Bal(c.account)].available
    BY <2>2, <2>7, <2>8
  <2> QED BY <1>4, <2>5, <2>9 DEF TrueAnswer
<1>5. ASSUME c.method = "CaptureFunds", CaptureStored(c, x) PROVE TrueAnswer(c, resp[w], db, db')
  <2>1. PICK answer : answer = CaptureAnswer(c)
    OBVIOUS
  <2>2. answer.method = c.method
    BY <2>1 DEF CaptureAnswer
  <2>3. Stored(c, x, answer) /\ Req(c.request) \in DOMAIN x.writes
    BY <1>5, <2>1 DEF CaptureStored
  <2>4. answer # NoRow
    <3>1. c.request \in RequestId
      BY <1>2, <1>5, CallFacts
    <3>2. RequestsWritten(c, x) /\ x.writes[Req(c.request)] = answer
      BY <1>2, <2>3, StageComplete DEF Complete, Stored
    <3> QED BY <2>3, <3>1, <3>2, NoRowFacts DEF RequestsWritten
  <2>5. db'[Req(c.request)] # NoRow /\ resp[w] = Decode(db'[Req(c.request)], c.method)
    BY <1>2, <2>2, <2>3, <2>4, StoredTrue
  <2> QED BY <1>5, <2>5 DEF TrueAnswer
<1>6. ASSUME c.method = "ReleaseFunds", NEW h \in HoldId, ReleaseStored(c, x, h) PROVE TrueAnswer(c, resp[w], db, db')
  <2>1. PICK answer : answer = [method |-> c.method]
    OBVIOUS
  <2>2. answer.method = c.method
    BY <2>1
  <2>3. Stored(c, x, answer) /\ Req(c.request) \in DOMAIN x.writes
    BY <1>6, <2>1 DEF ReleaseStored
  <2>4. answer # NoRow
    <3>1. c.request \in RequestId
      BY <1>2, <1>6, CallFacts
    <3>2. RequestsWritten(c, x) /\ x.writes[Req(c.request)] = answer
      BY <1>2, <2>3, StageComplete DEF Complete, Stored
    <3> QED BY <2>3, <3>1, <3>2, NoRowFacts DEF RequestsWritten
  <2>5. db'[Req(c.request)] # NoRow /\ resp[w] = Decode(db'[Req(c.request)], c.method)
    BY <1>2, <2>2, <2>3, <2>4, StoredTrue
  <2> QED BY <1>6, <2>5 DEF TrueAnswer
<1>7. ASSUME c.method = "Sweep" PROVE TrueAnswer(c, resp[w], db, db')
  <2>1. PICK D \in SUBSET HoldId : ReleaseDone(c, x, D)
    BY <1>2, <1>7, LastStage
  <2>2. resp[w].released = Cardinality({h \in HoldId : db'[HoldKey(h)] # db[HoldKey(h)]})
    BY <1>2, <1>7, <2>1, SweepTrue
  <2> QED BY <1>7, <2>2 DEF TrueAnswer
<1>8. CASE c.method \notin {"HoldFunds", "CaptureFunds", "ReleaseFunds", "Sweep"}
  BY <1>8 DEF TrueAnswer
<1> QED BY <1>2, <1>3, <1>4, <1>5, <1>6, <1>7, <1>8, LastStage

\* What AnswersAreTrue says of a step.
Truthful == \A w \in Worker :
    outcome[w] = None /\ outcome'[w] = "OK" =>
        LET c == call[w] IN
        /\ c.method \in {"HoldFunds", "CaptureFunds", "ReleaseFunds"} =>
            /\ db'[Req(c.request)] # NoRow
            /\ resp'[w] = Decode(db'[Req(c.request)], c.method)
        /\ c.method = "HoldFunds" /\ db[Req(c.request)] = NoRow =>
            resp'[w].availableAfter = db'[Bal(c.account)].available
        /\ c.method = "Sweep" =>
            resp'[w].released = Cardinality({h \in HoldId : db'[HoldKey(h)] # db[HoldKey(h)]})

LEMMA NextTruthful ==
    ASSUME TxInv, [Next]_vars
    PROVE  Truthful
<1>1. SUFFICES ASSUME NEW w \in Worker, outcome[w] = None, outcome'[w] = "OK", NEW c, c = call[w]
               PROVE  TrueAnswer(c, resp'[w], db, db')
  BY DEF Truthful, TrueAnswer
<1>2. None # "OK" /\ "Internal" # "OK" /\ "OK" \notin Refusal
  BY TransactionsAssumption DEF Result, Refusal
<1>3. ASSUME NEW v \in Worker, NEW result \in {"OK", "Internal"}, Commit(v, result)
      PROVE  TrueAnswer(c, resp'[w], db, db')
  <2>1. outcome = [u \in Worker |-> outcome[u]]
    BY DEF TxInv
  <2>2. v = w /\ resp' = resp
    BY <1>1, <1>2, <1>3, <2>1 DEF Commit
  <2>3. TrueAnswer(c, resp[w], db, db')
    BY <1>1, <1>3, <2>2, CommitTrue
  <2> QED BY <2>2, <2>3
<1>4. ASSUME NEW h \in HoldId, PassExpiry(h) PROVE FALSE
  BY <1>1, <1>2, <1>4 DEF PassExpiry
<1>5. ASSUME NEW v \in Worker, Harmless(v) PROVE FALSE
  BY <1>1, <1>2, <1>5 DEF Harmless, Silent
<1>6. ASSUME NEW v \in Worker, Silent(v), outcome'[v] \in Refusal PROVE FALSE
  BY <1>1, <1>2, <1>6 DEF Silent
<1>7. ASSUME NEW v \in Worker, NEW d \in Call, Start(v, d) PROVE FALSE
  BY <1>1, <1>2, <1>7 DEF Start
<1>8. ASSUME UNCHANGED vars PROVE FALSE
  BY <1>1, <1>2, <1>8 DEF vars
<1> QED BY <1>3, <1>4, <1>5, <1>6, <1>7, <1>8, NextKinds

(***************************************************************************)
(* A call that returns OK has told the truth, after any number of attempts *)
(* and beside any number of copies of it.                                  *)
(***************************************************************************)
THEOREM AnswersStayTrue == Spec => AnswersAreTrue
<1>1. TxInv /\ [Next]_vars => [Truthful]_vars
  BY NextTruthful
<1> QED BY <1>1, AlwaysTxInv, PTL DEF Spec, AnswersAreTrue, Truthful

-----------------------------------------------------------------------------
(* An event opens one account. *)

\* The accounts that were opened, the events of registrations that workers were
\* called for, and the ones among them that were processed.
Opened(rows) == {a \in UserAccount : Bal(a) \notin DOMAIN Earlier /\ rows[Bal(a)] # NoRow}
Registrations(calls) == {v \in Worker : calls[v] # None /\ calls[v].method = "UserRegistered"}
Handled(calls) == {calls[v].event : v \in Registrations(calls)}
Counted(rows, calls) == {e \in Handled(calls) : Ev(e) \notin DOMAIN Earlier /\ rows[Ev(e)] # NoRow}

\* What earlier transactions have left stays, an event that was processed since
\* is that of a worker's call, and an account was opened for each.
EventsIn(rows, calls) ==
    /\ \A a \in AccountId : Bal(a) \in DOMAIN Earlier => rows[Bal(a)] # NoRow
    /\ \A e \in EventId : Ev(e) \in DOMAIN Earlier => rows[Ev(e)] # NoRow
    /\ \A e \in EventId : rows[Ev(e)] # NoRow /\ Ev(e) \notin DOMAIN Earlier =>
            \E v \in Worker : calls[v] \in Call /\ IsEvent(calls[v]) /\ calls[v].event = e
    /\ Cardinality(Opened(rows)) = Cardinality(Counted(rows, calls))

LEMMA OnceEquals == RegistrationsOnce <=> Cardinality(Opened(db)) = Cardinality(Counted(db, call))
BY DEF RegistrationsOnce, Opened, Counted, Handled, Registrations

LEMMA CountsFinite ==
    ASSUME NEW rows, NEW calls
    PROVE  IsFiniteSet(Opened(rows)) /\ IsFiniteSet(Counted(rows, calls))
<1>1. IsFiniteSet(Opened(rows))
  BY ConstantsAssumption, FS_Subset DEF Opened
<1>2. PICK S : S = Registrations(calls)
  OBVIOUS
<1>3. IsFiniteSet(S)
  BY <1>2, TransactionsAssumption, FS_Subset DEF Registrations
<1>4. PICK f : f = [v \in S |-> calls[v].event]
  OBVIOUS
<1>5. PICK T : T = Handled(calls)
  OBVIOUS
<1>6. f \in Surjection(S, T)
  BY <1>2, <1>4, <1>5 DEF Surjection, Handled
<1>7. IsFiniteSet(T)
  BY <1>3, <1>6, FS_Surjection
<1>8. IsFiniteSet(Counted(rows, calls))
  BY <1>5, <1>7, FS_Subset DEF Counted
<1> QED BY <1>1, <1>8

\* Every transaction but a registration updates balances that are there.
UpdatesBalances(x) == \A a \in AccountId : Bal(a) \in DOMAIN x.writes => x.base[Bal(a)] \in BalanceRow

LEMMA UpdatesOnly ==
    ASSUME NEW c \in Call, NEW x, Stage(c, x), x.todo = <<>>, c.method # "UserRegistered"
    PROVE  UpdatesBalances(x)
<1>1. CASE DOMAIN x.writes = {} \/ DOMAIN x.writes = {Ev(c.event)}
  BY <1>1, KeyKinds DEF UpdatesBalances
<1>2. ASSUME NEW h \in HoldId, HoldStored(c, x, h) PROVE UpdatesBalances(x)
  <2>1. DOMAIN x.writes = {Pay(c.payment), HoldKey(h), Bal(c.account), Req(c.request)}
    BY <1>2 DEF HoldStored, HoldRows
  <2> QED BY <1>2, <2>1, KeyKinds DEF HoldStored, Inserted, Affordable, UpdatesBalances
<1>3. ASSUME CaptureStored(c, x) PROVE UpdatesBalances(x)
  <2>1. PICK u, v : u = CaptureRow(c, x).account /\ v = Payable(CaptureRow(c, x).currency)
    OBVIOUS
  <2>2. Payer(c, x) = Bal(u) /\ Payee(c, x) = Bal(v)
    BY <2>1 DEF Payer, Payee
  <2>3. DOMAIN x.writes = {Txn(CaptureKey(c.hold)), Bal(u), Bal(v), HoldKey(c.hold),
                           Pay(CaptureRow(c, x).payment), Req(c.request)}
    BY <1>3, <2>2 DEF CaptureStored, CaptureRows
  <2>4. x.base[Bal(u)] \in BalanceRow /\ x.base[Bal(v)] \in BalanceRow
    BY <1>3, <2>2 DEF CaptureStored, Transferred
  <2>5. ASSUME NEW a \in AccountId, Bal(a) \in DOMAIN x.writes PROVE a = u \/ a = v
    BY <2>3, <2>5, KeyKinds
  <2> QED BY <2>4, <2>5 DEF UpdatesBalances
<1>4. ASSUME NEW D, BalancesFreed(x, D), DOMAIN x.writes \subseteq ReleaseRows(c, x, D, D) \cup {Req(c.request)}
      PROVE  UpdatesBalances(x)
  <2>1. ASSUME NEW a \in AccountId, Bal(a) \in DOMAIN x.writes PROVE x.base[Bal(a)] \in BalanceRow
    <3>1. Bal(a) # Req(c.request)
      BY KeyKinds
    <3>2. Bal(a) \in BalancesOf(x, D)
      BY <1>4, <2>1, <3>1, ReleaseRowKinds
    <3> QED BY <1>4, <3>2 DEF BalancesFreed
  <2> QED BY <2>1 DEF UpdatesBalances
<1>5. ASSUME NEW D \in SUBSET HoldId, ReleaseDone(c, x, D) PROVE UpdatesBalances(x)
  BY <1>4, <1>5 DEF ReleaseDone, Effects
<1>6. ASSUME NEW h \in HoldId, ReleaseStored(c, x, h) PROVE UpdatesBalances(x)
  <2>1. PICK D : D = {h}
    OBVIOUS
  <2> QED BY <1>4, <1>6, <2>1 DEF ReleaseStored, Effects
<1>7. c.method \in {"HoldFunds", "CaptureFunds", "ReleaseFunds", "Sweep", "PaymentFailed"}
  BY CallFacts
<1>8. Hit(c, x) \/ Processed(c, x) => DOMAIN x.writes = {}
  BY DEF Hit, Processed, Untouched
<1>9. FailedGated(c, x) => DOMAIN x.writes = {Ev(c.event)}
  BY DEF FailedGated
<1> QED BY <1>1, <1>2, <1>3, <1>5, <1>6, <1>7, <1>8, <1>9, LastStage

\* What a commit does to the accounts and the events.
OpensAccount(c, rows, new, a) ==
    /\ c.method = "UserRegistered"
    /\ rows[Bal(a)] = NoRow /\ new[Bal(a)] # NoRow
    /\ rows[Ev(c.event)] = NoRow /\ new[Ev(c.event)] # NoRow
    /\ \A b \in AccountId \ {a} : rows[Bal(b)] = NoRow <=> new[Bal(b)] = NoRow
    /\ \A e \in EventId \ {c.event} : new[Ev(e)] = rows[Ev(e)]

KeepsAccounts(c, rows, new) ==
    /\ \A b \in AccountId : rows[Bal(b)] = NoRow <=> new[Bal(b)] = NoRow
    /\ \A e \in EventId : \/ new[Ev(e)] = rows[Ev(e)]
                          \/ c.method = "PaymentFailed" /\ e = c.event /\ rows[Ev(e)] = NoRow

LEMMA EventsCommitted ==
    ASSUME NEW c \in Call, NEW x, Complete(c, x), NEW rows, NEW new, Applied(x, rows, new), NEW e \in EventId
    PROVE  \/ new[Ev(e)] = rows[Ev(e)] /\ Ev(e) \notin DOMAIN x.writes
           \/ IsEvent(c) /\ e = c.event /\ rows[Ev(e)] = NoRow /\ new[Ev(e)] = "processed"
BY RowFacts DEF Complete, EventsWritten, Applied

LEMMA BalanceThere ==
    NoRow \notin BalanceRow /\ NoRow # "processed"
BY TransactionsAssumption

LEMMA AccountsKept ==
    ASSUME NEW c \in Call, NEW x, Stage(c, x), x.todo = <<>>, Complete(c, x), c.method # "UserRegistered",
           NEW rows, NEW new, Applied(x, rows, new)
    PROVE  KeepsAccounts(c, rows, new)
<1>1. ASSUME NEW b \in AccountId PROVE rows[Bal(b)] = NoRow <=> new[Bal(b)] = NoRow
  <2>1. CASE Bal(b) \in DOMAIN x.writes
    <3>1. x.base[Bal(b)] \in BalanceRow
      BY <2>1, UpdatesOnly DEF UpdatesBalances
    <3>2. x.writes[Bal(b)] \in BalanceRow
      BY <2>1 DEF Complete, BalancesWritten
    <3> QED BY <2>1, <3>1, <3>2, BalanceThere DEF Applied
  <2>2. CASE Bal(b) \notin DOMAIN x.writes
    BY <2>2, RowFacts DEF Applied
  <2> QED BY <2>1, <2>2
<1>2. IsEvent(c) => c.method = "PaymentFailed"
  BY DEF IsEvent
<1> QED BY <1>1, <1>2, EventsCommitted DEF KeepsAccounts

LEMMA ProcessedKeeps ==
    ASSUME NEW c \in Call, NEW x, DOMAIN x.writes = {}, NEW rows, NEW new, Applied(x, rows, new)
    PROVE  KeepsAccounts(c, rows, new)
BY RowFacts DEF Applied, KeepsAccounts

LEMMA AccountOpened ==
    ASSUME NEW c \in Call, c.method = "UserRegistered", NEW x, NEW a \in UserAccount, Complete(c, x),
           RegisterOpened(c, x, a) \/ RegisterCredited(c, x, a),
           NEW rows, NEW new, Consistent(rows), Applied(x, rows, new)
    PROVE  OpensAccount(c, rows, new, a)
<1>1. DOMAIN x.writes \subseteq DepositRows(c, a) /\ Bal(a) \in DOMAIN x.writes /\ Ev(c.event) \in DOMAIN x.writes
      /\ x.base[Bal(a)] = NoRow /\ x.base[Ev(c.event)] = NoRow /\ x.writes[Ev(c.event)] = "processed"
  BY DEF RegisterOpened, RegisterCredited, Opening, Gated, DepositRows
<1>2. Settlement(DefaultCurrency) \in SystemAccount /\ a \in AccountId /\ c.event \in EventId
  BY ConstantsAssumption, CallFacts DEF SystemAccount, AccountId
<1>3. x.writes[Bal(a)] \in BalanceRow
  BY <1>1, <1>2 DEF Complete, BalancesWritten
<1>4. rows[Bal(a)] = NoRow /\ new[Bal(a)] # NoRow
  BY <1>1, <1>3, BalanceThere DEF Applied
<1>5. rows[Ev(c.event)] = NoRow /\ new[Ev(c.event)] # NoRow
  BY <1>1, BalanceThere DEF Applied
<1>6. ASSUME NEW b \in AccountId \ {a} PROVE rows[Bal(b)] = NoRow <=> new[Bal(b)] = NoRow
  <2>1. CASE Bal(b) \in DOMAIN x.writes
    <3>1. b = Settlement(DefaultCurrency)
      BY <1>1, <1>6, <2>1, KeyKinds DEF DepositRows, SettlementRow
    <3>2. rows[Bal(b)] # NoRow
      BY <1>2, <3>1 DEF Consistent
    <3>3. x.writes[Bal(b)] \in BalanceRow
      BY <2>1 DEF Complete, BalancesWritten
    <3> QED BY <2>1, <3>2, <3>3, BalanceThere DEF Applied
  <2>2. CASE Bal(b) \notin DOMAIN x.writes
    BY <2>2, RowFacts DEF Applied
  <2> QED BY <2>1, <2>2
<1>7. \A e \in EventId \ {c.event} : new[Ev(e)] = rows[Ev(e)]
  BY EventsCommitted
<1> QED BY <1>4, <1>5, <1>6, <1>7 DEF OpensAccount

LEMMA CommitAccounts ==
    ASSUME NEW c \in Call, NEW x, Stage(c, x), x.todo = <<>>, Complete(c, x),
           NEW rows, NEW new, Consistent(rows), Applied(x, rows, new)
    PROVE  KeepsAccounts(c, rows, new) \/ \E a \in UserAccount : OpensAccount(c, rows, new, a)
<1>1. CASE c.method # "UserRegistered"
  BY <1>1, AccountsKept
<1>2. CASE c.method = "UserRegistered" /\ Processed(c, x)
  <2>1. DOMAIN x.writes = {}
    BY <1>2 DEF Processed, Untouched
  <2> QED BY <2>1, ProcessedKeeps
<1>3. CASE c.method = "UserRegistered" /\ ~ Processed(c, x)
  <2>1. PICK a \in UserAccount : RegisterOpened(c, x, a) \/ RegisterCredited(c, x, a)
    BY <1>3, LastStage
  <2> QED BY <1>3, <2>1, AccountOpened
<1> QED BY <1>1, <1>2, <1>3

\* An event is a registration's or a failed payment's for all workers.
LEMMA EventKinds ==
    ASSUME NEW c \in Call, NEW d \in Call, c.method = "UserRegistered", IsEvent(d), d.event = c.event
    PROVE  d.method = "UserRegistered"
BY TransactionsAssumption DEF IsEvent

LEMMA HandledEvents ==
    ASSUME NEW calls, \A v \in Worker : calls[v] \in Call \cup {None}, NEW e
    PROVE  e \in Handled(calls) <=>
                \E v \in Worker : calls[v] \in Call /\ calls[v].method = "UserRegistered" /\ calls[v].event = e
<1>1. \A v \in Worker : calls[v] # None <=> calls[v] \in Call
  BY CallFacts
<1> QED BY <1>1 DEF Handled, Registrations

LEMMA CountedEvents ==
    ASSUME NEW calls, \A v \in Worker : calls[v] \in Call \cup {None}, NEW rows
    PROVE  /\ Handled(calls) \subseteq EventId
           /\ \A e \in EventId : e \in Counted(rows, calls) <=>
                    e \in Handled(calls) /\ Ev(e) \notin DOMAIN Earlier /\ rows[Ev(e)] # NoRow
<1>1. Handled(calls) \subseteq EventId
  BY HandledEvents, CallFacts
<1> QED BY <1>1 DEF Counted

LEMMA KeptEvents ==
    ASSUME NEW calls, \A v \in Worker : calls[v] \in Call \cup {None}, NEW rows, EventsIn(rows, calls),
           NEW w \in Worker, NEW c, c = calls[w], c \in Call, NEW new, KeepsAccounts(c, rows, new),
           \A e \in EventId : rows[Ev(e)] # NoRow => new[Ev(e)] # NoRow
    PROVE  EventsIn(new, calls)
<1>1. \A a \in AccountId : Bal(a) \in DOMAIN Earlier => new[Bal(a)] # NoRow
  BY DEF EventsIn, KeepsAccounts
<1>2. \A e \in EventId : Ev(e) \in DOMAIN Earlier => new[Ev(e)] # NoRow
  BY DEF EventsIn
<1>3. ASSUME NEW e \in EventId, new[Ev(e)] # NoRow, Ev(e) \notin DOMAIN Earlier
      PROVE  \E v \in Worker : calls[v] \in Call /\ IsEvent(calls[v]) /\ calls[v].event = e
  <2>1. CASE new[Ev(e)] = rows[Ev(e)]
    BY <1>3, <2>1 DEF EventsIn
  <2>2. CASE c.method = "PaymentFailed" /\ e = c.event
    BY <2>2 DEF IsEvent
  <2> QED BY <2>1, <2>2 DEF KeepsAccounts
<1>4. Opened(new) = Opened(rows)
  <2>1. \A a \in UserAccount : new[Bal(a)] = NoRow <=> rows[Bal(a)] = NoRow
    BY DEF KeepsAccounts, AccountId
  <2> QED BY <2>1 DEF Opened
<1>5. Counted(new, calls) = Counted(rows, calls)
  <2>1. ASSUME NEW e \in Handled(calls) PROVE new[Ev(e)] = rows[Ev(e)]
    <3>1. e \in EventId
      BY CountedEvents
    <3>2. PICK v \in Worker : calls[v] \in Call /\ calls[v].method = "UserRegistered" /\ calls[v].event = e
      BY HandledEvents
    <3>3. ~ (c.method = "PaymentFailed" /\ e = c.event)
      BY <3>2, EventKinds DEF IsEvent
    <3> QED BY <3>1, <3>3 DEF KeepsAccounts
  <2> QED BY <2>1 DEF Counted
<1> QED BY <1>1, <1>2, <1>3, <1>4, <1>5 DEF EventsIn

LEMMA OpenedEvents ==
    ASSUME NEW calls, \A v \in Worker : calls[v] \in Call \cup {None}, NEW rows, EventsIn(rows, calls),
           NEW w \in Worker, NEW c, c = calls[w], c \in Call, NEW new, NEW a \in UserAccount,
           OpensAccount(c, rows, new, a)
    PROVE  EventsIn(new, calls)
<1>1. PICK e : e = c.event
  OBVIOUS
<1>2. e \in EventId /\ a \in AccountId /\ IsEvent(c) /\ c.method = "UserRegistered"
  BY <1>1, CallFacts DEF OpensAccount, AccountId, IsEvent
<1>3. Ev(e) \notin DOMAIN Earlier /\ Bal(a) \notin DOMAIN Earlier
  BY <1>1, <1>2 DEF EventsIn, OpensAccount
<1>4. \A b \in AccountId : Bal(b) \in DOMAIN Earlier => new[Bal(b)] # NoRow
  BY <1>3 DEF EventsIn, OpensAccount
<1>5. \A f \in EventId : Ev(f) \in DOMAIN Earlier => new[Ev(f)] # NoRow
  BY <1>1, <1>3 DEF EventsIn, OpensAccount
<1>6. ASSUME NEW f \in EventId, new[Ev(f)] # NoRow, Ev(f) \notin DOMAIN Earlier
      PROVE  \E v \in Worker : calls[v] \in Call /\ IsEvent(calls[v]) /\ calls[v].event = f
  <2>1. CASE f = e
    BY <1>1, <1>2, <2>1
  <2>2. CASE f # e
    <3>1. new[Ev(f)] = rows[Ev(f)]
      BY <1>1, <2>2 DEF OpensAccount
    <3> QED BY <1>6, <3>1 DEF EventsIn
  <2> QED BY <2>1, <2>2
<1>7. PICK A, B : A = Opened(rows) /\ B = Counted(rows, calls)
  OBVIOUS
<1>8. Opened(new) = A \cup {a} /\ a \notin A
  <2>1. \A b \in UserAccount \ {a} : new[Bal(b)] = NoRow <=> rows[Bal(b)] = NoRow
    BY DEF OpensAccount, AccountId
  <2>2. rows[Bal(a)] = NoRow /\ new[Bal(a)] # NoRow
    BY DEF OpensAccount
  <2> QED BY <1>3, <1>7, <2>1, <2>2 DEF Opened
<1>9. Counted(new, calls) = B \cup {e} /\ e \notin B
  <2>1. e \in Handled(calls)
    BY <1>1, <1>2, HandledEvents
  <2>2. \A f \in Handled(calls) \ {e} : new[Ev(f)] = rows[Ev(f)]
    BY <1>1, CountedEvents DEF OpensAccount
  <2>3. rows[Ev(e)] = NoRow /\ new[Ev(e)] # NoRow
    BY <1>1 DEF OpensAccount
  <2> QED BY <1>3, <1>7, <2>1, <2>2, <2>3 DEF Counted
<1>10. IsFiniteSet(A) /\ IsFiniteSet(B) /\ Cardinality(A) = Cardinality(B)
  BY <1>7, CountsFinite DEF EventsIn
<1>11. Cardinality(A \cup {a}) = Cardinality(A) + 1
  BY <1>8, <1>10, FS_AddElement
<1>12. Cardinality(B \cup {e}) = Cardinality(B) + 1
  BY <1>9, <1>10, FS_AddElement
<1>13. Cardinality(Opened(new)) = Cardinality(Counted(new, calls))
  BY <1>8, <1>9, <1>10, <1>11, <1>12
<1> QED BY <1>4, <1>5, <1>6, <1>13 DEF EventsIn

\* A call that starts names an event nobody has processed, or one that was counted.
LEMMA StartedEvents ==
    ASSUME NEW calls, \A v \in Worker : calls[v] \in Call \cup {None}, NEW rows, EventsIn(rows, calls),
           NEW w \in Worker, NEW c \in Call, calls[w] = None, NEW next,
           \A v \in Worker : next[v] = IF v = w THEN c ELSE calls[v]
    PROVE  EventsIn(rows, next)
<1>1. c # None /\ None \notin Call
  BY CallFacts
<1>2. \A v \in Worker : next[v] \in Call \cup {None}
  OBVIOUS
<1>3. \A v \in Worker : calls[v] \in Call => v # w /\ next[v] = calls[v]
  BY <1>1
<1>4. \A e \in EventId : rows[Ev(e)] # NoRow /\ Ev(e) \notin DOMAIN Earlier =>
            \E v \in Worker : next[v] \in Call /\ IsEvent(next[v]) /\ next[v].event = e
  BY <1>3 DEF EventsIn
<1>5. \A e : e \in Handled(calls) => e \in Handled(next)
  BY <1>2, <1>3, HandledEvents
<1>6. ASSUME NEW e \in Counted(rows, next) PROVE e \in Counted(rows, calls)
  <2>1. e \in EventId /\ e \in Handled(next) /\ Ev(e) \notin DOMAIN Earlier /\ rows[Ev(e)] # NoRow
    BY <1>2, CountedEvents DEF Counted
  <2>2. PICK d \in Call : d.method = "UserRegistered" /\ d.event = e
    BY <1>2, <2>1, HandledEvents
  <2>3. PICK v \in Worker : calls[v] \in Call /\ IsEvent(calls[v]) /\ calls[v].event = e
    BY <2>1 DEF EventsIn
  <2>4. calls[v].method = "UserRegistered"
    BY <2>2, <2>3, EventKinds
  <2>5. e \in Handled(calls)
    BY <2>3, <2>4, HandledEvents
  <2> QED BY <2>1, <2>5 DEF Counted
<1>7. Counted(rows, next) = Counted(rows, calls)
  BY <1>5, <1>6 DEF Counted
<1> QED BY <1>4, <1>7 DEF EventsIn

LEMMA InitEvents ==
    ASSUME Init
    PROVE  EventsIn(db, call)
<1>1. db = Over(Earlier, Migrated) /\ call = [v \in Worker |-> None]
  BY DEF Init
<1>2. \A row \in DOMAIN Earlier : Earlier[row] # NoRow
  BY TransactionsAssumption
<1>3. \A row \in DOMAIN Earlier : db[row] # NoRow
  BY <1>1, <1>2 DEF Over
<1>4. \A row \in Row \ DOMAIN Earlier : db[row] = Migrated[row]
  BY <1>1 DEF Over, Migrated
<1>5. ASSUME NEW a \in UserAccount, Bal(a) \notin DOMAIN Earlier PROVE db[Bal(a)] = NoRow
  <2>1. Bal(a) \in Row
    BY RowFacts DEF AccountId
  <2>2. \A b \in SystemAccount : b # a
    BY ConstantsAssumption
  <2>3. Bal(a) \notin {Bal(b) : b \in SystemAccount}
    BY <2>2, KeyKinds
  <2> QED BY <1>4, <1>5, <2>1, <2>3 DEF Migrated
<1>6. ASSUME NEW e \in EventId, Ev(e) \notin DOMAIN Earlier PROVE db[Ev(e)] = NoRow
  <2>1. Ev(e) \in Row
    BY RowFacts
  <2>2. Ev(e) \notin {Bal(b) : b \in SystemAccount}
    BY KeyKinds
  <2> QED BY <1>4, <1>6, <2>1, <2>2 DEF Migrated
<1>7. Opened(db) = {}
  BY <1>5 DEF Opened
<1>8. Counted(db, call) = {}
  BY <1>1 DEF Counted, Handled, Registrations
<1> QED BY <1>3, <1>6, <1>7, <1>8 DEF EventsIn

LEMMA NextEvents ==
    ASSUME TxInv, EventsIn(db, call), [Next]_vars
    PROVE  EventsIn(db', call')
<1>1. Consistent(db) /\ \A v \in Worker : call[v] \in Call \cup {None}
  BY DEF TxInv, TablesOK, WorkerOK, ControlOK
<1>2. ASSUME NEW w \in Worker, NEW result, Commit(w, result) PROVE EventsIn(db', call')
  <2>1. PICK c, x : c = call[w] /\ x = Progress(w)
    OBVIOUS
  <2>2. c \in Call /\ Stage(c, x) /\ Complete(c, x) /\ x.todo = <<>> /\ Applied(x, db, db') /\ call' = call
    BY <1>2, <2>1, CommitFacts
  <2>3. CASE KeepsAccounts(c, db, db')
    <3>1. \A e \in EventId : db[Ev(e)] # NoRow => db'[Ev(e)] # NoRow
      BY <2>2, EventsCommitted
    <3> QED BY <1>1, <2>1, <2>2, <2>3, <3>1, KeptEvents
  <2>4. CASE \E a \in UserAccount : OpensAccount(c, db, db', a)
    BY <1>1, <2>1, <2>2, <2>4, OpenedEvents
  <2> QED BY <1>1, <2>2, <2>3, <2>4, CommitAccounts
<1>3. ASSUME NEW w \in Worker, NEW c \in Call, Start(w, c) PROVE EventsIn(db', call')
  <2>1. db' = db /\ call[w] = None /\ call' = [call EXCEPT ![w] = c] /\ call = [v \in Worker |-> call[v]]
    BY <1>3 DEF Start, TxInv
  <2>2. \A v \in Worker : call'[v] = IF v = w THEN c ELSE call[v]
    BY <2>1
  <2> QED BY <1>1, <2>1, <2>2, StartedEvents
<1>4. ASSUME db' = db, call' = call PROVE EventsIn(db', call')
  BY <1>4
<1>5. \A w \in Worker : Silent(w) => db' = db /\ call' = call
  BY DEF Silent
<1>6. \A h \in HoldId : PassExpiry(h) => db' = db /\ call' = call
  BY DEF PassExpiry
<1>7. UNCHANGED vars => db' = db /\ call' = call
  BY DEF vars
<1> QED BY <1>2, <1>3, <1>4, <1>5, <1>6, <1>7, NextKinds DEF Harmless

(***************************************************************************)
(* However often and to however many consumers a registration is delivered *)
(* at the same time, as many accounts are opened as registrations were     *)
(* processed: the insert into processed_events that begins the transaction *)
(* waits for the other copy and then fails or finds its row.               *)
(***************************************************************************)
THEOREM EventsRegisterOnce == Spec => []RegistrationsOnce
<1> DEFINE Inv == EventsIn(db, call)
<1>1. Init => Inv
  BY InitEvents
<1>2. TxInv /\ Inv /\ [Next]_vars => Inv'
  BY NextEvents
<1>3. Inv => RegistrationsOnce
  BY OnceEquals DEF EventsIn
<1> QED
  <2> HIDE DEF Inv
  <2> QED BY <1>1, <1>2, <1>3, AlwaysTxInv, PTL DEF Spec

-----------------------------------------------------------------------------
(* The order of the locks. *)

\* The place of a row in the order in which closures lock rows.
Rank(row) ==
    CASE row[1] = "processed_events" -> 0
      [] row[1] = "holds" -> 1
      [] row[1] = "ledger_transactions" -> IF row[2][1] = "capture" THEN 2 ELSE 4
      [] row[1] = "account_balances" ->
            IF row[2] \in UserAccount THEN 3 ELSE IF IsAsset(row[2]) THEN 5 ELSE 6
      [] row[1] = "holds_active_payment_uq" -> 7
      [] OTHER -> 8

LEMMA RankType == \A row : Rank(row) \in 0 .. 8
BY DEF Rank

LEMMA RankFacts ==
    /\ \A e : Rank(Ev(e)) = 0
    /\ \A h : Rank(HoldKey(h)) = 1
    /\ \A h : Rank(Txn(CaptureKey(h))) = 2
    /\ \A u : Rank(Txn(WelcomeKey(u))) = 4
    /\ \A a \in UserAccount : Rank(Bal(a)) = 3
    /\ \A a : Rank(Bal(a)) \in {3, 5, 6}
    /\ \A p : Rank(Pay(p)) = 7
    /\ \A r : Rank(Req(r)) = 8
<1>1. \A e : Rank(Ev(e)) = 0
  BY KeyKinds DEF Rank
<1>2. \A h : Rank(HoldKey(h)) = 1
  BY KeyKinds DEF Rank
<1>3. \A h : CaptureKey(h)[1] = "capture"
  BY DEF CaptureKey
<1>4. \A u : WelcomeKey(u)[1] = "welcome"
  BY DEF WelcomeKey
<1>5. \A h : Rank(Txn(CaptureKey(h))) = 2
  BY <1>3, KeyKinds DEF Rank
<1>6. \A u : Rank(Txn(WelcomeKey(u))) = 4
  BY <1>4, KeyKinds DEF Rank
<1>7. \A a : Rank(Bal(a)) \in {3, 5, 6}
  BY KeyKinds DEF Rank
<1>8. \A a \in UserAccount : Rank(Bal(a)) = 3
  BY KeyKinds DEF Rank
<1>9. \A p : Rank(Pay(p)) = 7
  BY KeyKinds DEF Rank
<1>10. \A r : Rank(Req(r)) = 8
  BY KeyKinds DEF Rank
<1> QED BY <1>1, <1>2, <1>5, <1>6, <1>7, <1>8, <1>9, <1>10

LEMMA SystemRanks ==
    ASSUME NEW cur \in Currency
    PROVE  /\ Rank(Bal(Settlement(cur))) = 5 /\ Rank(Bal(Payable(cur))) = 6
           /\ AccountCurrency(Payable(cur)) = cur
<1>1. Settlement(cur) \notin UserAccount /\ Payable(cur) \notin UserAccount
  BY ConstantsAssumption DEF SystemAccount
<1>2. IsAsset(Settlement(cur)) /\ ~ IsAsset(Payable(cur))
  BY DEF IsAsset, Settlement, Payable
<1>3. AccountCurrency(Payable(cur)) = cur
  BY <1>1 DEF AccountCurrency, Settlement, Payable
<1> QED BY <1>1, <1>2, <1>3, KeyKinds DEF Rank

\* The payer of a capture comes before the payee, or is the payee.
LEMMA PayerFirst ==
    ASSUME NEW row \in HoldRow, row.currency = AccountCurrency(row.account),
           row.account # Payable(row.currency)
    PROVE  Rank(Bal(row.account)) < 6
<1>1. row.account \in AccountId /\ row.currency \in Currency
  BY HoldRowFacts
<1>2. CASE row.account \in UserAccount
  BY <1>2, RankFacts
<1>3. CASE \E cur \in Currency : row.account = Settlement(cur)
  BY <1>3, SystemRanks
<1>4. CASE \E cur \in Currency : row.account = Payable(cur)
  BY <1>4, SystemRanks
<1> QED BY <1>1, <1>2, <1>3, <1>4 DEF AccountId, SystemAccount

\* The rows a transaction still has to lock for its next statement; they are
\* one, and it comes after all the rows that are locked.
Wanted(x) == Head(x.todo).rows \ x.locked
InOrder(x) == \A s \in Wanted(x) : Wanted(x) = {s} /\ \A r \in x.locked : Rank(r) < Rank(s)

LEMMA OneWanted ==
    ASSUME NEW x, NEW s, Head(x.todo).rows \subseteq x.locked \cup {s},
           s \notin x.locked => \A r \in x.locked : Rank(r) < Rank(s)
    PROVE  InOrder(x)
BY DEF InOrder, Wanted

LEMMA FirstOrder ==
    ASSUME NEW c \in Call, NEW x, Begun(c, x) \/ Missed(c, x), c.method # "Sweep"
    PROVE  InOrder(x)
<1>1. x.locked = {}
  BY DEF Begun, Missed
<1>2. ASSUME NEW s, Head(x.todo).rows \subseteq {s} PROVE InOrder(x)
  BY <1>1, <1>2, OneWanted
<1>3. c.method \in Rpc \/ IsEvent(c)
  BY CallFacts DEF Rpc, IsEvent
<1>4. CASE Begun(c, x)
  <2>1. Head(x.todo) = LookUp(c.request) \/ Head(x.todo) = Gate(c.event)
    BY <1>3, <1>4, BegunNext DEF At, Rpc
  <2>2. Head(x.todo).rows = {} \/ Head(x.todo).rows = {Ev(c.event)}
    BY <2>1, StatementFacts
  <2> QED BY <1>2, <2>2
<1>5. CASE Missed(c, x)
  <2>1. Head(x.todo) = LockBalance(c.account) \/ Head(x.todo) = LockHold(c.hold)
    BY <1>5, MissedNext DEF At, Rpc
  <2>2. Head(x.todo).rows = {Bal(c.account)} \/ Head(x.todo).rows = {HoldKey(c.hold)}
    BY <2>1, StatementFacts
  <2> QED BY <1>2, <2>2
<1> QED BY <1>4, <1>5

LEMMA HoldOrder ==
    ASSUME NEW c \in Call, NEW x, HoldStage(c, x), x.todo # <<>>
    PROVE  InOrder(x)
<1>1. CASE HoldChecked(c, x)
  <2>1. Head(x.todo).rows = {Pay(c.payment)} /\ x.locked = {Bal(c.account)}
    BY <1>1, HoldNext, StatementFacts DEF At, HoldChecked
  <2>2. Rank(Bal(c.account)) < Rank(Pay(c.payment))
    BY RankFacts
  <2> QED BY <2>1, <2>2, OneWanted
<1>2. ASSUME NEW h \in HoldId, HoldInserted(c, x, h) PROVE InOrder(x)
  <2>1. Head(x.todo).rows = {Bal(c.account)} /\ Bal(c.account) \in x.locked
    BY <1>2, HoldNext, StatementFacts DEF At, HoldInserted
  <2> QED BY <2>1, OneWanted
<1>3. ASSUME NEW h \in HoldId, HoldBumped(c, x, h) PROVE InOrder(x)
  <2>1. Head(x.todo).rows = {Req(c.request)} /\ x.locked = {Pay(c.payment), HoldKey(h), Bal(c.account)}
    BY <1>3, HoldNext, StatementFacts DEF At, HoldBumped, HoldRows
  <2>2. \A r \in x.locked : Rank(r) < Rank(Req(c.request))
    BY <2>1, RankFacts
  <2> QED BY <2>1, <2>2, OneWanted
<1>4. \A h \in HoldId : ~ HoldStored(c, x, h)
  BY HoldNext
<1> QED BY <1>1, <1>2, <1>3, <1>4 DEF HoldStage

LEMMA CaptureOrder ==
    ASSUME NEW c \in Call, NEW x, CaptureStage(c, x), x.todo # <<>>,
           CaptureRow(c, x).currency = AccountCurrency(CaptureRow(c, x).account)
    PROVE  InOrder(x)
<1>1. PICK row, u, v, k, h : /\ row = CaptureRow(c, x) /\ u = row.account /\ v = Payable(row.currency)
                             /\ k = CaptureKey(c.hold) /\ h = HoldKey(c.hold)
  OBVIOUS
<1>2. Payer(c, x) = Bal(u) /\ Payee(c, x) = Bal(v)
  BY <1>1 DEF Payer, Payee
<1>3. Rank(h) = 1 /\ Rank(Txn(k)) = 2 /\ Rank(Bal(u)) \in {3, 5, 6} /\ Rank(Bal(v)) \in {3, 5, 6}
  BY <1>1, RankFacts
<1>4. CASE CaptureLocked(c, x)
  <2>1. Head(x.todo).rows = {Txn(k)} /\ x.locked = {h}
    BY <1>1, <1>4, CaptureNext, StatementFacts DEF At, CaptureLocked
  <2> QED BY <1>3, <2>1, OneWanted
<1>5. CASE CapturePosted(c, x)
  <2>1. x.locked = {h, Txn(k)}
    BY <1>1, <1>5 DEF CapturePosted
  <2>2. Head(x.todo).rows = {Bal(u)}
    BY <1>1, <1>5, CaptureNext, StatementFacts DEF At, BumpPayer
  <2> QED BY <1>3, <2>1, <2>2, OneWanted
<1>6. CASE CapturePaid(c, x)
  <2>1. x.locked = {h, Txn(k), Bal(u)} /\ Capturing(c, x)
    BY <1>1, <1>2, <1>6 DEF CapturePaid
  <2>2. Head(x.todo).rows = {Bal(v)}
    BY <1>1, <1>6, CaptureNext, StatementFacts DEF At, BumpPayee
  <2>3. row \in HoldRow /\ row.currency = AccountCurrency(row.account)
    BY <1>1, <2>1 DEF Capturing, Locked, CaptureRow
  <2>4. row.currency \in Currency
    BY <2>3, HoldRowFacts
  <2>5. Rank(Bal(v)) = 6
    BY <1>1, <2>4, SystemRanks
  <2>6. u # v => Rank(Bal(u)) < 6
    BY <1>1, <2>3, PayerFirst
  <2>7. Bal(v) \notin x.locked => \A r \in x.locked : Rank(r) < Rank(Bal(v))
    BY <1>3, <2>1, <2>5, <2>6
  <2> QED BY <2>2, <2>7, OneWanted
<1>7. CASE CaptureTransferred(c, x)
  <2>1. x.locked = {h, Txn(k), Bal(u), Bal(v)}
    BY <1>1, <1>2, <1>7 DEF CaptureTransferred
  <2>2. Head(x.todo).rows = {h, Pay(row.payment)}
    BY <1>1, <1>7, CaptureNext, StatementFacts DEF At, CloseCaptured
  <2>3. \A r \in x.locked : Rank(r) < Rank(Pay(row.payment))
    BY <1>3, <2>1, RankFacts
  <2> QED BY <2>1, <2>2, <2>3, OneWanted
<1>8. CASE CaptureClosed(c, x)
  <2>1. x.locked = {Txn(k), Bal(u), Bal(v), h, Pay(row.payment)}
    BY <1>1, <1>2, <1>8 DEF CaptureClosed, CaptureRows
  <2>2. Head(x.todo).rows = {Req(c.request)}
    BY <1>8, CaptureNext, StatementFacts DEF At, StoreCapture
  <2>3. \A r \in x.locked : Rank(r) < Rank(Req(c.request))
    BY <1>3, <2>1, RankFacts
  <2> QED BY <2>2, <2>3, OneWanted
<1>9. ~ CaptureStored(c, x)
  BY CaptureNext
<1> QED BY <1>4, <1>5, <1>6, <1>7, <1>8, <1>9 DEF CaptureStage

LEMMA RegisterOrder ==
    ASSUME NEW c \in Call, NEW x, RegisterStage(c, x), x.todo # <<>>
    PROVE  InOrder(x)
<1>1. CASE RegisterGated(c, x)
  <2>1. Head(x.todo).rows = {}
    BY <1>1, RegisterNext, StatementFacts DEF At
  <2> QED BY <2>1 DEF InOrder, Wanted
<1>2. ASSUME NEW a \in UserAccount, RegisterOpened(c, x, a) PROVE InOrder(x)
  <2>1. x.locked = {Ev(c.event), Bal(a)} /\ Head(x.todo).rows = {Txn(WelcomeKey(c.user))}
    <3>1. Head(x.todo) = Post(WelcomeKey(c.user), WelcomePosting(c, a))
      BY <1>2, RegisterNext DEF At
    <3>2. x.locked = {Ev(c.event), Bal(a)}
      BY <1>2 DEF RegisterOpened
    <3> QED BY <3>1, <3>2, StatementFacts
  <2>2. \A r \in x.locked : Rank(r) < Rank(Txn(WelcomeKey(c.user)))
    BY <2>1, RankFacts
  <2> QED BY <2>1, <2>2, OneWanted
<1>3. ASSUME NEW a \in UserAccount, RegisterPosted(c, x, a) PROVE InOrder(x)
  <2>1. x.locked = {Ev(c.event), Bal(a), Txn(WelcomeKey(c.user))} /\ Head(x.todo).rows = {SettlementRow}
    BY <1>3, RegisterNext, StatementFacts DEF At, RegisterPosted, SettlementRow
  <2>2. Rank(SettlementRow) = 5
    BY ConstantsAssumption, SystemRanks DEF SettlementRow
  <2>3. \A r \in x.locked : Rank(r) < Rank(SettlementRow)
    BY <2>1, <2>2, RankFacts
  <2> QED BY <2>1, <2>3, OneWanted
<1>4. ASSUME NEW a \in UserAccount, RegisterDebited(c, x, a) PROVE InOrder(x)
  <2>1. Bal(a) \in x.locked /\ Head(x.todo).rows = {Bal(a)}
    BY <1>4, RegisterNext, StatementFacts DEF At, RegisterDebited, DepositRows
  <2> QED BY <2>1, OneWanted
<1>5. \A a \in UserAccount : ~ RegisterCredited(c, x, a)
  BY RegisterNext
<1> QED BY <1>1, <1>2, <1>3, <1>4, <1>5 DEF RegisterStage

LEMMA FailedOrder ==
    ASSUME NEW c \in Call, NEW x, FailedGated(c, x), x.todo # <<>>
    PROVE  InOrder(x)
<1>1. x.locked = {Ev(c.event)}
  BY DEF FailedGated
<1>2. CASE At(x, FindHold(c.payment), <<>>)
  BY <1>2, StatementFacts DEF At, InOrder, Wanted
<1>3. ASSUME NEW h \in HoldId, At(x, LockHold(h), <<>>) PROVE InOrder(x)
  <2>1. Head(x.todo).rows = {HoldKey(h)}
    BY <1>3, StatementFacts DEF At
  <2>2. Rank(Ev(c.event)) < Rank(HoldKey(h))
    BY RankFacts
  <2> QED BY <1>1, <2>1, <2>2, OneWanted
<1> QED BY <1>2, <1>3, FailedNext

\* What a release that is no sweep has locked.
LEMMA ReleasesOne ==
    ASSUME NEW c \in Call, NEW x, NEW D, NEW h, NEW E, D \subseteq E, h \in E, Targets(c, x, E), h \notin D, c.method # "Sweep"
    PROVE  D = {}
<1>1. \E g \in HoldId : E = {g}
  BY DEF Targets
<1>2. \A d \in D : d = h
  BY <1>1
<1>3. \A d : d \notin D
  BY <1>2
<1> QED BY <1>3

LEMMA ReleaseOrder ==
    ASSUME NEW c \in Call, NEW x, ReleaseStage(c, x), x.todo # <<>>, c.method # "Sweep"
    PROVE  InOrder(x)
<1>1. ASSUME NEW B, NEW D, NEW E, LocksOf(c, x, B, D, E), NEW r \in x.locked PROVE Rank(r) \in {0, 1, 3, 5, 6, 7}
             /\ (D = {} => Rank(r) < 7) /\ (B = {} /\ D = {} => Rank(r) < 3)
  <2>1. r \in GateRow(c) \cup BalancesOf(x, B) \cup KeysOf(D) \cup PaymentsOf(x, D) \cup KeysOf(E)
    BY <1>1 DEF LocksOf, ReleaseRows
  <2>2. CASE r \in GateRow(c)
    BY <2>2, RankFacts DEF GateRow
  <2>3. CASE r \in BalancesOf(x, B)
    BY <2>3, RankFacts DEF BalancesOf
  <2>4. CASE r \in KeysOf(D) \cup KeysOf(E)
    BY <2>4, RankFacts DEF KeysOf
  <2>5. CASE r \in PaymentsOf(x, D)
    BY <2>5, RankFacts DEF PaymentsOf
  <2> QED BY <2>1, <2>2, <2>3, <2>4, <2>5
<1>2. ASSUME NEW D \in SUBSET HoldId, NEW h \in HoldId, ReleaseLocked(c, x, D, h) PROVE InOrder(x)
  <2>1. PICK E : E = D \cup {h}
    OBVIOUS
  <2>2. Targets(c, x, E) /\ D \subseteq E /\ h \in E /\ h \notin D /\ LocksOf(c, x, D, D, E)
    BY <1>2, <2>1 DEF ReleaseLocked
  <2>3. D = {}
    BY <2>2, ReleasesOne
  <2>4. PICK s : s = Bal(x.base[HoldKey(h)].account)
    OBVIOUS
  <2>5. Head(x.todo).rows = {s}
    <3>1. Head(x.todo) = BumpReleased(x, h)
      BY <1>2, ReleaseNext DEF At
    <3> QED BY <2>4, <3>1, StatementFacts DEF BumpReleased
  <2>6. Rank(s) \in {3, 5, 6}
    BY <2>4, RankFacts
  <2>7. \A r \in x.locked : Rank(r) < Rank(s)
    BY <1>1, <2>2, <2>3, <2>6
  <2> QED BY <2>5, <2>7, OneWanted
<1>3. ASSUME NEW D \in SUBSET HoldId, NEW h \in HoldId, ReleaseBumped(c, x, D, h) PROVE InOrder(x)
  <2>1. PICK E : E = D \cup {h}
    OBVIOUS
  <2>2. Targets(c, x, E) /\ D \subseteq E /\ h \in E /\ h \notin D /\ LocksOf(c, x, E, D, E) /\ HoldKey(h) \in x.locked
    BY <1>3, <2>1 DEF ReleaseBumped, Targets
  <2>3. D = {}
    BY <2>2, ReleasesOne
  <2>4. PICK s : s = Pay(x.base[HoldKey(h)].payment)
    OBVIOUS
  <2>5. Head(x.todo).rows = {HoldKey(h), s}
    <3>1. Head(x.todo) = CloseReleased(c, x, h)
      BY <1>3, ReleaseNext DEF At
    <3> QED BY <2>4, <3>1, StatementFacts DEF CloseReleased
  <2>6. \A r \in x.locked : Rank(r) < Rank(s)
    BY <1>1, <2>2, <2>3, <2>4, RankFacts
  <2> QED BY <2>2, <2>5, <2>6, OneWanted
<1>4. ASSUME NEW D \in SUBSET HoldId, ReleaseDone(c, x, D) PROVE InOrder(x)
  <2>1. Head(x.todo).rows = {Req(c.request)}
    <3>1. c.method = "ReleaseFunds"
      BY <1>4, DoneNext DEF Releases
    <3>2. Head(x.todo) = Store(c.request, [method |-> c.method])
      BY <1>4, <3>1, DoneNext DEF At
    <3> QED BY <3>2, StatementFacts
  <2>2. \A r \in x.locked : Rank(r) < Rank(Req(c.request))
    BY <1>1, <1>4, RankFacts DEF ReleaseDone
  <2> QED BY <2>1, <2>2, OneWanted
<1>5. \A h \in HoldId : ~ ReleaseStored(c, x, h)
  BY ReleaseNext
<1> QED BY <1>2, <1>3, <1>4, <1>5 DEF ReleaseStage

LEMMA StageOrder ==
    ASSUME NEW c \in Call, NEW x, Stage(c, x), x.todo # <<>>, c.method # "Sweep",
           \A h \in HoldId : HoldKey(h) \in x.locked /\ Locked(x, h) =>
                x.base[HoldKey(h)].currency = AccountCurrency(x.base[HoldKey(h)].account)
    PROVE  InOrder(x)
<1>1. ~ Hit(c, x) /\ ~ Processed(c, x)
  BY DEF Hit, Processed
<1>2. ASSUME CaptureStage(c, x) PROVE InOrder(x)
  <2>1. HoldKey(c.hold) \in x.locked /\ c.hold \in HoldId
    BY <1>2, CallFacts DEF CaptureStage
  <2>2. Locked(x, c.hold)
    BY <1>2 DEF CaptureStage, CaptureLocked, CapturePosted, CapturePaid, CaptureTransferred, CaptureClosed,
                CaptureStored, Transferred, Capturing
  <2> QED BY <1>2, <2>1, <2>2, CaptureOrder DEF CaptureRow
<1> QED BY <1>1, <1>2, FirstOrder, HoldOrder, RegisterOrder, FailedOrder, ReleaseOrder DEF Stage

\* A transaction that is no sweep waits for rows that come after its own.
LEMMA WaitsInOrder ==
    ASSUME TxInv, NEW v \in Worker, Running(v), tx[v].todo # <<>>, call[v].method # "Sweep"
    PROVE  InOrder(Progress(v))
<1>1. PICK c, x : c = call[v] /\ x = Progress(v)
  OBVIOUS
<1>2. x.todo = tx[v].todo /\ x.locked = tx[v].locked /\ \A row \in x.locked : x.base[row] = db[row]
  BY <1>1 DEF Progress
<1>3. c \in Call /\ Stage(c, x) /\ c.method # "Sweep"
  BY <1>1 DEF TxInv, WorkerOK, ControlOK, StageOK
<1>4. ASSUME NEW h \in HoldId, HoldKey(h) \in x.locked, Locked(x, h)
      PROVE  x.base[HoldKey(h)].currency = AccountCurrency(x.base[HoldKey(h)].account)
  <2>1. db[HoldKey(h)] = x.base[HoldKey(h)] /\ db[HoldKey(h)] \in HoldRow
    BY <1>2, <1>4 DEF Locked
  <2>2. db[HoldKey(h)] # NoRow
    BY <2>1, ConstantsAssumption
  <2>3. Consistent(db)
    BY DEF TxInv, TablesOK
  <2> QED BY <2>1, <2>2, <2>3 DEF Consistent
<1> QED BY <1>1, <1>2, <1>3, <1>4, StageOrder

\* The rows that a waiting transaction wants.
WantedBy(v) == Statement(v).rows \ tx[v].locked

LEMMA BlockerFacts ==
    ASSUME TxInv, NEW v \in Worker, NEW u \in Blockers(v)
    PROVE  /\ u \in Worker /\ Running(v) /\ Running(u) /\ tx[v].todo # <<>>
           /\ \E r \in WantedBy(v) : r \in tx[u].locked
<1>1. /\ Running(v) /\ tx[v].todo # <<>> /\ u \in Worker \ {v} /\ Running(u)
      /\ tx[u].locked \cap Statement(v).rows # {}
  BY DEF Blockers
<1>2. tx[u].locked \cap tx[v].locked = {}
  BY <1>1 DEF TxInv, LocksApart
<1> QED BY <1>1, <1>2 DEF WantedBy

\* Along a chain of transactions that wait, none of them a sweep, rows ascend.
LEMMA RanksAscend ==
    ASSUME TxInv, NEW v \in Worker, NEW u \in Blockers(v), Blockers(u) # {},
           call[v].method # "Sweep", call[u].method # "Sweep",
           NEW s \in WantedBy(v), NEW t \in WantedBy(u)
    PROVE  Rank(s) < Rank(t)
<1>1. u \in Worker /\ Running(v) /\ Running(u) /\ tx[v].todo # <<>> /\ \E r \in WantedBy(v) : r \in tx[u].locked
  BY BlockerFacts
<1>2. tx[u].todo # <<>>
  BY DEF Blockers
<1>3. InOrder(Progress(v)) /\ InOrder(Progress(u))
  BY <1>1, <1>2, WaitsInOrder
<1>4. Wanted(Progress(v)) = WantedBy(v) /\ Wanted(Progress(u)) = WantedBy(u) /\ Progress(u).locked = tx[u].locked
  BY DEF Wanted, WantedBy, Statement, Progress
<1>5. WantedBy(v) = {s}
  BY <1>3, <1>4 DEF InOrder
<1>6. s \in tx[u].locked
  BY <1>1, <1>5
<1> QED BY <1>3, <1>4, <1>6 DEF InOrder

LEMMA BlockersAreWorkers ==
    ASSUME NEW v
    PROVE  Blockers(v) \subseteq Worker
BY DEF Blockers

LEMMA WaitsFor ==
    ASSUME NEW w, NEW x, NEW y
    PROVE  /\ y \in Blockers(x) => Waits(x, y)
           /\ Waits(w, x) /\ y \in Blockers(x) => Waits(w, y)
           /\ y \in Blockers(x) /\ Waits(y, w) => Waits(x, w)
BY DEF Waits

LEMMA WaitersAreBlocked ==
    ASSUME NEW x, NEW y, Waits(x, y)
    PROVE  Blockers(x) # {}
<1>1. SUFFICES ASSUME Blockers(x) = {} PROVE FALSE
  OBVIOUS
<1>2. PICK S \in SUBSET Worker : S = {}
  OBVIOUS
<1>3. y \in S
  BY <1>1, <1>2 DEF Waits
<1> QED BY <1>2, <1>3

LEMMA CycleHasSweep ==
    ASSUME TxInv, NEW w \in Worker, Blockers(w) # {}, Waits(w, w)
    PROVE  \E v \in Worker : Waits(w, v) /\ Waits(v, w) /\ call[v].method = "Sweep"
<1>1. SUFFICES ASSUME \A v \in Worker : Waits(w, v) /\ Waits(v, w) => call[v].method # "Sweep"
               PROVE  FALSE
  OBVIOUS
<1>2. PICK s \in WantedBy(w) : TRUE
  BY BlockerFacts
<1> DEFINE S == {x \in Worker : Waits(w, x) /\ (Waits(x, w) => \A t \in WantedBy(x) : Rank(s) < Rank(t))}
<1>3. ASSUME NEW x \in Worker, NEW y \in Blockers(x), x = w \/ x \in S PROVE y \in S
  <2>1. y \in Worker /\ Waits(w, y)
    BY <1>3, BlockersAreWorkers, WaitsFor
  <2>2. ASSUME Waits(y, w), NEW t \in WantedBy(y) PROVE Rank(s) < Rank(t)
    <3>1. Waits(x, w) /\ Waits(w, x)
      BY <1>3, <2>2, WaitsFor
    <3>2. call[x].method # "Sweep" /\ call[y].method # "Sweep"
      BY <1>1, <2>1, <2>2, <3>1
    <3>3. Blockers(y) # {}
      BY <2>2, WaitersAreBlocked
    <3>4. PICK r \in WantedBy(x) : x = w => r = s
      BY <1>2, <1>3, BlockerFacts
    <3>5. Rank(r) < Rank(t)
      BY <1>3, <2>2, <3>2, <3>3, <3>4, RanksAscend
    <3>6. r = s \/ Rank(s) < Rank(r)
      BY <1>3, <3>1, <3>4
    <3>7. Rank(r) \in Int /\ Rank(s) \in Int /\ Rank(t) \in Int
      BY RankType
    <3> QED BY <3>5, <3>6, <3>7
  <2> QED BY <2>1, <2>2
<1>4. Blockers(w) \subseteq S
  BY <1>3
<1>5. \A x \in S : Blockers(x) \subseteq S
  BY <1>3
<1>6. w \in S
  <2>1. S \in SUBSET Worker
    OBVIOUS
  <2> HIDE DEF S
  <2> QED BY <1>4, <1>5, <2>1 DEF Waits
<1>7. Rank(s) < Rank(s)
  BY <1>2, <1>6
<1>8. Rank(s) \in Int
  BY RankType
<1> QED BY <1>7, <1>8

(***************************************************************************)
(* A deadlock takes a sweep, for any number of transactions at the same    *)
(* time: all others lock the event, the hold, the capture's ledger         *)
(* transaction, the user's balance, the deposit's ledger transaction, the  *)
(* system accounts' balances, the payment and the request in this order,   *)
(* so that a cycle without a sweep would ascend for ever.                  *)
(***************************************************************************)
THEOREM OnlySweepsDeadlock == Spec => []DeadlocksNeedSweep
<1>1. TxInv => DeadlocksNeedSweep
  BY CycleHasSweep DEF DeadlocksNeedSweep
<1> QED BY <1>1, AlwaysTxInv, PTL

-----------------------------------------------------------------------------
(* The refinement of Ledger.  The definitions that Ledger takes from Schema *)
(* mean the same in its instance.                                          *)

LEMMA SchemaNames ==
    /\ L!AccountId = AccountId
    /\ \A a : L!AccountCurrency(a) = AccountCurrency(a)
    /\ \A h : L!CaptureKey(h) = CaptureKey(h)
    /\ \A u : L!WelcomeKey(u) = WelcomeKey(u)
    /\ \A cur : L!Settlement(cur) = Settlement(cur) /\ L!Payable(cur) = Payable(cur)
    /\ \A topic, h, a, amt, reason : L!Funds(topic, h, a, amt, reason) = Funds(topic, h, a, amt, reason)
<1>1. \A cur : L!Settlement(cur) = Settlement(cur) /\ L!Payable(cur) = Payable(cur)
  BY DEF L!Settlement, Settlement, L!Payable, Payable
<1>2. L!AccountId = AccountId
  BY <1>1 DEF L!AccountId, AccountId, L!SystemAccount, SystemAccount
<1>3. \A a : L!AccountCurrency(a) = AccountCurrency(a)
  BY DEF L!AccountCurrency, AccountCurrency, L!Settlement, Settlement, L!Payable, Payable
<1>4. \A h : L!CaptureKey(h) = CaptureKey(h)
  BY DEF L!CaptureKey, CaptureKey
<1>5. \A u : L!WelcomeKey(u) = WelcomeKey(u)
  BY DEF L!WelcomeKey, WelcomeKey
<1>6. \A topic, h, a, amt, reason : L!Funds(topic, h, a, amt, reason) = Funds(topic, h, a, amt, reason)
  BY DEF L!Funds, Funds
<1> QED BY <1>1, <1>2, <1>3, <1>4, <1>5, <1>6

LEMMA SameSum ==
    ASSUME NEW S, NEW f \in [S -> Int]
    PROVE  L!SumFunction(f) = SumFunction(f)
<1>1. DOMAIN f = S
  OBVIOUS
<1>2. L!SumFunction(f) = L!SumFunctionOnSet(f, S)
  BY <1>1 DEF L!SumFunction
<1>3. L!SumFunction(f) = SumIter(f, S)[S]
  BY <1>2 DEF L!SumFunctionOnSet, L!FoldFunctionOnSet, L!MapThenFoldSet, SumIter, SumAt, Pick
<1> QED BY <1>3, SumFunctionIter

LEMMA SameCardinality ==
    ASSUME NEW S
    PROVE  L!Cardinality(S) = Cardinality(S)
BY DEF L!Cardinality, Cardinality

\* The tables of Ledger, as functions of the rows.
Accounts(rows) == {a \in AccountId : rows[Bal(a)] # NoRow}
Balances(rows, name) == [a \in AccountId |-> IF rows[Bal(a)] = NoRow THEN 0 ELSE rows[Bal(a)][name]]
HoldTable(rows) == [h \in HoldId |-> rows[HoldKey(h)]]
PostingTable(rows) == [k \in IdemKey |-> IF rows[Txn(k)] = NoRow THEN NoRow ELSE rows[Txn(k)].posting]

\* No table of Ledger changes.
SameTables(rows, new) ==
    /\ Accounts(new) = Accounts(rows)
    /\ \A name \in {"available", "held", "version"} : Balances(new, name) = Balances(rows, name)
    /\ HoldTable(new) = HoldTable(rows) /\ PostingTable(new) = PostingTable(rows)

LEMMA LedgerStutter ==
    ASSUME SameTables(db, db'), outbox' = outbox, due' = due
    PROVE  UNCHANGED L!vars
BY DEF L!vars, SameTables, Accounts, Balances, HoldTable, PostingTable, Column

LEMMA LedgerExpiry ==
    ASSUME NEW h \in HoldId, PassExpiry(h)
    PROVE  L!PassExpiry(h)
BY DEF L!PassExpiry, L!Active, PassExpiry, Column

\* A hold, as the tables are before and after.
HoldOf(rows, new, h, a, p, amt, cur) ==
    /\ HoldTable(rows)[h] = NoRow /\ a \in Accounts(rows) /\ AccountCurrency(a) = cur
    /\ Balances(rows, "available")[a] >= amt /\ amt > 0
    /\ \A g \in HoldId : rows[HoldKey(g)] # NoRow /\ rows[HoldKey(g)].status = "active" =>
            rows[HoldKey(g)].payment # p
    /\ HoldTable(new) = [HoldTable(rows) EXCEPT ![h] =
            [account |-> a, payment |-> p, amount |-> amt, currency |-> cur, status |-> "active"]]
    /\ Balances(new, "available") = [Balances(rows, "available") EXCEPT ![a] = @ + (-amt)]
    /\ Balances(new, "held") = [Balances(rows, "held") EXCEPT ![a] = @ + amt]
    /\ Balances(new, "version") = [Balances(rows, "version") EXCEPT ![a] = @ + 1]
    /\ Accounts(new) = Accounts(rows) /\ PostingTable(new) = PostingTable(rows)

StorableRows(new) == \A a \in AccountId, name \in {"available", "held"} : Balances(new, name)[a] \in 0 .. MaxBigint

LEMMA LedgerHold ==
    ASSUME NEW h \in HoldId, NEW a \in AccountId, NEW p, NEW amt, NEW cur, HoldOf(db, db', h, a, p, amt, cur),
           StorableRows(db'), outbox' = outbox \cup {Funds("held", h, a, amt, "none")}, due' = due
    PROVE  L!Hold(h, a, p, amt, cur)
<1>1. L!PaymentFree(p)
  BY DEF L!PaymentFree, L!Active, HoldOf
<1> QED BY <1>1, SchemaNames DEF L!Hold, L!Bump, L!Storable, StorableRows, HoldOf, Accounts, Balances, HoldTable, PostingTable, Column

\* A posting under a key that was free.
PostOf(rows, new, key, posting) ==
    /\ posting.amount > 0 /\ PostingTable(rows)[key] = NoRow
    /\ PostingTable(new) = [PostingTable(rows) EXCEPT ![key] = posting]

\* A capture of hold h for amt, with the hold's row.
CaptureOf(rows, new, h, row, amt) ==
    /\ HoldTable(rows)[h] = row /\ row # NoRow /\ row.status = "active"
    /\ amt > 0 /\ amt <= row.amount
    /\ PostOf(rows, new, CaptureKey(h), [debit |-> row.account, credit |-> Payable(row.currency),
                                         amount |-> amt, currency |-> row.currency])
    /\ Balances(new, "available") = [[Balances(rows, "available") EXCEPT ![row.account] = @ + (row.amount - amt)]
                                        EXCEPT ![Payable(row.currency)] = @ + amt]
    /\ Balances(new, "held") = [Balances(rows, "held") EXCEPT ![row.account] = @ + (-row.amount)]
    /\ Balances(new, "version") = [[Balances(rows, "version") EXCEPT ![row.account] = @ + 1]
                                        EXCEPT ![Payable(row.currency)] = @ + 1]
    /\ HoldTable(new) = [HoldTable(rows) EXCEPT ![h].status = "captured"]
    /\ Accounts(new) = Accounts(rows)

LEMMA LedgerCapture ==
    ASSUME NEW c \in Call, c.method = "CaptureFunds", NEW h \in HoldId, NEW row, CaptureOf(db, db', h, row, c.amount),
           StorableRows(db'), outbox' = outbox \cup Events(c, h, row), due' = due
    PROVE  L!Capture(h, c.amount)
<1>1. row = db[HoldKey(h)] /\ L!LockHold(h)
  BY DEF L!LockHold, L!Active, CaptureOf, HoldTable
<1>2. PICK amt : amt = c.amount
  OBVIOUS
<1>3. amt > 0 /\ amt <= row.amount
  BY <1>2 DEF CaptureOf
<1>4. L!Post(CaptureKey(h), row.account, Payable(row.currency), amt, row.currency)
  BY <1>2 DEF L!Post, CaptureOf, PostOf, PostingTable
<1>5. outbox' = outbox \cup {Funds("captured", h, row.account, amt, "none")}
            \cup {Funds("released", h, row.account, r, "partial_capture_remainder") : r \in {row.amount - amt} \ {0}}
  BY <1>2 DEF Events
<1>6. Balances(db', "available") = L!Bump(L!Bump(Balances(db, "available"), row.account, row.amount - amt),
                                         Payable(row.currency), amt)
      /\ Balances(db', "held") = L!Bump(Balances(db, "held"), row.account, -row.amount)
      /\ Balances(db', "version") = L!Bump(L!Bump(Balances(db, "version"), row.account, 1), Payable(row.currency), 1)
  BY <1>2 DEF L!Bump, CaptureOf
<1>7. HoldTable(db') = [HoldTable(db) EXCEPT ![h].status = "captured"] /\ Accounts(db') = Accounts(db)
  BY DEF CaptureOf
<1> QED BY <1>1, <1>2, <1>3, <1>4, <1>5, <1>6, <1>7, SchemaNames
         DEF L!Capture, L!Remainder, L!Storable, StorableRows, Accounts, Balances, HoldTable, Column

\* What the holds in D reserve on account a, read off the rows.
ReservedIn(rows, D, a) == SumFunction([h \in HoldId |->
    IF h \in D /\ rows[HoldKey(h)].account = a THEN rows[HoldKey(h)].amount ELSE 0])
CountIn(rows, D, a) == Cardinality({h \in D : rows[HoldKey(h)].account = a})

\* The holds in D are released, all to the same status.
ReleaseOf(rows, new, D, status) ==
    /\ \A h \in D : h \in HoldId /\ rows[HoldKey(h)] \in HoldRow /\ rows[HoldKey(h)].status = "active"
    /\ HoldTable(new) = [h \in HoldId |->
            IF h \in D THEN [rows[HoldKey(h)] EXCEPT !.status = status] ELSE rows[HoldKey(h)]]
    /\ Balances(new, "available") = [a \in AccountId |-> Balances(rows, "available")[a] + ReservedIn(rows, D, a)]
    /\ Balances(new, "held") = [a \in AccountId |-> Balances(rows, "held")[a] - ReservedIn(rows, D, a)]
    /\ Balances(new, "version") = [a \in AccountId |-> Balances(rows, "version")[a] + CountIn(rows, D, a)]
    /\ Accounts(new) = Accounts(rows) /\ PostingTable(new) = PostingTable(rows)

LEMMA LedgerRelease ==
    ASSUME NEW D \in SUBSET HoldId, NEW reason, NEW status, status = IF reason = "expiry" THEN "expired" ELSE "released",
           ReleaseOf(db, db', D, status), StorableRows(db'), due' = due,
           outbox' = outbox \cup
                {Funds("released", h, db[HoldKey(h)].account, db[HoldKey(h)].amount, reason) : h \in D}
    PROVE  L!ReleaseAll(D, reason)
<1>1. \A h \in D : L!LockHold(h)
  BY ConstantsAssumption DEF L!LockHold, L!Active, ReleaseOf
<1>2. ASSUME NEW a \in AccountId PROVE L!Reserved(D, a) = ReservedIn(db, D, a)
  <2>1. PICK f : f = [h \in HoldId |-> IF h \in D /\ db[HoldKey(h)].account = a THEN db[HoldKey(h)].amount ELSE 0]
    OBVIOUS
  <2>2. f \in [HoldId -> Int]
    BY <2>1 DEF ReleaseOf, HoldRow
  <2>3. L!Reserved(D, a) = L!SumFunction(f)
    BY <2>1 DEF L!Reserved
  <2>4. ReservedIn(db, D, a) = SumFunction(f)
    BY <2>1 DEF ReservedIn
  <2> QED BY <2>2, <2>3, <2>4, SameSum
<1>3. ASSUME NEW a \in AccountId PROVE L!Cardinality({h \in D : db[HoldKey(h)].account = a}) = CountIn(db, D, a)
  BY SameCardinality DEF CountIn
<1>4. [h \in HoldId |-> db[HoldKey(h)]]' = [h \in HoldId |->
            IF h \in D
            THEN [[g \in HoldId |-> db[HoldKey(g)]][h] EXCEPT
                    !.status = IF reason = "expiry" THEN "expired" ELSE "released"]
            ELSE [g \in HoldId |-> db[HoldKey(g)]][h]]
  BY DEF ReleaseOf, HoldTable
<1>5. [a \in AccountId |-> Column(a, "available")]' =
            [a \in L!AccountId |-> [b \in AccountId |-> Column(b, "available")][a] + L!Reserved(D, a)]
  BY <1>2, SchemaNames DEF ReleaseOf, Balances, Column
<1>6. [a \in AccountId |-> Column(a, "held")]' =
            [a \in L!AccountId |-> [b \in AccountId |-> Column(b, "held")][a] - L!Reserved(D, a)]
  BY <1>2, SchemaNames DEF ReleaseOf, Balances, Column
<1>7. [a \in AccountId |-> Column(a, "version")]' =
            [a \in L!AccountId |-> [b \in AccountId |-> Column(b, "version")][a]
                + L!Cardinality({h \in D : [g \in HoldId |-> db[HoldKey(g)]][h].account = a})]
  <2> DEFINE N(a) == L!Cardinality({h \in D : [g \in HoldId |-> db[HoldKey(g)]][h].account = a})
  <2>1. ASSUME NEW a \in AccountId PROVE N(a) = CountIn(db, D, a)
    <3>1. {h \in D : [g \in HoldId |-> db[HoldKey(g)]][h].account = a} = {h \in D : db[HoldKey(h)].account = a}
      OBVIOUS
    <3> QED BY <1>3, <3>1
  <2>2. [a \in AccountId |-> Column(a, "version")]' =
            [a \in L!AccountId |-> [b \in AccountId |-> Column(b, "version")][a] + N(a)]
    <3> HIDE DEF N
    <3> QED BY <2>1, SchemaNames DEF ReleaseOf, Balances, Column
  <2> QED BY <2>2
<1>8. L!Storable([a \in AccountId |-> Column(a, "available")])' /\ L!Storable([a \in AccountId |-> Column(a, "held")])'
  BY SchemaNames DEF L!Storable, StorableRows, Balances, Column
<1>9. outbox' = outbox \cup {L!Funds("released", h, [g \in HoldId |-> db[HoldKey(g)]][h].account,
                                     [g \in HoldId |-> db[HoldKey(g)]][h].amount, reason) : h \in D}
  BY SchemaNames
<1>10. UNCHANGED <<{a \in AccountId : db[Bal(a)] # NoRow}, due,
                   [k \in IdemKey |-> IF db[Txn(k)] = NoRow THEN NoRow ELSE db[Txn(k)].posting]>>
  BY DEF ReleaseOf, Accounts, PostingTable
<1> QED BY <1>1, <1>4, <1>5, <1>6, <1>7, <1>8, <1>9, <1>10, Zenon DEF L!ReleaseAll

\* An account is opened, with a deposit or without.
OpenOf(rows, new, a) ==
    /\ a \in UserAccount \ Accounts(rows) /\ Accounts(new) = Accounts(rows) \cup {a}
    /\ Balances(new, "held") = Balances(rows, "held") /\ HoldTable(new) = HoldTable(rows)

DepositOf(rows, new, c, a) ==
    /\ PostOf(rows, new, WelcomeKey(c.user), WelcomePosting(c, a))
    /\ Balances(new, "available") = [[Balances(rows, "available") EXCEPT ![Settlement(DefaultCurrency)] = @ + c.seed]
                                        EXCEPT ![a] = @ + c.seed]
    /\ Balances(new, "version") = [[Balances(rows, "version") EXCEPT ![Settlement(DefaultCurrency)] = @ + 1]
                                        EXCEPT ![a] = @ + 1]

NoDepositOf(rows, new) ==
    /\ Balances(new, "available") = Balances(rows, "available")
    /\ Balances(new, "version") = Balances(rows, "version")
    /\ PostingTable(new) = PostingTable(rows)

LEMMA LedgerDeposit ==
    ASSUME NEW c \in Call, NEW a \in UserAccount, DepositOf(db, db', c, a), StorableRows(db')
    PROVE  L!Deposit(a, c.seed, DefaultCurrency, WelcomeKey(c.user))
<1>1. L!Post(WelcomeKey(c.user), Settlement(DefaultCurrency), a, c.seed, DefaultCurrency)
  BY DEF L!Post, DepositOf, PostOf, PostingTable, WelcomePosting
<1> QED BY <1>1, SchemaNames
         DEF L!Deposit, L!Bump, L!Storable, StorableRows, DepositOf, Balances, Column

LEMMA LedgerRegister ==
    ASSUME NEW c \in Call, NEW a \in UserAccount, OpenOf(db, db', a),
           IF c.seed > 0 THEN DepositOf(db, db', c, a) ELSE NoDepositOf(db, db'),
           StorableRows(db'), outbox' = outbox, due' = due
    PROVE  L!OnUserRegistered(c.user, a, c.seed)
<1>1. CASE c.seed > 0
  <2>1. L!Deposit(a, c.seed, DefaultCurrency, WelcomeKey(c.user))
    BY <1>1, LedgerDeposit
  <2> QED BY <1>1, <2>1, SchemaNames DEF L!OnUserRegistered, OpenOf, Accounts, Balances, HoldTable, Column
<1>2. CASE ~ (c.seed > 0)
  BY <1>2 DEF L!OnUserRegistered, OpenOf, NoDepositOf, Accounts, Balances, HoldTable, PostingTable, Column
<1> QED BY <1>1, <1>2

-----------------------------------------------------------------------------
(* What a commit does to the tables of Ledger. *)

LEMMA ConsistentStorable ==
    ASSUME NEW rows, Consistent(rows)
    PROVE  StorableRows(rows)
<1>1. ASSUME NEW a \in AccountId, NEW name \in {"available", "held"} PROVE Balances(rows, name)[a] \in 0 .. MaxBigint
  <2>1. MaxBigint \in Nat
    BY ConstantsAssumption
  <2>2. rows[Bal(a)] \in BalanceRow \cup {NoRow}
    BY DEF Consistent
  <2>3. PICK b : b = rows[Bal(a)]
    OBVIOUS
  <2>4. b # NoRow => b[name] \in 0 .. MaxBigint
    BY <2>2, <2>3 DEF BalanceRow
  <2> QED BY <2>1, <2>3, <2>4 DEF Balances
<1> QED BY <1>1 DEF StorableRows

LEMMA BalanceFields ==
    ASSUME NEW b \in BalanceRow
    PROVE  /\ b["available"] = b.available /\ b["held"] = b.held /\ b["version"] = b.version
           /\ b.available \in Int /\ b.held \in Int /\ b.version \in Int /\ b # NoRow
BY BalanceThere DEF BalanceRow

LEMMA BumpedFields ==
    ASSUME NEW b, NEW d, NEW e, NEW n, n = Bumped(b, d, e)
    PROVE  /\ n["available"] = b.available + d /\ n["held"] = b.held + e /\ n["version"] = b.version + 1
           /\ n.available = b.available + d /\ n.held = b.held + e /\ n.version = b.version + 1
BY DEF Bumped

\* One balance is bumped, or two.
OthersKept(rows, new, u, v) == \A o \in AccountId \ {u, v} : new[Bal(o)] = rows[Bal(o)]

BumpsOne(rows, new, a, d, e) ==
    /\ Balances(new, "available") = [Balances(rows, "available") EXCEPT ![a] = @ + d]
    /\ Balances(new, "held") = [Balances(rows, "held") EXCEPT ![a] = @ + e]
    /\ Balances(new, "version") = [Balances(rows, "version") EXCEPT ![a] = @ + 1]
    /\ Accounts(new) = Accounts(rows)

BumpsTwo(rows, new, u, v, d, e, f) ==
    /\ Balances(new, "available") = [[Balances(rows, "available") EXCEPT ![u] = @ + d] EXCEPT ![v] = @ + f]
    /\ Balances(new, "held") = [Balances(rows, "held") EXCEPT ![u] = @ + e]
    /\ Balances(new, "version") = [[Balances(rows, "version") EXCEPT ![u] = @ + 1] EXCEPT ![v] = @ + 1]
    /\ Accounts(new) = Accounts(rows)

LEMMA BumpColumns ==
    ASSUME NEW rows, NEW new, NEW a \in AccountId, NEW b \in BalanceRow, b = rows[Bal(a)], NEW d, NEW e,
           NEW n \in BalanceRow, n = new[Bal(a)], n = Bumped(b, d, e),
           OthersKept(rows, new, a, a)
    PROVE  BumpsOne(rows, new, a, d, e)
<1>0. \A o \in AccountId \ {a} : new[Bal(o)] = rows[Bal(o)]
  BY DEF OthersKept
<1>1. b # NoRow /\ n # NoRow
  BY BalanceFields
<1>2. n["available"] = b["available"] + d /\ n["held"] = b["held"] + e /\ n["version"] = b["version"] + 1
  BY BalanceFields, BumpedFields
<1>3. Balances(new, "available") = [Balances(rows, "available") EXCEPT ![a] = @ + d]
  BY <1>0, <1>1, <1>2 DEF Balances
<1>4. Balances(new, "held") = [Balances(rows, "held") EXCEPT ![a] = @ + e]
  BY <1>0, <1>1, <1>2 DEF Balances
<1>5. Balances(new, "version") = [Balances(rows, "version") EXCEPT ![a] = @ + 1]
  BY <1>0, <1>1, <1>2 DEF Balances
<1>6. Accounts(new) = Accounts(rows)
  BY <1>0, <1>1 DEF Accounts
<1> QED BY <1>3, <1>4, <1>5, <1>6 DEF BumpsOne

\* Two balances are bumped, which may be the same.
LEMMA BumpBoth ==
    ASSUME NEW rows, NEW new, NEW u \in AccountId, NEW v \in AccountId, NEW b \in BalanceRow, b = rows[Bal(u)],
           NEW q \in BalanceRow, q = rows[Bal(v)], NEW d \in Int, NEW e \in Int, NEW f \in Int,
           NEW m \in BalanceRow, m = new[Bal(u)], NEW n \in BalanceRow, n = new[Bal(v)],
           NEW p, p = Bumped(b, d, e),
           IF u = v THEN n = Bumped(p, f, 0) ELSE m = p /\ n = Bumped(q, f, 0),
           OthersKept(rows, new, u, v)
    PROVE  BumpsTwo(rows, new, u, v, d, e, f)
<1>0. \A o \in AccountId \ {u, v} : new[Bal(o)] = rows[Bal(o)]
  BY DEF OthersKept
<1>1. b # NoRow /\ q # NoRow /\ m # NoRow /\ n # NoRow
  BY BalanceFields
<1>2. /\ b["available"] = b.available /\ b["held"] = b.held /\ b["version"] = b.version
      /\ q["available"] = q.available /\ q["held"] = q.held /\ q["version"] = q.version
      /\ m["available"] = m.available /\ m["held"] = m.held /\ m["version"] = m.version
      /\ n["available"] = n.available /\ n["held"] = n.held /\ n["version"] = n.version
      /\ b.held \in Int /\ q.held \in Int
  BY BalanceFields
<1>3. p.available = b.available + d /\ p.held = b.held + e /\ p.version = b.version + 1
  BY BumpedFields
<1>4. CASE u = v
  <2>1. b = q /\ m = n
    BY <1>4
  <2>2. /\ n["available"] = b["available"] + d + f /\ n["held"] = b["held"] + e /\ n["version"] = b["version"] + 1 + 1
    BY <1>2, <1>3, <1>4, BumpedFields
  <2>3. Balances(new, "available") = [[Balances(rows, "available") EXCEPT ![u] = @ + d] EXCEPT ![v] = @ + f]
    BY <1>0, <1>1, <1>4, <2>2 DEF Balances
  <2>4. Balances(new, "held") = [Balances(rows, "held") EXCEPT ![u] = @ + e]
    BY <1>0, <1>1, <1>4, <2>2 DEF Balances
  <2>5. Balances(new, "version") = [[Balances(rows, "version") EXCEPT ![u] = @ + 1] EXCEPT ![v] = @ + 1]
    BY <1>0, <1>1, <1>4, <2>2 DEF Balances
  <2>6. Accounts(new) = Accounts(rows)
    BY <1>0, <1>1 DEF Accounts
  <2> QED BY <2>3, <2>4, <2>5, <2>6 DEF BumpsTwo
<1>5. CASE u # v
  <2>1. m = p /\ n = Bumped(q, f, 0)
    BY <1>5
  <2>2. /\ m["available"] = b["available"] + d /\ m["held"] = b["held"] + e /\ m["version"] = b["version"] + 1
    BY <1>2, <1>3, <2>1
  <2>3. /\ n["available"] = q["available"] + f /\ n["held"] = q["held"] /\ n["version"] = q["version"] + 1
    BY <1>2, <2>1, BumpedFields
  <2>4. Balances(new, "available") = [[Balances(rows, "available") EXCEPT ![u] = @ + d] EXCEPT ![v] = @ + f]
    BY <1>0, <1>1, <1>5, <2>2, <2>3 DEF Balances
  <2>5. Balances(new, "held") = [Balances(rows, "held") EXCEPT ![u] = @ + e]
    BY <1>0, <1>1, <1>5, <2>2, <2>3 DEF Balances
  <2>6. Balances(new, "version") = [[Balances(rows, "version") EXCEPT ![u] = @ + 1] EXCEPT ![v] = @ + 1]
    BY <1>0, <1>1, <1>5, <2>2, <2>3 DEF Balances
  <2>7. Accounts(new) = Accounts(rows)
    BY <1>0, <1>1 DEF Accounts
  <2> QED BY <2>4, <2>5, <2>6, <2>7 DEF BumpsTwo
<1> QED BY <1>4, <1>5

\* Tables of which no row is written stay as they are.
LEMMA TablesKept ==
    ASSUME NEW x, NEW rows, NEW new, Applied(x, rows, new)
    PROVE  /\ (\A k \in IdemKey : Txn(k) \notin DOMAIN x.writes) => PostingTable(new) = PostingTable(rows)
           /\ (\A h \in HoldId : HoldKey(h) \notin DOMAIN x.writes) => HoldTable(new) = HoldTable(rows)
           /\ (\A a \in AccountId : Bal(a) \notin DOMAIN x.writes) =>
                /\ Accounts(new) = Accounts(rows)
                /\ \A name \in {"available", "held", "version"} : Balances(new, name) = Balances(rows, name)
<1>1. ASSUME \A k \in IdemKey : Txn(k) \notin DOMAIN x.writes PROVE PostingTable(new) = PostingTable(rows)
  <2>1. \A k \in IdemKey : new[Txn(k)] = rows[Txn(k)]
    BY <1>1, RowFacts DEF Applied
  <2> QED BY <2>1 DEF PostingTable
<1>2. ASSUME \A h \in HoldId : HoldKey(h) \notin DOMAIN x.writes PROVE HoldTable(new) = HoldTable(rows)
  <2>1. \A h \in HoldId : new[HoldKey(h)] = rows[HoldKey(h)]
    BY <1>2, RowFacts DEF Applied
  <2> QED BY <2>1 DEF HoldTable
<1>3. ASSUME \A a \in AccountId : Bal(a) \notin DOMAIN x.writes
      PROVE  /\ Accounts(new) = Accounts(rows)
             /\ \A name \in {"available", "held", "version"} : Balances(new, name) = Balances(rows, name)
  <2>1. \A a \in AccountId : new[Bal(a)] = rows[Bal(a)]
    BY <1>3, RowFacts DEF Applied
  <2> QED BY <2>1 DEF Accounts, Balances
<1> QED BY <1>1, <1>2, <1>3

LEMMA HoldRefines ==
    ASSUME NEW c \in Call, c.method = "HoldFunds", NEW x, NEW h \in HoldId, HoldStored(c, x, h),
           NEW rows, NEW new, Consistent(rows), Applied(x, rows, new)
    PROVE  HoldOf(rows, new, h, c.account, c.payment, c.amount, c.currency)
<1>1. PICK a, p, amt, d : a = c.account /\ p = c.payment /\ amt = c.amount /\ d = -amt
  OBVIOUS
<1>2. a \in AccountId /\ p \in Payment /\ amt \in Int
  BY <1>1, CallFacts
<1>3. /\ DOMAIN x.writes = {Pay(p), HoldKey(h), Bal(a), Req(c.request)}
      /\ Inserted(c, x, h) /\ Reserves(c, x)
  BY <1>1 DEF HoldStored, HoldRows
<1>4. PICK b, n : b = rows[Bal(a)] /\ n = new[Bal(a)]
  OBVIOUS
<1>5. b = x.base[Bal(a)] /\ n = x.writes[Bal(a)]
  BY <1>3, <1>4 DEF Applied
<1>6. b \in BalanceRow /\ b.available >= amt /\ AccountCurrency(a) = c.currency /\ amt > 0
  BY <1>1, <1>3, <1>5 DEF Inserted, Affordable
<1>7. n \in BalanceRow /\ n = Bumped(b, d, amt)
  BY <1>1, <1>3, <1>5 DEF Reserves
<1>8. OthersKept(rows, new, a, a)
  BY <1>3, KeyKinds, RowFacts DEF Applied, OthersKept
<1>9. BumpsOne(rows, new, a, d, amt)
  BY <1>2, <1>4, <1>6, <1>7, <1>8, BumpColumns
<1>10. PostingTable(new) = PostingTable(rows)
  BY <1>3, KeyKinds, TablesKept
<1>11. HoldTable(rows)[h] = NoRow
  BY <1>3 DEF HoldTable, Inserted, Applied
<1>12. HoldTable(new) = [HoldTable(rows) EXCEPT ![h] =
            [account |-> a, payment |-> p, amount |-> amt, currency |-> c.currency, status |-> "active"]]
  <2>1. \A g \in HoldId \ {h} : new[HoldKey(g)] = rows[HoldKey(g)]
    BY <1>3, KeyKinds, RowFacts DEF Applied
  <2>2. new[HoldKey(h)] = [account |-> a, payment |-> p, amount |-> amt, currency |-> c.currency, status |-> "active"]
    BY <1>1, <1>3 DEF Inserted, Applied
  <2> QED BY <2>1, <2>2 DEF HoldTable
<1>13. ASSUME NEW g \in HoldId, rows[HoldKey(g)] # NoRow, rows[HoldKey(g)].status = "active"
       PROVE  rows[HoldKey(g)].payment # p
  <2>1. rows[Pay(p)] = NoRow
    BY <1>1, <1>3 DEF Inserted, Applied
  <2>2. g # NoRow
    BY TransactionsAssumption
  <2> QED BY <1>2, <1>13, <2>1, <2>2 DEF Consistent
<1>14. a \in Accounts(rows) /\ Balances(rows, "available")[a] >= amt
  BY <1>2, <1>4, <1>6, BalanceFields DEF Accounts, Balances
<1> QED BY <1>1, <1>6, <1>9, <1>10, <1>11, <1>12, <1>13, <1>14 DEF HoldOf, BumpsOne

\* A posting is written under a key that was free, and no other.
LEMMA PostRefines ==
    ASSUME NEW x, NEW rows, NEW new, Applied(x, rows, new), NEW key \in IdemKey, Txn(key) \in DOMAIN x.writes,
           \A k \in IdemKey \ {key} : Txn(k) \notin DOMAIN x.writes, NEW posting, Posted(x, key, posting),
           posting.amount > 0
    PROVE  PostOf(rows, new, key, posting)
<1>1. PICK t : t = new[Txn(key)]
  OBVIOUS
<1>2. rows[Txn(key)] = NoRow /\ t \in TxnRow /\ t.posting = posting
  BY <1>1 DEF Posted, Applied
<1>3. t # NoRow
  BY <1>2, TransactionsAssumption
<1>4. \A k \in IdemKey \ {key} : new[Txn(k)] = rows[Txn(k)]
  BY RowFacts DEF Applied
<1> QED BY <1>1, <1>2, <1>3, <1>4 DEF PostOf, PostingTable

LEMMA CaptureRefines ==
    ASSUME NEW c \in Call, c.method = "CaptureFunds", NEW x, CaptureStored(c, x), HoldKey(c.hold) \in x.locked,
           NEW rows, NEW new, Applied(x, rows, new), NEW h, h = c.hold, NEW row, row = rows[HoldKey(h)]
    PROVE  /\ CaptureOf(rows, new, h, row, c.amount)
           /\ x.emitted = Events(c, h, row) /\ h \in HoldId
<1>1. PICK u, v, k : u = row.account /\ v = Payable(row.currency) /\ k = CaptureKey(h)
  OBVIOUS
<1>2. HoldKey(h) \in DOMAIN x.writes /\ h \in HoldId /\ c.amount \in Int
  BY CallFacts DEF CaptureStored, CaptureRows
<1>3. row = CaptureRow(c, x)
  BY <1>2 DEF CaptureRow, Applied
<1>4. Payer(c, x) = Bal(u) /\ Payee(c, x) = Bal(v)
  BY <1>1, <1>3 DEF Payer, Payee
<1>5. DOMAIN x.writes = {Txn(k), Bal(u), Bal(v), HoldKey(h), Pay(row.payment), Req(c.request)}
  BY <1>1, <1>3, <1>4 DEF CaptureStored, CaptureRows
<1>6. Transferred(c, x) /\ Closed(x, h, "captured")
  BY DEF CaptureStored
<1>7. Capturing(c, x) /\ Posted(x, k, CapturePosting(c, x))
  BY <1>1, <1>6 DEF Transferred
<1>8. row \in HoldRow /\ row.status = "active" /\ c.amount \in 1 .. row.amount /\ x.emitted = Events(c, h, row)
  BY <1>3, <1>7 DEF Capturing, Locked, CaptureRow
<1>9. row # NoRow /\ u \in AccountId /\ v \in AccountId /\ k \in IdemKey /\ row.amount \in Nat
  BY <1>1, <1>2, <1>8, ConstantsAssumption, HoldRowFacts, AccountFacts
<1>10. PICK posting : posting = [debit |-> u, credit |-> v, amount |-> c.amount, currency |-> row.currency]
  OBVIOUS
<1>11. PostOf(rows, new, k, posting)
  <2>1. posting = CapturePosting(c, x)
    BY <1>1, <1>3, <1>10 DEF CapturePosting
  <2>3. posting.amount = c.amount /\ c.amount > 0
    BY <1>8, <1>9, <1>10
  <2>2. Txn(k) \in DOMAIN x.writes /\ \A j \in IdemKey \ {k} : Txn(j) \notin DOMAIN x.writes
    BY <1>5, KeyKinds
  <2> QED BY <1>7, <1>9, <2>1, <2>2, <2>3, PostRefines
<1>12. PICK b, q, m, n : b = rows[Bal(u)] /\ q = rows[Bal(v)] /\ m = new[Bal(u)] /\ n = new[Bal(v)]
  OBVIOUS
<1>13. b = x.base[Payer(c, x)] /\ q = x.base[Payee(c, x)] /\ m = x.writes[Payer(c, x)] /\ n = x.writes[Payee(c, x)]
  BY <1>4, <1>5, <1>12 DEF Applied
<1>14. b \in BalanceRow /\ q \in BalanceRow /\ m \in BalanceRow /\ n \in BalanceRow
  BY <1>6, <1>13 DEF Transferred
<1>15. PICK d, e, f, p : d = row.amount - c.amount /\ e = -row.amount /\ f = c.amount /\ p = Bumped(b, d, e)
  OBVIOUS
<1>16. d \in Int /\ e \in Int /\ f \in Int
  BY <1>2, <1>9, <1>15
<1>17. p = Paid(c, x)
  BY <1>3, <1>13, <1>15 DEF Paid
<1>18. IF u = v THEN n = Bumped(p, f, 0) ELSE m = p /\ n = Bumped(q, f, 0)
  <2>1. u = v <=> Payer(c, x) = Payee(c, x)
    BY <1>4, KeyKinds
  <2> QED BY <1>6, <1>13, <1>15, <1>17, <2>1 DEF Transferred
<1>19. OthersKept(rows, new, u, v)
  BY <1>5, KeyKinds, RowFacts DEF Applied, OthersKept
<1>20. BumpsTwo(rows, new, u, v, d, e, f)
  BY <1>9, <1>12, <1>14, <1>15, <1>16, <1>18, <1>19, BumpBoth
<1>21. HoldTable(new) = [HoldTable(rows) EXCEPT ![h].status = "captured"]
  <2>1. \A g \in HoldId \ {h} : new[HoldKey(g)] = rows[HoldKey(g)]
    BY <1>5, KeyKinds, RowFacts DEF Applied
  <2>2. new[HoldKey(h)] = [row EXCEPT !.status = "captured"]
    BY <1>2, <1>3, <1>6 DEF Closed, Settled, Applied, CaptureRow
  <2> QED BY <1>2, <2>1, <2>2 DEF HoldTable
<1>22. HoldTable(rows)[h] = row /\ c.amount > 0 /\ c.amount <= row.amount
  BY <1>2, <1>8, <1>9 DEF HoldTable
<1> QED BY <1>1, <1>2, <1>8, <1>9, <1>10, <1>11, <1>15, <1>20, <1>21, <1>22 DEF CaptureOf, BumpsTwo

\* What a balance is once the holds in D are released, if one of them is on it.
LEMMA FreedColumns ==
    ASSUME NEW x, NEW D, NEW a, NEW b \in BalanceRow, b = x.base[Bal(a)], NEW n, n = Freed(x, D, a)
    PROVE  /\ n["available"] = b["available"] + ReservedOn(x, D, a)
           /\ n["held"] = b["held"] - ReservedOn(x, D, a)
           /\ n["version"] = b["version"] + CountOn(x, D, a)
<1>1. b["available"] = b.available /\ b["held"] = b.held /\ b["version"] = b.version
  BY BalanceFields
<1> QED BY <1>1 DEF Freed

\* The sums of a release, read off the rows.
LEMMA ReleaseSums ==
    ASSUME NEW x, NEW D \in SUBSET HoldId, NEW rows, NEW a,
           \A h \in D : x.base[HoldKey(h)] = rows[HoldKey(h)] /\ rows[HoldKey(h)] \in HoldRow
    PROVE  /\ ReservedOn(x, D, a) = ReservedIn(rows, D, a) /\ CountOn(x, D, a) = CountIn(rows, D, a)
           /\ (\A h \in D : rows[HoldKey(h)].account # a) => ReservedIn(rows, D, a) = 0 /\ CountIn(rows, D, a) = 0
           /\ ReservedIn(rows, D, a) \in Int
<1>1. PICK f : f = [h \in HoldId |-> IF h \in D /\ rows[HoldKey(h)].account = a THEN rows[HoldKey(h)].amount ELSE 0]
  OBVIOUS
<1>2. f \in [HoldId -> Int]
  BY <1>1, HoldRowFacts
<1>3. f = AmountsOn(x, D, a)
  BY <1>1 DEF AmountsOn
<1>4. ReservedOn(x, D, a) = SumFunction(f) /\ ReservedIn(rows, D, a) = SumFunction(f)
  BY <1>1, <1>3 DEF ReservedOn, ReservedIn
<1>5. {h \in D : x.base[HoldKey(h)].account = a} = {h \in D : rows[HoldKey(h)].account = a}
  OBVIOUS
<1>6. CountOn(x, D, a) = CountIn(rows, D, a)
  BY <1>5 DEF CountOn, CountIn
<1>7. IsFiniteSet(HoldId)
  BY ConstantsAssumption
<1>8. SumFunction(f) \in Int
  BY <1>2, <1>7, SumType
<1>9. ASSUME \A h \in D : rows[HoldKey(h)].account # a PROVE SumFunction(f) = 0 /\ CountIn(rows, D, a) = 0
  <2>1. \A h \in HoldId : f[h] = 0
    BY <1>1, <1>9
  <2>2. SumFunction(f) = 0
    BY <1>2, <1>7, <2>1, SumZero
  <2>3. {h \in D : rows[HoldKey(h)].account = a} = {}
    BY <1>9
  <2> QED BY <2>2, <2>3, FS_EmptySet DEF CountIn
<1> QED BY <1>4, <1>6, <1>8, <1>9

\* The columns of a balance that is left as it is.
LEMMA KeptColumn ==
    ASSUME NEW rows, NEW new, NEW a \in AccountId, new[Bal(a)] = rows[Bal(a)], rows[Bal(a)] \in BalanceRow \cup {NoRow},
           NEW name \in {"available", "held", "version"}
    PROVE  Balances(new, name)[a] = Balances(rows, name)[a] /\ Balances(rows, name)[a] \in Int
<1>1. PICK b : b = rows[Bal(a)]
  OBVIOUS
<1>2. CASE b = NoRow
  <2>1. Balances(new, name)[a] = 0 /\ Balances(rows, name)[a] = 0
    BY <1>1, <1>2 DEF Balances
  <2> QED BY <2>1
<1>3. CASE b # NoRow
  <2>1. Balances(new, name)[a] = b[name] /\ Balances(rows, name)[a] = b[name]
    BY <1>1, <1>3 DEF Balances
  <2>2. b[name] \in Int
    BY <1>1, <1>3, BalanceFields
  <2> QED BY <2>1, <2>2
<1> QED BY <1>2, <1>3

LEMMA ReleaseRefines ==
    ASSUME NEW c \in Call, NEW x, NEW D \in SUBSET HoldId, Targets(c, x, D), Effects(c, x, D, D, D),
           NEW R, DOMAIN x.writes = ReleaseRows(c, x, D, D) \cup R, \A r \in R : r[1] = "grpc_idempotency",
           NEW rows, NEW new, Consistent(rows), Applied(x, rows, new)
    PROVE  ReleaseOf(rows, new, D, StatusOf(c))
<1>1. /\ \A a : Bal(a) \in DOMAIN x.writes <=> Bal(a) \in BalancesOf(x, D)
      /\ \A h : HoldKey(h) \in DOMAIN x.writes <=> h \in D
      /\ \A k : Txn(k) \notin DOMAIN x.writes
  BY ReleaseRowKinds, KeyKinds
<1>2. \A h \in D : x.base[HoldKey(h)] = rows[HoldKey(h)] /\ new[HoldKey(h)] = x.writes[HoldKey(h)]
  BY <1>1 DEF Applied
<1>3. \A h \in D : rows[HoldKey(h)] \in HoldRow /\ rows[HoldKey(h)].status = "active"
  BY <1>2 DEF Targets, Locked
<1>4. \A h \in D : new[HoldKey(h)] = [rows[HoldKey(h)] EXCEPT !.status = StatusOf(c)]
  BY <1>2 DEF Effects, Closed, Settled
<1>5. \A h \in HoldId \ D : new[HoldKey(h)] = rows[HoldKey(h)]
  BY <1>1, RowFacts DEF Applied
<1>6. PICK status : status = StatusOf(c)
  OBVIOUS
<1>7. HoldTable(new) = [h \in HoldId |->
            IF h \in D THEN [rows[HoldKey(h)] EXCEPT !.status = status] ELSE rows[HoldKey(h)]]
  BY <1>4, <1>5, <1>6 DEF HoldTable
<1>8. ASSUME NEW a \in AccountId
      PROVE  /\ Balances(new, "available")[a] = Balances(rows, "available")[a] + ReservedIn(rows, D, a)
             /\ Balances(new, "held")[a] = Balances(rows, "held")[a] - ReservedIn(rows, D, a)
             /\ Balances(new, "version")[a] = Balances(rows, "version")[a] + CountIn(rows, D, a)
             /\ new[Bal(a)] = NoRow <=> rows[Bal(a)] = NoRow
  <2>1. PICK b, n : b = rows[Bal(a)] /\ n = new[Bal(a)]
    OBVIOUS
  <2>2. CASE Bal(a) \in BalancesOf(x, D)
    <3>1. b = x.base[Bal(a)] /\ n = x.writes[Bal(a)]
      BY <1>1, <2>1, <2>2 DEF Applied
    <3>2. b \in BalanceRow /\ n = Freed(x, D, a) /\ n \in BalanceRow
      BY <2>2, <3>1 DEF Effects, BalancesFreed
    <3>3. b # NoRow /\ n # NoRow
      BY <3>2, BalanceFields
    <3>4. /\ n["available"] = b["available"] + ReservedOn(x, D, a)
          /\ n["held"] = b["held"] - ReservedOn(x, D, a)
          /\ n["version"] = b["version"] + CountOn(x, D, a)
      BY <3>1, <3>2, FreedColumns
    <3>5. ReservedOn(x, D, a) = ReservedIn(rows, D, a) /\ CountOn(x, D, a) = CountIn(rows, D, a)
      BY <1>2, <1>3, ReleaseSums
    <3> QED BY <2>1, <3>3, <3>4, <3>5 DEF Balances
  <2>3. CASE Bal(a) \notin BalancesOf(x, D)
    <3>1. n = b
      BY <1>1, <2>1, <2>3, RowFacts DEF Applied
    <3>2. \A h \in D : rows[HoldKey(h)].account # a
      BY <1>2, <2>3 DEF BalancesOf
    <3>3. ReservedIn(rows, D, a) = 0 /\ CountIn(rows, D, a) = 0
      BY <1>2, <1>3, <3>2, ReleaseSums
    <3>4. new[Bal(a)] = rows[Bal(a)] /\ rows[Bal(a)] \in BalanceRow \cup {NoRow}
      BY <2>1, <3>1 DEF Consistent
    <3>5. ASSUME NEW name \in {"available", "held", "version"}
          PROVE  Balances(new, name)[a] = Balances(rows, name)[a] /\ Balances(rows, name)[a] \in Int
      BY <3>4, KeptColumn
    <3> QED BY <3>3, <3>4, <3>5
  <2> QED BY <2>2, <2>3
<1>9. Balances(new, "available") = [a \in AccountId |-> Balances(rows, "available")[a] + ReservedIn(rows, D, a)]
  BY <1>8 DEF Balances
<1>10. Balances(new, "held") = [a \in AccountId |-> Balances(rows, "held")[a] - ReservedIn(rows, D, a)]
  BY <1>8 DEF Balances
<1>11. Balances(new, "version") = [a \in AccountId |-> Balances(rows, "version")[a] + CountIn(rows, D, a)]
  BY <1>8 DEF Balances
<1>12. Accounts(new) = Accounts(rows)
  BY <1>8 DEF Accounts
<1>13. PostingTable(new) = PostingTable(rows)
  BY <1>1, TablesKept
<1>14. \A h \in D : h \in HoldId
  OBVIOUS
<1> QED BY <1>3, <1>6, <1>7, <1>9, <1>10, <1>11, <1>12, <1>13, <1>14 DEF ReleaseOf

LEMMA NewBalanceFields ==
    /\ NewBalance["available"] = 0 /\ NewBalance["held"] = 0 /\ NewBalance["version"] = 0
    /\ NewBalance.available = 0 /\ NewBalance.held = 0 /\ NewBalance.version = 0 /\ NewBalance \in BalanceRow
BY ConstantsAssumption DEF NewBalance, BalanceRow

\* An event's row is in no table of Ledger.
LEMMA EventRowsOnly ==
    ASSUME NEW x, NEW rows, NEW new, Applied(x, rows, new), \A row \in DOMAIN x.writes : row[1] = "processed_events"
    PROVE  SameTables(rows, new)
<1>1. /\ \A k \in IdemKey : Txn(k) \notin DOMAIN x.writes
      /\ \A h \in HoldId : HoldKey(h) \notin DOMAIN x.writes
      /\ \A a \in AccountId : Bal(a) \notin DOMAIN x.writes
  BY KeyKinds
<1> QED BY <1>1, TablesKept DEF SameTables

LEMMA OpenedRefines ==
    ASSUME NEW c \in Call, NEW x, NEW a \in UserAccount, RegisterOpened(c, x, a),
           NEW rows, NEW new, Consistent(rows), Applied(x, rows, new)
    PROVE  OpenOf(rows, new, a) /\ NoDepositOf(rows, new)
<1>1. DOMAIN x.writes = {Ev(c.event), Bal(a)} /\ x.base[Bal(a)] = NoRow /\ x.writes[Bal(a)] = NewBalance
  BY DEF RegisterOpened, Opening
<1>2. rows[Bal(a)] = NoRow /\ new[Bal(a)] = NewBalance /\ a \in AccountId
  BY <1>1, AccountFacts DEF Applied
<1>3. \A b \in AccountId \ {a} : new[Bal(b)] = rows[Bal(b)]
  BY <1>1, KeyKinds, RowFacts DEF Applied
<1>4. NewBalance # NoRow
  BY NewBalanceFields, BalanceThere
<1>5. ASSUME NEW name \in {"available", "held", "version"} PROVE Balances(new, name) = Balances(rows, name)
  <2>1. NewBalance[name] = 0
    BY NewBalanceFields
  <2>2. Balances(new, name)[a] = Balances(rows, name)[a]
    BY <1>2, <1>4, <2>1 DEF Balances
  <2>3. \A b \in AccountId \ {a} : Balances(new, name)[b] = Balances(rows, name)[b]
    BY <1>3 DEF Balances
  <2>4. \A b \in AccountId : Balances(new, name)[b] = Balances(rows, name)[b]
    BY <2>2, <2>3
  <2> QED BY <2>4 DEF Balances
<1>6. a \in UserAccount \ Accounts(rows) /\ Accounts(new) = Accounts(rows) \cup {a}
  BY <1>2, <1>3, <1>4 DEF Accounts
<1>7. HoldTable(new) = HoldTable(rows) /\ PostingTable(new) = PostingTable(rows)
  BY <1>1, KeyKinds, TablesKept
<1> QED BY <1>5, <1>6, <1>7 DEF OpenOf, NoDepositOf

LEMMA CreditedRefines ==
    ASSUME NEW c \in Call, c.method = "UserRegistered", NEW x, NEW a \in UserAccount, RegisterCredited(c, x, a),
           NEW rows, NEW new, Consistent(rows), Applied(x, rows, new)
    PROVE  OpenOf(rows, new, a) /\ DepositOf(rows, new, c, a)
<1>1. PICK s, k, seed : s = Settlement(DefaultCurrency) /\ k = WelcomeKey(c.user) /\ seed = c.seed
  OBVIOUS
<1>2. seed \in Int /\ seed > 0 /\ k \in IdemKey /\ s \in AccountId /\ a \in AccountId /\ s # a
  <2>1. c.user \in User /\ c.seed \in Int
    BY CallFacts
  <2>2. s \in SystemAccount
    BY <1>1, ConstantsAssumption DEF SystemAccount
  <2> QED BY <1>1, <2>1, <2>2, AccountFacts DEF RegisterCredited
<1>3. DOMAIN x.writes = {Ev(c.event), Bal(a), Txn(k), Bal(s)}
  BY <1>1 DEF RegisterCredited, DepositRows, SettlementRow
<1>4. PICK b, m, n : b = rows[Bal(s)] /\ m = new[Bal(s)] /\ n = new[Bal(a)]
  OBVIOUS
<1>5. b \in BalanceRow /\ m = Bumped(b, seed, 0) /\ m \in BalanceRow
  BY <1>1, <1>3, <1>4 DEF RegisterCredited, Debited, SettlementRow, Applied
<1>6. n = Bumped(NewBalance, seed, 0) /\ n \in BalanceRow /\ rows[Bal(a)] = NoRow
  BY <1>1, <1>3, <1>4 DEF RegisterCredited, Opening, Applied
<1>7. b # NoRow /\ m # NoRow /\ n # NoRow
  BY <1>5, <1>6, BalanceFields
<1>8. m["available"] = b["available"] + seed /\ m["held"] = b["held"] /\ m["version"] = b["version"] + 1
  <2>1. /\ b["available"] = b.available /\ b["held"] = b.held /\ b["version"] = b.version /\ b.held \in Int
    BY <1>5, BalanceFields
  <2>2. m["available"] = b.available + seed /\ m["held"] = b.held + 0 /\ m["version"] = b.version + 1
    BY <1>5, BumpedFields
  <2> QED BY <2>1, <2>2
<1>9. n["available"] = seed /\ n["held"] = 0 /\ n["version"] = 1
  <2>1. /\ n["available"] = NewBalance.available + seed /\ n["held"] = NewBalance.held + 0
        /\ n["version"] = NewBalance.version + 1
    BY <1>6, BumpedFields
  <2> QED BY <1>2, <2>1, NewBalanceFields
<1>10. \A o \in AccountId \ {s, a} : new[Bal(o)] = rows[Bal(o)]
  BY <1>3, KeyKinds, RowFacts DEF Applied
<1>11. Balances(new, "available") = [[Balances(rows, "available") EXCEPT ![s] = @ + seed] EXCEPT ![a] = @ + seed]
  <2>1. PICK f, g : f = Balances(rows, "available") /\ g = Balances(new, "available")
    OBVIOUS
  <2>2. f = [o \in AccountId |-> f[o]] /\ g = [o \in AccountId |-> g[o]]
    BY <2>1 DEF Balances
  <2>3. f[a] = 0 /\ g[a] = seed
    BY <1>2, <1>4, <1>6, <1>7, <1>9, <2>1 DEF Balances
  <2>4. g[s] = f[s] + seed
    BY <1>2, <1>4, <1>7, <1>8, <2>1 DEF Balances
  <2>5. \A o \in AccountId \ {s, a} : g[o] = f[o]
    BY <1>10, <2>1 DEF Balances
  <2>6. g = [[f EXCEPT ![s] = @ + seed] EXCEPT ![a] = @ + seed]
    BY <1>2, <2>2, <2>3, <2>4, <2>5
  <2> QED BY <2>1, <2>6
<1>12. Balances(new, "version") = [[Balances(rows, "version") EXCEPT ![s] = @ + 1] EXCEPT ![a] = @ + 1]
  <2>1. PICK f, g : f = Balances(rows, "version") /\ g = Balances(new, "version")
    OBVIOUS
  <2>2. f = [o \in AccountId |-> f[o]] /\ g = [o \in AccountId |-> g[o]]
    BY <2>1 DEF Balances
  <2>3. f[a] = 0 /\ g[a] = 1
    BY <1>2, <1>4, <1>6, <1>7, <1>9, <2>1 DEF Balances
  <2>4. g[s] = f[s] + 1
    BY <1>2, <1>4, <1>7, <1>8, <2>1 DEF Balances
  <2>5. \A o \in AccountId \ {s, a} : g[o] = f[o]
    BY <1>10, <2>1 DEF Balances
  <2>6. g = [[f EXCEPT ![s] = @ + 1] EXCEPT ![a] = @ + 1]
    BY <1>2, <2>2, <2>3, <2>4, <2>5
  <2> QED BY <2>1, <2>6
<1>13. Balances(new, "held") = Balances(rows, "held")
  BY <1>2, <1>4, <1>6, <1>7, <1>8, <1>9, <1>10 DEF Balances
<1>14. a \in UserAccount \ Accounts(rows) /\ Accounts(new) = Accounts(rows) \cup {a}
  BY <1>2, <1>4, <1>6, <1>7, <1>10 DEF Accounts
<1>15. HoldTable(new) = HoldTable(rows)
  BY <1>3, KeyKinds, TablesKept
<1>16. PICK posting : posting = WelcomePosting(c, a)
  OBVIOUS
<1>17. PostOf(rows, new, k, posting)
  <2>1. Txn(k) \in DOMAIN x.writes /\ \A j \in IdemKey \ {k} : Txn(j) \notin DOMAIN x.writes
    BY <1>3, KeyKinds
  <2>2. Posted(x, k, posting) /\ posting.amount > 0
    BY <1>1, <1>2, <1>16 DEF RegisterCredited, WelcomePosting
  <2> QED BY <1>2, <2>1, <2>2, PostRefines
<1> QED BY <1>1, <1>11, <1>12, <1>13, <1>14, <1>15, <1>16, <1>17 DEF OpenOf, DepositOf

-----------------------------------------------------------------------------
(* A commit is the step of Ledger that its call stands for. *)

\* A release, with the events it has written.
LEMMA ReleaseStepRefines ==
    ASSUME TxInv, NEW c \in Call, NEW x, NEW D \in SUBSET HoldId, Targets(c, x, D), Effects(c, x, D, D, D),
           NEW R, DOMAIN x.writes = ReleaseRows(c, x, D, D) \cup R, \A r \in R : r[1] = "grpc_idempotency",
           Applied(x, db, db'), StorableRows(db'), outbox' = outbox \cup x.emitted, due' = due
    PROVE  /\ L!ReleaseAll(D, ReasonOf(c))
           /\ \A h \in D : L!Active(h) /\ db[HoldKey(h)] = x.base[HoldKey(h)]
<1>1. Consistent(db)
  BY DEF TxInv, TablesOK
<1>2. PICK new, status, reason : new = db' /\ status = StatusOf(c) /\ reason = ReasonOf(c)
  OBVIOUS
<1>3. ReleaseOf(db, new, D, status)
  BY <1>1, <1>2, ReleaseRefines
<1>4. \A h \in D : HoldKey(h) \in DOMAIN x.writes
  BY ReleaseRowKinds
<1>5. \A h \in D : db[HoldKey(h)] = x.base[HoldKey(h)]
  BY <1>4 DEF Applied
<1>6. x.emitted = {Funds("released", h, db[HoldKey(h)].account, db[HoldKey(h)].amount, reason) : h \in D}
  <2>1. x.emitted = {Funds("released", h, x.base[HoldKey(h)].account, x.base[HoldKey(h)].amount, reason) : h \in D}
    BY <1>2 DEF Effects, ReleasedEvents
  <2> QED BY <1>5, <2>1
<1>7. status = IF reason = "expiry" THEN "expired" ELSE "released"
  BY <1>2 DEF StatusOf
<1>8. L!ReleaseAll(D, reason)
  BY <1>2, <1>3, <1>6, <1>7, LedgerRelease
<1>9. \A h \in D : L!Active(h)
  BY <1>3, ConstantsAssumption DEF L!Active, ReleaseOf
<1> QED BY <1>2, <1>5, <1>8, <1>9

\* What a commit is, as the invariant has it.
Committed(w, c, x) ==
    /\ c \in Call /\ Stage(c, x) /\ x.todo = <<>> /\ Applied(x, db, db')
    /\ StorableRows(db') /\ outbox' = outbox \cup x.emitted /\ due' = due
    /\ c.method = "Sweep" => \A h \in HoldId : HoldKey(h) \in x.locked => h \in due

LEMMA CommitCommitted ==
    ASSUME TxInv, NEW w \in Worker, NEW result \in Result, Commit(w, result), NEW c, c = call[w], NEW x, x = Progress(w)
    PROVE  Committed(w, c, x)
<1>1. c \in Call /\ Stage(c, x) /\ x.todo = <<>> /\ Applied(x, db, db') /\ x.emitted = tx[w].emitted
  BY CommitFacts
<1>2. PICK new : new = db'
  OBVIOUS
<1>3. Consistent(new)
  <2>1. TxInv'
    BY CommitStep
  <2> QED BY <1>2, <2>1 DEF TxInv, TablesOK
<1>4. StorableRows(db')
  BY <1>2, <1>3, ConsistentStorable
<1>5. outbox' = outbox \cup x.emitted /\ due' = due /\ Running(w)
  BY <1>1 DEF Commit
<1>6. x.locked = tx[w].locked
  BY <1>5, ProgressFacts
<1>7. TargetOK(w)
  BY DEF TxInv, WorkerOK
<1> QED BY <1>1, <1>4, <1>5, <1>6, <1>7 DEF Committed, TargetOK

LEMMA CommitHold ==
    ASSUME TxInv, NEW w \in Worker, NEW c, NEW x, Committed(w, c, x), c.method = "HoldFunds", ~ Hit(c, x)
    PROVE  \E h \in HoldId : L!Hold(h, c.account, c.payment, c.amount, c.currency)
<1>1. PICK h \in HoldId : HoldStored(c, x, h)
  BY LastStage DEF Committed
<1>2. c \in Call /\ Consistent(db) /\ Applied(x, db, db')
  BY DEF Committed, TxInv, TablesOK
<1>3. PICK a, p, amt, cur : a = c.account /\ p = c.payment /\ amt = c.amount /\ cur = c.currency
  OBVIOUS
<1>4. HoldOf(db, db', h, a, p, amt, cur)
  BY <1>1, <1>2, <1>3, HoldRefines
<1>5. x.emitted = {Funds("held", h, a, amt, "none")} /\ a \in AccountId
  BY <1>1, <1>2, <1>3, CallFacts DEF HoldStored, Inserted
<1>6. L!Hold(h, a, p, amt, cur)
  BY <1>4, <1>5, LedgerHold DEF Committed
<1> QED BY <1>3, <1>6

LEMMA CommitCapture ==
    ASSUME TxInv, NEW w \in Worker, NEW c, NEW x, Committed(w, c, x), c.method = "CaptureFunds", ~ Hit(c, x)
    PROVE  L!Capture(c.hold, c.amount)
<1>1. HoldKey(c.hold) \in x.locked /\ CaptureStored(c, x)
  BY LastStage DEF Committed
<1>2. PICK h, row : h = c.hold /\ row = db[HoldKey(h)]
  OBVIOUS
<1>3. c \in Call /\ Applied(x, db, db')
  BY DEF Committed
<1>4. CaptureOf(db, db', h, row, c.amount) /\ x.emitted = Events(c, h, row) /\ h \in HoldId
  BY <1>1, <1>2, <1>3, CaptureRefines
<1>5. L!Capture(h, c.amount)
  BY <1>3, <1>4, LedgerCapture DEF Committed
<1> QED BY <1>2, <1>5

LEMMA CommitRelease ==
    ASSUME TxInv, NEW w \in Worker, NEW c, NEW x, Committed(w, c, x), c.method = "ReleaseFunds", ~ Hit(c, x)
    PROVE  L!Release(c.hold, c.reason)
<1>1. PICK h \in HoldId : ReleaseStored(c, x, h)
  BY LastStage DEF Committed
<1>2. PICK D, R : D = {h} /\ R = {Req(c.request)}
  OBVIOUS
<1>3. Targets(c, x, D) /\ Effects(c, x, D, D, D) /\ DOMAIN x.writes = ReleaseRows(c, x, D, D) \cup R
  BY <1>1, <1>2 DEF ReleaseStored
<1>4. h = c.hold
  BY <1>2, <1>3 DEF Targets
<1>5. D \in SUBSET HoldId /\ \A r \in R : r[1] = "grpc_idempotency"
  BY <1>2, KeyKinds
<1>6. L!ReleaseAll(D, ReasonOf(c))
  BY <1>3, <1>5, ReleaseStepRefines DEF Committed
<1>7. ReasonOf(c) = c.reason
  BY DEF ReasonOf
<1> QED BY <1>2, <1>4, <1>6, <1>7 DEF L!Release

LEMMA CommitCompensation ==
    ASSUME TxInv, NEW w \in Worker, NEW c, NEW x, Committed(w, c, x), c.method = "PaymentFailed",
           NEW D \in SUBSET HoldId, ReleaseDone(c, x, D)
    PROVE  L!ReleaseByPayment(c.payment, "compensation")
<1>1. PICK R : R = {}
  OBVIOUS
<1>2. Targets(c, x, D) /\ Effects(c, x, D, D, D) /\ DOMAIN x.writes = ReleaseRows(c, x, D, D) \cup R
  BY <1>1 DEF ReleaseDone
<1>3. PICK h \in HoldId : D = {h}
  BY <1>2 DEF Targets
<1>4. x.base[HoldKey(h)].payment = c.payment
  BY <1>2, <1>3 DEF Targets
<1>5. L!ReleaseAll(D, ReasonOf(c)) /\ L!Active(h) /\ db[HoldKey(h)] = x.base[HoldKey(h)]
  <2>1. \A r \in R : r[1] = "grpc_idempotency"
    BY <1>1
  <2>2. /\ L!ReleaseAll(D, ReasonOf(c))
        /\ \A g \in D : L!Active(g) /\ db[HoldKey(g)] = x.base[HoldKey(g)]
    BY <1>2, <2>1, ReleaseStepRefines DEF Committed
  <2> QED BY <1>3, <2>2
<1>6. ReasonOf(c) = "compensation"
  BY DEF ReasonOf
<1>7. L!Release(h, "compensation")
  BY <1>3, <1>5, <1>6 DEF L!Release
<1>8. [g \in HoldId |-> db[HoldKey(g)]][h].payment = c.payment
  BY <1>4, <1>5
<1> QED BY <1>5, <1>7, <1>8, Zenon DEF L!ReleaseByPayment

LEMMA CommitSweep ==
    ASSUME TxInv, NEW w \in Worker, NEW c, NEW x, Committed(w, c, x), c.method = "Sweep",
           NEW D \in SUBSET HoldId, ReleaseDone(c, x, D), D # {}
    PROVE  L!SweepExpiredHolds
<1>1. PICK R : R = {}
  OBVIOUS
<1>2. Targets(c, x, D) /\ Effects(c, x, D, D, D) /\ DOMAIN x.writes = ReleaseRows(c, x, D, D) \cup R
  BY <1>1 DEF ReleaseDone
<1>3. L!ReleaseAll(D, ReasonOf(c)) /\ \A h \in D : L!Active(h)
  BY <1>1, <1>2, ReleaseStepRefines DEF Committed
<1>4. ReasonOf(c) = "expiry"
  BY DEF ReasonOf
<1>5. \A h \in D : h \in due
  BY <1>2 DEF Targets, Committed
<1>6. D \in SUBSET L!DueHolds
  BY <1>3, <1>5 DEF L!DueHolds
<1>7. L!Cardinality(D) <= SweepLimit
  <2>1. Cardinality(D) + 0 + Len(x.todo) <= SweepLimit
    BY DEF ReleaseDone, Pending
  <2>2. Len(x.todo) = 0
    BY DEF Committed
  <2>3. Cardinality(D) \in Nat
    BY ConstantsAssumption, FS_Subset, FS_CardinalityType
  <2> QED BY <2>1, <2>2, <2>3, SameCardinality
<1> QED BY <1>3, <1>4, <1>6, <1>7 DEF L!SweepExpiredHolds

LEMMA CommitRegister ==
    ASSUME TxInv, NEW w \in Worker, NEW c, NEW x, Committed(w, c, x), c.method = "UserRegistered", ~ Processed(c, x)
    PROVE  \E a \in UserAccount : L!OnUserRegistered(c.user, a, c.seed)
<1>1. PICK a \in UserAccount : (c.seed <= 0 /\ RegisterOpened(c, x, a)) \/ RegisterCredited(c, x, a)
  BY LastStage DEF Committed
<1>2. c \in Call /\ Consistent(db) /\ Applied(x, db, db') /\ c.seed \in Int
  BY CallFacts DEF Committed, TxInv, TablesOK
<1>3. outbox' = outbox
  <2>1. x.emitted = {}
    BY <1>1 DEF RegisterOpened, RegisterCredited, Opening
  <2> QED BY <2>1 DEF Committed
<1>4. OpenOf(db, db', a)
  BY <1>1, <1>2, OpenedRefines, CreditedRefines
<1>5. IF c.seed > 0 THEN DepositOf(db, db', c, a) ELSE NoDepositOf(db, db')
  <2>1. CASE c.seed <= 0 /\ RegisterOpened(c, x, a)
    BY <1>2, <2>1, OpenedRefines
  <2>2. CASE RegisterCredited(c, x, a)
    <3>1. c.seed > 0
      BY <2>2 DEF RegisterCredited
    <3> QED BY <1>2, <2>2, <3>1, CreditedRefines
  <2> QED BY <1>1, <2>1, <2>2
<1> QED BY <1>2, <1>3, <1>4, <1>5, LedgerRegister DEF Committed

\* A commit that leaves the tables of Ledger as they are.
LEMMA CommitNothing ==
    ASSUME NEW w \in Worker, NEW c, NEW x, Committed(w, c, x), x.emitted = {},
           \A row \in DOMAIN x.writes : row[1] = "processed_events"
    PROVE  UNCHANGED L!vars
<1>1. PICK new : new = db'
  OBVIOUS
<1>2. SameTables(db, new)
  BY <1>1, EventRowsOnly DEF Committed
<1>3. outbox' = outbox /\ due' = due
  BY DEF Committed
<1> QED BY <1>1, <1>2, <1>3, LedgerStutter

LEMMA CommitOperation ==
    ASSUME TxInv, NEW w \in Worker, NEW c, NEW x, Committed(w, c, x)
    PROVE  Operation(c) \/ UNCHANGED L!vars
<1>1. c \in Call /\ c.method \in {"HoldFunds", "CaptureFunds", "ReleaseFunds", "Sweep", "UserRegistered", "PaymentFailed"}
  BY CallFacts DEF Committed
<1>2. CASE Hit(c, x) \/ Processed(c, x)
  <2>1. x.emitted = {} /\ DOMAIN x.writes = {}
    BY <1>2 DEF Hit, Processed, Untouched
  <2> QED BY <2>1, CommitNothing
<1>3. CASE FailedGated(c, x)
  <2>1. x.emitted = {} /\ DOMAIN x.writes = {Ev(c.event)}
    BY <1>3 DEF FailedGated
  <2> QED BY <2>1, KeyKinds, CommitNothing
<1>4. CASE c.method = "HoldFunds" /\ ~ Hit(c, x)
  BY <1>4, CommitHold DEF Operation
<1>5. CASE c.method = "CaptureFunds" /\ ~ Hit(c, x)
  BY <1>5, CommitCapture DEF Operation
<1>6. CASE c.method = "ReleaseFunds" /\ ~ Hit(c, x)
  BY <1>6, CommitRelease DEF Operation
<1>7. CASE c.method = "Sweep"
  <2>1. PICK D \in SUBSET HoldId : ReleaseDone(c, x, D)
    BY <1>7, LastStage DEF Committed
  <2>2. CASE D = {}
    <3>1. DOMAIN x.writes = ReleaseRows(c, x, D, D) /\ x.emitted = ReleasedEvents(c, x, D)
      BY <2>1 DEF ReleaseDone, Effects
    <3>2. DOMAIN x.writes = {}
      BY <1>7, <2>2, <3>1 DEF ReleaseRows, GateRow, IsEvent, BalancesOf, KeysOf, PaymentsOf
    <3>3. x.emitted = {}
      BY <2>2, <3>1 DEF ReleasedEvents
    <3> QED BY <3>2, <3>3, CommitNothing
  <2>3. CASE D # {}
    BY <1>7, <2>1, <2>3, CommitSweep DEF Operation
  <2> QED BY <2>2, <2>3
<1>8. CASE c.method = "PaymentFailed" /\ ~ Processed(c, x) /\ ~ FailedGated(c, x)
  <2>1. PICK D \in SUBSET HoldId : ReleaseDone(c, x, D)
    BY <1>8, LastStage DEF Committed
  <2>2. L!ReleaseByPayment(c.payment, "compensation")
    BY <1>8, <2>1, CommitCompensation
  <2> QED BY <1>8, <2>2 DEF Operation
<1>9. CASE c.method = "UserRegistered" /\ ~ Processed(c, x)
  BY <1>9, CommitRegister DEF Operation
<1> QED BY <1>1, <1>2, <1>3, <1>4, <1>5, <1>6, <1>7, <1>8, <1>9

LedgerStep ==
    \/ UNCHANGED <<db, outbox, due>>
    \/ \E w \in Worker : Running(w) /\ tx'[w] = NoTx /\ Operation(call[w])
    \/ \E h \in HoldId : L!PassExpiry(h)

LEMMA NextLedgerStep ==
    ASSUME TxInv, [Next]_vars
    PROVE  [LedgerStep]_(L!vars)
<1>1. ASSUME NEW w \in Worker, NEW result \in {"OK", "Internal"}, Commit(w, result) PROVE [LedgerStep]_(L!vars)
  <2>1. PICK c, x : c = call[w] /\ x = Progress(w)
    OBVIOUS
  <2>2. result \in Result
    BY DEF Result
  <2>3. Committed(w, c, x)
    BY <1>1, <2>1, <2>2, CommitCommitted
  <2>4. Operation(c) \/ UNCHANGED L!vars
    BY <2>3, CommitOperation
  <2>5. Running(w) /\ tx'[w] = NoTx
    BY <1>1, CommitFacts DEF Commit
  <2>6. Operation(c) => Operation(call[w])
    BY <2>1
  <2>7. Operation(call[w]) => LedgerStep
    BY <2>5, Zenon DEF LedgerStep
  <2> QED BY <2>4, <2>6, <2>7
<1>2. ASSUME NEW h \in HoldId, PassExpiry(h) PROVE LedgerStep
  BY <1>2, LedgerExpiry DEF LedgerStep
<1>3. ASSUME UNCHANGED <<db, outbox, due>> PROVE LedgerStep
  BY <1>3 DEF LedgerStep
<1> QED BY <1>1, <1>2, <1>3, NextKinds DEF Harmless, Silent, Start, vars

LEMMA CompensationMisses ==
    ASSUME TxInv, [Next]_vars, NEW w \in Worker, NEW c, c = call[w], NEW h \in HoldId, NEW row, row = db'[HoldKey(h)],
           Running(w), tx'[w] = NoTx, c.method = "PaymentFailed", db[Ev(c.event)] = NoRow, db'[Ev(c.event)] # NoRow,
           row # NoRow, row.payment = c.payment, row.status = "active"
    PROVE  Snapshot(w, HoldKey(h)) = NoRow
<1>1. PICK v \in Worker, result \in {"OK", "Internal"} : Commit(v, result)
  BY NextKinds DEF Harmless, Silent, PassExpiry, Start, vars
<1>2. v = w
  BY <1>1, CommitOthers DEF Running
<1>3. PICK x, new : x = Progress(w) /\ new = db'
  OBVIOUS
<1>4. c \in Call /\ Stage(c, x) /\ x.todo = <<>> /\ Applied(x, db, new)
  BY <1>1, <1>2, <1>3, CommitFacts
<1>5. c.event \in EventId /\ c.payment \in Payment /\ Ev(c.event) \in Row /\ HoldKey(h) \in Row
  BY <1>4, CallFacts, RowFacts
<1>6. ~ Processed(c, x)
  BY <1>3, <1>4, <1>5 DEF Processed, Untouched, Applied
<1>7. CASE FailedGated(c, x)
  <2>1. HoldKey(h) \notin DOMAIN x.writes /\ FoundNone(c, x)
    BY <1>4, <1>7, KeyKinds DEF FailedGated, FoundNone
  <2>2. Snapshot(w, Pay(c.payment)) = NoRow /\ SeesActive(w) /\ db[HoldKey(h)] = row
    BY <1>3, <1>4, <1>5, <2>1 DEF TxInv, WorkerOK, OlderOK, TargetOK, Applied
  <2> QED BY <2>2, NoRowFacts DEF SeesActive
<1>8. ASSUME NEW D \in SUBSET HoldId, ReleaseDone(c, x, D) PROVE FALSE
  <2>1. PICK g \in D : x.base[HoldKey(g)].payment = c.payment /\ Closed(x, g, StatusOf(c))
    BY <1>8 DEF ReleaseDone, Targets, Effects
  <2>2. Pay(c.payment) \in DOMAIN x.writes /\ x.writes[Pay(c.payment)] = NoRow
    BY <1>8, <2>1 DEF ReleaseDone, ReleaseRows, PaymentsOf, Closed
  <2>3. Consistent(new)
    BY <1>1, <1>3, CommitStep DEF TxInv, TablesOK, Result
  <2> QED BY <1>3, <1>4, <1>5, <2>2, <2>3, NoRowFacts DEF Applied, Consistent
<1> QED BY <1>4, <1>6, <1>7, <1>8, LastStage

(***************************************************************************)
(* A compensation that commits leaves no hold of its payment active that   *)
(* its snapshot had: it releases the hold, or is tried again.  Only a hold *)
(* placed while it runs escapes it (operations.go:174).                    *)
(***************************************************************************)
THEOREM CompensationsMissOnlyNewer == Spec => MissesOnlyNewer
<1> DEFINE Body == \A w \in Worker, h \in HoldId :
                /\ Running(w) /\ tx'[w] = NoTx /\ call[w].method = "PaymentFailed"
                /\ db[Ev(call[w].event)] = NoRow /\ db'[Ev(call[w].event)] # NoRow
                /\ db'[HoldKey(h)] # NoRow
                /\ db'[HoldKey(h)].payment = call[w].payment /\ db'[HoldKey(h)].status = "active"
                => Snapshot(w, HoldKey(h)) = NoRow
<1>1. TxInv /\ [Next]_vars => Body
  BY CompensationMisses
<1> QED BY <1>1, AlwaysTxInv, PTL DEF Spec, MissesOnlyNewer

(***************************************************************************)
(* The transactions implement Ledger: however the statements of any number *)
(* of them interleave, whatever fails or is retried, a commit is the one   *)
(* atomic step of Ledger that its call stands for, taken on the tables as  *)
(* they are at that moment, or leaves those tables alone.  So whatever     *)
(* the operations of Ledger preserve, the transactions preserve.           *)
(***************************************************************************)
THEOREM TransactionsRefineLedger == Spec => ImplementsLedger
<1>1. TxInv /\ [Next]_vars => [LedgerStep]_(L!vars)
  BY NextLedgerStep
<1> QED BY <1>1, AlwaysTxInv, PTL DEF Spec, ImplementsLedger, LedgerStep

=============================================================================
