------------------------------- MODULE Ledger -------------------------------
(***************************************************************************)
(* The money tables of account-service and the write path into them:       *)
(* internal/ledger (ledger.Facade), over the schema of                     *)
(* migrations/00001_initial.sql.  Each action is one committed             *)
(* transaction: Facade.InTx runs every write path in a serializable        *)
(* transaction, and a call that returns an error has no effect.  The       *)
(* early returns of the code and the constraints of the schema are the     *)
(* conjuncts of an action's guard.                                         *)
(***************************************************************************)
EXTENDS Schema

VARIABLES
    accounts,   \* ids in accounts and in account_balances (always inserted together)
    available,  \* account_balances.available
    held,       \* account_balances.held
    version,    \* account_balances.version
    holds,      \* table holds
    due,        \* the holds whose expires_at < now()
    postings,   \* ledger_transactions and ledger_entries, by their unique key
    outbox      \* table outbox, as a set of rows

vars == <<accounts, available, held, version, holds, due, postings, outbox>>

TypeOK ==
    /\ accounts \subseteq AccountId
    /\ available \in [AccountId -> 0 .. MaxBigint]
    /\ held \in [AccountId -> 0 .. MaxBigint]
    /\ version \in [AccountId -> Nat]
    /\ holds \in [HoldId -> HoldRow \cup {NoRow}]
    /\ due \subseteq HoldId
    /\ postings \in [IdemKey -> Posting \cup {NoRow}]
    /\ outbox \subseteq Event

\* The state the migration leaves behind: the system accounts, with zero balances.
Init ==
    /\ accounts = SystemAccount
    /\ available = [a \in AccountId |-> 0]
    /\ held = [a \in AccountId |-> 0]
    /\ version = [a \in AccountId |-> 0]
    /\ holds = [h \in HoldId |-> NoRow]
    /\ due = {}
    /\ postings = [k \in IdemKey |-> NoRow]
    /\ outbox = {}

-----------------------------------------------------------------------------
(* Helpers of the write path. *)

Active(h) == holds[h] # NoRow /\ holds[h].status = "active"

\* bumpBalance: one column of one row changes by d.
Bump(column, a, d) == [column EXCEPT ![a] = @ + d]

\* Mutant of Storable: the columns have no CHECK and no limit.
Unchecked(column) == \A a \in AccountId : column[a] \in Int

\* The CHECKs (available >= 0, held >= 0) and the range of bigint: an UPDATE
\* that leaves a column outside fails, and the transaction with it.
Storable(column) == \A a \in AccountId : column[a] \in 0 .. MaxBigint

\* Mutant of Post: the two entries are written in the wrong directions.
PostSwapped(key, debit, credit, amt, cur) ==
    /\ amt > 0
    /\ postings[key] = NoRow
    /\ postings' = [postings EXCEPT ![key] =
            [debit |-> credit, credit |-> debit, amount |-> amt, currency |-> cur]]

\* Mutant of Post: the idempotency key is not unique, the newer row wins.
PostAgain(key, debit, credit, amt, cur) ==
    /\ amt > 0
    /\ postings' = [postings EXCEPT ![key] =
            [debit |-> debit, credit |-> credit, amount |-> amt, currency |-> cur]]

\* post: one balanced ledger transaction; a key already used is a unique
\* violation, an amount that is not positive is refused by ValidateBalanced.
Post(key, debit, credit, amt, cur) ==
    /\ amt > 0
    /\ postings[key] = NoRow
    /\ postings' = [postings EXCEPT ![key] =
            [debit |-> debit, credit |-> credit, amount |-> amt, currency |-> cur]]

\* Mutant of LockHold: the status of the row is not looked at.
LockAnyHold(h) == holds[h] # NoRow

\* lockHold, and the check of the status it returns.
LockHold(h) == Active(h)

\* holds_active_payment_uq: no active hold of the payment exists.
PaymentFree(p) == \A g \in HoldId : Active(g) => holds[g].payment # p

\* Mutant of Remainder: a partial capture keeps the rest of the hold.
NoRemainder(h, amt) == 0 * amt

\* What a capture of amt leaves of the hold.
Remainder(h, amt) == holds[h].amount - amt

-----------------------------------------------------------------------------
(* Operations. *)

\* Facade.Hold: reserve amt on account a for payment p under a fresh id h.
Hold(h, a, p, amt, cur) ==
    /\ holds[h] = NoRow
    /\ a \in accounts
    /\ AccountCurrency(a) = cur
    /\ available[a] >= amt
    /\ amt > 0                \* check (amount > 0) of holds
    /\ PaymentFree(p)
    /\ holds' = [holds EXCEPT ![h] =
            [account |-> a, payment |-> p, amount |-> amt, currency |-> cur, status |-> "active"]]
    /\ available' = Bump(available, a, -amt)
    /\ held' = Bump(held, a, amt)
    /\ version' = Bump(version, a, 1)
    /\ Storable(available') /\ Storable(held')
    /\ outbox' = outbox \cup {Funds("held", h, a, amt, "none")}
    /\ UNCHANGED <<accounts, due, postings>>

\* Facade.Capture: post amt of the hold to merchant-payable, free the remainder.
Capture(h, amt) ==
    /\ LockHold(h)
    /\ amt > 0 /\ amt <= holds[h].amount
    /\ LET a == holds[h].account
           payable == Payable(holds[h].currency)
           remainder == Remainder(h, amt)
       IN /\ Post(CaptureKey(h), a, payable, amt, holds[h].currency)
          /\ available' = Bump(Bump(available, a, remainder), payable, amt)
          /\ held' = Bump(held, a, -holds[h].amount)
          /\ version' = Bump(Bump(version, a, 1), payable, 1)
          /\ outbox' = outbox \cup {Funds("captured", h, a, amt, "none")}
                \cup {Funds("released", h, a, r, "partial_capture_remainder") : r \in {remainder} \ {0}}
    /\ Storable(available') /\ Storable(held')
    /\ holds' = [holds EXCEPT ![h].status = "captured"]
    /\ UNCHANGED <<accounts, due>>

\* What the holds in D reserve on account a.
Reserved(D, a) == SumFunction([h \in HoldId |->
    IF h \in D /\ holds[h].account = a THEN holds[h].amount ELSE 0])

\* Facade.Release of every hold in D, all within one transaction.
ReleaseAll(D, reason) ==
    /\ \A h \in D : LockHold(h)
    /\ holds' = [h \in HoldId |->
            IF h \in D
            THEN [holds[h] EXCEPT !.status = IF reason = "expiry" THEN "expired" ELSE "released"]
            ELSE holds[h]]
    /\ available' = [a \in AccountId |-> available[a] + Reserved(D, a)]
    /\ held' = [a \in AccountId |-> held[a] - Reserved(D, a)]
    /\ version' = [a \in AccountId |-> version[a] + Cardinality({h \in D : holds[h].account = a})]
    /\ Storable(available') /\ Storable(held')
    /\ outbox' = outbox \cup
            {Funds("released", h, holds[h].account, holds[h].amount, reason) : h \in D}
    /\ UNCHANGED <<accounts, due, postings>>

\* Facade.Release, as ReleaseFunds calls it.
Release(h, reason) == ReleaseAll({h}, reason)

\* Facade.ReleaseByPayment: release the active hold of the payment; a payment
\* without one is a no-op, which a step of this module need not show.
ReleaseByPayment(p, reason) ==
    \E h \in HoldId : Active(h) /\ holds[h].payment = p /\ Release(h, reason)

\* Mutant of DueHolds: the sweeper compares expires_at the wrong way round.
HoldsNotDue == {h \in HoldId \ due : Active(h)}

\* "status='active' and expires_at < now()".
DueHolds == {h \in due : Active(h)}

\* Facade.SweepExpiredHolds: at most SweepLimit due holds, rows locked by other
\* transactions left out (skip locked), all released or none.
SweepExpiredHolds ==
    \E D \in SUBSET DueHolds :
        /\ D # {} /\ Cardinality(D) <= SweepLimit
        /\ ReleaseAll(D, "expiry")

\* A sweep that finds no row locked: it takes every due hold, or a full batch.
UndisturbedSweep ==
    \E D \in SUBSET DueHolds :
        /\ D # {} /\ Cardinality(D) <= SweepLimit
        /\ D = DueHolds \/ Cardinality(D) = SweepLimit
        /\ ReleaseAll(D, "expiry")

\* Mutant of Deposit: the settlement account's balance is left as it is.
DepositOneSided(a, amt, cur, key) ==
    /\ Post(key, Settlement(cur), a, amt, cur)
    /\ available' = Bump(available, a, amt)
    /\ version' = Bump(version, a, 1)
    /\ Storable(available')

\* Mutant of Deposit: the version of the balances does not advance.
DepositSameVersion(a, amt, cur, key) ==
    /\ Post(key, Settlement(cur), a, amt, cur)
    /\ available' = Bump(Bump(available, Settlement(cur), amt), a, amt)
    /\ version' = version
    /\ Storable(available')

\* Facade.Deposit: from the settlement account of the currency to account a.
Deposit(a, amt, cur, key) ==
    /\ Post(key, Settlement(cur), a, amt, cur)
    /\ available' = Bump(Bump(available, Settlement(cur), amt), a, amt)
    /\ version' = Bump(Bump(version, Settlement(cur), 1), a, 1)
    /\ Storable(available')

\* Consumer.onUserRegistered: open an account under a fresh id, with the
\* welcome deposit in the same transaction.
OnUserRegistered(u, a, seed) ==
    /\ a \in UserAccount \ accounts
    /\ accounts' = accounts \cup {a}
    /\ IF seed > 0
       THEN Deposit(a, seed, DefaultCurrency, WelcomeKey(u))
       ELSE UNCHANGED <<available, version, postings>>
    /\ UNCHANGED <<held, holds, due, outbox>>

\* The clock passes expires_at of an active hold.
PassExpiry(h) ==
    /\ Active(h) /\ h \notin due
    /\ due' = due \cup {h}
    /\ UNCHANGED <<accounts, available, held, version, holds, postings, outbox>>

-----------------------------------------------------------------------------

Next ==
    \/ \E u \in User, a \in UserAccount, seed \in WelcomeSeed : OnUserRegistered(u, a, seed)
    \/ \E h \in HoldId, a \in AccountId, p \in Payment, amt \in Amount, cur \in Currency :
            Hold(h, a, p, amt, cur)
    \/ \E h \in HoldId, amt \in Amount : Capture(h, amt)
    \/ \E h \in HoldId, reason \in Reason : Release(h, reason)
    \/ \E p \in Payment : ReleaseByPayment(p, "compensation")
    \/ SweepExpiredHolds
    \/ \E h \in HoldId : PassExpiry(h)

Spec == Init /\ [][Next]_vars

\* Time passes, and main's every() calls the sweeper on each tick; no
\* transaction keeps a row of holds locked for ever.
Fairness ==
    /\ \A h \in HoldId : WF_vars(PassExpiry(h))
    /\ WF_vars(UndisturbedSweep)

LiveSpec == Spec /\ Fairness

-----------------------------------------------------------------------------
(* What Reconcile derives from the rows (reconcile.go). *)

Debits(a) == SumFunction([k \in IdemKey |->
    IF postings[k] # NoRow /\ postings[k].debit = a THEN postings[k].amount ELSE 0])

Credits(a) == SumFunction([k \in IdemKey |->
    IF postings[k] # NoRow /\ postings[k].credit = a THEN postings[k].amount ELSE 0])

ActiveHeld(a) == SumFunction([h \in HoldId |->
    IF Active(h) /\ holds[h].account = a THEN holds[h].amount ELSE 0])

ExpectedAvailable(a) ==
    IF IsAsset(a) THEN Debits(a) - Credits(a)
    ELSE Credits(a) - Debits(a) - ActiveHeld(a)

\* The accounts Reconcile would log as drifted if it ran now.
Drifted == {a \in accounts : available[a] # ExpectedAvailable(a) \/ held[a] # ActiveHeld(a)}

-----------------------------------------------------------------------------
(* Properties. *)

\* For every account but the settlement accounts the materialized balance is
\* what Reconcile derives from the entries and the active holds, whatever
\* accounts holds are placed on (bumpBalance beside every insert and update).
LiabilitiesReconcile == \A a \in Drifted : IsAsset(a)

NoAssetHold == \A h \in HoldId : holds[h] # NoRow => ~ IsAsset(holds[h].account)

\* As long as no hold was ever placed on a settlement account, Reconcile finds
\* no drift at all: neither on the settlement accounts Deposit debits.
ReconcileClean == NoAssetHold => Drifted = {}

\* "Drift means a bug" (reconcile.go:8): Reconcile never reports an account,
\* whichever accounts the callers of Hold name.
NoDrift == Drifted = {}

HeldIsReserved == \A a \in AccountId : held[a] = ActiveHeld(a)

LiabilityBalances == \A a \in AccountId : ~ IsAsset(a) =>
    available[a] = Credits(a) - Debits(a) - ActiveHeld(a)

AssetBalances == NoAssetHold =>
    \A a \in AccountId : IsAsset(a) => available[a] = Debits(a) - Credits(a)

\* The inductive invariant behind the two properties above: held is the sum of
\* the active holds, and available what the account's kind makes of its entries.
\* It ranges over the accounts not opened yet too, whose sums are all zero.
LedgerInv == TypeOK /\ HeldIsReserved /\ LiabilityBalances /\ AssetBalances

HoldsOnAccounts == \A h \in HoldId : holds[h] # NoRow =>
    /\ holds[h].account \in accounts
    /\ holds[h].currency = AccountCurrency(holds[h].account)

UserFundsFit == \A a \in UserAccount :
    /\ available[a] + held[a] <= MaxBigint
    /\ a \notin accounts => available[a] = 0 /\ held[a] = 0

EventsTrail ==
    /\ IsFiniteSet(outbox)
    /\ \A e \in outbox :
            /\ holds[e.hold] # NoRow /\ e.account = holds[e.hold].account
            /\ e.topic = "captured" => holds[e.hold].status = "captured"
            /\ e.topic = "released" => holds[e.hold].status # "active"

OneHoldPerPayment == \A g, h \in HoldId :
    Active(g) /\ Active(h) /\ holds[g].payment = holds[h].payment => g = h

\* What the rows say of each other, which the properties below rest on: a hold
\* is on an account that exists and in that account's currency (Hold); the money
\* of a user fits in one balance, and is zero before the account is opened; an
\* event names a hold that exists, and tells how it was settled (outbox.Write
\* beside every update of holds); a payment has one active hold at most.
RowsInv == HoldsOnAccounts /\ UserFundsFit /\ EventsTrail /\ OneHoldPerPayment

\* What the users and the merchants own in a currency, reserved funds included,
\* is what its settlement account received: Hold, Capture and Release move
\* money between balances and neither create nor lose any.
MoneyConserved == NoAssetHold => \A cur \in Currency :
    available[Settlement(cur)] =
        SumFunction([a \in {b \in AccountId : ~ IsAsset(b) /\ AccountCurrency(b) = cur} |->
                     available[a] + held[a]])

\* A hold is captured at most once and by at most its amount: the posting
\* "capture:"+holdID exists exactly for the captured holds, from the hold's
\* account to the merchant-payable account of its currency.
CapturesMatchPostings == \A h \in HoldId :
    LET posting == postings[CaptureKey(h)] IN
    /\ posting # NoRow <=> holds[h] # NoRow /\ holds[h].status = "captured"
    /\ posting # NoRow => /\ posting.debit = holds[h].account
                          /\ posting.credit = Payable(holds[h].currency)
                          /\ posting.amount <= holds[h].amount

\* A subscriber that adds up the funds events of an account knows what is held
\* on it: each operation writes exactly the events that account for its change
\* of held (the events of Hold, of Capture with its remainder, of Release).
Told(topics, a) == SumFunction([e \in outbox |->
    IF e.topic \in topics /\ e.account = a THEN e.amount ELSE 0])

EventsRebuildHeld == \A a \in AccountId :
    held[a] = Told({"held"}, a) - Told({"captured", "released"}, a)

\* Nothing keeps a hold on a user's account from being released: the UPDATE in
\* Release passes the CHECKs and stays within bigint, so the sweeper's batch,
\* which fails as a whole, is never blocked by one of these holds.
UserHoldsReleasable == \A h \in HoldId :
    Active(h) /\ holds[h].account \in UserAccount =>
        /\ held[holds[h].account] >= holds[h].amount
        /\ available[holds[h].account] + holds[h].amount <= MaxBigint

HoldKept(h) == holds[h] # NoRow =>
    /\ holds'[h] # NoRow
    /\ [holds'[h] EXCEPT !.status = holds[h].status] = holds[h]
    /\ holds[h].status # "active" => holds'[h] = holds[h]

HistoryKept ==
    /\ \A h \in HoldId : HoldKept(h)
    /\ \A k \in IdemKey : postings[k] # NoRow => postings'[k] = postings[k]
    /\ outbox \subseteq outbox'

\* History is final: a hold keeps its account, payment, amount and currency and
\* never changes again once it is settled; postings and events are never
\* altered or removed (the forbid_mutation triggers never have to fire).
HistoryIsFinal == [][HistoryKept]_vars

VersionAdvances == \A a \in AccountId :
    /\ version'[a] >= version[a]
    /\ <<available[a], held[a]>> # <<available'[a], held'[a]>> => version'[a] > version[a]

\* Two different balances of an account never carry the same version: each
\* change of available or held advances version (GetBalance returns it).
VersionOrders == [][VersionAdvances]_vars

\* No hold stays active for ever: if nobody captures or releases it, it expires
\* and the sweeper releases it, whatever else is due at the same time.
HoldsSettle == \A h \in HoldId : Active(h) ~> ~ Active(h)
=============================================================================
