# account-service in TLA+

A verification project for the account service: the double-entry ledger with
its holds, the two entrances to it (gRPC and Kafka), and the background work on
it. The modules are translated from the Go code and the SQL schema; TLC checks
them on small instances and TLAPS proves all of the safety properties for every
instance. Paths below are relative to the repository.

## The system

| component | state | operations | module |
|---|---|---|---|
| ledger facade (`internal/ledger/operations.go`) | `accounts`, `account_balances`, `holds`, `ledger_transactions`, `ledger_entries` | `Hold`, `Capture`, `Release`, `ReleaseByPayment`, `Deposit` | `Ledger`, `Transactions` |
| transactions (`Facade.InTx`, `ledger.go`) | snapshots, row locks, attempts | begin, statements, commit, retry | `Transactions` |
| expiry sweeper (`SweepExpiredHolds`, ticker in `cmd/server/main.go`) | `holds.expires_at` | a sweep every 30 s | `Ledger`, `Transactions` |
| reconciliation (`reconcile.go`) | none, reads all of the above | `Reconcile` | `Ledger` (operators) |
| posting validation (`validate.go`) | none | `ValidateBalanced` | `Postings` |
| gRPC money API (`internal/grpcapi`) | `grpc_idempotency` | `HoldFunds`, `CaptureFunds`, `ReleaseFunds`, `GetBalance` | `Service`, `Transactions` |
| event handlers (`consumer.handle`) | `processed_events` | `onUserRegistered`, `onPaymentFailed` | `Service`, `Transactions` |
| consumer loop (`internal/consumer`) | offsets, client position, attempts | poll, retry, dead-letter, commit | `Consumer` |
| schema validation (`internal/events/validate.go`) | schema cache | `Validate` | `Consumer` |
| outbox writer and relay (`internal/outbox`, `internal/events/events.go`) | `outbox`, schema ids | `Write`; publish and mark a batch | `Ledger`, `Relay` |
| REST balance (`internal/httpapi`) | Redis key per account | cache-aside `getBalance` | `BalanceCache` |
| REST entries (`internal/httpapi`) | the client's cursor | `listEntries` | `EntryPages` |
| process (`cmd/server/main.go`) | what is started and open | migrate, start, serve, stop | `Lifecycle` |
| gateway assertion (`internal/gatewayauth`) | JWKS | `New`; a filter | `Lifecycle` (`New`) |
| configuration (`internal/platform`) | environment | | not modelled |

`Schema` has the constants, accounts and rows that `Ledger`, `Service` and
`Transactions` share.

How they interact. Everything that writes goes through `Facade.InTx`, which
runs a serializable transaction. A gRPC handler looks its `request_id` up
(`replay`), calls one operation of the facade and stores the marshalled response
(`store`), all in one transaction. The consumer inserts the `event_id` into
`processed_events`, and calls `onUserRegistered` (a new account and a welcome
deposit) or `onPaymentFailed` (release of the payment's hold) in the same
transaction. Each operation on a hold writes its events to `outbox` in the same
transaction, from where a relay publishes them. The sweeper and the
reconciliation run on tickers beside all of this.

What is hard here, and where the properties aim (the full list, with lines, is
"hazards" in `PROJECT.json`):

- the balances are materialized by increments, beside the inserts they stand
  for; nothing but a later `Reconcile` notices an increment that is wrong;
- capture, release, compensation and expiry of one hold race each other, and a
  compensation races the hold it is for;
- partial captures split a hold over two accounts and two events, and system
  accounts can be named by callers like any other account;
- balances at the limit of `bigint`, and amounts that wrap around in Go;
- lost answers, repeated requests, `request_id`s used for two methods;
- redelivery, events published twice, commits reported as errors, crashes
  between the database's commit and Kafka's;
- a batch left uncommitted that the next batch's commit overtakes;
- a schema registry that is down for any length of time;
- holds nobody ever captures or releases;
- transactions that have read the same balance, hold, payment, event or request
  before either writes, wait for each other, deadlock, and are run again with
  the variables of the first attempt still there;
- an answer to COMMIT that gets lost;
- relays that die, or lose their connection and publish on, between publishing
  and marking, two of them over one table, and rows that can never be published;
- balances that go into Redis after the ledger has moved on;
- pages over entries whose ids are drawn before they are visible, and result
  sets cut short by a lost connection;
- replicas that migrate the database at the same time, signals at any point of
  the start, dependencies closed under what still runs, and calls that keep the
  process from ending.

## Modules

### Ledger

One action is one committed transaction. This is what serializable isolation
gives: the outcome is that of some serial order, and a call that returns an
error rolls everything back, so it is not a step. An action's guard consists of
the code's early returns and the constraints of the schema
(`check (amount > 0)`, `available >= 0`, `held >= 0`, the range of `bigint`,
the unique keys).

| variable | code |
|---|---|
| `accounts` | rows of `accounts` and `account_balances`, which are always inserted together |
| `available`, `held`, `version` | columns of `account_balances` |
| `holds` | table `holds` without `expires_at` |
| `due` | the holds whose `expires_at` has passed |
| `postings` | a `ledger_transactions` row and its two entries, by `idempotency_key` |
| `outbox` | the rows of `outbox`, with what the funds events tell |

`Release(h)` is `ReleaseAll({h})`; the sweeper is `ReleaseAll` of a batch, as it
calls `Release` for each row of one transaction. Which due holds a sweep gets is
a choice: other transactions may have rows locked (`skip locked`), and there is
a `limit`. `OnUserRegistered` is the consumer's handler. A user may register
more than once (events with different ids): a second account is opened, and its
deposit needs a `welcome:` key that is still free, or no deposit.
`WelcomeSeed` is a set since the configured seed may change between restarts.

`Debits`, `Credits`, `ActiveHeld`, `ExpectedAvailable` and `Drifted` are
`Reconcile`, read off the current state.

### Postings

The loop of `ValidateBalanced`, one step per entry, over integers of `2 * Half`
values that wrap around. `debits` and `credits` are history variables with the
true sums. `Ledger` only uses that a debit and a credit of the same positive
amount pass, which is `TwoLegsExact`.

### Service

Extends `Ledger` with `grpc_idempotency`, `processed_events` and `answers`, the
responses that reached a caller. `Answer` lets every response be lost. `Replay`
can happen at any time for any method, since callers may reuse a `request_id`;
bytes stored by another method are a `Foreign` answer. The handlers are
conjunctions of the gate, the operation of `Ledger` and the row that records it;
an event of an unknown type only leaves its row (`HandleUnknown`). A
compensation reads the snapshot of its transaction, which an atomic step does
not have: `HandlePaymentFailed` may therefore release the payment's hold or
leave it. What it can miss is said in `Transactions`.

### Consumer

The control of `Run`, `handleWithRetry`, `handle`, `deadLetter` and
`Validator.Validate` for one client of the group. `position` is the fetch
position of the client, `committed` the offset of the group; `phase` is the
program counter. Records are classified by what validation and the transaction
make of them (`Applies`, `Rejected`, `Invalid`, `Unknown`, `Unframed`). What can
fail is chosen by `Fault`; `Iterations` are the orders in which `EachRecord` may
hand the records of a poll over (the partitions in any order, each one oldest
first); transactions can always fail, before or after they committed. A crash
keeps the broker's and the database's state only. A shutdown is a crash as far
as this model goes. In the code it takes the record at hand, also one that waits
for the registry (`consumer.go:125`), through its attempts to `deadLetter` with
a cancelled context (`consumer.go:109`): this comes to the same as long as the
transaction, `ProduceSync` and the commit fail with such a context.

External, and modelled from how the code uses it: the gRPC transport (answers
may be lost), the Kafka client (a poll returns records from the position on and
advances it; `CommitUncommittedOffsets` commits what was polled), the producers
and the schema registry.

### Transactions

The same operations as `Ledger`, statement by statement, for workers (handlers,
consumers, sweepers) that run at the same time. A transaction is a list of
statements still to be executed (`todo`), the rows it has written and locked,
and the versions of rows its snapshot still shows (`older`). Each statement has
an action; its `rows` are what it locks, and `Ready` makes it wait for them.
`Program` is how a closure begins, and a statement that reads a row adds those
that depend on it (`AfterLockHold`). `Conflict` is 40001 on a row changed since
the snapshot; `Retry` is the loop of `InTx`, with the captured `resp` or
`released` kept between attempts as in the code; `Commit(w, "Internal")` is a
commit whose answer is lost. A crash of the process is `ConnectionLost` of its
workers. A worker without a transaction has `NoTx`; rows are
written by laying one function over another (`Put`, `Over`). `Waits` is the
transitive closure of `Blockers`, said with the sets that are closed under it.
`L` instantiates `Ledger` with the rows that are committed, and
`ImplementsLedger` says that each commit is the step of `Ledger` that its call
stands for (`Operation`).

PostgreSQL is external. Snapshot isolation with row locks over-approximates
SERIALIZABLE: `SerializationFailure` may strike at any time, but nothing relies
on its catching an anomaly. The key-share locks of foreign keys are left out:
they conflict with no lock taken here (no key is updated, no row deleted).
`ledger_entries` ids are modelled by one id per posting (`nextEntry`), drawn
when the statement runs and not rolled back.

Where the code drops an error, so does the model. `SweepExpiredHolds` never asks
`rows.Err`, so a 40001 of its select ends in an aborted transaction that `InTx`
does not recognise: `SelectDueStep` gives up instead of trying again. `resp` is
filled in before `store` is called, whether or not `store` succeeds.

A compensation looks for the hold in the snapshot that its first statement took.
A hold that is committed after that, even before the compensation is, is not
found: the compensation commits and the hold stays active. SERIALIZABLE does not
refuse this, since the compensation first and the hold after it is a serial
order. `MissesOnlyNewer` says that no other hold is missed.

### Relay

Writers put events into the outbox within their transactions, replicas drain it:
select with `skip locked`, publish row by row, mark all, or roll back. `Before`
is `order by id`, `FirstRows` a batch: at most `BatchLimit` rows with nothing
left out before the last one. Rows are named by their ids (UUIDv7, which the
model draws in order: the clocks of the replicas are assumed to agree). An event
is written while its transaction has the account's balance locked, so events of
one account do not commit out of order; `Write` has that as its guard. A failing
publish may have reached the broker. Mark and commit are one step: a commit
whose answer is lost is `Mark`, with nothing else following from it. Between the
select and the update the code does not speak to the database: a replica whose
connection is lost (`lost`) has no locks any more and publishes on, beside a
replica that has selected the same rows, until the update fails. A connection
lost during the select only makes the batch shorter (`drainOnce` does not ask
`rows.Err` either). A row whose schema cannot be resolved fails its batch, and
the next batch begins with it again: everything behind it waits, which
`EventuallyPublished` says openly.

### BalanceCache, EntryPages

`BalanceCache` is `getBalance` for one account, whose balance is named by the
time since which it holds. All requests for the account share one key. A hit is
answered before, and without, the check of ownership
(`httpapi/server.go:129-135` against `142`), which is in the select of a miss;
the model leaves callers out, as the age of a balance does not depend on who
asks. The time between reading the ledger and filling Redis is bounded by
`MaxDelay`. `EntryPages` is `listEntries`: what a client has seen of an account
while entries are added. That they become visible in the order of their ids is
`Later`, which is what `EntriesInOrder` of `Transactions` establishes.

### Lifecycle

`run`, step by step: the pool, goose under its session lock, the clients, relay,
workers, gRPC server, the wait for the JWKS in `gatewayauth.New`, the HTTP
server; the signal, `Shutdown`, `GracefulStop` and the deferred `Close` calls in
their order. Calls, requests and workers are tasks that take a connection of the
pool and give it back; no code holds two at once. `pool.Close` waits for
connections in use. `Shutdown` gives up after 15 s, `GracefulStop` never: it
also waits for the `Watch` streams of the health service (`main.go:136`), which
take no connection and end when their client leaves. goose, pgxpool, net/http,
grpc and keyfunc are external.

### The proof modules

`Sums`, `LedgerProofs` (`Ledger` and `Service`), `PostingsProofs`,
`TransactionsProofs`, `ConsumerProofs`, `RelayProofs`, `RestProofs`
(`EntryPages` and `BalanceCache`) and `LifecycleProofs` hold lemmas, the
invariants they need and theorems only, see below. The definitions called
"Mutant of ..." in the modules are wrong variants of the definitions that follow
them; `PROJECT.json` pairs each with the property that finds it.

## Runs

| run | module, configuration | result |
|---|---|---|
| `ledger` | `MCLedger`, `Ledger.cfg` | balances, entries, holds and events tell the same story; no hold stays active for ever |
| `ledger_drift` | `MCLedger`, `LedgerDrift.cfg` | violation: a correct ledger is reported as drifted |
| `postings` | `MCPostings`, `Postings.cfg` | two entries are judged exactly, more up to wrap-around |
| `service` | `MCService`, `Service.cfg` | one effect per request and per event, and answers that agree with the ledger |
| `transactions` | `MCTransactions`, `Transactions.cfg` | overlapping transactions implement `Ledger` and are answered truthfully; what a compensation can miss |
| `consumer` | `Consumer`, `Consumer.cfg` | nothing applied twice, nothing lost without a logged error, every record settled or given up |
| `consumer_loss` | `Consumer`, `ConsumerLoss.cfg` | violation: a commit passes an unsettled record |
| `relay` | `Relay`, `Relay.cfg` | at least once, in order but for locked rows, and in the end |
| `balance_cache` | `MCBalanceCache`, `BalanceCache.cfg` | what is shown is as old as TTL and one request allow |
| `entry_pages` | `EntryPages`, `EntryPages.cfg` | each entry once, none left out unless a connection was lost |
| `pages_cut` | `EntryPages`, `PagesCut.cfg` | violation: a page cut short is the last page |
| `lifecycle` | `Lifecycle`, `Lifecycle.cfg` | migrations in order, calls drained, no transaction cut; a signal ends the process unless a `Watch` stream stays |

Properties of `ledger`. `LiabilitiesReconcile` and `ReconcileClean` say what
`Reconcile` would find in any state, `LedgerInv` is their inductive form (with
`TypeOK`). `RowsInv` is what the tables say of each other: holds of open
accounts in the account's currency, users' money that fits in one balance,
events that tell how their hold was settled, one active hold per payment.
`MoneyConserved` relates what users and merchants own to what came in through
the settlement account. `CapturesMatchPostings` excludes double captures and
captures of released holds. `EventsRebuildHeld` is the promise to subscribers:
adding up the funds events gives `held`. `UserHoldsReleasable` excludes the hold
whose release fails and takes the sweeper's whole batch with it; it holds for
users' accounts. (On a system account at the limit of `bigint` a release can
fail, which takes balances of 2^63.) `HistoryIsFinal` and `VersionOrders` are
action properties.

`HoldsSettle` is the liveness of the sweeper.

Properties of `service`. `AnswersAgree`: repeated requests are told the same,
and the truth. `EffectsAnswered`: each hold and capture is named by exactly one
stored response. `ServiceInv`: one account per registration event; what a stored
response reports is in the ledger; an answer is its row's.

Properties of `transactions`. `ImplementsLedger`: serializable in effect, with
nothing but row locks, snapshots and unique indexes. `AnswersAreTrue`: what a
call returns after retries, replays and copies beside it is what was committed.
`DefiniteErrors`: `FailedPrecondition` and the like are never told of a request
that a copy of it has carried out. `RegistrationsOnce`: the gate holds when two
consumers have the same event. `DeadlocksNeedSweep`: the lock order of all other
operations is consistent, so only the sweep's batch can deadlock.
`EntriesInOrder` is what `listEntries` relies on. `MissesOnlyNewer`: a hold of
the payment that is active when a compensation commits was placed after the
compensation's snapshot; as a compensation that finds nothing succeeds, nothing
else would tell. `TransactionsTypeOK` has the bound on attempts and the
exclusion of row locks.

Properties of `consumer`. `ConsumerInv`: effects happen once, and every record
fetched is in the batch, settled, or given up (`FetchedAccounted`);
`LossesAreLogged`:
only what was given up with a logged error can be passed; `OutageHoldsOffset`:
a registry outage neither dead-letters nor passes a record; `EventuallySettled`:
every record is processed, dead-lettered, or given up with a logged error.

Properties of `relay`. `RelayInv`: nothing is marked that was not published,
replicas with a connection have different rows, and what is older than a row of
a batch is accounted for. `AgainOnlyAfterRollback`: replicas side by side make
no duplicates; failures, crashes and lost connections do. `OvertakesOnlyLocked`:
order per account and topic, except past rows that another replica has locked.
`EventuallyPublished`.

Properties of the REST reads. `CacheInv`: the age of a balance
(`StalenessBounded`) and its label (`AsOfLabelsBalance`). `PagesInv`: no entry
twice (`NothingTwice`), none left out (`CompleteUnlessCut`); `ReadingEnds`.

Properties of `lifecycle`. `LifecycleInv`: each migration once and in order
(`MigrationsInOrder`), no statement before them (`StatementsFindSchema`), and
the order of the start and the end: no dependency is closed under a call once
the health status was taken back (`ServersInOrder`), the pool under no
transaction (`PoolLast`). `SignalEnds`: a signal ends the process, or a `Watch`
stream whose client stays holds it in `GracefulStop` for ever; nothing else can.

### Bounds

- `ledger`: two users, accounts, holds, payments and currencies. Two holds are
  enough for every race, as operations touch one hold, or a batch of them;
  `Amount` has a negative amount, zero, a partial and a full capture of the seed
  of 2, and one more than that. `MaxBigint` is 4, so that deposits and captures
  on shared accounts run into the limit. Merchant-payable and settlement
  accounts receive holds too. The sweep's limit is 1 with two holds due, so that
  they compete for it; batches of two are in `service` and `transactions`, and
  the proof of `LedgerInv` is about batches of any size.
- `postings`: three-bit integers and four entries; wrap-around needs three.
- `service`: two request ids, so that requests collide and repeat; two events
  per user and payment; two accounts and two holds. The second registration of
  the user meets a free or a used `welcome:` key, depending on the first seed.
  Two events have a type the consumer does not know.
- `transactions`: two workers, each with one of 15 calls chosen to meet (on the
  last unit of a balance, on one hold, payment, request id, event, user, and on
  the system accounts), on rows that earlier transactions have left. Conflicts,
  waiting and deadlocks are between pairs. `MaxAttempts` is 2 instead of 5: one
  retry is enough for state to be carried over.
- `consumer`: `MaxLog` bounds the records of all partitions together. Two
  records of any of the five kinds on two partitions allow an event published
  twice, a batch of two and a later batch that commits past an earlier one. One
  crash, two attempts instead of three.
- `relay`: two replicas, two writers, two accounts, three events and batches of
  two, so that a second batch overlaps the first; one fault of any kind; one of
  the two topics has no schema.
- `balance_cache`: two requests; time runs to 6 with a TTL and a delay of 2, so
  that an entry can be filled late, expire and be filled again.
- `entry_pages`: two clients, ids up to 6, pages of two: full, partial and empty
  last pages.
- `lifecycle`: two replicas, a call, a `Watch` stream, a request and the relay
  in each, sharing one connection; two migrations; two attempts for the JWKS
  instead of ten.

Runs with `CHECK_DEADLOCK FALSE` are those whose models stop when ids, calls or
time are used up, as the service does without callers. `Consumer` and
`Lifecycle` are checked for deadlock.

Symmetry is used in runs without liveness properties only, over sets no
definition orders.

### Fairness

- `Ledger.Fairness`. Time passes (`PassExpiry`), and `every` in `main.go` calls
  the sweeper on each tick as long as the process runs. The fair action is
  `UndisturbedSweep`, a sweep that finds no row locked, and so takes all due
  holds or a full batch: no transaction keeps its locks for ever. Nothing is
  assumed of callers. A hold cannot be overtaken for ever as there are finitely
  many hold ids in the model; with an endless supply of newer due holds a sweep
  without `order by` gives no such guarantee.
- `Consumer.Fairness`. `Run` goes on polling (`PollFetches`) and each step of it
  ends one way or another (weak fairness of the disjunction: success is not
  assumed). A registry that is down comes back. `Validate` is strongly fair: the
  registry may go up and down while `handle` asks every two seconds, and one
  attempt meets it up in the end. A failed fetch or DLQ publish is logged and
  ends in `abandoned`, which the property allows; see the findings.
- `Relay.Fairness`. `Run` drains on every tick and goes on after an error, and
  the registry comes back. Faults are finitely many: a broker that always fails
  publishes nothing. Nothing is assumed of writers.
- `EntryPages.Fairness`. The client asks for the next page.
- `Lifecycle.Fairness`. `run` goes on and a transaction ends (weak); an RPC of
  the money API is answered although it may take several transactions (strong:
  `InTx` has finitely many attempts and PostgreSQL breaks deadlocks). Nothing is
  assumed of the clients of health `Watch` streams, which is why `SignalEnds`
  has its exception. HTTP requests need no assumption, as `Shutdown` has a
  timeout. Signals, crashes and starts are not assumed.

## Proofs

| theorem | module | statement |
|---|---|---|
| `TypeCorrect` | `LedgerProofs` | `Spec => []TypeOK` |
| `LedgerInvariant` | `LedgerProofs` | `Spec => []LedgerInv` |
| `LiabilitiesAlwaysReconcile` | `LedgerProofs` | `Spec => []LiabilitiesReconcile` |
| `ReconcileStaysClean` | `LedgerProofs` | `Spec => []ReconcileClean` |
| `RowsAgree` | `LedgerProofs` | `Spec => []RowsInv` |
| `CapturesAlwaysMatch` | `LedgerProofs` | `Spec => []CapturesMatchPostings` |
| `EventsAlwaysRebuildHeld` | `LedgerProofs` | `Spec => []EventsRebuildHeld` |
| `MoneyAlwaysConserved` | `LedgerProofs` | `Spec => []MoneyConserved` |
| `UserHoldsAlwaysReleasable` | `LedgerProofs` | `Spec => []UserHoldsReleasable` |
| `HistoryStaysFinal` | `LedgerProofs` | `Spec => HistoryIsFinal` |
| `VersionsOrderBalances` | `LedgerProofs` | `Spec => VersionOrders` |
| `TwoLegsJudgedExactly` | `PostingsProofs` | `Spec => []TwoLegsExact` |
| `OnlyWrappingUnbalances` | `PostingsProofs` | `Spec => []BalancedUnlessWrapped` |
| `ServiceKeepsLedger` | `LedgerProofs` | `ServiceSpec =>` always `LedgerInv`, `RowsInv`, `CapturesMatchPostings`, `MoneyConserved`, `EventsRebuildHeld` |
| `ServiceInvariant` | `LedgerProofs` | `ServiceSpec => []ServiceInv` |
| `AnswersAlwaysAgree` | `LedgerProofs` | `ServiceSpec => []AnswersAgree` |
| `EffectsAlwaysAnswered` | `LedgerProofs` | `ServiceSpec => []EffectsAnswered` |
| `ConsumerInvariant` | `ConsumerProofs` | `Spec => []ConsumerInv` |
| `LossesAlwaysLogged` | `ConsumerProofs` | `Spec => []LossesAreLogged` |
| `OutagesHoldOffset` | `ConsumerProofs` | `Spec => []OutageHoldsOffset` |
| `RelayInvariant` | `RelayProofs` | `Spec => []RelayInv` |
| `AgainOnlyRolledBack` | `RelayProofs` | `Spec => AgainOnlyAfterRollback` |
| `OvertakesOnlySkipped` | `RelayProofs` | `Spec => OvertakesOnlyLocked` |
| `PagesInvariant` | `RestProofs` | `Spec => []PagesInv` |
| `CacheInvariant` | `RestProofs` | `CacheSpec => []CacheInv` |
| `LifecycleInvariant` | `LifecycleProofs` | `Spec => []LifecycleInv` |
| `TransactionsTypes` | `TransactionsProofs` | `Spec => []TransactionsTypeOK` |
| `TransactionsRefineLedger` | `TransactionsProofs` | `Spec => ImplementsLedger` |
| `AnswersStayTrue` | `TransactionsProofs` | `Spec => AnswersAreTrue` |
| `ErrorsAreDefinite` | `TransactionsProofs` | `Spec => DefiniteErrors` |
| `EntriesAreOrdered` | `TransactionsProofs` | `Spec => EntriesInOrder` |
| `EventsRegisterOnce` | `TransactionsProofs` | `Spec => []RegistrationsOnce` |
| `OnlySweepsDeadlock` | `TransactionsProofs` | `Spec => []DeadlocksNeedSweep` |
| `CompensationsMissOnlyNewer` | `TransactionsProofs` | `Spec => MissesOnlyNewer` |

They hold for every value of the constants that satisfies the assumptions of the
module: any number of users, accounts, holds, payments, currencies, requests,
events, partitions, replicas, writers and clients, any amounts, limits, widths,
delays and page sizes. `ConstantsAssumption`: hold ids, users, accounts and
currencies are finite sets (the sums range over them), users' ids are not system
accounts' ids, the default currency has system accounts, `NoRow` is no row.
`PostingsAssumption`: amounts are integers of the machine's range.
`ServiceAssumption`: finitely many copies of an event. `ConsumerAssumption`: the
kinds of records are disjoint and the partitions finite.
`TransactionsAssumption`: finitely many workers, calls with parameters of the
types the protocol gives them, an `event_id` that is not both a registration's
and a failed payment's, and earlier rows that agree with the schema and with
each other (`Consistent`: system accounts are there, a hold's account exists and
has its currency, the unique index has exactly the active holds), with entry ids
below the next of the sequence. The other modules only fix the types of their
bounds.

Ledger: why the invariant. "No liability drifts" is not inductive: `Drifted`
looks at the opened accounts, and the next operation on an account needs to know
its `held` and `available` separately. `LedgerInv` says, of all account ids:
`held` is the sum of the active holds (`HeldIsReserved`); a liability's
`available` is credits minus debits minus active holds (`LiabilityBalances`); an
asset's is debits minus credits if no hold ever was on an asset
(`AssetBalances`). `TypeOK` is part of it, as the sums only make sense over rows
of the right type, and is proved first. Accounts that do not exist yet are
included: their sums are zero, which is what a new account starts from.

The argument. Each derived quantity is a sum over hold ids, posting keys, events
or accounts. A step changes the summand of one hold (`Hold`, `Capture`), of one
key (`Post`), of a batch of holds (`ReleaseAll`), or adds events; `Sums` proves
what that does to the sum: it moves by the difference of the summand, a sum of
two functions is the sum of the sums, and an index that is added contributes its
summand. With these facts each action moves a balance and its derived value by
the same amount. `Sums` proves them about the community modules' `SumFunction`
by induction, carried out with sets, as the library's induction theorems take
operators the provers cannot instantiate.

`RowsInv` carries what the other ledger properties need beyond the balances.
That new events are new rows, and not equal to older ones, rests on
`EventsTrail`; that the release of a user's hold fits in `bigint` rests on
`UserFundsFit`, as only deposits bring money to a user, and they are checked;
`MoneyConserved` groups accounts by currency and needs `HoldsOnAccounts`, since
a capture posts in the hold's currency.

Postings. For `TwoLegsExact` the invariant writes the sums out for up to two
entries: the sum of two amounts of one sign wraps around at most once and never
to zero. `BalancedUnlessWrapped` is for any number of entries: each sum is
congruent to the true one modulo 2^64, and zero is the only multiple of 2^64
that is smaller than it.

Service. Each handler is an operation of the ledger beside rows of its own, so
every step is a step of `Ledger` or leaves it alone by its definition (the lemma
`ServiceImplementsLedger`), and the theorems about the ledger carry over.
`RowsTrue` (a stored response reports what is in the ledger) is inductive
because history is final, `RegistrationsOpenAccounts` because the gate and the
account commit together. `EffectsAnswered` counts, and counting is not inductive
for the provers: the inductive form says that the set of requests that name a
hold is a singleton.

Consumer. The losses are about the committed offset, which advances to the
client's position at a commit. So the invariant follows every record from the
fetch on: it is in the batch, or validated and settled, or abandoned
(`FetchedAccounted`), and the batch is within the log (`BatchInLog`).

Relay. `AgainOnlyAfterRollback` needs to know where everything published comes
from (`PublishedAccounted`), that replicas with a connection have different
rows, and that the rows of one without count as rolled back (`BatchesApart`).
`OvertakesOnlyLocked` needs that the rows before one in a batch have been
published, that rows older than one in a batch are before it, marked or locked
elsewhere (`OlderAccounted`), and that no older row can become visible later
(`AccountsLocked`: it would be of the same transaction).

EntryPages. `ReadFromTop` says what a client in the middle of the history has:
everything from its cursor up to the newest entry of the first page. The step
rests on two facts about `Newest`: a page is closed upwards, and a page that is
not full is all there is.

BalanceCache. The answers are right because what requests carry and what Redis
holds is: `RequestsRead` and `CacheLabelled` relate the age of both to
`HeldUntil`, which only grows, when time passes and when the balance changes.

Lifecycle. The invariant ties the program counter of each replica to what is
started and open: the session lock to the migrations still missing
(`LockGuardsMigrations`), everything that executes statements to the complete
schema (`SchemaFirst`), calls to the servers (`ServersInOrder`), and connections
to the pool (`PoolLast`).

Transactions. None of its properties is inductive: what a commit does was
decided by the statements before it. `TxInv` says of every open transaction how
far its closure has come (`Stage`, one case per statement boundary of each
method), and for each stage which statements are left, which rows are written,
which locked and which events emitted, with the written rows as a function of
the committed versions of the rows it has locked (`Progress`, `base`). A locked
row cannot change under it, since locks exclude each other (`LocksApart`), so a
stage survives the steps of all other workers; its own steps take it to the next
stage. For the sweep a stage is a set of released holds, and the balances are
the base plus the sums over that set, for which `Sums` is used again. Beside the
stages:

- `OlderOK`: what was changed since the snapshot is not what the transaction has
  locked, and the versions it still shows of holds, payments and requests are
  the harmless ones; this is what `Conflict` is for;
- `ReplayOK`: a replay that missed has either seen no row that is there now, or
  has its request among the changed rows, and then also the row it names, so
  that it meets the conflict before it can answer with an error;
- `TargetOK`: the holds of a compensation are of its payment, one that has found
  none (`FoundNone`) has none in its snapshot, and those of a sweep are due;
- `EntriesOK`: an entry with a higher id that was committed by others is on an
  account whose balance is among the changed rows, so the transaction fails when
  it comes to that balance;
- `ControlOK`, `NamesOK`: attempts, and that ids drawn with `uuid.New` are known
  to nobody before they are committed;
- `Consistent(db)`, preserved by a commit because a complete transaction
  (`Complete`) has written the hold and the entry of its payment together, and
  so on for each table.

The properties follow. `TransactionsRefineLedger`: a transaction that commits is
at the last stage of its method (`LastStage`); its writes, read as functions of
the base, are the primed variables of `Ledger`'s action, and as the base is what
the tables hold at that moment (`Applied`), the guard holds there too. A replay,
an event processed before, a compensation without a hold and an empty sweep
leave the tables alone. `AnswersStayTrue` reads the stored answer off the same
stage. `ErrorsAreDefinite` is `ReplayOK` and `EntriesAreOrdered` is `EntriesOK`
at the last step. `CompensationsMissOnlyNewer`: a compensation either closes the
hold its snapshot shows, whose row it has locked, or has found none there, and
by `OlderOK` a snapshot that shows a hold as active also shows it under its
payment. `EventsRegisterOnce` needs one more invariant, `EventsIn`: what earlier
transactions have left stays, an event processed since is that of a worker's
call, and the counts agree. `OnlySweepsDeadlock` gives each row a rank (event,
hold, capture, user's balance, deposit, settlement, payable, payment, request):
a transaction that waits, and is no sweep, wants a row of a higher rank than any
it has locked. Along a cycle without a sweep the ranks of the wanted rows would
ascend for ever.

`TxInv` is not part of a run, as it is defined beside its proof.

Only model-checked. `HoldsSettle`, `EventuallySettled`, `EventuallyPublished`,
`ReadingEnds` and `SignalEnds` are liveness under fairness, which is out of the
prover's reach. All other properties of the passing runs are theorems.

## Findings

- A hold on a settlement account is a normal operation for `Hold`, and
  `Reconcile` reports it as drift: `reconcile.go:53` leaves the active holds out
  of an asset's expected balance (`ledger_drift`). Money is not affected.
- After a failed DLQ publish the batch is left uncommitted, but the client's
  position has moved on: the commit of the next settled batch passes the record,
  which is neither processed nor dead-lettered (`consumer_loss`). Records of a
  poll that also returned an error are skipped in the same way;
  `LossesAreLogged` shows that there is no third way.
- `listEntries` does not ask `rows.Err`: a connection lost in the middle of a
  page yields a short page, which is answered as the last one (`pages_cut`).

Observations that the passing runs state as exceptions or bounds:

- `ValidateBalanced` sums in `int64`: three or more entries whose debits exceed
  their credits by 2^64 pass (the exception in `BalancedUnlessWrapped`). No
  caller posts more than two entries, and for two the check is exact.
- "TTL bounds staleness" (`httpapi/server.go:114`) is true up to the time of one
  request: the TTL is counted from `Set`, not from the read
  (`StalenessBounded`).
- The gRPC server takes calls before `gatewayauth.New` has the JWKS. A signal,
  or the end of the attempts, in that time makes `run` return past
  `GracefulStop`: the dependencies are closed under the calls in flight.
  `ServersInOrder` is therefore about the path on which the health status was
  taken back; `PoolLast` holds on both, so what is lost are answers, which
  `replay` gives again.
- `GracefulStop` (`main.go:183`) has no timeout and waits for the `Watch`
  streams of the health service too: one whose client stays keeps the process
  from ending until it is killed (the exception in `SignalEnds`).
- A compensation that overlaps the hold it is for can leave it active, with its
  event recorded as processed (`MissesOnlyNewer`); the hold then waits for a
  capture, a release or its expiry (`HoldsSettle`).
- `InTx` is documented as "retrying on 40001/40P01" (`ledger.go:67`). A sweep
  whose select meets one is not tried again, since `operations.go:217-225` does
  not ask `rows.Err`; the next tick is its retry.
- A relay that has lost its connection publishes the rest of its batch
  (`outbox.go:93-111`) although another one may have the rows by then.

## Not modelled

- Syntax checks of requests: they change no state.
- JSON schema, wire format, envelope, logging, metrics.
- `gatewayauth.Middleware`: it verifies one token with the JWT library and
  rewrites the headers of one request, without state or other components.
- Configuration: read once; a value that does not parse becomes the default.
- `GetBalance`, `listAccounts`, the ownership lookups and the health probes are
  single reads, except for what `VersionOrders` says about the version a reader
  gets.

## Plan

1. All components of the table above are modelled and checked, and their safety
   properties proved.
2. `Transactions` begins with rows that agree with each other, `Ledger` with an
   empty ledger. Carrying `LedgerInv` over from one to the other needs earlier
   rows whose balances reconcile, and `LedgerProofs` stated over the refinement
   mapping.
3. The lemmas that two proof modules need alike (sequences, least and greatest
   elements) into one module, if more proofs come to use them.
