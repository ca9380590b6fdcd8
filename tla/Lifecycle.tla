------------------------------ MODULE Lifecycle -----------------------------
(***************************************************************************)
(* The process (run in cmd/server/main.go): its start, in the order of the *)
(* code, the goroutines it leaves running, and its end, by a signal, by an *)
(* error of the start or by a crash.  Several replicas start and stop      *)
(* beside each other on one database.                                      *)
(*                                                                         *)
(* What a handler or a worker does is one thing here: it takes a           *)
(* connection of the pool, and gives it back.  No code holds two at once.  *)
(* goose, pgxpool, net/http, grpc and keyfunc are external.                *)
(***************************************************************************)
EXTENDS Integers, Sequences, FiniteSets, SequencesExt

CONSTANTS
    Replica,
    Rpc,          \* gRPC calls a replica may be serving at once
    Watch,        \* those of them that are Watch streams of the health service
    Request,      \* HTTP requests it may be serving at once
    Worker,       \* background goroutines: relay, consumer, sweep, reconcile
    Relay,        \* the first of them
    Migrations,   \* number of files in migrations/
    PoolSize,     \* connections of the pool
    MaxAttempts,  \* attempts to fetch the JWKS, 10
    NoReplica

Task == Rpc \cup Request \cup Worker

ASSUME LifecycleAssumption ==
    /\ NoReplica \notin Replica /\ Relay \in Worker /\ Watch \subseteq Rpc
    /\ Rpc \cap Request = {} /\ Rpc \cap Worker = {} /\ Request \cap Worker = {}
    /\ Migrations \in Nat /\ PoolSize \in Nat \ {0} /\ MaxAttempts \in Nat \ {0}

VARIABLES
    schema,     \* goose_db_version: the migrations applied, in order
    lock,       \* the replica that has the session lock of the migrations
    pending,    \* the migrations a replica has found missing
    pc,         \* where run is
    done,       \* ctx is done: the signal has come
    attempt,    \* of gatewayauth.New, 0 outside it
    task,       \* each goroutine: "off", "idle" (no connection), "conn", "ended"
    intake,     \* the servers that accept: "grpc", "http"
    health,     \* the gRPC health status is SERVING
    deps        \* what is open, in the order of the defer statements

vars == <<schema, lock, pending, pc, done, attempt, task, intake, health, deps>>

Location == {"down", "pool", "migrate", "clients", "workers", "listen", "jwks", "serve",
             "run", "shutdown", "stop", "return"}

LifecycleTypeOK ==
    /\ schema \in Seq(1 .. Migrations)
    /\ lock \in Replica \cup {NoReplica}
    /\ pending \in [Replica -> Seq(1 .. Migrations)]
    /\ pc \in [Replica -> Location]
    /\ done \in [Replica -> BOOLEAN]
    /\ attempt \in [Replica -> 0 .. MaxAttempts]
    /\ task \in [Replica -> [Task -> {"off", "idle", "conn", "ended"}]]
    /\ intake \in [Replica -> SUBSET {"grpc", "http"}]
    /\ health \in [Replica -> BOOLEAN]
    /\ deps \in [Replica -> Seq({"pool", "cache", "producer", "consumer"})]

Off == [t \in Task |-> "off"]

Init ==
    /\ schema = <<>> /\ lock = NoReplica
    /\ pending = [r \in Replica |-> <<>>]
    /\ pc = [r \in Replica |-> "down"]
    /\ done = [r \in Replica |-> FALSE]
    /\ attempt = [r \in Replica |-> 0]
    /\ task = [r \in Replica |-> Off]
    /\ intake = [r \in Replica |-> {}]
    /\ health = [r \in Replica |-> FALSE]
    /\ deps = [r \in Replica |-> <<>>]

Goto(r, l) == pc' = [pc EXCEPT ![r] = l]

database == <<schema, lock, pending>>
servers == <<intake, health>>

-----------------------------------------------------------------------------
(* Start. *)

\* NotifyContext, Load and pgxpool.New, which does not connect yet.
Start(r) ==
    /\ pc[r] = "down" /\ Goto(r, "pool")
    /\ deps' = [deps EXCEPT ![r] = <<"pool">>]
    /\ UNCHANGED <<database, done, attempt, task, servers>>

\* Mutant of Lock: the provider is built without WithSessionLocker.
NoLock(r) ==
    /\ pc[r] = "pool" /\ ~ done[r]
    /\ pending' = [pending EXCEPT ![r] = [i \in 1 .. Migrations - Len(schema) |-> Len(schema) + i]]
    /\ Goto(r, "migrate")
    /\ UNCHANGED <<schema, lock, done, attempt, task, servers, deps>>

\* provider.Up: the session lock, and then what is missing.
Lock(r) ==
    /\ pc[r] = "pool" /\ ~ done[r]
    /\ lock = NoReplica /\ lock' = r
    /\ pending' = [pending EXCEPT ![r] = [i \in 1 .. Migrations - Len(schema) |-> Len(schema) + i]]
    /\ Goto(r, "migrate")
    /\ UNCHANGED <<schema, done, attempt, task, servers, deps>>

\* One file and its version row, in one transaction.
Apply(r) ==
    /\ pc[r] = "migrate" /\ pending[r] # <<>>
    /\ schema' = Append(schema, Head(pending[r]))
    /\ pending' = [pending EXCEPT ![r] = Tail(@)]
    /\ UNCHANGED <<lock, pc, done, attempt, task, servers, deps>>

Unlock(r) == lock' = IF lock = r THEN NoReplica ELSE lock

\* All are applied: Redis and the producer, which do not connect yet.
OpenClients(r) ==
    /\ pc[r] = "migrate" /\ pending[r] = <<>>
    /\ Unlock(r)
    /\ deps' = [deps EXCEPT ![r] = <<"pool", "cache", "producer">>]
    /\ Goto(r, "clients")
    /\ UNCHANGED <<schema, pending, done, attempt, task, servers>>

\* An error of migrate, also because ctx is done or the lock is not free in time.
MigrateFails(r) ==
    /\ pc[r] \in {"pool", "migrate"}
    /\ Unlock(r)
    /\ pending' = [pending EXCEPT ![r] = <<>>]
    /\ Goto(r, "return")
    /\ UNCHANGED <<schema, done, attempt, task, servers, deps>>

\* The producer cannot be made.
ProducerFails(r) ==
    /\ pc[r] = "migrate" /\ pending[r] = <<>>
    /\ Unlock(r)
    /\ deps' = [deps EXCEPT ![r] = <<"pool", "cache">>]
    /\ Goto(r, "return")
    /\ UNCHANGED <<schema, pending, done, attempt, task, servers>>

\* The relay is running before the consumer is made.
StartRelay(r) ==
    /\ pc[r] = "clients" /\ Goto(r, "workers")
    /\ task' = [task EXCEPT ![r][Relay] = "idle"]
    /\ UNCHANGED <<database, done, attempt, servers, deps>>

StartWorkers(r) ==
    /\ pc[r] = "workers" /\ Goto(r, "listen")
    /\ task' = [task EXCEPT ![r] = [t \in Task |-> IF t \in Worker \ {Relay} THEN "idle" ELSE @[t]]]
    /\ deps' = [deps EXCEPT ![r] = Append(@, "consumer")]
    /\ UNCHANGED <<database, done, attempt, servers>>

\* The gRPC health status, the listener and the server.
ServeGrpc(r) ==
    /\ pc[r] = "listen" /\ Goto(r, "jwks")
    /\ health' = [health EXCEPT ![r] = TRUE]
    /\ intake' = [intake EXCEPT ![r] = {"grpc"}]
    /\ attempt' = [attempt EXCEPT ![r] = 1]
    /\ UNCHANGED <<database, done, task, deps>>

\* The consumer or the listener cannot be made: run returns, and what is running
\* goes on beside the deferred calls.
StartFails(r) ==
    /\ pc[r] \in {"workers", "listen"}
    /\ Goto(r, "return")
    /\ UNCHANGED <<database, done, attempt, task, servers, deps>>

\* gatewayauth.New: the JWKS cannot be fetched, and there is another attempt.
\* (With the signal and the two seconds both there, select takes either.)
JwksRetry(r) ==
    /\ pc[r] = "jwks" /\ attempt[r] < MaxAttempts
    /\ attempt' = [attempt EXCEPT ![r] = @ + 1]
    /\ UNCHANGED <<database, pc, done, task, servers, deps>>

\* The last attempt failed, or the signal came in between: run returns, and
\* the gRPC server is not stopped.
JwksFails(r) ==
    /\ pc[r] = "jwks" /\ (done[r] \/ attempt[r] = MaxAttempts)
    /\ Goto(r, "return")
    /\ attempt' = [attempt EXCEPT ![r] = 0]
    /\ UNCHANGED <<database, done, task, servers, deps>>

JwksFetched(r) ==
    /\ pc[r] = "jwks" /\ Goto(r, "serve")
    /\ attempt' = [attempt EXCEPT ![r] = 0]
    /\ UNCHANGED <<database, done, task, servers, deps>>

\* ListenAndServe in a goroutine; an error is only logged.
ServeHttp(r) ==
    /\ pc[r] = "serve" /\ Goto(r, "run")
    /\ intake' \in {intake, [intake EXCEPT ![r] = @ \cup {"http"}]}
    /\ UNCHANGED <<database, done, attempt, task, health, deps>>

-----------------------------------------------------------------------------
(* What runs. *)

\* A server hands a call to a handler.
Accepts(r, t) == (IF t \in Rpc THEN "grpc" ELSE "http") \in intake[r]

Call(r, t) ==
    /\ t \in Rpc \cup Request /\ task[r][t] = "off" /\ Accepts(r, t)
    /\ task' = [task EXCEPT ![r][t] = "idle"]
    /\ UNCHANGED <<database, pc, done, attempt, servers, deps>>

Connections(r) == {t \in Task : task[r][t] = "conn"}

\* The pool is closing, or closed: Acquire returns an error.
PoolOpen(r) == pc[r] # "return" \/ Len(deps[r]) > 1

\* Acquire, for one statement or one transaction; the health service has none.
Acquire(r, t) ==
    /\ task[r][t] = "idle" /\ t \notin Watch /\ PoolOpen(r)
    /\ t \in Worker => ~ done[r]
    /\ Cardinality(Connections(r)) < PoolSize
    /\ task' = [task EXCEPT ![r][t] = "conn"]
    /\ UNCHANGED <<database, pc, done, attempt, servers, deps>>

\* The transaction has ended one way or another.
Release(r, t) ==
    /\ task[r][t] = "conn"
    /\ task' = [task EXCEPT ![r][t] = "idle"]
    /\ UNCHANGED <<database, pc, done, attempt, servers, deps>>

\* The handler answers, with what it has or with an error.  A Watch stream ends
\* because its client leaves: it is told NOT_SERVING, and stays open.
Answer(r, t) ==
    /\ t \in Rpc \cup Request /\ task[r][t] = "idle"
    /\ task' = [task EXCEPT ![r][t] = "off"]
    /\ UNCHANGED <<database, pc, done, attempt, servers, deps>>

\* every, Relay.Run and Consumer.Run return when ctx is done.  Nobody waits.
WorkerEnds(r, t) ==
    /\ t \in Worker /\ task[r][t] = "idle" /\ done[r]
    /\ task' = [task EXCEPT ![r][t] = "ended"]
    /\ UNCHANGED <<database, pc, done, attempt, servers, deps>>

-----------------------------------------------------------------------------
(* End. *)

\* SIGTERM.
Signal(r) ==
    /\ pc[r] # "down" /\ ~ done[r]
    /\ done' = [done EXCEPT ![r] = TRUE]
    /\ UNCHANGED <<database, pc, attempt, task, servers, deps>>

\* ctx is done: NOT_SERVING, and Shutdown stops the HTTP listener.
BeginShutdown(r) ==
    /\ pc[r] = "run" /\ done[r] /\ Goto(r, "shutdown")
    /\ health' = [health EXCEPT ![r] = FALSE]
    /\ intake' = [intake EXCEPT ![r] = @ \ {"http"}]
    /\ UNCHANGED <<database, done, attempt, task, deps>>

\* Mutant of BeginStop: Shutdown has no timeout.
BeginStopDrained(r) ==
    /\ pc[r] = "shutdown" /\ Goto(r, "stop")
    /\ \A t \in Request : task[r][t] = "off"
    /\ intake' = [intake EXCEPT ![r] = {}]
    /\ UNCHANGED <<database, done, attempt, task, health, deps>>

\* Shutdown returns when no request is left, or after 15 s.  GracefulStop
\* closes the gRPC listener.
BeginStop(r) ==
    /\ pc[r] = "shutdown" /\ Goto(r, "stop")
    /\ intake' = [intake EXCEPT ![r] = {}]
    /\ UNCHANGED <<database, done, attempt, task, health, deps>>

\* GracefulStop returns when no call is left, the Watch streams among them.  It
\* has no timeout.
Stopped(r) ==
    /\ pc[r] = "stop" /\ \A t \in Rpc : task[r][t] = "off"
    /\ Goto(r, "return")
    /\ UNCHANGED <<database, done, attempt, task, servers, deps>>

\* pool.Close waits for the connections that are in use; the others do not wait.
Closable(r) == Last(deps[r]) = "pool" => Connections(r) = {}

\* run returns: one deferred Close, the last first.
Close(r) ==
    /\ pc[r] = "return" /\ deps[r] # <<>> /\ Closable(r)
    /\ deps' = [deps EXCEPT ![r] = Front(@)]
    /\ UNCHANGED <<database, pc, done, attempt, task, servers>>

\* The process is gone, and everything it had in memory.
Gone(r) ==
    /\ Goto(r, "down")
    /\ done' = [done EXCEPT ![r] = FALSE]
    /\ attempt' = [attempt EXCEPT ![r] = 0]
    /\ task' = [task EXCEPT ![r] = Off]
    /\ intake' = [intake EXCEPT ![r] = {}]
    /\ health' = [health EXCEPT ![r] = FALSE]
    /\ deps' = [deps EXCEPT ![r] = <<>>]

\* main returns, or calls os.Exit(1).
Exit(r) ==
    /\ pc[r] = "return" /\ deps[r] = <<>>
    /\ Gone(r)
    /\ UNCHANGED database

\* The process is killed; PostgreSQL ends its sessions.
Crash(r) ==
    /\ pc[r] # "down" /\ Gone(r)
    /\ Unlock(r)
    /\ pending' = [pending EXCEPT ![r] = <<>>]
    /\ UNCHANGED schema

\* What run itself does next.
Run(r) ==
    \/ Lock(r) \/ Apply(r) \/ OpenClients(r) \/ MigrateFails(r)
    \/ ProducerFails(r) \/ StartRelay(r) \/ StartWorkers(r) \/ ServeGrpc(r) \/ StartFails(r)
    \/ JwksRetry(r) \/ JwksFails(r) \/ JwksFetched(r) \/ ServeHttp(r)
    \/ BeginShutdown(r) \/ BeginStop(r) \/ Stopped(r) \/ Close(r) \/ Exit(r)

Next ==
    \E r \in Replica :
        \/ Start(r)
        \/ Run(r)
        \/ \E t \in Task : Call(r, t)
        \/ \E t \in Task : Acquire(r, t)
        \/ \E t \in Task : Release(r, t)
        \/ \E t \in Task : Answer(r, t)
        \/ \E t \in Task : WorkerEnds(r, t)
        \/ Signal(r)
        \/ Crash(r)

Spec == Init /\ [][Next]_vars

\* run goes on, every transaction ends, and every RPC of the money API is
\* answered after finitely many of them: InTx gives up after its attempts, and
\* PostgreSQL breaks deadlocks.  Nothing is assumed of the clients of Watch, and
\* signals, crashes, starts and calls are not assumed either.
Fairness == \A r \in Replica :
    /\ WF_vars(Run(r))
    /\ \A t \in Task : WF_vars(Release(r, t))
    /\ \A t \in Rpc \ Watch : SF_vars(Answer(r, t))

LiveSpec == Spec /\ Fairness

-----------------------------------------------------------------------------
(* Properties. *)

\* Every migration is applied once and in order, however many replicas start at
\* the same time and whichever of them dies in the middle (provider.Up with the
\* session lock).
MigrationsInOrder == schema = [i \in 1 .. Len(schema) |-> i]

\* No statement meets a schema that is not complete, although the workers, the
\* gRPC server and other replicas start beside each other (migrate comes first).
StatementsFindSchema ==
    \A r \in Replica : Connections(r) # {} => Len(schema) = Migrations

\* GracefulStop waits for a Watch stream.
HeldByWatch(r) == pc[r] = "stop" /\ \E t \in Watch : task[r][t] # "off"

\* After the signal the process ends, whether it is starting, serving, or
\* waiting for the lock, the JWKS, calls or transactions, unless GracefulStop
\* waits for ever for a Watch stream whose client stays: only these can hold it.
SignalEnds == \A r \in Replica :
    (done[r] ~> pc[r] = "down") \/ <>[]HeldByWatch(r)

\* The session lock belongs to the replica that migrates, and what it found
\* missing when it got the lock is still what is missing (provider.Up).
LockGuardsMigrations == \A r \in Replica :
    IF pc[r] = "migrate"
    THEN lock = r /\ pending[r] = [i \in 1 .. Migrations - Len(schema) |-> Len(schema) + i]
    ELSE lock # r /\ pending[r] = <<>>

\* What runs, and what can be called, is behind a complete schema.
SchemaFirst == \A r \in Replica :
    \/ pc[r] \notin {"down", "pool", "migrate", "return"}
    \/ task[r] # Off
    \/ intake[r] # {}
    => Len(schema) = Migrations

\* No call is there before ServeGrpc; the health status is SERVING from there
\* to the shutdown; and run returns after it with no call left, or in the midst
\* of them when the JWKS cannot be had.
ServersInOrder == \A r \in Replica :
    /\ pc[r] \in {"down", "pool", "migrate", "clients", "workers", "listen"} =>
        ~ health[r] /\ intake[r] = {} /\ \A t \in Rpc : task[r][t] = "off"
    /\ pc[r] \in {"jwks", "serve", "run"} => health[r]
    /\ pc[r] = "stop" => intake[r] = {}
    /\ pc[r] = "return" /\ ~ health[r] => intake[r] = {} /\ \A t \in Rpc : task[r][t] = "off"

\* The pool is opened first and closed last, when nobody has a connection.
PoolLast == \A r \in Replica :
    /\ pc[r] \notin {"down", "return"} => deps[r] # <<>>
    /\ deps[r] # <<>> => deps[r][1] = "pool"
    /\ pc[r] = "return" /\ deps[r] = <<>> => Connections(r) = {}

\* The start keeps its order in every replica: the lock, each migration once,
\* the statements after all of them, at most MaxAttempts fetches of the JWKS;
\* and the end goes through the servers to the pool.
LifecycleInv ==
    /\ LifecycleTypeOK /\ MigrationsInOrder /\ StatementsFindSchema
    /\ LockGuardsMigrations /\ SchemaFirst /\ ServersInOrder /\ PoolLast
=============================================================================
