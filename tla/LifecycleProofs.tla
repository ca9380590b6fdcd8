--------------------------- MODULE LifecycleProofs --------------------------
(***************************************************************************)
(* Theorems about Lifecycle, for any number of replicas, calls, workers,   *)
(* migrations and connections: the order of the start and of the end.      *)
(***************************************************************************)
EXTENDS Lifecycle, SequenceTheorems, TLAPS

\* What is missing of the migrations.
Missing == [i \in 1 .. Migrations - Len(schema) |-> Len(schema) + i]

LEMMA TaskFacts == Rpc \subseteq Task /\ Request \subseteq Task /\ Worker \subseteq Task /\ Relay \in Task
BY LifecycleAssumption DEF Task

LEMMA SchemaFacts ==
    ASSUME LifecycleTypeOK, MigrationsInOrder
    PROVE  Len(schema) \in Nat /\ Len(schema) <= Migrations /\ Missing \in Seq(1 .. Migrations)
<1>1. Len(schema) \in Nat /\ Migrations \in Nat
    BY LifecycleAssumption DEF LifecycleTypeOK
<1>2. Len(schema) <= Migrations
    <2>1. CASE Len(schema) = 0
        BY <1>1, <2>1
    <2>2. CASE Len(schema) # 0
        <3>1. Len(schema) \in 1 .. Len(schema)
            BY <1>1, <2>2
        <3>2. schema[Len(schema)] \in 1 .. Migrations
            BY <3>1, ElementOfSeq DEF LifecycleTypeOK
        <3>3. schema[Len(schema)] = Len(schema)
            BY <3>1 DEF MigrationsInOrder
        <3> QED
            BY <1>1, <3>2, <3>3
    <2> QED
        BY <2>1, <2>2
<1>3. Missing \in Seq(1 .. Migrations)
    BY <1>1, <1>2 DEF Missing
<1> QED
    BY <1>1, <1>2, <1>3

LEMMA FrontFacts ==
    ASSUME NEW S, NEW s \in Seq(S), s # <<>>
    PROVE  /\ Front(s) \in Seq(S)
           /\ Front(s) # <<>> => Front(s)[1] = s[1]
           /\ Front(s) = <<>> => Len(s) = 1 /\ Last(s) = s[1]
<1>1. Len(s) \in Nat \ {0} /\ \A i \in 1 .. Len(s) : s[i] \in S
    BY EmptySeq, ElementOfSeq
<1>2. /\ Front(s) \in Seq(S) /\ Len(Front(s)) = Len(s) - 1
      /\ \A i \in 1 .. Len(s) - 1 : Front(s)[i] = s[i]
    <2> DEFINE n == Len(s) - 1
    <2>1. n \in Int /\ 1 \in Int /\ \A i \in 1 .. n : s[i] \in S
        BY <1>1
    <2>2. Front(s) = SubSeq(s, 1, n)
        BY DEF Front
    <2> HIDE DEF n
    <2>3. /\ Front(s) \in Seq(S) /\ Len(Front(s)) = IF 1 <= n THEN n - 1 + 1 ELSE 0
          /\ \A i \in 1 .. n - 1 + 1 : Front(s)[i] = s[1 + i - 1]
        BY <2>1, <2>2, SubSeqProperties
    <2>4. ASSUME NEW i \in 1 .. n PROVE Front(s)[i] = s[i]
        <3>1. i \in 1 .. n - 1 + 1 /\ 1 + i - 1 = i
            BY <2>1
        <3> QED
            BY <2>3, <3>1
    <2>5. n = Len(s) - 1 /\ n \in Nat
        BY <1>1 DEF n
    <2>6. Len(Front(s)) = n
        BY <2>3, <2>5
    <2> QED
        BY <2>3, <2>4, <2>5, <2>6
<1>3. Front(s) # <<>> => 1 \in 1 .. Len(s) - 1
    BY <1>1, <1>2, EmptySeq
<1>4. Front(s) = <<>> => Len(s) = 1
    BY <1>1, <1>2, EmptySeq
<1> QED
    BY <1>2, <1>3, <1>4 DEF Last

-----------------------------------------------------------------------------
(* Types. *)

LEMMA TypeInit == Init => LifecycleTypeOK
BY LifecycleAssumption DEF Init, LifecycleTypeOK, Location, Off

LEMMA DatabaseTypeNext ==
    ASSUME LifecycleTypeOK, MigrationsInOrder, NEW r \in Replica,
           \/ UNCHANGED database
           \/ Lock(r) \/ Apply(r) \/ OpenClients(r) \/ MigrateFails(r) \/ ProducerFails(r)
           \/ Crash(r)
    PROVE  /\ schema' \in Seq(1 .. Migrations)
           /\ lock' \in Replica \cup {NoReplica}
           /\ pending' \in [Replica -> Seq(1 .. Migrations)]
<1>1. CASE UNCHANGED database
    BY <1>1 DEF database, LifecycleTypeOK
<1>2. CASE Lock(r)
    <2>1. pending' = [pending EXCEPT ![r] = Missing] /\ lock' = r /\ schema' = schema
        BY <1>2 DEF Lock, Missing
    <2> QED
        BY <2>1, SchemaFacts DEF LifecycleTypeOK
<1>3. CASE Apply(r)
    <2>1. pending[r] \in Seq(1 .. Migrations) /\ pending[r] # <<>>
        BY <1>3 DEF Apply, LifecycleTypeOK
    <2>2. Head(pending[r]) \in 1 .. Migrations /\ Tail(pending[r]) \in Seq(1 .. Migrations)
        BY <2>1, HeadTailProperties
    <2>3. Append(schema, Head(pending[r])) \in Seq(1 .. Migrations)
        BY <2>2, AppendProperties DEF LifecycleTypeOK
    <2> QED
        BY <1>3, <2>2, <2>3 DEF Apply, LifecycleTypeOK
<1>4. CASE OpenClients(r) \/ MigrateFails(r) \/ ProducerFails(r) \/ Crash(r)
    <2>1. schema' = schema /\ lock' \in {lock, NoReplica} /\ pending' \in {pending, [pending EXCEPT ![r] = <<>>]}
        BY <1>4 DEF OpenClients, MigrateFails, ProducerFails, Crash, Unlock
    <2>2. <<>> \in Seq(1 .. Migrations)
        BY EmptySeq
    <2> QED
        BY <2>1, <2>2 DEF LifecycleTypeOK
<1> QED
    BY <1>1, <1>2, <1>3, <1>4

\* The types of what a replica has in memory.
ProcessTypeOK ==
    /\ pc \in [Replica -> Location]
    /\ done \in [Replica -> BOOLEAN]
    /\ attempt \in [Replica -> 0 .. MaxAttempts]
    /\ task \in [Replica -> [Task -> {"off", "idle", "conn", "ended"}]]
    /\ intake \in [Replica -> SUBSET {"grpc", "http"}]
    /\ health \in [Replica -> BOOLEAN]
    /\ deps \in [Replica -> Seq({"pool", "cache", "producer", "consumer"})]

LEMMA ProcessTypeNext ==
    ASSUME ProcessTypeOK, [Next]_vars
    PROVE  ProcessTypeOK'
<1> USE DEF ProcessTypeOK, Goto, servers
<1> DEFINE Dep == {"pool", "cache", "producer", "consumer"}
<1>0. MaxAttempts \in Nat \ {0}
    BY LifecycleAssumption
<1> SUFFICES ASSUME Next PROVE ProcessTypeOK'
    BY DEF vars
<1> PICK r \in Replica :
        \/ Start(r) \/ Run(r) \/ Signal(r) \/ Crash(r)
        \/ \E t \in Task : Call(r, t) \/ Acquire(r, t) \/ Release(r, t) \/ Answer(r, t) \/ WorkerEnds(r, t)
    BY DEF Next
<1>1. CASE Start(r)
    BY <1>1 DEF Start, Location
<1>2. CASE Lock(r) \/ MigrateFails(r)
    BY <1>2 DEF Lock, MigrateFails, Location
<1>3. CASE Apply(r)
    BY <1>3 DEF Apply
<1>4. CASE OpenClients(r)
    BY <1>4 DEF OpenClients, Location
<1>5. CASE ProducerFails(r)
    BY <1>5 DEF ProducerFails, Location
<1>6. CASE StartRelay(r)
    BY <1>6, TaskFacts DEF StartRelay, Location
<1>7. CASE StartWorkers(r)
    BY <1>7, TaskFacts DEF StartWorkers, Location
<1>8. CASE ServeGrpc(r)
    BY <1>0, <1>8 DEF ServeGrpc, Location
<1>9. CASE StartFails(r) \/ JwksFails(r) \/ JwksFetched(r)
    <2>1. PICK l \in Location, n \in 0 .. MaxAttempts :
            pc' = [pc EXCEPT ![r] = l] /\ attempt' = [attempt EXCEPT ![r] = n]
        <3>1. attempt = [attempt EXCEPT ![r] = attempt[r]] /\ attempt[r] \in 0 .. MaxAttempts
            OBVIOUS
        <3>2. 0 \in 0 .. MaxAttempts /\ {"return", "serve"} \subseteq Location
            BY <1>0 DEF Location
        <3> QED
            BY <1>9, <3>1, <3>2 DEF StartFails, JwksFails, JwksFetched
    <2>2. UNCHANGED <<done, task, intake, health, deps>>
        BY <1>9 DEF StartFails, JwksFails, JwksFetched
    <2> QED
        BY <2>1, <2>2
<1>10. CASE JwksRetry(r)
    BY <1>0, <1>10 DEF JwksRetry
<1>11. CASE ServeHttp(r)
    BY <1>11 DEF ServeHttp, Location
<1>12. CASE \E t \in Task : Call(r, t) \/ Acquire(r, t) \/ Release(r, t) \/ Answer(r, t) \/ WorkerEnds(r, t)
    <2>1. PICK t \in Task, x \in {"off", "idle", "conn", "ended"} :
            /\ task' = [task EXCEPT ![r][t] = x]
            /\ UNCHANGED <<pc, done, attempt, intake, health, deps>>
        BY <1>12 DEF Call, Acquire, Release, Answer, WorkerEnds
    <2> QED
        BY <2>1
<1>13. CASE Signal(r)
    BY <1>13 DEF Signal
<1>14. CASE BeginShutdown(r)
    BY <1>14 DEF BeginShutdown, Location
<1>15. CASE BeginStop(r)
    BY <1>15 DEF BeginStop, Location
<1>16. CASE Stopped(r)
    BY <1>16 DEF Stopped, Location
<1>17. CASE Close(r)
    <2>1. deps[r] \in Seq(Dep) /\ deps[r] # <<>> /\ deps' = [deps EXCEPT ![r] = Front(deps[r])]
        BY <1>17 DEF Close
    <2>2. Front(deps[r]) \in Seq(Dep)
        BY <2>1, FrontFacts
    <2> QED
        BY <1>17, <2>1, <2>2 DEF Close
<1>18. CASE Exit(r) \/ Crash(r)
    <2>1. Gone(r)
        BY <1>18 DEF Exit, Crash
    <2>2. Off \in [Task -> {"off", "idle", "conn", "ended"}]
        BY DEF Off
    <2> QED
        BY <1>0, <2>1, <2>2 DEF Gone, Location
<1> QED
    BY <1>1, <1>2, <1>3, <1>4, <1>5, <1>6, <1>7, <1>8, <1>9, <1>10, <1>11, <1>12, <1>13, <1>14, <1>15,
       <1>16, <1>17, <1>18 DEF Run

-----------------------------------------------------------------------------
(* The migrations. *)

\* A step that has nothing to do with the migrations.
Aside ==
    /\ UNCHANGED database
    /\ \A q \in Replica : pc'[q] = "migrate" <=> pc[q] = "migrate"

LEMMA DatabaseSteps ==
    ASSUME ProcessTypeOK, [Next]_vars
    PROVE  Aside \/ \E r \in Replica : \/ Lock(r) \/ Apply(r) \/ OpenClients(r) \/ MigrateFails(r)
                                       \/ ProducerFails(r) \/ Crash(r)
<1> USE DEF Aside, Goto, ProcessTypeOK
<1>1. CASE UNCHANGED vars
    BY <1>1 DEF vars, database
<1>2. ASSUME NEW r \in Replica, NEW t \in Task,
             Call(r, t) \/ Acquire(r, t) \/ Release(r, t) \/ Answer(r, t) \/ WorkerEnds(r, t)
      PROVE  Aside
    BY <1>2 DEF Call, Acquire, Release, Answer, WorkerEnds
<1>3. ASSUME NEW r \in Replica, Start(r) \/ Signal(r) PROVE Aside
    BY <1>3 DEF Start, Signal
<1>4. ASSUME NEW r \in Replica, StartRelay(r) \/ StartWorkers(r) \/ ServeGrpc(r) \/ StartFails(r)
      PROVE  Aside
    BY <1>4 DEF StartRelay, StartWorkers, ServeGrpc, StartFails
<1>5. ASSUME NEW r \in Replica, JwksRetry(r) \/ JwksFails(r) \/ JwksFetched(r) \/ ServeHttp(r)
      PROVE  Aside
    BY <1>5 DEF JwksRetry, JwksFails, JwksFetched, ServeHttp
<1>6. ASSUME NEW r \in Replica, BeginShutdown(r) \/ BeginStop(r) \/ Stopped(r) \/ Close(r) PROVE Aside
    BY <1>6 DEF BeginShutdown, BeginStop, Stopped, Close
<1>7. ASSUME NEW r \in Replica, Exit(r) PROVE Aside
    BY <1>7 DEF Exit, Gone
<1> QED
    BY <1>1, <1>2, <1>3, <1>4, <1>5, <1>6, <1>7 DEF Next, Run

LEMMA MissingAfterApply ==
    ASSUME LifecycleTypeOK, MigrationsInOrder, Missing # <<>>
    PROVE  LET s == Append(schema, Head(Missing)) IN
           /\ s = [i \in 1 .. Len(s) |-> i]
           /\ Len(s) = Len(schema) + 1 /\ Len(schema) < Migrations
           /\ Tail(Missing) = [i \in 1 .. Migrations - Len(s) |-> Len(s) + i]
<1> DEFINE s == Append(schema, Head(Missing))
           F == 1 .. Migrations
           n == Len(schema)
<1>1. n \in Nat /\ n <= Migrations /\ Migrations \in Nat /\ Missing \in Seq(F) /\ schema \in Seq(F)
    BY SchemaFacts, LifecycleAssumption DEF LifecycleTypeOK
<1>2. Len(Missing) = Migrations - n /\ \A i \in 1 .. Migrations - n : Missing[i] = n + i
    BY <1>1 DEF Missing
<1>3. n < Migrations
    BY <1>1, <1>2, EmptySeq
<1>4. Head(Missing) = n + 1 /\ Head(Missing) \in F
    BY <1>1, <1>2, <1>3, HeadTailProperties
<1>5. /\ s \in Seq(F) /\ Len(s) = n + 1 /\ s[n + 1] = n + 1
      /\ \A i \in 1 .. n : s[i] = schema[i]
    BY <1>1, <1>4, AppendProperties
<1>6. \A i \in 1 .. n : schema[i] = i
    BY DEF MigrationsInOrder
<1>7. s = [i \in 1 .. Len(s) |-> i]
    <2>1. DOMAIN s = 1 .. Len(s) /\ s = [i \in DOMAIN s |-> s[i]]
        BY <1>5, LenProperties
    <2>2. \A i \in 1 .. Len(s) : s[i] = i
        BY <1>1, <1>5, <1>6
    <2> HIDE DEF s
    <2> QED
        BY <2>1, <2>2
<1>8. Tail(Missing) = [i \in 1 .. Migrations - Len(s) |-> Len(s) + i]
    <2>1. /\ Tail(Missing) \in Seq(F) /\ Len(Tail(Missing)) = Migrations - n - 1
          /\ \A i \in 1 .. Len(Tail(Missing)) : Tail(Missing)[i] = Missing[i + 1]
        BY <1>1, <1>2, HeadTailProperties
    <2>2. DOMAIN Tail(Missing) = 1 .. Migrations - Len(s)
        BY <1>1, <1>5, <2>1, LenProperties
    <2>3. \A i \in 1 .. Migrations - Len(s) : Tail(Missing)[i] = Len(s) + i
        BY <1>1, <1>2, <1>3, <1>5, <2>1
    <2>4. Tail(Missing) = [i \in DOMAIN Tail(Missing) |-> Tail(Missing)[i]]
        BY <2>1, LenProperties
    <2> HIDE DEF s
    <2> QED
        BY <2>2, <2>3, <2>4
<1> QED
    BY <1>3, <1>5, <1>7, <1>8

LEMMA LockNext ==
    ASSUME LifecycleTypeOK, MigrationsInOrder, LockGuardsMigrations, [Next]_vars
    PROVE  MigrationsInOrder' /\ LockGuardsMigrations' /\ LifecycleTypeOK'
<1>0. ProcessTypeOK /\ ProcessTypeOK' /\ pc \in [Replica -> Location] /\ pending \in [Replica -> Seq(1 .. Migrations)]
    BY ProcessTypeNext DEF LifecycleTypeOK, ProcessTypeOK
<1>1. CASE Aside
    <2>1. MigrationsInOrder'
        BY <1>1 DEF Aside, database, MigrationsInOrder
    <2>2. LockGuardsMigrations'
        BY <1>1 DEF Aside, database, LockGuardsMigrations
    <2>3. LifecycleTypeOK'
        BY <1>0, <1>1 DEF Aside, database, LifecycleTypeOK, ProcessTypeOK
    <2> QED
        BY <2>1, <2>2, <2>3
<1>2. ASSUME NEW r \in Replica, \/ Lock(r) \/ Apply(r) \/ OpenClients(r) \/ MigrateFails(r)
                                \/ ProducerFails(r) \/ Crash(r)
      PROVE  LifecycleTypeOK'
    BY <1>0, <1>2, DatabaseTypeNext DEF LifecycleTypeOK, ProcessTypeOK
<1>3. ASSUME NEW r \in Replica, Lock(r) PROVE MigrationsInOrder' /\ LockGuardsMigrations'
    <2>1. /\ schema' = schema /\ lock = NoReplica /\ lock' = r
          /\ pc'[r] = "migrate" /\ pending'[r] = Missing'
          /\ \A q \in Replica \ {r} : pc'[q] = pc[q] /\ pending'[q] = pending[q]
        BY <1>0, <1>3 DEF Lock, Goto, Missing
    <2>2. \A q \in Replica : pc[q] # "migrate"
        BY <2>1, LifecycleAssumption DEF LockGuardsMigrations
    <2>3. MigrationsInOrder'
        BY <2>1 DEF MigrationsInOrder
    <2>4. LockGuardsMigrations'
        BY <2>1, <2>2 DEF LockGuardsMigrations, Missing
    <2> QED
        BY <2>3, <2>4
<1>4. ASSUME NEW r \in Replica, Apply(r) PROVE MigrationsInOrder' /\ LockGuardsMigrations'
    <2>1. /\ pc[r] = "migrate" /\ lock = r /\ lock' = lock /\ pc' = pc /\ pending[r] = Missing /\ Missing # <<>>
          /\ schema' = Append(schema, Head(Missing)) /\ pending'[r] = Tail(Missing)
          /\ \A q \in Replica \ {r} : pending'[q] = pending[q]
        BY <1>0, <1>4 DEF Apply, LockGuardsMigrations, Missing
    <2>2. /\ schema' = [i \in 1 .. Len(schema') |-> i]
          /\ pending'[r] = [i \in 1 .. Migrations - Len(schema') |-> Len(schema') + i]
        BY <2>1, MissingAfterApply
    <2>3. \A q \in Replica \ {r} : pc[q] # "migrate" /\ lock # q /\ pending[q] = <<>>
        BY <2>1 DEF LockGuardsMigrations
    <2>4. MigrationsInOrder'
        BY <2>2 DEF MigrationsInOrder
    <2>5. LockGuardsMigrations'
        BY <2>1, <2>2, <2>3 DEF LockGuardsMigrations
    <2> QED
        BY <2>4, <2>5
<1>5. ASSUME NEW r \in Replica, OpenClients(r) \/ MigrateFails(r) \/ ProducerFails(r) \/ Crash(r)
      PROVE  MigrationsInOrder' /\ LockGuardsMigrations'
    <2>1. /\ schema' = schema /\ Unlock(r)
          /\ pc'[r] # "migrate" /\ pending'[r] = <<>>
          /\ \A q \in Replica \ {r} : pc'[q] = pc[q] /\ pending'[q] = pending[q]
        BY <1>0, <1>5 DEF OpenClients, MigrateFails, ProducerFails, Crash, Gone, Goto
    <2>2. lock' # r /\ (lock # r => lock' = lock) /\ (lock = r => lock' = NoReplica)
        BY <2>1, LifecycleAssumption DEF Unlock
    <2>3. MigrationsInOrder'
        BY <2>1 DEF MigrationsInOrder
    <2>4. LockGuardsMigrations'
        <3> SUFFICES ASSUME NEW q \in Replica
                     PROVE  IF pc'[q] = "migrate"
                            THEN /\ lock' = q
                                 /\ pending'[q] = [i \in 1 .. Migrations - Len(schema') |-> Len(schema') + i]
                            ELSE lock' # q /\ pending'[q] = <<>>
            BY DEF LockGuardsMigrations
        <3>1. CASE q = r
            BY <2>1, <2>2, <3>1
        <3>2. CASE q # r
            <4>1. /\ pc[q] = "migrate" => lock = q /\ pending[q] = Missing
                  /\ pc[q] # "migrate" => lock # q /\ pending[q] = <<>>
                BY DEF LockGuardsMigrations, Missing
            <4> QED
                BY <2>1, <2>2, <3>2, <4>1, LifecycleAssumption DEF Missing
        <3> QED
            BY <3>1, <3>2
    <2> QED
        BY <2>3, <2>4
<1> QED
    BY <1>0, <1>1, <1>2, <1>3, <1>4, <1>5, DatabaseSteps

-----------------------------------------------------------------------------
(* The servers and the pool. *)

\* The cases of a step: what one replica does to its own memory.
Step(r) ==
    \/ Start(r) \/ Run(r) \/ Signal(r) \/ Crash(r)
    \/ \E t \in Task : Call(r, t) \/ Acquire(r, t) \/ Release(r, t) \/ Answer(r, t) \/ WorkerEnds(r, t)

Memory(q) == <<pc[q], done[q], task[q], intake[q], health[q], deps[q]>>

LEMMA OthersKept ==
    ASSUME ProcessTypeOK, NEW r \in Replica, Step(r), NEW q \in Replica \ {r}
    PROVE  UNCHANGED Memory(q)
<1> USE DEF ProcessTypeOK, Goto, servers, Memory
<1>1. CASE Start(r) \/ Signal(r)
    BY <1>1 DEF Start, Signal
<1>2. CASE Lock(r) \/ Apply(r) \/ OpenClients(r) \/ MigrateFails(r) \/ ProducerFails(r)
    BY <1>2 DEF Lock, Apply, OpenClients, MigrateFails, ProducerFails
<1>3. CASE StartRelay(r) \/ StartWorkers(r) \/ ServeGrpc(r) \/ StartFails(r)
    BY <1>3 DEF StartRelay, StartWorkers, ServeGrpc, StartFails
<1>4. CASE JwksRetry(r) \/ JwksFails(r) \/ JwksFetched(r) \/ ServeHttp(r)
    BY <1>4 DEF JwksRetry, JwksFails, JwksFetched, ServeHttp
<1>5. CASE BeginShutdown(r) \/ BeginStop(r) \/ Stopped(r) \/ Close(r)
    BY <1>5 DEF BeginShutdown, BeginStop, Stopped, Close
<1>6. CASE Exit(r) \/ Crash(r)
    BY <1>6 DEF Exit, Crash, Gone
<1>7. CASE \E t \in Task : Call(r, t) \/ Acquire(r, t) \/ Release(r, t) \/ Answer(r, t) \/ WorkerEnds(r, t)
    BY <1>7 DEF Call, Acquire, Release, Answer, WorkerEnds
<1> QED
    BY <1>1, <1>2, <1>3, <1>4, <1>5, <1>6, <1>7 DEF Step, Run

\* The parts of ServersInOrder and PoolLast about one replica.
Ordered(r) ==
    /\ pc[r] \in {"down", "pool", "migrate", "clients", "workers", "listen"} =>
        ~ health[r] /\ intake[r] = {} /\ \A t \in Rpc : task[r][t] = "off"
    /\ pc[r] \in {"jwks", "serve", "run"} => health[r]
    /\ pc[r] = "stop" => intake[r] = {}
    /\ pc[r] = "return" /\ ~ health[r] => intake[r] = {} /\ \A t \in Rpc : task[r][t] = "off"

PoolGuarded(r) ==
    /\ pc[r] \notin {"down", "return"} => deps[r] # <<>>
    /\ deps[r] # <<>> => deps[r][1] = "pool"
    /\ pc[r] = "return" /\ deps[r] = <<>> => Connections(r) = {}

LEMMA OrderedNext ==
    ASSUME ProcessTypeOK, NEW r \in Replica, Ordered(r), Step(r)
    PROVE  Ordered(r)'
<1> USE DEF ProcessTypeOK, Goto, servers, Ordered
<1>1. CASE Start(r) \/ Signal(r)
    BY <1>1 DEF Start, Signal
<1>2. CASE Lock(r) \/ Apply(r) \/ OpenClients(r) \/ MigrateFails(r) \/ ProducerFails(r)
    BY <1>2 DEF Lock, Apply, OpenClients, MigrateFails, ProducerFails
<1>3. CASE StartRelay(r)
    BY <1>3, TaskFacts, LifecycleAssumption DEF StartRelay
<1>4. CASE StartWorkers(r)
    <2>1. \A t \in Rpc : t \in Task /\ t \notin Worker
        BY TaskFacts, LifecycleAssumption
    <2> QED
        BY <1>4, <2>1 DEF StartWorkers
<1>5. CASE ServeGrpc(r) \/ StartFails(r)
    BY <1>5 DEF ServeGrpc, StartFails
<1>6. CASE JwksRetry(r) \/ JwksFails(r) \/ JwksFetched(r) \/ ServeHttp(r)
    BY <1>6 DEF JwksRetry, JwksFails, JwksFetched, ServeHttp
<1>7. CASE BeginShutdown(r) \/ BeginStop(r) \/ Stopped(r) \/ Close(r)
    BY <1>7 DEF BeginShutdown, BeginStop, Stopped, Close
<1>8. CASE Exit(r) \/ Crash(r)
    BY <1>8, TaskFacts DEF Exit, Crash, Gone, Off
<1>9. CASE \E t \in Task : Call(r, t)
    BY <1>9, LifecycleAssumption DEF Call, Accepts
<1>10. CASE \E t \in Task : Acquire(r, t) \/ Release(r, t) \/ Answer(r, t) \/ WorkerEnds(r, t)
    BY <1>10, TaskFacts, LifecycleAssumption DEF Acquire, Release, Answer, WorkerEnds
<1> QED
    BY <1>1, <1>2, <1>3, <1>4, <1>5, <1>6, <1>7, <1>8, <1>9, <1>10 DEF Step, Run

LEMMA PoolGuardedNext ==
    ASSUME ProcessTypeOK, NEW r \in Replica, PoolGuarded(r), Step(r)
    PROVE  PoolGuarded(r)'
<1> USE DEF ProcessTypeOK, Goto, servers
<1>1. ASSUME deps'[r] = deps[r], deps[r] # <<>> PROVE PoolGuarded(r)'
    BY <1>1 DEF PoolGuarded
<1>2. CASE Start(r)
    BY <1>2 DEF Start, PoolGuarded
<1>3. CASE Lock(r) \/ Apply(r) \/ MigrateFails(r) \/ StartRelay(r) \/ ServeGrpc(r) \/ StartFails(r)
    <2>1. deps' = deps /\ deps[r] # <<>>
        BY <1>3 DEF Lock, Apply, MigrateFails, StartRelay, ServeGrpc, StartFails, PoolGuarded
    <2> QED
        BY <1>1, <2>1
<1>4. CASE OpenClients(r) \/ ProducerFails(r)
    <2>1. deps'[r] = <<"pool", "cache", "producer">> \/ deps'[r] = <<"pool", "cache">>
        BY <1>4 DEF OpenClients, ProducerFails
    <2>2. <<"pool", "cache", "producer">> # <<>> /\ <<"pool", "cache">> # <<>>
        OBVIOUS
    <2>3. <<"pool", "cache", "producer">>[1] = "pool" /\ <<"pool", "cache">>[1] = "pool"
        OBVIOUS
    <2>4. deps'[r] # <<>> /\ deps'[r][1] = "pool"
        BY <2>1, <2>2, <2>3
    <2> QED
        BY <2>4 DEF PoolGuarded
<1>5. CASE StartWorkers(r)
    <2> DEFINE Dep == {"pool", "cache", "producer", "consumer"}
    <2>1. deps[r] # <<>> /\ deps[r] \in Seq(Dep) /\ deps[r][1] = "pool" /\ deps'[r] = Append(deps[r], "consumer")
        BY <1>5 DEF StartWorkers, PoolGuarded
    <2>2. Append(deps[r], "consumer") # <<>> /\ Append(deps[r], "consumer")[1] = deps[r][1]
        <3>1. PICK s, c : s = deps[r] /\ c = "consumer"
            OBVIOUS
        <3>2. s \in Seq(Dep) /\ c \in Dep /\ 1 \in 1 .. Len(s)
            BY <2>1, <3>1, EmptySeq
        <3> HIDE DEF Dep
        <3>3. PICK a : a = Append(s, c)
            OBVIOUS
        <3>4. Len(a) = Len(s) + 1 /\ \A i \in 1 .. Len(s) : a[i] = s[i]
            BY <3>2, <3>3, AppendProperties
        <3>5. Len(s) \in Nat /\ Len(<<>>) = 0
            BY <3>2
        <3>6. a # <<>> /\ a[1] = s[1]
            BY <3>2, <3>4, <3>5
        <3> QED
            BY <3>1, <3>3, <3>6
    <2> QED
        BY <2>1, <2>2 DEF PoolGuarded
<1>6. CASE JwksRetry(r) \/ JwksFails(r) \/ JwksFetched(r) \/ ServeHttp(r) \/ BeginShutdown(r) \/ BeginStop(r) \/ Stopped(r)
    <2>1. deps' = deps /\ deps[r] # <<>>
        BY <1>6 DEF JwksRetry, JwksFails, JwksFetched, ServeHttp, BeginShutdown, BeginStop, Stopped, PoolGuarded
    <2> QED
        BY <1>1, <2>1
<1>7. CASE Close(r)
    <2> DEFINE Dep == {"pool", "cache", "producer", "consumer"}
    <2>1. /\ pc[r] = "return" /\ deps[r] # <<>> /\ deps[r] \in Seq(Dep) /\ deps[r][1] = "pool"
          /\ Closable(r) /\ deps'[r] = Front(deps[r]) /\ UNCHANGED <<pc, task>>
        BY <1>7 DEF Close, PoolGuarded
    <2>2. /\ Front(deps[r]) # <<>> => Front(deps[r])[1] = deps[r][1]
          /\ Front(deps[r]) = <<>> => Last(deps[r]) = deps[r][1]
        BY <2>1, FrontFacts
    <2>3. Front(deps[r]) = <<>> => Connections(r)' = {}
        BY <2>1, <2>2 DEF Closable, Connections
    <2> QED
        BY <2>1, <2>2, <2>3 DEF PoolGuarded
<1>8. CASE Exit(r) \/ Crash(r)
    BY <1>8 DEF Exit, Crash, Gone, PoolGuarded
<1>9. CASE Signal(r)
    BY <1>9 DEF Signal, PoolGuarded, Connections
<1>10. CASE \E t \in Task : Acquire(r, t)
    <2>1. pc[r] = "return" => Len(deps[r]) > 1
        BY <1>10 DEF Acquire, PoolOpen
    <2>2. pc' = pc /\ deps' = deps /\ (pc[r] = "return" => deps[r] # <<>>)
        BY <1>10, <2>1, EmptySeq DEF Acquire
    <2> QED
        BY <2>2 DEF PoolGuarded
<1>11. CASE \E t \in Task : Call(r, t) \/ Release(r, t) \/ Answer(r, t) \/ WorkerEnds(r, t)
    <2>1. pc' = pc /\ deps' = deps /\ Connections(r)' \subseteq Connections(r)
        BY <1>11 DEF Call, Release, Answer, WorkerEnds, Connections
    <2> QED
        BY <2>1 DEF PoolGuarded
<1> QED
    BY <1>2, <1>3, <1>4, <1>5, <1>6, <1>7, <1>8, <1>9, <1>10, <1>11 DEF Step, Run

LEMMA ServersNext ==
    ASSUME ProcessTypeOK, ServersInOrder, PoolLast, [Next]_vars
    PROVE  ServersInOrder' /\ PoolLast'
<1>1. (ServersInOrder <=> \A q \in Replica : Ordered(q)) /\ (PoolLast <=> \A q \in Replica : PoolGuarded(q))
    BY DEF ServersInOrder, PoolLast, Ordered, PoolGuarded
<1>2. /\ ServersInOrder' <=> \A q \in Replica : Ordered(q)'
      /\ PoolLast' <=> \A q \in Replica : PoolGuarded(q)'
    BY DEF ServersInOrder, PoolLast, Ordered, PoolGuarded
<1> SUFFICES ASSUME NEW q \in Replica PROVE Ordered(q)' /\ PoolGuarded(q)'
    BY <1>2
<1>3. ASSUME UNCHANGED Memory(q) PROVE Ordered(q)' /\ PoolGuarded(q)'
    BY <1>1, <1>3 DEF Memory, Ordered, PoolGuarded, Connections
<1>4. CASE UNCHANGED vars
    BY <1>3, <1>4 DEF vars, Memory
<1>5. ASSUME NEW r \in Replica, Step(r) PROVE Ordered(q)' /\ PoolGuarded(q)'
    BY <1>1, <1>3, <1>5, OthersKept, OrderedNext, PoolGuardedNext
<1> QED
    BY <1>4, <1>5 DEF Next, Step

\* What SchemaFirst says of one replica.
Started(r) ==
    \/ pc[r] \notin {"down", "pool", "migrate", "return"}
    \/ task[r] # Off
    \/ intake[r] # {}

LEMMA StartedNext ==
    ASSUME ProcessTypeOK, NEW r \in Replica, Step(r), Started(r)'
    PROVE  Started(r) \/ OpenClients(r)
<1> USE DEF ProcessTypeOK, Goto, servers, Started
<1>1. CASE Start(r) \/ Signal(r)
    BY <1>1 DEF Start, Signal
<1>2. CASE Lock(r) \/ Apply(r) \/ MigrateFails(r) \/ ProducerFails(r)
    BY <1>2 DEF Lock, Apply, MigrateFails, ProducerFails
<1>3. CASE StartRelay(r) \/ StartWorkers(r) \/ ServeGrpc(r) \/ StartFails(r)
    BY <1>3 DEF StartRelay, StartWorkers, ServeGrpc, StartFails
<1>4. CASE JwksRetry(r) \/ JwksFails(r) \/ JwksFetched(r) \/ ServeHttp(r)
    BY <1>4 DEF JwksRetry, JwksFails, JwksFetched, ServeHttp
<1>5. CASE BeginShutdown(r) \/ BeginStop(r) \/ Stopped(r) \/ Close(r)
    BY <1>5 DEF BeginShutdown, BeginStop, Stopped, Close
<1>6. CASE Exit(r) \/ Crash(r)
    BY <1>6 DEF Exit, Crash, Gone
<1>7. CASE \E t \in Task : Call(r, t)
    BY <1>7 DEF Call, Accepts
<1>8. CASE \E t \in Task : Acquire(r, t) \/ Release(r, t) \/ Answer(r, t) \/ WorkerEnds(r, t)
    <2>1. \E t \in Task : task[r][t] # "off"
        BY <1>8 DEF Acquire, Release, Answer, WorkerEnds
    <2> QED
        BY <2>1 DEF Off
<1> QED
    BY <1>1, <1>2, <1>3, <1>4, <1>5, <1>6, <1>7, <1>8 DEF Step, Run

LEMMA SchemaFirstNext ==
    ASSUME LifecycleTypeOK, MigrationsInOrder, LockGuardsMigrations, SchemaFirst, [Next]_vars
    PROVE  SchemaFirst'
<1>0. ProcessTypeOK
    BY DEF LifecycleTypeOK, ProcessTypeOK
<1>1. (\A q \in Replica : Started(q) => Len(schema) = Migrations) /\ Len(schema) \in Nat /\ Migrations \in Nat
    BY SchemaFacts, LifecycleAssumption DEF SchemaFirst, Started
<1>2. Len(schema) = Migrations => Len(schema') = Migrations
    <2>1. ASSUME NEW r \in Replica, Apply(r) PROVE Len(schema) # Migrations
        <3>1. Missing # <<>>
            BY <2>1 DEF Apply, LockGuardsMigrations, Missing
        <3>2. Len(schema) < Migrations
            BY <3>1, MissingAfterApply
        <3> QED
            BY <1>1, <3>2
    <2>2. Aside => schema' = schema
        BY DEF Aside, database
    <2>3. \A r \in Replica : Lock(r) \/ OpenClients(r) \/ MigrateFails(r) \/ ProducerFails(r) \/ Crash(r)
            => schema' = schema
        BY DEF Lock, OpenClients, MigrateFails, ProducerFails, Crash
    <2> QED
        BY <1>0, <2>1, <2>2, <2>3, DatabaseSteps
<1> SUFFICES ASSUME NEW q \in Replica, Started(q)' PROVE Len(schema') = Migrations
    BY DEF SchemaFirst, Started
<1>3. ASSUME UNCHANGED Memory(q) PROVE Started(q)
    BY <1>3 DEF Memory, Started
<1>4. CASE UNCHANGED vars
    BY <1>1, <1>2, <1>3, <1>4 DEF vars, Memory
<1>5. ASSUME NEW r \in Replica, Step(r) PROVE Len(schema') = Migrations
    <2>1. CASE Started(q)
        BY <1>1, <1>2, <2>1
    <2>2. CASE ~ Started(q)
        <3>1. OpenClients(q)
            BY <1>0, <1>3, <1>5, <2>2, OthersKept, StartedNext
        <3>2. Missing = <<>> /\ schema' = schema
            BY <3>1 DEF OpenClients, LockGuardsMigrations, Missing
        <3>3. Len(Missing) = Migrations - Len(schema)
            BY <1>1, SchemaFacts DEF Missing
        <3> QED
            BY <1>1, <3>2, <3>3, EmptySeq
    <2> QED
        BY <2>1, <2>2
<1> QED
    BY <1>4, <1>5 DEF Next, Step

-----------------------------------------------------------------------------
(* The theorems. *)

LEMMA SchemaFound == ASSUME SchemaFirst PROVE StatementsFindSchema
<1> SUFFICES ASSUME NEW r \in Replica, Connections(r) # {} PROVE task[r] # Off
    BY DEF SchemaFirst, StatementsFindSchema
<1>1. PICK t \in Task : task[r][t] = "conn"
    BY DEF Connections
<1> QED
    BY <1>1 DEF Off

(***************************************************************************)
(* However many replicas start and die beside each other, the migrations   *)
(* are applied once and in order under the session lock, no statement      *)
(* meets an incomplete schema, and start and end keep the order of run.    *)
(***************************************************************************)
THEOREM LifecycleInvariant == Spec => []LifecycleInv
<1>1. Init => LifecycleInv
    <2> SUFFICES ASSUME Init PROVE LifecycleInv
        OBVIOUS
    <2>1. LifecycleTypeOK
        BY TypeInit
    <2>2. MigrationsInOrder
        BY EmptySeq DEF Init, MigrationsInOrder
    <2>3. LockGuardsMigrations
        BY LifecycleAssumption DEF Init, LockGuardsMigrations
    <2>4. SchemaFirst
        BY DEF Init, SchemaFirst
    <2>5. ServersInOrder
        BY TaskFacts DEF Init, ServersInOrder, Off
    <2>6. PoolLast
        BY DEF Init, PoolLast
    <2> QED
        BY <2>1, <2>2, <2>3, <2>4, <2>5, <2>6, SchemaFound DEF LifecycleInv
<1>2. LifecycleInv /\ [Next]_vars => LifecycleInv'
    <2> SUFFICES ASSUME LifecycleInv, [Next]_vars PROVE LifecycleInv'
        OBVIOUS
    <2>1. MigrationsInOrder' /\ LockGuardsMigrations' /\ LifecycleTypeOK'
        BY LockNext DEF LifecycleInv
    <2>2. SchemaFirst'
        BY SchemaFirstNext DEF LifecycleInv
    <2>3. ServersInOrder' /\ PoolLast'
        <3>1. ProcessTypeOK
            BY DEF LifecycleInv, LifecycleTypeOK, ProcessTypeOK
        <3> QED
            BY <3>1, ServersNext DEF LifecycleInv
    <2>4. StatementsFindSchema'
        BY <2>2, SchemaFound, PTL
    <2> QED
        BY <2>1, <2>2, <2>3, <2>4 DEF LifecycleInv
<1> QED
    BY <1>1, <1>2, PTL DEF Spec

=============================================================================
