-------------------------------- MODULE Relay -------------------------------
(***************************************************************************)
(* The outbox: transactions that write events (outbox.Writer), and the     *)
(* replicas of the relay that publish them (outbox.Relay.drainOnce), each  *)
(* batch in one READ COMMITTED transaction.                                *)
(*                                                                         *)
(* An event is written while its transaction has the balance of the        *)
(* account locked (operations.go), so that only one open transaction has   *)
(* events of an account.  Ids are UUIDs of version 7, which grow with time:*)
(* the clocks of the replicas are assumed to agree.  Kafka and the schema  *)
(* registry are external.                                                  *)
(***************************************************************************)
EXTENDS Integers, FiniteSets, FiniteSetsExt, SequencesExt

CONSTANTS
    Replica,       \* processes of the service, each with one relay
    Writer,        \* transactions of the ledger that write events
    Account,       \* aggregateid, the key of the record
    Topic,         \* type, the topic of the record
    Unregistered,  \* topics the registry knows no schema for
    BatchLimit,    \* "limit 50"
    MaxId,         \* bound on the events written
    MaxFaults      \* bound on what fails

ASSUME RelayAssumption ==
    /\ Unregistered \subseteq Topic
    /\ BatchLimit \in Nat \ {0} /\ MaxId \in Nat /\ MaxFaults \in Nat

VARIABLES
    events,      \* the event written under each id drawn so far
    open,        \* ids each writer has inserted and not committed
    visible,     \* committed rows of outbox
    processed,   \* rows whose processed_at is set
    batch,       \* the rows a replica has locked and goes through, in order
    ids,         \* how many of them it has published
    lost,        \* replicas whose connection to PostgreSQL is gone: their locks are free
    schemas,     \* Registry.ids: the topics whose schema id a replica has cached
    registryUp,
    published,   \* ids the broker has
    faults,      \* what has failed so far
    skipped,     \* history: rows that were locked by others when a replica selected
    undone       \* history: ids that were in a batch that was rolled back

vars == <<events, open, visible, processed, batch, ids, lost, schemas, registryUp, published,
          faults, skipped, undone>>

Event == [account : Account, topic : Topic]

RelayTypeOK ==
    /\ events \in Seq(Event) /\ Len(events) <= MaxId
    /\ open \in [Writer -> SUBSET (1 .. Len(events))]
    /\ processed \subseteq visible /\ visible \subseteq 1 .. Len(events)
    /\ batch \in [Replica -> Seq(visible)]
    /\ ids \in [Replica -> Nat] /\ \A r \in Replica : ids[r] <= Len(batch[r])
    /\ lost \subseteq Replica
    /\ schemas \in [Replica -> SUBSET Topic]
    /\ registryUp \in BOOLEAN
    /\ published \subseteq visible
    /\ faults \in 0 .. MaxFaults
    /\ skipped \in [Replica -> SUBSET visible] /\ undone \subseteq visible

Init ==
    /\ events = <<>>
    /\ open = [w \in Writer |-> {}]
    /\ visible = {} /\ processed = {}
    /\ batch = [r \in Replica |-> <<>>]
    /\ ids = [r \in Replica |-> 0]
    /\ lost = {}
    /\ schemas = [r \in Replica |-> {}]
    /\ registryUp = TRUE
    /\ published = {}
    /\ faults = 0
    /\ skipped = [r \in Replica |-> {}]
    /\ undone = {}

relayVars == <<batch, ids, lost, schemas, processed, published, skipped, undone>>

-----------------------------------------------------------------------------
(* Writers. *)

\* Writer.Write: the row gets the next id.  The balance of the account is
\* locked by this transaction, so no other one has events of it open.
Write(w, e) ==
    /\ Len(events) < MaxId
    /\ \A v \in Writer \ {w} : \A i \in open[v] : events[i].account # e.account
    /\ events' = Append(events, e)
    /\ open' = [open EXCEPT ![w] = @ \cup {Len(events) + 1}]
    /\ UNCHANGED <<visible, registryUp, faults, relayVars>>

CommitWrites(w) ==
    /\ open[w] # {}
    /\ visible' = visible \cup open[w]
    /\ open' = [open EXCEPT ![w] = {}]
    /\ UNCHANGED <<events, registryUp, faults, relayVars>>

AbortWrites(w) ==
    /\ open[w] # {}
    /\ open' = [open EXCEPT ![w] = {}]
    /\ UNCHANGED <<events, visible, registryUp, faults, relayVars>>

-----------------------------------------------------------------------------
(* Replicas. *)

\* The locks of a transaction go with its connection.
LockedByOthers(r) == UNION {Range(batch[q]) : q \in Replica \ (lost \cup {r})}

\* Mutant of Unprocessed: rows locked by another replica are read as well.
UnprocessedUnlocked(r) == visible \ processed

\* Mutant of Unprocessed: the relay remembers how far it has come.
UnprocessedAfterLast(r) ==
    {i \in visible \ (processed \cup LockedByOthers(r)) : \A j \in processed : j < i}

\* "processed_at is null ... for update skip locked".
Unprocessed(r) == visible \ (processed \cup LockedByOthers(r))

\* Mutant of Before: "order by id desc".
NewestFirst(i, j) == i > j

\* "order by id".
Before(i, j) == i < j

\* "limit 50": as many of the rows as the limit allows, the first ones in order.
FirstRows(rows) == {s \in [1 .. Min({Cardinality(rows), BatchLimit}) -> rows] :
    /\ \A k, l \in DOMAIN s : k < l => Before(s[k], s[l])
    /\ \A i \in rows \ Range(s), k \in DOMAIN s : Before(s[k], i)}

\* The select of drainOnce; without rows the transaction ends at once.
Select(r) ==
    /\ batch[r] = <<>> /\ Unprocessed(r) # {}
    /\ \E s \in FirstRows(Unprocessed(r)) : batch' = [batch EXCEPT ![r] = s]
    /\ skipped' = [skipped EXCEPT ![r] = LockedByOthers(r)]
    /\ UNCHANGED <<events, open, visible, processed, ids, lost, schemas, registryUp, published, faults, undone>>

Current(r) == batch[r][ids[r] + 1]

\* Any error: the transaction is rolled back, and what it has published stays.
Rollback(r) ==
    /\ batch' = [batch EXCEPT ![r] = <<>>]
    /\ ids' = [ids EXCEPT ![r] = 0]
    /\ lost' = lost \ {r}
    /\ undone' = undone \cup Range(batch[r])
    /\ UNCHANGED <<events, open, visible, processed, skipped>>

\* Registry.SchemaID: from the cache, or from the registry.
Resolvable(r, t) == t \in schemas[r] \/ (registryUp /\ t \notin Unregistered)

SchemaFails(r) ==
    /\ ids[r] < Len(batch[r]) /\ ~ Resolvable(r, events[Current(r)].topic)
    /\ Rollback(r)
    /\ UNCHANGED <<schemas, registryUp, published, faults>>

\* SchemaID, Frame and ProduceSync of the next row of the batch.
Publish(r) ==
    /\ ids[r] < Len(batch[r]) /\ Resolvable(r, events[Current(r)].topic)
    /\ schemas' = [schemas EXCEPT ![r] = @ \cup {events[Current(r)].topic}]
    /\ published' = published \cup {Current(r)}
    /\ ids' = [ids EXCEPT ![r] = @ + 1]
    /\ UNCHANGED <<events, open, visible, processed, batch, lost, registryUp, faults, skipped, undone>>

\* Mutant of ProduceFails: the row is given up, and the batch goes on.
ProduceSkips(r) ==
    /\ ids[r] < Len(batch[r]) /\ Resolvable(r, events[Current(r)].topic)
    /\ faults < MaxFaults /\ faults' = faults + 1
    /\ ids' = [ids EXCEPT ![r] = @ + 1]
    /\ UNCHANGED <<events, open, visible, processed, batch, lost, schemas, registryUp, published, skipped,
                   undone>>

\* ProduceSync returns an error; the broker may have the record all the same.
ProduceFails(r) ==
    /\ ids[r] < Len(batch[r]) /\ Resolvable(r, events[Current(r)].topic)
    /\ faults < MaxFaults /\ faults' = faults + 1
    /\ schemas' = [schemas EXCEPT ![r] = @ \cup {events[Current(r)].topic}]
    /\ published' \in {published, published \cup {Current(r)}}
    /\ Rollback(r)
    /\ UNCHANGED registryUp

\* "update outbox set processed_at", and the commit.
Mark(r) ==
    /\ batch[r] # <<>> /\ ids[r] = Len(batch[r]) /\ r \notin lost
    /\ processed' = processed \cup Range(batch[r])
    /\ batch' = [batch EXCEPT ![r] = <<>>]
    /\ ids' = [ids EXCEPT ![r] = 0]
    /\ UNCHANGED <<events, open, visible, lost, schemas, registryUp, published, faults, skipped,
                   undone>>

\* The update or the commit fails.
MarkFails(r) ==
    /\ batch[r] # <<>> /\ ids[r] = Len(batch[r])
    /\ faults < MaxFaults /\ faults' = faults + 1
    /\ Rollback(r)
    /\ UNCHANGED <<schemas, registryUp, published>>

\* The connection is lost in mid-batch: PostgreSQL rolls the transaction back
\* and frees its rows.  The loop does not speak to the database, so that the
\* replica goes on publishing, beside one that has the rows now.
ConnectionLost(r) ==
    /\ batch[r] # <<>> /\ r \notin lost
    /\ faults < MaxFaults /\ faults' = faults + 1
    /\ lost' = lost \cup {r}
    /\ undone' = undone \cup Range(batch[r])
    /\ UNCHANGED <<events, open, visible, processed, batch, ids, schemas, registryUp, published, skipped>>

\* It notices when it comes to the update.
MarkLost(r) ==
    /\ batch[r] # <<>> /\ ids[r] = Len(batch[r]) /\ r \in lost
    /\ Rollback(r)
    /\ UNCHANGED <<schemas, registryUp, published, faults>>

\* The process dies at any point of the batch, and is started again with an
\* empty cache.
Crash(r) ==
    /\ batch[r] # <<>>
    /\ faults < MaxFaults /\ faults' = faults + 1
    /\ schemas' = [schemas EXCEPT ![r] = {}]
    /\ Rollback(r)
    /\ UNCHANGED <<registryUp, published>>

RegistryDown ==
    /\ registryUp /\ faults < MaxFaults
    /\ registryUp' = FALSE /\ faults' = faults + 1
    /\ UNCHANGED <<events, open, visible, relayVars>>

RegistryUp ==
    /\ ~ registryUp /\ registryUp' = TRUE
    /\ UNCHANGED <<events, open, visible, faults, relayVars>>

Drain(r) == Select(r) \/ SchemaFails(r) \/ Publish(r) \/ Mark(r) \/ MarkLost(r)

Next ==
    \/ \E w \in Writer, e \in Event : Write(w, e)
    \/ \E w \in Writer : CommitWrites(w)
    \/ \E w \in Writer : AbortWrites(w)
    \/ \E r \in Replica : Drain(r)
    \/ \E r \in Replica : ProduceFails(r)
    \/ \E r \in Replica : MarkFails(r)
    \/ \E r \in Replica : ConnectionLost(r)
    \/ \E r \in Replica : Crash(r)
    \/ RegistryDown
    \/ RegistryUp

Spec == Init /\ [][Next]_vars

\* Run drains on every tick and tries again after an error; the registry comes
\* back.  Nothing is assumed of the writers.
Fairness == (\A r \in Replica : WF_vars(Drain(r))) /\ WF_vars(RegistryUp)

LiveSpec == Spec /\ Fairness

-----------------------------------------------------------------------------
(* Properties. *)

\* At least once: no row is marked that the broker does not have, whatever fails
\* in the middle of a batch (drainOnce marks the whole batch, or nothing).
MarkedWerePublished == processed \subseteq published

NotAgain == \A r \in Replica :
    ids'[r] > ids[r] /\ Current(r) \in published => Current(r) \in undone

\* Replica-safe: an event is published again only if a transaction whose batch it
\* was in has been rolled back, by the replica or by PostgreSQL when the
\* connection was lost; replicas that run side by side with their connections
\* never publish the same row.
AgainOnlyAfterRollback == [][NotAgain]_vars

Older(i) == {j \in visible : j < i /\ events[j] = events[i]}

NotOvertaking == \A r \in Replica :
    ids'[r] > ids[r] /\ Current(r) \notin published =>
        Older(Current(r)) \subseteq published \cup skipped[r]

\* The events of an account on one topic reach the broker in the order they
\* were written, except that a replica may overtake rows which another one had
\* locked when it selected its batch (skip locked).  Late commits cannot be
\* overtaken: the lock on the balance makes them visible in order.
OvertakesOnlyLocked == [][NotOvertaking]_vars

\* Every committed event is published in the end, unless it is behind a row that
\* can never be published: SchemaID fails the batch, and the next one begins
\* with the same row.
EventuallyPublished == \A i \in 1 .. MaxId :
    i \in visible ~> \/ i \in published
                     \/ \E j \in visible \ processed : j <= i /\ events[j].topic \in Unregistered

\* The rows of a batch are in order; those of a replica that has its connection
\* are not marked and locked by it alone, and those of one that has lost it count
\* as rolled back.
BatchesApart ==
    /\ \A r \in Replica : \A k, l \in 1 .. Len(batch[r]) : k < l => batch[r][k] < batch[r][l]
    /\ \A r \in Replica \ lost :
        /\ Range(batch[r]) \cap processed = {}
        /\ \A q \in Replica \ (lost \cup {r}) : Range(batch[q]) \cap Range(batch[r]) = {}
    /\ \A r \in lost : batch[r] # <<>> /\ Range(batch[r]) \subseteq undone

\* What the broker has was marked, or is the part of a batch that a replica has
\* published so far, or was in a batch that was rolled back.
Sent(r) == {batch[r][k] : k \in 1 .. ids[r]}

PublishedAccounted ==
    /\ \A r \in Replica : Sent(r) \subseteq published
    /\ published \subseteq processed \cup undone \cup UNION {Sent(r) : r \in Replica}

\* The lock on the balance: later events of the account are of the transaction
\* that has an open one, so that they commit together.
AccountsLocked == \A w \in Writer : \A j \in open[w] :
    /\ j \notin visible
    /\ \A v \in Writer \ {w} : j \notin open[v]
    /\ \A i \in j + 1 .. Len(events) : events[i].account = events[j].account => i \in open[w]

\* What is older than a row of a batch is marked, comes before it in the batch,
\* or was locked by another replica when the batch was selected.
OlderAccounted == \A r \in Replica : \A k \in 1 .. Len(batch[r]) :
    Older(batch[r][k]) \subseteq processed \cup skipped[r] \cup {batch[r][l] : l \in 1 .. k - 1}

\* Together with the types: a replica is never past the end of its batch, and
\* only committed rows are locked, published and marked.
RelayInv ==
    /\ RelayTypeOK /\ MarkedWerePublished
    /\ BatchesApart /\ PublishedAccounted /\ AccountsLocked /\ OlderAccounted
=============================================================================
