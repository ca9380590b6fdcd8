------------------------------ MODULE Consumer ------------------------------
(***************************************************************************)
(* The Kafka consumer: internal/consumer, with the validator of            *)
(* internal/events that it waits for.  One client of the consumer group    *)
(* polls batches, handles their records one after the other, retries,      *)
(* dead-letters, and commits offsets; all of these may fail, and the       *)
(* process may crash between any two of them.                              *)
(*                                                                         *)
(* What a record does to the ledger is the subject of Service: here a      *)
(* transaction of handle passes the gate of processed_events and has an    *)
(* effect, passes it and does nothing (seen before), or fails.             *)
(***************************************************************************)
EXTENDS Integers, Sequences, FiniteSets, Functions

CONSTANTS
    Partition,     \* partitions of the two topics
    Applies,       \* events a transaction can handle
    Rejected,      \* well-formed events every transaction fails on
    Invalid,       \* framed events that violate their schema, or have no event_id
    Unknown,       \* framed events with a schema id the registry does not know
    Unframed,      \* records that are not in the wire format
    maxAttempts,   \* handling attempts before a record is dead-lettered
    Fault,         \* which of "dlq", "fetch", "commit", "crash" can go wrong
    MaxLog,        \* bound: records published
    MaxCrash       \* bound: crashes of the process

Poison == Invalid \cup Unknown \cup Unframed
Event == Applies \cup Rejected \cup Poison

\* A record is where it lies: partition and offset.
Record == Partition \X (1 .. MaxLog)

ASSUME ConsumerAssumption ==
    /\ Applies \cap (Rejected \cup Poison) = {} /\ Rejected \cap Poison = {}
    /\ Invalid \cap (Unknown \cup Unframed) = {} /\ Unknown \cap Unframed = {}
    /\ IsFiniteSet(Partition)
    /\ maxAttempts \in Nat \ {0}
    /\ MaxLog \in Nat /\ MaxCrash \in Nat
    /\ Fault \subseteq {"dlq", "fetch", "commit", "crash"}

VARIABLES
    log,         \* the records of each partition, oldest first
    committed,   \* how many records of a partition the group's offset is past
    position,    \* how many records of a partition the client has fetched
    batch,       \* the fetched records not handled yet
    settled,     \* Run's variable of that name
    attempt,     \* handleWithRetry's variable, for the first record of batch
    phase,       \* where Run is: "poll", "validate", "apply", "deadletter", "commit"
    schemas,     \* Validator.cache: partitions (topics) whose schema is compiled
    registryUp,  \* whether the schema registry answers
    processed,   \* table processed_events
    effects,     \* how many transactions had an effect, by event
    dlq,         \* records published to a dead letter topic
    validated,   \* history: records handle got past validation with
    abandoned,   \* history: records given up with an error in the log
    crashes      \* crashes so far

client == <<position, batch, settled, attempt, phase, schemas>>
history == <<validated, abandoned>>
vars == <<log, committed, client, registryUp, processed, effects, dlq, history, crashes>>

ConsumerTypeOK ==
    /\ log \in [Partition -> Seq(Event)]
    /\ committed \in [Partition -> 0 .. MaxLog]
    /\ position \in [Partition -> 0 .. MaxLog]
    /\ batch \in Seq(Record)
    /\ settled \in BOOLEAN
    /\ attempt \in 1 .. maxAttempts
    /\ phase \in {"poll", "validate", "apply", "deadletter", "commit"}
    /\ schemas \subseteq Partition
    /\ registryUp \in BOOLEAN
    /\ processed \subseteq Event
    /\ effects \in [Event -> Nat]
    /\ dlq \subseteq Record
    /\ validated \subseteq Record
    /\ abandoned \subseteq Record
    /\ crashes \in 0 .. MaxCrash

Init ==
    /\ log = [p \in Partition |-> <<>>]
    /\ committed = [p \in Partition |-> 0]
    /\ position = [p \in Partition |-> 0]
    /\ batch = <<>> /\ settled = TRUE /\ attempt = 1 /\ phase = "poll" /\ schemas = {}
    /\ registryUp = TRUE
    /\ processed = {} /\ effects = [e \in Event |-> 0] /\ dlq = {}
    /\ validated = {} /\ abandoned = {}
    /\ crashes = 0

-----------------------------------------------------------------------------
(* The environment. *)

\* A producer publishes an event, one that was published before included.
Publish(p, e) ==
    /\ SumFunction([q \in Partition |-> Len(log[q])]) < MaxLog
    /\ log' = [log EXCEPT ![p] = Append(@, e)]
    /\ UNCHANGED <<committed, client, registryUp, processed, effects, dlq, history, crashes>>

RegistryFlips ==
    /\ registryUp' = ~ registryUp
    /\ UNCHANGED <<log, committed, client, processed, effects, dlq, history, crashes>>

\* The process dies, or shuts down: the record at hand, one that waits for the
\* registry included, goes through its attempts to deadLetter with a cancelled
\* ctx, and Run returns.  That this is like a crash relies on the transaction,
\* ProduceSync and the commit failing with such a ctx.  The next process starts
\* from the committed offsets.
Crash ==
    /\ "crash" \in Fault /\ crashes < MaxCrash
    /\ crashes' = crashes + 1
    /\ position' = committed
    /\ batch' = <<>> /\ settled' = TRUE /\ attempt' = 1 /\ phase' = "poll" /\ schemas' = {}
    /\ UNCHANGED <<log, committed, registryUp, processed, effects, dlq, history>>

-----------------------------------------------------------------------------
(* Run. *)

\* Where a poll may take the client: further in some partition, back in none.
Target == {n \in [Partition -> 0 .. MaxLog] :
              /\ \A p \in Partition : n[p] \in position[p] .. Len(log[p])
              /\ n # position}

\* The records between the client's position and n.
Fetched(n) == {x \in Record : x[2] \in position[x[1]] + 1 .. n[x[1]]}

\* The orders in which EachRecord may go through records: the partitions one
\* after the other, in any order, and each from its oldest record on.
Iterations(records) == {s \in [1 .. Cardinality(records) -> records] :
    /\ Range(s) = records
    /\ \A i, j \in DOMAIN s : i < j /\ s[i][1] = s[j][1] =>
        s[i][2] < s[j][2] /\ \A k \in i .. j : s[k][1] = s[i][1]}

\* PollFetches returns the records up to a new position.
PollFetches ==
    /\ phase = "poll"
    /\ \E n \in Target : position' = n /\ batch' \in Iterations(Fetched(n))
    /\ settled' = TRUE /\ attempt' = 1
    /\ phase' = "validate"
    /\ UNCHANGED <<schemas, log, committed, registryUp, processed, effects, dlq, history, crashes>>

\* PollFetches returns records together with the error of some partition: Run
\* logs the error and polls again.
FetchError ==
    /\ "fetch" \in Fault
    /\ phase = "poll"
    /\ \E n \in Target :
        /\ position' = n
        /\ abandoned' = abandoned \cup Fetched(n)
    /\ UNCHANGED <<batch, settled, attempt, phase, schemas, log, committed, registryUp, processed,
                   effects, dlq, validated, crashes>>

\* The event of the record being handled.
Current == log[Head(batch)[1]][Head(batch)[2]]

\* handleWithRetry returns ok for the first record of the batch.
Finish(ok) ==
    /\ batch' = Tail(batch)
    /\ settled' = (settled /\ ok)
    /\ attempt' = 1
    /\ phase' = IF Tail(batch) = <<>> THEN "commit" ELSE "validate"
    /\ UNCHANGED <<position, schemas>>

\* Mutant of Validate: an outage of the registry makes the record unsettled.
ValidateOrGiveUp ==
    /\ phase = "validate"
    /\ \/ /\ registryUp \/ Current \in Unframed
          /\ phase' = IF Current \in Poison THEN "deadletter" ELSE "apply"
          /\ validated' = validated \cup {Head(batch)}
          /\ UNCHANGED <<position, batch, settled, attempt, schemas>>
       \/ ~ registryUp /\ Finish(FALSE) /\ UNCHANGED validated
    /\ UNCHANGED <<log, committed, registryUp, processed, effects, dlq, abandoned, crashes>>

\* Validator.Validate and schema: the frame is checked first, a cached schema
\* needs no registry, and only the registry can condemn an unknown schema id.
\* Until then handle waits.
Validate ==
    /\ phase = "validate"
    /\ \/ Current \in Unframed
       \/ registryUp
       \/ Head(batch)[1] \in schemas /\ Current \notin Unknown
    /\ phase' = IF Current \in Poison THEN "deadletter" ELSE "apply"
    /\ schemas' = IF Current \in Unframed \cup Unknown THEN schemas ELSE schemas \cup {Head(batch)[1]}
    /\ validated' = validated \cup {Head(batch)}
    /\ UNCHANGED <<position, batch, settled, attempt, log, committed, registryUp, processed, effects,
                   dlq, abandoned, crashes>>

\* Mutant of CommitTx: the conflict on processed_events is not looked at.
CommitTxUngated ==
    /\ Current \notin Rejected
    /\ processed' = processed \cup {Current}
    /\ effects' = [effects EXCEPT ![Current] = @ + 1]

\* The transaction of handle commits: the gate, and behind it the effect.
CommitTx ==
    /\ Current \notin Rejected
    /\ processed' = processed \cup {Current}
    /\ effects' = [effects EXCEPT ![Current] = @ + IF Current \in processed THEN 0 ELSE 1]

\* handle returns nil.
Apply ==
    /\ phase = "apply"
    /\ CommitTx
    /\ Finish(TRUE)
    /\ UNCHANGED <<log, committed, registryUp, dlq, history, crashes>>

\* The condition of handleWithRetry's loop, for the next iteration.
AttemptsLeft == attempt < maxAttempts

\* handle returns an error: the transaction was rolled back, or it committed
\* and the connection was lost before the answer.
ApplyFails ==
    /\ phase = "apply"
    /\ CommitTx \/ UNCHANGED <<processed, effects>>
    /\ IF AttemptsLeft
       THEN attempt' = attempt + 1 /\ phase' = "validate"
       ELSE attempt' = attempt /\ phase' = "deadletter"
    /\ UNCHANGED <<position, batch, settled, schemas, log, committed, registryUp, dlq, history, crashes>>

\* Mutant of DeadLetter: the record is logged and nothing is published.
DropRecord ==
    /\ phase = "deadletter"
    /\ Finish(TRUE)
    /\ UNCHANGED <<log, committed, registryUp, processed, effects, dlq, history, crashes>>

\* deadLetter publishes the record ...
DeadLetter ==
    /\ phase = "deadletter"
    /\ dlq' = dlq \cup {Head(batch)}
    /\ Finish(TRUE)
    /\ UNCHANGED <<log, committed, registryUp, processed, effects, history, crashes>>

\* ... or fails to, perhaps after the broker took the record.
DeadLetterFails ==
    /\ "dlq" \in Fault
    /\ phase = "deadletter"
    /\ dlq' \in {dlq, dlq \cup {Head(batch)}}
    /\ abandoned' = abandoned \cup {Head(batch)}
    /\ Finish(FALSE)
    /\ UNCHANGED <<log, committed, registryUp, processed, effects, validated, crashes>>

\* The end of a batch: an unsettled one is left uncommitted and Run polls on;
\* otherwise CommitUncommittedOffsets commits everything polled so far.
EndBatch ==
    /\ phase = "commit"
    /\ committed' = IF settled THEN position ELSE committed
    /\ phase' = "poll"
    /\ UNCHANGED <<position, batch, settled, attempt, schemas, log, registryUp, processed, effects, dlq,
                   history, crashes>>

CommitFails ==
    /\ "commit" \in Fault
    /\ phase = "commit" /\ settled
    /\ phase' = "poll"
    /\ UNCHANGED <<position, batch, settled, attempt, schemas, log, committed, registryUp, processed,
                   effects, dlq, history, crashes>>

-----------------------------------------------------------------------------

Next ==
    \/ \E p \in Partition, e \in Event : Publish(p, e)
    \/ RegistryFlips
    \/ Crash
    \/ PollFetches
    \/ FetchError
    \/ Validate
    \/ Apply
    \/ ApplyFails
    \/ DeadLetter
    \/ DeadLetterFails
    \/ EndBatch
    \/ CommitFails

Spec == Init /\ [][Next]_vars

\* Run never stops polling and handling, a transaction and a publish end, and a
\* registry that is down comes back; handle asks for the schema again and again.
Fairness ==
    /\ WF_vars(PollFetches)
    /\ WF_vars(Apply \/ ApplyFails \/ DeadLetter \/ DeadLetterFails \/ EndBatch \/ CommitFails)
    /\ WF_vars(~ registryUp /\ RegistryFlips)
    /\ SF_vars(Validate)

LiveSpec == Spec /\ Fairness

-----------------------------------------------------------------------------
(* Properties. *)

\* The record was processed, or is durably dead-lettered.
IsSettled(x) == log[x[1]][x[2]] \in processed \/ x \in dlq

\* At-least-once delivery has exactly-once effect: crashes, redelivery, events
\* published twice and transactions whose commit was reported as an error never
\* make handle apply an event twice (the gate of processed_events).
AppliedOnce == \A e \in Event : effects[e] = IF e \in processed THEN 1 ELSE 0

\* "Only advance past records that are processed or durably dead-lettered"
\* (consumer.go:80): the committed offset is never past another record.
NoSilentLoss == \A x \in Record : x[2] <= committed[x[1]] => IsSettled(x)

\* The only records the offset can pass unsettled are those Run gave up with an
\* error in the log: after a failed DLQ publish, or fetched beside an error.
LossesAreLogged == \A x \in Record :
    x[2] <= committed[x[1]] => IsSettled(x) \/ x \in abandoned

\* An outage of the registry holds the offset: no record is committed past, or
\* dead-lettered, that was not validated first; "never dead-letter and never
\* commit past it" (events/validate.go:28).  Records fetched beside an error
\* are not even looked at.
OutageHoldsOffset == \A x \in Record :
    x \in dlq \/ (x[2] <= committed[x[1]] /\ x \notin abandoned) => x \in validated

\* Every record is settled in the end, or given up with an error in the log,
\* across crashes, failing commits and outages of the registry: nothing that
\* was fetched is forgotten without a word.
EventuallySettled == \A p \in Partition, i \in 1 .. MaxLog :
    Len(log[p]) >= i ~> Len(log[p]) >= i /\ (IsSettled(<<p, i>>) \/ <<p, i>> \in abandoned)

\* The offsets and the batch fit the log: Run is handling a record exactly when
\* the batch has one left, and none that the client has not fetched.
BatchInLog ==
    /\ \A p \in Partition : committed[p] <= position[p] /\ position[p] <= Len(log[p])
    /\ phase \in {"poll", "commit"} <=> batch = <<>>
    /\ \A x \in Range(batch) : x[2] <= position[x[1]]
    /\ phase \in {"apply", "deadletter"} => Head(batch) \in validated

\* Every record that was fetched is still to be handled, or was validated and
\* settled, or was given up with an error in the log; and every record the
\* offset is past is one of the latter two.
Accounted(x) == x \in abandoned \/ (x \in validated /\ IsSettled(x))

FetchedAccounted == \A x \in Record :
    /\ x[2] <= committed[x[1]] => Accounted(x)
    /\ x[2] <= position[x[1]] => Accounted(x) \/ x \in Range(batch)

\* Together with the types, which bound the attempts of handleWithRetry.
ConsumerInv == ConsumerTypeOK /\ AppliedOnce /\ BatchInLog /\ FetchedAccounted /\ dlq \subseteq validated
=============================================================================
