----------------------------- MODULE RelayProofs ----------------------------
(***************************************************************************)
(* Theorems about Relay, for any number of replicas, transactions,         *)
(* accounts, events and faults: what is marked was published, what is      *)
(* published again was rolled back, and what overtakes was locked.         *)
(***************************************************************************)
EXTENDS Relay, FiniteSetTheorems, SequenceTheorems, TLAPS

-----------------------------------------------------------------------------
(* Sequences. *)

LEMMA EmptyRange == Range(<<>>) = {}
BY DEF Range

LEMMA RangeFacts ==
    ASSUME NEW S, NEW s \in Seq(S)
    PROVE  /\ Len(s) \in Nat
           /\ \A k \in 1 .. Len(s) : s[k] \in S /\ s[k] \in Range(s)
           /\ \A x \in Range(s) : x \in S /\ \E k \in 1 .. Len(s) : x = s[k]
<1>1. Len(s) \in Nat /\ \A k \in 1 .. Len(s) : s[k] \in S
    BY LenProperties, ElementOfSeq
<1>2. Range(s) = {s[k] : k \in 1 .. Len(s)}
    BY RangeEquality
<1> QED
    BY <1>1, <1>2

LEMMA FirstRowsFacts ==
    ASSUME NEW rows, IsFiniteSet(rows), rows \subseteq Nat, NEW s \in FirstRows(rows)
    PROVE  /\ s \in Seq(rows)
           /\ \A k, l \in 1 .. Len(s) : k < l => s[k] < s[l]
           /\ \A k \in 1 .. Len(s), i \in rows : i < s[k] => \E l \in 1 .. k - 1 : i = s[l]
<1> DEFINE M == {Cardinality(rows), BatchLimit}
           n == Min(M)
<1>1. Cardinality(rows) \in Nat /\ BatchLimit \in Nat
    BY FS_CardinalityType, RelayAssumption
<1>2. n \in Nat
    <2>1. \E x \in M : \A y \in M : x <= y
        BY <1>1
    <2>2. n = CHOOSE x \in M : \A y \in M : x <= y
        BY DEF Min
    <2>3. n \in M
        BY <2>1, <2>2
    <2> QED
        BY <1>1, <2>3
<1>3. /\ s \in [1 .. n -> rows] /\ DOMAIN s = 1 .. n
      /\ \A k, l \in 1 .. n : k < l => s[k] < s[l]
      /\ \A i \in rows \ Range(s), k \in 1 .. n : s[k] < i
    BY DEF FirstRows, Before
<1> HIDE DEF n
<1>4. s \in Seq(rows) /\ Len(s) = n
    BY <1>2, <1>3
<1>5. ASSUME NEW k \in 1 .. n, NEW i \in rows, i < s[k] PROVE \E l \in 1 .. k - 1 : i = s[l]
    <2>1. s[k] \in Nat /\ i \in Nat
        BY <1>3
    <2>2. i \in Range(s)
        BY <1>3, <1>5, <2>1
    <2>3. PICK l \in 1 .. n : i = s[l]
        BY <1>4, <2>2, RangeFacts
    <2>4. l < k
        BY <1>2, <1>3, <1>5, <2>1, <2>3
    <2> QED
        BY <1>2, <2>3, <2>4
<1> QED
    BY <1>3, <1>4, <1>5

-----------------------------------------------------------------------------
(* The types. *)

LEMMA BatchFacts ==
    ASSUME RelayTypeOK
    PROVE  /\ Len(events) \in Nat
           /\ \A i \in 1 .. Len(events) : events[i] \in Event
           /\ visible \subseteq Nat
           /\ \A r \in Replica : /\ Len(batch[r]) \in Nat /\ ids[r] \in Nat /\ ids[r] <= Len(batch[r])
                                 /\ Range(batch[r]) \subseteq visible
                                 /\ \A k \in 1 .. Len(batch[r]) : batch[r][k] \in visible /\ batch[r][k] \in Range(batch[r])
                                 /\ \A x \in Range(batch[r]) : \E k \in 1 .. Len(batch[r]) : x = batch[r][k]
<1>1. Len(events) \in Nat /\ \A i \in 1 .. Len(events) : events[i] \in Event
    BY LenProperties, ElementOfSeq DEF RelayTypeOK
<1>2. visible \subseteq Nat
    BY <1>1 DEF RelayTypeOK
<1>3. ASSUME NEW r \in Replica
      PROVE  /\ Len(batch[r]) \in Nat /\ ids[r] \in Nat /\ ids[r] <= Len(batch[r])
             /\ Range(batch[r]) \subseteq visible
             /\ \A k \in 1 .. Len(batch[r]) : batch[r][k] \in visible /\ batch[r][k] \in Range(batch[r])
             /\ \A x \in Range(batch[r]) : \E k \in 1 .. Len(batch[r]) : x = batch[r][k]
    <2>1. batch[r] \in Seq(visible) /\ ids[r] \in Nat /\ ids[r] <= Len(batch[r])
        BY DEF RelayTypeOK
    <2> QED
        BY <2>1, RangeFacts
<1> QED
    BY <1>1, <1>2, <1>3

LEMMA UnprocessedFacts ==
    ASSUME RelayTypeOK, NEW r \in Replica
    PROVE  /\ Unprocessed(r) \subseteq visible /\ IsFiniteSet(Unprocessed(r)) /\ Unprocessed(r) \subseteq Nat
           /\ LockedByOthers(r) \subseteq visible
<1>1. Unprocessed(r) \subseteq visible /\ visible \subseteq 1 .. Len(events) /\ Len(events) \in Nat
    BY BatchFacts DEF Unprocessed, RelayTypeOK
<1>2. IsFiniteSet(1 .. Len(events))
    BY <1>1, FS_Interval
<1>3. IsFiniteSet(Unprocessed(r))
    BY <1>1, <1>2, FS_Subset
<1>4. LockedByOthers(r) \subseteq visible
    BY BatchFacts DEF LockedByOthers
<1>5. Unprocessed(r) \subseteq Nat
    BY <1>1, BatchFacts
<1> QED
    BY <1>1, <1>3, <1>4, <1>5

\* The rows and the batches, without the registry and the bound on faults.
tables == <<events, open, visible, processed, batch, ids, lost, published, skipped, undone>>

\* A batch that is rolled back, perhaps with its current row at the broker.
Undo(r) ==
    /\ Rollback(r)
    /\ \/ published' = published
       \/ ids[r] < Len(batch[r]) /\ published' = published \cup {Current(r)}

LEMMA StepCases ==
    ASSUME [Next]_vars
    PROVE  \/ \E w \in Writer, e \in Event : Write(w, e)
           \/ \E w \in Writer : CommitWrites(w) \/ AbortWrites(w)
           \/ \E r \in Replica : Select(r) \/ Publish(r) \/ Mark(r) \/ Undo(r) \/ ConnectionLost(r)
           \/ UNCHANGED tables
<1> USE DEF tables, relayVars
<1>1. ASSUME NEW r \in Replica, SchemaFails(r) PROVE Undo(r)
    BY <1>1 DEF SchemaFails, Undo
<1>2. ASSUME NEW r \in Replica, ProduceFails(r) PROVE Undo(r)
    BY <1>2 DEF ProduceFails, Undo
<1>3. ASSUME NEW r \in Replica, MarkFails(r) \/ MarkLost(r) \/ Crash(r) PROVE Undo(r)
    BY <1>3 DEF MarkFails, MarkLost, Crash, Undo
<1>4. CASE RegistryDown \/ RegistryUp
    BY <1>4 DEF RegistryDown, RegistryUp
<1>5. CASE UNCHANGED vars
    BY <1>5 DEF vars
<1> QED
    BY <1>1, <1>2, <1>3, <1>4, <1>5 DEF Next, Drain

LEMMA CurrentFacts ==
    ASSUME RelayTypeOK, NEW r \in Replica, ids[r] < Len(batch[r])
    PROVE  /\ ids[r] + 1 \in 1 .. Len(batch[r]) /\ Current(r) = batch[r][ids[r] + 1]
           /\ Current(r) \in visible /\ Current(r) \in Range(batch[r]) /\ events[Current(r)] \in Event
<1>1. ids[r] + 1 \in 1 .. Len(batch[r])
    BY BatchFacts
<1>2. Current(r) = batch[r][ids[r] + 1]
    BY DEF Current
<1>3. Current(r) \in visible /\ Current(r) \in Range(batch[r])
    BY <1>1, <1>2, BatchFacts
<1>4. events[Current(r)] \in Event
    BY <1>3, BatchFacts DEF RelayTypeOK
<1> QED
    BY <1>1, <1>2, <1>3, <1>4

\* The types of the rows and the batches.
RowsTypeOK ==
    /\ events \in Seq(Event) /\ Len(events) <= MaxId
    /\ open \in [Writer -> SUBSET (1 .. Len(events))]
    /\ processed \subseteq visible /\ visible \subseteq 1 .. Len(events)
    /\ batch \in [Replica -> Seq(visible)]
    /\ ids \in [Replica -> Nat] /\ \A r \in Replica : ids[r] <= Len(batch[r])
    /\ lost \subseteq Replica
    /\ published \subseteq visible
    /\ skipped \in [Replica -> SUBSET visible] /\ undone \subseteq visible

LEMMA RowsTypeNext ==
    ASSUME RelayTypeOK, [Next]_vars
    PROVE  RowsTypeOK'
<1> USE DEF relayVars
<1>0. RowsTypeOK
    BY DEF RelayTypeOK, RowsTypeOK
<1>1. ASSUME NEW w \in Writer, NEW e \in Event, Write(w, e) PROVE RowsTypeOK'
    <2> DEFINE n == Len(events)
    <2>1. n \in Nat /\ MaxId \in Nat /\ events' = Append(events, e) /\ n < MaxId
        BY <1>1, BatchFacts, RelayAssumption DEF Write
    <2>2. events' \in Seq(Event) /\ Len(events') = n + 1
        BY <1>0, <2>1, AppendProperties DEF RowsTypeOK
    <2>3. 1 .. n \subseteq 1 .. Len(events') /\ n + 1 \in 1 .. Len(events') /\ Len(events') <= MaxId
        BY <2>1, <2>2
    <2>4. open' \in [Writer -> SUBSET (1 .. Len(events'))] /\ visible' \subseteq 1 .. Len(events')
        BY <1>0, <1>1, <2>3 DEF Write, RowsTypeOK
    <2> QED
        BY <1>0, <1>1, <2>2, <2>3, <2>4 DEF Write, RowsTypeOK
<1>2. ASSUME NEW w \in Writer, CommitWrites(w) PROVE RowsTypeOK'
    <2>1. visible' = visible \cup open[w] /\ visible' \subseteq 1 .. Len(events)
        BY <1>0, <1>2 DEF CommitWrites, RowsTypeOK
    <2>2. \A r \in Replica : batch[r] \in Seq(visible')
        BY <1>0, <2>1, SeqMonotonic DEF RowsTypeOK
    <2>3. batch' = batch /\ batch' \in [Replica -> Seq(visible')]
        BY <1>0, <1>2, <2>2 DEF CommitWrites, RowsTypeOK
    <2>4. skipped' \in [Replica -> SUBSET visible']
        BY <1>0, <1>2, <2>1 DEF CommitWrites, RowsTypeOK
    <2>5. open' \in [Writer -> SUBSET (1 .. Len(events))]
        BY <1>0, <1>2 DEF CommitWrites, RowsTypeOK
    <2> QED
        BY <1>0, <1>2, <2>1, <2>3, <2>4, <2>5 DEF CommitWrites, RowsTypeOK
<1>3. ASSUME NEW w \in Writer, AbortWrites(w) PROVE RowsTypeOK'
    BY <1>0, <1>3 DEF AbortWrites, RowsTypeOK
<1>4. ASSUME NEW r \in Replica, Select(r) PROVE RowsTypeOK'
    <2>1. PICK s \in FirstRows(Unprocessed(r)) : batch' = [batch EXCEPT ![r] = s]
        BY <1>4 DEF Select
    <2>2. s \in Seq(visible)
        BY UnprocessedFacts, FirstRowsFacts, SeqMonotonic
    <2>3. Len(s) \in Nat /\ ids[r] = 0
        BY <1>0, <1>4, <2>2, LenProperties, EmptySeq DEF Select, RowsTypeOK
    <2>4. \A q \in Replica : ids'[q] <= Len(batch'[q])
        BY <1>0, <1>4, <2>1, <2>3 DEF Select, RowsTypeOK
    <2>5. skipped' \in [Replica -> SUBSET visible]
        BY <1>0, <1>4, UnprocessedFacts DEF Select, RowsTypeOK
    <2> QED
        BY <1>0, <1>4, <2>1, <2>2, <2>4, <2>5 DEF Select, RowsTypeOK
<1>5. ASSUME NEW r \in Replica, Publish(r) PROVE RowsTypeOK'
    <2>1. Current(r) \in visible /\ ids[r] \in Nat /\ Len(batch[r]) \in Nat /\ ids[r] + 1 <= Len(batch[r])
        BY <1>5, CurrentFacts, BatchFacts DEF Publish
    <2>2. \A q \in Replica : ids'[q] <= Len(batch'[q])
        BY <1>0, <1>5, <2>1 DEF Publish, RowsTypeOK
    <2>3. ids' \in [Replica -> Nat]
        BY <1>0, <1>5, <2>1 DEF Publish, RowsTypeOK
    <2> QED
        BY <1>0, <1>5, <2>1, <2>2, <2>3 DEF Publish, RowsTypeOK
<1>6. ASSUME NEW r \in Replica, batch' = [batch EXCEPT ![r] = <<>>], ids' = [ids EXCEPT ![r] = 0]
      PROVE  /\ batch' \in [Replica -> Seq(visible)] /\ ids' \in [Replica -> Nat]
             /\ \A q \in Replica : ids'[q] <= Len(batch'[q])
    <2>1. <<>> \in Seq(visible) /\ Len(<<>>) = 0
        BY EmptySeq
    <2> QED
        BY <1>0, <1>6, <2>1 DEF RowsTypeOK
<1>7. ASSUME NEW r \in Replica, Mark(r) PROVE RowsTypeOK'
    <2>1. /\ batch' = [batch EXCEPT ![r] = <<>>] /\ ids' = [ids EXCEPT ![r] = 0]
          /\ processed' = processed \cup Range(batch[r]) /\ UNCHANGED <<events, open, visible, lost, published, skipped, undone>>
        BY <1>7 DEF Mark
    <2> QED
        BY <1>0, <1>6, <2>1, BatchFacts DEF RowsTypeOK
<1>8. ASSUME NEW r \in Replica, Undo(r) PROVE RowsTypeOK'
    <2>1. /\ batch' = [batch EXCEPT ![r] = <<>>] /\ ids' = [ids EXCEPT ![r] = 0]
          /\ undone' = undone \cup Range(batch[r]) /\ lost' = lost \ {r}
          /\ UNCHANGED <<events, open, visible, processed, skipped>>
        BY <1>8 DEF Undo, Rollback
    <2>2. published' \subseteq visible
        BY <1>0, <1>8, CurrentFacts DEF Undo, RowsTypeOK
    <2> QED
        BY <1>0, <1>6, <2>1, <2>2, BatchFacts DEF RowsTypeOK
<1>9. ASSUME NEW r \in Replica, ConnectionLost(r) PROVE RowsTypeOK'
    BY <1>0, <1>9, BatchFacts DEF ConnectionLost, RowsTypeOK
<1>10. CASE UNCHANGED tables
    BY <1>0, <1>10 DEF tables, RowsTypeOK
<1> QED
    BY <1>1, <1>2, <1>3, <1>4, <1>5, <1>7, <1>8, <1>9, <1>10, StepCases

LEMMA TypeNext ==
    ASSUME RelayTypeOK, [Next]_vars
    PROVE  RelayTypeOK'
<1> USE DEF relayVars
<1> DEFINE Rest == schemas \in [Replica -> SUBSET Topic] /\ registryUp \in BOOLEAN /\ faults \in 0 .. MaxFaults
<1>0. Rest /\ MaxFaults \in Nat
    BY RelayAssumption DEF RelayTypeOK
<1>1. ASSUME UNCHANGED <<schemas, registryUp, faults>> PROVE Rest'
    BY <1>0, <1>1
<1>2. ASSUME faults < MaxFaults, faults' = faults + 1 PROVE faults' \in 0 .. MaxFaults
    BY <1>0, <1>2
<1>3. ASSUME NEW r \in Replica, Publish(r) \/ ProduceFails(r)
      PROVE  schemas' \in [Replica -> SUBSET Topic]
    <2>1. events[Current(r)].topic \in Topic
        BY <1>3, CurrentFacts DEF Publish, ProduceFails, Event
    <2>2. schemas' = [schemas EXCEPT ![r] = @ \cup {events[Current(r)].topic}]
        BY <1>3 DEF Publish, ProduceFails
    <2> QED
        BY <1>0, <2>1, <2>2
<1>4. ASSUME NEW r \in Replica, Publish(r) PROVE Rest'
    BY <1>0, <1>3, <1>4 DEF Publish
<1>5. ASSUME NEW r \in Replica, ProduceFails(r) PROVE Rest'
    BY <1>0, <1>2, <1>3, <1>5 DEF ProduceFails
<1>6. ASSUME NEW r \in Replica, MarkFails(r) \/ ConnectionLost(r) \/ Crash(r) PROVE Rest'
    BY <1>0, <1>2, <1>6 DEF MarkFails, ConnectionLost, Crash
<1>7. ASSUME RegistryDown \/ RegistryUp PROVE Rest'
    BY <1>0, <1>2, <1>7 DEF RegistryDown, RegistryUp
<1>8. ASSUME NEW r \in Replica, Select(r) \/ SchemaFails(r) \/ Mark(r) \/ MarkLost(r) PROVE Rest'
    BY <1>1, <1>8 DEF Select, SchemaFails, Mark, MarkLost
<1>9. ASSUME NEW w \in Writer, CommitWrites(w) \/ AbortWrites(w) \/ \E e \in Event : Write(w, e) PROVE Rest'
    BY <1>1, <1>9 DEF CommitWrites, AbortWrites, Write
<1>10. ASSUME UNCHANGED vars PROVE Rest'
    BY <1>1, <1>10 DEF vars
<1>11. Rest'
    BY <1>4, <1>5, <1>6, <1>7, <1>8, <1>9, <1>10 DEF Next, Drain
<1> QED
    BY <1>11, RowsTypeNext DEF RowsTypeOK, RelayTypeOK

-----------------------------------------------------------------------------
(* Batches, and what is published of them. *)

LEMMA BatchesNext ==
    ASSUME RelayTypeOK, BatchesApart, [Next]_vars
    PROVE  BatchesApart'
<1> USE DEF relayVars
<1>1. ASSUME UNCHANGED <<batch, lost, processed, undone>> PROVE BatchesApart'
    BY <1>1 DEF BatchesApart
<1>2. ASSUME NEW r \in Replica, Select(r) PROVE BatchesApart'
    <2>1. PICK s \in FirstRows(Unprocessed(r)) : batch' = [batch EXCEPT ![r] = s]
        BY <1>2 DEF Select
    <2>2. /\ batch'[r] = s /\ \A q \in Replica \ {r} : batch'[q] = batch[q]
          /\ processed' = processed /\ lost' = lost /\ undone' = undone /\ r \notin lost
        BY <1>2, <2>1 DEF Select, RelayTypeOK, BatchesApart
    <2>3. Range(s) \subseteq Unprocessed(r) /\ \A k, l \in 1 .. Len(s) : k < l => s[k] < s[l]
        BY UnprocessedFacts, FirstRowsFacts, RangeFacts
    <2>4. Range(s) \cap processed = {} /\ \A q \in Replica \ (lost \cup {r}) : Range(s) \cap Range(batch[q]) = {}
        BY <2>3 DEF Unprocessed, LockedByOthers
    <2>5. \A q \in Replica : \A k, l \in 1 .. Len(batch'[q]) : k < l => batch'[q][k] < batch'[q][l]
        BY <2>2, <2>3 DEF BatchesApart
    <2>6. \A q \in Replica \ lost : Range(batch'[q]) \cap processed = {}
        BY <2>2, <2>4 DEF BatchesApart
    <2>7. \A p, q \in Replica \ lost : p # q => Range(batch'[p]) \cap Range(batch'[q]) = {}
        BY <2>2, <2>4 DEF BatchesApart
    <2>8. \A q \in lost : batch'[q] # <<>> /\ Range(batch'[q]) \subseteq undone
        BY <2>2 DEF BatchesApart, RelayTypeOK
    <2> QED
        BY <2>2, <2>5, <2>6, <2>7, <2>8 DEF BatchesApart
<1>3. ASSUME NEW r \in Replica, batch' = [batch EXCEPT ![r] = <<>>], lost' = lost \ {r}, undone \subseteq undone',
             processed' = processed \/ (r \notin lost /\ processed' = processed \cup Range(batch[r]))
      PROVE  BatchesApart'
    <2>1. batch'[r] = <<>> /\ \A q \in Replica \ {r} : batch'[q] = batch[q]
        BY <1>3 DEF RelayTypeOK
    <2>2. Len(<<>>) = 0 /\ Range(<<>>) = {}
        BY EmptyRange, EmptySeq
    <2>3. \A q \in Replica \ lost' : Range(batch'[q]) \cap processed' = {}
        BY <1>3, <2>1, <2>2 DEF BatchesApart
    <2>4. \A p, q \in Replica \ lost' : p # q => Range(batch'[p]) \cap Range(batch'[q]) = {}
        BY <1>3, <2>1, <2>2 DEF BatchesApart
    <2>5. \A q \in Replica : \A k, l \in 1 .. Len(batch'[q]) : k < l => batch'[q][k] < batch'[q][l]
        BY <2>1, <2>2 DEF BatchesApart
    <2>6. \A q \in lost' : batch'[q] # <<>> /\ Range(batch'[q]) \subseteq undone'
        BY <1>3, <2>1 DEF BatchesApart, RelayTypeOK
    <2> QED
        BY <2>3, <2>4, <2>5, <2>6 DEF BatchesApart
<1>4. ASSUME NEW r \in Replica, Undo(r) PROVE BatchesApart'
    BY <1>3, <1>4 DEF Undo, Rollback
<1>5. ASSUME NEW r \in Replica, Mark(r) PROVE BatchesApart'
    <2>1. r \notin lost /\ lost' = lost /\ undone' = undone
        BY <1>5 DEF Mark
    <2>2. lost' = lost \ {r}
        BY <2>1
    <2> QED
        BY <1>3, <1>5, <2>1, <2>2 DEF Mark
<1>6. ASSUME NEW r \in Replica, Publish(r) PROVE BatchesApart'
    BY <1>1, <1>6 DEF Publish
<1>7. ASSUME NEW r \in Replica, ConnectionLost(r) PROVE BatchesApart'
    BY <1>7 DEF ConnectionLost, BatchesApart
<1>8. ASSUME NEW w \in Writer, CommitWrites(w) \/ AbortWrites(w) \/ \E e \in Event : Write(w, e) PROVE BatchesApart'
    BY <1>1, <1>8 DEF CommitWrites, AbortWrites, Write
<1>9. CASE UNCHANGED tables
    BY <1>1, <1>9 DEF tables
<1> QED
    BY <1>2, <1>4, <1>5, <1>6, <1>7, <1>8, <1>9, StepCases

LEMMA SentFacts ==
    ASSUME RelayTypeOK
    PROVE  /\ \A r \in Replica : Sent(r) \subseteq Range(batch[r])
           /\ \A r \in Replica : ids[r] = Len(batch[r]) => Sent(r) = Range(batch[r])
<1>1. ASSUME NEW r \in Replica
      PROVE  Sent(r) \subseteq Range(batch[r]) /\ (ids[r] = Len(batch[r]) => Sent(r) = Range(batch[r]))
    <2>1. \A k \in 1 .. ids[r] : k \in 1 .. Len(batch[r])
        BY BatchFacts
    <2>2. /\ \A k \in 1 .. Len(batch[r]) : batch[r][k] \in Range(batch[r])
          /\ \A x \in Range(batch[r]) : \E k \in 1 .. Len(batch[r]) : x = batch[r][k]
        BY BatchFacts
    <2> QED
        BY <2>1, <2>2 DEF Sent
<1> QED
    BY <1>1

LEMMA PublishedNext ==
    ASSUME RelayTypeOK, PublishedAccounted, MarkedWerePublished, [Next]_vars
    PROVE  PublishedAccounted' /\ MarkedWerePublished'
<1> USE DEF relayVars
<1>0. \A i \in published : i \in processed \/ i \in undone \/ \E r \in Replica : i \in Sent(r)
    BY DEF PublishedAccounted
<1>1. ASSUME published \subseteq published', processed' \subseteq published',
             \A r \in Replica : Sent(r)' \subseteq published',
             \A i \in published' : i \in processed' \/ i \in undone' \/ \E r \in Replica : i \in Sent(r)'
      PROVE  PublishedAccounted' /\ MarkedWerePublished'
    BY <1>1 DEF PublishedAccounted, MarkedWerePublished
<1>2. ASSUME UNCHANGED <<batch, ids, published, processed, undone>> PROVE PublishedAccounted' /\ MarkedWerePublished'
    BY <1>2 DEF PublishedAccounted, MarkedWerePublished, Sent
<1>3. ASSUME NEW r \in Replica, Select(r) PROVE PublishedAccounted' /\ MarkedWerePublished'
    <2>1. PICK s : batch' = [batch EXCEPT ![r] = s]
        BY <1>3 DEF Select
    <2>2. ids' = ids /\ ids[r] = 0 /\ \A q \in Replica \ {r} : batch'[q] = batch[q]
        BY <1>3, <2>1, BatchFacts, EmptySeq DEF Select, RelayTypeOK
    <2>3. \A q \in Replica : Sent(q)' = Sent(q)
        BY <2>2 DEF Sent
    <2> QED
        BY <1>3, <2>3 DEF Select, PublishedAccounted, MarkedWerePublished
<1>4. ASSUME NEW r \in Replica, Publish(r) PROVE PublishedAccounted' /\ MarkedWerePublished'
    <2>1. /\ published' = published \cup {Current(r)} /\ batch' = batch /\ UNCHANGED <<processed, undone>>
          /\ ids'[r] = ids[r] + 1 /\ ids[r] \in Nat /\ \A q \in Replica \ {r} : ids'[q] = ids[q]
        BY <1>4, BatchFacts DEF Publish, RelayTypeOK
    <2>2. 1 .. ids'[r] = 1 .. ids[r] \cup {ids[r] + 1} /\ Current(r) = batch[r][ids[r] + 1]
        BY <2>1 DEF Current
    <2>3. Sent(r)' = Sent(r) \cup {Current(r)}
        BY <2>1, <2>2 DEF Sent
    <2>4. \A q \in Replica \ {r} : Sent(q)' = Sent(q)
        BY <2>1 DEF Sent
    <2> QED
        BY <1>0, <1>1, <2>1, <2>3, <2>4 DEF PublishedAccounted, MarkedWerePublished
<1>5. ASSUME NEW r \in Replica, batch' = [batch EXCEPT ![r] = <<>>], ids' = [ids EXCEPT ![r] = 0]
      PROVE  Sent(r)' = {} /\ \A q \in Replica \ {r} : Sent(q)' = Sent(q)
    BY <1>5 DEF RelayTypeOK, Sent
<1>6. ASSUME NEW r \in Replica, Mark(r) PROVE PublishedAccounted' /\ MarkedWerePublished'
    <2>1. Sent(r) = Range(batch[r]) /\ processed' = processed \cup Range(batch[r]) /\ UNCHANGED <<published, undone>>
        BY <1>6, SentFacts DEF Mark
    <2>2. Sent(r)' = {} /\ \A q \in Replica \ {r} : Sent(q)' = Sent(q)
        BY <1>5, <1>6 DEF Mark
    <2> QED
        BY <1>0, <1>1, <2>1, <2>2 DEF PublishedAccounted, MarkedWerePublished
<1>7. ASSUME NEW r \in Replica, Undo(r) PROVE PublishedAccounted' /\ MarkedWerePublished'
    <2>1. /\ undone' = undone \cup Range(batch[r]) /\ processed' = processed
          /\ published' = published \/ (published' = published \cup {Current(r)} /\ Current(r) \in Range(batch[r]))
        BY <1>7, CurrentFacts DEF Undo, Rollback
    <2>2. Sent(r)' = {} /\ \A q \in Replica \ {r} : Sent(q)' = Sent(q)
        BY <1>5, <1>7 DEF Undo, Rollback
    <2>3. Sent(r) \subseteq Range(batch[r])
        BY SentFacts
    <2> QED
        BY <1>0, <1>1, <2>1, <2>2, <2>3 DEF PublishedAccounted, MarkedWerePublished
<1>8. ASSUME NEW w \in Writer, CommitWrites(w) \/ AbortWrites(w) \/ \E e \in Event : Write(w, e)
      PROVE  PublishedAccounted' /\ MarkedWerePublished'
    BY <1>2, <1>8 DEF CommitWrites, AbortWrites, Write
<1>9. ASSUME NEW r \in Replica, ConnectionLost(r) PROVE PublishedAccounted' /\ MarkedWerePublished'
    <2>1. UNCHANGED <<batch, ids, published, processed>> /\ undone \subseteq undone'
        BY <1>9 DEF ConnectionLost
    <2>2. \A q \in Replica : Sent(q)' = Sent(q)
        BY <2>1 DEF Sent
    <2> QED
        BY <1>0, <1>1, <2>1, <2>2 DEF PublishedAccounted, MarkedWerePublished
<1>10. CASE UNCHANGED tables
    BY <1>2, <1>10 DEF tables
<1> QED
    BY <1>3, <1>4, <1>6, <1>7, <1>8, <1>9, <1>10, StepCases

-----------------------------------------------------------------------------
(* The order of the events of an account. *)

LEMMA AppendedEvent ==
    ASSUME RelayTypeOK, NEW w \in Writer, NEW e \in Event, Write(w, e)
    PROVE  /\ Len(events) \in Nat /\ Len(events') = Len(events) + 1 /\ events'[Len(events) + 1] = e
           /\ \A i \in 1 .. Len(events) : events'[i] = events[i]
BY LenProperties, AppendProperties DEF Write, RelayTypeOK

LEMMA AccountsNext ==
    ASSUME RelayTypeOK, AccountsLocked, [Next]_vars
    PROVE  AccountsLocked'
<1> USE DEF relayVars
<1>1. ASSUME UNCHANGED <<events, open, visible>> PROVE AccountsLocked'
    BY <1>1 DEF AccountsLocked
<1>2. ASSUME NEW w \in Writer, NEW e \in Event, Write(w, e) PROVE AccountsLocked'
    <2> DEFINE n == Len(events)
    <2>1. /\ n \in Nat /\ Len(events') = n + 1 /\ events'[n + 1] = e /\ visible' = visible
          /\ \A i \in 1 .. n : events'[i] = events[i]
        BY <1>2, AppendedEvent DEF Write
    <2>2. open'[w] = open[w] \cup {n + 1} /\ \A v \in Writer \ {w} : open'[v] = open[v]
        BY <1>2 DEF Write, RelayTypeOK
    <2>3. visible \subseteq 1 .. n /\ \A v \in Writer : open[v] \subseteq 1 .. n
        BY DEF RelayTypeOK
    <2>4. n + 1 \notin 1 .. n
        BY <2>1
    <2> SUFFICES ASSUME NEW v \in Writer, NEW j \in open'[v]
                 PROVE  /\ j \notin visible' /\ \A u \in Writer \ {v} : j \notin open'[u]
                        /\ \A i \in j + 1 .. Len(events') : events'[i].account = events'[j].account => i \in open'[v]
        BY DEF AccountsLocked
    <2> HIDE DEF n
    <2>5. CASE j = n + 1
        <3>1. v = w
            BY <2>2, <2>3, <2>4, <2>5
        <3>2. j + 1 .. Len(events') = {}
            BY <2>1, <2>5
        <3> QED
            BY <2>1, <2>2, <2>3, <2>4, <2>5, <3>1, <3>2
    <2>6. CASE j # n + 1
        <3>1. j \in open[v] /\ j \in 1 .. n
            BY <2>2, <2>3, <2>6
        <3>2. j \notin visible' /\ \A u \in Writer \ {v} : j \notin open'[u]
            BY <2>1, <2>2, <2>6, <3>1 DEF AccountsLocked
        <3>3. ASSUME NEW i \in j + 1 .. Len(events'), events'[i].account = events'[j].account
              PROVE  i \in open'[v]
            <4>1. CASE i = n + 1
                <5>1. v # w => events[j].account # e.account
                    BY <1>2, <3>1 DEF Write
                <5> QED
                    BY <2>1, <2>2, <3>1, <3>3, <4>1, <5>1
            <4>2. CASE i # n + 1
                <5>1. i \in j + 1 .. n /\ i \in 1 .. n
                    BY <2>1, <3>1, <4>2
                <5>2. i \in open[v]
                    BY <2>1, <3>1, <3>3, <5>1 DEF AccountsLocked, n
                <5> QED
                    BY <2>2, <5>2
            <4> QED
                BY <4>1, <4>2
        <3> QED
            BY <3>2, <3>3
    <2> QED
        BY <2>5, <2>6
<1>3. ASSUME NEW w \in Writer, CommitWrites(w) \/ AbortWrites(w) PROVE AccountsLocked'
    <2>1. /\ open'[w] = {} /\ \A v \in Writer \ {w} : open'[v] = open[v]
          /\ events' = events /\ visible' \subseteq visible \cup open[w]
        BY <1>3 DEF CommitWrites, AbortWrites, RelayTypeOK
    <2> QED
        BY <2>1 DEF AccountsLocked
<1>4. ASSUME NEW r \in Replica, Select(r) \/ Publish(r) \/ Mark(r) \/ Undo(r) \/ ConnectionLost(r) PROVE AccountsLocked'
    BY <1>1, <1>4 DEF Select, Publish, Mark, Undo, Rollback, ConnectionLost
<1>5. CASE UNCHANGED tables
    BY <1>1, <1>5 DEF tables
<1> QED
    BY <1>2, <1>3, <1>4, <1>5, StepCases

\* What is older than a committed event is settled with it: no late commit.
LEMMA OlderKept ==
    ASSUME RelayTypeOK, AccountsLocked, [Next]_vars, NEW i \in visible
    PROVE  Older(i)' = Older(i)
<1> USE DEF relayVars
<1>1. ASSUME UNCHANGED <<events, visible>> PROVE Older(i)' = Older(i)
    BY <1>1 DEF Older
<1>2. ASSUME NEW w \in Writer, NEW e \in Event, Write(w, e) PROVE Older(i)' = Older(i)
    <2>1. visible' = visible /\ visible \subseteq 1 .. Len(events) /\ \A j \in 1 .. Len(events) : events'[j] = events[j]
        BY <1>2, AppendedEvent DEF Write, RelayTypeOK
    <2> QED
        BY <2>1 DEF Older
<1>3. ASSUME NEW w \in Writer, CommitWrites(w) PROVE Older(i)' = Older(i)
    <2>1. visible' = visible \cup open[w] /\ events' = events
        BY <1>3 DEF CommitWrites
    <2>2. ASSUME NEW j \in open[w], j < i PROVE events[j] # events[i]
        <3>1. i \in 1 .. Len(events) /\ j \in 1 .. Len(events) /\ Len(events) \in Nat
            BY BatchFacts DEF RelayTypeOK
        <3>2. i \in j + 1 .. Len(events)
            BY <2>2, <3>1
        <3>3. i \notin open[w]
            BY DEF AccountsLocked
        <3> QED
            BY <3>2, <3>3 DEF AccountsLocked
    <2> QED
        BY <2>1, <2>2 DEF Older
<1>4. ASSUME NEW w \in Writer, AbortWrites(w) PROVE Older(i)' = Older(i)
    BY <1>1, <1>4 DEF AbortWrites
<1>5. ASSUME NEW r \in Replica, Select(r) \/ Publish(r) \/ Mark(r) \/ Undo(r) \/ ConnectionLost(r) PROVE Older(i)' = Older(i)
    BY <1>1, <1>5 DEF Select, Publish, Mark, Undo, Rollback, ConnectionLost
<1>6. CASE UNCHANGED tables
    BY <1>1, <1>6 DEF tables
<1> QED
    BY <1>2, <1>3, <1>4, <1>5, <1>6, StepCases

LEMMA OlderNext ==
    ASSUME RelayTypeOK, AccountsLocked, OlderAccounted, [Next]_vars
    PROVE  OlderAccounted'
<1> USE DEF relayVars
<1> SUFFICES ASSUME NEW q \in Replica, NEW k \in 1 .. Len(batch'[q])
             PROVE  Older(batch[q][k])' \subseteq processed' \cup skipped'[q] \cup {batch'[q][l] : l \in 1 .. k - 1}
    BY DEF OlderAccounted
<1>1. PICK i : i = batch'[q][k]
    OBVIOUS
<1>2. Older(batch[q][k])' = Older(i)'
    BY <1>1 DEF Older
<1>3. ASSUME batch'[q] = batch[q], skipped'[q] = skipped[q], processed \subseteq processed'
      PROVE  Older(i)' \subseteq processed' \cup skipped'[q] \cup {batch'[q][l] : l \in 1 .. k - 1}
    <2>1. k \in 1 .. Len(batch[q]) /\ i = batch[q][k] /\ i \in visible
        BY <1>1, <1>3, BatchFacts
    <2>2. Older(i) \subseteq processed \cup skipped[q] \cup {batch[q][l] : l \in 1 .. k - 1}
        BY <2>1 DEF OlderAccounted
    <2>3. Older(i)' = Older(i)
        BY <2>1, OlderKept
    <2> QED
        BY <1>3, <2>2, <2>3
<1>4. ASSUME NEW r \in Replica, Select(r)
      PROVE  Older(i)' \subseteq processed' \cup skipped'[q] \cup {batch'[q][l] : l \in 1 .. k - 1}
    <2>1. PICK s \in FirstRows(Unprocessed(r)) : batch' = [batch EXCEPT ![r] = s]
        BY <1>4 DEF Select
    <2>2. CASE q # r
        <3>1. batch'[q] = batch[q] /\ skipped'[q] = skipped[q] /\ processed' = processed
            BY <1>4, <2>1, <2>2 DEF Select, RelayTypeOK
        <3> QED
            BY <1>3, <3>1
    <2>3. CASE q = r
        <3>1. /\ batch'[q] = s /\ skipped'[q] = LockedByOthers(r) /\ UNCHANGED <<processed, visible, events>>
              /\ Older(i)' = Older(i)
            BY <1>4, <2>1, <2>3 DEF Select, RelayTypeOK, Older
        <3>2. i = s[k] /\ k \in 1 .. Len(s)
            BY <1>1, <3>1
        <3>3. \A j \in Unprocessed(r) : j < s[k] => \E l \in 1 .. k - 1 : j = s[l]
            BY <3>2, UnprocessedFacts, FirstRowsFacts
        <3>4. \A j \in Older(i) : j \in processed \/ j \in LockedByOthers(r) \/ (j \in Unprocessed(r) /\ j < s[k])
            BY <3>2 DEF Older, Unprocessed
        <3> QED
            BY <3>1, <3>3, <3>4
    <2> QED
        BY <2>2, <2>3
<1>5. ASSUME NEW r \in Replica, Mark(r) \/ Undo(r)
      PROVE  Older(i)' \subseteq processed' \cup skipped'[q] \cup {batch'[q][l] : l \in 1 .. k - 1}
    <2>1. batch' = [batch EXCEPT ![r] = <<>>] /\ skipped' = skipped /\ processed \subseteq processed'
        BY <1>5 DEF Mark, Undo, Rollback
    <2>2. q # r
        <3>1. q = r => batch'[q] = <<>>
            BY <2>1 DEF RelayTypeOK
        <3> QED
            BY <3>1, EmptySeq
    <2>3. batch'[q] = batch[q]
        BY <2>1, <2>2 DEF RelayTypeOK
    <2> QED
        BY <1>3, <2>1, <2>3
<1>6. ASSUME NEW r \in Replica, Publish(r) \/ ConnectionLost(r)
      PROVE  Older(i)' \subseteq processed' \cup skipped'[q] \cup {batch'[q][l] : l \in 1 .. k - 1}
    BY <1>3, <1>6 DEF Publish, ConnectionLost
<1>7. ASSUME NEW w \in Writer, CommitWrites(w) \/ AbortWrites(w) \/ \E e \in Event : Write(w, e)
      PROVE  Older(i)' \subseteq processed' \cup skipped'[q] \cup {batch'[q][l] : l \in 1 .. k - 1}
    BY <1>3, <1>7 DEF CommitWrites, AbortWrites, Write
<1>8. ASSUME UNCHANGED tables
      PROVE  Older(i)' \subseteq processed' \cup skipped'[q] \cup {batch'[q][l] : l \in 1 .. k - 1}
    BY <1>3, <1>8 DEF tables
<1> QED
    BY <1>2, <1>4, <1>5, <1>6, <1>7, <1>8, StepCases

-----------------------------------------------------------------------------
(* The theorems. *)

(***************************************************************************)
(* Only committed rows are locked, by one replica at a time, and none is   *)
(* marked that the broker does not have, whatever fails in the middle of a *)
(* batch (drainOnce marks the whole batch, or nothing); what a replica     *)
(* still publishes without its connection counts as rolled back.           *)
(***************************************************************************)
THEOREM RelayInvariant == Spec => []RelayInv
<1>1. Init => RelayInv
    <2> SUFFICES ASSUME Init PROVE RelayInv
        OBVIOUS
    <2>1. /\ Len(<<>>) = 0 /\ <<>> \in Seq(Event) /\ \A S : <<>> \in Seq(S)
          /\ MaxId \in Nat /\ 0 \in 0 .. MaxFaults
        BY EmptySeq, RelayAssumption
    <2>2. RelayTypeOK
        BY <2>1 DEF Init, RelayTypeOK
    <2>3. \A r \in Replica : Len(batch[r]) = 0 /\ ids[r] = 0 /\ Range(batch[r]) = {}
        BY <2>1, EmptyRange DEF Init
    <2>4. BatchesApart
        BY <2>3 DEF Init, BatchesApart
    <2>5. MarkedWerePublished /\ PublishedAccounted
        BY <2>3 DEF Init, MarkedWerePublished, PublishedAccounted, Sent
    <2>6. AccountsLocked
        BY DEF Init, AccountsLocked
    <2>7. OlderAccounted
        BY <2>3 DEF OlderAccounted
    <2> QED
        BY <2>2, <2>4, <2>5, <2>6, <2>7 DEF RelayInv
<1>2. RelayInv /\ [Next]_vars => RelayInv'
    BY TypeNext, BatchesNext, PublishedNext, AccountsNext, OlderNext DEF RelayInv
<1> QED
    BY <1>1, <1>2, PTL DEF Spec

LEMMA OnlyPublishAdvances ==
    ASSUME RelayTypeOK, [Next]_vars, NEW r \in Replica, ids'[r] > ids[r]
    PROVE  Publish(r)
<1> USE DEF relayVars
<1>0. ids \in [Replica -> Nat] /\ ids[r] \in Nat
    BY DEF RelayTypeOK
<1>1. ASSUME ids' = ids PROVE FALSE
    BY <1>0, <1>1
<1>2. ASSUME NEW q \in Replica, Publish(q) PROVE q = r
    BY <1>0, <1>2 DEF Publish
<1>3. ASSUME NEW q \in Replica, Mark(q) \/ Undo(q) PROVE FALSE
    BY <1>0, <1>3 DEF Mark, Undo, Rollback
<1>4. ASSUME NEW q \in Replica, Select(q) \/ ConnectionLost(q) PROVE FALSE
    BY <1>1, <1>4 DEF Select, ConnectionLost
<1>5. ASSUME NEW w \in Writer, CommitWrites(w) \/ AbortWrites(w) \/ \E e \in Event : Write(w, e) PROVE FALSE
    BY <1>1, <1>5 DEF CommitWrites, AbortWrites, Write
<1>6. ASSUME UNCHANGED tables PROVE FALSE
    BY <1>1, <1>6 DEF tables
<1> QED
    BY <1>2, <1>3, <1>4, <1>5, <1>6, StepCases

(***************************************************************************)
(* An event is published again only if a transaction whose batch it was in *)
(* has been rolled back: replicas that run side by side with their         *)
(* connections never publish the same row.                                 *)
(***************************************************************************)
THEOREM AgainOnlyRolledBack == Spec => AgainOnlyAfterRollback
<1>1. RelayInv /\ [Next]_vars => NotAgain
    <2> SUFFICES ASSUME RelayInv, [Next]_vars, NEW r \in Replica, ids'[r] > ids[r], Current(r) \in published
                 PROVE  Current(r) \in undone
        BY DEF NotAgain
    <2>1. RelayTypeOK /\ BatchesApart /\ PublishedAccounted
        BY DEF RelayInv
    <2>2. ids[r] < Len(batch[r])
        BY <2>1, OnlyPublishAdvances DEF Publish
    <2>3. ids[r] + 1 \in 1 .. Len(batch[r]) /\ Current(r) = batch[r][ids[r] + 1] /\ Current(r) \in Range(batch[r])
        BY <2>1, <2>2, CurrentFacts
    <2>4. CASE r \in lost
        BY <2>1, <2>3, <2>4 DEF BatchesApart
    <2>5. CASE r \notin lost
        <3>1. Current(r) \notin processed
            BY <2>1, <2>3, <2>5 DEF BatchesApart
        <3>2. ASSUME NEW q \in Replica, Current(r) \in Sent(q) PROVE Current(r) \in undone
            <4>1. Current(r) \in Range(batch[q])
                BY <2>1, <3>2, SentFacts
            <4>2. CASE q \in lost
                BY <2>1, <4>1, <4>2 DEF BatchesApart
            <4>3. q # r
                <5> SUFFICES ASSUME NEW k \in 1 .. ids[r] PROVE batch[r][k] # batch[r][ids[r] + 1]
                    BY <2>3, <3>2 DEF Sent
                <5>1. k \in 1 .. Len(batch[r]) /\ k < ids[r] + 1
                    BY <2>1, BatchFacts
                <5>2. batch[r][k] < batch[r][ids[r] + 1] /\ batch[r][k] \in Nat
                    BY <2>1, <2>3, <5>1, BatchFacts DEF BatchesApart
                <5> QED
                    BY <5>2
            <4> QED
                BY <2>1, <2>3, <2>5, <4>1, <4>2, <4>3 DEF BatchesApart
        <3> QED
            BY <2>1, <3>1, <3>2 DEF PublishedAccounted
    <2> QED
        BY <2>4, <2>5
<1> QED
    BY <1>1, RelayInvariant, PTL DEF Spec, AgainOnlyAfterRollback

(***************************************************************************)
(* A row overtakes older rows of its account and topic only if another     *)
(* replica had locked them when the batch was selected (skip locked); a    *)
(* late commit cannot be overtaken, because of the lock on the balance.    *)
(***************************************************************************)
THEOREM OvertakesOnlySkipped == Spec => OvertakesOnlyLocked
<1>1. RelayInv /\ [Next]_vars => NotOvertaking
    <2> SUFFICES ASSUME RelayInv, [Next]_vars, NEW r \in Replica, ids'[r] > ids[r]
                 PROVE  Older(Current(r)) \subseteq published \cup skipped[r]
        BY DEF NotOvertaking
    <2>1. RelayTypeOK /\ OlderAccounted /\ PublishedAccounted /\ MarkedWerePublished
        BY DEF RelayInv
    <2>2. ids[r] < Len(batch[r])
        BY <2>1, OnlyPublishAdvances DEF Publish
    <2> DEFINE k == ids[r] + 1
    <2>3. k \in 1 .. Len(batch[r]) /\ Current(r) = batch[r][k] /\ k - 1 = ids[r]
        BY <2>1, <2>2, CurrentFacts, BatchFacts
    <2> HIDE DEF k
    <2>4. Older(Current(r)) \subseteq processed \cup skipped[r] \cup {batch[r][l] : l \in 1 .. k - 1}
        BY <2>1, <2>3 DEF OlderAccounted
    <2>5. {batch[r][l] : l \in 1 .. k - 1} \subseteq published
        BY <2>1, <2>3 DEF PublishedAccounted, Sent
    <2> QED
        BY <2>1, <2>4, <2>5 DEF MarkedWerePublished
<1> QED
    BY <1>1, RelayInvariant, PTL DEF Spec, OvertakesOnlyLocked

=============================================================================
