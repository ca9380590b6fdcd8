--------------------------- MODULE ConsumerProofs ---------------------------
(***************************************************************************)
(* Theorems about Consumer, for any number of partitions, records, crashes *)
(* and attempts: effects happen once, the offset passes only records that  *)
(* are accounted for, and an outage of the registry holds it.              *)
(***************************************************************************)
EXTENDS Consumer, FiniteSetTheorems, SequenceTheorems, TLAPS

-----------------------------------------------------------------------------
(* Sequences and sets. *)

LEMMA HeadTailRange ==
    ASSUME NEW S, NEW s \in Seq(S), s # <<>>
    PROVE  /\ Head(s) \in S /\ Head(s) \in Range(s)
           /\ Tail(s) \in Seq(S)
           /\ Range(s) = {Head(s)} \cup Range(Tail(s))
<1>1. /\ Head(s) \in S /\ Tail(s) \in Seq(S) /\ Len(Tail(s)) = Len(s) - 1
      /\ \A i \in 1 .. Len(Tail(s)) : Tail(s)[i] = s[i + 1]
    BY HeadTailProperties
<1>2. Len(s) \in Nat \ {0} /\ Head(s) = s[1]
    BY EmptySeq
<1>3. Range(s) = {s[i] : i \in 1 .. Len(s)}
    BY RangeEquality
<1>4. Range(Tail(s)) = {Tail(s)[i] : i \in 1 .. Len(Tail(s))}
    BY <1>1, RangeEquality
<1>5. Range(Tail(s)) = {s[i] : i \in 2 .. Len(s)}
    <2>1. ASSUME NEW i \in 1 .. Len(Tail(s)) PROVE i + 1 \in 2 .. Len(s) /\ Tail(s)[i] = s[i + 1]
        BY <1>1, <1>2
    <2>2. ASSUME NEW i \in 2 .. Len(s) PROVE i - 1 \in 1 .. Len(Tail(s)) /\ Tail(s)[i - 1] = s[i]
        <3>1. i - 1 \in 1 .. Len(Tail(s)) /\ (i - 1) + 1 = i
            BY <1>1, <1>2
        <3> QED
            BY <1>1, <3>1
    <2> QED
        BY <1>4, <2>1, <2>2
<1>6. 1 .. Len(s) = {1} \cup 2 .. Len(s)
    BY <1>2
<1> QED
    BY <1>1, <1>2, <1>3, <1>5, <1>6

LEMMA EmptyRange == Range(<<>>) = {}
BY DEF Range

LEMMA RecordFacts ==
    /\ IsFiniteSet(Record)
    /\ \A x \in Record : x[1] \in Partition /\ x[2] \in 1 .. MaxLog /\ x[2] \in Nat /\ x = <<x[1], x[2]>>
<1>1. IsFiniteSet(1 .. MaxLog)
    BY ConsumerAssumption, FS_Interval
<1>2. IsFiniteSet(Record)
    BY <1>1, ConsumerAssumption, FS_Product DEF Record
<1>3. \A x \in Record : x[1] \in Partition /\ x[2] \in 1 .. MaxLog /\ x[2] \in Nat /\ x = <<x[1], x[2]>>
    BY ConsumerAssumption DEF Record
<1> QED
    BY <1>2, <1>3

LEMMA IterationFacts ==
    ASSUME NEW records \in SUBSET Record, NEW s \in Iterations(records)
    PROVE  s \in Seq(Record) /\ Range(s) = records
<1>1. Cardinality(records) \in Nat
    BY RecordFacts, FS_Subset, FS_CardinalityType
<1>2. s \in [1 .. Cardinality(records) -> records] /\ Range(s) = records
    BY DEF Iterations
<1>3. s \in Seq(Record)
    <2> DEFINE n == Cardinality(records)
    <2>1. n \in Nat /\ s \in [1 .. n -> Record]
        BY <1>1, <1>2
    <2> HIDE DEF n
    <2> QED
        BY <2>1
<1> QED
    BY <1>2, <1>3

LEMMA FetchedFacts ==
    ASSUME ConsumerTypeOK, NEW n \in Target
    PROVE  /\ n \in [Partition -> 0 .. MaxLog] /\ Fetched(n) \subseteq Record /\ Fetched(n) # {}
           /\ \A p \in Partition : position[p] <= n[p] /\ n[p] <= Len(log[p])
           /\ \A x \in Record : x[2] <= n[x[1]] <=> x[2] <= position[x[1]] \/ x \in Fetched(n)
<1>1. n \in [Partition -> 0 .. MaxLog] /\ n # position /\ \A p \in Partition : n[p] \in position[p] .. Len(log[p])
    BY DEF Target
<1>2. \A p \in Partition : n[p] \in Int /\ position[p] \in Nat /\ Len(log[p]) \in Nat
    BY <1>1, ConsumerAssumption, LenProperties DEF ConsumerTypeOK
<1>3. \A p \in Partition : position[p] <= n[p] /\ n[p] <= Len(log[p])
    BY <1>1, <1>2
<1>4. Fetched(n) # {}
    <2>1. PICK p \in Partition : n[p] # position[p]
        BY <1>1 DEF ConsumerTypeOK
    <2>2. n[p] \in 1 .. MaxLog /\ n[p] \in position[p] + 1 .. n[p]
        BY <1>1, <1>2, <1>3, <2>1, ConsumerAssumption
    <2>3. <<p, n[p]>> \in Fetched(n)
        BY <2>2 DEF Fetched, Record
    <2> QED
        BY <2>3
<1>5. ASSUME NEW x \in Record PROVE x[2] <= n[x[1]] <=> x[2] <= position[x[1]] \/ x \in Fetched(n)
    BY <1>2, <1>3, RecordFacts DEF Fetched
<1> QED
    BY <1>1, <1>3, <1>4, <1>5 DEF Fetched

-----------------------------------------------------------------------------
(* The record being handled. *)

LEMMA CurrentFacts ==
    ASSUME ConsumerTypeOK, BatchInLog, phase \in {"validate", "apply", "deadletter"}
    PROVE  /\ batch # <<>> /\ Head(batch) \in Record /\ Head(batch) \in Range(batch)
           /\ Tail(batch) \in Seq(Record) /\ Range(batch) = {Head(batch)} \cup Range(Tail(batch))
           /\ Head(batch)[2] \in 1 .. Len(log[Head(batch)[1]]) /\ Current \in Event
<1>1. batch # <<>> /\ batch \in Seq(Record)
    BY DEF BatchInLog, ConsumerTypeOK
<1>2. /\ Head(batch) \in Record /\ Head(batch) \in Range(batch)
      /\ Tail(batch) \in Seq(Record) /\ Range(batch) = {Head(batch)} \cup Range(Tail(batch))
    BY <1>1, HeadTailRange
<1> DEFINE p == Head(batch)[1]
           i == Head(batch)[2]
<1>3. p \in Partition /\ i \in Nat /\ i >= 1
    BY <1>2, RecordFacts, ConsumerAssumption
<1>4. i <= position[p] /\ position[p] <= Len(log[p]) /\ position[p] \in Nat /\ log[p] \in Seq(Event)
    BY <1>2, <1>3, ConsumerAssumption DEF BatchInLog, ConsumerTypeOK
<1>5. Len(log[p]) \in Nat
    BY <1>4, LenProperties
<1>6. i \in 1 .. Len(log[p])
    BY <1>3, <1>4, <1>5
<1>7. Current \in Event
    BY <1>4, <1>6, ElementOfSeq DEF Current
<1> QED
    BY <1>1, <1>2, <1>6, <1>7

LEMMA CommitTxFacts ==
    ASSUME ConsumerTypeOK, AppliedOnce, Current \in Event, CommitTx
    PROVE  /\ processed' = processed \cup {Current} /\ processed' \subseteq Event
           /\ effects' \in [Event -> Nat] /\ AppliedOnce'
<1>1. /\ processed' = processed \cup {Current}
      /\ effects' = [effects EXCEPT ![Current] = @ + IF Current \in processed THEN 0 ELSE 1]
    BY DEF CommitTx
<1>2. processed \subseteq Event /\ effects \in [Event -> Nat]
    BY DEF ConsumerTypeOK
<1>3. AppliedOnce'
    BY <1>1, <1>2 DEF AppliedOnce
<1> QED
    BY <1>1, <1>2, <1>3

LEMMA FinishFacts ==
    ASSUME ConsumerTypeOK, BatchInLog, phase \in {"validate", "apply", "deadletter"},
           NEW ok \in BOOLEAN, Finish(ok)
    PROVE  /\ batch' = Tail(batch) /\ batch' \in Seq(Record) /\ settled' \in BOOLEAN
           /\ attempt' \in 1 .. maxAttempts /\ phase' \in {"commit", "validate"}
           /\ phase' = "commit" <=> batch' = <<>>
           /\ position' = position /\ schemas' = schemas
<1>1. Tail(batch) \in Seq(Record)
    BY CurrentFacts
<1>2. 1 \in 1 .. maxAttempts
    BY ConsumerAssumption
<1>3. settled' \in BOOLEAN
    BY DEF Finish, ConsumerTypeOK
<1> QED
    BY <1>1, <1>2, <1>3 DEF Finish

-----------------------------------------------------------------------------
(* The types, and the effects. *)

LEMMA TypeNext ==
    ASSUME ConsumerTypeOK, AppliedOnce, BatchInLog, [Next]_vars
    PROVE  ConsumerTypeOK' /\ AppliedOnce'
<1> USE DEF client, history
<1>0. ASSUME processed' = processed, effects' = effects PROVE AppliedOnce'
    BY <1>0 DEF AppliedOnce
<1>1. ASSUME NEW p \in Partition, NEW e \in Event, Publish(p, e) PROVE ConsumerTypeOK' /\ AppliedOnce'
    <2>1. Append(log[p], e) \in Seq(Event)
        BY AppendProperties DEF ConsumerTypeOK
    <2> QED
        BY <1>0, <1>1, <2>1 DEF Publish, ConsumerTypeOK
<1>2. CASE RegistryFlips
    BY <1>0, <1>2 DEF RegistryFlips, ConsumerTypeOK
<1>3. CASE Crash
    <2>1. <<>> \in Seq(Record) /\ 1 \in 1 .. maxAttempts
        BY EmptySeq, ConsumerAssumption
    <2>2. crashes + 1 \in 0 .. MaxCrash
        BY <1>3, ConsumerAssumption DEF Crash, ConsumerTypeOK
    <2> QED
        BY <1>0, <1>3, <2>1, <2>2 DEF Crash, ConsumerTypeOK
<1>4. CASE PollFetches
    <2>1. PICK n \in Target : position' = n /\ batch' \in Iterations(Fetched(n))
        BY <1>4 DEF PollFetches
    <2>2. position' \in [Partition -> 0 .. MaxLog] /\ batch' \in Seq(Record) /\ 1 \in 1 .. maxAttempts
        BY <2>1, FetchedFacts, IterationFacts, ConsumerAssumption
    <2> QED
        BY <1>0, <1>4, <2>2 DEF PollFetches, ConsumerTypeOK
<1>5. CASE FetchError
    <2>1. PICK n \in Target : position' = n /\ abandoned' = abandoned \cup Fetched(n)
        BY <1>5 DEF FetchError
    <2>2. position' \in [Partition -> 0 .. MaxLog] /\ abandoned' \subseteq Record
        BY <2>1, FetchedFacts DEF ConsumerTypeOK
    <2> QED
        BY <1>0, <1>5, <2>2 DEF FetchError, ConsumerTypeOK
<1>6. CASE Validate
    <2>1. Head(batch) \in Record /\ Head(batch)[1] \in Partition
        BY <1>6, CurrentFacts, RecordFacts DEF Validate
    <2>2. phase' \in {"deadletter", "apply"} /\ schemas' \subseteq Partition /\ validated' \subseteq Record
        BY <1>6, <2>1 DEF Validate, ConsumerTypeOK
    <2> QED
        BY <1>0, <1>6, <2>2 DEF Validate, ConsumerTypeOK
<1>7. CASE Apply
    <2>1. Current \in Event /\ TRUE \in BOOLEAN /\ Finish(TRUE) /\ CommitTx /\ phase = "apply"
        BY <1>7, CurrentFacts DEF Apply
    <2>2. processed' \subseteq Event /\ effects' \in [Event -> Nat] /\ AppliedOnce'
        BY <2>1, CommitTxFacts
    <2>3. /\ batch' \in Seq(Record) /\ settled' \in BOOLEAN /\ attempt' \in 1 .. maxAttempts
          /\ phase' \in {"commit", "validate"} /\ position' = position /\ schemas' = schemas
        BY <2>1, FinishFacts
    <2> QED
        BY <1>7, <2>2, <2>3 DEF Apply, ConsumerTypeOK
<1>8. CASE ApplyFails
    <2>1. Current \in Event
        BY <1>8, CurrentFacts DEF ApplyFails
    <2>2. processed' \subseteq Event /\ effects' \in [Event -> Nat] /\ AppliedOnce'
        BY <1>0, <1>8, <2>1, CommitTxFacts DEF ApplyFails, ConsumerTypeOK
    <2>3. attempt' \in 1 .. maxAttempts /\ phase' \in {"validate", "deadletter"}
        BY <1>8, ConsumerAssumption DEF ApplyFails, AttemptsLeft, ConsumerTypeOK
    <2> QED
        BY <1>8, <2>2, <2>3 DEF ApplyFails, ConsumerTypeOK
<1>9. CASE DeadLetter \/ DeadLetterFails
    <2>1. PICK ok \in BOOLEAN : Finish(ok) /\ phase = "deadletter"
        BY <1>9 DEF DeadLetter, DeadLetterFails
    <2>2. Head(batch) \in Record
        BY <2>1, CurrentFacts
    <2>3. /\ batch' \in Seq(Record) /\ settled' \in BOOLEAN /\ attempt' \in 1 .. maxAttempts
          /\ phase' \in {"commit", "validate"} /\ position' = position /\ schemas' = schemas
        BY <2>1, FinishFacts
    <2>4. dlq' \subseteq Record /\ abandoned' \subseteq Record /\ validated' = validated
        BY <1>9, <2>2 DEF DeadLetter, DeadLetterFails, ConsumerTypeOK
    <2>5. UNCHANGED <<log, committed, registryUp, processed, effects, crashes>>
        BY <1>9 DEF DeadLetter, DeadLetterFails
    <2> QED
        BY <1>0, <2>3, <2>4, <2>5 DEF ConsumerTypeOK
<1>10. CASE EndBatch \/ CommitFails
    BY <1>0, <1>10 DEF EndBatch, CommitFails, ConsumerTypeOK
<1>11. CASE UNCHANGED vars
    BY <1>0, <1>11 DEF vars, ConsumerTypeOK
<1> QED
    BY <1>1, <1>2, <1>3, <1>4, <1>5, <1>6, <1>7, <1>8, <1>9, <1>10, <1>11 DEF Next

-----------------------------------------------------------------------------
(* The offsets, the batch and the records that are accounted for. *)

\* Nothing that accounts for a record is taken back.
NothingForgotten ==
    /\ \A p \in Partition : /\ Len(log'[p]) >= Len(log[p])
                            /\ \A i \in 1 .. Len(log[p]) : log'[p][i] = log[p][i]
    /\ processed \subseteq processed' /\ dlq \subseteq dlq'
    /\ validated \subseteq validated' /\ abandoned \subseteq abandoned'

LEMMA HistoryNext ==
    ASSUME ConsumerTypeOK, [Next]_vars
    PROVE  NothingForgotten
<1> USE DEF client, history, NothingForgotten
<1>0. \A p \in Partition : log[p] \in Seq(Event) /\ Len(log[p]) \in Nat
    BY LenProperties DEF ConsumerTypeOK
<1>1. ASSUME NEW p \in Partition, NEW e \in Event, Publish(p, e) PROVE NothingForgotten
    <2>1. /\ Len(Append(log[p], e)) = Len(log[p]) + 1
          /\ \A i \in 1 .. Len(log[p]) : Append(log[p], e)[i] = log[p][i]
        BY <1>0, AppendProperties
    <2>2. log'[p] = Append(log[p], e) /\ \A q \in Partition \ {p} : log'[q] = log[q]
        BY <1>1 DEF Publish, ConsumerTypeOK
    <2>3. \A q \in Partition : Len(log'[q]) >= Len(log[q]) /\ \A i \in 1 .. Len(log[q]) : log'[q][i] = log[q][i]
        BY <1>0, <2>1, <2>2
    <2> QED
        BY <1>1, <2>3 DEF Publish
<1>2. CASE RegistryFlips \/ Crash \/ PollFetches \/ FetchError \/ Validate
    BY <1>0, <1>2 DEF RegistryFlips, Crash, PollFetches, FetchError, Validate
<1>3. CASE Apply \/ ApplyFails \/ DeadLetter \/ DeadLetterFails
    <2>1. log' = log /\ validated' = validated
        BY <1>3 DEF Apply, ApplyFails, DeadLetter, DeadLetterFails
    <2>2. processed \subseteq processed' /\ dlq \subseteq dlq' /\ abandoned \subseteq abandoned'
        BY <1>3 DEF Apply, ApplyFails, CommitTx, DeadLetter, DeadLetterFails
    <2> QED
        BY <1>0, <2>1, <2>2
<1>4. CASE EndBatch \/ CommitFails \/ UNCHANGED vars
    BY <1>0, <1>4 DEF EndBatch, CommitFails, vars
<1> QED
    BY <1>1, <1>2, <1>3, <1>4 DEF Next

LEMMA OffsetFacts ==
    ASSUME ConsumerTypeOK, BatchInLog
    PROVE  \A p \in Partition : /\ committed[p] \in Nat /\ position[p] \in Nat /\ Len(log[p]) \in Nat
                                /\ committed[p] <= position[p] /\ position[p] <= Len(log[p])
BY ConsumerAssumption, LenProperties DEF ConsumerTypeOK, BatchInLog

LEMMA BatchNext ==
    ASSUME ConsumerTypeOK, ConsumerTypeOK', BatchInLog, dlq \subseteq validated, [Next]_vars
    PROVE  BatchInLog' /\ dlq' \subseteq validated'
<1> USE DEF client, history
<1> DEFINE Offsets == \A p \in Partition : committed[p] <= position[p] /\ position[p] <= Len(log[p])
           Batched == /\ phase \in {"poll", "commit"} <=> batch = <<>>
                      /\ \A x \in Range(batch) : x[2] <= position[x[1]]
                      /\ phase \in {"apply", "deadletter"} => Head(batch) \in validated
<1>0. BatchInLog <=> Offsets /\ Batched
    BY DEF BatchInLog
<1>0a. BatchInLog' <=> Offsets' /\ Batched'
    BY DEF BatchInLog
<1>0b. \A p \in Partition : Len(log'[p]) >= Len(log[p]) /\ Len(log'[p]) \in Nat
    BY HistoryNext, LenProperties DEF NothingForgotten, ConsumerTypeOK
<1>1. ASSUME UNCHANGED <<committed, position>> PROVE Offsets'
    BY <1>0b, <1>1, OffsetFacts
<1>2. ASSUME NEW p \in Partition, NEW e \in Event, Publish(p, e) PROVE BatchInLog' /\ dlq' \subseteq validated'
    BY <1>0, <1>0a, <1>1, <1>2 DEF Publish
<1>3. CASE RegistryFlips
    BY <1>0, <1>0a, <1>1, <1>3 DEF RegistryFlips
<1>4. CASE Crash
    <2>1. Offsets'
        BY <1>0b, <1>4, OffsetFacts DEF Crash
    <2>2. Batched'
        BY <1>4, EmptyRange DEF Crash
    <2> QED
        BY <1>0a, <1>4, <2>1, <2>2 DEF Crash
<1>5. CASE PollFetches
    <2>1. PICK n \in Target : position' = n /\ batch' \in Iterations(Fetched(n))
        BY <1>5 DEF PollFetches
    <2>2. /\ Fetched(n) \subseteq Record /\ Fetched(n) # {} /\ Range(batch') = Fetched(n)
          /\ \A p \in Partition : position[p] <= n[p] /\ n[p] <= Len(log[p]) /\ n[p] \in Nat
          /\ \A x \in Fetched(n) : x[2] <= n[x[1]]
        BY <2>1, FetchedFacts, IterationFacts, ConsumerAssumption
    <2>3. Offsets'
        BY <1>5, <2>1, <2>2, OffsetFacts DEF PollFetches
    <2>4. Batched'
        BY <1>5, <2>1, <2>2, EmptyRange DEF PollFetches
    <2> QED
        BY <1>0a, <1>5, <2>3, <2>4 DEF PollFetches
<1>6. CASE FetchError
    <2>1. PICK n \in Target : position' = n
        BY <1>6 DEF FetchError
    <2>2. \A p \in Partition : position[p] <= n[p] /\ n[p] <= Len(log[p]) /\ n[p] \in Nat
        BY <2>1, FetchedFacts, ConsumerAssumption
    <2>3. Offsets'
        BY <1>6, <2>1, <2>2, OffsetFacts DEF FetchError
    <2>4. Batched'
        BY <1>0, <1>6, EmptyRange DEF FetchError
    <2> QED
        BY <1>0a, <1>6, <2>3, <2>4 DEF FetchError
<1>7. CASE Validate
    <2>1. batch # <<>>
        BY <1>7, CurrentFacts DEF Validate
    <2> QED
        BY <1>0, <1>0a, <1>1, <1>7, <2>1 DEF Validate
<1>8. CASE Apply \/ DeadLetter \/ DeadLetterFails
    <2>1. PICK ok \in BOOLEAN : Finish(ok) /\ phase \in {"validate", "apply", "deadletter"}
        BY <1>8 DEF Apply, DeadLetter, DeadLetterFails
    <2>2. /\ batch' = Tail(batch) /\ phase' \in {"commit", "validate"} /\ position' = position
          /\ phase' = "commit" <=> batch' = <<>>
        BY <2>1, FinishFacts
    <2>3. committed' = committed /\ validated' = validated
        BY <1>8 DEF Apply, DeadLetter, DeadLetterFails
    <2>4. Range(batch') \subseteq Range(batch)
        BY <2>1, <2>2, CurrentFacts
    <2>5. Batched'
        BY <1>0, <2>2, <2>3, <2>4
    <2>6. dlq' \subseteq validated'
        BY <1>0, <1>8, <2>3 DEF Apply, DeadLetter, DeadLetterFails
    <2> QED
        BY <1>0a, <1>1, <2>2, <2>3, <2>5, <2>6
<1>9. CASE ApplyFails
    <2>1. batch # <<>>
        BY <1>9, CurrentFacts DEF ApplyFails
    <2> QED
        BY <1>0, <1>0a, <1>1, <1>9, <2>1 DEF ApplyFails
<1>10. CASE EndBatch
    <2>1. Offsets'
        BY <1>10, OffsetFacts DEF EndBatch
    <2> QED
        BY <1>0, <1>0a, <1>10, <2>1 DEF EndBatch
<1>11. CASE CommitFails
    BY <1>0, <1>0a, <1>1, <1>11 DEF CommitFails
<1>12. CASE UNCHANGED vars
    BY <1>0, <1>0a, <1>1, <1>12 DEF vars
<1> QED
    BY <1>2, <1>3, <1>4, <1>5, <1>6, <1>7, <1>8, <1>9, <1>10, <1>11, <1>12 DEF Next

LEMMA AccountedNext ==
    ASSUME ConsumerTypeOK, BatchInLog, FetchedAccounted, [Next]_vars
    PROVE  FetchedAccounted'
<1> USE DEF client, history
<1>0. \A x \in Record : /\ x[2] \in Nat /\ x[2] >= 1 /\ x[1] \in Partition
                        /\ committed[x[1]] \in Nat /\ position[x[1]] \in Nat /\ Len(log[x[1]]) \in Nat
                        /\ committed[x[1]] <= position[x[1]] /\ position[x[1]] <= Len(log[x[1]])
    BY RecordFacts, OffsetFacts, ConsumerAssumption
<1>1. ASSUME NEW x \in Record, x[2] <= position[x[1]], Accounted(x) PROVE Accounted(x)'
    <2>1. x[2] \in 1 .. Len(log[x[1]]) /\ x[1] \in Partition
        BY <1>0, <1>1
    <2>2. log'[x[1]][x[2]] = log[x[1]][x[2]]
        BY <2>1, HistoryNext DEF NothingForgotten
    <2> QED
        BY <1>1, <2>2, HistoryNext DEF Accounted, IsSettled, NothingForgotten
<1>2. \A x \in Record : /\ x[2] <= committed[x[1]] => Accounted(x)'
                        /\ x[2] <= position[x[1]] => Accounted(x)' \/ x \in Range(batch)
    BY <1>0, <1>1 DEF FetchedAccounted
<1>3. ASSUME UNCHANGED <<committed, position, batch>> PROVE FetchedAccounted'
    BY <1>2, <1>3 DEF FetchedAccounted
<1>4. ASSUME NEW p \in Partition, NEW e \in Event, Publish(p, e) PROVE FetchedAccounted'
    BY <1>3, <1>4 DEF Publish
<1>5. CASE RegistryFlips \/ Validate \/ ApplyFails \/ CommitFails
    BY <1>3, <1>5 DEF RegistryFlips, Validate, ApplyFails, CommitFails
<1>6. CASE Crash
    BY <1>2, <1>6 DEF Crash, FetchedAccounted
<1>7. CASE PollFetches
    <2>1. PICK n \in Target : position' = n /\ batch' \in Iterations(Fetched(n))
        BY <1>7 DEF PollFetches
    <2>2. /\ Range(batch') = Fetched(n) /\ committed' = committed /\ Range(batch) = {}
          /\ \A x \in Record : x[2] <= n[x[1]] <=> x[2] <= position[x[1]] \/ x \in Fetched(n)
        BY <1>7, <2>1, FetchedFacts, IterationFacts, EmptyRange DEF PollFetches, BatchInLog
    <2> QED
        BY <1>2, <2>1, <2>2 DEF FetchedAccounted
<1>8. CASE FetchError
    <2>1. PICK n \in Target : position' = n /\ abandoned' = abandoned \cup Fetched(n)
        BY <1>8 DEF FetchError
    <2>2. /\ committed' = committed /\ batch' = batch
          /\ \A x \in Record : x[2] <= n[x[1]] <=> x[2] <= position[x[1]] \/ x \in Fetched(n)
        BY <1>8, <2>1, FetchedFacts DEF FetchError
    <2>3. \A x \in Fetched(n) : Accounted(x)'
        BY <2>1 DEF Accounted
    <2> QED
        BY <1>2, <2>1, <2>2, <2>3 DEF FetchedAccounted
<1>9. CASE Apply \/ DeadLetter \/ DeadLetterFails
    <2>1. PICK ok \in BOOLEAN : Finish(ok) /\ phase \in {"apply", "deadletter"}
        BY <1>9 DEF Apply, DeadLetter, DeadLetterFails
    <2>2. Range(batch) = {Head(batch)} \cup Range(batch') /\ position' = position
        BY <2>1, FinishFacts, CurrentFacts
    <2>3. committed' = committed /\ log' = log /\ validated' = validated
        BY <1>9 DEF Apply, DeadLetter, DeadLetterFails
    <2>4. PICK h : h = Head(batch)
        OBVIOUS
    <2>5. h \in validated' /\ (log'[h[1]][h[2]] \in processed' \/ h \in dlq' \/ h \in abandoned')
        <3>1. h \in validated'
            BY <2>1, <2>3, <2>4 DEF BatchInLog
        <3>2. Current \in processed' \/ h \in dlq' \/ h \in abandoned'
            BY <1>9, <2>4 DEF Apply, CommitTx, DeadLetter, DeadLetterFails
        <3> QED
            BY <2>3, <2>4, <3>1, <3>2 DEF Current
    <2>6. Accounted(h)'
        BY <2>5 DEF Accounted, IsSettled
    <2> QED
        BY <1>2, <2>2, <2>3, <2>4, <2>6 DEF FetchedAccounted
<1>10. CASE EndBatch
    <2>1. Range(batch) = {} /\ batch' = batch /\ position' = position /\ committed' \in {committed, position}
        BY <1>10, EmptyRange DEF EndBatch, BatchInLog
    <2> QED
        BY <1>2, <2>1 DEF FetchedAccounted
<1>11. CASE UNCHANGED vars
    BY <1>3, <1>11 DEF vars
<1> QED
    BY <1>4, <1>5, <1>6, <1>7, <1>8, <1>9, <1>10, <1>11 DEF Next

-----------------------------------------------------------------------------
(* The theorems. *)

(***************************************************************************)
(* Across crashes, redelivery, events published twice and commits that are *)
(* reported as errors, no event has its effect twice; and every record     *)
(* that was fetched is to be handled, settled, or given up with an error.  *)
(***************************************************************************)
THEOREM ConsumerInvariant == Spec => []ConsumerInv
<1>1. Init => ConsumerInv
    <2> SUFFICES ASSUME Init PROVE ConsumerInv
        OBVIOUS
    <2>1. <<>> \in Seq(Event) /\ <<>> \in Seq(Record) /\ 1 \in 1 .. maxAttempts
          /\ 0 \in 0 .. MaxLog /\ 0 \in 0 .. MaxCrash
        BY EmptySeq, ConsumerAssumption
    <2>2. ConsumerTypeOK
        BY <2>1 DEF Init, ConsumerTypeOK
    <2>3. AppliedOnce
        BY DEF Init, AppliedOnce
    <2>4. BatchInLog
        BY EmptyRange, EmptySeq DEF Init, BatchInLog
    <2>5. FetchedAccounted /\ dlq \subseteq validated
        BY RecordFacts, ConsumerAssumption DEF Init, FetchedAccounted
    <2> QED
        BY <2>2, <2>3, <2>4, <2>5 DEF ConsumerInv
<1>2. ConsumerInv /\ [Next]_vars => ConsumerInv'
    BY TypeNext, BatchNext, AccountedNext DEF ConsumerInv
<1> QED
    BY <1>1, <1>2, PTL DEF Spec

(***************************************************************************)
(* The committed offset passes an unsettled record only if Run gave it up  *)
(* with an error in the log.                                               *)
(***************************************************************************)
THEOREM LossesAlwaysLogged == Spec => []LossesAreLogged
<1>1. ConsumerInv => LossesAreLogged
    BY DEF ConsumerInv, FetchedAccounted, Accounted, LossesAreLogged
<1> QED
    BY <1>1, ConsumerInvariant, PTL

(***************************************************************************)
(* A record that was not validated is neither dead-lettered nor passed by  *)
(* the committed offset, unless it came beside a fetch error: an outage of *)
(* the registry holds the offset.                                          *)
(***************************************************************************)
THEOREM OutagesHoldOffset == Spec => []OutageHoldsOffset
<1>1. ConsumerInv => OutageHoldsOffset
    BY DEF ConsumerInv, FetchedAccounted, Accounted, OutageHoldsOffset
<1> QED
    BY <1>1, ConsumerInvariant, PTL

=============================================================================
