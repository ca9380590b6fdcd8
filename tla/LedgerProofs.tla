---------------------------- MODULE LedgerProofs ----------------------------
(***************************************************************************)
(* Theorems about Ledger, for any number of users, accounts, holds,        *)
(* payments and currencies, any amounts and any size of the bigint columns,*)
(* and about Service, which extends it, for any number of request ids and  *)
(* of events: its two entrances implement the ledger, whatever is          *)
(* repeated, lost or delivered again, and their idempotency tables account *)
(* for every effect.                                                       *)
(***************************************************************************)
EXTENDS Service, Sums

-----------------------------------------------------------------------------
(* The identifiers of the model. *)

LEMMA AccountFacts ==
    /\ \A cur \in Currency : Settlement(cur) \in AccountId /\ Payable(cur) \in AccountId
    /\ \A cur \in Currency : IsAsset(Settlement(cur)) /\ ~ IsAsset(Payable(cur))
    /\ \A a \in UserAccount : a \in AccountId /\ ~ IsAsset(a)
BY ConstantsAssumption DEF Settlement, Payable, SystemAccount, AccountId, IsAsset

LEMMA KeyFacts ==
    /\ \A h \in HoldId : CaptureKey(h) \in IdemKey
    /\ \A u \in User : WelcomeKey(u) \in IdemKey
    /\ IsFiniteSet(IdemKey)
<1>1. IsFiniteSet({CaptureKey(h) : h \in HoldId})
    <2>1. IsFiniteSet(HoldId)
        BY ConstantsAssumption
    <2> DEFINE f == [h \in HoldId |-> CaptureKey(h)]
               K == {CaptureKey(h) : h \in HoldId}
    <2>2. f \in Surjection(HoldId, K)
        BY DEF Surjection
    <2> QED
        BY <2>1, <2>2, FS_Surjection
<1>2. IsFiniteSet({WelcomeKey(u) : u \in User})
    <2>1. IsFiniteSet(User)
        BY ConstantsAssumption
    <2> DEFINE f == [u \in User |-> WelcomeKey(u)]
               K == {WelcomeKey(u) : u \in User}
    <2>2. f \in Surjection(User, K)
        BY DEF Surjection
    <2> QED
        BY <2>1, <2>2, FS_Surjection
<1> QED
    BY <1>1, <1>2, FS_Union DEF IdemKey

-----------------------------------------------------------------------------
(* Type correctness. *)

LEMMA BumpFacts ==
    ASSUME NEW column \in [AccountId -> Int], NEW a \in AccountId, NEW d \in Int
    PROVE  /\ Bump(column, a, d) \in [AccountId -> Int]
           /\ \A b \in AccountId : Bump(column, a, d)[b] = IF b = a THEN column[b] + d ELSE column[b]
BY DEF Bump

LEMMA BumpVersion ==
    ASSUME NEW column \in [AccountId -> Nat], NEW a \in AccountId
    PROVE  Bump(column, a, 1) \in [AccountId -> Nat]
BY DEF Bump

LEMMA FundsType ==
    ASSUME NEW topic \in Topic, NEW h \in HoldId, NEW a \in AccountId,
           NEW amt \in Nat, amt > 0, NEW reason \in EventReason
    PROVE  Funds(topic, h, a, amt, reason) \in Event
BY DEF Funds, Event

LEMMA TopicFacts ==
    /\ "held" \in Topic /\ "captured" \in Topic /\ "released" \in Topic
    /\ "none" \in EventReason /\ "partial_capture_remainder" \in EventReason
    /\ Reason \subseteq EventReason
BY DEF Topic, EventReason

LEMMA StorableType ==
    ASSUME NEW column \in [AccountId -> Int], Storable(column)
    PROVE  column \in [AccountId -> 0 .. MaxBigint]
BY DEF Storable

LEMMA HoldFacts ==
    ASSUME TypeOK, NEW h \in HoldId, Active(h)
    PROVE  /\ holds[h] \in HoldRow
           /\ holds[h].account \in AccountId
           /\ holds[h].currency \in Currency
           /\ holds[h].amount \in Nat /\ holds[h].amount > 0
BY DEF TypeOK, Active, HoldRow

LEMMA ReservedType ==
    ASSUME TypeOK, NEW D \in SUBSET HoldId, \A h \in D : Active(h), NEW a \in AccountId
    PROVE  Reserved(D, a) \in Int
<1> DEFINE f == [h \in HoldId |-> IF h \in D /\ holds[h].account = a THEN holds[h].amount ELSE 0]
<1>1. f \in [HoldId -> Int]
    BY HoldFacts
<1>2. IsFiniteSet(HoldId)
    BY ConstantsAssumption
<1>3. SumFunction(f) \in Int
    <2> HIDE DEF f
    <2> QED
        BY <1>1, <1>2, SumType
<1> QED
    BY <1>3 DEF Reserved

LEMMA TypeHold ==
    ASSUME TypeOK, NEW h \in HoldId, NEW a \in AccountId, NEW p \in Payment,
           NEW amt \in Amount, NEW cur \in Currency, Hold(h, a, p, amt, cur)
    PROVE  TypeOK'
<1>1. amt \in Nat \ {0}
    <2>1. amt > 0
        BY DEF Hold
    <2>2. amt \in Int
        BY ConstantsAssumption
    <2> QED
        BY <2>1, <2>2
<1>2. available' \in [AccountId -> 0 .. MaxBigint] /\ held' \in [AccountId -> 0 .. MaxBigint]
    <2>1. available \in [AccountId -> Int] /\ held \in [AccountId -> Int] /\ -amt \in Int /\ amt \in Int
        BY <1>1 DEF TypeOK
    <2> QED
        BY <2>1, BumpFacts, StorableType DEF Hold
<1>3. version' \in [AccountId -> Nat]
    BY BumpVersion DEF Hold, TypeOK
<1>4. holds' \in [HoldId -> HoldRow \cup {NoRow}]
    BY <1>1 DEF Hold, TypeOK, HoldRow, HoldStatus
<1>5. outbox' \subseteq Event
    <2>1. Funds("held", h, a, amt, "none") \in Event
        BY <1>1, FundsType, TopicFacts
    <2> QED
        BY <2>1 DEF Hold, TypeOK
<1> QED
    BY <1>2, <1>3, <1>4, <1>5 DEF Hold, TypeOK

LEMMA TypeCapture ==
    ASSUME TypeOK, NEW h \in HoldId, NEW amt \in Amount, Capture(h, amt)
    PROVE  TypeOK'
<1> DEFINE a == holds[h].account
           payable == Payable(holds[h].currency)
           remainder == Remainder(h, amt)
<1>1. /\ Active(h) /\ holds[h] \in HoldRow /\ a \in AccountId /\ holds[h].currency \in Currency
      /\ holds[h].amount \in Nat /\ amt \in Nat \ {0} /\ remainder \in Nat /\ payable \in AccountId
    <2>1. Active(h) /\ amt > 0 /\ amt <= holds[h].amount
        BY DEF Capture, LockHold
    <2>2. amt \in Int
        BY ConstantsAssumption
    <2> QED
        BY <2>1, <2>2, HoldFacts, AccountFacts DEF Remainder
<1>2. available' \in [AccountId -> 0 .. MaxBigint]
    <2>1. available \in [AccountId -> Int] /\ remainder \in Int /\ amt \in Int
        BY <1>1 DEF TypeOK
    <2>2. Bump(available, a, remainder) \in [AccountId -> Int]
        BY <2>1, <1>1, BumpFacts
    <2>3. Bump(Bump(available, a, remainder), payable, amt) \in [AccountId -> Int]
        BY <2>1, <2>2, <1>1, BumpFacts
    <2> QED
        BY <2>3, StorableType DEF Capture
<1>3. held' \in [AccountId -> 0 .. MaxBigint]
    <2>1. held \in [AccountId -> Int] /\ -holds[h].amount \in Int
        BY <1>1 DEF TypeOK
    <2> QED
        BY <2>1, <1>1, BumpFacts, StorableType DEF Capture
<1>4. version' \in [AccountId -> Nat]
    <2>1. Bump(version, a, 1) \in [AccountId -> Nat]
        BY <1>1, BumpVersion DEF TypeOK
    <2> QED
        BY <1>1, <2>1, BumpVersion DEF Capture
<1>5. holds' \in [HoldId -> HoldRow \cup {NoRow}]
    BY <1>1 DEF Capture, TypeOK, HoldRow, HoldStatus
<1>6. postings' \in [IdemKey -> Posting \cup {NoRow}]
    BY <1>1 DEF Capture, Post, TypeOK, Posting
<1>7. outbox' \subseteq Event
    <2>1. Funds("captured", h, a, amt, "none") \in Event
        BY <1>1, FundsType, TopicFacts
    <2>2. \A r \in {remainder} \ {0} : Funds("released", h, a, r, "partial_capture_remainder") \in Event
        BY <1>1, FundsType, TopicFacts
    <2> QED
        BY <2>1, <2>2 DEF Capture, TypeOK
<1> QED
    BY <1>2, <1>3, <1>4, <1>5, <1>6, <1>7 DEF Capture, TypeOK

LEMMA TypeReleaseAll ==
    ASSUME TypeOK, NEW D \in SUBSET HoldId, NEW reason \in Reason, ReleaseAll(D, reason)
    PROVE  TypeOK'
<1>1. \A h \in D : Active(h)
    BY DEF ReleaseAll, LockHold
<1>2. \A a \in AccountId : Reserved(D, a) \in Int
    BY <1>1, ReservedType
<1>3. available' \in [AccountId -> 0 .. MaxBigint] /\ held' \in [AccountId -> 0 .. MaxBigint]
    <2>1. available' \in [AccountId -> Int] /\ held' \in [AccountId -> Int]
        BY <1>2 DEF ReleaseAll, TypeOK
    <2> QED
        BY <2>1, StorableType DEF ReleaseAll
<1>4. version' \in [AccountId -> Nat]
    <2>1. \A a \in AccountId : Cardinality({h \in D : holds[h].account = a}) \in Nat
        <3> SUFFICES ASSUME NEW a \in AccountId
                     PROVE  Cardinality({h \in D : holds[h].account = a}) \in Nat
            OBVIOUS
        <3> DEFINE E == {h \in D : holds[h].account = a}
        <3>1. IsFiniteSet(HoldId) /\ E \subseteq HoldId
            BY ConstantsAssumption
        <3> QED
            BY <3>1, FS_Subset, FS_CardinalityType
    <2> QED
        BY <2>1 DEF ReleaseAll, TypeOK
<1>5. holds' \in [HoldId -> HoldRow \cup {NoRow}]
    <2>1. \A h \in D : [holds[h] EXCEPT !.status = IF reason = "expiry" THEN "expired" ELSE "released"] \in HoldRow
        BY <1>1, HoldFacts DEF HoldRow, HoldStatus
    <2> QED
        BY <2>1 DEF ReleaseAll, TypeOK
<1>6. outbox' \subseteq Event
    <2>1. \A h \in D : Funds("released", h, holds[h].account, holds[h].amount, reason) \in Event
        BY <1>1, HoldFacts, FundsType, TopicFacts
    <2> QED
        BY <2>1 DEF ReleaseAll, TypeOK
<1> QED
    BY <1>3, <1>4, <1>5, <1>6 DEF ReleaseAll, TypeOK

LEMMA TypeOnUserRegistered ==
    ASSUME TypeOK, NEW u \in User, NEW a \in UserAccount, NEW seed \in WelcomeSeed, OnUserRegistered(u, a, seed)
    PROVE  TypeOK'
<1> DEFINE S == Settlement(DefaultCurrency)
<1>1. a \in AccountId /\ S \in AccountId /\ DefaultCurrency \in Currency
    BY AccountFacts, ConstantsAssumption
<1>2. CASE seed > 0
    <2>1. seed \in Nat \ {0} /\ Deposit(a, seed, DefaultCurrency, WelcomeKey(u))
        BY <1>2, ConstantsAssumption DEF OnUserRegistered
    <2>2. available' \in [AccountId -> 0 .. MaxBigint]
        <3>1. available \in [AccountId -> Int] /\ seed \in Int
            BY <2>1 DEF TypeOK
        <3>2. Bump(available, S, seed) \in [AccountId -> Int]
            BY <3>1, <1>1, BumpFacts
        <3>3. Bump(Bump(available, S, seed), a, seed) \in [AccountId -> Int]
            BY <3>1, <3>2, <1>1, BumpFacts
        <3> QED
            BY <2>1, <3>3, StorableType DEF Deposit
    <2>3. version' \in [AccountId -> Nat]
        <3>1. Bump(version, S, 1) \in [AccountId -> Nat]
            BY <1>1, BumpVersion DEF TypeOK
        <3> QED
            BY <1>1, <2>1, <3>1, BumpVersion DEF Deposit
    <2>4. postings' \in [IdemKey -> Posting \cup {NoRow}]
        BY <2>1, <1>1 DEF Deposit, Post, TypeOK, Posting
    <2> QED
        BY <1>1, <2>2, <2>3, <2>4 DEF OnUserRegistered, TypeOK
<1>3. CASE ~ (seed > 0)
    BY <1>1, <1>3 DEF OnUserRegistered, TypeOK
<1> QED
    BY <1>2, <1>3

(***************************************************************************)
(* Release, ReleaseByPayment and the sweeper all release a set of active   *)
(* holds, so a proof about the steps of Next has five cases.               *)
(***************************************************************************)
LEMMA NextCases ==
    ASSUME TypeOK, [Next]_vars
    PROVE  \/ \E u \in User, a \in UserAccount, seed \in WelcomeSeed : OnUserRegistered(u, a, seed)
           \/ \E h \in HoldId, a \in AccountId, p \in Payment, amt \in Amount, cur \in Currency :
                    Hold(h, a, p, amt, cur)
           \/ \E h \in HoldId, amt \in Amount : Capture(h, amt)
           \/ \E D \in SUBSET HoldId, reason \in Reason : ReleaseAll(D, reason)
           \/ \E h \in HoldId : PassExpiry(h)
           \/ UNCHANGED vars
<1>1. ASSUME NEW h \in HoldId, NEW reason \in Reason, Release(h, reason)
      PROVE  \E D \in SUBSET HoldId, r \in Reason : ReleaseAll(D, r)
    <2>1. {h} \in SUBSET HoldId /\ ReleaseAll({h}, reason)
        BY <1>1 DEF Release
    <2> QED
        BY <2>1
<1>2. ASSUME NEW p \in Payment, ReleaseByPayment(p, "compensation")
      PROVE  \E D \in SUBSET HoldId, r \in Reason : ReleaseAll(D, r)
    BY <1>1, <1>2 DEF ReleaseByPayment, Reason
<1>3. ASSUME SweepExpiredHolds
      PROVE  \E D \in SUBSET HoldId, r \in Reason : ReleaseAll(D, r)
    <2>1. DueHolds \subseteq HoldId /\ "expiry" \in Reason
        BY DEF DueHolds, TypeOK, Reason
    <2> QED
        BY <1>3, <2>1 DEF SweepExpiredHolds
<1> QED
    BY <1>1, <1>2, <1>3 DEF Next

LEMMA TypeNext == TypeOK /\ [Next]_vars => TypeOK'
<1> SUFFICES ASSUME TypeOK, [Next]_vars PROVE TypeOK'
    OBVIOUS
<1>1. ASSUME NEW u \in User, NEW a \in UserAccount, NEW seed \in WelcomeSeed, OnUserRegistered(u, a, seed) PROVE TypeOK'
    BY <1>1, TypeOnUserRegistered
<1>2. ASSUME NEW h \in HoldId, NEW a \in AccountId, NEW p \in Payment, NEW amt \in Amount,
             NEW cur \in Currency, Hold(h, a, p, amt, cur)
      PROVE  TypeOK'
    BY <1>2, TypeHold
<1>3. ASSUME NEW h \in HoldId, NEW amt \in Amount, Capture(h, amt) PROVE TypeOK'
    BY <1>3, TypeCapture
<1>4. ASSUME NEW D \in SUBSET HoldId, NEW reason \in Reason, ReleaseAll(D, reason) PROVE TypeOK'
    BY <1>4, TypeReleaseAll
<1>5. ASSUME NEW h \in HoldId, PassExpiry(h) PROVE TypeOK'
    BY <1>5 DEF PassExpiry, TypeOK
<1>6. CASE UNCHANGED vars
    BY <1>6 DEF vars, TypeOK
<1> QED
    BY <1>1, <1>2, <1>3, <1>4, <1>5, <1>6, NextCases

(***************************************************************************)
(* The rows keep their types, and the balances stay within the CHECKs and  *)
(* the range of bigint, whatever the callers ask for.                      *)
(***************************************************************************)
THEOREM TypeCorrect == Spec => []TypeOK
<1>1. Init => TypeOK
    BY AccountFacts, ConstantsAssumption DEF Init, TypeOK, AccountId
<1> QED
    BY <1>1, TypeNext, PTL DEF Spec

-----------------------------------------------------------------------------
(* How the sums of Reconcile change. *)

LEMMA SumsType ==
    ASSUME TypeOK, NEW a \in AccountId
    PROVE  /\ [k \in IdemKey |-> IF postings[k] # NoRow /\ postings[k].debit = a
                                  THEN postings[k].amount ELSE 0] \in [IdemKey -> Int]
           /\ [k \in IdemKey |-> IF postings[k] # NoRow /\ postings[k].credit = a
                                  THEN postings[k].amount ELSE 0] \in [IdemKey -> Int]
           /\ [h \in HoldId |-> IF Active(h) /\ holds[h].account = a
                                 THEN holds[h].amount ELSE 0] \in [HoldId -> Int]
           /\ Debits(a) \in Int /\ Credits(a) \in Int /\ ActiveHeld(a) \in Int
<1> DEFINE d == [k \in IdemKey |-> IF postings[k] # NoRow /\ postings[k].debit = a
                                  THEN postings[k].amount ELSE 0]
           c == [k \in IdemKey |-> IF postings[k] # NoRow /\ postings[k].credit = a
                                  THEN postings[k].amount ELSE 0]
           r == [h \in HoldId |-> IF Active(h) /\ holds[h].account = a
                                 THEN holds[h].amount ELSE 0]
<1>1. \A k \in IdemKey : postings[k] # NoRow => postings[k].amount \in Int
    BY DEF TypeOK, Posting
<1>2. d \in [IdemKey -> Int] /\ c \in [IdemKey -> Int]
    BY <1>1
<1>3. r \in [HoldId -> Int]
    BY HoldFacts
<1>4. IsFiniteSet(HoldId)
    BY ConstantsAssumption
<1>5. SumFunction(d) \in Int /\ SumFunction(c) \in Int /\ SumFunction(r) \in Int
    <2> HIDE DEF d, c, r
    <2> QED
        BY <1>2, <1>3, <1>4, KeyFacts, SumType
<1> QED
    BY <1>2, <1>3, <1>5 DEF Debits, Credits, ActiveHeld

LEMMA PostSums ==
    ASSUME TypeOK, TypeOK', NEW key \in IdemKey, NEW debit \in AccountId, NEW credit \in AccountId,
           NEW amt \in Nat, amt > 0, NEW cur \in Currency, Post(key, debit, credit, amt, cur),
           NEW a \in AccountId
    PROVE  /\ Debits(a)' = Debits(a) + (IF debit = a THEN amt ELSE 0)
           /\ Credits(a)' = Credits(a) + (IF credit = a THEN amt ELSE 0)
<1> DEFINE row == [debit |-> debit, credit |-> credit, amount |-> amt, currency |-> cur]
           d == [k \in IdemKey |-> IF postings[k] # NoRow /\ postings[k].debit = a
                                  THEN postings[k].amount ELSE 0]
           e == [k \in IdemKey |-> IF postings'[k] # NoRow /\ postings'[k].debit = a
                                  THEN postings'[k].amount ELSE 0]
           c == [k \in IdemKey |-> IF postings[k] # NoRow /\ postings[k].credit = a
                                  THEN postings[k].amount ELSE 0]
           f == [k \in IdemKey |-> IF postings'[k] # NoRow /\ postings'[k].credit = a
                                  THEN postings'[k].amount ELSE 0]
<1>1. /\ d \in [IdemKey -> Int] /\ c \in [IdemKey -> Int]
      /\ e \in [IdemKey -> Int] /\ f \in [IdemKey -> Int]
    <2>1. \A k \in IdemKey : postings[k] # NoRow => postings[k].amount \in Int
        BY DEF TypeOK, Posting
    <2>2. \A k \in IdemKey : postings'[k] # NoRow => postings'[k].amount \in Int
        BY DEF TypeOK, Posting
    <2> QED
        BY <2>1, <2>2
<1>2. /\ postings[key] = NoRow
      /\ postings'[key] = row
      /\ \A k \in IdemKey : k # key => postings'[k] = postings[k]
    BY DEF Post, TypeOK
<1>3. row # NoRow
    BY ConstantsAssumption DEF Posting
<1>4. d[key] = 0 /\ c[key] = 0
    BY <1>2
<1>5. e[key] = IF debit = a THEN amt ELSE 0
    BY <1>2, <1>3
<1>6. f[key] = IF credit = a THEN amt ELSE 0
    BY <1>2, <1>3
<1>7. \A k \in IdemKey : k # key => e[k] = d[k] /\ f[k] = c[k]
    BY <1>2
<1>8. /\ SumFunction(e) = SumFunction(d) + (e[key] - d[key])
      /\ SumFunction(f) = SumFunction(c) + (f[key] - c[key])
    <2> HIDE DEF d, c, e, f
    <2> QED
        BY <1>1, <1>7, KeyFacts, SumUpdate
<1>9. Debits(a)' = SumFunction(e) /\ Credits(a)' = SumFunction(f)
    BY DEF Debits, Credits
<1>10. Debits(a) = SumFunction(d) /\ Credits(a) = SumFunction(c)
    BY DEF Debits, Credits
<1> HIDE DEF d, c, e, f
<1> QED
    BY <1>4, <1>5, <1>6, <1>8, <1>9, <1>10

\* What one hold reserves on an account, and the row it is read from.
OnAccount(row, a) ==
    IF row # NoRow /\ row.status = "active" /\ row.account = a THEN row.amount ELSE 0

LEMMA ActiveHeldChange ==
    ASSUME TypeOK, TypeOK', NEW h \in HoldId, NEW a \in AccountId,
           \A g \in HoldId : g # h => holds'[g] = holds[g]
    PROVE  ActiveHeld(a)' = ActiveHeld(a) + (OnAccount(holds'[h], a) - OnAccount(holds[h], a))
<1> DEFINE r == [g \in HoldId |-> OnAccount(holds[g], a)]
           q == [g \in HoldId |-> OnAccount(holds'[g], a)]
<1>1. r \in [HoldId -> Int]
    BY DEF TypeOK, HoldRow, OnAccount
<1>2. q \in [HoldId -> Int]
    BY DEF TypeOK, HoldRow, OnAccount
<1>3. SumFunction(q) = SumFunction(r) + (q[h] - r[h])
    <2>1. \A g \in HoldId : g # h => q[g] = r[g]
        OBVIOUS
    <2>2. IsFiniteSet(HoldId)
        BY ConstantsAssumption
    <2> HIDE DEF q, r
    <2> QED
        BY <1>1, <1>2, <2>1, <2>2, SumUpdate
<1>4. ActiveHeld(a) = SumFunction(r)
    BY DEF ActiveHeld, Active, OnAccount
<1>5. ActiveHeld(a)' = SumFunction(q)
    BY DEF ActiveHeld, Active, OnAccount
<1> QED
    BY <1>3, <1>4, <1>5

LEMMA ActiveHeldRelease ==
    ASSUME TypeOK, TypeOK', NEW D \in SUBSET HoldId, NEW reason \in Reason, ReleaseAll(D, reason),
           NEW a \in AccountId
    PROVE  ActiveHeld(a)' = ActiveHeld(a) - Reserved(D, a)
<1> DEFINE r == [g \in HoldId |-> OnAccount(holds[g], a)]
           q == [g \in HoldId |-> OnAccount(holds'[g], a)]
           d == [g \in HoldId |-> IF g \in D /\ holds[g].account = a THEN holds[g].amount ELSE 0]
<1>1. r \in [HoldId -> Int]
    BY DEF TypeOK, HoldRow, OnAccount
<1>2. q \in [HoldId -> Int]
    BY DEF TypeOK, HoldRow, OnAccount
<1>3. d \in [HoldId -> Int]
    BY HoldFacts DEF ReleaseAll, LockHold
<1>4. \A g \in HoldId : r[g] = q[g] + d[g]
    <2> SUFFICES ASSUME NEW g \in HoldId PROVE r[g] = q[g] + d[g]
        OBVIOUS
    <2>1. CASE g \in D
        <3>1. Active(g) /\ holds[g].amount \in Int
            BY <2>1, HoldFacts DEF ReleaseAll, LockHold
        <3>2. holds'[g].status # "active"
            <4>1. holds'[g] = [holds[g] EXCEPT !.status = IF reason = "expiry" THEN "expired" ELSE "released"]
                BY <2>1 DEF ReleaseAll
            <4>2. holds[g] \in HoldRow
                BY <3>1, HoldFacts
            <4> QED
                BY <4>1, <4>2 DEF HoldRow
        <3>3. q[g] = 0
            BY <3>2 DEF OnAccount
        <3>4. r[g] = IF holds[g].account = a THEN holds[g].amount ELSE 0
            BY <3>1 DEF OnAccount, Active
        <3>5. d[g] = IF holds[g].account = a THEN holds[g].amount ELSE 0
            BY <2>1
        <3> HIDE DEF r, q, d
        <3> QED
            BY <3>1, <3>3, <3>4, <3>5
    <2>2. CASE g \notin D
        <3>1. holds'[g] = holds[g]
            BY <2>2 DEF ReleaseAll
        <3>2. q[g] = r[g] /\ d[g] = 0
            BY <2>2, <3>1
        <3> HIDE DEF r, q, d
        <3> QED
            BY <3>2, <1>1
    <2> QED
        BY <2>1, <2>2
<1>5. SumFunction(r) = SumFunction(q) + SumFunction(d)
      /\ SumFunction(q) \in Int /\ SumFunction(d) \in Int
    <2>1. IsFiniteSet(HoldId)
        BY ConstantsAssumption
    <2> HIDE DEF q, r, d
    <2> QED
        BY <1>1, <1>2, <1>3, <1>4, <2>1, SumLinear, SumType
<1>6. ActiveHeld(a) = SumFunction(r)
    BY DEF ActiveHeld, Active, OnAccount
<1>7. ActiveHeld(a)' = SumFunction(q)
    BY DEF ActiveHeld, Active, OnAccount
<1>8. Reserved(D, a) = SumFunction(d)
    BY DEF Reserved
<1> HIDE DEF r, q, d
<1> QED
    BY <1>5, <1>6, <1>7, <1>8

-----------------------------------------------------------------------------
(* Every operation moves the balances and the sums together. *)

LEMMA SameSums ==
    ASSUME NEW a \in AccountId
    PROVE  /\ UNCHANGED postings => Debits(a)' = Debits(a) /\ Credits(a)' = Credits(a)
           /\ UNCHANGED holds => ActiveHeld(a)' = ActiveHeld(a)
BY DEF Debits, Credits, ActiveHeld, Active

LEMMA InvHold ==
    ASSUME LedgerInv, TypeOK', NEW h \in HoldId, NEW a \in AccountId, NEW p \in Payment,
           NEW amt \in Amount, NEW cur \in Currency, Hold(h, a, p, amt, cur)
    PROVE  LedgerInv'
<1> DEFINE row == [account |-> a, payment |-> p, amount |-> amt, currency |-> cur, status |-> "active"]
<1>1. TypeOK /\ amt \in Int
    BY ConstantsAssumption DEF LedgerInv
<1>2. holds[h] = NoRow /\ holds'[h] = row /\ \A g \in HoldId : g # h => holds'[g] = holds[g]
    BY <1>1 DEF Hold, TypeOK
<1>3. row # NoRow
    <2>1. holds'[h] \in HoldRow \cup {NoRow} /\ amt > 0
        BY DEF TypeOK, Hold
    <2>2. row \in HoldRow
        BY <1>1, <2>1 DEF HoldRow, HoldStatus
    <2> QED
        BY <2>2, ConstantsAssumption
<1>4. ASSUME NEW b \in AccountId
      PROVE  /\ ActiveHeld(b)' = ActiveHeld(b) + (IF a = b THEN amt ELSE 0)
             /\ Debits(b)' = Debits(b) /\ Credits(b)' = Credits(b)
             /\ available'[b] = available[b] - (IF a = b THEN amt ELSE 0)
             /\ held'[b] = held[b] + (IF a = b THEN amt ELSE 0)
             /\ ActiveHeld(b) \in Int /\ Debits(b) \in Int /\ Credits(b) \in Int
             /\ available[b] \in Int /\ held[b] \in Int
    <2>1. ActiveHeld(b) \in Int /\ Debits(b) \in Int /\ Credits(b) \in Int
        BY <1>1, SumsType
    <2>2. OnAccount(holds[h], b) = 0 /\ OnAccount(holds'[h], b) = IF a = b THEN amt ELSE 0
        BY <1>2, <1>3 DEF OnAccount
    <2>3. ActiveHeld(b)' = ActiveHeld(b) + (IF a = b THEN amt ELSE 0)
        BY <1>1, <1>2, <2>1, <2>2, ActiveHeldChange
    <2>4. available \in [AccountId -> Int] /\ held \in [AccountId -> Int] /\ -amt \in Int
        BY <1>1 DEF TypeOK
    <2>0. available' = Bump(available, a, -amt) /\ held' = Bump(held, a, amt) /\ UNCHANGED postings
        BY DEF Hold
    <2>5. available'[b] = IF b = a THEN available[b] + (-amt) ELSE available[b]
        BY <2>0, <2>4, BumpFacts
    <2>6. held'[b] = IF b = a THEN held[b] + amt ELSE held[b]
        BY <1>1, <2>0, <2>4, BumpFacts
    <2> QED
        BY <1>1, <2>0, <2>1, <2>3, <2>4, <2>5, <2>6, SameSums
<1>5. HeldIsReserved'
    BY <1>4 DEF LedgerInv, HeldIsReserved
<1>6. LiabilityBalances'
    <2> SUFFICES ASSUME NEW b \in AccountId, ~ IsAsset(b)
                 PROVE  available'[b] = Credits(b)' - Debits(b)' - ActiveHeld(b)'
        BY DEF LiabilityBalances, IsAsset
    <2>1. available[b] = Credits(b) - Debits(b) - ActiveHeld(b)
        BY DEF LedgerInv, LiabilityBalances
    <2> QED
        BY <1>1, <1>4, <2>1
<1>7. AssetBalances'
    <2> SUFFICES ASSUME NoAssetHold', NEW b \in AccountId, IsAsset(b)
                 PROVE  available'[b] = Debits(b)' - Credits(b)'
        BY DEF AssetBalances, IsAsset
    <2>1. NoAssetHold
        BY <1>2 DEF NoAssetHold, IsAsset
    <2>2. ~ IsAsset(a)
        BY <1>2, <1>3 DEF NoAssetHold, IsAsset
    <2>3. available[b] = Debits(b) - Credits(b) /\ a # b
        BY <2>1, <2>2 DEF LedgerInv, AssetBalances
    <2> QED
        BY <1>4, <2>3
<1> QED
    BY <1>5, <1>6, <1>7 DEF LedgerInv

LEMMA InvCapture ==
    ASSUME LedgerInv, TypeOK', NEW h \in HoldId, NEW amt \in Amount, Capture(h, amt)
    PROVE  LedgerInv'
<1> DEFINE a == holds[h].account
           total == holds[h].amount
           payable == Payable(holds[h].currency)
           remainder == Remainder(h, amt)
<1>1. /\ TypeOK /\ Active(h) /\ holds[h] \in HoldRow /\ a \in AccountId /\ holds[h].currency \in Currency
      /\ total \in Nat /\ amt \in Nat /\ amt > 0 /\ remainder \in Nat
      /\ payable \in AccountId /\ ~ IsAsset(payable) /\ holds[h] # NoRow
    <2>1. Active(h) /\ amt > 0 /\ amt <= holds[h].amount
        BY DEF Capture, LockHold
    <2>2. amt \in Int /\ TypeOK /\ holds[h] # NoRow
        BY <2>1, ConstantsAssumption DEF LedgerInv, Active
    <2> QED
        BY <2>1, <2>2, HoldFacts, AccountFacts DEF Remainder
<1>2. /\ holds'[h] = [holds[h] EXCEPT !.status = "captured"]
      /\ \A g \in HoldId : g # h => holds'[g] = holds[g]
    BY <1>1 DEF Capture, TypeOK
<1>3. /\ available' = Bump(Bump(available, a, remainder), payable, amt)
      /\ held' = Bump(held, a, -total)
      /\ Post(CaptureKey(h), a, payable, amt, holds[h].currency)
    BY DEF Capture
<1>4. ASSUME NEW b \in AccountId
      PROVE  /\ ActiveHeld(b)' = ActiveHeld(b) - (IF a = b THEN total ELSE 0)
             /\ Debits(b)' = Debits(b) + (IF a = b THEN amt ELSE 0)
             /\ Credits(b)' = Credits(b) + (IF payable = b THEN amt ELSE 0)
             /\ available'[b] = available[b] + (IF a = b THEN remainder ELSE 0) + (IF payable = b THEN amt ELSE 0)
             /\ held'[b] = held[b] - (IF a = b THEN total ELSE 0)
             /\ ActiveHeld(b) \in Int /\ Debits(b) \in Int /\ Credits(b) \in Int
             /\ available[b] \in Int /\ held[b] \in Int
    <2>1. ActiveHeld(b) \in Int /\ Debits(b) \in Int /\ Credits(b) \in Int
        BY <1>1, SumsType
    <2>2. OnAccount(holds[h], b) = (IF a = b THEN total ELSE 0) /\ OnAccount(holds'[h], b) = 0
        <3>1. holds'[h].status # "active"
            BY <1>1, <1>2 DEF HoldRow
        <3> QED
            BY <1>1, <3>1 DEF OnAccount, Active
    <2>3. ActiveHeld(b)' = ActiveHeld(b) - (IF a = b THEN total ELSE 0)
        <3>1. ActiveHeld(b)' = ActiveHeld(b) + (OnAccount(holds'[h], b) - OnAccount(holds[h], b))
            BY <1>1, <1>2, ActiveHeldChange
        <3> QED
            BY <1>1, <2>1, <2>2, <3>1
    <2>4. available \in [AccountId -> Int] /\ held \in [AccountId -> Int] /\ -total \in Int
          /\ remainder \in Int /\ amt \in Int
        BY <1>1 DEF TypeOK
    <2>5. available'[b] = available[b] + (IF a = b THEN remainder ELSE 0) + (IF payable = b THEN amt ELSE 0)
        <3> DEFINE mid == Bump(available, a, remainder)
        <3>1. mid \in [AccountId -> Int] /\ mid[b] = IF b = a THEN available[b] + remainder ELSE available[b]
            <4> HIDE DEF a, remainder
            <4> QED
                BY <1>1, <2>4 DEF Bump
        <3>2. available'[b] = IF b = payable THEN mid[b] + amt ELSE mid[b]
            <4>1. available' = Bump(mid, payable, amt)
                BY <1>3
            <4> HIDE DEF mid, payable
            <4> QED
                BY <1>1, <2>4, <3>1, <4>1 DEF Bump
        <3> HIDE DEF mid
        <3>3. available[b] \in Int
            BY <2>4
        <3> QED
            BY <2>4, <3>1, <3>2, <3>3
    <2>6. held'[b] = IF b = a THEN held[b] + (-total) ELSE held[b]
        <3> HIDE DEF a, total
        <3> QED
            BY <1>1, <1>3, <2>4 DEF Bump
    <2>7. /\ Debits(b)' = Debits(b) + (IF a = b THEN amt ELSE 0)
          /\ Credits(b)' = Credits(b) + (IF payable = b THEN amt ELSE 0)
        BY <1>1, <1>3, KeyFacts, PostSums
    <2> QED
        BY <1>1, <2>1, <2>3, <2>4, <2>5, <2>6, <2>7
<1>5. HeldIsReserved'
    BY <1>4 DEF LedgerInv, HeldIsReserved
<1>6. LiabilityBalances'
    <2> SUFFICES ASSUME NEW b \in AccountId, ~ IsAsset(b)
                 PROVE  available'[b] = Credits(b)' - Debits(b)' - ActiveHeld(b)'
        BY DEF LiabilityBalances, IsAsset
    <2>1. available[b] = Credits(b) - Debits(b) - ActiveHeld(b)
        BY DEF LedgerInv, LiabilityBalances
    <2>2. amt \in Int /\ total \in Int /\ remainder = total - amt
        BY <1>1 DEF Remainder
    <2> HIDE DEF total, remainder, payable, a
    <2> QED
        BY <1>4, <2>1, <2>2
<1>7. AssetBalances'
    <2> SUFFICES ASSUME NoAssetHold', NEW b \in AccountId, IsAsset(b)
                 PROVE  available'[b] = Debits(b)' - Credits(b)'
        BY DEF AssetBalances, IsAsset
    <2>1. holds'[h] # NoRow /\ holds'[h].account = a
        <3>1. holds'[h] \in HoldRow /\ holds'[h].account = a
            BY <1>1, <1>2 DEF HoldRow, HoldStatus
        <3> QED
            BY <3>1, ConstantsAssumption
    <2>2. NoAssetHold
        <3>1. \A g \in HoldId : holds[g] # NoRow => holds'[g] # NoRow /\ holds'[g].account = holds[g].account
            BY <1>2, <2>1
        <3> QED
            BY <3>1 DEF NoAssetHold, IsAsset
    <2>3. ~ IsAsset(a)
        BY <2>1 DEF NoAssetHold, IsAsset
    <2>4. available[b] = Debits(b) - Credits(b) /\ a # b /\ payable # b
        BY <1>1, <2>2, <2>3 DEF LedgerInv, AssetBalances
    <2> HIDE DEF total, remainder, payable, a
    <2> QED
        BY <1>4, <2>4
<1> QED
    BY <1>5, <1>6, <1>7 DEF LedgerInv

LEMMA InvReleaseAll ==
    ASSUME LedgerInv, TypeOK', NEW D \in SUBSET HoldId, NEW reason \in Reason, ReleaseAll(D, reason)
    PROVE  LedgerInv'
<1>1. TypeOK /\ (\A h \in D : Active(h)) /\ UNCHANGED postings
    BY DEF LedgerInv, ReleaseAll, LockHold
<1>2. ASSUME NEW b \in AccountId
      PROVE  /\ ActiveHeld(b)' = ActiveHeld(b) - Reserved(D, b)
             /\ Debits(b)' = Debits(b) /\ Credits(b)' = Credits(b)
             /\ available'[b] = available[b] + Reserved(D, b)
             /\ held'[b] = held[b] - Reserved(D, b)
             /\ ActiveHeld(b) \in Int /\ Debits(b) \in Int /\ Credits(b) \in Int
             /\ available[b] \in Int /\ held[b] \in Int /\ Reserved(D, b) \in Int
    <2>1. ActiveHeld(b) \in Int /\ Debits(b) \in Int /\ Credits(b) \in Int /\ Reserved(D, b) \in Int
        BY <1>1, SumsType, ReservedType
    <2>2. ActiveHeld(b)' = ActiveHeld(b) - Reserved(D, b)
        BY <1>1, ActiveHeldRelease
    <2>3. available'[b] = available[b] + Reserved(D, b) /\ held'[b] = held[b] - Reserved(D, b)
        BY DEF ReleaseAll
    <2>4. available[b] \in Int /\ held[b] \in Int
        BY <1>1 DEF TypeOK
    <2> QED
        BY <1>1, <2>1, <2>2, <2>3, <2>4, SameSums
<1>3. HeldIsReserved'
    BY <1>2 DEF LedgerInv, HeldIsReserved
<1>4. LiabilityBalances'
    <2> SUFFICES ASSUME NEW b \in AccountId, ~ IsAsset(b)
                 PROVE  available'[b] = Credits(b)' - Debits(b)' - ActiveHeld(b)'
        BY DEF LiabilityBalances, IsAsset
    <2>1. available[b] = Credits(b) - Debits(b) - ActiveHeld(b)
        BY DEF LedgerInv, LiabilityBalances
    <2> QED
        BY <1>2, <2>1
<1>5. AssetBalances'
    <2> SUFFICES ASSUME NoAssetHold', NEW b \in AccountId, IsAsset(b)
                 PROVE  available'[b] = Debits(b)' - Credits(b)'
        BY DEF AssetBalances, IsAsset
    <2>1. \A h \in HoldId : holds[h] # NoRow => holds'[h] # NoRow /\ holds'[h].account = holds[h].account
        <3> SUFFICES ASSUME NEW h \in HoldId, holds[h] # NoRow
                     PROVE  holds'[h] # NoRow /\ holds'[h].account = holds[h].account
            OBVIOUS
        <3>1. CASE h \notin D
            BY <3>1 DEF ReleaseAll
        <3>2. CASE h \in D
            <4>1. holds'[h] = [holds[h] EXCEPT !.status = IF reason = "expiry" THEN "expired" ELSE "released"]
                BY <3>2 DEF ReleaseAll
            <4>2. holds[h] \in HoldRow
                BY <1>1 DEF TypeOK
            <4>3. holds'[h] \in HoldRow /\ holds'[h].account = holds[h].account
                BY <4>1, <4>2 DEF HoldRow, HoldStatus
            <4> QED
                BY <4>3, ConstantsAssumption
        <3> QED
            BY <3>1, <3>2
    <2>2. NoAssetHold
        BY <2>1 DEF NoAssetHold, IsAsset
    <2>3. Reserved(D, b) = 0
        <3> DEFINE d == [g \in HoldId |-> IF g \in D /\ holds[g].account = b THEN holds[g].amount ELSE 0]
        <3>1. \A g \in HoldId : d[g] = 0
            BY <1>1, <2>2 DEF NoAssetHold, Active
        <3>2. d \in [HoldId -> Int] /\ IsFiniteSet(HoldId)
            BY <3>1, ConstantsAssumption
        <3>3. SumFunction(d) = 0
            <4> HIDE DEF d
            <4> QED
                BY <3>1, <3>2, SumZero
        <3> QED
            BY <3>3 DEF Reserved
    <2>4. available[b] = Debits(b) - Credits(b)
        BY <2>2 DEF LedgerInv, AssetBalances
    <2> QED
        BY <1>2, <2>3, <2>4
<1> QED
    BY <1>3, <1>4, <1>5 DEF LedgerInv

LEMMA InvOnUserRegistered ==
    ASSUME LedgerInv, TypeOK', NEW u \in User, NEW a \in UserAccount, NEW seed \in WelcomeSeed, OnUserRegistered(u, a, seed)
    PROVE  LedgerInv'
<1> DEFINE S == Settlement(DefaultCurrency)
<1>1. /\ TypeOK /\ UNCHANGED <<held, holds>>
      /\ a \in AccountId /\ S \in AccountId /\ DefaultCurrency \in Currency
      /\ ~ IsAsset(a) /\ IsAsset(S)
    BY AccountFacts, ConstantsAssumption DEF LedgerInv, OnUserRegistered
<1>2. \A b \in AccountId : ActiveHeld(b)' = ActiveHeld(b)
    BY <1>1, SameSums
<1>3. HeldIsReserved'
    BY <1>1, <1>2 DEF LedgerInv, HeldIsReserved
<1>4. NoAssetHold' => NoAssetHold
    BY <1>1 DEF NoAssetHold, IsAsset
<1>5. CASE seed > 0
    <2>1. seed \in Nat
        BY <1>5, ConstantsAssumption
    <2>2. /\ Post(WelcomeKey(u), S, a, seed, DefaultCurrency)
          /\ available' = Bump(Bump(available, S, seed), a, seed)
        BY <1>5 DEF OnUserRegistered, Deposit
    <2>3. ASSUME NEW b \in AccountId
          PROVE  /\ Debits(b)' = Debits(b) + (IF S = b THEN seed ELSE 0)
                 /\ Credits(b)' = Credits(b) + (IF a = b THEN seed ELSE 0)
                 /\ available'[b] = available[b] + (IF S = b THEN seed ELSE 0) + (IF a = b THEN seed ELSE 0)
                 /\ ActiveHeld(b) \in Int /\ Debits(b) \in Int /\ Credits(b) \in Int /\ available[b] \in Int
        <3>1. ActiveHeld(b) \in Int /\ Debits(b) \in Int /\ Credits(b) \in Int
            BY <1>1, SumsType
        <3>2. available \in [AccountId -> Int] /\ seed \in Int /\ available[b] \in Int
            BY <1>1, <2>1 DEF TypeOK
        <3> HIDE DEF S
        <3>3. /\ Debits(b)' = Debits(b) + (IF S = b THEN seed ELSE 0)
              /\ Credits(b)' = Credits(b) + (IF a = b THEN seed ELSE 0)
            BY <1>1, <1>5, <2>1, <2>2, KeyFacts, PostSums
        <3> DEFINE mid == Bump(available, S, seed)
        <3>4. mid \in [AccountId -> Int] /\ mid[b] = IF b = S THEN available[b] + seed ELSE available[b]
            BY <1>1, <3>2 DEF Bump
        <3>5. available' = Bump(mid, a, seed)
            BY <2>2
        <3> HIDE DEF mid
        <3>6. available'[b] = IF b = a THEN mid[b] + seed ELSE mid[b]
            BY <1>1, <3>2, <3>4, <3>5 DEF Bump
        <3> QED
            BY <3>1, <3>2, <3>3, <3>4, <3>6
    <2>4. LiabilityBalances'
        <3> SUFFICES ASSUME NEW b \in AccountId, ~ IsAsset(b)
                     PROVE  available'[b] = Credits(b)' - Debits(b)' - ActiveHeld(b)'
            BY DEF LiabilityBalances, IsAsset
        <3>1. available[b] = Credits(b) - Debits(b) - ActiveHeld(b) /\ b # S
            BY <1>1 DEF LedgerInv, LiabilityBalances
        <3> HIDE DEF S
        <3> QED
            BY <1>2, <2>1, <2>3, <3>1
    <2>5. AssetBalances'
        <3> SUFFICES ASSUME NoAssetHold', NEW b \in AccountId, IsAsset(b)
                     PROVE  available'[b] = Debits(b)' - Credits(b)'
            BY DEF AssetBalances, IsAsset
        <3>1. available[b] = Debits(b) - Credits(b) /\ b # a
            BY <1>1, <1>4 DEF LedgerInv, AssetBalances
        <3> HIDE DEF S
        <3> QED
            BY <2>1, <2>3, <3>1
    <2> QED
        BY <1>3, <2>4, <2>5 DEF LedgerInv
<1>6. CASE ~ (seed > 0)
    <2>1. UNCHANGED <<available, postings>>
        BY <1>6 DEF OnUserRegistered
    <2>2. \A b \in AccountId : Debits(b)' = Debits(b) /\ Credits(b)' = Credits(b)
        BY <2>1, SameSums
    <2>3. LiabilityBalances'
        BY <1>2, <2>1, <2>2 DEF LedgerInv, LiabilityBalances, IsAsset
    <2>4. AssetBalances'
        BY <1>4, <2>1, <2>2 DEF LedgerInv, AssetBalances, IsAsset
    <2> QED
        BY <1>3, <2>3, <2>4 DEF LedgerInv
<1> QED
    BY <1>5, <1>6

LEMMA InvSame ==
    ASSUME LedgerInv, TypeOK', UNCHANGED <<available, held, holds, postings>>
    PROVE  LedgerInv'
<1>1. \A b \in AccountId : /\ Debits(b)' = Debits(b) /\ Credits(b)' = Credits(b)
                           /\ ActiveHeld(b)' = ActiveHeld(b)
    BY SameSums
<1>2. HeldIsReserved' /\ LiabilityBalances'
    BY <1>1 DEF LedgerInv, HeldIsReserved, LiabilityBalances, IsAsset
<1>3. NoAssetHold' => NoAssetHold
    BY DEF NoAssetHold, IsAsset
<1>4. AssetBalances'
    BY <1>1, <1>3 DEF LedgerInv, AssetBalances, IsAsset
<1> QED
    BY <1>2, <1>4 DEF LedgerInv

LEMMA InvInit == Init => LedgerInv
<1> SUFFICES ASSUME Init PROVE LedgerInv
    OBVIOUS
<1>1. TypeOK
    BY AccountFacts, ConstantsAssumption DEF Init, TypeOK, AccountId
<1>2. ASSUME NEW a \in AccountId
      PROVE  Debits(a) = 0 /\ Credits(a) = 0 /\ ActiveHeld(a) = 0
    <2> DEFINE z == [k \in IdemKey |-> 0]
               y == [h \in HoldId |-> 0]
    <2>1. Debits(a) = SumFunction(z) /\ Credits(a) = SumFunction(z) /\ ActiveHeld(a) = SumFunction(y)
        BY DEF Init, Debits, Credits, ActiveHeld, Active
    <2>2. z \in [IdemKey -> Int] /\ y \in [HoldId -> Int] /\ IsFiniteSet(HoldId)
          /\ (\A k \in IdemKey : z[k] = 0) /\ (\A h \in HoldId : y[h] = 0)
        BY ConstantsAssumption
    <2> HIDE DEF z, y
    <2> QED
        BY <2>1, <2>2, KeyFacts, SumZero
<1>3. HeldIsReserved /\ LiabilityBalances /\ AssetBalances
    BY <1>2 DEF Init, HeldIsReserved, LiabilityBalances, AssetBalances
<1> QED
    BY <1>1, <1>3 DEF LedgerInv

(***************************************************************************)
(* The invariant behind reconciliation: in every reachable state held is   *)
(* the sum of the account's active holds, and available is what the sign   *)
(* convention of reconcile.go derives from the entries and those holds.    *)
(***************************************************************************)
THEOREM LedgerInvariant == Spec => []LedgerInv
<1>1. LedgerInv /\ [Next]_vars => LedgerInv'
    <2> SUFFICES ASSUME LedgerInv, [Next]_vars PROVE LedgerInv'
        OBVIOUS
    <2>1. TypeOK /\ TypeOK'
        BY TypeNext DEF LedgerInv
    <2>2. ASSUME NEW u \in User, NEW a \in UserAccount, NEW seed \in WelcomeSeed, OnUserRegistered(u, a, seed) PROVE LedgerInv'
        BY <2>1, <2>2, InvOnUserRegistered
    <2>3. ASSUME NEW h \in HoldId, NEW a \in AccountId, NEW p \in Payment, NEW amt \in Amount,
                 NEW cur \in Currency, Hold(h, a, p, amt, cur)
          PROVE  LedgerInv'
        BY <2>1, <2>3, InvHold
    <2>4. ASSUME NEW h \in HoldId, NEW amt \in Amount, Capture(h, amt) PROVE LedgerInv'
        BY <2>1, <2>4, InvCapture
    <2>5. ASSUME NEW D \in SUBSET HoldId, NEW reason \in Reason, ReleaseAll(D, reason) PROVE LedgerInv'
        BY <2>1, <2>5, InvReleaseAll
    <2>6. ASSUME NEW h \in HoldId, PassExpiry(h) PROVE LedgerInv'
        BY <2>1, <2>6, InvSame DEF PassExpiry
    <2>7. CASE UNCHANGED vars
        BY <2>1, <2>7, InvSame DEF vars
    <2> QED
        BY <2>1, <2>2, <2>3, <2>4, <2>5, <2>6, <2>7, NextCases
<1> QED
    BY <1>1, InvInit, PTL DEF Spec

(***************************************************************************)
(* Reconcile never reports an account that is not a settlement account.    *)
(***************************************************************************)
THEOREM LiabilitiesAlwaysReconcile == Spec => []LiabilitiesReconcile
<1>1. LedgerInv => LiabilitiesReconcile
    BY DEF LedgerInv, TypeOK, HeldIsReserved, LiabilityBalances, LiabilitiesReconcile, Drifted,
           ExpectedAvailable
<1> QED
    BY <1>1, LedgerInvariant, PTL

(***************************************************************************)
(* Reconcile reports nothing at all until a hold names a settlement        *)
(* account.                                                                *)
(***************************************************************************)
THEOREM ReconcileStaysClean == Spec => []ReconcileClean
<1>1. LedgerInv => ReconcileClean
    BY DEF LedgerInv, TypeOK, HeldIsReserved, LiabilityBalances, AssetBalances, ReconcileClean,
           Drifted, ExpectedAvailable
<1> QED
    BY <1>1, LedgerInvariant, PTL

-----------------------------------------------------------------------------
(* What a step may never do. *)

LEMMA SettledHold ==
    ASSUME TypeOK, NEW h \in HoldId, Active(h), NEW s \in HoldStatus,
           holds'[h] = [holds[h] EXCEPT !.status = s]
    PROVE  /\ holds'[h] \in HoldRow /\ holds'[h] # NoRow /\ holds'[h].status = s
           /\ holds'[h].account = holds[h].account /\ holds'[h].payment = holds[h].payment
           /\ holds'[h].amount = holds[h].amount /\ holds'[h].currency = holds[h].currency
           /\ [holds'[h] EXCEPT !.status = holds[h].status] = holds[h]
<1> DEFINE row == holds[h]
           r == holds'[h]
<1>1. row \in HoldRow /\ r = [row EXCEPT !.status = s]
    BY HoldFacts
<1> HIDE DEF row, r
<1>2. /\ r \in HoldRow /\ r # NoRow /\ r.status = s
      /\ r.account = row.account /\ r.payment = row.payment
      /\ r.amount = row.amount /\ r.currency = row.currency
      /\ [r EXCEPT !.status = row.status] = row
    <2>1. /\ r \in HoldRow /\ r.status = s
          /\ r.account = row.account /\ r.payment = row.payment
          /\ r.amount = row.amount /\ r.currency = row.currency
        BY <1>1 DEF HoldRow
    <2>2. [r EXCEPT !.status = row.status] = row
        BY <1>1 DEF HoldRow
    <2> QED
        BY <2>1, <2>2, ConstantsAssumption
<1> QED
    BY <1>2 DEF row, r

LEMMA ReleasedRows ==
    ASSUME TypeOK, NEW D \in SUBSET HoldId, NEW reason \in Reason, ReleaseAll(D, reason), NEW h \in D
    PROVE  /\ Active(h) /\ holds[h] \in HoldRow
           /\ \E s \in HoldStatus \ {"active", "captured"} : holds'[h] = [holds[h] EXCEPT !.status = s]
<1>1. Active(h) /\ holds[h] \in HoldRow
    BY HoldFacts DEF ReleaseAll, LockHold
<1>2. holds'[h] = [holds[h] EXCEPT !.status = IF reason = "expiry" THEN "expired" ELSE "released"]
    BY DEF ReleaseAll
<1>3. (IF reason = "expiry" THEN "expired" ELSE "released") \in HoldStatus \ {"active", "captured"}
    BY DEF HoldStatus
<1> QED
    BY <1>1, <1>2, <1>3

LEMMA HistoryNext ==
    ASSUME TypeOK, [Next]_vars
    PROVE  HistoryKept
<1>0. ASSUME NEW h \in HoldId, holds'[h] = holds[h] PROVE HoldKept(h)
    <2>1. SUFFICES ASSUME holds[h] # NoRow PROVE [holds[h] EXCEPT !.status = holds[h].status] = holds[h]
        BY <1>0 DEF HoldKept
    <2>2. holds[h] \in HoldRow
        BY <2>1 DEF TypeOK
    <2> QED
        BY <2>2 DEF HoldRow
<1>1. ASSUME NEW h \in HoldId, NEW s \in HoldStatus, Active(h), holds'[h] = [holds[h] EXCEPT !.status = s]
      PROVE  HoldKept(h)
    <2>1. holds[h] \in HoldRow /\ holds[h].status = "active"
        BY <1>1, HoldFacts DEF Active
    <2>2. holds'[h] # NoRow /\ [holds'[h] EXCEPT !.status = holds[h].status] = holds[h]
        BY <1>1, SettledHold
    <2> QED
        BY <2>1, <2>2 DEF HoldKept
<1>2. ASSUME NEW u \in User, NEW a \in UserAccount, NEW seed \in WelcomeSeed, OnUserRegistered(u, a, seed)
      PROVE  HistoryKept
    <2>1. UNCHANGED <<holds, outbox>>
        BY <1>2 DEF OnUserRegistered
    <2>2. \A k \in IdemKey : postings[k] # NoRow => postings'[k] = postings[k]
        BY <1>2 DEF OnUserRegistered, Deposit, Post, TypeOK
    <2> QED
        BY <1>0, <2>1, <2>2 DEF HistoryKept
<1>3. ASSUME NEW h \in HoldId, NEW a \in AccountId, NEW p \in Payment, NEW amt \in Amount,
             NEW cur \in Currency, Hold(h, a, p, amt, cur)
      PROVE  HistoryKept
    <2>1. \A g \in HoldId : HoldKept(g)
        <3> SUFFICES ASSUME NEW g \in HoldId PROVE HoldKept(g)
            OBVIOUS
        <3>1. CASE g = h
            BY <1>3, <3>1 DEF Hold, HoldKept
        <3>2. CASE g # h
            BY <1>0, <1>3, <3>2 DEF Hold, TypeOK
        <3> QED
            BY <3>1, <3>2
    <2> QED
        BY <1>3, <2>1 DEF Hold, HistoryKept
<1>4. ASSUME NEW h \in HoldId, NEW amt \in Amount, Capture(h, amt) PROVE HistoryKept
    <2>1. \A g \in HoldId : HoldKept(g)
        <3> SUFFICES ASSUME NEW g \in HoldId PROVE HoldKept(g)
            OBVIOUS
        <3>1. CASE g = h
            <4>1. Active(h) /\ holds'[h] = [holds[h] EXCEPT !.status = "captured"] /\ "captured" \in HoldStatus
                BY <1>4 DEF Capture, LockHold, TypeOK, HoldStatus
            <4> QED
                BY <1>1, <3>1, <4>1
        <3>2. CASE g # h
            BY <1>0, <1>4, <3>2 DEF Capture, TypeOK
        <3> QED
            BY <3>1, <3>2
    <2>2. \A k \in IdemKey : postings[k] # NoRow => postings'[k] = postings[k]
        BY <1>4 DEF Capture, Post, TypeOK
    <2>3. outbox \subseteq outbox'
        BY <1>4 DEF Capture
    <2> QED
        BY <2>1, <2>2, <2>3 DEF HistoryKept
<1>5. ASSUME NEW D \in SUBSET HoldId, NEW reason \in Reason, ReleaseAll(D, reason) PROVE HistoryKept
    <2>1. \A g \in HoldId : HoldKept(g)
        <3> SUFFICES ASSUME NEW g \in HoldId PROVE HoldKept(g)
            OBVIOUS
        <3>1. CASE g \in D
            BY <1>1, <1>5, <3>1, ReleasedRows
        <3>2. CASE g \notin D
            BY <1>0, <1>5, <3>2 DEF ReleaseAll
        <3> QED
            BY <3>1, <3>2
    <2> QED
        BY <1>5, <2>1 DEF ReleaseAll, HistoryKept
<1>6. ASSUME UNCHANGED <<holds, postings, outbox>> PROVE HistoryKept
    BY <1>0, <1>6 DEF HistoryKept
<1>7. ASSUME NEW h \in HoldId, PassExpiry(h) PROVE HistoryKept
    BY <1>6, <1>7 DEF PassExpiry
<1>8. CASE UNCHANGED vars
    BY <1>6, <1>8 DEF vars
<1> QED
    BY <1>2, <1>3, <1>4, <1>5, <1>7, <1>8, NextCases

(***************************************************************************)
(* No operation alters what a hold was placed for, touches a settled hold, *)
(* or changes or removes a posting or an event.                            *)
(***************************************************************************)
THEOREM HistoryStaysFinal == Spec => HistoryIsFinal
<1>1. TypeOK /\ [Next]_vars => [HistoryKept]_vars
    BY HistoryNext
<1> QED
    BY <1>1, TypeCorrect, PTL DEF Spec, HistoryIsFinal

LEMMA BumpTwice ==
    ASSUME NEW column \in [AccountId -> Int], NEW a \in AccountId, NEW b \in AccountId,
           NEW d \in Int, NEW e \in Int, NEW x \in AccountId
    PROVE  Bump(Bump(column, a, d), b, e)[x]
             = column[x] + (IF x = a THEN d ELSE 0) + (IF x = b THEN e ELSE 0)
<1> DEFINE mid == Bump(column, a, d)
<1>1. mid \in [AccountId -> Int] /\ mid[x] = IF x = a THEN column[x] + d ELSE column[x]
    BY DEF Bump
<1> HIDE DEF mid
<1>2. Bump(mid, b, e)[x] = IF x = b THEN mid[x] + e ELSE mid[x]
    BY <1>1 DEF Bump
<1>3. column[x] \in Int
    OBVIOUS
<1> QED
    BY <1>1, <1>2, <1>3 DEF mid

LEMMA ReservedNone ==
    ASSUME NEW D \in SUBSET HoldId, NEW a \in AccountId, \A h \in D : holds[h].account # a
    PROVE  Reserved(D, a) = 0
<1> DEFINE f == [h \in HoldId |-> IF h \in D /\ holds[h].account = a THEN holds[h].amount ELSE 0]
<1>1. (\A h \in HoldId : f[h] = 0) /\ IsFiniteSet(HoldId)
    BY ConstantsAssumption
<1>2. f \in [HoldId -> Int]
    BY <1>1
<1>3. SumFunction(f) = 0
    <2> HIDE DEF f
    <2> QED
        BY <1>1, <1>2, SumZero
<1> QED
    BY <1>3 DEF Reserved

LEMMA VersionNext ==
    ASSUME TypeOK, [Next]_vars
    PROVE  VersionAdvances
<1>0. /\ version \in [AccountId -> Int] /\ (\A b \in AccountId : version[b] \in Int) /\ 1 \in Int
      /\ available \in [AccountId -> Int] /\ held \in [AccountId -> Int]
    BY DEF TypeOK
<1>1. ASSUME NEW u \in User, NEW a \in UserAccount, NEW seed \in WelcomeSeed, OnUserRegistered(u, a, seed)
      PROVE  VersionAdvances
    <2> DEFINE S == Settlement(DefaultCurrency)
    <2>1. a \in AccountId /\ S \in AccountId /\ seed \in Int /\ held' = held
        BY <1>1, AccountFacts, ConstantsAssumption DEF OnUserRegistered
    <2>2. CASE seed > 0
        <3>1. /\ available' = Bump(Bump(available, S, seed), a, seed)
              /\ version' = Bump(Bump(version, S, 1), a, 1)
            BY <1>1, <2>2 DEF OnUserRegistered, Deposit
        <3>2. ASSUME NEW b \in AccountId
              PROVE  /\ version'[b] = version[b] + (IF b = S THEN 1 ELSE 0) + (IF b = a THEN 1 ELSE 0)
                     /\ available'[b] = available[b] + (IF b = S THEN seed ELSE 0) + (IF b = a THEN seed ELSE 0)
                     /\ available[b] \in Int
            <4> HIDE DEF S
            <4> QED
                BY <1>0, <2>1, <3>1, BumpTwice
        <3> HIDE DEF S
        <3> QED
            BY <1>0, <2>1, <3>2 DEF VersionAdvances
    <2>3. CASE ~ (seed > 0)
        BY <1>0, <1>1, <2>3 DEF OnUserRegistered, VersionAdvances
    <2> QED
        BY <2>2, <2>3
<1>2. ASSUME NEW h \in HoldId, NEW a \in AccountId, NEW p \in Payment, NEW amt \in Amount,
             NEW cur \in Currency, Hold(h, a, p, amt, cur)
      PROVE  VersionAdvances
    <2>1. amt \in Int /\ -amt \in Int
        BY ConstantsAssumption
    <2>2. /\ available' = Bump(available, a, -amt) /\ held' = Bump(held, a, amt)
          /\ version' = Bump(version, a, 1)
        BY <1>2 DEF Hold
    <2>3. \A b \in AccountId : /\ version'[b] = IF b = a THEN version[b] + 1 ELSE version[b]
                               /\ b # a => available'[b] = available[b] /\ held'[b] = held[b]
        BY <1>0, <2>1, <2>2 DEF Bump
    <2> QED
        BY <1>0, <2>3 DEF VersionAdvances
<1>3. ASSUME NEW h \in HoldId, NEW amt \in Amount, Capture(h, amt) PROVE VersionAdvances
    <2> DEFINE a == holds[h].account
               payable == Payable(holds[h].currency)
               remainder == Remainder(h, amt)
               total == holds[h].amount
    <2>1. a \in AccountId /\ payable \in AccountId /\ remainder \in Int /\ amt \in Int /\ -total \in Int
        <3>1. Active(h) /\ amt \in Int
            BY <1>3, ConstantsAssumption DEF Capture, LockHold
        <3> QED
            BY <3>1, HoldFacts, AccountFacts DEF Remainder
    <2>2. /\ available' = Bump(Bump(available, a, remainder), payable, amt)
          /\ held' = Bump(held, a, -total)
          /\ version' = Bump(Bump(version, a, 1), payable, 1)
        BY <1>3 DEF Capture
    <2> HIDE DEF a, payable, remainder, total
    <2>3. ASSUME NEW b \in AccountId
          PROVE  /\ version'[b] = version[b] + (IF b = a THEN 1 ELSE 0) + (IF b = payable THEN 1 ELSE 0)
                 /\ available'[b] = available[b] + (IF b = a THEN remainder ELSE 0)
                                                 + (IF b = payable THEN amt ELSE 0)
                 /\ available[b] \in Int
        BY <1>0, <2>1, <2>2, BumpTwice
    <2>4. \A b \in AccountId : b # a => held'[b] = held[b]
        BY <1>0, <2>1, <2>2 DEF Bump
    <2> QED
        BY <1>0, <2>1, <2>3, <2>4 DEF VersionAdvances
<1>4. ASSUME NEW D \in SUBSET HoldId, NEW reason \in Reason, ReleaseAll(D, reason) PROVE VersionAdvances
    <2> SUFFICES ASSUME NEW b \in AccountId
                 PROVE  /\ version'[b] >= version[b]
                        /\ available[b] # available'[b] \/ held[b] # held'[b] => version'[b] > version[b]
        BY DEF VersionAdvances
    <2> DEFINE E == {h \in D : holds[h].account = b}
    <2>1. /\ version'[b] = version[b] + Cardinality(E)
          /\ available'[b] = available[b] + Reserved(D, b) /\ held'[b] = held[b] - Reserved(D, b)
        BY <1>4 DEF ReleaseAll
    <2>2. IsFiniteSet(E) /\ Cardinality(E) \in Nat
        <3>1. IsFiniteSet(HoldId) /\ E \subseteq HoldId
            BY ConstantsAssumption
        <3> QED
            BY <3>1, FS_Subset, FS_CardinalityType
    <2>3. CASE E = {}
        <3>1. Reserved(D, b) = 0
            BY <2>3, ReservedNone
        <3>2. available[b] \in Int /\ held[b] \in Int
            BY <1>0
        <3> HIDE DEF E
        <3> QED
            BY <1>0, <2>1, <2>2, <3>1, <3>2
    <2>4. CASE E # {}
        <3>1. Cardinality(E) # 0
            <4> HIDE DEF E
            <4> QED
                BY <2>2, <2>4, FS_EmptySet
        <3> HIDE DEF E
        <3> QED
            BY <1>0, <2>1, <2>2, <3>1
    <2> QED
        BY <2>3, <2>4
<1>5. ASSUME UNCHANGED <<available, held, version>> PROVE VersionAdvances
    BY <1>0, <1>5 DEF VersionAdvances
<1>6. ASSUME NEW h \in HoldId, PassExpiry(h) PROVE VersionAdvances
    BY <1>5, <1>6 DEF PassExpiry
<1>7. CASE UNCHANGED vars
    BY <1>5, <1>7 DEF vars
<1> QED
    BY <1>1, <1>2, <1>3, <1>4, <1>6, <1>7, NextCases

(***************************************************************************)
(* Whatever changes a balance advances its version, the sweeper's release  *)
(* of several holds of one account included.                               *)
(***************************************************************************)
THEOREM VersionsOrderBalances == Spec => VersionOrders
<1>1. TypeOK /\ [Next]_vars => [VersionAdvances]_vars
    BY VersionNext
<1> QED
    BY <1>1, TypeCorrect, PTL DEF Spec, VersionOrders

-----------------------------------------------------------------------------
(* Captures and their postings. *)

LEMMA KeysDiffer ==
    /\ \A g, h \in HoldId : CaptureKey(g) = CaptureKey(h) => g = h
    /\ \A h \in HoldId, u \in User : CaptureKey(h) # WelcomeKey(u)
BY DEF CaptureKey, WelcomeKey

\* What CapturesMatchPostings says of one hold.
CaptureMatches(h, row, posting) ==
    /\ posting # NoRow <=> row # NoRow /\ row.status = "captured"
    /\ posting # NoRow => /\ posting.debit = row.account
                          /\ posting.credit = Payable(row.currency)
                          /\ posting.amount <= row.amount

LEMMA CapturesNext ==
    ASSUME TypeOK, CapturesMatchPostings, [Next]_vars
    PROVE  CapturesMatchPostings'
<1>0. \A h \in HoldId : CaptureMatches(h, holds[h], postings[CaptureKey(h)])
    BY DEF CapturesMatchPostings, CaptureMatches
<1> SUFFICES \A g \in HoldId : CaptureMatches(g, holds'[g], postings'[CaptureKey(g)])
    BY DEF CapturesMatchPostings, CaptureMatches
<1>1. ASSUME NEW u \in User, NEW a \in UserAccount, NEW seed \in WelcomeSeed, OnUserRegistered(u, a, seed),
             NEW g \in HoldId
      PROVE  CaptureMatches(g, holds'[g], postings'[CaptureKey(g)])
    <2>1. postings'[CaptureKey(g)] = postings[CaptureKey(g)]
        BY <1>1, KeysDiffer, KeyFacts DEF OnUserRegistered, Deposit, Post, TypeOK
    <2> QED
        BY <1>0, <1>1, <2>1 DEF OnUserRegistered
<1>2. ASSUME NEW h \in HoldId, NEW a \in AccountId, NEW p \in Payment, NEW amt \in Amount,
             NEW cur \in Currency, Hold(h, a, p, amt, cur), NEW g \in HoldId
      PROVE  CaptureMatches(g, holds'[g], postings'[CaptureKey(g)])
    <2>1. postings' = postings
        BY <1>2 DEF Hold
    <2>2. CASE g = h
        <3>1. holds[g] = NoRow /\ holds'[g].status = "active"
            BY <1>2, <2>2 DEF Hold, TypeOK
        <3>2. postings[CaptureKey(g)] = NoRow
            BY <1>0, <3>1 DEF CaptureMatches
        <3> QED
            BY <2>1, <3>1, <3>2 DEF CaptureMatches
    <2>3. CASE g # h
        <3>1. holds'[g] = holds[g]
            BY <1>2, <2>3 DEF Hold, TypeOK
        <3> QED
            BY <1>0, <2>1, <3>1
    <2> QED
        BY <2>2, <2>3
<1>3. ASSUME NEW h \in HoldId, NEW amt \in Amount, Capture(h, amt), NEW g \in HoldId
      PROVE  CaptureMatches(g, holds'[g], postings'[CaptureKey(g)])
    <2> DEFINE a == holds[h].account
               payable == Payable(holds[h].currency)
    <2>1. /\ Active(h) /\ amt <= holds[h].amount /\ amt \in Int /\ amt > 0
          /\ Post(CaptureKey(h), a, payable, amt, holds[h].currency)
        BY <1>3, ConstantsAssumption DEF Capture, LockHold
    <2>2. CASE g = h
        <3>1. holds[h] \in HoldRow /\ holds'[h] = [holds[h] EXCEPT !.status = "captured"]
            BY <1>3, <2>1, HoldFacts DEF Capture, TypeOK
        <3>2. /\ holds'[h] # NoRow /\ holds'[h].status = "captured"
              /\ holds'[h].account = a /\ holds'[h].currency = holds[h].currency
              /\ holds'[h].amount = holds[h].amount
            <4>1. "captured" \in HoldStatus
                BY DEF HoldStatus
            <4> QED
                BY <2>1, <3>1, <4>1, SettledHold
        <3>3. /\ postings'[CaptureKey(h)] # NoRow
              /\ postings'[CaptureKey(h)].debit = a /\ postings'[CaptureKey(h)].credit = payable
              /\ postings'[CaptureKey(h)].amount = amt
            <4> DEFINE row == [debit |-> a, credit |-> payable, amount |-> amt, currency |-> holds[h].currency]
            <4>1. postings'[CaptureKey(h)] = row
                BY <2>1, KeyFacts DEF Post, TypeOK
            <4>2. row \in Posting
                BY <2>1, HoldFacts, AccountFacts DEF Posting
            <4> QED
                BY <4>1, <4>2, ConstantsAssumption
        <3> QED
            BY <2>1, <2>2, <3>2, <3>3 DEF CaptureMatches
    <2>3. CASE g # h
        <3>1. holds'[g] = holds[g]
            BY <1>3, <2>3 DEF Capture, TypeOK
        <3>2. postings'[CaptureKey(g)] = postings[CaptureKey(g)]
            BY <2>1, <2>3, KeysDiffer, KeyFacts DEF Post, TypeOK
        <3> QED
            BY <1>0, <3>1, <3>2
    <2> QED
        BY <2>2, <2>3
<1>4. ASSUME NEW D \in SUBSET HoldId, NEW reason \in Reason, ReleaseAll(D, reason), NEW g \in HoldId
      PROVE  CaptureMatches(g, holds'[g], postings'[CaptureKey(g)])
    <2>1. postings' = postings
        BY <1>4 DEF ReleaseAll
    <2>2. CASE g \in D
        <3>1. Active(g) /\ holds[g] \in HoldRow
            BY <1>4, <2>2, ReleasedRows
        <3>2. PICK s \in HoldStatus \ {"active", "captured"} : holds'[g] = [holds[g] EXCEPT !.status = s]
            BY <1>4, <2>2, ReleasedRows
        <3>3. holds'[g].status # "captured"
            BY <3>1, <3>2, SettledHold
        <3>4. postings[CaptureKey(g)] = NoRow
            BY <1>0, <3>1 DEF CaptureMatches, Active
        <3> QED
            BY <2>1, <3>3, <3>4 DEF CaptureMatches
    <2>3. CASE g \notin D
        BY <1>0, <1>4, <2>1, <2>3 DEF ReleaseAll
    <2> QED
        BY <2>2, <2>3
<1>5. ASSUME UNCHANGED <<holds, postings>>, NEW g \in HoldId
      PROVE  CaptureMatches(g, holds'[g], postings'[CaptureKey(g)])
    BY <1>0, <1>5
<1>6. ASSUME NEW h \in HoldId, PassExpiry(h), NEW g \in HoldId
      PROVE  CaptureMatches(g, holds'[g], postings'[CaptureKey(g)])
    BY <1>5, <1>6 DEF PassExpiry
<1>7. ASSUME UNCHANGED vars, NEW g \in HoldId
      PROVE  CaptureMatches(g, holds'[g], postings'[CaptureKey(g)])
    BY <1>5, <1>7 DEF vars
<1> QED
    BY <1>1, <1>2, <1>3, <1>4, <1>6, <1>7, NextCases

(***************************************************************************)
(* A hold is captured at most once, by at most its amount, and to the      *)
(* merchant-payable account of its own currency.                           *)
(***************************************************************************)
THEOREM CapturesAlwaysMatch == Spec => []CapturesMatchPostings
<1>1. Init => CapturesMatchPostings
    BY KeyFacts DEF Init, CapturesMatchPostings
<1>2. TypeOK /\ CapturesMatchPostings /\ [Next]_vars => CapturesMatchPostings'
    BY CapturesNext
<1> QED
    BY <1>1, <1>2, TypeCorrect, PTL DEF Spec

-----------------------------------------------------------------------------
(* What the rows say of each other. *)

LEMMA HoldFieldsKept ==
    ASSUME TypeOK, TypeOK', [Next]_vars, NEW h \in HoldId, holds[h] # NoRow
    PROVE  /\ holds'[h] # NoRow
           /\ holds'[h].account = holds[h].account /\ holds'[h].payment = holds[h].payment
           /\ holds'[h].amount = holds[h].amount /\ holds'[h].currency = holds[h].currency
           /\ holds[h].status # "active" => holds'[h] = holds[h]
<1>1. /\ holds'[h] # NoRow
      /\ [holds'[h] EXCEPT !.status = holds[h].status] = holds[h]
      /\ holds[h].status # "active" => holds'[h] = holds[h]
    BY HistoryNext DEF HistoryKept, HoldKept
<1> DEFINE row == holds[h]
           r == holds'[h]
<1>2. row \in HoldRow /\ r \in HoldRow /\ [r EXCEPT !.status = row.status] = row
    BY <1>1 DEF TypeOK
<1> HIDE DEF row, r
<1>3. /\ r.account = row.account /\ r.payment = row.payment
      /\ r.amount = row.amount /\ r.currency = row.currency
    BY <1>2 DEF HoldRow
<1> QED
    BY <1>1, <1>3 DEF row, r

LEMMA HoldsOnAccountsNext ==
    ASSUME TypeOK, TypeOK', HoldsOnAccounts, [Next]_vars
    PROVE  HoldsOnAccounts'
<1> SUFFICES ASSUME NEW g \in HoldId, holds'[g] # NoRow
             PROVE  holds'[g].account \in accounts' /\ holds'[g].currency = AccountCurrency(holds'[g].account)
    BY DEF HoldsOnAccounts, AccountCurrency
<1>1. accounts \subseteq accounts'
    <2>1. ASSUME NEW u \in User, NEW a \in UserAccount, NEW seed \in WelcomeSeed, OnUserRegistered(u, a, seed)
          PROVE  accounts \subseteq accounts'
        BY <2>1 DEF OnUserRegistered
    <2>2. ASSUME NEW h \in HoldId, NEW a \in AccountId, NEW p \in Payment, NEW amt \in Amount,
                 NEW cur \in Currency, Hold(h, a, p, amt, cur)
          PROVE  accounts \subseteq accounts'
        BY <2>2 DEF Hold
    <2>3. ASSUME NEW h \in HoldId, NEW amt \in Amount, Capture(h, amt) PROVE accounts \subseteq accounts'
        BY <2>3 DEF Capture
    <2>4. ASSUME NEW D \in SUBSET HoldId, NEW reason \in Reason, ReleaseAll(D, reason)
          PROVE  accounts \subseteq accounts'
        BY <2>4 DEF ReleaseAll
    <2>5. ASSUME NEW h \in HoldId, PassExpiry(h) PROVE accounts \subseteq accounts'
        BY <2>5 DEF PassExpiry
    <2>6. CASE UNCHANGED vars
        BY <2>6 DEF vars
    <2> QED
        BY <2>1, <2>2, <2>3, <2>4, <2>5, <2>6, NextCases
<1>2. CASE holds[g] # NoRow
    <2>1. holds'[g].account = holds[g].account /\ holds'[g].currency = holds[g].currency
        BY <1>2, HoldFieldsKept
    <2> QED
        BY <1>1, <1>2, <2>1 DEF HoldsOnAccounts
<1>3. CASE holds[g] = NoRow
    <2>1. ASSUME NEW u \in User, NEW a \in UserAccount, NEW seed \in WelcomeSeed, OnUserRegistered(u, a, seed)
          PROVE  FALSE
        BY <1>3, <2>1 DEF OnUserRegistered
    <2>2. ASSUME NEW h \in HoldId, NEW a \in AccountId, NEW p \in Payment, NEW amt \in Amount,
                 NEW cur \in Currency, Hold(h, a, p, amt, cur)
          PROVE  holds'[g].account \in accounts' /\ holds'[g].currency = AccountCurrency(holds'[g].account)
        <3>1. g = h
            BY <1>3, <2>2 DEF Hold, TypeOK
        <3>2. holds'[g].account = a /\ holds'[g].currency = cur
            BY <2>2, <3>1 DEF Hold, TypeOK
        <3> QED
            BY <1>1, <2>2, <3>2 DEF Hold
    <2>3. ASSUME NEW h \in HoldId, NEW amt \in Amount, Capture(h, amt) PROVE FALSE
        BY <1>3, <2>3 DEF Capture, LockHold, Active, TypeOK
    <2>4. ASSUME NEW D \in SUBSET HoldId, NEW reason \in Reason, ReleaseAll(D, reason) PROVE FALSE
        BY <1>3, <2>4 DEF ReleaseAll, LockHold, Active
    <2>5. ASSUME NEW h \in HoldId, PassExpiry(h) PROVE FALSE
        BY <1>3, <2>5 DEF PassExpiry
    <2>6. ASSUME UNCHANGED vars PROVE FALSE
        BY <1>3, <2>6 DEF vars
    <2> QED
        BY <2>1, <2>2, <2>3, <2>4, <2>5, <2>6, NextCases
<1> QED
    BY <1>2, <1>3

LEMMA UserFundsNext ==
    ASSUME TypeOK, TypeOK', HoldsOnAccounts, UserFundsFit, [Next]_vars
    PROVE  UserFundsFit'
<1>0. /\ available \in [AccountId -> Int] /\ held \in [AccountId -> Int] /\ MaxBigint \in Int
      /\ available' \in [AccountId -> 0 .. MaxBigint]
    BY ConstantsAssumption DEF TypeOK
<1> SUFFICES ASSUME NEW b \in UserAccount
             PROVE  /\ available'[b] + held'[b] <= MaxBigint
                    /\ b \notin accounts' => available'[b] = 0 /\ held'[b] = 0
    BY DEF UserFundsFit
<1>1. /\ b \in AccountId /\ available[b] \in Int /\ held[b] \in Int
      /\ available[b] + held[b] <= MaxBigint
      /\ b \notin accounts => available[b] = 0 /\ held[b] = 0
      /\ \A cur \in Currency : b # Settlement(cur) /\ b # Payable(cur)
    <2>1. \A cur \in Currency : Settlement(cur) \in SystemAccount /\ Payable(cur) \in SystemAccount
        BY DEF SystemAccount
    <2> QED
        BY <1>0, <2>1, AccountFacts, ConstantsAssumption DEF UserFundsFit
<1>2. ASSUME NEW u \in User, NEW a \in UserAccount, NEW seed \in WelcomeSeed, OnUserRegistered(u, a, seed)
      PROVE  /\ available'[b] + held'[b] <= MaxBigint
             /\ b \notin accounts' => available'[b] = 0 /\ held'[b] = 0
    <2> DEFINE S == Settlement(DefaultCurrency)
    <2>1. /\ a \in AccountId /\ S \in AccountId /\ b # S /\ seed \in Int /\ a \notin accounts
          /\ accounts' = accounts \cup {a} /\ held' = held
        BY <1>1, <1>2, AccountFacts, ConstantsAssumption DEF OnUserRegistered
    <2>2. CASE seed > 0
        <3>1. available' = Bump(Bump(available, S, seed), a, seed)
            BY <1>2, <2>2 DEF OnUserRegistered, Deposit
        <3> HIDE DEF S
        <3>2. available'[b] = available[b] + (IF b = S THEN seed ELSE 0) + (IF b = a THEN seed ELSE 0)
            BY <1>0, <1>1, <2>1, <3>1, BumpTwice
        <3>3. available'[b] <= MaxBigint
            BY <1>0, <1>1
        <3> QED
            BY <1>0, <1>1, <2>1, <3>2, <3>3
    <2>3. CASE ~ (seed > 0)
        <3>1. available' = available
            BY <1>2, <2>3 DEF OnUserRegistered
        <3> QED
            BY <1>1, <2>1, <3>1
    <2> QED
        BY <2>2, <2>3
<1>3. ASSUME NEW h \in HoldId, NEW a \in AccountId, NEW p \in Payment, NEW amt \in Amount,
             NEW cur \in Currency, Hold(h, a, p, amt, cur)
      PROVE  /\ available'[b] + held'[b] <= MaxBigint
             /\ b \notin accounts' => available'[b] = 0 /\ held'[b] = 0
    <2>1. /\ amt \in Int /\ -amt \in Int /\ a \in accounts /\ accounts' = accounts
          /\ available' = Bump(available, a, -amt) /\ held' = Bump(held, a, amt)
        BY <1>3, ConstantsAssumption DEF Hold
    <2>2. /\ available'[b] = IF b = a THEN available[b] + (-amt) ELSE available[b]
          /\ held'[b] = IF b = a THEN held[b] + amt ELSE held[b]
        BY <1>0, <1>1, <2>1 DEF Bump
    <2> QED
        BY <1>0, <1>1, <2>1, <2>2
<1>4. ASSUME NEW h \in HoldId, NEW amt \in Amount, Capture(h, amt)
      PROVE  /\ available'[b] + held'[b] <= MaxBigint
             /\ b \notin accounts' => available'[b] = 0 /\ held'[b] = 0
    <2> DEFINE a == holds[h].account
               payable == Payable(holds[h].currency)
               remainder == Remainder(h, amt)
               total == holds[h].amount
    <2>1. /\ a \in AccountId /\ payable \in AccountId /\ b # payable /\ remainder \in Int /\ amt \in Int
          /\ total \in Int /\ -total \in Int /\ amt > 0 /\ remainder = total - amt
          /\ a \in accounts /\ accounts' = accounts
        <3>1. Active(h) /\ amt \in Int /\ amt > 0 /\ accounts' = accounts
            BY <1>4, ConstantsAssumption DEF Capture, LockHold
        <3> QED
            BY <1>1, <3>1, HoldFacts, AccountFacts DEF Remainder, HoldsOnAccounts, Active
    <2>2. /\ available' = Bump(Bump(available, a, remainder), payable, amt)
          /\ held' = Bump(held, a, -total)
        BY <1>4 DEF Capture
    <2> HIDE DEF a, payable, remainder, total
    <2>3. available'[b] = available[b] + (IF b = a THEN remainder ELSE 0) + (IF b = payable THEN amt ELSE 0)
        BY <1>0, <1>1, <2>1, <2>2, BumpTwice
    <2>4. held'[b] = IF b = a THEN held[b] + (-total) ELSE held[b]
        BY <1>0, <1>1, <2>1, <2>2 DEF Bump
    <2> QED
        BY <1>0, <1>1, <2>1, <2>3, <2>4
<1>5. ASSUME NEW D \in SUBSET HoldId, NEW reason \in Reason, ReleaseAll(D, reason)
      PROVE  /\ available'[b] + held'[b] <= MaxBigint
             /\ b \notin accounts' => available'[b] = 0 /\ held'[b] = 0
    <2>1. /\ (\A h \in D : Active(h)) /\ accounts' = accounts
          /\ available'[b] = available[b] + Reserved(D, b) /\ held'[b] = held[b] - Reserved(D, b)
        BY <1>1, <1>5 DEF ReleaseAll, LockHold
    <2>2. Reserved(D, b) \in Int
        BY <1>1, <2>1, ReservedType
    <2>3. b \notin accounts => Reserved(D, b) = 0
        BY <1>1, <2>1, ReservedNone DEF HoldsOnAccounts, Active
    <2> QED
        BY <1>0, <1>1, <2>1, <2>2, <2>3
<1>6. ASSUME UNCHANGED <<available, held, accounts>>
      PROVE  /\ available'[b] + held'[b] <= MaxBigint
             /\ b \notin accounts' => available'[b] = 0 /\ held'[b] = 0
    BY <1>1, <1>6
<1>7. ASSUME NEW h \in HoldId, PassExpiry(h)
      PROVE  UNCHANGED <<available, held, accounts>>
    BY <1>7 DEF PassExpiry
<1>8. ASSUME UNCHANGED vars PROVE UNCHANGED <<available, held, accounts>>
    BY <1>8 DEF vars
<1> QED
    BY <1>2, <1>3, <1>4, <1>5, <1>6, <1>7, <1>8, NextCases

\* What an event says of the row of its hold.
TrailOf(e, row) ==
    /\ row # NoRow /\ e.account = row.account
    /\ e.topic = "captured" => row.status = "captured"
    /\ e.topic = "released" => row.status # "active"

LEMMA EventsTrailNext ==
    ASSUME TypeOK, TypeOK', EventsTrail, [Next]_vars
    PROVE  EventsTrail'
<1>0. /\ IsFiniteSet(outbox)
      /\ \A e \in outbox : e.hold \in HoldId /\ TrailOf(e, holds[e.hold])
    BY DEF EventsTrail, TrailOf, TypeOK, Event
<1>1. ASSUME NEW e \in outbox PROVE TrailOf(e, holds'[e.hold])
    <2>1. holds[e.hold] # NoRow /\ e.hold \in HoldId /\ e.account = holds[e.hold].account
        BY <1>0 DEF TrailOf
    <2>2. CASE holds[e.hold].status # "active"
        BY <1>0, <2>1, <2>2, HoldFieldsKept
    <2>3. CASE holds[e.hold].status = "active"
        <3>1. e.topic # "captured" /\ e.topic # "released"
            BY <1>0, <2>3 DEF TrailOf
        <3>2. holds'[e.hold] # NoRow /\ holds'[e.hold].account = holds[e.hold].account
            BY <2>1, HoldFieldsKept
        <3> QED
            BY <2>1, <3>1, <3>2 DEF TrailOf
    <2> QED
        BY <2>2, <2>3
<1>2. ASSUME NEW N, IsFiniteSet(N), outbox' = outbox \cup N, \A e \in N : TrailOf(e, holds'[e.hold])
      PROVE  EventsTrail'
    <2>1. IsFiniteSet(outbox')
        BY <1>0, <1>2, FS_Union
    <2>2. \A e \in outbox' : TrailOf(e, holds'[e.hold])
        BY <1>1, <1>2
    <2> QED
        BY <2>1, <2>2 DEF EventsTrail, TrailOf
<1>3. ASSUME UNCHANGED outbox PROVE EventsTrail'
    <2>1. IsFiniteSet({}) /\ outbox' = outbox \cup {}
        BY <1>3, FS_EmptySet
    <2> QED
        BY <1>2, <2>1
<1>4. ASSUME NEW u \in User, NEW a \in UserAccount, NEW seed \in WelcomeSeed, OnUserRegistered(u, a, seed)
      PROVE  EventsTrail'
    BY <1>3, <1>4 DEF OnUserRegistered
<1>5. ASSUME NEW h \in HoldId, NEW a \in AccountId, NEW p \in Payment, NEW amt \in Amount,
             NEW cur \in Currency, Hold(h, a, p, amt, cur)
      PROVE  EventsTrail'
    <2> DEFINE e == Funds("held", h, a, amt, "none")
    <2>1. e.hold = h /\ e.account = a /\ e.topic = "held"
        BY DEF Funds
    <2>2. holds'[h] # NoRow /\ holds'[h].account = a
        <3> DEFINE row == [account |-> a, payment |-> p, amount |-> amt, currency |-> cur, status |-> "active"]
        <3>1. holds'[h] = row /\ amt > 0 /\ amt \in Int
            BY <1>5, ConstantsAssumption DEF Hold, TypeOK
        <3>2. row \in HoldRow
            BY <3>1 DEF HoldRow, HoldStatus
        <3> QED
            BY <3>1, <3>2, ConstantsAssumption
    <2>3. outbox' = outbox \cup {e}
        BY <1>5 DEF Hold
    <2> HIDE DEF e
    <2>4. IsFiniteSet({e}) /\ \A x \in {e} : TrailOf(x, holds'[x.hold])
        BY <2>1, <2>2, FS_Singleton DEF TrailOf
    <2> QED
        BY <1>2, <2>3, <2>4
<1>6. ASSUME NEW h \in HoldId, NEW amt \in Amount, Capture(h, amt) PROVE EventsTrail'
    <2> DEFINE a == holds[h].account
               remainder == Remainder(h, amt)
               e == Funds("captured", h, a, amt, "none")
               f == Funds("released", h, a, remainder, "partial_capture_remainder")
               N == IF remainder = 0 THEN {e} ELSE {e, f}
    <2>1. outbox' = outbox \cup N
        <3>1. outbox' = outbox \cup {e}
                \cup {Funds("released", h, a, r, "partial_capture_remainder") : r \in {remainder} \ {0}}
            BY <1>6 DEF Capture
        <3>2. {Funds("released", h, a, r, "partial_capture_remainder") : r \in {remainder} \ {0}}
                = IF remainder = 0 THEN {} ELSE {f}
            <4> HIDE DEF remainder, a
            <4> QED
                OBVIOUS
        <3> HIDE DEF remainder, a, e, f
        <3> QED
            BY <3>1, <3>2
    <2>2. e.hold = h /\ e.account = a /\ e.topic = "captured" /\ f.hold = h /\ f.account = a /\ f.topic = "released"
        BY DEF Funds
    <2>3. holds'[h] # NoRow /\ holds'[h].account = a /\ holds'[h].status = "captured"
        <3>1. Active(h) /\ holds'[h] = [holds[h] EXCEPT !.status = "captured"] /\ "captured" \in HoldStatus
            BY <1>6 DEF Capture, LockHold, TypeOK, HoldStatus
        <3> QED
            BY <3>1, SettledHold
    <2> HIDE DEF a, remainder, e, f
    <2>4. IsFiniteSet(N)
        <3>1. IsFiniteSet({e}) /\ IsFiniteSet({e} \cup {f}) /\ {e} \cup {f} = {e, f}
            BY FS_Singleton, FS_Union
        <3> QED
            BY <3>1
    <2>5. \A x \in N : TrailOf(x, holds'[x.hold])
        BY <2>2, <2>3 DEF TrailOf
    <2> HIDE DEF N
    <2> QED
        BY <1>2, <2>1, <2>4, <2>5
<1>7. ASSUME NEW D \in SUBSET HoldId, NEW reason \in Reason, ReleaseAll(D, reason) PROVE EventsTrail'
    <2> DEFINE ev(h) == Funds("released", h, holds[h].account, holds[h].amount, reason)
               N == {ev(h) : h \in D}
    <2>1. outbox' = outbox \cup N
        BY <1>7 DEF ReleaseAll
    <2>2. IsFiniteSet(N)
        <3>1. IsFiniteSet(HoldId)
            BY ConstantsAssumption
        <3>2. IsFiniteSet(D)
            BY <3>1, FS_Subset
        <3> DEFINE map == [h \in D |-> ev(h)]
        <3>3. map \in Surjection(D, N)
            BY DEF Surjection
        <3> HIDE DEF N, map
        <3> QED
            BY <3>2, <3>3, FS_Surjection
    <2>3. ASSUME NEW h \in D PROVE TrailOf(ev(h), holds'[ev(h).hold])
        <3>1. ev(h).hold = h /\ ev(h).account = holds[h].account /\ ev(h).topic = "released"
            BY DEF Funds
        <3>2. Active(h)
            BY <1>7, ReleasedRows
        <3>3. PICK s \in HoldStatus \ {"active", "captured"} : holds'[h] = [holds[h] EXCEPT !.status = s]
            BY <1>7, ReleasedRows
        <3>4. holds'[h] # NoRow /\ holds'[h].account = holds[h].account /\ holds'[h].status # "active"
            BY <3>2, <3>3, SettledHold
        <3> HIDE DEF ev
        <3> QED
            BY <3>1, <3>4 DEF TrailOf
    <2>4. \A x \in N : TrailOf(x, holds'[x.hold])
        <3> HIDE DEF ev
        <3> QED
            BY <2>3
    <2> HIDE DEF N
    <2> QED
        BY <1>2, <2>1, <2>2, <2>4
<1>8. ASSUME NEW h \in HoldId, PassExpiry(h) PROVE EventsTrail'
    BY <1>3, <1>8 DEF PassExpiry
<1>9. CASE UNCHANGED vars
    BY <1>3, <1>9 DEF vars
<1> QED
    BY <1>4, <1>5, <1>6, <1>7, <1>8, <1>9, NextCases

LEMMA OneHoldNext ==
    ASSUME TypeOK, TypeOK', OneHoldPerPayment, [Next]_vars
    PROVE  OneHoldPerPayment'
<1> SUFFICES ASSUME NEW g \in HoldId, NEW k \in HoldId, Active(g)', Active(k)',
                    holds'[g].payment = holds'[k].payment
             PROVE  g = k
    BY DEF OneHoldPerPayment
<1>1. ASSUME NEW x \in HoldId, Active(x)', holds[x] # NoRow
      PROVE  Active(x) /\ holds'[x].payment = holds[x].payment
    BY <1>1, HoldFieldsKept DEF Active
<1>2. CASE holds[g] # NoRow /\ holds[k] # NoRow
    BY <1>1, <1>2 DEF OneHoldPerPayment
<1>3. ASSUME NEW x \in HoldId, NEW y \in HoldId, Active(x)', Active(y)', holds[x] = NoRow,
             holds'[x].payment = holds'[y].payment
      PROVE  x = y
    <2>1. ASSUME NEW u \in User, NEW a \in UserAccount, NEW seed \in WelcomeSeed, OnUserRegistered(u, a, seed)
          PROVE  FALSE
        BY <1>3, <2>1 DEF OnUserRegistered, Active
    <2>2. ASSUME NEW h \in HoldId, NEW a \in AccountId, NEW p \in Payment, NEW amt \in Amount,
                 NEW cur \in Currency, Hold(h, a, p, amt, cur)
          PROVE  x = y
        <3>1. /\ holds'[h].payment = p /\ PaymentFree(p)
              /\ \A z \in HoldId : z # h => holds'[z] = holds[z]
            BY <2>2 DEF Hold, TypeOK
        <3>2. x = h
            BY <1>3, <3>1 DEF Active
        <3>3. CASE y # h
            <4>1. Active(y) /\ holds[y].payment = p
                BY <1>3, <3>1, <3>2, <3>3 DEF Active
            <4> QED
                BY <3>1, <4>1 DEF PaymentFree
        <3> QED
            BY <3>2, <3>3
    <2>3. ASSUME NEW h \in HoldId, NEW amt \in Amount, Capture(h, amt) PROVE FALSE
        BY <1>3, <2>3 DEF Capture, LockHold, Active, TypeOK
    <2>4. ASSUME NEW D \in SUBSET HoldId, NEW reason \in Reason, ReleaseAll(D, reason) PROVE FALSE
        BY <1>3, <2>4 DEF ReleaseAll, LockHold, Active
    <2>5. ASSUME NEW h \in HoldId, PassExpiry(h) PROVE FALSE
        BY <1>3, <2>5 DEF PassExpiry, Active
    <2>6. ASSUME UNCHANGED vars PROVE FALSE
        BY <1>3, <2>6 DEF vars, Active
    <2> QED
        BY <2>1, <2>2, <2>3, <2>4, <2>5, <2>6, NextCases
<1> QED
    BY <1>2, <1>3

(***************************************************************************)
(* The facts that relate the tables to each other: holds to the accounts   *)
(* and their currency, the balances of users to their limit, the events of *)
(* the outbox to the holds they tell of, and payments to their active hold.*)
(***************************************************************************)
THEOREM RowsAgree == Spec => []RowsInv
<1>1. Init => RowsInv
    <2> SUFFICES ASSUME Init PROVE RowsInv
        OBVIOUS
    <2>1. HoldsOnAccounts
        BY DEF Init, HoldsOnAccounts
    <2>2. UserFundsFit
        BY AccountFacts, ConstantsAssumption DEF Init, UserFundsFit
    <2>3. EventsTrail
        BY FS_EmptySet DEF Init, EventsTrail
    <2>4. OneHoldPerPayment
        BY DEF Init, OneHoldPerPayment, Active
    <2> QED
        BY <2>1, <2>2, <2>3, <2>4 DEF RowsInv
<1>2. TypeOK /\ TypeOK' /\ RowsInv /\ [Next]_vars => RowsInv'
    BY HoldsOnAccountsNext, UserFundsNext, EventsTrailNext, OneHoldNext DEF RowsInv
<1> QED
    BY <1>1, <1>2, TypeCorrect, PTL DEF Spec

(***************************************************************************)
(* Nothing in the schema keeps the hold of a user from being released, so  *)
(* such a hold never makes the sweeper's batch fail.                       *)
(***************************************************************************)
THEOREM UserHoldsAlwaysReleasable == Spec => []UserHoldsReleasable
<1>1. LedgerInv /\ RowsInv => UserHoldsReleasable
    <2> SUFFICES ASSUME LedgerInv, RowsInv, NEW h \in HoldId, Active(h), holds[h].account \in UserAccount
                 PROVE  /\ held[holds[h].account] >= holds[h].amount
                        /\ available[holds[h].account] + holds[h].amount <= MaxBigint
        BY DEF UserHoldsReleasable
    <2> DEFINE a == holds[h].account
               amount == holds[h].amount
               r == [g \in HoldId |-> IF Active(g) /\ holds[g].account = a THEN holds[g].amount ELSE 0]
    <2>1. /\ TypeOK /\ IsFiniteSet(HoldId) /\ a \in AccountId /\ amount \in Int
          /\ available[a] \in Int /\ held[a] \in Int /\ MaxBigint \in Int
          /\ available[a] + held[a] <= MaxBigint
        BY HoldFacts, ConstantsAssumption DEF LedgerInv, TypeOK, RowsInv, UserFundsFit
    <2>2. r \in [HoldId -> Int] /\ r[h] = amount /\ \A g \in HoldId : r[g] >= 0
        BY <2>1, HoldFacts
    <2>3. held[a] = SumFunction(r)
        BY <2>1 DEF LedgerInv, HeldIsReserved, ActiveHeld
    <2> HIDE DEF a, amount, r
    <2>4. amount <= SumFunction(r)
        BY <2>1, <2>2, SumBounds
    <2>5. held[a] >= amount /\ available[a] + amount <= MaxBigint
        BY <2>1, <2>3, <2>4
    <2> QED
        BY <2>5 DEF a, amount
<1> QED
    BY <1>1, LedgerInvariant, RowsAgree, PTL

-----------------------------------------------------------------------------
(* What a subscriber to the funds events adds up. *)

\* What one event tells of the account, and what the events of E tell of it.
Weight(e, topics, a) == IF e.topic \in topics /\ e.account = a THEN e.amount ELSE 0

ToldBy(E, topics, a) == SumFunction([e \in E |-> Weight(e, topics, a)])

LEMMA ToldType ==
    ASSUME NEW E \in SUBSET Event, IsFiniteSet(E), NEW topics, NEW a
    PROVE  /\ ToldBy(E, topics, a) \in Int
           /\ \A e \in E : Weight(e, topics, a) \in Int
<1> DEFINE f == [x \in E |-> Weight(x, topics, a)]
<1>0. \A e \in E : Weight(e, topics, a) \in Int
    BY DEF Weight, Event
<1>1. f \in [E -> Int]
    BY <1>0
<1>2. ToldBy(E, topics, a) = SumFunction(f)
    BY DEF ToldBy
<1>3. SumFunction(f) \in Int
    <2> HIDE DEF f
    <2> QED
        BY <1>1, SumType
<1> QED
    BY <1>0, <1>2, <1>3

LEMMA ToldAdd ==
    ASSUME NEW E \in SUBSET Event, IsFiniteSet(E), NEW e \in Event, e \notin E,
           NEW F, F = E \cup {e}, NEW topics, NEW a
    PROVE  ToldBy(F, topics, a) = ToldBy(E, topics, a) + Weight(e, topics, a)
<1> DEFINE f == [x \in E |-> Weight(x, topics, a)]
           g == [x \in F |-> Weight(x, topics, a)]
<1>1. ToldBy(E, topics, a) = SumFunction(f) /\ ToldBy(F, topics, a) = SumFunction(g)
    BY DEF ToldBy
<1>2. F \in SUBSET Event /\ IsFiniteSet(F)
    BY FS_AddElement
<1>3. f \in [E -> Int] /\ g \in [F -> Int]
    BY <1>2, ToldType
<1>4. g[e] = Weight(e, topics, a) /\ \A x \in E : g[x] = f[x]
    OBVIOUS
<1>5. SumFunction(g) = SumFunction(f) + g[e]
    <2> HIDE DEF f, g
    <2> QED
        BY <1>3, <1>4, SumExtend
<1> HIDE DEF f, g
<1> QED
    BY <1>1, <1>4, <1>5

LEMMA ReservedAdd ==
    ASSUME TypeOK, NEW D \in SUBSET HoldId, \A h \in D : Active(h), NEW c \in D, NEW a \in AccountId
    PROVE  Reserved(D, a) = Reserved(D \ {c}, a) + (IF holds[c].account = a THEN holds[c].amount ELSE 0)
<1> DEFINE f == [h \in HoldId |-> IF h \in D \ {c} /\ holds[h].account = a THEN holds[h].amount ELSE 0]
           g == [h \in HoldId |-> IF h \in D /\ holds[h].account = a THEN holds[h].amount ELSE 0]
<1>1. f \in [HoldId -> Int] /\ g \in [HoldId -> Int] /\ IsFiniteSet(HoldId) /\ holds[c].amount \in Int
    BY HoldFacts, ConstantsAssumption
<1>2. /\ f[c] = 0 /\ g[c] = (IF holds[c].account = a THEN holds[c].amount ELSE 0)
      /\ \A h \in HoldId : h # c => g[h] = f[h]
    OBVIOUS
<1>3. SumFunction(g) = SumFunction(f) + (g[c] - f[c]) /\ SumFunction(f) \in Int
    <2> HIDE DEF f, g
    <2> QED
        BY <1>1, <1>2, SumUpdate, SumType
<1>4. Reserved(D, a) = SumFunction(g) /\ Reserved(D \ {c}, a) = SumFunction(f)
    BY DEF Reserved
<1> HIDE DEF f, g
<1> QED
    BY <1>1, <1>2, <1>3, <1>4

\* The events ReleaseAll writes.
Releases(D, reason) == {Funds("released", h, holds[h].account, holds[h].amount, reason) : h \in D}

LEMMA ToldReleases ==
    ASSUME TypeOK, EventsTrail, NEW D \in SUBSET HoldId, \A h \in D : Active(h),
           NEW reason \in Reason, NEW topics, NEW a \in AccountId,
           NEW F, F = outbox \cup Releases(D, reason)
    PROVE  ToldBy(F, topics, a) = ToldBy(outbox, topics, a) + (IF "released" \in topics THEN Reserved(D, a) ELSE 0)
<1> DEFINE ev(h) == Funds("released", h, holds[h].account, holds[h].amount, reason)
           W(T) == outbox \cup {ev(h) : h \in T}
           Gain(T) == IF "released" \in topics THEN Reserved(T, a) ELSE 0
           B == {T \in SUBSET D : IsFiniteSet(W(T)) /\ W(T) \subseteq Event
                    /\ ToldBy(W(T), topics, a) = ToldBy(outbox, topics, a) + Gain(T)
                    /\ ToldBy(W(T), topics, a) \in Int}
<1>1. IsFiniteSet(outbox) /\ outbox \subseteq Event /\ IsFiniteSet(D)
    <2>1. IsFiniteSet(HoldId)
        BY ConstantsAssumption
    <2> QED
        BY <2>1, FS_Subset DEF EventsTrail, TypeOK
<1>2. ASSUME NEW h \in D
      PROVE  ev(h) \in Event /\ ev(h) \notin outbox /\ ev(h).hold = h /\ ev(h).topic = "released"
             /\ ev(h).account = holds[h].account /\ ev(h).amount = holds[h].amount
    <2>1. ev(h) \in Event
        BY HoldFacts, FundsType, TopicFacts
    <2>2. ev(h).hold = h /\ ev(h).topic = "released"
          /\ ev(h).account = holds[h].account /\ ev(h).amount = holds[h].amount
        BY DEF Funds
    <2>3. Active(h)
        OBVIOUS
    <2> HIDE DEF ev
    <2> QED
        BY <2>1, <2>2, <2>3 DEF EventsTrail, Active
<1> HIDE DEF ev
<1>3. {} \in B
    <2>1. W({}) = outbox
        OBVIOUS
    <2>2. Reserved({}, a) = 0
        BY ReservedNone
    <2>3. ToldBy(outbox, topics, a) \in Int
        BY <1>1, ToldType
    <2> HIDE DEF W
    <2> QED
        BY <1>1, <2>1, <2>2, <2>3
<1>4. ASSUME NEW T \in SUBSET D, T # {}, T \ {Pick(T)} \in B PROVE T \in B
    <2> DEFINE c == Pick(T)
               U == T \ {c}
               gain == IF holds[c].account = a THEN holds[c].amount ELSE 0
    <2>1. c \in T /\ c \in D /\ c \in HoldId
        BY <1>4 DEF Pick
    <2>2. /\ U \in SUBSET D /\ IsFiniteSet(W(U)) /\ W(U) \subseteq Event
          /\ ToldBy(W(U), topics, a) = ToldBy(outbox, topics, a) + Gain(U)
        BY <1>4
    <2> HIDE DEF c
    <2>3. ev(c) \notin W(U)
        BY <1>2, <2>1
    <2>4. W(T) = W(U) \cup {ev(c)}
        BY <2>1
    <2>5. /\ IsFiniteSet(W(T)) /\ W(T) \subseteq Event
          /\ ToldBy(W(T), topics, a) = ToldBy(W(U), topics, a) + (IF "released" \in topics THEN gain ELSE 0)
          /\ ToldBy(W(U), topics, a) \in Int
        <3> DEFINE E == W(U)
                   H == W(T)
                   e == ev(c)
        <3>1. /\ E \in SUBSET Event /\ IsFiniteSet(E) /\ e \in Event /\ e \notin E /\ H = E \cup {e}
              /\ e.topic = "released" /\ e.account = holds[c].account /\ e.amount = holds[c].amount
            BY <1>2, <2>1, <2>2, <2>3, <2>4
        <3> HIDE DEF E, H, e
        <3>2. IsFiniteSet(H) /\ H \subseteq Event
            BY <3>1, FS_AddElement
        <3> DEFINE d == IF "released" \in topics THEN gain ELSE 0
        <3>3. Weight(e, topics, a) = d
            BY <3>1 DEF Weight
        <3> HIDE DEF gain, d
        <3>4. ToldBy(E, topics, a) \in Int /\ ToldBy(H, topics, a) = ToldBy(E, topics, a) + d
            <4>1. E \in SUBSET Event /\ IsFiniteSet(E) /\ e \in Event /\ e \notin E /\ H = E \cup {e}
                BY <3>1
            <4> QED
                BY <3>3, <4>1, ToldAdd, ToldType
        <3> QED
            BY <3>2, <3>4 DEF E, H, d
    <2>7. Reserved(T, a) = Reserved(U, a) + gain /\ gain \in Int /\ Reserved(U, a) \in Int
        <3>1. T \in SUBSET HoldId /\ U \in SUBSET HoldId /\ (\A h \in T : Active(h)) /\ (\A h \in U : Active(h))
            BY <1>4
        <3>2. Reserved(U, a) \in Int
            BY <3>1, ReservedType
        <3>3. Reserved(T, a) = Reserved(T \ {c}, a) + gain
            BY <2>1, <3>1, ReservedAdd
        <3>4. gain \in Int
            BY <2>1, HoldFacts
        <3> QED
            BY <3>2, <3>3, <3>4
    <2>8. ToldBy(outbox, topics, a) \in Int
        BY <1>3
    <2>9. ToldBy(W(T), topics, a) = ToldBy(outbox, topics, a) + Gain(T) /\ ToldBy(W(T), topics, a) \in Int
        <3> HIDE DEF W, U, gain
        <3> QED
            BY <2>2, <2>5, <2>7, <2>8
    <2> QED
        BY <2>5, <2>9
<1>5. B = SUBSET D
    <2>1. B \in SUBSET (SUBSET D)
        OBVIOUS
    <2> HIDE DEF B
    <2> QED
        BY <1>1, <1>3, <1>4, <2>1, SubsetInduction
<1>6. D \in B
    BY <1>5
<1> QED
    BY <1>6 DEF ev, Releases

LEMMA EventsHeldNext ==
    ASSUME TypeOK, TypeOK', EventsTrail, EventsRebuildHeld, [Next]_vars
    PROVE  EventsRebuildHeld'
<1> DEFINE In == {"held"}
           Out == {"captured", "released"}
<1>0. /\ outbox \in SUBSET Event /\ IsFiniteSet(outbox) /\ held \in [AccountId -> Int]
    BY DEF TypeOK, EventsTrail
<1> SUFFICES ASSUME NEW b \in AccountId
             PROVE  held'[b] = ToldBy(outbox', In, b) - ToldBy(outbox', Out, b)
    BY DEF EventsRebuildHeld, Told, ToldBy, Weight
<1>1. /\ held[b] = ToldBy(outbox, In, b) - ToldBy(outbox, Out, b)
      /\ held[b] \in Int /\ ToldBy(outbox, In, b) \in Int /\ ToldBy(outbox, Out, b) \in Int
    <2>1. held[b] = ToldBy(outbox, In, b) - ToldBy(outbox, Out, b)
        BY DEF EventsRebuildHeld, Told, ToldBy, Weight
    <2> QED
        BY <1>0, <2>1, ToldType
<1>2. ASSUME UNCHANGED <<held, outbox>>
      PROVE  held'[b] = ToldBy(outbox', In, b) - ToldBy(outbox', Out, b)
    BY <1>1, <1>2
<1>3. ASSUME NEW u \in User, NEW a \in UserAccount, NEW seed \in WelcomeSeed, OnUserRegistered(u, a, seed)
      PROVE  UNCHANGED <<held, outbox>>
    BY <1>3 DEF OnUserRegistered
<1>4. ASSUME NEW h \in HoldId, NEW a \in AccountId, NEW p \in Payment, NEW amt \in Amount,
             NEW cur \in Currency, Hold(h, a, p, amt, cur)
      PROVE  held'[b] = ToldBy(outbox', In, b) - ToldBy(outbox', Out, b)
    <2> DEFINE e == Funds("held", h, a, amt, "none")
               d == IF b = a THEN amt ELSE 0
    <2>1. amt \in Int /\ amt > 0 /\ holds[h] = NoRow /\ held' = Bump(held, a, amt) /\ outbox' = outbox \cup {e}
        BY <1>4, ConstantsAssumption DEF Hold
    <2>2. /\ e \in Event /\ e.hold = h
          /\ Weight(e, In, b) = d /\ Weight(e, Out, b) = 0
        <3>1. e \in Event
            BY <2>1, FundsType, TopicFacts
        <3> QED
            BY <3>1 DEF Funds, Weight
    <2>3. held'[b] = held[b] + d
        BY <1>0, <1>1, <2>1 DEF Bump
    <2> HIDE DEF e, d, In, Out
    <2>4. e \notin outbox
        BY <2>1, <2>2 DEF EventsTrail
    <2>5. /\ ToldBy(outbox', In, b) = ToldBy(outbox, In, b) + d
          /\ ToldBy(outbox', Out, b) = ToldBy(outbox, Out, b) + 0
        BY <1>0, <2>1, <2>2, <2>4, ToldAdd
    <2>6. d \in Int
        BY <2>1 DEF d
    <2> QED
        BY <1>1, <2>3, <2>5, <2>6
<1>5. ASSUME NEW h \in HoldId, NEW amt \in Amount, Capture(h, amt)
      PROVE  held'[b] = ToldBy(outbox', In, b) - ToldBy(outbox', Out, b)
    <2> DEFINE a == holds[h].account
               total == holds[h].amount
               remainder == Remainder(h, amt)
               e == Funds("captured", h, a, amt, "none")
               f == Funds("released", h, a, remainder, "partial_capture_remainder")
               F == outbox \cup {e}
               G == outbox \cup {e} \cup {f}
    <2>1. /\ Active(h) /\ a \in AccountId /\ amt \in Nat /\ amt > 0 /\ total \in Int /\ -total \in Int
          /\ remainder \in Nat /\ remainder = total - amt
        <3>1. Active(h) /\ amt \in Int /\ amt > 0 /\ amt <= total
            BY <1>5, ConstantsAssumption DEF Capture, LockHold
        <3> QED
            BY <3>1, HoldFacts DEF Remainder
    <2>2. /\ held' = Bump(held, a, -total)
          /\ outbox' = IF remainder = 0 THEN F ELSE G
        <3>1. outbox' = outbox \cup {e}
                \cup {Funds("released", h, a, r, "partial_capture_remainder") : r \in {remainder} \ {0}}
            BY <1>5 DEF Capture
        <3>2. {Funds("released", h, a, r, "partial_capture_remainder") : r \in {remainder} \ {0}}
                = IF remainder = 0 THEN {} ELSE {f}
            <4> HIDE DEF remainder, a
            <4> QED
                OBVIOUS
        <3>3. held' = Bump(held, a, -total)
            BY <1>5 DEF Capture
        <3> HIDE DEF remainder, a, e, f, total
        <3> QED
            BY <3>1, <3>2, <3>3
    <2>3. held'[b] = held[b] - (IF b = a THEN total ELSE 0)
        <3> HIDE DEF a, total
        <3>1. held'[b] = IF b = a THEN held[b] + (-total) ELSE held[b]
            BY <1>0, <1>1, <2>1, <2>2 DEF Bump
        <3> QED
            BY <1>1, <2>1, <3>1
    <2>4. /\ e \in Event /\ e.hold = h /\ e.topic = "captured"
          /\ Weight(e, In, b) = 0 /\ Weight(e, Out, b) = IF b = a THEN amt ELSE 0
        <3>1. e \in Event
            BY <2>1, FundsType, TopicFacts
        <3> QED
            BY <3>1 DEF Funds, Weight
    <2>5. /\ remainder # 0 => f \in Event
          /\ f.hold = h /\ f.topic = "released"
          /\ Weight(f, In, b) = 0 /\ Weight(f, Out, b) = IF b = a THEN remainder ELSE 0
        <3>1. remainder # 0 => f \in Event
            <4>1. remainder # 0 => remainder > 0
                BY <2>1
            <4> QED
                BY <2>1, <4>1, FundsType, TopicFacts
        <3> QED
            BY <3>1 DEF Funds, Weight
    <2> HIDE DEF a, total, remainder, e, f, In, Out
    <2>6. e \notin outbox /\ f \notin outbox /\ e # f
        BY <2>1, <2>4, <2>5 DEF EventsTrail, Active
    <2>7. /\ ToldBy(F, In, b) = ToldBy(outbox, In, b) + 0
          /\ ToldBy(F, Out, b) = ToldBy(outbox, Out, b) + (IF b = a THEN amt ELSE 0)
        BY <1>0, <2>4, <2>6, ToldAdd
    <2>8. F \in SUBSET Event /\ IsFiniteSet(F) /\ f \notin F /\ G = F \cup {f}
        BY <1>0, <2>4, <2>6, FS_AddElement
    <2> HIDE DEF F, G
    <2>9. ASSUME remainder # 0
          PROVE  /\ ToldBy(G, In, b) = ToldBy(F, In, b) + 0
                 /\ ToldBy(G, Out, b) = ToldBy(F, Out, b) + (IF b = a THEN remainder ELSE 0)
        BY <2>5, <2>8, <2>9, ToldAdd
    <2>10. ASSUME remainder = 0
           PROVE  held'[b] = ToldBy(outbox', In, b) - ToldBy(outbox', Out, b)
        BY <1>1, <2>1, <2>2, <2>3, <2>7, <2>10
    <2>11. ASSUME remainder # 0
           PROVE  held'[b] = ToldBy(outbox', In, b) - ToldBy(outbox', Out, b)
        BY <1>1, <2>1, <2>2, <2>3, <2>7, <2>9, <2>11
    <2> QED
        BY <2>10, <2>11
<1>6. ASSUME NEW D \in SUBSET HoldId, NEW reason \in Reason, ReleaseAll(D, reason)
      PROVE  held'[b] = ToldBy(outbox', In, b) - ToldBy(outbox', Out, b)
    <2>1. /\ \A h \in D : Active(h)
          /\ held'[b] = held[b] - Reserved(D, b)
          /\ outbox' = outbox \cup {Funds("released", h, holds[h].account, holds[h].amount, reason) : h \in D}
        BY <1>6 DEF ReleaseAll, LockHold
    <2>2. Reserved(D, b) \in Int
        BY <2>1, ReservedType
    <2>3. /\ ToldBy(outbox', In, b) = ToldBy(outbox, In, b) + (IF "released" \in In THEN Reserved(D, b) ELSE 0)
          /\ ToldBy(outbox', Out, b) = ToldBy(outbox, Out, b) + (IF "released" \in Out THEN Reserved(D, b) ELSE 0)
        <3> DEFINE F == outbox'
        <3>1. /\ \A h \in D : Active(h)
              /\ F = outbox \cup Releases(D, reason)
            BY <2>1 DEF Releases
        <3> HIDE DEF In, Out, F
        <3>2. ToldBy(F, In, b) = ToldBy(outbox, In, b) + (IF "released" \in In THEN Reserved(D, b) ELSE 0)
            BY <3>1, ToldReleases
        <3>3. ToldBy(F, Out, b) = ToldBy(outbox, Out, b) + (IF "released" \in Out THEN Reserved(D, b) ELSE 0)
            BY <3>1, ToldReleases
        <3> QED
            BY <3>2, <3>3 DEF F
    <2>4. "released" \notin In /\ "released" \in Out
        OBVIOUS
    <2> HIDE DEF In, Out
    <2> QED
        BY <1>1, <2>1, <2>2, <2>3, <2>4
<1>7. ASSUME NEW h \in HoldId, PassExpiry(h) PROVE UNCHANGED <<held, outbox>>
    BY <1>7 DEF PassExpiry
<1>8. ASSUME UNCHANGED vars PROVE UNCHANGED <<held, outbox>>
    BY <1>8 DEF vars
<1> QED
    BY <1>2, <1>3, <1>4, <1>5, <1>6, <1>7, <1>8, NextCases

(***************************************************************************)
(* The funds events of the outbox add up to what is held on each account.  *)
(***************************************************************************)
THEOREM EventsAlwaysRebuildHeld == Spec => []EventsRebuildHeld
<1>1. Init => EventsRebuildHeld
    <2> SUFFICES ASSUME Init, NEW a \in AccountId
                 PROVE  held[a] = ToldBy(outbox, {"held"}, a) - ToldBy(outbox, {"captured", "released"}, a)
        BY DEF EventsRebuildHeld, Told, ToldBy, Weight
    <2>1. outbox = {} /\ held[a] = 0
        BY DEF Init
    <2>2. ASSUME NEW topics PROVE ToldBy({}, topics, a) = 0
        <3> DEFINE f == [e \in {} |-> Weight(e, topics, a)]
        <3>1. f \in [{} -> Int] /\ IsFiniteSet({}) /\ \A x \in {} : f[x] = 0
            BY FS_EmptySet
        <3> HIDE DEF f
        <3>2. SumFunction(f) = 0
            BY <3>1, SumZero
        <3> QED
            BY <3>2 DEF ToldBy, f
    <2> QED
        BY <2>1, <2>2
<1>2. TypeOK /\ TypeOK' /\ RowsInv /\ EventsRebuildHeld /\ [Next]_vars => EventsRebuildHeld'
    BY EventsHeldNext DEF RowsInv
<1> QED
    BY <1>1, <1>2, TypeCorrect, RowsAgree, PTL DEF Spec

-----------------------------------------------------------------------------
(* Money is conserved, currency by currency. *)

\* The accounts MoneyConserved adds up for a currency, and what each holds.
Owners(cur) == {b \in AccountId : ~ IsAsset(b) /\ AccountCurrency(b) = cur}

Wealth(cur) == [a \in Owners(cur) |-> available[a] + held[a]]

LEMMA CurrencyFacts ==
    /\ \A cur \in Currency : Payable(cur) \in Owners(cur)
    /\ \A a \in UserAccount : a \in Owners(DefaultCurrency)
    /\ \A c, d \in Currency : Settlement(c) = Settlement(d) => c = d
    /\ \A cur \in Currency : IsFiniteSet(Owners(cur))
<1>1. ASSUME NEW cur \in Currency PROVE AccountCurrency(Payable(cur)) = cur
    <2>1. Payable(cur) \notin UserAccount
        BY ConstantsAssumption DEF SystemAccount
    <2>2. \A c \in Currency : Payable(cur) = Settlement(c) \/ Payable(cur) = Payable(c) <=> c = cur
        BY DEF Payable, Settlement
    <2> QED
        BY <2>1, <2>2 DEF AccountCurrency
<1>2. IsFiniteSet(AccountId)
    <2> DEFINE P == {Payable(cur) : cur \in Currency}
               Q == {Settlement(cur) : cur \in Currency}
               f == [cur \in Currency |-> Payable(cur)]
               g == [cur \in Currency |-> Settlement(cur)]
    <2>1. f \in Surjection(Currency, P) /\ g \in Surjection(Currency, Q)
        BY DEF Surjection
    <2>2. IsFiniteSet(Currency) /\ IsFiniteSet(UserAccount)
        BY ConstantsAssumption
    <2>3. AccountId = UserAccount \cup (Q \cup P)
        BY DEF AccountId, SystemAccount
    <2> HIDE DEF P, Q, f, g
    <2>4. IsFiniteSet(P) /\ IsFiniteSet(Q)
        BY <2>1, <2>2, FS_Surjection
    <2>5. IsFiniteSet(Q \cup P)
        BY <2>4, FS_Union
    <2> QED
        BY <2>2, <2>3, <2>5, FS_Union
<1>3. \A cur \in Currency : Owners(cur) \subseteq AccountId
    BY DEF Owners
<1>4. \A a \in UserAccount : AccountCurrency(a) = DefaultCurrency
    BY DEF AccountCurrency
<1>5. \A c, d \in Currency : Settlement(c) = Settlement(d) => c = d
    BY DEF Settlement
<1> QED
    BY <1>1, <1>2, <1>3, <1>4, <1>5, AccountFacts, FS_Subset DEF Owners

LEMMA MoneyNext ==
    ASSUME TypeOK, TypeOK', HoldsOnAccounts, MoneyConserved, [Next]_vars
    PROVE  MoneyConserved'
<1> SUFFICES ASSUME NoAssetHold', NEW cur \in Currency
             PROVE  available'[Settlement(cur)] = SumFunction(Wealth(cur)')
    BY DEF MoneyConserved, Wealth, Owners, IsAsset, AccountCurrency
<1> DEFINE f == Wealth(cur)
           g == Wealth(cur)'
           O == Owners(cur)
           S == Settlement(cur)
           Goal == available'[S] = SumFunction(g)
<1>1. /\ available \in [AccountId -> Int] /\ held \in [AccountId -> Int]
      /\ available' \in [AccountId -> Int] /\ held' \in [AccountId -> Int]
    BY DEF TypeOK
<1>2. /\ O \subseteq AccountId /\ IsFiniteSet(O) /\ S \in AccountId /\ IsAsset(S)
      /\ \A x \in O : ~ IsAsset(x) /\ x # S /\ AccountCurrency(x) = cur
    BY AccountFacts, CurrencyFacts DEF Owners
<1>3. /\ f \in [O -> Int] /\ g \in [O -> Int]
      /\ \A x \in O : f[x] = available[x] + held[x] /\ g[x] = available'[x] + held'[x]
    BY <1>1, <1>2 DEF Wealth, Owners
<1>4. NoAssetHold /\ available[S] = SumFunction(f) /\ available[S] \in Int
    <2>1. NoAssetHold
        BY HoldFieldsKept DEF NoAssetHold, IsAsset
    <2> QED
        BY <1>1, <1>2, <2>1 DEF MoneyConserved, Wealth, Owners
<1>5. ASSUME available'[S] = available[S], \A x \in O : g[x] = f[x] PROVE Goal
    <2>1. f = g
        BY <1>3, <1>5
    <2> QED
        BY <1>4, <1>5, <2>1
<1>6. ASSUME NEW u \in User, NEW a \in UserAccount, NEW seed \in WelcomeSeed, OnUserRegistered(u, a, seed)
      PROVE  Goal
    <2> DEFINE T == Settlement(DefaultCurrency)
    <2>1. /\ a \in AccountId /\ T \in AccountId /\ seed \in Int /\ held' = held /\ ~ IsAsset(a) /\ IsAsset(T)
          /\ a \in Owners(DefaultCurrency) /\ a # S
        BY <1>2, <1>6, AccountFacts, CurrencyFacts, ConstantsAssumption DEF OnUserRegistered
    <2>2. CASE seed > 0
        <3>1. available' = Bump(Bump(available, T, seed), a, seed)
            BY <1>6, <2>2 DEF OnUserRegistered, Deposit
        <3>2. ASSUME NEW x \in AccountId
              PROVE  available'[x] = available[x] + (IF x = T THEN seed ELSE 0) + (IF x = a THEN seed ELSE 0)
            <4> HIDE DEF T
            <4> QED
                BY <1>1, <2>1, <3>1, BumpTwice
        <3>3. CASE cur = DefaultCurrency
            <4>1. a \in O /\ S = T
                BY <2>1, <3>3
            <4>2. available'[S] = available[S] + seed
                <5> HIDE DEF S, T
                <5> QED
                    BY <1>2, <1>4, <2>1, <3>2, <4>1
            <4>3. \A x \in O : x # T /\ x \in AccountId /\ available[x] \in Int /\ held[x] \in Int
                BY <1>1, <1>2, <2>1
            <4>4. g[a] = f[a] + seed /\ \A x \in O : x # a => g[x] = f[x]
                <5> HIDE DEF f, g, O, S, T
                <5> QED
                    BY <1>3, <2>1, <3>2, <4>1, <4>3
            <4> HIDE DEF f, g, O, S, T
            <4>5. SumFunction(g) = SumFunction(f) + (g[a] - f[a])
                BY <1>2, <1>3, <4>1, <4>4, SumUpdate
            <4>6. f[a] \in Int
                BY <1>3, <4>1
            <4> QED
                BY <1>4, <2>1, <4>2, <4>4, <4>5, <4>6 DEF Goal
        <3>4. CASE cur # DefaultCurrency
            <4>1. S # T /\ a \notin O
                BY <2>1, <3>4, CurrencyFacts, ConstantsAssumption DEF Owners
            <4>2. \A x \in O : x # T /\ x # a /\ x \in AccountId /\ available[x] \in Int
                BY <1>1, <1>2, <2>1, <4>1
            <4>3. available'[S] = available[S]
                <5> HIDE DEF S, T
                <5> QED
                    BY <1>2, <1>4, <2>1, <3>2, <4>1
            <4>4. \A x \in O : g[x] = f[x]
                <5> HIDE DEF f, g, O, S, T
                <5> QED
                    BY <1>3, <2>1, <3>2, <4>2
            <4> QED
                BY <1>5, <4>3, <4>4
        <3> QED
            BY <3>3, <3>4
    <2>3. CASE ~ (seed > 0)
        <3>1. available' = available
            BY <1>6, <2>3 DEF OnUserRegistered
        <3> HIDE DEF f, g, O, S
        <3> QED
            BY <1>3, <1>5, <2>1, <3>1
    <2> QED
        BY <2>2, <2>3
<1>7. ASSUME NEW h \in HoldId, NEW a \in AccountId, NEW p \in Payment, NEW amt \in Amount,
             NEW c \in Currency, Hold(h, a, p, amt, c)
      PROVE  Goal
    <2>1. /\ amt \in Int /\ -amt \in Int
          /\ available' = Bump(available, a, -amt) /\ held' = Bump(held, a, amt)
        BY <1>7, ConstantsAssumption DEF Hold
    <2>2. a # S
        <3> DEFINE row == [account |-> a, payment |-> p, amount |-> amt, currency |-> c, status |-> "active"]
        <3>1. holds'[h] = row /\ amt > 0
            BY <1>7 DEF Hold, TypeOK
        <3>2. row \in HoldRow
            BY <2>1, <3>1 DEF HoldRow, HoldStatus
        <3>3. holds'[h] # NoRow /\ holds'[h].account = a
            BY <3>1, <3>2, ConstantsAssumption
        <3> QED
            BY <1>2, <3>3 DEF NoAssetHold, IsAsset
    <2>3. \A x \in AccountId : /\ available'[x] = IF x = a THEN available[x] + (-amt) ELSE available[x]
                               /\ held'[x] = IF x = a THEN held[x] + amt ELSE held[x]
                               /\ available[x] \in Int /\ held[x] \in Int
        BY <1>1, <2>1 DEF Bump
    <2> HIDE DEF f, g, O, S
    <2>4. \A x \in O : g[x] = f[x]
        BY <1>2, <1>3, <2>1, <2>3
    <2> QED
        BY <1>2, <1>5, <2>2, <2>3, <2>4
<1>8. ASSUME NEW h \in HoldId, NEW amt \in Amount, Capture(h, amt) PROVE Goal
    <2> DEFINE a == holds[h].account
               payable == Payable(holds[h].currency)
               remainder == Remainder(h, amt)
               total == holds[h].amount
    <2>1. /\ a \in AccountId /\ payable \in AccountId /\ remainder \in Int /\ amt \in Int
          /\ total \in Int /\ -total \in Int /\ remainder = total - amt
          /\ ~ IsAsset(a) /\ ~ IsAsset(payable) /\ a # S /\ payable # S
          /\ (a \in O <=> payable \in O)
        <3>1. Active(h) /\ amt \in Int /\ holds[h] # NoRow
            BY <1>8, ConstantsAssumption DEF Capture, LockHold, Active
        <3>2. a \in AccountId /\ holds[h].currency \in Currency /\ total \in Int
            BY <3>1, HoldFacts
        <3>3. ~ IsAsset(a) /\ holds[h].currency = AccountCurrency(a)
            BY <1>4, <3>1 DEF NoAssetHold, HoldsOnAccounts
        <3>4. payable \in Owners(holds[h].currency) /\ payable \in AccountId
            BY <3>2, CurrencyFacts, AccountFacts
        <3>5. a \in O <=> payable \in O
            BY <3>2, <3>3, <3>4 DEF Owners
        <3> QED
            BY <1>2, <3>1, <3>2, <3>3, <3>4, <3>5 DEF Remainder, Owners
    <2>2. /\ available' = Bump(Bump(available, a, remainder), payable, amt)
          /\ held' = Bump(held, a, -total)
        BY <1>8 DEF Capture
    <2> HIDE DEF a, payable, remainder, total, f, g, O, S
    <2>3. ASSUME NEW x \in AccountId
          PROVE  /\ available'[x] = available[x] + (IF x = a THEN remainder ELSE 0) + (IF x = payable THEN amt ELSE 0)
                 /\ held'[x] = IF x = a THEN held[x] + (-total) ELSE held[x]
                 /\ available[x] \in Int /\ held[x] \in Int
        <3>1. held'[x] = IF x = a THEN held[x] + (-total) ELSE held[x]
            BY <1>1, <2>1, <2>2 DEF Bump
        <3> QED
            BY <1>1, <2>1, <2>2, <3>1, BumpTwice
    <2>4. available'[S] = available[S]
        BY <1>2, <2>1, <2>3
    <2>5. \A x \in O : g[x] = f[x] - (IF x = a THEN amt ELSE 0) + (IF x = payable THEN amt ELSE 0)
        BY <1>2, <1>3, <2>1, <2>3
    <2>6. CASE a \in O
        <3> DEFINE m == [x \in O |-> f[x] - (IF x = a THEN amt ELSE 0)]
        <3>1. m \in [O -> Int] /\ m[a] = f[a] - amt /\ \A x \in O : x # a => m[x] = f[x]
            BY <1>3, <2>1, <2>6
        <3>2. \A x \in O : g[x] = m[x] + (IF x = payable THEN amt ELSE 0)
            BY <2>5
        <3> HIDE DEF m
        <3>3. SumFunction(m) = SumFunction(f) + (m[a] - f[a])
            BY <1>2, <1>3, <2>6, <3>1, SumUpdate
        <3>4. payable \in O /\ g[payable] = m[payable] + amt /\ \A x \in O : x # payable => g[x] = m[x]
            BY <2>1, <2>6, <3>1, <3>2
        <3>5. SumFunction(g) = SumFunction(m) + (g[payable] - m[payable])
            BY <1>2, <1>3, <3>1, <3>4, SumUpdate
        <3>6. f[a] \in Int /\ m[payable] \in Int
            BY <1>3, <2>6, <3>1, <3>4
        <3> QED
            BY <1>4, <2>1, <2>4, <3>1, <3>3, <3>4, <3>5, <3>6 DEF Goal
    <2>7. CASE a \notin O
        <3>1. \A x \in O : g[x] = f[x]
            <4>1. \A x \in O : x # a /\ x # payable /\ f[x] \in Int
                BY <1>3, <2>1, <2>7
            <4> QED
                BY <2>1, <2>5, <4>1
        <3> QED
            BY <1>5, <2>4, <3>1
    <2> QED
        BY <2>6, <2>7
<1>9. ASSUME NEW D \in SUBSET HoldId, NEW reason \in Reason, ReleaseAll(D, reason) PROVE Goal
    <2>1. \A h \in D : Active(h)
        BY <1>9 DEF ReleaseAll, LockHold
    <2>2. \A x \in AccountId : /\ available'[x] = available[x] + Reserved(D, x)
                               /\ held'[x] = held[x] - Reserved(D, x)
                               /\ available[x] \in Int /\ held[x] \in Int /\ Reserved(D, x) \in Int
        <3>1. \A x \in AccountId : Reserved(D, x) \in Int
            BY <2>1, ReservedType
        <3> QED
            BY <1>1, <1>9, <3>1 DEF ReleaseAll
    <2>3. Reserved(D, S) = 0
        <3>1. \A h \in D : holds[h].account # S
            BY <1>2, <1>4, <2>1 DEF NoAssetHold, Active
        <3> HIDE DEF S
        <3> QED
            BY <1>2, <3>1, ReservedNone
    <2> HIDE DEF f, g, O, S
    <2>4. \A x \in O : g[x] = f[x]
        BY <1>2, <1>3, <2>2
    <2> QED
        BY <1>2, <1>5, <2>2, <2>3, <2>4
<1>10. ASSUME UNCHANGED <<available, held>> PROVE Goal
    <2> HIDE DEF f, g, O, S
    <2> QED
        BY <1>3, <1>5, <1>10
<1>11. ASSUME NEW h \in HoldId, PassExpiry(h) PROVE Goal
    BY <1>10, <1>11 DEF PassExpiry
<1>12. CASE UNCHANGED vars
    BY <1>10, <1>12 DEF vars
<1> QED
    BY <1>6, <1>7, <1>8, <1>9, <1>11, <1>12, NextCases

(***************************************************************************)
(* In every currency the users' and merchants' money is what its           *)
(* settlement account received, as long as no hold names such an account.  *)
(***************************************************************************)
THEOREM MoneyAlwaysConserved == Spec => []MoneyConserved
<1>1. Init => MoneyConserved
    <2> SUFFICES ASSUME Init, NEW cur \in Currency
                 PROVE  available[Settlement(cur)] = SumFunction(Wealth(cur))
        BY DEF MoneyConserved, Wealth, Owners
    <2>1. /\ Wealth(cur) \in [Owners(cur) -> Int]
          /\ \A x \in Owners(cur) : Wealth(cur)[x] = 0
          /\ available[Settlement(cur)] = 0
        BY AccountFacts DEF Init, Wealth, Owners
    <2>2. SumFunction(Wealth(cur)) = 0
        <3> DEFINE w == Wealth(cur)
        <3>1. w \in [Owners(cur) -> Int] /\ (\A x \in Owners(cur) : w[x] = 0) /\ IsFiniteSet(Owners(cur))
            BY <2>1, CurrencyFacts
        <3> HIDE DEF w
        <3>2. SumFunction(w) = 0
            BY <3>1, SumZero
        <3> QED
            BY <3>2 DEF w
    <2> QED
        BY <2>1, <2>2
<1>2. TypeOK /\ TypeOK' /\ RowsInv /\ MoneyConserved /\ [Next]_vars => MoneyConserved'
    BY MoneyNext DEF RowsInv
<1> QED
    BY <1>1, <1>2, TypeCorrect, RowsAgree, PTL DEF Spec


-----------------------------------------------------------------------------
(* The steps of the entrances are steps of the ledger. *)

LEMMA EventFacts ==
    /\ \A e \in Registered : e[2] \in User /\ e \in EventId /\ e \notin PaymentFailed
    /\ \A e \in PaymentFailed : e[2] \in Payment /\ e \in EventId /\ e \notin Registered
    /\ \A e \in Unknown : e \in EventId /\ e \notin Registered
BY DEF Registered, PaymentFailed, Unknown, EventId

LEMMA StepImplementsLedger ==
    ASSUME [ServiceNext]_serviceVars
    PROVE  [Next]_vars
<1>1. ASSUME NEW r \in RequestId, NEW h \in HoldId, NEW a \in AccountId, NEW p \in Payment,
             NEW amt \in Amount, NEW cur \in Currency, HoldFunds(r, h, a, p, amt, cur)
      PROVE  Next
    BY <1>1 DEF HoldFunds, Next
<1>2. ASSUME NEW r \in RequestId, NEW h \in HoldId, NEW amt \in Amount, CaptureFunds(r, h, amt)
      PROVE  Next
    BY <1>2 DEF CaptureFunds, Next
<1>3. ASSUME NEW r \in RequestId, NEW h \in HoldId, NEW reason \in Reason, ReleaseFunds(r, h, reason)
      PROVE  Next
    BY <1>3 DEF ReleaseFunds, Next
<1>4. ASSUME NEW r \in RequestId, NEW method \in Method, Replay(r, method)
      PROVE  UNCHANGED vars
    BY <1>4 DEF Replay
<1>5. ASSUME NEW e \in Registered, NEW a \in UserAccount, NEW seed \in WelcomeSeed, HandleRegistered(e, a, seed)
      PROVE  Next
    BY <1>5, EventFacts DEF HandleRegistered, Next
<1>6. ASSUME NEW e \in PaymentFailed, HandlePaymentFailed(e)
      PROVE  Next \/ UNCHANGED vars
    BY <1>6, EventFacts DEF HandlePaymentFailed, Next
<1>7. ASSUME NEW e \in Unknown, HandleUnknown(e) PROVE UNCHANGED vars
    BY <1>7 DEF HandleUnknown
<1>8. ASSUME Background PROVE Next
    BY <1>8 DEF Background, Next
<1>9. ASSUME UNCHANGED serviceVars PROVE UNCHANGED vars
    BY <1>9 DEF serviceVars
<1> QED
    BY <1>1, <1>2, <1>3, <1>4, <1>5, <1>6, <1>7, <1>8, <1>9 DEF ServiceNext

\* Retries, replays and redeliveries do not show in the ledger.
LEMMA ServiceImplementsLedger == ServiceSpec => Spec
<1>1. ServiceInit => Init
    BY DEF ServiceInit
<1>2. [ServiceNext]_serviceVars => [Next]_vars
    BY StepImplementsLedger
<1> QED
    BY <1>1, <1>2, PTL DEF ServiceSpec, Spec

(***************************************************************************)
(* What is proved of the ledger holds behind the two entrances.            *)
(***************************************************************************)
THEOREM ServiceKeepsLedger ==
    ServiceSpec => [](LedgerInv /\ RowsInv /\ CapturesMatchPostings /\ MoneyConserved /\ EventsRebuildHeld)
BY ServiceImplementsLedger, LedgerInvariant, RowsAgree, CapturesAlwaysMatch, MoneyAlwaysConserved,
   EventsAlwaysRebuildHeld, PTL

-----------------------------------------------------------------------------
(* The cases of a step, by what they write to the idempotency tables. *)

LEMMA ResponseKinds ==
    /\ \A h \in HoldId, n \in Nat :
        LET x == [method |-> "HoldFunds", hold |-> h, availableAfter |-> n] IN
        x \in HoldFundsResponse /\ x \in Response /\ x \notin CaptureFundsResponse /\ x.hold = h
    /\ \A h \in HoldId :
        LET x == [method |-> "CaptureFunds", transaction |-> CaptureKey(h)] IN
        x \in CaptureFundsResponse /\ x \in Response /\ x \notin HoldFundsResponse /\ x.transaction = CaptureKey(h)
    /\ LET x == [method |-> "ReleaseFunds"] IN
        x \in Response /\ x \notin HoldFundsResponse /\ x \notin CaptureFundsResponse
<1>1. ASSUME NEW h \in HoldId, NEW n \in Nat
      PROVE  LET x == [method |-> "HoldFunds", hold |-> h, availableAfter |-> n] IN
             x \in HoldFundsResponse /\ x \in Response /\ x \notin CaptureFundsResponse /\ x.hold = h
    BY DEF HoldFundsResponse, CaptureFundsResponse, Response
<1>2. ASSUME NEW h \in HoldId
      PROVE  LET x == [method |-> "CaptureFunds", transaction |-> CaptureKey(h)] IN
             x \in CaptureFundsResponse /\ x \in Response /\ x \notin HoldFundsResponse
             /\ x.transaction = CaptureKey(h)
    BY KeyFacts DEF HoldFundsResponse, CaptureFundsResponse, Response
<1>3. LET x == [method |-> "ReleaseFunds"] IN
      x \in Response /\ x \notin HoldFundsResponse /\ x \notin CaptureFundsResponse
    BY DEF HoldFundsResponse, CaptureFundsResponse, ReleaseFundsResponse, Response
<1> QED
    BY <1>1, <1>2, <1>3

LEMMA NoRowIsNoResponse == NoRow \notin Response /\ NoRow \notin HoldFundsResponse /\ NoRow \notin CaptureFundsResponse
BY ServiceAssumption DEF Response

LEMMA ForeignIsNoResponse == \A m \in Method : Foreign(m) \notin Response
BY DEF Foreign, Response, HoldFundsResponse, CaptureFundsResponse, ReleaseFundsResponse

\* A hold, or the posting of a capture, that a step creates.
NewHold(h) == holds[h] = NoRow /\ holds'[h] # NoRow
NewCapture(h) == postings[CaptureKey(h)] = NoRow /\ postings'[CaptureKey(h)] # NoRow

NothingNew == \A h \in HoldId : ~ NewHold(h) /\ ~ NewCapture(h)

LEMMA NewByHold ==
    ASSUME TypeOK, TypeOK', NEW h \in HoldId, NEW a \in AccountId, NEW p \in Payment,
           NEW amt \in Amount, NEW cur \in Currency, Hold(h, a, p, amt, cur), NEW g \in HoldId
    PROVE  (NewHold(g) <=> g = h) /\ ~ NewCapture(g)
<1> DEFINE row == [account |-> a, payment |-> p, amount |-> amt, currency |-> cur, status |-> "active"]
<1>1. /\ holds[h] = NoRow /\ holds'[h] = row /\ amt \in Int /\ amt > 0 /\ postings' = postings
      /\ g # h => holds'[g] = holds[g]
    BY ConstantsAssumption DEF Hold, TypeOK
<1>2. row \in HoldRow
    BY <1>1 DEF HoldRow, HoldStatus
<1>3. row # NoRow
    BY <1>2, ConstantsAssumption
<1> QED
    BY <1>1, <1>3 DEF NewHold, NewCapture

LEMMA NewByCapture ==
    ASSUME TypeOK, TypeOK', NEW h \in HoldId, NEW amt \in Amount, Capture(h, amt), NEW g \in HoldId
    PROVE  ~ NewHold(g) /\ (NewCapture(g) <=> g = h)
<1>1. Active(h) /\ amt \in Int /\ amt > 0
    BY ConstantsAssumption DEF Capture, LockHold
<1> DEFINE row == [debit |-> holds[h].account, credit |-> Payable(holds[h].currency),
                   amount |-> amt, currency |-> holds[h].currency]
<1>2. /\ postings[CaptureKey(h)] = NoRow /\ postings'[CaptureKey(h)] = row
      /\ g # h => postings'[CaptureKey(g)] = postings[CaptureKey(g)]
      /\ g # h => holds'[g] = holds[g]
    BY KeyFacts, KeysDiffer DEF Capture, Post, TypeOK
<1>3. row \in Posting
    BY <1>1, HoldFacts, AccountFacts DEF Posting
<1>4. row # NoRow
    BY <1>3, ConstantsAssumption
<1>5. holds[h] # NoRow
    BY <1>1 DEF Active
<1> QED
    BY <1>2, <1>4, <1>5 DEF NewHold, NewCapture

LEMMA NothingNewByOthers ==
    ASSUME TypeOK
    PROVE  /\ \A D \in SUBSET HoldId, reason \in Reason : ReleaseAll(D, reason) => NothingNew
           /\ \A u \in User, a \in UserAccount, seed \in WelcomeSeed : OnUserRegistered(u, a, seed) => NothingNew
           /\ UNCHANGED <<holds, postings>> => NothingNew
<1>1. ASSUME NEW D \in SUBSET HoldId, NEW reason \in Reason, ReleaseAll(D, reason) PROVE NothingNew
    BY <1>1 DEF ReleaseAll, LockHold, Active, NothingNew, NewHold, NewCapture
<1>2. ASSUME NEW u \in User, NEW a \in UserAccount, NEW seed \in WelcomeSeed, OnUserRegistered(u, a, seed)
      PROVE  NothingNew
    <2>1. holds' = holds /\ \A h \in HoldId : postings'[CaptureKey(h)] = postings[CaptureKey(h)]
        BY <1>2, KeyFacts, KeysDiffer DEF OnUserRegistered, Deposit, Post, TypeOK
    <2> QED
        BY <2>1 DEF NothingNew, NewHold, NewCapture
<1>3. ASSUME UNCHANGED <<holds, postings>> PROVE NothingNew
    BY <1>3 DEF NothingNew, NewHold, NewCapture
<1> QED
    BY <1>1, <1>2, <1>3

\* A step that writes no row: it creates nothing, and answers from the rows.
Quiet ==
    /\ UNCHANGED grpcIdempotency
    /\ NothingNew
    /\ \/ answers' = answers
       \/ \E r \in RequestId, x \in Response \cup {Foreign(m) : m \in Method} :
            /\ answers' = answers \cup {<<r, x>>}
            /\ x \in Response => x = grpcIdempotency[r]

\* A step that writes a row: the row names exactly what the step creates.
Stored(r, response) ==
    /\ response \in Response
    /\ Store(r, response)
    /\ response \in CaptureFundsResponse => \E h \in HoldId : response.transaction = CaptureKey(h)
    /\ \A h \in HoldId :
        /\ NewHold(h) <=> response \in HoldFundsResponse /\ response.hold = h
        /\ NewCapture(h) <=> response \in CaptureFundsResponse /\ response.transaction = CaptureKey(h)

LEMMA ServiceSteps ==
    ASSUME ServiceTypeOK, TypeOK', [ServiceNext]_serviceVars
    PROVE  Quiet \/ \E r \in RequestId, response \in Response : Stored(r, response)
<1>0. TypeOK
    BY DEF ServiceTypeOK
<1>1. ASSUME NEW r \in RequestId, NEW h \in HoldId, NEW a \in AccountId, NEW p \in Payment,
             NEW amt \in Amount, NEW cur \in Currency, HoldFunds(r, h, a, p, amt, cur)
      PROVE  \E response \in Response : Stored(r, response)
    <2> DEFINE x == [method |-> "HoldFunds", hold |-> h, availableAfter |-> available[a] - amt]
    <2>1. Hold(h, a, p, amt, cur) /\ Store(r, x)
        BY <1>1 DEF HoldFunds
    <2>2. available[a] - amt \in Nat
        BY <1>0, <2>1, ConstantsAssumption DEF Hold, TypeOK
    <2>3. x \in HoldFundsResponse /\ x \in Response /\ x \notin CaptureFundsResponse /\ x.hold = h
        BY <2>2, ResponseKinds
    <2>4. \A g \in HoldId : (NewHold(g) <=> g = h) /\ ~ NewCapture(g)
        BY <1>0, <2>1, NewByHold
    <2> HIDE DEF x
    <2>5. Stored(r, x)
        BY <2>1, <2>3, <2>4 DEF Stored
    <2> QED
        BY <2>3, <2>5
<1>2. ASSUME NEW r \in RequestId, NEW h \in HoldId, NEW amt \in Amount, CaptureFunds(r, h, amt)
      PROVE  \E response \in Response : Stored(r, response)
    <2> DEFINE x == [method |-> "CaptureFunds", transaction |-> CaptureKey(h)]
    <2>1. Capture(h, amt) /\ Store(r, x)
        BY <1>2 DEF CaptureFunds
    <2>2. x \in CaptureFundsResponse /\ x \in Response /\ x \notin HoldFundsResponse /\ x.transaction = CaptureKey(h)
        BY ResponseKinds
    <2>3. \A g \in HoldId : ~ NewHold(g) /\ (NewCapture(g) <=> g = h)
        BY <1>0, <2>1, NewByCapture
    <2> HIDE DEF x
    <2>4. Stored(r, x)
        BY <2>1, <2>2, <2>3, KeysDiffer DEF Stored
    <2> QED
        BY <2>2, <2>4
<1>3. ASSUME NEW r \in RequestId, NEW h \in HoldId, NEW reason \in Reason, ReleaseFunds(r, h, reason)
      PROVE  \E response \in Response : Stored(r, response)
    <2> DEFINE x == [method |-> "ReleaseFunds"]
    <2>1. ReleaseAll({h}, reason) /\ {h} \in SUBSET HoldId /\ Store(r, x)
        BY <1>3 DEF ReleaseFunds, Release
    <2>2. x \in Response /\ x \notin HoldFundsResponse /\ x \notin CaptureFundsResponse
        BY ResponseKinds
    <2>3. NothingNew
        BY <1>0, <2>1, NothingNewByOthers
    <2> HIDE DEF x
    <2>4. Stored(r, x)
        BY <2>1, <2>2, <2>3 DEF Stored, NothingNew
    <2> QED
        BY <2>2, <2>4
<1>4. ASSUME NEW r \in RequestId, NEW method \in Method, Replay(r, method) PROVE Quiet
    <2> DEFINE x == IF grpcIdempotency[r].method = method THEN grpcIdempotency[r] ELSE Foreign(method)
    <2>1. /\ UNCHANGED <<holds, postings, grpcIdempotency>>
          /\ answers' \in {answers, answers \cup {<<r, x>>}} /\ grpcIdempotency[r] # NoRow
        BY <1>4 DEF Replay, Answer, vars
    <2>2. /\ x \in Response \cup {Foreign(m) : m \in Method}
          /\ x \in Response => x = grpcIdempotency[r]
        BY <2>1, ForeignIsNoResponse DEF ServiceTypeOK
    <2>3. NothingNew
        BY <1>0, <2>1, NothingNewByOthers
    <2> HIDE DEF x
    <2> QED
        BY <2>1, <2>2, <2>3 DEF Quiet
<1>5. ASSUME NEW e \in Registered, NEW a \in UserAccount, NEW seed \in WelcomeSeed, HandleRegistered(e, a, seed)
      PROVE  Quiet
    BY <1>0, <1>5, EventFacts, NothingNewByOthers DEF HandleRegistered, Gate, Quiet
<1>6. ASSUME UNCHANGED <<grpcIdempotency, answers>>, [Next]_vars,
             \/ \E D \in SUBSET HoldId, reason \in Reason : ReleaseAll(D, reason)
             \/ UNCHANGED <<holds, postings>>
      PROVE  Quiet
    BY <1>0, <1>6, NothingNewByOthers DEF Quiet
<1>7. ASSUME NEW e \in PaymentFailed, HandlePaymentFailed(e) PROVE Quiet
    <2>1. UNCHANGED <<grpcIdempotency, answers>>
        BY <1>7 DEF HandlePaymentFailed, Gate
    <2>2. CASE ReleaseByPayment(e[2], "compensation")
        <3>1. PICK h \in HoldId : Release(h, "compensation")
            BY <2>2 DEF ReleaseByPayment
        <3>2. ReleaseAll({h}, "compensation") /\ {h} \in SUBSET HoldId /\ "compensation" \in Reason
            BY <3>1 DEF Release, Reason
        <3> QED
            BY <1>6, <2>1, <3>2, StepImplementsLedger
    <2>3. CASE UNCHANGED vars
        BY <1>6, <2>1, <2>3, StepImplementsLedger DEF vars
    <2> QED
        BY <1>7, <2>2, <2>3 DEF HandlePaymentFailed
<1>8. ASSUME Background PROVE Quiet
    <2>1. UNCHANGED <<grpcIdempotency, answers>>
        BY <1>8 DEF Background
    <2>2. CASE SweepExpiredHolds
        <3>1. PICK D \in SUBSET DueHolds : ReleaseAll(D, "expiry")
            BY <2>2 DEF SweepExpiredHolds
        <3>2. D \in SUBSET HoldId /\ "expiry" \in Reason
            BY <1>0 DEF DueHolds, TypeOK, Reason
        <3> QED
            BY <1>6, <2>1, <3>1, <3>2, StepImplementsLedger
    <2>3. CASE \E h \in HoldId : PassExpiry(h)
        <3>1. UNCHANGED <<holds, postings>>
            BY <2>3 DEF PassExpiry
        <3> QED
            BY <1>6, <2>1, <3>1, StepImplementsLedger
    <2> QED
        BY <1>8, <2>2, <2>3 DEF Background
<1>9. ASSUME UNCHANGED <<vars, grpcIdempotency, answers>> PROVE Quiet
    <2>1. UNCHANGED <<grpcIdempotency, answers, holds, postings>>
        BY <1>9 DEF vars
    <2> QED
        BY <1>6, <2>1, StepImplementsLedger
<1>10. ASSUME NEW e \in Unknown, HandleUnknown(e) PROVE Quiet
    BY <1>9, <1>10 DEF HandleUnknown, Gate
<1>11. ASSUME UNCHANGED serviceVars PROVE Quiet
    BY <1>9, <1>11 DEF serviceVars
<1> QED
    BY <1>1, <1>2, <1>3, <1>4, <1>5, <1>7, <1>8, <1>10, <1>11 DEF ServiceNext

-----------------------------------------------------------------------------
(* The invariant of the entrances. *)

LEMMA ServiceTypeNext ==
    ASSUME ServiceTypeOK, [ServiceNext]_serviceVars
    PROVE  ServiceTypeOK'
<1>1. TypeOK'
    BY StepImplementsLedger, TypeNext DEF ServiceTypeOK
<1>2. /\ grpcIdempotency' \in [RequestId -> Response \cup {NoRow}]
      /\ answers' \subseteq RequestId \X (Response \cup {Foreign(m) : m \in Method})
    <2>1. CASE Quiet
        BY <2>1 DEF Quiet, ServiceTypeOK
    <2>2. ASSUME NEW r \in RequestId, NEW response \in Response, Stored(r, response)
          PROVE  /\ grpcIdempotency' \in [RequestId -> Response \cup {NoRow}]
                 /\ answers' \subseteq RequestId \X (Response \cup {Foreign(m) : m \in Method})
        BY <2>2 DEF Stored, Store, Answer, ServiceTypeOK
    <2> QED
        BY <1>1, <2>1, <2>2, ServiceSteps
<1>3. processedEvents' \subseteq EventId
    <2>1. ASSUME NEW e \in Registered, NEW a \in UserAccount, NEW seed \in WelcomeSeed, HandleRegistered(e, a, seed)
          PROVE  processedEvents' \subseteq EventId
        BY <2>1, EventFacts DEF HandleRegistered, Gate, ServiceTypeOK
    <2>2. ASSUME NEW e \in PaymentFailed, HandlePaymentFailed(e) PROVE processedEvents' \subseteq EventId
        BY <2>2, EventFacts DEF HandlePaymentFailed, Gate, ServiceTypeOK
    <2>3. ASSUME processedEvents' = processedEvents PROVE processedEvents' \subseteq EventId
        BY <2>3 DEF ServiceTypeOK
    <2>4. ASSUME NEW e \in Unknown, HandleUnknown(e) PROVE processedEvents' \subseteq EventId
        BY <2>4, EventFacts DEF HandleUnknown, Gate, ServiceTypeOK
    <2> QED
        BY <2>1, <2>2, <2>3, <2>4 DEF ServiceNext, HoldFunds, CaptureFunds, ReleaseFunds, Store, Replay, Background,
                                serviceVars
<1> QED
    BY <1>1, <1>2, <1>3 DEF ServiceTypeOK

LEMMA RegistrationsNext ==
    ASSUME ServiceTypeOK, RegistrationsOpenAccounts, [ServiceNext]_serviceVars
    PROVE  RegistrationsOpenAccounts'
<1> DEFINE A == accounts \cap UserAccount
           P == processedEvents \cap Registered
<1>1. IsFiniteSet(A) /\ IsFiniteSet(P)
    <2>1. IsFiniteSet(UserAccount) /\ IsFiniteSet(User) /\ IsFiniteSet(Copy)
        BY ConstantsAssumption, ServiceAssumption
    <2> DEFINE T == User \X Copy
               f == [e \in Registered |-> <<e[2], e[3]>>]
    <2>2. \A e \in Registered : e = <<"registered", e[2], e[3]>> /\ e[2] \in User /\ e[3] \in Copy
        BY DEF Registered
    <2>3. f \in [Registered -> T] /\ \A d, e \in Registered : f[d] = f[e] => d = e
        BY <2>2
    <2>4. IsFiniteSet(T)
        BY <2>1, FS_Product
    <2> HIDE DEF f, T
    <2>5. f \in Injection(Registered, T)
        BY <2>3 DEF Injection, IsInjective
    <2>6. IsFiniteSet(Registered)
        BY <2>4, <2>5, FS_Injection
    <2> QED
        BY <2>1, <2>6, FS_Subset
<1>2. Cardinality(A) = Cardinality(P)
    BY DEF RegistrationsOpenAccounts
<1>3. ASSUME accounts' = accounts, processedEvents' \cap Registered = P PROVE RegistrationsOpenAccounts'
    BY <1>2, <1>3 DEF RegistrationsOpenAccounts
<1>4. ASSUME NEW e \in Registered, NEW a \in UserAccount, NEW seed \in WelcomeSeed, HandleRegistered(e, a, seed)
      PROVE  RegistrationsOpenAccounts'
    <2>1. /\ accounts' \cap UserAccount = A \cup {a} /\ a \notin A
          /\ processedEvents' \cap Registered = P \cup {e} /\ e \notin P
        BY <1>4 DEF HandleRegistered, Gate, OnUserRegistered
    <2> HIDE DEF A, P
    <2>2. Cardinality(A \cup {a}) = Cardinality(A) + 1 /\ Cardinality(P \cup {e}) = Cardinality(P) + 1
        BY <1>1, <2>1, FS_AddElement
    <2> QED
        BY <1>2, <2>1, <2>2 DEF RegistrationsOpenAccounts
<1>5. ASSUME NEW e \in PaymentFailed, HandlePaymentFailed(e) PROVE RegistrationsOpenAccounts'
    <2>1. processedEvents' \cap Registered = P
        BY <1>5, EventFacts DEF HandlePaymentFailed, Gate
    <2>2. accounts' = accounts
        BY <1>5 DEF HandlePaymentFailed, ReleaseByPayment, Release, ReleaseAll, vars
    <2> QED
        BY <1>3, <2>1, <2>2
<1>6. ASSUME NEW r \in RequestId, NEW h \in HoldId, NEW a \in AccountId, NEW p \in Payment,
             NEW amt \in Amount, NEW cur \in Currency, HoldFunds(r, h, a, p, amt, cur)
      PROVE  RegistrationsOpenAccounts'
    BY <1>3, <1>6 DEF HoldFunds, Hold, Store
<1>7. ASSUME NEW r \in RequestId, NEW h \in HoldId, NEW amt \in Amount, CaptureFunds(r, h, amt)
      PROVE  RegistrationsOpenAccounts'
    BY <1>3, <1>7 DEF CaptureFunds, Capture, Store
<1>8. ASSUME NEW r \in RequestId, NEW h \in HoldId, NEW reason \in Reason, ReleaseFunds(r, h, reason)
      PROVE  RegistrationsOpenAccounts'
    BY <1>3, <1>8 DEF ReleaseFunds, Release, ReleaseAll, Store
<1>9. ASSUME NEW r \in RequestId, NEW method \in Method, Replay(r, method) PROVE RegistrationsOpenAccounts'
    BY <1>3, <1>9 DEF Replay, vars
<1>10. ASSUME Background PROVE RegistrationsOpenAccounts'
    BY <1>3, <1>10 DEF Background, SweepExpiredHolds, ReleaseAll, PassExpiry
<1>11. ASSUME UNCHANGED serviceVars PROVE RegistrationsOpenAccounts'
    BY <1>3, <1>11 DEF serviceVars, vars
<1>12. ASSUME NEW e \in Unknown, HandleUnknown(e) PROVE RegistrationsOpenAccounts'
    BY <1>3, <1>12, EventFacts DEF HandleUnknown, Gate, vars
<1> QED
    BY <1>4, <1>5, <1>6, <1>7, <1>8, <1>9, <1>10, <1>11, <1>12 DEF ServiceNext

LEMMA RowsTrueNext ==
    ASSUME ServiceTypeOK, ServiceTypeOK', RowsTrue, AnswersFromRows, [ServiceNext]_serviceVars
    PROVE  RowsTrue' /\ AnswersFromRows'
<1>1. TypeOK /\ TypeOK' /\ [Next]_vars
    BY StepImplementsLedger DEF ServiceTypeOK
<1>2. /\ \A h \in HoldId : holds[h] # NoRow => holds'[h] # NoRow
      /\ \A k \in IdemKey : postings[k] # NoRow => postings'[k] # NoRow
    BY <1>1, HistoryNext DEF HistoryKept, HoldKept
<1>3. ASSUME NEW r \in RequestId, grpcIdempotency'[r] = grpcIdempotency[r]
      PROVE  /\ grpcIdempotency'[r] \in HoldFundsResponse => holds'[grpcIdempotency'[r].hold] # NoRow
             /\ grpcIdempotency'[r] \in CaptureFundsResponse => postings'[grpcIdempotency'[r].transaction] # NoRow
    <2>1. grpcIdempotency[r] \in HoldFundsResponse => grpcIdempotency[r].hold \in HoldId
        BY DEF HoldFundsResponse
    <2>2. grpcIdempotency[r] \in CaptureFundsResponse => grpcIdempotency[r].transaction \in IdemKey
        BY DEF CaptureFundsResponse
    <2> QED
        BY <1>2, <1>3, <2>1, <2>2 DEF RowsTrue
<1>4. CASE Quiet
    <2>1. RowsTrue'
        BY <1>3, <1>4 DEF Quiet, RowsTrue
    <2>2. AnswersFromRows'
        BY <1>4 DEF Quiet, AnswersFromRows
    <2> QED
        BY <2>1, <2>2
<1>5. ASSUME NEW r \in RequestId, NEW x \in Response, Stored(r, x) PROVE RowsTrue' /\ AnswersFromRows'
    <2>1. /\ grpcIdempotency[r] = NoRow /\ grpcIdempotency'[r] = x
          /\ \A q \in RequestId : q # r => grpcIdempotency'[q] = grpcIdempotency[q]
          /\ answers' \in {answers, answers \cup {<<r, x>>}}
        BY <1>5 DEF Stored, Store, Answer, ServiceTypeOK
    <2>2. x \in HoldFundsResponse => holds'[x.hold] # NoRow
        <3>1. x \in HoldFundsResponse => x.hold \in HoldId
            BY DEF HoldFundsResponse
        <3> QED
            BY <1>5, <3>1 DEF Stored, NewHold
    <2>3. x \in CaptureFundsResponse => postings'[x.transaction] # NoRow
        <3> SUFFICES ASSUME x \in CaptureFundsResponse PROVE postings'[x.transaction] # NoRow
            OBVIOUS
        <3>1. PICK h \in HoldId : x.transaction = CaptureKey(h)
            BY <1>5 DEF Stored
        <3> QED
            BY <1>5, <3>1 DEF Stored, NewCapture
    <2>4. RowsTrue'
        BY <1>3, <2>1, <2>2, <2>3 DEF RowsTrue
    <2>5. AnswersFromRows'
        <3>1. \A y \in answers : y[2] \in Response => y[1] # r /\ y[1] \in RequestId
            BY <2>1, NoRowIsNoResponse DEF AnswersFromRows, ServiceTypeOK
        <3> QED
            BY <2>1, <3>1 DEF AnswersFromRows
    <2> QED
        BY <2>4, <2>5
<1> QED
    BY <1>1, <1>4, <1>5, ServiceSteps

(***************************************************************************)
(* The tables of the entrances keep their types, one account is open for   *)
(* each registration handled, what a row of grpc_idempotency reports is in *)
(* the ledger, and every answer is its row's.                              *)
(***************************************************************************)
THEOREM ServiceInvariant == ServiceSpec => []ServiceInv
<1>1. ServiceInit => ServiceInv
    <2> SUFFICES ASSUME ServiceInit PROVE ServiceInv
        OBVIOUS
    <2>1. TypeOK
        BY InvInit DEF ServiceInit, LedgerInv
    <2>2. ServiceTypeOK
        BY <2>1 DEF ServiceInit, ServiceTypeOK
    <2>3. accounts \cap UserAccount = {} /\ processedEvents \cap Registered = {}
        BY ConstantsAssumption DEF ServiceInit, Init
    <2>4. RegistrationsOpenAccounts
        BY <2>3 DEF RegistrationsOpenAccounts
    <2>5. RowsTrue /\ AnswersFromRows
        BY NoRowIsNoResponse DEF ServiceInit, RowsTrue, AnswersFromRows
    <2> QED
        BY <2>2, <2>4, <2>5 DEF ServiceInv
<1>2. ServiceInv /\ [ServiceNext]_serviceVars => ServiceInv'
    BY ServiceTypeNext, RegistrationsNext, RowsTrueNext DEF ServiceInv
<1> QED
    BY <1>1, <1>2, PTL DEF ServiceSpec

(***************************************************************************)
(* Callers that repeat a request are told the same each time, and what     *)
(* they are told is true (replay, store).                                  *)
(***************************************************************************)
THEOREM AnswersAlwaysAgree == ServiceSpec => []AnswersAgree
<1>1. ServiceInv => AnswersAgree
    <2> SUFFICES ASSUME ServiceInv PROVE AnswersAgree
        OBVIOUS
    <2>1. \A x \in answers : /\ x = <<x[1], x[2]>> /\ x[1] \in RequestId
                             /\ x[2] \in Response => x[2] = grpcIdempotency[x[1]]
        BY DEF ServiceInv, ServiceTypeOK, AnswersFromRows
    <2>2. \A x, y \in answers : x[1] = y[1] /\ x[2] \in Response /\ y[2] \in Response => x = y
        BY <2>1
    <2>3. \A x \in answers : /\ x[2] \in HoldFundsResponse => holds[x[2].hold] # NoRow
                             /\ x[2] \in CaptureFundsResponse => postings[x[2].transaction] # NoRow
        BY <2>1 DEF ServiceInv, RowsTrue, Response
    <2> QED
        BY <2>2, <2>3 DEF AnswersAgree
<1> QED
    BY <1>1, ServiceInvariant, PTL

-----------------------------------------------------------------------------
(* The rows of grpc_idempotency account for the holds and the captures. *)

\* The requests whose row names a hold, or the capture of a hold.
HoldRequests(h) == {r \in RequestId : grpcIdempotency[r] \in HoldFundsResponse
                                      /\ grpcIdempotency[r].hold = h}
CaptureRequests(h) == {r \in RequestId : grpcIdempotency[r] \in CaptureFundsResponse
                                         /\ grpcIdempotency[r].transaction = CaptureKey(h)}

\* The inductive form of EffectsAnswered.
OneRequest == \A h \in HoldId :
    /\ holds[h] # NoRow => \E r \in RequestId : HoldRequests(h) = {r}
    /\ postings[CaptureKey(h)] # NoRow => \E r \in RequestId : CaptureRequests(h) = {r}

LEMMA OneRequestNext ==
    ASSUME ServiceInv, ServiceTypeOK', OneRequest, [ServiceNext]_serviceVars
    PROVE  OneRequest'
<1>1. ServiceTypeOK /\ RowsTrue /\ TypeOK /\ TypeOK' /\ [Next]_vars
    BY StepImplementsLedger DEF ServiceInv, ServiceTypeOK
<1> SUFFICES ASSUME NEW h \in HoldId
             PROVE  /\ holds'[h] # NoRow => \E r \in RequestId : HoldRequests(h)' = {r}
                    /\ postings'[CaptureKey(h)] # NoRow => \E r \in RequestId : CaptureRequests(h)' = {r}
    BY DEF OneRequest
<1>2. /\ holds[h] # NoRow => \E r \in RequestId : HoldRequests(h) = {r}
      /\ postings[CaptureKey(h)] # NoRow => \E r \in RequestId : CaptureRequests(h) = {r}
    BY DEF OneRequest
<1>3. /\ holds[h] = NoRow => HoldRequests(h) = {}
      /\ postings[CaptureKey(h)] = NoRow => CaptureRequests(h) = {}
    BY <1>1 DEF RowsTrue, HoldRequests, CaptureRequests
<1>4. CASE Quiet
    <2>1. HoldRequests(h)' = HoldRequests(h) /\ CaptureRequests(h)' = CaptureRequests(h)
        BY <1>4 DEF Quiet, HoldRequests, CaptureRequests
    <2>2. ~ NewHold(h) /\ ~ NewCapture(h)
        BY <1>4 DEF Quiet, NothingNew
    <2> QED
        BY <1>2, <2>1, <2>2 DEF NewHold, NewCapture
<1>5. ASSUME NEW r \in RequestId, NEW x \in Response, Stored(r, x)
      PROVE  /\ holds'[h] # NoRow => \E q \in RequestId : HoldRequests(h)' = {q}
             /\ postings'[CaptureKey(h)] # NoRow => \E q \in RequestId : CaptureRequests(h)' = {q}
    <2>1. /\ grpcIdempotency[r] = NoRow /\ grpcIdempotency'[r] = x
          /\ \A q \in RequestId : q # r => grpcIdempotency'[q] = grpcIdempotency[q]
        BY <1>1, <1>5 DEF Stored, Store, ServiceTypeOK
    <2>2. r \notin HoldRequests(h) /\ r \notin CaptureRequests(h)
        BY <2>1, NoRowIsNoResponse DEF HoldRequests, CaptureRequests
    <2>3. /\ NewHold(h) => HoldRequests(h)' = HoldRequests(h) \cup {r}
          /\ ~ NewHold(h) => HoldRequests(h)' = HoldRequests(h)
        BY <1>5, <2>1, <2>2 DEF Stored, HoldRequests
    <2>4. /\ NewCapture(h) => CaptureRequests(h)' = CaptureRequests(h) \cup {r}
          /\ ~ NewCapture(h) => CaptureRequests(h)' = CaptureRequests(h)
        BY <1>5, <2>1, <2>2 DEF Stored, CaptureRequests
    <2> QED
        BY <1>2, <1>3, <2>3, <2>4 DEF NewHold, NewCapture
<1> QED
    BY <1>1, <1>4, <1>5, ServiceSteps

(***************************************************************************)
(* Each hold and each capture is named by exactly one row of               *)
(* grpc_idempotency: none is made twice for a request, and none exists     *)
(* that no request accounts for, because store commits with the operation. *)
(***************************************************************************)
THEOREM EffectsAlwaysAnswered == ServiceSpec => []EffectsAnswered
<1>1. ServiceInit => OneRequest
    <2> SUFFICES ASSUME ServiceInit, NEW h \in HoldId PROVE holds[h] = NoRow /\ postings[CaptureKey(h)] = NoRow
        BY DEF OneRequest
    <2> QED
        BY KeyFacts DEF ServiceInit, Init
<1>2. ServiceInv /\ ServiceInv' /\ OneRequest /\ [ServiceNext]_serviceVars => OneRequest'
    BY OneRequestNext DEF ServiceInv
<1>3. OneRequest => EffectsAnswered
    <2> SUFFICES ASSUME OneRequest, NEW h \in HoldId
                 PROVE  /\ holds[h] # NoRow => Cardinality(HoldRequests(h)) = 1
                        /\ postings[CaptureKey(h)] # NoRow => Cardinality(CaptureRequests(h)) = 1
        BY DEF EffectsAnswered, HoldRequests, CaptureRequests
    <2> QED
        BY FS_Singleton DEF OneRequest
<1> QED
    BY <1>1, <1>2, <1>3, ServiceInvariant, PTL DEF ServiceSpec

=============================================================================
