--------------------------- MODULE PostingsProofs ---------------------------
(***************************************************************************)
(* ValidateBalanced judges the postings of Capture and Deposit exactly,    *)
(* for every width of the machine integers and every set of amounts.       *)
(***************************************************************************)
EXTENDS Postings, TLAPS

\* What one entry adds to the sum of its currency.
Signed(e) == IF e.direction = "debit" THEN e.amount ELSE -e.amount

\* An entry the loop has let through.
Passed(e) == e.amount > 0 /\ e.direction \in {"debit", "credit"}

\* The contribution of e to the sum in currency cur.
Part(e, cur) == IF e.currency = cur THEN Signed(e) ELSE 0

(***************************************************************************)
(* The inductive invariant: while the loop runs, the sums are those of the *)
(* entries seen, written out for up to two entries; the verdict on two     *)
(* entries is the exact one.                                               *)
(***************************************************************************)
NoneSeen == Len(entries) = 0 => \A cur \in Currency : sums[cur] = 0

OneSeen == Len(entries) = 1 =>
    /\ Passed(entries[1])
    /\ \A cur \in Currency : sums[cur] = Part(entries[1], cur)

TwoSeen == Len(entries) = 2 =>
    /\ Passed(entries[1]) /\ Passed(entries[2])
    /\ \A cur \in Currency :
            sums[cur] = Wrap(Part(entries[1], cur) + Part(entries[2], cur))

PostingsInv ==
    /\ PostingsTypeOK
    /\ verdict = "scanning" => NoneSeen /\ OneSeen /\ TwoSeen
    /\ TwoLegsExact

-----------------------------------------------------------------------------

LEMMA OneLess ==
    ASSUME NEW m, NEW n \in Nat, m = n + 1, m = 2
    PROVE  n = 1
OBVIOUS

LEMMA EntryFields ==
    ASSUME NEW e \in Entry
    PROVE  /\ e.currency \in Currency
           /\ e.amount \in Int /\ -Half <= e.amount /\ e.amount < Half
<1>1. e.currency \in Currency /\ e.amount \in Amount
  BY DEF Entry
<1>2. e.amount \in -Half .. Half - 1
  BY <1>1, PostingsAssumption
<1>3. Half \in Int
  BY PostingsAssumption
<1> QED BY <1>1, <1>2, <1>3

\* Adding or subtracting an amount to a sum stays in the range of the integers
\* once it has wrapped around.
LEMMA WrapInRange ==
    ASSUME NEW x \in -Half .. Half - 1, NEW y \in -Half .. Half - 1
    PROVE  /\ Wrap(x + y) \in -Half .. Half - 1
           /\ y > 0 => Wrap(x - y) \in -Half .. Half - 1
BY PostingsAssumption DEF Wrap

\* The two entries cancel in every currency exactly if they are a debit and a
\* credit of the same amount and currency: of two amounts of the range the sum
\* never wraps around to zero.
LEMMA CancelExactly ==
    ASSUME NEW d \in Entry, NEW e \in Entry, Passed(d), Passed(e)
    PROVE  (\A cur \in Currency : Wrap(Part(d, cur) + Part(e, cur)) = 0)
                <=> Pair(d, e) \/ Pair(e, d)
<1> /\ d.amount \in Int /\ d.amount < Half /\ d.currency \in Currency
    /\ e.amount \in Int /\ e.amount < Half /\ e.currency \in Currency
    /\ Half \in Nat /\ Half > 0
  BY EntryFields, PostingsAssumption
<1>1. CASE d.currency = e.currency
  <2>1. \A cur \in Currency : cur # d.currency => Wrap(Part(d, cur) + Part(e, cur)) = 0
    BY <1>1, PostingsAssumption DEF Wrap, Part
  <2>2. Wrap(Part(d, d.currency) + Part(e, d.currency)) = Wrap(Signed(d) + Signed(e))
    BY <1>1 DEF Part
  <2>3. Wrap(Signed(d) + Signed(e)) = 0 <=> Pair(d, e) \/ Pair(e, d)
    BY <1>1 DEF Wrap, Signed, Pair, Passed
  <2> QED BY <2>1, <2>2, <2>3
<1>2. CASE d.currency # e.currency
  <2>1. Part(d, d.currency) + Part(e, d.currency) = Signed(d)
    BY <1>2 DEF Part, Signed
  <2>2. Wrap(Signed(d)) # 0
    BY DEF Wrap, Signed, Passed
  <2>3. ~ Pair(d, e) /\ ~ Pair(e, d)
    BY <1>2 DEF Pair
  <2> QED BY <2>1, <2>2, <2>3
<1> QED BY <1>1, <1>2

-----------------------------------------------------------------------------

LEMMA InitHolds == Init => PostingsInv
BY PostingsAssumption
   DEF Init, PostingsInv, PostingsTypeOK, NoneSeen, OneSeen, TwoSeen, TwoLegsExact

LEMMA ScanTyped ==
    ASSUME PostingsTypeOK, NEW e \in Entry, Scan(e)
    PROVE  PostingsTypeOK'
<1> USE PostingsAssumption DEF PostingsTypeOK
<1>1. entries' \in Seq(Entry) /\ Len(entries') <= MaxLegs
  BY DEF Scan
<1>2. e.currency \in Currency /\ e.amount \in -Half .. Half - 1
  BY DEF Entry
<1>3. CASE Refuse(e)
  BY <1>1, <1>3 DEF Refuse
<1>4. CASE Debit(e)
  <2>1. Wrap(sums[e.currency] + e.amount) \in -Half .. Half - 1
    BY <1>2, WrapInRange
  <2>2. debits[e.currency] + e.amount \in Nat
    BY <1>2, <1>4 DEF Debit, Positive
  <2> QED BY <1>1, <1>2, <1>4, <2>1, <2>2 DEF Debit, Scan
<1>5. CASE Credit(e)
  <2>1. Wrap(sums[e.currency] - e.amount) \in -Half .. Half - 1
    BY <1>2, <1>5, WrapInRange DEF Credit, Positive
  <2>2. credits[e.currency] + e.amount \in Nat
    BY <1>2, <1>5 DEF Credit, Positive
  <2> QED BY <1>1, <1>2, <1>5, <2>1, <2>2 DEF Credit, Scan
<1> QED BY <1>3, <1>4, <1>5 DEF Scan

\* An entry that passes adds its part to the sum of every currency.
LEMMA ScanAdds ==
    ASSUME PostingsTypeOK, NEW e \in Entry, Scan(e), verdict' = "scanning"
    PROVE  /\ Passed(e)
           /\ \A cur \in Currency :
                    sums'[cur] = IF e.currency = cur THEN Wrap(sums[cur] + Signed(e)) ELSE sums[cur]
<1> USE PostingsAssumption
<1>0. /\ e.currency \in Currency /\ e.amount \in Int
      /\ sums \in [Currency -> -Half .. Half - 1] /\ \A cur \in Currency : sums[cur] \in Int
  BY EntryFields DEF PostingsTypeOK
<1>1. CASE Refuse(e)
  BY <1>1 DEF Refuse
<1>2. CASE Debit(e)
  BY <1>0, <1>2 DEF Debit, Positive, Passed, Signed
<1>3. CASE Credit(e)
  <2>1. Passed(e) /\ Signed(e) = -e.amount
    BY <1>0, <1>3 DEF Credit, Positive, Passed, Signed
  <2>2. \A cur \in Currency : sums[cur] - e.amount = sums[cur] + Signed(e)
    BY <1>0, <2>1
  <2> QED BY <1>0, <1>3, <2>1, <2>2 DEF Credit
<1> QED BY <1>1, <1>2, <1>3 DEF Scan

LEMMA ScanHolds ==
    ASSUME PostingsInv, NEW e \in Entry, Scan(e)
    PROVE  PostingsInv'
<1> USE PostingsAssumption
<1>1. PostingsTypeOK /\ PostingsTypeOK'
  BY ScanTyped DEF PostingsInv
<1>2. /\ entries \in Seq(Entry) /\ entries' = Append(entries, e)
      /\ verdict = "scanning" /\ NoneSeen /\ OneSeen /\ TwoSeen
  BY <1>1 DEF Scan, PostingsInv, PostingsTypeOK
<1>3. Len(entries') = Len(entries) + 1 /\ Len(entries) \in Nat
  BY <1>2
<1>4. /\ entries'[Len(entries) + 1] = e
      /\ \A i \in 1 .. Len(entries) : entries'[i] = entries[i] /\ entries[i] \in Entry
  BY <1>2
<1>5. e.currency \in Currency /\ e.amount \in -Half .. Half - 1
  BY DEF Entry
<1>6. ASSUME verdict' = "scanning" PROVE NoneSeen' /\ OneSeen' /\ TwoSeen'
  <2>1. /\ Passed(e)
        /\ \A cur \in Currency :
                sums'[cur] = IF e.currency = cur THEN Wrap(sums[cur] + Signed(e)) ELSE sums[cur]
    BY <1>1, <1>6, ScanAdds
  <2>2. Signed(e) \in Int /\ Wrap(Signed(e)) = Signed(e)
    BY <1>5, <2>1 DEF Signed, Wrap, Passed
  <2>3. NoneSeen'
    BY <1>3 DEF NoneSeen
  <2>4. OneSeen'
    <3> SUFFICES ASSUME Len(entries') = 1 PROVE OneSeen'
      BY DEF OneSeen
    <3>1. Len(entries) = 0 /\ entries'[1] = e
      BY <1>3, <1>4
    <3>2. \A cur \in Currency : sums[cur] = 0
      BY <1>2, <3>1 DEF NoneSeen
    <3>3. \A cur \in Currency : sums'[cur] = Part(e, cur)
      BY <2>1, <2>2, <3>2 DEF Part
    <3> QED BY <2>1, <3>1, <3>3 DEF OneSeen
  <2>5. TwoSeen'
    <3> SUFFICES ASSUME Len(entries') = 2 PROVE TwoSeen'
      BY DEF TwoSeen
    <3>0. Len(entries) = 1
      BY <1>3, OneLess
    <3>1. Len(entries) = 1 /\ entries'[1] = entries[1] /\ entries'[2] = e
      BY <1>4, <3>0
    <3>2. Passed(entries[1]) /\ \A cur \in Currency : sums[cur] = Part(entries[1], cur)
      BY <1>2, <3>1 DEF OneSeen
    <3>3. \A cur \in Currency : sums[cur] \in -Half .. Half - 1
      BY <1>1 DEF PostingsTypeOK
    <3>4. \A cur \in Currency : Wrap(sums[cur] + 0) = sums[cur]
      BY <3>3 DEF Wrap
    <3>5. \A cur \in Currency : sums'[cur] = Wrap(Part(entries[1], cur) + Part(e, cur))
      BY <2>1, <3>2, <3>4 DEF Part
    <3> QED BY <2>1, <3>1, <3>2, <3>5 DEF TwoSeen
  <2> QED BY <2>3, <2>4, <2>5
<1>7. TwoLegsExact'
  <2> SUFFICES ASSUME Len(entries') = 2, verdict' # "scanning" PROVE TwoLegsExact'
    BY DEF TwoLegsExact
  <2>0. Len(entries) = 1
    BY <1>3, OneLess
  <2>1. entries'[1] = entries[1] /\ entries'[2] = e
    BY <1>4, <2>0
  <2>2. Refuse(e)
    BY <1>2 DEF Scan, Debit, Credit
  <2>3. verdict' = "refused" /\ (~ (e.amount > 0) \/ e.direction = "other")
    BY <2>2 DEF Refuse, Positive
  <2>4. ~ Pair(entries[1], e) /\ ~ Pair(e, entries[1])
    BY <2>3 DEF Pair
  <2> QED BY <2>1, <2>3, <2>4 DEF TwoLegsExact
<1> QED BY <1>1, <1>6, <1>7 DEF PostingsInv

LEMMA FinishHolds ==
    ASSUME PostingsInv, Finish
    PROVE  PostingsInv'
<1>1. PostingsTypeOK' /\ verdict' # "scanning" /\ entries' = entries
  BY DEF PostingsInv, PostingsTypeOK, Finish
<1>2. TwoLegsExact'
  <2> SUFFICES ASSUME Len(entries) = 2 PROVE TwoLegsExact'
    BY <1>1 DEF TwoLegsExact
  <2>0. entries[1] \in Entry /\ entries[2] \in Entry
    <3>1. entries \in Seq(Entry)
      BY DEF PostingsInv, PostingsTypeOK
    <3> QED BY <3>1
  <2>1. /\ Passed(entries[1]) /\ Passed(entries[2])
        /\ \A cur \in Currency : sums[cur] = Wrap(Part(entries[1], cur) + Part(entries[2], cur))
    BY DEF PostingsInv, Finish, TwoSeen
  <2>2. verdict' = "accepted" <=> \A cur \in Currency : sums[cur] = 0
    BY DEF Finish
  <2>3. verdict' = "accepted" <=> Pair(entries[1], entries[2]) \/ Pair(entries[2], entries[1])
    BY <2>0, <2>1, <2>2, CancelExactly
  <2> QED BY <1>1, <2>3 DEF TwoLegsExact
<1> QED BY <1>1, <1>2 DEF PostingsInv

LEMMA StepHolds == PostingsInv /\ [Next]_vars => PostingsInv'
<1> SUFFICES ASSUME PostingsInv, [Next]_vars PROVE PostingsInv'
  OBVIOUS
<1>1. CASE \E e \in Entry : Scan(e)
  BY <1>1, ScanHolds
<1>2. CASE Finish
  BY <1>2, FinishHolds
<1>3. CASE UNCHANGED vars
  BY <1>3 DEF vars, PostingsInv, PostingsTypeOK, NoneSeen, OneSeen, TwoSeen, TwoLegsExact
<1> QED BY <1>1, <1>2, <1>3 DEF Next

(***************************************************************************)
(* Of the postings of two entries, ValidateBalanced accepts exactly those  *)
(* of a debit and a credit of the same positive amount and currency,       *)
(* whatever the width of the integers: no wrap-around, at any amount, lets *)
(* an unbalanced Capture or Deposit through or stops a balanced one.       *)
(***************************************************************************)
THEOREM TwoLegsJudgedExactly == Spec => []TwoLegsExact
<1>1. PostingsInv => TwoLegsExact
  BY DEF PostingsInv
<1> QED BY <1>1, InitHolds, StepHolds, PTL DEF Spec

-----------------------------------------------------------------------------

\* Multiples of m stay multiples when m is added or taken away.
LEMMA NextMultiple ==
    ASSUME NEW m \in Nat \ {0}, NEW x \in Int, x % m = 0
    PROVE  (x + m) % m = 0 /\ (x - m) % m = 0
<1>1. PICK q \in Int : x = m * q
  OBVIOUS
<1>2. x + m = m * (q + 1) /\ x - m = m * (q - 1)
  BY <1>1
<1>3. (m * (q + 1)) % m = 0 /\ (m * (q - 1)) % m = 0
  <2>1. \A k \in Int : (m * k) % m = 0
    OBVIOUS
  <2>2. q + 1 \in Int /\ q - 1 \in Int
    OBVIOUS
  <2> QED BY <2>1, <2>2
<1> QED BY <1>2, <1>3

\* Zero is the only multiple of m that is nearer to zero than m.
LEMMA SmallMultiple ==
    ASSUME NEW m \in Nat \ {0}, NEW x \in Int, x % m = 0, -m < x, x < m
    PROVE  x = 0
OBVIOUS

\* How far a sum of ValidateBalanced is from the true one, if it is y instead of
\* x: a whole number of times 2^64.
Congruent(x, y) == (x - y) % (2 * Half) = 0

LEMMA CongruentWrapped ==
    ASSUME NEW t \in Int, NEW s \in Int, NEW d \in Int, Congruent(t, s)
    PROVE  Congruent(t + d, Wrap(s + d))
<1> DEFINE m == 2 * Half
<1>1. m \in Nat \ {0} /\ Half \in Nat
  BY PostingsAssumption
<1>2. (t - s) \in Int /\ (t - s) % m = 0
  BY DEF Congruent
<1>3. ((t - s) + m) % m = 0 /\ ((t - s) - m) % m = 0
  <2> HIDE DEF m
  <2> QED BY <1>1, <1>2, NextMultiple
<1>4. \/ (t + d) - Wrap(s + d) = t - s
      \/ (t + d) - Wrap(s + d) = (t - s) + m
      \/ (t + d) - Wrap(s + d) = (t - s) - m
  BY <1>1 DEF Wrap
<1> QED BY <1>2, <1>3, <1>4 DEF Congruent

\* The true sum of a currency.
Net(cur) == debits[cur] - credits[cur]

\* The inductive form of BalancedUnlessWrapped: the sums are right modulo 2^64,
\* and an accepted posting has none that is not zero.
WrappedInv ==
    /\ PostingsTypeOK
    /\ \A cur \in Currency : Congruent(Net(cur), sums[cur])
    /\ verdict = "accepted" => \A cur \in Currency : sums[cur] = 0

LEMMA WrappedInit == Init => WrappedInv
<1> SUFFICES ASSUME Init PROVE WrappedInv
  OBVIOUS
<1>1. PostingsTypeOK
  BY InitHolds DEF PostingsInv
<1>2. \A cur \in Currency : debits[cur] = 0 /\ credits[cur] = 0 /\ sums[cur] = 0
  BY DEF Init
<1>3. Congruent(0 - 0, 0)
  <2> DEFINE m == 2 * Half
  <2>1. m \in Nat \ {0}
    BY PostingsAssumption
  <2>2. 0 % m = 0
    <3> HIDE DEF m
    <3> QED BY <2>1
  <2> QED BY <2>2 DEF Congruent
<1> QED BY <1>1, <1>2, <1>3 DEF WrappedInv, Net, Init

LEMMA WrappedStep == WrappedInv /\ [Next]_vars => WrappedInv'
<1> SUFFICES ASSUME WrappedInv, [Next]_vars PROVE WrappedInv'
  OBVIOUS
<1> USE PostingsAssumption
<1>0. /\ PostingsTypeOK /\ \A cur \in Currency : Congruent(Net(cur), sums[cur])
      /\ \A cur \in Currency : debits[cur] \in Int /\ credits[cur] \in Int /\ sums[cur] \in Int
  BY DEF WrappedInv, PostingsTypeOK
<1>1. ASSUME NEW e \in Entry, Scan(e) PROVE WrappedInv'
  <2>1. PostingsTypeOK'
    BY <1>0, <1>1, ScanTyped
  <2>2. e.currency \in Currency /\ e.amount \in Int /\ -e.amount \in Int
    BY EntryFields
  <2>3. CASE Refuse(e)
    BY <1>0, <2>1, <2>3 DEF Refuse, WrappedInv, Net
  <2>4. ASSUME NEW cur \in Currency, Debit(e) PROVE Congruent(Net(cur), sums[cur])'
    <3>1. Congruent(Net(cur) + e.amount, Wrap(sums[cur] + e.amount))
      <4>1. Net(cur) \in Int /\ sums[cur] \in Int /\ Congruent(Net(cur), sums[cur])
        BY <1>0 DEF Net
      <4> QED BY <2>2, <4>1, CongruentWrapped
    <3>2. e.currency = cur => /\ sums'[cur] = Wrap(sums[cur] + e.amount)
                              /\ Net(cur)' = Net(cur) + e.amount
      BY <1>0, <2>2, <2>4 DEF Debit, PostingsTypeOK, Net
    <3>3. e.currency # cur => sums'[cur] = sums[cur] /\ Net(cur)' = Net(cur)
      BY <1>0, <2>4 DEF Debit, PostingsTypeOK, Net
    <3> QED BY <1>0, <3>1, <3>2, <3>3 DEF Congruent
  <2>5. ASSUME NEW cur \in Currency, Credit(e) PROVE Congruent(Net(cur), sums[cur])'
    <3>1. Congruent(Net(cur) + -e.amount, Wrap(sums[cur] + -e.amount))
      <4>1. Net(cur) \in Int /\ sums[cur] \in Int /\ Congruent(Net(cur), sums[cur])
        BY <1>0 DEF Net
      <4> QED BY <2>2, <4>1, CongruentWrapped
    <3>2. e.currency = cur => /\ sums'[cur] = Wrap(sums[cur] + -e.amount)
                              /\ Net(cur)' = Net(cur) + -e.amount
      <4>1. sums[cur] - e.amount = sums[cur] + -e.amount
        BY <1>0, <2>2
      <4> QED BY <1>0, <2>2, <2>5, <4>1 DEF Credit, PostingsTypeOK, Net
    <3>3. e.currency # cur => sums'[cur] = sums[cur] /\ Net(cur)' = Net(cur)
      BY <1>0, <2>5 DEF Credit, PostingsTypeOK, Net
    <3> QED BY <1>0, <3>1, <3>2, <3>3 DEF Congruent
  <2>6. Debit(e) \/ Credit(e) => verdict' = "scanning"
    BY <1>1 DEF Debit, Credit, Scan
  <2> QED BY <1>1, <2>1, <2>3, <2>4, <2>5, <2>6 DEF Scan, WrappedInv
<1>2. CASE Finish
  BY <1>0, <1>2 DEF Finish, WrappedInv, PostingsTypeOK, Net
<1>3. CASE UNCHANGED vars
  BY <1>0, <1>3 DEF vars, WrappedInv, PostingsTypeOK, Net
<1> QED BY <1>1, <1>2, <1>3 DEF Next

(***************************************************************************)
(* A posting of any number of entries that ValidateBalanced accepts        *)
(* balances in each currency, unless its debits and credits differ by 2^64 *)
(* or more: the sums wrap around, and that is all that can go wrong.       *)
(***************************************************************************)
THEOREM OnlyWrappingUnbalances == Spec => []BalancedUnlessWrapped
<1>1. ASSUME WrappedInv PROVE BalancedUnlessWrapped
  <2>1. \A cur \in Currency : debits[cur] \in Int /\ credits[cur] \in Int /\ sums[cur] \in Int
    <3>1. PostingsTypeOK
      BY <1>1 DEF WrappedInv
    <3> QED BY <3>1, PostingsAssumption DEF PostingsTypeOK
  <2>2. \A cur \in Currency : (debits[cur] - credits[cur] - sums[cur]) % (2 * Half) = 0
    BY <1>1 DEF WrappedInv, Congruent, Net
  <2>3. ASSUME verdict = "accepted", NEW cur \in Currency,
               debits[cur] - credits[cur] \in 1 - 2 * Half .. 2 * Half - 1
        PROVE  debits[cur] = credits[cur]
    <3> DEFINE m == 2 * Half
               x == debits[cur] - credits[cur]
    <3>1. m \in Nat \ {0} /\ x \in Int /\ -m < x /\ x < m
      BY <2>1, <2>3, PostingsAssumption
    <3>2. x % m = 0
      <4>1. sums[cur] = 0
        BY <1>1, <2>3 DEF WrappedInv
      <4>2. x - 0 = x
        BY <3>1
      <4> QED BY <2>2, <4>1, <4>2
    <3>3. x = 0
      <4> HIDE DEF m, x
      <4> QED BY <3>1, <3>2, SmallMultiple
    <3> QED BY <2>1, <3>3
  <2> QED BY <2>2, <2>3 DEF BalancedUnlessWrapped
<1> QED BY <1>1, WrappedInit, WrappedStep, PTL DEF Spec

=============================================================================
