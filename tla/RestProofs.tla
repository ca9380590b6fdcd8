----------------------------- MODULE RestProofs -----------------------------
(***************************************************************************)
(* The two read endpoints of internal/httpapi, for any number of clients   *)
(* and requests: listEntries shows each entry once and leaves none out,    *)
(* for every page limit; getBalance shows nothing older than the TTL and   *)
(* the time of one request, for every TTL and delay.                       *)
(***************************************************************************)
EXTENDS EntryPages, BalanceCache, FiniteSetTheorems, TLAPS

-----------------------------------------------------------------------------
(* The least and the greatest element of a set of numbers.                 *)

LEMMA LeastExists ==
    ASSUME NEW S \in SUBSET Nat, S # {}
    PROVE  \E x \in S : \A y \in S : x <= y
<1> DEFINE Less == {ss \in Nat \X Nat : ss[1] < ss[2]}
<1>1. IsWellFoundedOn(Less, Nat)
  BY NatLessThanWellFounded DEF OpToRel
<1>2. PICK m \in S : \A k \in S : ~ (<<k, m>> \in Less)
  <2> HIDE DEF Less
  <2> QED BY <1>1, WFMin
<1>3. ASSUME NEW k \in S PROVE m <= k
  <2>1. m \in Nat /\ k \in Nat
    OBVIOUS
  <2>2. ~ (k < m)
    BY <1>2, <2>1
  <2> QED BY <2>1, <2>2
<1> QED BY <1>3

LEMMA GreatestExists ==
    ASSUME NEW n \in Nat, NEW S \in SUBSET (0 .. n), S # {}
    PROVE  \E x \in S : \A y \in S : x >= y
<1> DEFINE T == {n - x : x \in S}
<1>0. \A x \in S : x \in Nat /\ x <= n /\ n - x \in Nat
  OBVIOUS
<1>1. T \in SUBSET Nat /\ T # {}
  BY <1>0
<1>2. PICK t \in T : \A u \in T : t <= u
  <2> HIDE DEF T
  <2> QED BY <1>1, LeastExists
<1>3. PICK x \in S : t = n - x
  BY <1>2
<1>4. ASSUME NEW y \in S PROVE x >= y
  <2>1. n - y \in T
    OBVIOUS
  <2>2. n - x <= n - y
    BY <1>2, <1>3, <2>1
  <2> QED BY <1>0, <2>2
<1> QED BY <1>4

LEMMA MinIsLeast ==
    ASSUME NEW S \in SUBSET Nat, S # {}
    PROVE  Min(S) \in S /\ \A y \in S : Min(S) <= y
BY LeastExists DEF Min

LEMMA MaxIsGreatest ==
    ASSUME NEW n \in Nat, NEW S \in SUBSET (0 .. n), S # {}
    PROVE  Max(S) \in S /\ \A y \in S : Max(S) >= y
BY GreatestExists DEF Max

-----------------------------------------------------------------------------
(* listEntries.                                                            *)

\* The elements of S above i, which decide whether i is on the page.
Above(S, i) == {j \in S : j > i}

LEMMA AboveFinite ==
    ASSUME NEW S \in SUBSET (1 .. MaxId), NEW i \in S
    PROVE  /\ IsFiniteSet(S) /\ Cardinality(S) \in Nat
           /\ IsFiniteSet(Above(S, i)) /\ Cardinality(Above(S, i)) \in Nat
<1>1. IsFiniteSet(1 .. MaxId)
  BY FS_Interval, PagesAssumption
<1>2. Above(S, i) \in SUBSET (1 .. MaxId)
  BY DEF Above
<1> QED BY <1>1, <1>2, FS_Subset, FS_CardinalityType

LEMMA IdsAreNumbers ==
    ASSUME NEW S \in SUBSET (1 .. MaxId), NEW i \in S
    PROVE  i \in Nat /\ 1 <= i /\ i <= MaxId
BY PagesAssumption

LEMMA NewestAbove ==
    ASSUME NEW S, NEW n
    PROVE  Newest(S, n) = {i \in S : Cardinality(Above(S, i)) < n}
BY DEF Newest, Above

\* "order by id desc limit n": what is on the page is above what is not.
LEMMA PageUpward ==
    ASSUME NEW S \in SUBSET (1 .. MaxId), NEW n \in Nat,
           NEW i \in Newest(S, n), NEW j \in S, j >= i
    PROVE  j \in Newest(S, n)
<1>1. i \in S /\ Cardinality(Above(S, i)) < n
  BY NewestAbove
<1>2. Above(S, j) \subseteq Above(S, i)
  <2>1. ASSUME NEW k \in S, k > j PROVE k > i
    BY <1>1, <2>1, IdsAreNumbers
  <2> QED BY <2>1 DEF Above
<1>3. Cardinality(Above(S, j)) <= Cardinality(Above(S, i))
  BY <1>1, <1>2, AboveFinite, FS_Subset
<1>4. Cardinality(Above(S, j)) < n
  <2>1. Cardinality(Above(S, j)) \in Nat /\ Cardinality(Above(S, i)) \in Nat
    BY <1>1, AboveFinite
  <2> QED BY <1>1, <1>3, <2>1
<1> QED BY <1>4, NewestAbove

\* A page is short only if it has all there is.
LEMMA ShortPageIsAll ==
    ASSUME NEW S \in SUBSET (1 .. MaxId), NEW n \in Nat \ {0},
           NEW P, P = Newest(S, n), Cardinality(P) # n
    PROVE  P = S
<1> SUFFICES ASSUME P # S PROVE FALSE
  OBVIOUS
<1>0. P \subseteq S /\ n \in Nat /\ S \subseteq Nat /\ P \subseteq Nat
  <2>1. P \subseteq S /\ n \in Nat
    BY NewestAbove
  <2>2. S \subseteq Nat
    BY IdsAreNumbers
  <2> QED BY <2>1, <2>2
<1>1. PICK i \in S : i \notin P /\ \A k \in S : k \notin P => i >= k
  <2> DEFINE R == S \ P
  <2>1. R \in SUBSET (0 .. MaxId) /\ MaxId \in Nat /\ R # {}
    <3>1. \A x \in S : x \in 0 .. MaxId
      BY IdsAreNumbers, PagesAssumption
    <3> QED BY <1>0, <3>1, PagesAssumption
  <2>2. PICK i \in R : \A k \in R : i >= k
    <3> HIDE DEF R
    <3> QED BY <2>1, GreatestExists
  <2> QED BY <2>2
<1>2. P = Above(S, i)
  <2>1. ASSUME NEW j \in P PROVE j > i
    <3>1. ~ (i >= j)
      BY <1>0, <1>1, PageUpward
    <3>2. i \in Nat /\ j \in Nat
      BY <1>0, <1>1
    <3> QED BY <3>1, <3>2
  <2>2. ASSUME NEW j \in S, j > i PROVE j \in P
    <3>1. i \in Nat /\ j \in Nat
      BY <1>0, <1>1
    <3> QED BY <1>1, <2>2, <3>1
  <2> QED BY <1>0, <2>1, <2>2 DEF Above
<1>3. Cardinality(P) \in Nat /\ Cardinality(P) >= n /\ IsFiniteSet(P)
  <2>1. ~ (Cardinality(Above(S, i)) < n)
    BY <1>1, NewestAbove
  <2>2. Cardinality(Above(S, i)) \in Nat /\ IsFiniteSet(Above(S, i))
    BY <1>1, AboveFinite
  <2> QED BY <1>0, <1>2, <2>1, <2>2
<1>4. P # {}
  BY <1>3, FS_EmptySet
<1>5. PICK m \in P : \A k \in P : m <= k
  BY <1>0, <1>4, LeastExists
<1>6. Above(S, m) = P \ {m}
  <2>0. m \in Nat /\ m \in S
    BY <1>0
  <2>1. ASSUME NEW j \in S, j > m PROVE j \in P
    <3>1. j \in Nat /\ j >= m
      BY <1>0, <2>0, <2>1
    <3> QED BY <1>0, <3>1, PageUpward
  <2>2. ASSUME NEW j \in P, j # m PROVE j > m
    <3>1. j \in Nat /\ m <= j
      BY <1>0, <1>5
    <3> QED BY <2>0, <2>2, <3>1
  <2>3. ~ (m > m)
    BY <2>0
  <2> QED BY <1>0, <2>1, <2>2, <2>3 DEF Above
<1>7. Cardinality(P \ {m}) < n
  BY <1>5, <1>6, NewestAbove
<1>8. Cardinality(P \ {m}) = Cardinality(P) - 1
  BY <1>3, <1>5, FS_RemoveElement
<1>9. Cardinality(P) = n
  BY <1>0, <1>3, <1>7, <1>8
<1> QED BY <1>9

\* The cursor that goes with page P of the n newest entries below the client's.
LEMMA CursorFollowsPage ==
    ASSUME PagesTypeOK, NEW c \in Client, cursor[c] # End, NEW n \in Nat,
           NEW P, P = Newest(Below(c), n), NEW k, k = NextCursor(P)
    PROVE  /\ P \subseteq entries /\ \A i \in P : i < cursor[c] /\ k <= i
           /\ k \in End .. Start /\ k < cursor[c]
           /\ n = PageLimit => \A i \in entries : k <= i /\ i < cursor[c] => i \in P
<1> DEFINE S == Below(c)
<1>0. /\ S \in SUBSET (1 .. MaxId) /\ S \subseteq entries /\ \A i \in S : i < cursor[c]
      /\ cursor[c] \in Nat /\ cursor[c] <= MaxId + 1 /\ 0 < cursor[c]
      /\ MaxId \in Nat /\ PageLimit \in Nat \ {0}
  <2>1. S \in SUBSET (1 .. MaxId) /\ S \subseteq entries /\ \A i \in S : i < cursor[c]
    BY DEF PagesTypeOK, Below
  <2>2. cursor[c] \in 0 .. MaxId + 1 /\ cursor[c] # 0
    BY DEF PagesTypeOK, Start, End
  <2> QED BY <2>1, <2>2, PagesAssumption
<1> HIDE DEF S
<1>1. P \subseteq S
  BY NewestAbove DEF S
<1>2. \A i \in P : i \in Nat /\ 1 <= i /\ i <= MaxId /\ i < cursor[c] /\ i \in entries
  <2>1. \A i \in S : i \in Nat /\ 1 <= i /\ i <= MaxId
    BY <1>0, IdsAreNumbers
  <2> QED BY <1>0, <1>1, <2>1
<1>3. CASE Cardinality(P) = PageLimit
  <2>1. k = Min(P) /\ P # {} /\ P \in SUBSET Nat
    BY <1>0, <1>2, <1>3, FS_EmptySet DEF NextCursor
  <2>2. k \in P /\ \A i \in P : k <= i
    BY <2>1, MinIsLeast
  <2>3. ASSUME NEW i \in entries, k <= i, i < cursor[c] PROVE i \in P
    <3>1. i \in S /\ i >= k
      <4>1. i \in Nat /\ k \in Nat
        BY <1>2, <2>2, PagesAssumption DEF PagesTypeOK
      <4> QED BY <2>3, <4>1 DEF S, Below
    <3>2. k \in Newest(S, n) /\ P = Newest(S, n)
      BY <2>2 DEF S
    <3> QED BY <1>0, <3>1, <3>2, PageUpward
  <2> QED BY <1>0, <1>2, <2>2, <2>3 DEF Start, End
<1>4. CASE Cardinality(P) # PageLimit
  <2>1. k = 0
    BY <1>4 DEF NextCursor, End
  <2>2. n = PageLimit => P = S
    <3>1. P = Newest(S, n)
      BY DEF S
    <3> QED BY <1>0, <1>4, <3>1, ShortPageIsAll
  <2>3. \A i \in entries : i < cursor[c] => i \in S
    BY DEF S, Below
  <2> QED BY <1>0, <1>2, <2>1, <2>2, <2>3 DEF Start, End
<1> QED BY <1>3, <1>4

\* A page, cut or not, keeps what the client knows true.
LEMMA ShowKeeps ==
    ASSUME PagesInv, NEW c \in Client, cursor[c] # End, NEW n \in Nat,
           Show(c, Newest(Below(c), n)),
           (cut' = cut /\ n = PageLimit) \/ cut' = [cut EXCEPT ![c] = TRUE]
    PROVE  PagesInv'
<1>0. PagesTypeOK /\ NothingTwice /\ CompleteUnlessCut /\ ReadFromTop
  BY DEF PagesInv
<1>a. /\ MaxId \in Nat
      /\ entries' = entries /\ \A i \in entries : i \in Nat /\ 1 <= i /\ i <= MaxId
      /\ \A d \in Client : /\ cursor[d] \in Nat /\ cursor[d] <= Start /\ newest[d] \in Nat
                           /\ seen[d] \subseteq entries /\ cut[d] \in BOOLEAN
  BY <1>0, PagesAssumption DEF PagesTypeOK, Show, Start, End
<1>1. PICK P : P = Newest(Below(c), n)
  OBVIOUS
<1>2. PICK k : k = NextCursor(P)
  OBVIOUS
<1>3. PICK z : z = IF cursor[c] = Start THEN Max(entries \cup {0}) ELSE newest[c]
  OBVIOUS
<1>4. /\ P \subseteq entries /\ \A i \in P : i < cursor[c] /\ k <= i
      /\ k \in End .. Start /\ k < cursor[c]
      /\ n = PageLimit => \A i \in entries : k <= i /\ i < cursor[c] => i \in P
  BY <1>0, <1>1, <1>2, CursorFollowsPage
<1>5. /\ z \in entries \cup {0}
      /\ cut[c] \/ \A i \in entries : cursor[c] <= i /\ i <= z => i \in seen[c]
  <2>1. CASE cursor[c] = Start
    <3>1. entries \cup {0} \in SUBSET (0 .. MaxId) /\ entries \cup {0} # {}
      BY <1>a
    <3>2. Max(entries \cup {0}) \in entries \cup {0}
      BY <1>a, <3>1, MaxIsGreatest
    <3> QED BY <1>a, <1>3, <2>1, <3>2 DEF Start
  <2>2. CASE cursor[c] # Start
    BY <1>0, <1>3, <2>2 DEF ReadFromTop
  <2> QED BY <2>1, <2>2
<1>6. /\ seen' = [seen EXCEPT ![c] = seen[c] \cup P]
      /\ twice' = [twice EXCEPT ![c] = twice[c] \cup (P \cap seen[c])]
      /\ newest' = [newest EXCEPT ![c] = z]
      /\ cursor' = [cursor EXCEPT ![c] = k]
  BY <1>1, <1>2, <1>3 DEF Show
<1>7. P \cap seen[c] = {}
  <2>1. \A i \in seen[c] : cursor[c] <= i /\ i \in Nat
    BY <1>0, <1>a DEF ReadFromTop
  <2> QED BY <1>4, <1>a, <2>1
<1>8. PagesTypeOK'
  <2>1. z \in 0 .. MaxId
    BY <1>5, <1>a
  <2> QED BY <1>0, <1>a, <1>4, <1>6, <2>1 DEF PagesTypeOK
<1>9. NothingTwice'
  BY <1>0, <1>6, <1>7 DEF NothingTwice, PagesTypeOK
<1>10. ReadFromTop'
  <2> DEFINE Top(d) == /\ \A i \in seen[d] : cursor[d] <= i
                       /\ newest[d] \in entries \cup {0}
                       /\ cut[d] \/ \A i \in entries :
                                cursor[d] <= i /\ i <= newest[d] => i \in seen[d]
  <2>1. ASSUME NEW d \in Client, d # c PROVE Top(d)'
    <3>1. /\ seen'[d] = seen[d] /\ newest'[d] = newest[d] /\ cursor'[d] = cursor[d]
          /\ cut'[d] = cut[d]
      BY <1>0, <1>6, <2>1 DEF PagesTypeOK
    <3> QED BY <1>0, <1>a, <3>1 DEF ReadFromTop
  <2>2. Top(c)'
    <3>1. /\ seen'[c] = seen[c] \cup P /\ newest'[c] = z /\ cursor'[c] = k
          /\ (n = PageLimit /\ cut'[c] = cut[c]) \/ cut'[c]
      BY <1>0, <1>6 DEF PagesTypeOK
    <3>2. \A i \in seen[c] \cup P : k <= i
      <4>1. \A i \in seen[c] : cursor[c] <= i /\ i \in Nat
        BY <1>0, <1>a DEF ReadFromTop
      <4> QED BY <1>4, <1>a, <4>1 DEF Start, End
    <3>3. cut'[c] \/ \A i \in entries : k <= i /\ i <= z => i \in seen[c] \cup P
      <4>1. ASSUME n = PageLimit, ~ cut[c], NEW i \in entries, k <= i, i <= z
            PROVE  i \in seen[c] \cup P
        <5>1. i < cursor[c] \/ cursor[c] <= i
          BY <1>a
        <5> QED BY <1>4, <1>5, <4>1, <5>1
      <4> QED BY <3>1, <4>1
    <3> QED BY <1>5, <1>a, <3>1, <3>2, <3>3
  <2> QED BY <2>1, <2>2 DEF ReadFromTop
<1>11. CompleteUnlessCut'
  <2>1. \A i \in entries' : 0 <= i
    BY <1>a
  <2> QED BY <1>10, <2>1 DEF ReadFromTop, CompleteUnlessCut, Complete, End
<1> QED BY <1>8, <1>9, <1>10, <1>11 DEF PagesInv

LEMMA CommitKeeps ==
    ASSUME PagesInv, NEW i \in 1 .. MaxId, Commit(i)
    PROVE  PagesInv'
<1>0. PagesTypeOK /\ NothingTwice /\ CompleteUnlessCut /\ ReadFromTop
  BY DEF PagesInv
<1>1. /\ entries' = entries \cup {i} /\ \A j \in entries : j < i
      /\ UNCHANGED <<cursor, seen, twice, newest, cut>>
  BY DEF Commit, Later
<1>2. PagesTypeOK'
  BY <1>0, <1>1 DEF PagesTypeOK
<1>3. \A c \in Client : ~ (i <= newest[c])
  <2>1. i \in Nat /\ 0 < i /\ \A j \in entries : j \in Nat
    BY <1>0, PagesAssumption DEF PagesTypeOK
  <2>2. \A c \in Client : newest[c] \in entries \cup {0}
    BY <1>0 DEF ReadFromTop
  <2> QED BY <1>1, <2>1, <2>2
<1>4. NothingTwice'
  BY <1>0, <1>1 DEF NothingTwice
<1>5. ReadFromTop'
  BY <1>0, <1>1, <1>3 DEF ReadFromTop
<1>6. CompleteUnlessCut'
  BY <1>0, <1>1, <1>3 DEF CompleteUnlessCut, Complete
<1> QED BY <1>2, <1>4, <1>5, <1>6 DEF PagesInv

LEMMA RestartKeeps ==
    ASSUME PagesInv, NEW c \in Client, Restart(c)
    PROVE  PagesInv'
<1>0. PagesTypeOK /\ NothingTwice /\ CompleteUnlessCut /\ ReadFromTop
  BY DEF PagesInv
<1>1. \A i \in entries : i \in Nat /\ i <= MaxId /\ ~ (Start <= i)
  BY <1>0, PagesAssumption DEF PagesTypeOK, Start
<1>2. Start \in End .. Start /\ Start # End /\ 0 \in 0 .. MaxId
  BY PagesAssumption DEF Start, End
<1>3. PagesTypeOK'
  BY <1>0, <1>2 DEF PagesTypeOK, Restart
<1>4. NothingTwice'
  BY <1>0 DEF NothingTwice, PagesTypeOK, Restart
<1>5. ReadFromTop'
  BY <1>0, <1>1 DEF ReadFromTop, PagesTypeOK, Restart
<1>6. CompleteUnlessCut'
  BY <1>0, <1>2 DEF CompleteUnlessCut, Complete, PagesTypeOK, Restart
<1> QED BY <1>3, <1>4, <1>5, <1>6 DEF PagesInv

(***************************************************************************)
(* Whatever the page limit, and whatever is committed between two pages, a *)
(* client of listEntries is shown no entry twice, and all entries up to    *)
(* the newest of the first page, unless the connection was lost in the     *)
(* middle of a page.                                                       *)
(***************************************************************************)
THEOREM PagesInvariant == Spec => []PagesInv
<1>1. Init => PagesInv
  <2> SUFFICES ASSUME Init PROVE PagesInv
    OBVIOUS
  <2>1. Start \in End .. Start /\ Start # End /\ 0 \in 0 .. MaxId
    BY PagesAssumption DEF Start, End
  <2>2. PagesTypeOK
    BY <2>1 DEF Init, PagesTypeOK
  <2> QED
    BY <2>1, <2>2
       DEF Init, PagesInv, NothingTwice, CompleteUnlessCut, Complete, ReadFromTop
<1>2. PagesInv /\ [Next]_vars => PagesInv'
  <2> SUFFICES ASSUME PagesInv, [Next]_vars PROVE PagesInv'
    OBVIOUS
  <2>1. ASSUME NEW i \in 1 .. MaxId, Commit(i) PROVE PagesInv'
    BY <2>1, CommitKeeps
  <2>2. ASSUME NEW c \in Client, ListEntries(c) PROVE PagesInv'
    BY <2>2, ShowKeeps, PagesAssumption DEF ListEntries
  <2>3. ASSUME NEW c \in Client, ListEntriesCut(c) PROVE PagesInv'
    <3>1. PICK n \in 0 .. Cardinality(Newest(Below(c), PageLimit)) - 1 :
                Show(c, Newest(Below(c), n))
      BY <2>3 DEF ListEntriesCut
    <3>2. n \in Nat
      OBVIOUS
    <3> QED BY <2>3, <3>1, <3>2, ShowKeeps DEF ListEntriesCut
  <2>4. ASSUME NEW c \in Client, Restart(c) PROVE PagesInv'
    BY <2>4, RestartKeeps
  <2>5. CASE UNCHANGED vars
    BY <2>5
       DEF vars, PagesInv, PagesTypeOK, NothingTwice, CompleteUnlessCut, Complete, ReadFromTop
  <2> QED BY <2>1, <2>2, <2>3, <2>4, <2>5 DEF Next
<1> QED BY <1>1, <1>2, PTL DEF Spec

-----------------------------------------------------------------------------
(* getBalance.                                                             *)

\* The last change of the balance.
LEMMA LastOf ==
    ASSUME NEW n \in Nat, NEW T \in SUBSET (0 .. n), T # {},
           NEW m, m = CHOOSE t \in T : \A s \in T : s <= t
    PROVE  m \in T /\ \A s \in T : s <= m
<1>1. \E x \in T : \A y \in T : x >= y
  BY GreatestExists
<1>2. \A x, y \in T : x >= y <=> y <= x
  OBVIOUS
<1> QED BY <1>1, <1>2

\* The change after b.
LEMMA NextOf ==
    ASSUME NEW n \in Nat, NEW T \in SUBSET (0 .. n), NEW b \in T, NEW u \in T, u > b,
           NEW m, m = CHOOSE t \in T : t > b /\ \A s \in T : s > b => t <= s
    PROVE  m \in T /\ m > b /\ \A s \in T : s > b => m <= s
<1> DEFINE U == {s \in T : s > b}
<1>0. \A s \in T : s \in Nat
  OBVIOUS
<1>1. U \in SUBSET Nat /\ U # {}
  BY <1>0
<1>2. PICK x \in U : \A y \in U : x <= y
  <2> HIDE DEF U
  <2> QED BY <1>1, LeastExists
<1>3. x \in T /\ x > b /\ \A s \in T : s > b => x <= s
  BY <1>2
<1> QED BY <1>3

LEMMA TimesAreNumbers ==
    ASSUME CacheTypeOK
    PROVE  /\ now \in Nat /\ since \in SUBSET (0 .. now) /\ since # {}
           /\ \A s \in since : s \in Nat /\ s <= now
<1>1. now \in Nat /\ since \in SUBSET (0 .. now) /\ 0 \in since
  BY CacheAssumption DEF CacheTypeOK
<1>2. \A s \in since : s \in Nat /\ s <= now
  BY <1>1
<1> QED BY <1>1, <1>2

LEMMA CurrentIsLast ==
    ASSUME CacheTypeOK
    PROVE  Current \in since /\ \A s \in since : s <= Current
<1>1. PICK m : m = Current
  OBVIOUS
<1>2. m = CHOOSE t \in since : \A s \in since : s <= t
  BY <1>1 DEF Current
<1> QED BY <1>1, <1>2, TimesAreNumbers, LastOf

\* A balance holds from its own time on until the next one, or until now.
LEMMA HeldUntilIs ==
    ASSUME CacheTypeOK, NEW b \in since
    PROVE  /\ HeldUntil(b) \in Nat /\ b <= HeldUntil(b) /\ HeldUntil(b) <= now
           /\ b = Current => HeldUntil(b) = now
           /\ b # Current => /\ HeldUntil(b) \in since /\ HeldUntil(b) > b
                             /\ \A s \in since : s > b => HeldUntil(b) <= s
<1>0. /\ now \in Nat /\ since \in SUBSET (0 .. now)
      /\ \A s \in since : s \in Nat /\ s <= now
  BY TimesAreNumbers
<1>1. CASE b = Current
  BY <1>0, <1>1 DEF HeldUntil
<1>2. CASE b # Current
  <2>1. Current \in since /\ Current > b
    <3>1. Current \in since /\ b <= Current
      BY CurrentIsLast
    <3> QED BY <1>0, <1>2, <3>1
  <2>2. PICK m : m = HeldUntil(b)
    OBVIOUS
  <2>3. m = CHOOSE t \in since : t > b /\ \A s \in since : s > b => t <= s
    BY <1>2, <2>2 DEF HeldUntil
  <2>4. m \in since /\ m > b /\ \A s \in since : s > b => m <= s
    BY <1>0, <2>1, <2>3, NextOf
  <2> QED BY <1>0, <1>2, <2>2, <2>4
<1> QED BY <1>1, <1>2

\* A change ends the balance that was current, no earlier than now.
LEMMA WriteEndsCurrent ==
    ASSUME CacheTypeOK, LedgerWrites, NEW b \in since
    PROVE  HeldUntil(b) <= HeldUntil(b)' /\ HeldUntil(b)' \in Nat
<1>0. /\ now \in Nat /\ since \in SUBSET (0 .. now)
      /\ \A s \in since : s \in Nat /\ s <= now
  BY TimesAreNumbers
<1>1. since' = since \cup {now} /\ now \notin since /\ now' = now
  BY DEF LedgerWrites
<1>2. PICK T : T = since'
  OBVIOUS
<1>3. T \in SUBSET (0 .. now) /\ T # {} /\ b \in T /\ now \in T
  BY <1>0, <1>1, <1>2
<1>4. b # now /\ now > b
  BY <1>0, <1>1
<1>5. Current' = now
  <2>1. PICK c : c = Current'
    OBVIOUS
  <2>2. c = CHOOSE t \in T : \A s \in T : s <= t
    BY <1>2, <2>1 DEF Current
  <2>3. c \in T /\ now <= c
    BY <1>0, <1>3, <2>2, LastOf
  <2> QED BY <1>0, <1>3, <2>1, <2>3
<1>6. PICK m : m = HeldUntil(b)'
  OBVIOUS
<1>7. m = CHOOSE t \in T : t > b /\ \A s \in T : s > b => t <= s
  BY <1>2, <1>4, <1>5, <1>6 DEF HeldUntil
<1>8. m \in T /\ m > b
  BY <1>0, <1>3, <1>4, <1>7, NextOf
<1>9. HeldUntil(b) <= m
  <2>1. CASE m = now
    BY <2>1, HeldUntilIs
  <2>2. CASE m \in since
    <3>1. b # Current
      BY <1>0, <1>8, <2>2, CurrentIsLast
    <3> QED BY <1>8, <2>2, <3>1, HeldUntilIs
  <2> QED BY <1>1, <1>2, <1>8, <2>1, <2>2
<1>10. m \in Nat
  BY <1>0, <1>1, <1>2, <1>8
<1> QED BY <1>6, <1>9, <1>10

\* As time passes the current balance holds longer, and the others as long as
\* they did.
LEMMA TickHoldsLonger ==
    ASSUME CacheTypeOK, Tick, NEW b \in since
    PROVE  HeldUntil(b) <= HeldUntil(b)' /\ HeldUntil(b)' \in Nat
<1>1. since' = since /\ now' = now + 1 /\ now \in Nat
  BY TimesAreNumbers DEF Tick
<1>2. Current' = Current
  BY <1>1 DEF Current
<1>3. HeldUntil(b) \in Nat /\ (b = Current => HeldUntil(b) = now)
  BY HeldUntilIs
<1>4. CASE b = Current
  BY <1>1, <1>2, <1>3, <1>4 DEF HeldUntil
<1>5. CASE b # Current
  <2>1. HeldUntil(b)' = HeldUntil(b)
    BY <1>1, <1>2, <1>5 DEF HeldUntil
  <2> QED BY <1>3, <2>1
<1> QED BY <1>4, <1>5

\* What CacheInv says of one request.
Serving(r) ==
    /\ pc[r] \in {"stamp", "set"} =>
            /\ ReadAt(dto[r], begun[r]) /\ dto[r].source = "ledger"
            /\ now <= begun[r] + MaxDelay
            /\ pc[r] = "set" => begun[r] <= dto[r].asOf /\ dto[r].asOf <= now
    /\ pc[r] = "done" =>
            /\ dto[r] \in DTO /\ dto[r].balance \in since
            /\ Staleness(r) < TTL + MaxDelay
            /\ dto[r].source = "ledger" => Staleness(r) <= MaxDelay
            /\ dto[r].balance <= dto[r].asOf
            /\ dto[r].asOf <= HeldUntil(dto[r].balance) + MaxDelay

LEMMA CacheInvParts ==
    CacheInv <=> CacheTypeOK /\ CacheLabelled /\ \A r \in Request : Serving(r)
BY DEF CacheInv, RequestsRead, AnswersFromLedger, StalenessBounded, AsOfLabelsBalance, Serving

LEMMA CacheInvPartsNext ==
    CacheInv' <=> CacheTypeOK' /\ CacheLabelled' /\ \A r \in Request : Serving(r)'
BY DEF CacheInv, RequestsRead, AnswersFromLedger, StalenessBounded, AsOfLabelsBalance, Serving

LEMMA DtoFields ==
    ASSUME NEW d \in DTO
    PROVE  d.balance \in Nat /\ d.asOf \in Nat /\ d.source \in {"ledger", "cache"}
BY DEF DTO

\* The ledger changes, or time passes while no answer is being looked at.
LEMMA WorldStep ==
    ASSUME CacheInv, UNCHANGED <<cache, pc, dto, begun>>, CacheTypeOK',
           now' = now \/ \A r \in Request : pc[r] # "done",
           \A r \in Request : pc[r] \in {"stamp", "set"} => now' <= begun[r] + MaxDelay,
           now <= now', since \subseteq since',
           \A b \in since : HeldUntil(b) <= HeldUntil(b)' /\ HeldUntil(b)' \in Nat
    PROVE  CacheInv'
<1>0. CacheTypeOK /\ CacheLabelled /\ \A r \in Request : Serving(r)
  BY CacheInvParts
<1>1. /\ now \in Nat /\ now' \in Nat /\ TTL \in Nat /\ MaxDelay \in Nat
      /\ \A b \in since : HeldUntil(b) \in Nat
  BY <1>0, HeldUntilIs, CacheAssumption DEF CacheTypeOK
<1>2. CacheLabelled'
  <2> SUFFICES ASSUME cache # None PROVE CacheLabelled'
    BY DEF CacheLabelled
  <2>1. PICK d : d = cache.value
    OBVIOUS
  <2>2. /\ d \in DTO /\ d.balance \in since /\ d.source = "ledger" /\ cache.expires \in Nat
        /\ d.balance <= d.asOf /\ d.asOf <= HeldUntil(d.balance) + MaxDelay
        /\ cache.expires <= HeldUntil(d.balance) + MaxDelay + TTL
    BY <1>0, <2>1 DEF CacheTypeOK, CacheLabelled
  <2>3. PICK h : h = HeldUntil(d.balance)'
    OBVIOUS
  <2>4. h \in Nat /\ HeldUntil(d.balance) \in Nat /\ HeldUntil(d.balance) <= h
    BY <1>1, <2>2, <2>3
  <2>5. d.asOf <= h + MaxDelay /\ cache.expires <= h + MaxDelay + TTL
    BY <1>1, <2>2, <2>4, DtoFields
  <2> QED BY <2>1, <2>2, <2>3, <2>5 DEF CacheLabelled
<1>3. ASSUME NEW r \in Request PROVE Serving(r)'
  <2>0. Serving(r)
    BY <1>0
  <2>1. PICK d : d = dto[r]
    OBVIOUS
  <2>2. PICK h : h = HeldUntil(d.balance)'
    OBVIOUS
  <2>3. begun[r] \in Nat
    BY <1>0, <1>1 DEF CacheTypeOK
  <2>4. ASSUME pc[r] \in {"stamp", "set"}
        PROVE  /\ ReadAt(dto[r], begun[r])' /\ dto[r].source = "ledger"
               /\ pc[r] = "set" => begun[r] <= dto[r].asOf /\ dto[r].asOf <= now'
    <3>1. /\ d \in DTO /\ d.balance \in since /\ d.source = "ledger"
          /\ d.balance <= begun[r] /\ begun[r] <= HeldUntil(d.balance)
          /\ pc[r] = "set" => begun[r] <= d.asOf /\ d.asOf <= now
      BY <2>0, <2>1, <2>4 DEF Serving, ReadAt
    <3>2. begun[r] <= h /\ d.asOf \in Nat
      BY <1>1, <2>2, <2>3, <3>1, DtoFields
    <3>3. pc[r] = "set" => d.asOf <= now'
      BY <1>1, <3>1, <3>2
    <3> QED BY <2>1, <2>2, <3>1, <3>2, <3>3 DEF ReadAt
  <2>5. ASSUME pc[r] = "done"
        PROVE  /\ d \in DTO /\ d.balance \in since'
               /\ now' - h < TTL + MaxDelay
               /\ d.source = "ledger" => now' - h <= MaxDelay
               /\ d.balance <= d.asOf /\ d.asOf <= h + MaxDelay
    <3>1. /\ d \in DTO /\ d.balance \in since
          /\ now - HeldUntil(d.balance) < TTL + MaxDelay
          /\ d.source = "ledger" => now - HeldUntil(d.balance) <= MaxDelay
          /\ d.balance <= d.asOf /\ d.asOf <= HeldUntil(d.balance) + MaxDelay
      BY <2>0, <2>1, <2>5 DEF Serving, Staleness
    <3>2. /\ now' = now /\ h \in Nat /\ HeldUntil(d.balance) \in Nat /\ d.asOf \in Nat
          /\ HeldUntil(d.balance) <= h
      BY <1>1, <2>2, <2>5, <3>1, DtoFields
    <3>3. /\ now' - h < TTL + MaxDelay
          /\ d.source = "ledger" => now' - h <= MaxDelay
          /\ d.asOf <= h + MaxDelay
      BY <1>1, <3>1, <3>2
    <3> QED BY <3>1, <3>2, <3>3
  <2> QED BY <2>1, <2>2, <2>4, <2>5 DEF Serving, Staleness
<1> QED BY <1>0, <1>2, <1>3, CacheInvPartsNext

\* One request takes a step: the ledger and the time stay, and so does what is
\* known of the others.
LEMMA RequestStep ==
    ASSUME CacheInv, UNCHANGED <<now, since>>, CacheTypeOK', CacheLabelled', NEW r \in Request,
           \A q \in Request \ {r} : pc'[q] = pc[q] /\ dto'[q] = dto[q] /\ begun'[q] = begun[q],
           Serving(r)'
    PROVE  CacheInv'
<1>1. ASSUME NEW q \in Request \ {r} PROVE Serving(q)'
  <2>1. Serving(q)
    BY CacheInvParts
  <2>2. pc'[q] = pc[q] /\ dto'[q] = dto[q] /\ begun'[q] = begun[q]
    OBVIOUS
  <2> QED BY <2>1, <2>2 DEF Serving, ReadAt, Staleness, HeldUntil, Current
<1> QED BY <1>1, CacheInvPartsNext

\* A step that leaves the key in Redis alone.
LEMMA LabelKept ==
    ASSUME CacheInv, UNCHANGED <<now, since, cache>>
    PROVE  CacheLabelled'
BY DEF CacheInv, CacheLabelled, HeldUntil, Current

LEMMA GetKeeps ==
    ASSUME CacheInv, NEW r \in Request, Get(r)
    PROVE  CacheInv'
<1>0. CacheTypeOK /\ CacheLabelled
  BY DEF CacheInv
<1>1. UNCHANGED <<now, since, cache, begun>>
  BY DEF Get
<1>2. CASE Live(cache)
  <2>1. PICK v : v = cache.value
    OBVIOUS
  <2>2. PICK d : d = [v EXCEPT !.source = "cache"]
    OBVIOUS
  <2>3. /\ pc' = [pc EXCEPT ![r] = "done"] /\ dto' = [dto EXCEPT ![r] = d]
        /\ cache # None /\ now < cache.expires
    BY <1>2, <2>1, <2>2 DEF Get, Live
  <2>4. /\ v \in DTO /\ v.balance \in since /\ cache.expires \in Nat
        /\ v.balance <= v.asOf /\ v.asOf <= HeldUntil(v.balance) + MaxDelay
        /\ cache.expires <= HeldUntil(v.balance) + MaxDelay + TTL
    BY <1>0, <2>1, <2>3 DEF CacheTypeOK, CacheLabelled
  <2>5. d \in DTO /\ d.source = "cache" /\ d.balance = v.balance /\ d.asOf = v.asOf
    BY <2>2, <2>4 DEF DTO
  <2>6. CacheTypeOK'
    BY <1>0, <1>1, <2>3, <2>5 DEF CacheTypeOK
  <2>7. Serving(r)'
    <3>1. pc'[r] = "done" /\ dto'[r] = d
      BY <1>0, <2>3 DEF CacheTypeOK
    <3>2. HeldUntil(d.balance)' = HeldUntil(v.balance)
      BY <1>1, <2>5 DEF HeldUntil, Current
    <3>3. now - HeldUntil(v.balance) < TTL + MaxDelay
      <4>1. HeldUntil(v.balance) \in Nat /\ now \in Nat /\ TTL \in Nat /\ MaxDelay \in Nat
        BY <1>0, <2>4, HeldUntilIs, TimesAreNumbers, CacheAssumption
      <4> QED BY <2>3, <2>4, <4>1
    <3> QED BY <1>1, <2>4, <2>5, <3>1, <3>2, <3>3 DEF Serving, Staleness
  <2>8. \A q \in Request \ {r} : pc'[q] = pc[q] /\ dto'[q] = dto[q] /\ begun'[q] = begun[q]
    BY <1>0, <1>1, <2>3 DEF CacheTypeOK
  <2> QED BY <1>1, <2>6, <2>7, <2>8, LabelKept, RequestStep
<1>3. CASE ~ Live(cache)
  <2>1. pc' = [pc EXCEPT ![r] = "query"] /\ dto' = dto
    BY <1>3 DEF Get
  <2>2. CacheTypeOK'
    BY <1>0, <1>1, <2>1 DEF CacheTypeOK
  <2>3. /\ pc'[r] = "query"
        /\ \A q \in Request \ {r} : pc'[q] = pc[q] /\ dto'[q] = dto[q] /\ begun'[q] = begun[q]
    BY <1>0, <1>1, <2>1 DEF CacheTypeOK
  <2>4. Serving(r)'
    BY <2>3 DEF Serving
  <2> QED BY <1>1, <2>2, <2>3, <2>4, LabelKept, RequestStep
<1> QED BY <1>2, <1>3

LEMMA GetFailsKeeps ==
    ASSUME CacheInv, NEW r \in Request, GetFails(r)
    PROVE  CacheInv'
<1>0. CacheTypeOK
  BY DEF CacheInv
<1>1. UNCHANGED <<now, since, cache, dto, begun>> /\ pc' = [pc EXCEPT ![r] = "query"]
  BY DEF GetFails
<1>2. CacheTypeOK'
  BY <1>0, <1>1 DEF CacheTypeOK
<1>3. /\ pc'[r] = "query"
      /\ \A q \in Request \ {r} : pc'[q] = pc[q] /\ dto'[q] = dto[q] /\ begun'[q] = begun[q]
  BY <1>0, <1>1 DEF CacheTypeOK
<1>4. Serving(r)'
  BY <1>3 DEF Serving
<1> QED BY <1>1, <1>2, <1>3, <1>4, LabelKept, RequestStep

LEMMA QueryKeeps ==
    ASSUME CacheInv, NEW r \in Request, Query(r)
    PROVE  CacheInv'
<1>0. CacheTypeOK /\ now \in Nat
  BY TimesAreNumbers DEF CacheInv
<1>1. PICK d : d = [balance |-> Current, asOf |-> 0, source |-> "ledger"]
  OBVIOUS
<1>2. /\ UNCHANGED <<now, since, cache>> /\ pc' = [pc EXCEPT ![r] = "stamp"]
      /\ dto' = [dto EXCEPT ![r] = d] /\ begun' = [begun EXCEPT ![r] = now]
  BY <1>1 DEF Query
<1>3. Current \in since /\ Current \in Nat /\ Current <= now
  BY <1>0, CurrentIsLast, TimesAreNumbers
<1>4. d \in DTO /\ d.balance = Current /\ d.source = "ledger"
  BY <1>1, <1>3 DEF DTO
<1>5. CacheTypeOK'
  <2>1. now \in 0 .. now
    BY <1>0
  <2> QED BY <1>0, <1>2, <1>4, <2>1 DEF CacheTypeOK
<1>6. /\ pc'[r] = "stamp" /\ dto'[r] = d /\ begun'[r] = now
      /\ \A q \in Request \ {r} : pc'[q] = pc[q] /\ dto'[q] = dto[q] /\ begun'[q] = begun[q]
  BY <1>0, <1>2 DEF CacheTypeOK
<1>7. Serving(r)'
  <2>1. HeldUntil(d.balance)' = now
    BY <1>2, <1>4 DEF HeldUntil, Current
  <2>2. now <= now + MaxDelay /\ now <= now
    BY <1>0, CacheAssumption
  <2> QED BY <1>2, <1>3, <1>4, <1>6, <2>1, <2>2 DEF Serving, ReadAt
<1> QED BY <1>2, <1>5, <1>6, <1>7, LabelKept, RequestStep

LEMMA StampKeeps ==
    ASSUME CacheInv, NEW r \in Request, Stamp(r)
    PROVE  CacheInv'
<1>0. CacheTypeOK /\ now \in Nat /\ Serving(r) /\ pc[r] = "stamp"
  BY CacheInvParts, TimesAreNumbers DEF Stamp
<1>1. PICK v : v = dto[r]
  OBVIOUS
<1>2. PICK d : d = [v EXCEPT !.asOf = now]
  OBVIOUS
<1>3. /\ UNCHANGED <<now, since, cache, begun>> /\ pc' = [pc EXCEPT ![r] = "set"]
      /\ dto' = [dto EXCEPT ![r] = d]
  BY <1>1, <1>2 DEF Stamp
<1>4. /\ v \in DTO /\ v.balance \in since /\ v.balance <= begun[r]
      /\ begun[r] <= HeldUntil(v.balance) /\ v.source = "ledger" /\ now <= begun[r] + MaxDelay
  BY <1>0, <1>1 DEF Serving, ReadAt
<1>5. d \in DTO /\ d.source = "ledger" /\ d.balance = v.balance /\ d.asOf = now
  BY <1>0, <1>2, <1>4 DEF DTO
<1>6. CacheTypeOK'
  BY <1>0, <1>3, <1>5 DEF CacheTypeOK
<1>7. /\ pc'[r] = "set" /\ dto'[r] = d /\ begun'[r] = begun[r]
      /\ \A q \in Request \ {r} : pc'[q] = pc[q] /\ dto'[q] = dto[q] /\ begun'[q] = begun[q]
  BY <1>0, <1>3 DEF CacheTypeOK
<1>8. Serving(r)'
  <2>1. HeldUntil(d.balance)' = HeldUntil(v.balance)
    BY <1>3, <1>5 DEF HeldUntil, Current
  <2>2. begun[r] <= now /\ now <= now
    BY <1>0 DEF CacheTypeOK
  <2> QED BY <1>3, <1>4, <1>5, <1>7, <2>1, <2>2 DEF Serving, ReadAt
<1> QED BY <1>3, <1>6, <1>7, <1>8, LabelKept, RequestStep

LEMMA SetKeeps ==
    ASSUME CacheInv, NEW r \in Request, Set(r)
    PROVE  CacheInv'
<1>0. CacheTypeOK /\ CacheLabelled /\ now \in Nat /\ Serving(r) /\ pc[r] = "set"
  BY CacheInvParts, TimesAreNumbers DEF Set
<1>1. PICK d : d = dto[r]
  OBVIOUS
<1>2. PICK e : e = [value |-> d, expires |-> now + TTL]
  OBVIOUS
<1>3. /\ UNCHANGED <<now, since, dto, begun>> /\ pc' = [pc EXCEPT ![r] = "done"]
      /\ cache' = cache \/ cache' = e
  BY <1>1, <1>2 DEF Set
<1>4. /\ d \in DTO /\ d.balance \in since /\ d.balance <= begun[r]
      /\ begun[r] <= HeldUntil(d.balance) /\ d.source = "ledger" /\ now <= begun[r] + MaxDelay
      /\ begun[r] <= d.asOf /\ d.asOf <= now
  BY <1>0, <1>1 DEF Serving, ReadAt
<1>5. /\ begun[r] \in Nat /\ HeldUntil(d.balance) \in Nat /\ d.balance \in Nat /\ d.asOf \in Nat
      /\ TTL \in Nat /\ TTL > 0 /\ MaxDelay \in Nat
  <2>1. begun[r] \in Nat
    BY <1>0 DEF CacheTypeOK
  <2>2. HeldUntil(d.balance) \in Nat
    BY <1>0, <1>4, HeldUntilIs
  <2> QED BY <1>4, <2>1, <2>2, DtoFields, CacheAssumption
<1>6. /\ d.balance <= d.asOf /\ d.asOf <= HeldUntil(d.balance) + MaxDelay
      /\ now - HeldUntil(d.balance) <= MaxDelay
      /\ now - HeldUntil(d.balance) < TTL + MaxDelay
      /\ now + TTL <= HeldUntil(d.balance) + MaxDelay + TTL
  BY <1>0, <1>4, <1>5
<1>7. HeldUntil(d.balance)' = HeldUntil(d.balance)
  BY <1>3 DEF HeldUntil, Current
<1>8. e \in [value : DTO, expires : Nat] /\ e.value = d /\ e.expires = now + TTL
  BY <1>0, <1>2, <1>4, <1>5
<1>9. CacheTypeOK'
  BY <1>0, <1>3, <1>8 DEF CacheTypeOK
<1>10. CacheLabelled'
  <2>1. CASE cache' = cache
    BY <1>3, <2>1, LabelKept
  <2>2. CASE cache' = e
    BY <1>3, <1>4, <1>6, <1>7, <1>8, <2>2 DEF CacheLabelled
  <2> QED BY <1>3, <2>1, <2>2
<1>11. /\ pc'[r] = "done" /\ dto'[r] = d
       /\ \A q \in Request \ {r} : pc'[q] = pc[q] /\ dto'[q] = dto[q] /\ begun'[q] = begun[q]
  BY <1>0, <1>1, <1>3 DEF CacheTypeOK
<1>12. Serving(r)'
  BY <1>3, <1>4, <1>6, <1>7, <1>11 DEF Serving, Staleness
<1> QED BY <1>3, <1>9, <1>10, <1>11, <1>12, RequestStep

LEMMA AgainKeeps ==
    ASSUME CacheInv, NEW r \in Request, Again(r)
    PROVE  CacheInv'
<1>0. CacheTypeOK /\ 0 \in 0 .. now
  BY TimesAreNumbers DEF CacheInv
<1>1. /\ UNCHANGED <<now, since, cache>> /\ pc' = [pc EXCEPT ![r] = "get"]
      /\ dto' = [dto EXCEPT ![r] = None] /\ begun' = [begun EXCEPT ![r] = 0]
  BY DEF Again
<1>2. CacheTypeOK'
  BY <1>0, <1>1 DEF CacheTypeOK
<1>3. /\ pc'[r] = "get"
      /\ \A q \in Request \ {r} : pc'[q] = pc[q] /\ dto'[q] = dto[q] /\ begun'[q] = begun[q]
  BY <1>0, <1>1 DEF CacheTypeOK
<1>4. Serving(r)'
  BY <1>3 DEF Serving
<1> QED BY <1>1, <1>2, <1>3, <1>4, LabelKept, RequestStep

LEMMA LedgerWritesKeeps ==
    ASSUME CacheInv, LedgerWrites
    PROVE  CacheInv'
<1>0. CacheTypeOK /\ now \in Nat /\ since \in SUBSET (0 .. now)
  BY TimesAreNumbers DEF CacheInv
<1>1. UNCHANGED <<now, cache, pc, dto, begun>> /\ since' = since \cup {now}
  BY DEF LedgerWrites
<1>2. CacheTypeOK'
  BY <1>0, <1>1 DEF CacheTypeOK
<1>3. \A r \in Request : pc[r] \in {"stamp", "set"} => now' <= begun[r] + MaxDelay
  BY <1>1 DEF CacheInv, RequestsRead
<1>4. now <= now'
  BY <1>0, <1>1
<1> QED BY <1>0, <1>1, <1>2, <1>3, <1>4, WriteEndsCurrent, WorldStep

LEMMA TickKeeps ==
    ASSUME CacheInv, Tick
    PROVE  CacheInv'
<1>0. CacheTypeOK /\ now \in Nat /\ Horizon \in Nat /\ MaxDelay \in Nat
  BY TimesAreNumbers, CacheAssumption DEF CacheInv
<1>1. /\ UNCHANGED <<since, cache, pc, dto, begun>> /\ now' = now + 1 /\ now < Horizon
      /\ \A r \in Request : pc[r] # "done"
  BY DEF Tick
<1>2. CacheTypeOK'
  <2>1. now' \in 0 .. Horizon
    BY <1>0, <1>1
  <2>2. \A x \in 0 .. now : x \in 0 .. now'
    BY <1>0, <1>1
  <2>3. since' \subseteq 0 .. now' /\ 0 \in since'
    BY <1>0, <1>1, <2>2 DEF CacheTypeOK
  <2>4. begun' \in [Request -> 0 .. now']
    BY <1>0, <1>1, <2>2 DEF CacheTypeOK
  <2> QED BY <1>0, <1>1, <2>1, <2>3, <2>4 DEF CacheTypeOK
<1>3. ASSUME NEW r \in Request, pc[r] \in {"stamp", "set"} PROVE now' <= begun[r] + MaxDelay
  <2>1. now - begun[r] < MaxDelay
    BY <1>3 DEF Tick
  <2>2. begun[r] \in Nat
    BY <1>0 DEF CacheTypeOK
  <2> QED BY <1>0, <1>1, <2>1, <2>2
<1>4. now <= now'
  BY <1>0, <1>1
<1> QED BY <1>0, <1>1, <1>2, <1>3, <1>4, TickHoldsLonger, WorldStep

(***************************************************************************)
(* For every TTL and every delay between the read of the ledger and the    *)
(* answer: a balance that getBalance shows was the ledger's less than TTL  *)
(* and one delay ago, and its as_of neither predates it nor is later than  *)
(* its end by more than the delay, in whatever order requests fill Redis.  *)
(***************************************************************************)
THEOREM CacheInvariant == CacheSpec => []CacheInv
<1>1. CacheInit => CacheInv
  <2> SUFFICES ASSUME CacheInit PROVE CacheInv
    OBVIOUS
  <2>1. CacheTypeOK
    BY CacheAssumption DEF CacheInit, CacheTypeOK
  <2>2. CacheLabelled
    BY DEF CacheInit, CacheLabelled
  <2>3. \A r \in Request : Serving(r)
    BY DEF CacheInit, Serving
  <2> QED BY <2>1, <2>2, <2>3, CacheInvParts
<1>2. CacheInv /\ [CacheNext]_cacheVars => CacheInv'
  <2> SUFFICES ASSUME CacheInv, [CacheNext]_cacheVars PROVE CacheInv'
    OBVIOUS
  <2>1. CASE LedgerWrites
    BY <2>1, LedgerWritesKeeps
  <2>2. CASE Tick
    BY <2>2, TickKeeps
  <2>3. CASE \E r \in Request : Get(r) \/ GetFails(r) \/ Query(r) \/ Stamp(r) \/ Set(r) \/ Again(r)
    BY <2>3, GetKeeps, GetFailsKeeps, QueryKeeps, StampKeeps, SetKeeps, AgainKeeps
  <2>4. CASE UNCHANGED cacheVars
    <3>1. CacheTypeOK' /\ CacheLabelled'
      BY <2>4, LabelKept DEF cacheVars, CacheInv, CacheTypeOK
    <3>2. ASSUME NEW r \in Request PROVE Serving(r)'
      <4>1. Serving(r)
        BY CacheInvParts
      <4> QED BY <2>4, <4>1 DEF cacheVars, Serving, ReadAt, Staleness, HeldUntil, Current
    <3> QED BY <3>1, <3>2, CacheInvPartsNext
  <2> QED BY <2>1, <2>2, <2>3, <2>4 DEF CacheNext
<1> QED BY <1>1, <1>2, PTL DEF CacheSpec

=============================================================================
