-------------------------------- MODULE Sums --------------------------------
(***************************************************************************)
(* Facts about SumFunction of the community module Functions, for every    *)
(* finite index set.  The ledger's derived balances (reconcile.go) are     *)
(* such sums, over the holds and over the postings; the proofs about them  *)
(* only use the theorems at the end of this module.  With them, facts      *)
(* about the short sequences in which Transactions keeps its statements.   *)
(*                                                                         *)
(* The sum is defined by recursion over the subsets of the index set.  The *)
(* induction is carried out with sets: the family of subsets (or the set   *)
(* of numbers) for which a fact fails has no minimal element.              *)
(***************************************************************************)
EXTENDS Integers, Sequences, Functions, FiniteSetTheorems, SequenceTheorems, TLAPS

\* The element the recursion removes first.
Pick(T) == CHOOSE x \in T : TRUE

\* One unfolding of the recursion: the value at T, given the values g below it.
SumAt(f, g, T) == IF T = {} THEN 0 ELSE f[Pick(T)] + g[T \ {Pick(T)}]

\* The recursive function SumFunctionOnSet applies to the whole index set.
SumIter(f, S) == CHOOSE g : g = [T \in SUBSET S |-> SumAt(f, g, T)]

-----------------------------------------------------------------------------

(***************************************************************************)
(* Induction over the natural numbers, stated about a set.                 *)
(***************************************************************************)
LEMMA NatSetInduction ==
    ASSUME NEW B \in SUBSET Nat, 0 \in B, \A n \in B : n + 1 \in B
    PROVE  B = Nat
<1> DEFINE C == Nat \ B
<1> SUFFICES ASSUME C # {} PROVE FALSE
    OBVIOUS
<1> DEFINE Less == {ss \in Nat \X Nat : ss[1] < ss[2]}
<1>1. PICK m \in C : \A k \in C : ~ (<<k, m>> \in Less)
    <2>1. C \subseteq Nat
        OBVIOUS
    <2>2. IsWellFoundedOn(Less, Nat)
        BY NatLessThanWellFounded DEF OpToRel
    <2> HIDE DEF C, Less
    <2> QED
        BY <2>1, <2>2, WFMin
<1>2. m # 0 /\ m \in Nat
    OBVIOUS
<1>3. m - 1 \in Nat /\ m - 1 < m
    BY <1>2
<1>4. m - 1 \notin C
    BY <1>1, <1>2, <1>3
<1>5. m - 1 \in B /\ (m - 1) + 1 = m
    BY <1>3, <1>4
<1> QED
    BY <1>5

(***************************************************************************)
(* Induction over the subsets of a finite set, stated about a family.      *)
(***************************************************************************)
LEMMA SubsetInduction ==
    ASSUME NEW S, IsFiniteSet(S), NEW B \in SUBSET (SUBSET S),
           {} \in B,
           \A T \in SUBSET S : T # {} /\ T \ {Pick(T)} \in B => T \in B
    PROVE  B = SUBSET S
<1> DEFINE C == (SUBSET S) \ B
<1> SUFFICES ASSUME C # {} PROVE FALSE
    OBVIOUS
<1>1. PICK T \in C : \A U \in C : ~ (<<U, T>> \in StrictSubsetOrdering(S))
    <2>1. C \subseteq SUBSET S
        OBVIOUS
    <2>2. IsWellFoundedOn(StrictSubsetOrdering(S), SUBSET S)
        <3>1. IsWellFoundedOn(StrictSubsetOrdering(S), FiniteSubsetsOf(S))
            BY FS_StrictSubsetOrderingWellFounded
        <3>2. FiniteSubsetsOf(S) = SUBSET S
            BY FS_FiniteSubsetsOfFinite
        <3> QED
            BY <3>1, <3>2
    <2> HIDE DEF C
    <2> QED
        BY <2>1, <2>2, WFMin
<1>2. T \in SUBSET S /\ T # {}
    OBVIOUS
<1>3. Pick(T) \in T
    BY <1>2 DEF Pick
<1>4. T \ {Pick(T)} \notin C
    <2> DEFINE U == T \ {Pick(T)}
    <2>1. U \in SUBSET S /\ U \subseteq T /\ U # T
        BY <1>2, <1>3
    <2>2. <<U, T>> \in StrictSubsetOrdering(S)
        <3> HIDE DEF U
        <3> QED
            BY <1>2, <2>1 DEF StrictSubsetOrdering
    <2> QED
        BY <1>1, <2>2
<1> QED
    BY <1>2, <1>4

-----------------------------------------------------------------------------

(***************************************************************************)
(* The recursion has a solution: values for the subsets of at most n       *)
(* elements extend to those of n + 1 elements.                             *)
(***************************************************************************)
LEMMA SumIterExists ==
    ASSUME NEW S, IsFiniteSet(S), NEW f \in [S -> Int]
    PROVE  \E g \in [SUBSET S -> Int] : \A T \in SUBSET S : g[T] = SumAt(f, g, T)
<1> DEFINE Upto(n) == \E g \in [SUBSET S -> Int] :
                         \A T \in SUBSET S : Cardinality(T) <= n => g[T] = SumAt(f, g, T)
           B == {n \in Nat : Upto(n)}
<1>0. \A T \in SUBSET S : IsFiniteSet(T) /\ Cardinality(T) \in Nat
    BY FS_Subset, FS_CardinalityType
<1>1. 0 \in B
    <2> DEFINE g == [T \in SUBSET S |-> 0]
    <2>1. \A T \in SUBSET S : Cardinality(T) <= 0 => T = {}
        BY <1>0, FS_EmptySet
    <2>2. \A T \in SUBSET S : Cardinality(T) <= 0 => g[T] = SumAt(f, g, T)
        BY <2>1 DEF SumAt
    <2>3. g \in [SUBSET S -> Int]
        OBVIOUS
    <2> QED
        BY <2>2, <2>3
<1>2. ASSUME NEW n \in B PROVE n + 1 \in B
    <2>1. PICK g \in [SUBSET S -> Int] :
             \A T \in SUBSET S : Cardinality(T) <= n => g[T] = SumAt(f, g, T)
        OBVIOUS
    <2> DEFINE h == [T \in SUBSET S |-> IF Cardinality(T) <= n THEN g[T] ELSE SumAt(f, g, T)]
    <2>2. ASSUME NEW T \in SUBSET S, T # {}
          PROVE  /\ Pick(T) \in S
                 /\ T \ {Pick(T)} \in SUBSET S
                 /\ Cardinality(T \ {Pick(T)}) = Cardinality(T) - 1
        <3>1. Pick(T) \in T
            BY <2>2 DEF Pick
        <3> QED
            BY <3>1, <1>0, FS_RemoveElement
    <2>3. \A T \in SUBSET S : SumAt(f, g, T) \in Int
        <3> SUFFICES ASSUME NEW T \in SUBSET S PROVE SumAt(f, g, T) \in Int
            OBVIOUS
        <3>1. CASE T = {}
            BY <3>1 DEF SumAt
        <3>2. CASE T # {}
            <4>1. f[Pick(T)] \in Int /\ g[T \ {Pick(T)}] \in Int
                BY <2>2, <3>2
            <4> QED
                BY <4>1, <3>2 DEF SumAt
        <3> QED
            BY <3>1, <3>2
    <2>4. h \in [SUBSET S -> Int]
        BY <2>3
    <2>5. ASSUME NEW T \in SUBSET S, Cardinality(T) <= n + 1
          PROVE  h[T] = SumAt(f, h, T)
        <3>1. CASE T = {}
            <4>1. h[T] = SumAt(f, g, T)
                BY <2>1
            <4> QED
                BY <4>1, <3>1 DEF SumAt
        <3>2. CASE T # {}
            <4> DEFINE R == T \ {Pick(T)}
            <4>1. R \in SUBSET S /\ Cardinality(R) <= n
                BY <2>2, <2>5, <3>2, <1>0
            <4>2. h[R] = g[R]
                BY <4>1
            <4>3. SumAt(f, h, T) = SumAt(f, g, T)
                BY <4>2 DEF SumAt
            <4>4. h[T] = SumAt(f, g, T)
                BY <2>1
            <4> QED
                BY <4>3, <4>4
        <3> QED
            BY <3>1, <3>2
    <2>6. Upto(n + 1)
        <3> HIDE DEF h
        <3> QED
            BY <2>4, <2>5
    <2> QED
        BY <2>6
<1>3. B = Nat
    <2>1. B \in SUBSET Nat
        OBVIOUS
    <2> HIDE DEF B
    <2> QED
        BY <1>1, <1>2, <2>1, NatSetInduction
<1>4. Cardinality(S) \in B
    BY <1>0, <1>3
<1>5. PICK g \in [SUBSET S -> Int] :
         \A T \in SUBSET S : Cardinality(T) <= Cardinality(S) => g[T] = SumAt(f, g, T)
    BY <1>4
<1>6. \A T \in SUBSET S : Cardinality(T) <= Cardinality(S)
    BY FS_Subset
<1> QED
    BY <1>5, <1>6

(***************************************************************************)
(* So SumIter satisfies its own defining equation, with integer values.    *)
(***************************************************************************)
LEMMA SumIterEquation ==
    ASSUME NEW S, IsFiniteSet(S), NEW f \in [S -> Int]
    PROVE  /\ \A T \in SUBSET S : SumIter(f, S)[T] \in Int
           /\ \A T \in SUBSET S : SumIter(f, S)[T] = SumAt(f, SumIter(f, S), T)
<1> DEFINE G == SumIter(f, S)
<1>1. \E g : g = [T \in SUBSET S |-> SumAt(f, g, T)]
    <2>1. PICK g \in [SUBSET S -> Int] : \A T \in SUBSET S : g[T] = SumAt(f, g, T)
        BY SumIterExists
    <2>2. g = [T \in SUBSET S |-> SumAt(f, g, T)]
        BY <2>1
    <2> QED
        BY <2>2
<1>2. G = [T \in SUBSET S |-> SumAt(f, G, T)]
    BY <1>1 DEF SumIter
<1> HIDE DEF G
<1>3. \A T \in SUBSET S : G[T] = SumAt(f, G, T)
    BY <1>2
<1> DEFINE B == {T \in SUBSET S : G[T] \in Int}
<1>4. {} \in B
    <2>1. {} \in SUBSET S
        OBVIOUS
    <2>2. G[{}] = 0
        BY <1>3, <2>1 DEF SumAt
    <2> QED
        BY <2>1, <2>2
<1>5. ASSUME NEW T \in SUBSET S, T # {}, T \ {Pick(T)} \in B
      PROVE  T \in B
    <2>1. Pick(T) \in S
        BY <1>5 DEF Pick
    <2>2. G[T] = f[Pick(T)] + G[T \ {Pick(T)}]
        BY <1>3, <1>5 DEF SumAt
    <2> QED
        BY <1>5, <2>1, <2>2
<1>6. B = SUBSET S
    <2>1. B \in SUBSET (SUBSET S)
        OBVIOUS
    <2> HIDE DEF B
    <2> QED
        BY <1>4, <1>5, <2>1, SubsetInduction
<1> QED
    BY <1>3, <1>6 DEF G

(***************************************************************************)
(* SumFunction is the recursive function at the whole index set.           *)
(***************************************************************************)
LEMMA SumFunctionIter ==
    ASSUME NEW S, NEW f \in [S -> Int]
    PROVE  SumFunction(f) = SumIter(f, S)[S]
<1>1. DOMAIN f = S
    OBVIOUS
<1>2. SumFunction(f) = SumFunctionOnSet(f, S)
    BY <1>1 DEF SumFunction
<1> QED
    BY <1>2 DEF SumFunctionOnSet, FoldFunctionOnSet, MapThenFoldSet, SumIter, SumAt, Pick

-----------------------------------------------------------------------------

(***************************************************************************)
(* A sum of integers is an integer.                                        *)
(***************************************************************************)
THEOREM SumType ==
    ASSUME NEW S, IsFiniteSet(S), NEW f \in [S -> Int]
    PROVE  SumFunction(f) \in Int
<1>1. S \in SUBSET S
    OBVIOUS
<1> QED
    BY <1>1, SumFunctionIter, SumIterEquation

(***************************************************************************)
(* The sum is linear: adding summand by summand adds the sums.             *)
(***************************************************************************)
THEOREM SumLinear ==
    ASSUME NEW S, IsFiniteSet(S),
           NEW f \in [S -> Int], NEW g \in [S -> Int], NEW h \in [S -> Int],
           \A x \in S : h[x] = f[x] + g[x]
    PROVE  SumFunction(h) = SumFunction(f) + SumFunction(g)
<1> DEFINE F == SumIter(f, S)
           G == SumIter(g, S)
           H == SumIter(h, S)
           B == {T \in SUBSET S : H[T] = F[T] + G[T]}
<1>1. \A T \in SUBSET S : /\ F[T] \in Int /\ F[T] = SumAt(f, F, T)
                          /\ G[T] \in Int /\ G[T] = SumAt(g, G, T)
                          /\ H[T] \in Int /\ H[T] = SumAt(h, H, T)
    BY SumIterEquation
<1> HIDE DEF F, G, H
<1>2. {} \in B
    <2>1. {} \in SUBSET S
        OBVIOUS
    <2>2. F[{}] = 0 /\ G[{}] = 0 /\ H[{}] = 0
        BY <1>1, <2>1 DEF SumAt
    <2> QED
        BY <2>1, <2>2
<1>3. ASSUME NEW T \in SUBSET S, T # {}, T \ {Pick(T)} \in B
      PROVE  T \in B
    <2> DEFINE x == Pick(T)
               R == T \ {x}
    <2>1. x \in S /\ R \in SUBSET S
        BY <1>3 DEF Pick
    <2>2. F[T] = f[x] + F[R] /\ G[T] = g[x] + G[R] /\ H[T] = h[x] + H[R]
        BY <1>1, <1>3 DEF SumAt
    <2>3. H[R] = F[R] + G[R]
        BY <1>3
    <2>4. h[x] = f[x] + g[x] /\ f[x] \in Int /\ g[x] \in Int
        BY <2>1
    <2>5. F[R] \in Int /\ G[R] \in Int
        BY <1>1, <2>1
    <2> HIDE DEF x, R
    <2>6. H[T] = F[T] + G[T]
        BY <2>2, <2>3, <2>4, <2>5
    <2> QED
        BY <2>6
<1>4. B = SUBSET S
    <2>1. B \in SUBSET (SUBSET S)
        OBVIOUS
    <2> HIDE DEF B
    <2> QED
        BY <1>2, <1>3, <2>1, SubsetInduction
<1>5. H[S] = F[S] + G[S]
    BY <1>4
<1> QED
    BY <1>5, SumFunctionIter DEF F, G, H

(***************************************************************************)
(* A sum with one summand that is not zero is that summand.                *)
(***************************************************************************)
THEOREM SumSingle ==
    ASSUME NEW S, IsFiniteSet(S), NEW f \in [S -> Int], NEW c \in S,
           \A x \in S : x # c => f[x] = 0
    PROVE  SumFunction(f) = f[c]
<1> DEFINE F == SumIter(f, S)
           B == {T \in SUBSET S : F[T] = IF c \in T THEN f[c] ELSE 0}
<1>1. \A T \in SUBSET S : F[T] \in Int /\ F[T] = SumAt(f, F, T)
    BY SumIterEquation
<1> HIDE DEF F
<1>2. {} \in B
    <2>1. {} \in SUBSET S
        OBVIOUS
    <2>2. F[{}] = 0
        BY <1>1, <2>1 DEF SumAt
    <2> QED
        BY <2>1, <2>2
<1>3. ASSUME NEW T \in SUBSET S, T # {}, T \ {Pick(T)} \in B
      PROVE  T \in B
    <2> DEFINE x == Pick(T)
               R == T \ {x}
    <2>1. x \in T /\ x \in S /\ R \in SUBSET S
        BY <1>3 DEF Pick
    <2>2. F[T] = f[x] + F[R]
        BY <1>1, <1>3 DEF SumAt
    <2>3. F[R] = IF c \in R THEN f[c] ELSE 0
        BY <1>3
    <2>4. f[c] \in Int
        OBVIOUS
    <2>5. CASE x = c
        BY <2>1, <2>2, <2>3, <2>4, <2>5
    <2>6. CASE x # c
        <3>1. f[x] = 0 /\ (c \in R <=> c \in T)
            BY <2>1, <2>6
        <3> HIDE DEF x, R
        <3>2. F[T] = IF c \in T THEN f[c] ELSE 0
            BY <2>2, <2>3, <2>4, <3>1
        <3> QED
            BY <3>2
    <2> QED
        BY <2>5, <2>6
<1>4. B = SUBSET S
    <2>1. B \in SUBSET (SUBSET S)
        OBVIOUS
    <2> HIDE DEF B
    <2> QED
        BY <1>2, <1>3, <2>1, SubsetInduction
<1>5. F[S] = f[c]
    BY <1>4
<1> QED
    BY <1>5, SumFunctionIter DEF F

(***************************************************************************)
(* A sum of zeros is zero.                                                 *)
(***************************************************************************)
THEOREM SumZero ==
    ASSUME NEW S, IsFiniteSet(S), NEW f \in [S -> Int],
           \A x \in S : f[x] = 0
    PROVE  SumFunction(f) = 0
<1>1. SumFunction(f) = SumFunction(f) + SumFunction(f)
    <2>1. \A x \in S : f[x] = f[x] + f[x]
        OBVIOUS
    <2> QED
        BY <2>1, SumLinear
<1>2. SumFunction(f) \in Int
    BY SumType
<1>3. \A n \in Int : n = n + n => n = 0
    OBVIOUS
<1> QED
    BY <1>1, <1>2, <1>3

(***************************************************************************)
(* A sum of summands that are not negative is not negative.                *)
(***************************************************************************)
THEOREM SumNonNegative ==
    ASSUME NEW S, IsFiniteSet(S), NEW f \in [S -> Int],
           \A x \in S : f[x] >= 0
    PROVE  SumFunction(f) >= 0
<1> DEFINE F == SumIter(f, S)
           B == {T \in SUBSET S : F[T] >= 0}
<1>1. \A T \in SUBSET S : F[T] \in Int /\ F[T] = SumAt(f, F, T)
    BY SumIterEquation
<1> HIDE DEF F
<1>2. {} \in B
    <2>1. {} \in SUBSET S
        OBVIOUS
    <2>2. F[{}] = 0
        BY <1>1, <2>1 DEF SumAt
    <2> QED
        BY <2>1, <2>2
<1>3. ASSUME NEW T \in SUBSET S, T # {}, T \ {Pick(T)} \in B
      PROVE  T \in B
    <2>1. Pick(T) \in S /\ T \ {Pick(T)} \in SUBSET S
        BY <1>3 DEF Pick
    <2>2. F[T] = f[Pick(T)] + F[T \ {Pick(T)}]
        BY <1>1, <1>3 DEF SumAt
    <2>3. f[Pick(T)] \in Int /\ f[Pick(T)] >= 0
        BY <2>1
    <2>4. F[T \ {Pick(T)}] \in Int /\ F[T \ {Pick(T)}] >= 0
        BY <1>1, <1>3, <2>1
    <2>5. F[T] >= 0
        BY <2>2, <2>3, <2>4
    <2> QED
        BY <2>5
<1>4. B = SUBSET S
    <2>1. B \in SUBSET (SUBSET S)
        OBVIOUS
    <2> HIDE DEF B
    <2> QED
        BY <1>2, <1>3, <2>1, SubsetInduction
<1>5. F[S] >= 0
    BY <1>4
<1> QED
    BY <1>5, SumFunctionIter DEF F

-----------------------------------------------------------------------------

(***************************************************************************)
(* Changing one summand changes the sum by the same difference.            *)
(***************************************************************************)
THEOREM SumUpdate ==
    ASSUME NEW S, IsFiniteSet(S), NEW f \in [S -> Int], NEW g \in [S -> Int],
           NEW c \in S, \A x \in S : x # c => g[x] = f[x]
    PROVE  SumFunction(g) = SumFunction(f) + (g[c] - f[c])
<1> DEFINE d == [x \in S |-> IF x = c THEN g[c] - f[c] ELSE 0]
<1>0. d \in [S -> Int]
    OBVIOUS
<1>1. d[c] = g[c] - f[c] /\ \A x \in S : x # c => d[x] = 0
    OBVIOUS
<1>2. \A x \in S : g[x] = f[x] + d[x]
    OBVIOUS
<1> HIDE DEF d
<1>3. SumFunction(d) = d[c]
    BY <1>0, <1>1, SumSingle
<1>4. SumFunction(g) = SumFunction(f) + SumFunction(d)
    BY <1>0, <1>2, SumLinear
<1> QED
    BY <1>1, <1>3, <1>4

(***************************************************************************)
(* No summand of a sum without negative summands exceeds it.               *)
(***************************************************************************)
THEOREM SumBounds ==
    ASSUME NEW S, IsFiniteSet(S), NEW f \in [S -> Int], NEW c \in S,
           \A x \in S : f[x] >= 0
    PROVE  f[c] <= SumFunction(f)
<1> DEFINE g == [x \in S |-> IF x = c THEN 0 ELSE f[x]]
<1>1. g \in [S -> Int] /\ g[c] = 0 /\ (\A x \in S : g[x] >= 0)
    OBVIOUS
<1>2. \A x \in S : x # c => g[x] = f[x]
    OBVIOUS
<1> HIDE DEF g
<1>3. SumFunction(g) >= 0
    BY <1>1, SumNonNegative
<1>4. SumFunction(g) = SumFunction(f) + (g[c] - f[c])
    BY <1>1, <1>2, SumUpdate
<1>5. SumFunction(f) \in Int /\ f[c] \in Int
    BY SumType
<1> QED
    BY <1>1, <1>3, <1>4, <1>5

(***************************************************************************)
(* The order of summation does not matter: any element may come first.     *)
(***************************************************************************)
LEMMA SumIterAny ==
    ASSUME NEW S, IsFiniteSet(S), NEW f \in [S -> Int], NEW T \in SUBSET S, NEW c \in T
    PROVE  SumIter(f, S)[T] = f[c] + SumIter(f, S)[T \ {c}]
<1> DEFINE F == SumIter(f, S)
           Good(U) == \A x \in U : F[U] = f[x] + F[U \ {x}]
           C == {U \in SUBSET S : ~ Good(U)}
<1>1. \A U \in SUBSET S : F[U] \in Int /\ F[U] = SumAt(f, F, U)
    BY SumIterEquation
<1> HIDE DEF F
<1>2. C = {}
    <2> SUFFICES ASSUME C # {} PROVE FALSE
        OBVIOUS
    <2>1. PICK U \in C : \A V \in C : ~ (<<V, U>> \in StrictSubsetOrdering(S))
        <3>1. C \subseteq SUBSET S
            OBVIOUS
        <3>2. IsWellFoundedOn(StrictSubsetOrdering(S), SUBSET S)
            BY FS_StrictSubsetOrderingWellFounded, FS_FiniteSubsetsOfFinite
        <3> HIDE DEF C
        <3> QED
            BY <3>1, <3>2, WFMin
    <2>2. U \in SUBSET S /\ ~ Good(U)
        OBVIOUS
    <2>3. ASSUME NEW V \in SUBSET S, V \subseteq U, V # U PROVE Good(V)
        <3>1. <<V, U>> \in StrictSubsetOrdering(S)
            BY <2>2, <2>3 DEF StrictSubsetOrdering
        <3>2. V \notin C
            BY <2>1, <3>1
        <3> HIDE DEF Good
        <3> QED
            BY <3>2
    <2>4. PICK x \in U : F[U] # f[x] + F[U \ {x}]
        BY <2>2
    <2> DEFINE p == Pick(U)
    <2>5. p \in U /\ F[U] = f[p] + F[U \ {p}]
        BY <1>1, <2>2, <2>4 DEF SumAt, Pick
    <2> HIDE DEF p
    <2>6. x # p /\ x \in S /\ p \in S
        BY <2>2, <2>4, <2>5
    <2> DEFINE R == U \ {x, p}
    <2>7. F[U \ {p}] = f[x] + F[R]
        <3>1. Good(U \ {p})
            BY <2>2, <2>3, <2>5
        <3>2. x \in U \ {p} /\ (U \ {p}) \ {x} = R
            BY <2>4, <2>6
        <3> QED
            BY <3>1, <3>2
    <2>8. F[U \ {x}] = f[p] + F[R]
        <3>1. Good(U \ {x})
            BY <2>2, <2>3, <2>4
        <3>2. p \in U \ {x} /\ (U \ {x}) \ {p} = R
            BY <2>5, <2>6
        <3> QED
            BY <3>1, <3>2
    <2>9. f[x] \in Int /\ f[p] \in Int /\ F[R] \in Int
        BY <1>1, <2>2, <2>6
    <2> HIDE DEF R
    <2> QED
        BY <2>4, <2>5, <2>7, <2>8, <2>9
<1>3. Good(T)
    BY <1>2
<1> QED
    BY <1>3 DEF F

(***************************************************************************)
(* A sum over part of the index set only depends on that part.             *)
(***************************************************************************)
LEMMA SumIterPart ==
    ASSUME NEW R, IsFiniteSet(R), NEW g \in [R -> Int], NEW S \in SUBSET R,
           NEW f \in [S -> Int], \A x \in S : f[x] = g[x]
    PROVE  SumIter(g, R)[S] = SumFunction(f)
<1> DEFINE F == SumIter(f, S)
           G == SumIter(g, R)
           B == {T \in SUBSET S : G[T] = F[T]}
<1>0. IsFiniteSet(S)
    BY FS_Subset
<1>1. /\ \A T \in SUBSET S : F[T] = SumAt(f, F, T)
      /\ \A T \in SUBSET R : G[T] = SumAt(g, G, T)
    BY <1>0, SumIterEquation
<1> HIDE DEF F, G
<1>2. {} \in B
    BY <1>1 DEF SumAt
<1>3. ASSUME NEW T \in SUBSET S, T # {}, T \ {Pick(T)} \in B
      PROVE  T \in B
    <2>1. Pick(T) \in S /\ T \in SUBSET R
        BY <1>3 DEF Pick
    <2>2. F[T] = f[Pick(T)] + F[T \ {Pick(T)}] /\ G[T] = g[Pick(T)] + G[T \ {Pick(T)}]
        BY <1>1, <1>3, <2>1 DEF SumAt
    <2> QED
        BY <1>3, <2>1, <2>2
<1>4. B = SUBSET S
    <2>1. B \in SUBSET (SUBSET S)
        OBVIOUS
    <2> HIDE DEF B
    <2> QED
        BY <1>0, <1>2, <1>3, <2>1, SubsetInduction
<1>5. G[S] = F[S]
    BY <1>4
<1> QED
    BY <1>5, SumFunctionIter DEF F, G

(***************************************************************************)
(* One more index adds its summand.                                        *)
(***************************************************************************)
THEOREM SumExtend ==
    ASSUME NEW S, IsFiniteSet(S), NEW c, c \notin S, NEW R, R = S \cup {c},
           NEW f \in [S -> Int], NEW g \in [R -> Int], \A x \in S : g[x] = f[x]
    PROVE  SumFunction(g) = SumFunction(f) + g[c]
<1>1. IsFiniteSet(R) /\ S \in SUBSET R /\ c \in R /\ R \ {c} = S /\ R \in SUBSET R
    BY FS_AddElement
<1>2. SumFunction(g) = SumIter(g, R)[R]
    BY <1>1, SumFunctionIter
<1>3. SumIter(g, R)[R] = g[c] + SumIter(g, R)[S]
    BY <1>1, SumIterAny
<1>4. SumIter(g, R)[S] = SumFunction(f)
    BY <1>1, SumIterPart
<1>5. SumFunction(f) \in Int /\ g[c] \in Int
    BY <1>1, SumType
<1> QED
    BY <1>2, <1>3, <1>4, <1>5

-----------------------------------------------------------------------------
(* Short sequences. *)

\* Concatenation of sequences of known length.
LEMMA ConcatFacts ==
    ASSUME NEW a, NEW b, NEW c, NEW d, NEW e
    PROVE  /\ <<>> \o <<>> = <<>>
           /\ <<>> \o <<a>> = <<a>> /\ <<a>> \o <<>> = <<a>>
           /\ <<>> \o <<a, b>> = <<a, b>> /\ <<a, b>> \o <<>> = <<a, b>>
           /\ <<>> \o <<a, b, c>> = <<a, b, c>> /\ <<a, b, c>> \o <<>> = <<a, b, c>>
           /\ <<>> \o <<a, b, c, d>> = <<a, b, c, d>>
           /\ <<a, b, c, d>> \o <<e>> = <<a, b, c, d, e>>
           /\ <<a, b, c, d, e>> \o <<>> = <<a, b, c, d, e>>
<1>1. <<>> \o <<>> = <<>> /\ <<>> \o <<a>> = <<a>> /\ <<>> \o <<a, b>> = <<a, b>>
  OBVIOUS
<1>2. <<>> \o <<a, b, c>> = <<a, b, c>> /\ <<>> \o <<a, b, c, d>> = <<a, b, c, d>>
  OBVIOUS
<1>3. <<a>> \o <<>> = <<a>> /\ <<a, b>> \o <<>> = <<a, b>> /\ <<a, b, c>> \o <<>> = <<a, b, c>>
  OBVIOUS
<1>4. <<a, b, c, d, e>> \o <<>> = <<a, b, c, d, e>>
  OBVIOUS
<1>5. <<a, b, c, d>> \o <<e>> = <<a, b, c, d, e>>
  <2>1. <<a, b, c, d>> \in Seq({a, b, c, d, e}) /\ e \in {a, b, c, d, e}
    OBVIOUS
  <2>2. <<a, b, c, d>> \o <<e>> = Append(<<a, b, c, d>>, e)
    BY <2>1, AppendIsConcat
  <2>3. PICK s : s = Append(<<a, b, c, d>>, e)
    OBVIOUS
  <2>4. s \in Seq({a, b, c, d, e}) /\ Len(s) = 5
    BY <2>1, <2>3, AppendProperties
  <2>5. s[1] = a /\ s[2] = b /\ s[3] = c /\ s[4] = d /\ s[5] = e
    BY <2>1, <2>3, AppendProperties
  <2>6. PICK t : t = <<a, b, c, d, e>>
    OBVIOUS
  <2>7. /\ t \in Seq({a, b, c, d, e}) /\ Len(t) = 5
        /\ t[1] = a /\ t[2] = b /\ t[3] = c /\ t[4] = d /\ t[5] = e
    BY <2>6
  <2>8. \A i \in 1 .. Len(s) : s[i] = t[i]
    <3> TAKE i \in 1 .. Len(s)
    <3>1. i = 1 \/ i = 2 \/ i = 3 \/ i = 4 \/ i = 5
      BY <2>4
    <3> QED BY <3>1, <2>5, <2>7
  <2>9. s = t
    BY <2>4, <2>7, <2>8, SeqEqual
  <2> QED BY <2>2, <2>3, <2>6, <2>9
<1> QED BY <1>1, <1>2, <1>3, <1>4, <1>5

\* One or two statements put before the rest.
LEMMA RestFacts ==
    ASSUME NEW S, NEW r \in Seq(S), NEW a, NEW b
    PROVE  /\ <<>> \o r = r
           /\ <<a, b>> \o r # <<>> /\ Head(<<a, b>> \o r) = a /\ Tail(<<a, b>> \o r) = <<b>> \o r
           /\ SubSeq(<<a, b>> \o r, 3, Len(<<a, b>> \o r)) = r
           /\ <<b>> \o r # <<>> /\ Head(<<b>> \o r) = b /\ Tail(<<b>> \o r) = r
           /\ SubSeq(<<b>> \o r, 2, Len(<<b>> \o r)) = r
OBVIOUS

=============================================================================
