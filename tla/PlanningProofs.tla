--------------------------- MODULE PlanningProofs ---------------------------
(***************************************************************************)
(* Theorems about GamePlanning and CandidateRanking, for every universe,   *)
(* draw size, price and set of requests.                                   *)
(*                                                                         *)
(* GamePlanning: what the plan counts is what the samplers draw from.  A   *)
(* sum of the model is turned into a cardinality, the number of cells      *)
(* under it, so that sums are compared by counting.  Counting the sets of  *)
(* k candidates twice, by set and by member, gives the averages and the    *)
(* variance that the plan computes by formulas.  The tables of the count   *)
(* are compared, candidate by candidate, with the sets that lead to each   *)
(* state.  The invariant of the samplers comes last.                       *)
(*                                                                         *)
(* CandidateRanking: what the generators' loops deliver.  The orders they  *)
(* compare by are shown total, so that a sort has one result; the heap is  *)
(* in order but at the place that is sifted, and holds the best of what it *)
(* has seen; every group and every portfolio of the beam is of games that  *)
(* fit, and enough of them; the payout batch always finds a game under the *)
(* widest cap.                                                             *)
(***************************************************************************)
EXTENDS GamePlanning, CandidateRanking, FiniteSetTheorems, SequenceTheorems,
        WellFoundedInduction, TLAPS

-----------------------------------------------------------------------------
(* Induction.                                                              *)

\* What holds of the empty set and passes from a set to the set with one more
\* member holds of every subset of a finite set.
LEMMA SetInduction ==
    ASSUME NEW S, IsFiniteSet(S), NEW Good, {} \in Good,
           \A T \in SUBSET S : T # {} /\ (\A x \in T : T \ {x} \in Good) => T \in Good
    PROVE  \A T \in SUBSET S : T \in Good
<1> DEFINE Bad == {T \in SUBSET S : T \notin Good}
<1>1. SUFFICES ASSUME Bad # {} PROVE FALSE
    OBVIOUS
<1>2. IsWellFoundedOn(StrictSubsetOrdering(S), SUBSET S)
    BY FS_FiniteSubsetsOfFinite, FS_StrictSubsetOrderingWellFounded
<1>3. PICK T \in Bad : \A U \in Bad : <<U, T>> \notin StrictSubsetOrdering(S)
    <2>1. Bad \subseteq SUBSET S
        OBVIOUS
    <2> HIDE DEF Bad
    <2> QED
        BY <1>1, <1>2, <2>1, WFMin
<1>4. ASSUME NEW x \in T
      PROVE  T \ {x} \in Good
    <2>1. <<T \ {x}, T>> \in StrictSubsetOrdering(S)
        BY DEF StrictSubsetOrdering
    <2> QED
        BY <1>3, <2>1
<1> QED
    BY <1>4

\* A finite set of numbers that is not empty has a least and a greatest one.
LEMMA FiniteHasEnds ==
    ASSUME NEW S \in SUBSET Int, IsFiniteSet(S), S # {}
    PROVE  /\ \E n \in S : \A m \in S : n <= m
           /\ \E n \in S : \A m \in S : n >= m
<1> DEFINE HasEnds(T) == /\ \E n \in T : \A m \in T : n <= m
                         /\ \E n \in T : \A m \in T : n >= m
           Good == {T \in SUBSET S : T = {} \/ HasEnds(T)}
<1>1. {} \in Good
    OBVIOUS
<1>2. ASSUME NEW T \in SUBSET S, T # {}, \A x \in T : T \ {x} \in Good
      PROVE  T \in Good
    <2> PICK x \in T : TRUE
        BY <1>2
    <2>1. CASE T \ {x} = {}
        <3>1. T = {x}
            BY <2>1
        <3> QED
            BY <3>1
    <2>2. CASE HasEnds(T \ {x})
        <3>1. PICK a \in T \ {x} : \A m \in T \ {x} : a <= m
            BY <2>2
        <3>2. PICK b \in T \ {x} : \A m \in T \ {x} : b >= m
            BY <2>2
        <3>3. a \in Int /\ b \in Int /\ x \in Int
            OBVIOUS
        <3>4. \E n \in T : \A m \in T : n <= m
            <4>1. CASE a <= x
                BY <3>1, <4>1
            <4>2. CASE ~(a <= x)
                <5>1. \A m \in T : x <= m
                    BY <3>1, <3>3, <4>2
                <5> QED
                    BY <5>1
            <4> QED
                BY <4>1, <4>2
        <3>5. \E n \in T : \A m \in T : n >= m
            <4>1. CASE b >= x
                BY <3>2, <4>1
            <4>2. CASE ~(b >= x)
                <5>1. \A m \in T : x >= m
                    BY <3>2, <3>3, <4>2
                <5> QED
                    BY <5>1
            <4> QED
                BY <4>1, <4>2
        <3> QED
            BY <3>4, <3>5
    <2> QED
        BY <1>2, <2>1, <2>2
<1> HIDE DEF Good
<1>3. S \in Good
    BY <1>1, <1>2, SetInduction
<1> QED
    BY <1>3 DEF Good

\* Induction up to n, of what a set holds.
LEMMA CountingUp ==
    ASSUME NEW n \in Nat, NEW Good, 0 \in Good, \A k \in 0..(n - 1) : k \in Good => k + 1 \in Good
    PROVE  \A k \in 0..n : k \in Good
<1> DEFINE Bad == {k \in 0..n : k \notin Good}
<1>1. SUFFICES ASSUME Bad # {} PROVE FALSE
    OBVIOUS
<1>2. Bad \in SUBSET Int /\ IsFiniteSet(Bad)
    <2>1. IsFiniteSet(0..n) /\ Bad \in SUBSET (0..n)
        BY FS_Interval
    <2> QED
        BY <2>1, FS_Subset
<1>3. PICK k \in Bad : \A m \in Bad : k <= m
    <2> HIDE DEF Bad
    <2> QED
        BY <1>1, <1>2, FiniteHasEnds
<1>4. k # 0 /\ k - 1 \in 0..(n - 1)
    OBVIOUS
<1>5. k - 1 \in Good
    BY <1>3, <1>4
<1>6. (k - 1) + 1 \in Good
    BY <1>4, <1>5
<1> QED
    BY <1>6

-----------------------------------------------------------------------------
(* A sum of natural numbers is a number of cells.                          *)

Cells(f, S) == {p \in S \X Nat : p[2] \in 1..f[p[1]]}

\* The first n numbers are n.
LEMMA ListedNumbers ==
    ASSUME NEW n \in Nat
    PROVE  IsFiniteSet(1..n) /\ Cardinality(1..n) = n
<1>1. n \in Int /\ 1 \in Int
    OBVIOUS
<1>2. IsFiniteSet(1..n) /\ Cardinality(1..n) = IF 1 > n THEN 0 ELSE n - 1 + 1
    BY <1>1, FS_Interval
<1> QED
    BY <1>2

\* One member more adds its own cells.
LEMMA CellsAdd ==
    ASSUME NEW T, NEW x, x \notin T, NEW f, f[x] \in Nat, IsFiniteSet(Cells(f, T))
    PROVE  /\ IsFiniteSet(Cells(f, T \cup {x}))
           /\ Cardinality(Cells(f, T \cup {x})) = Cardinality(Cells(f, T)) + f[x]
<1> DEFINE R == {x} \X (1..f[x])
<1>1. IsFiniteSet(R) /\ Cardinality(R) = f[x]
    <2>1. IsFiniteSet({x}) /\ Cardinality({x}) = 1
        BY FS_Singleton
    <2>2. IsFiniteSet(1..f[x]) /\ Cardinality(1..f[x]) = f[x]
        BY ListedNumbers
    <2> DEFINE one == {x}
               all == 1..f[x]
    <2> HIDE DEF one, all
    <2>3. /\ IsFiniteSet(one \X all)
          /\ Cardinality(one \X all) = Cardinality(one) * Cardinality(all)
        BY <2>1, <2>2, FS_Product DEF one, all
    <2>4. Cardinality(one) * Cardinality(all) = f[x]
        BY <2>1, <2>2 DEF one, all
    <2> QED
        BY <2>3, <2>4 DEF one, all
<1>2. Cells(f, T \cup {x}) = Cells(f, T) \cup R
    BY DEF Cells
<1>3. Cells(f, T) \cap R = {}
    BY DEF Cells
<1> HIDE DEF R
<1>4. Cardinality(Cells(f, T) \cup R) = Cardinality(Cells(f, T)) + Cardinality(R) - Cardinality({})
      /\ IsFiniteSet(Cells(f, T) \cup R)
    BY <1>1, <1>3, FS_Union
<1>5. Cardinality(Cells(f, T)) \in Nat /\ Cardinality({}) = 0
    BY FS_CardinalityType, FS_EmptySet
<1> DEFINE c == Cardinality(Cells(f, T))
           z == Cardinality({})
<1>6. Cardinality(Cells(f, T) \cup R) = c + f[x] - z /\ z = 0 /\ c \in Nat
    BY <1>1, <1>4, <1>5
<1> HIDE DEF c, z
<1>7. c + f[x] - z = c + f[x]
    BY <1>6
<1> QED
    BY <1>2, <1>4, <1>6, <1>7 DEF c

\* Finitely many members have finitely many cells.
LEMMA CellsFinite ==
    ASSUME NEW S, IsFiniteSet(S), NEW f, \A x \in S : f[x] \in Nat
    PROVE  \A T \in SUBSET S : IsFiniteSet(Cells(f, T)) /\ Cardinality(Cells(f, T)) \in Nat
<1> DEFINE Good == {T \in SUBSET S : IsFiniteSet(Cells(f, T))}
<1>1. {} \in Good /\ Cells(f, {}) = {}
    <2>1. Cells(f, {}) = {}
        BY DEF Cells
    <2> QED
        BY <2>1, FS_EmptySet
<1>2. ASSUME NEW T \in SUBSET S, T # {}, \A x \in T : T \ {x} \in Good
      PROVE  T \in Good
    <2> PICK x \in T : TRUE
        BY <1>2
    <2> DEFINE U == T \ {x}
    <2>1. x \notin U /\ T = U \cup {x} /\ IsFiniteSet(Cells(f, U)) /\ f[x] \in Nat
        BY <1>2
    <2> HIDE DEF U
    <2>2. IsFiniteSet(Cells(f, U \cup {x}))
        BY <2>1, CellsAdd
    <2> QED
        BY <2>1, <2>2
<1> HIDE DEF Good
<1>3. \A T \in SUBSET S : T \in Good
    BY <1>1, <1>2, SetInduction
<1> QED
    BY <1>3, FS_CardinalityType DEF Good

\* The partial sums, member by member in the order of CHOOSE.
IsIter(i, f, S) ==
    i = [s \in SUBSET S |->
            IF s = {} THEN 0
            ELSE f[CHOOSE x \in s : TRUE] + i[s \ {CHOOSE x \in s : TRUE}]]

\* The number of cells is what the fold of the community modules adds up.
LEMMA CellsIterate ==
    ASSUME NEW S, IsFiniteSet(S), NEW f, \A x \in S : f[x] \in Nat
    PROVE  IsIter([s \in SUBSET S |-> Cardinality(Cells(f, s))], f, S)
<1> DEFINE i == [s \in SUBSET S |-> Cardinality(Cells(f, s))]
<1>1. ASSUME NEW s \in SUBSET S
      PROVE  i[s] = IF s = {} THEN 0
                    ELSE f[CHOOSE x \in s : TRUE] + i[s \ {CHOOSE x \in s : TRUE}]
    <2>1. CASE s = {}
        <3>1. Cells(f, {}) = {}
            BY DEF Cells
        <3> QED
            BY <2>1, <3>1, FS_EmptySet
    <2>2. CASE s # {}
        <3> DEFINE x == CHOOSE x \in s : TRUE
                   u == s \ {x}
        <3>1. x \in s
            BY <2>2
        <3> HIDE DEF x
        <3>2. x \notin u /\ s = u \cup {x} /\ u \in SUBSET S /\ f[x] \in Nat
            BY <3>1
        <3>3. IsFiniteSet(Cells(f, u)) /\ Cardinality(Cells(f, u)) \in Nat
            BY <3>2, CellsFinite
        <3> HIDE DEF u
        <3>4. Cardinality(Cells(f, u \cup {x})) = Cardinality(Cells(f, u)) + f[x]
            BY <3>2, <3>3, CellsAdd
        <3>5. i[s] = f[x] + i[u]
            BY <3>2, <3>3, <3>4
        <3> QED
            BY <2>2, <3>5 DEF x, u
    <2> QED
        BY <2>1, <2>2
<1> QED
    BY <1>1 DEF IsIter

\* The fold is therefore the number of cells, on every subset.
LEMMA IterIsCells ==
    ASSUME NEW S, IsFiniteSet(S), NEW f, \A x \in S : f[x] \in Nat, NEW i, IsIter(i, f, S)
    PROVE  i[S] = Cardinality(Cells(f, S))
<1> DEFINE j == [s \in SUBSET S |-> Cardinality(Cells(f, s))]
           Good == {T \in SUBSET S : i[T] = j[T]}
<1>1. IsIter(j, f, S)
    BY CellsIterate
<1> HIDE DEF j
<1>2. {} \in Good
    BY <1>1 DEF IsIter
<1>3. ASSUME NEW T \in SUBSET S, T # {}, \A y \in T : T \ {y} \in Good
      PROVE  T \in Good
    <2> DEFINE y == CHOOSE y \in T : TRUE
    <2>1. y \in T
        BY <1>3
    <2>2. i[T] = f[y] + i[T \ {y}]
        BY <1>3 DEF IsIter
    <2>3. j[T] = f[y] + j[T \ {y}]
        BY <1>1, <1>3 DEF IsIter
    <2> HIDE DEF y
    <2> QED
        BY <1>3, <2>1, <2>2, <2>3
<1> HIDE DEF Good
<1>4. \A T \in SUBSET S : T # {} /\ (\A y \in T : T \ {y} \in Good) => T \in Good
    BY <1>3
<1>5. \A T \in SUBSET S : T \in Good
    BY <1>2, <1>4, SetInduction
<1> QED
    BY <1>5 DEF Good, j

\* The weight of a set under f.
Weight(f, S) == Cardinality(Cells(f, S))

\* SumFunction() is the weight of the domain.
LEMMA SumIsWeight ==
    ASSUME NEW S, IsFiniteSet(S), NEW f \in [S -> Nat]
    PROVE  SumFunction(f) = Weight(f, S)
<1> DEFINE it == CHOOSE i : IsIter(i, f, S)
<1>1. SumFunction(f) = it[S]
    BY DEF SumFunction, SumFunctionOnSet, FoldFunctionOnSet, MapThenFoldSet, IsIter
<1>2. \E i : IsIter(i, f, S)
    BY CellsIterate
<1>3. IsIter(it, f, S)
    BY <1>2
<1> HIDE DEF it
<1>4. it[S] = Cardinality(Cells(f, S))
    BY <1>3, IterIsCells
<1> QED
    BY <1>1, <1>4 DEF Weight

\* A weight is a natural number.
LEMMA WeightNat ==
    ASSUME NEW S, IsFiniteSet(S), NEW f, \A x \in S : f[x] \in Nat
    PROVE  Weight(f, S) \in Nat
BY CellsFinite DEF Weight

\* Nothing weighs nothing.
LEMMA WeightEmpty ==
    ASSUME NEW f
    PROVE  Weight(f, {}) = 0
<1>1. Cells(f, {}) = {}
    BY DEF Cells
<1> QED
    BY <1>1, FS_EmptySet DEF Weight

\* A member more weighs what it weighs.
LEMMA WeightAdd ==
    ASSUME NEW T, IsFiniteSet(T), NEW x, x \notin T, NEW f, \A y \in T \cup {x} : f[y] \in Nat
    PROVE  /\ Weight(f, T \cup {x}) = Weight(f, T) + f[x]
           /\ Weight(f, T) \in Nat
<1>1. IsFiniteSet(Cells(f, T)) /\ Cardinality(Cells(f, T)) \in Nat /\ f[x] \in Nat
    BY CellsFinite
<1> QED
    BY <1>1, CellsAdd DEF Weight

\* Only the values on the set matter.
LEMMA WeightSame ==
    ASSUME NEW S, NEW f, NEW g, \A x \in S : f[x] = g[x]
    PROVE  Weight(f, S) = Weight(g, S)
<1>1. Cells(f, S) = Cells(g, S)
    BY DEF Cells
<1> QED
    BY <1>1 DEF Weight

\* Weights add up.
LEMMA WeightPlus ==
    ASSUME NEW S, IsFiniteSet(S), NEW f, NEW g, NEW h,
           \A x \in S : f[x] \in Nat /\ g[x] \in Nat /\ h[x] = f[x] + g[x]
    PROVE  Weight(h, S) = Weight(f, S) + Weight(g, S)
<1> DEFINE Good == {T \in SUBSET S : Weight(h, T) = Weight(f, T) + Weight(g, T)}
<1>1. {} \in Good
    BY WeightEmpty
<1>2. ASSUME NEW T \in SUBSET S, T # {}, \A x \in T : T \ {x} \in Good
      PROVE  T \in Good
    <2> PICK x \in T : TRUE
        BY <1>2
    <2> DEFINE U == T \ {x}
    <2>1. x \notin U /\ T = U \cup {x} /\ U \in SUBSET S /\ U \in Good
        BY <1>2
    <2>2. Weight(h, U) = Weight(f, U) + Weight(g, U)
        BY <2>1
    <2>3. IsFiniteSet(U)
        BY <2>1, FS_Subset
    <2>4. \A y \in U \cup {x} : f[y] \in Nat /\ g[y] \in Nat /\ h[y] \in Nat
        BY <2>1
    <2> HIDE DEF U
    <2>5. /\ Weight(f, U \cup {x}) = Weight(f, U) + f[x] /\ Weight(f, U) \in Nat
          /\ Weight(g, U \cup {x}) = Weight(g, U) + g[x] /\ Weight(g, U) \in Nat
          /\ Weight(h, U \cup {x}) = Weight(h, U) + h[x] /\ Weight(h, U) \in Nat
        BY <2>1, <2>3, <2>4, WeightAdd
    <2>6. h[x] = f[x] + g[x] /\ f[x] \in Nat /\ g[x] \in Nat
        OBVIOUS
    <2>7. Weight(h, U \cup {x}) = Weight(f, U \cup {x}) + Weight(g, U \cup {x})
        BY <2>2, <2>5, <2>6
    <2> QED
        BY <2>1, <2>7
<1> HIDE DEF Good
<1>3. \A T \in SUBSET S : T # {} /\ (\A x \in T : T \ {x} \in Good) => T \in Good
    BY <1>2
<1>4. \A T \in SUBSET S : T \in Good
    BY <1>1, <1>3, SetInduction
<1> QED
    BY <1>4 DEF Good

\* A multiple weighs the multiple.
LEMMA WeightTimes ==
    ASSUME NEW S, IsFiniteSet(S), NEW c \in Nat, NEW f, NEW g,
           \A x \in S : f[x] \in Nat /\ g[x] = c * f[x]
    PROVE  Weight(g, S) = c * Weight(f, S)
<1> DEFINE Good == {T \in SUBSET S : Weight(g, T) = c * Weight(f, T)}
<1>1. {} \in Good
    BY WeightEmpty
<1>2. ASSUME NEW T \in SUBSET S, T # {}, \A x \in T : T \ {x} \in Good
      PROVE  T \in Good
    <2> PICK x \in T : TRUE
        BY <1>2
    <2> DEFINE U == T \ {x}
    <2>1. x \notin U /\ T = U \cup {x} /\ U \in SUBSET S /\ U \in Good
        BY <1>2
    <2>2. Weight(g, U) = c * Weight(f, U)
        BY <2>1
    <2>3. IsFiniteSet(U)
        BY <2>1, FS_Subset
    <2>4. \A y \in U \cup {x} : f[y] \in Nat /\ g[y] \in Nat
        BY <2>1
    <2> HIDE DEF U
    <2>5. /\ Weight(f, U \cup {x}) = Weight(f, U) + f[x] /\ Weight(f, U) \in Nat
          /\ Weight(g, U \cup {x}) = Weight(g, U) + g[x] /\ Weight(g, U) \in Nat
        BY <2>1, <2>3, <2>4, WeightAdd
    <2>6. g[x] = c * f[x] /\ f[x] \in Nat
        OBVIOUS
    <2>7. c * (Weight(f, U) + f[x]) = c * Weight(f, U) + c * f[x]
        BY <2>5, <2>6
    <2>8. Weight(g, U \cup {x}) = c * Weight(f, U \cup {x})
        BY <2>2, <2>5, <2>6, <2>7
    <2> QED
        BY <2>1, <2>8
<1> HIDE DEF Good
<1>3. \A T \in SUBSET S : T # {} /\ (\A x \in T : T \ {x} \in Good) => T \in Good
    BY <1>2
<1>4. \A T \in SUBSET S : T \in Good
    BY <1>1, <1>3, SetInduction
<1> QED
    BY <1>4 DEF Good

\* Every member weighs one.
Ones(S) == [x \in S |-> 1]

\* A set weighs its size when every member weighs one.
LEMMA WeightOfOnes ==
    ASSUME NEW S, IsFiniteSet(S), NEW f, \A x \in S : f[x] = 1
    PROVE  Weight(f, S) = Cardinality(S)
<1> DEFINE Good == {T \in SUBSET S : Weight(f, T) = Cardinality(T)}
<1>1. {} \in Good
    BY WeightEmpty, FS_EmptySet
<1>2. ASSUME NEW T \in SUBSET S, T # {}, \A x \in T : T \ {x} \in Good
      PROVE  T \in Good
    <2> PICK x \in T : TRUE
        BY <1>2
    <2> DEFINE U == T \ {x}
    <2>1. x \notin U /\ T = U \cup {x} /\ U \in SUBSET S /\ U \in Good
        BY <1>2
    <2>2. Weight(f, U) = Cardinality(U)
        BY <2>1
    <2>3. IsFiniteSet(U)
        BY <2>1, FS_Subset
    <2>4. \A y \in U \cup {x} : f[y] = 1
        BY <2>1
    <2> HIDE DEF U
    <2>5. Weight(f, U \cup {x}) = Weight(f, U) + f[x] /\ f[x] = 1
        <3>1. \A y \in U \cup {x} : f[y] \in Nat
            BY <2>4
        <3> QED
            BY <2>1, <2>3, <2>4, <3>1, WeightAdd
    <2>6. Cardinality(U \cup {x}) = Cardinality(U) + 1
        BY <2>1, <2>3, FS_AddElement
    <2> QED
        BY <2>1, <2>2, <2>5, <2>6
<1> HIDE DEF Good
<1>3. \A T \in SUBSET S : T # {} /\ (\A x \in T : T \ {x} \in Good) => T \in Good
    BY <1>2
<1>4. \A T \in SUBSET S : T \in Good
    BY <1>1, <1>3, SetInduction
<1> QED
    BY <1>4 DEF Good

\* A set whose members weigh the same.
LEMMA WeightConstant ==
    ASSUME NEW S, IsFiniteSet(S), NEW c \in Nat, NEW f, \A x \in S : f[x] = c
    PROVE  Weight(f, S) = c * Cardinality(S)
<1>1. Weight(f, S) = c * Weight(Ones(S), S)
    <2>1. \A x \in S : Ones(S)[x] \in Nat /\ f[x] = c * Ones(S)[x]
        BY DEF Ones
    <2> QED
        BY <2>1, WeightTimes
<1>2. Weight(Ones(S), S) = Cardinality(S)
    <2>1. \A x \in S : Ones(S)[x] = 1
        BY DEF Ones
    <2> QED
        BY <2>1, WeightOfOnes
<1> QED
    BY <1>1, <1>2

\* What is outside T weighs nothing under f restricted to T.
LEMMA WeightWithin ==
    ASSUME NEW S, IsFiniteSet(S), NEW T \in SUBSET S, NEW f, NEW g, \A x \in S : f[x] \in Nat,
           \A x \in S : g[x] = IF x \in T THEN f[x] ELSE 0
    PROVE  Weight(g, S) = Weight(f, T)
<1>1. Cells(g, S) = Cells(f, T)
    BY DEF Cells
<1> QED
    BY <1>1 DEF Weight

-----------------------------------------------------------------------------
(* Counting twice: by the sets of K, or by the members of these sets.      *)

Having(K, x) == {S \in K : x \in S}
ByMember(C, v, u, K) == [x \in C |-> v[x] * Weight(u, Having(K, x))]

\* Families of subsets of a finite set are finite, as are their members.
LEMMA SubsetsFinite ==
    ASSUME NEW C, IsFiniteSet(C), NEW K \in SUBSET (SUBSET C)
    PROVE  IsFiniteSet(K) /\ (\A L \in SUBSET K : IsFiniteSet(L)) /\ \A S \in K : IsFiniteSet(S)
<1>1. IsFiniteSet(SUBSET C)
    BY FS_SUBSET
<1>2. IsFiniteSet(K)
    BY <1>1, FS_Subset
<1>3. \A L \in SUBSET K : IsFiniteSet(L)
    BY <1>2, FS_Subset
<1>4. \A S \in K : IsFiniteSet(S)
    BY FS_Subset
<1> QED
    BY <1>2, <1>3, <1>4

GrowsBy(C, v, u, M, S) ==
    /\ Weight(ByMember(C, v, u, M \cup {S}), C)
          = Weight(ByMember(C, v, u, M), C) + u[S] * Weight(v, S)
    /\ Weight(ByMember(C, v, u, M), C) \in Nat

\* One set more in the family, on both sides of the double count.
LEMMA DoubleCountStep ==
    ASSUME NEW C, IsFiniteSet(C), NEW M \in SUBSET (SUBSET C), NEW S \in SUBSET C, S \notin M,
           NEW v, \A x \in C : v[x] \in Nat,
           NEW u, \A R \in M \cup {S} : u[R] \in Nat
    PROVE  GrowsBy(C, v, u, M, S)
<1> DEFINE f == ByMember(C, v, u, M)
           h == ByMember(C, v, u, M \cup {S})
           w == [x \in C |-> u[S] * v[x]]
           e == [x \in C |-> IF x \in S THEN w[x] ELSE 0]
<1>1. u[S] \in Nat /\ \A R \in M : u[R] \in Nat
    OBVIOUS
<1>2. \A x \in C : /\ IsFiniteSet(Having(M, x)) /\ Weight(u, Having(M, x)) \in Nat
                   /\ S \notin Having(M, x)
    <2> TAKE x \in C
    <2>1. Having(M, x) \in SUBSET M /\ S \notin Having(M, x)
        BY DEF Having
    <2>2. IsFiniteSet(Having(M, x))
        BY <2>1, SubsetsFinite
    <2>3. \A R \in Having(M, x) : u[R] \in Nat
        BY <1>1, <2>1
    <2> QED
        BY <2>1, <2>2, <2>3, WeightNat
<1>3. \A x \in C : f[x] \in Nat /\ w[x] \in Nat /\ e[x] \in Nat
    <2>1. \A x \in C : v[x] * Weight(u, Having(M, x)) \in Nat /\ u[S] * v[x] \in Nat
        BY <1>1, <1>2
    <2> QED
        BY <2>1 DEF ByMember
<1>4. \A x \in C : h[x] = f[x] + e[x]
    <2> TAKE x \in C
    <2> DEFINE p == Weight(u, Having(M, x))
    <2>1. p \in Nat /\ v[x] \in Nat /\ f[x] = v[x] * p
          /\ h[x] = v[x] * Weight(u, Having(M \cup {S}, x))
        BY <1>2 DEF ByMember
    <2>2. CASE x \in S
        <3>1. Having(M \cup {S}, x) = Having(M, x) \cup {S}
            BY <2>2 DEF Having
        <3>2. \A R \in Having(M, x) \cup {S} : u[R] \in Nat
            BY <1>1 DEF Having
        <3>3. Weight(u, Having(M, x) \cup {S}) = p + u[S]
            BY <1>2, <3>2, WeightAdd
        <3>4. e[x] = u[S] * v[x]
            BY <2>2
        <3> HIDE DEF p, f, h, e
        <3>5. v[x] * (p + u[S]) = v[x] * p + u[S] * v[x]
            BY <1>1, <2>1
        <3> QED
            BY <2>1, <3>1, <3>3, <3>4, <3>5
    <2>3. CASE x \notin S
        <3>1. Having(M \cup {S}, x) = Having(M, x)
            BY <2>3 DEF Having
        <3>2. e[x] = 0
            BY <2>3
        <3>3. f[x] \in Nat
            BY <1>3
        <3> HIDE DEF f, h, e
        <3> QED
            BY <2>1, <3>1, <3>2, <3>3
    <2> QED
        BY <2>2, <2>3
<1>5. Weight(e, C) = u[S] * Weight(v, S)
    <2>1. Weight(e, C) = Weight(w, S)
        <3>1. \A x \in C : e[x] = IF x \in S THEN w[x] ELSE 0
            OBVIOUS
        <3>2. \A x \in C : w[x] \in Nat
            BY <1>3
        <3> HIDE DEF e, w
        <3> QED
            BY <3>1, <3>2, WeightWithin
    <2>2. IsFiniteSet(S)
        BY FS_Subset
    <2>3. \A x \in S : v[x] \in Nat /\ w[x] = u[S] * v[x]
        OBVIOUS
    <2> HIDE DEF w
    <2>4. Weight(w, S) = u[S] * Weight(v, S)
        BY <1>1, <2>2, <2>3, WeightTimes
    <2> QED
        BY <2>1, <2>4
<1> HIDE DEF f, h, e
<1>6. Weight(h, C) = Weight(f, C) + Weight(e, C)
    BY <1>3, <1>4, WeightPlus
<1>7. Weight(f, C) \in Nat
    BY <1>3, WeightNat
<1> QED
    BY <1>5, <1>6, <1>7 DEF f, h, GrowsBy

\* What the sets of a family weigh, counted by set and counted by member.
LEMMA DoubleCount ==
    ASSUME NEW C, IsFiniteSet(C), NEW K \in SUBSET (SUBSET C),
           NEW v, \A x \in C : v[x] \in Nat,
           NEW u, \A S \in K : u[S] \in Nat,
           NEW a, \A S \in K : a[S] = u[S] * Weight(v, S)
    PROVE  Weight(a, K) = Weight(ByMember(C, v, u, K), C)
<1> DEFINE Good == {L \in SUBSET K : Weight(a, L) = Weight(ByMember(C, v, u, L), C)}
<1>1. IsFiniteSet(K) /\ \A S \in K : a[S] \in Nat
    <2>1. \A S \in K : Weight(v, S) \in Nat
        BY SubsetsFinite, WeightNat
    <2> QED
        BY <2>1, SubsetsFinite
<1>2. {} \in Good
    <2> DEFINE z == ByMember(C, v, u, {})
    <2>1. \A x \in C : z[x] = 0
        <3> TAKE x \in C
        <3>1. Having({}, x) = {}
            BY DEF Having
        <3>2. z[x] = v[x] * 0 /\ v[x] \in Nat
            BY <3>1, WeightEmpty DEF ByMember
        <3> QED
            BY <3>2
    <2> HIDE DEF z
    <2>2. Weight(z, C) = 0 * Cardinality(C) /\ Cardinality(C) \in Nat
        BY <2>1, WeightConstant, FS_CardinalityType
    <2> QED
        BY <2>2, WeightEmpty DEF z
<1>3. ASSUME NEW L \in SUBSET K, L # {}, \A S \in L : L \ {S} \in Good
      PROVE  L \in Good
    <2> PICK S \in L : TRUE
        BY <1>3
    <2> DEFINE M == L \ {S}
    <2>1. M \in Good /\ S \notin M /\ L = M \cup {S} /\ M \in SUBSET K
        BY <1>3
    <2>2. Weight(a, M) = Weight(ByMember(C, v, u, M), C)
        BY <2>1
    <2>3. IsFiniteSet(M) /\ M \in SUBSET (SUBSET C) /\ S \in SUBSET C
        BY <2>1, SubsetsFinite
    <2>4. /\ \A R \in M \cup {S} : a[R] \in Nat
          /\ \A R \in M \cup {S} : u[R] \in Nat
        BY <1>1, <2>1
    <2> HIDE DEF M
    <2>5. Weight(a, M \cup {S}) = Weight(a, M) + a[S]
        BY <2>1, <2>3, <2>4, WeightAdd
    <2>6. Weight(ByMember(C, v, u, M \cup {S}), C)
             = Weight(ByMember(C, v, u, M), C) + u[S] * Weight(v, S)
        <3>1. S \notin M /\ M \in SUBSET (SUBSET C) /\ S \in SUBSET C
            BY <2>1, <2>3
        <3>2. \A R \in M \cup {S} : u[R] \in Nat
            BY <2>4
        <3>3. GrowsBy(C, v, u, M, S)
            BY <3>1, <3>2, DoubleCountStep
        <3> QED
            BY <3>3 DEF GrowsBy
    <2>7. a[S] = u[S] * Weight(v, S)
        OBVIOUS
    <2> QED
        BY <2>1, <2>2, <2>5, <2>6, <2>7
<1> HIDE DEF Good
<1>4. \A L \in SUBSET K : L # {} /\ (\A S \in L : L \ {S} \in Good) => L \in Good
    BY <1>3
<1>5. \A L \in SUBSET K : L \in Good
    BY <1>1, <1>2, <1>4, SetInduction
<1> QED
    BY <1>5 DEF Good

-----------------------------------------------------------------------------
(* The sets of k members of a set.                                         *)

\* The sets of k members are finite, and so are their members.
LEMMA KSubsetsFinite ==
    ASSUME NEW C, IsFiniteSet(C), NEW k
    PROVE  /\ kSubset(k, C) \in SUBSET (SUBSET C)
           /\ IsFiniteSet(kSubset(k, C)) /\ Cardinality(kSubset(k, C)) \in Nat
           /\ \A S \in kSubset(k, C) : IsFiniteSet(S) /\ S \in SUBSET C /\ Cardinality(S) = k
<1>1. kSubset(k, C) \in SUBSET (SUBSET C)
    BY DEF kSubset
<1>2. \A S \in kSubset(k, C) : S \in SUBSET C /\ Cardinality(S) = k
    BY DEF kSubset
<1>3. IsFiniteSet(kSubset(k, C)) /\ \A S \in kSubset(k, C) : IsFiniteSet(S)
    BY <1>1, SubsetsFinite
<1> QED
    BY <1>1, <1>2, <1>3, FS_CardinalityType

ImageOf(g, S) == {g[x] : x \in S}

\* As many images as members, when no two have the same image.
LEMMA ImageSize ==
    ASSUME NEW A, NEW B, NEW g \in Bijection(A, B), NEW S \in SUBSET A, IsFiniteSet(S)
    PROVE  Cardinality(ImageOf(g, S)) = Cardinality(S)
<1> DEFINE h == [x \in S |-> g[x]]
<1>1. h \in Bijection(S, ImageOf(g, S))
    <2>1. \A x, y \in A : g[x] = g[y] => x = y
        BY DEF Bijection, Injection, IsInjective
    <2> QED
        BY <2>1 DEF Bijection, Injection, IsInjective, Surjection, ImageOf
<1>2. ExistsBijection(S, ImageOf(g, S))
    BY <1>1 DEF ExistsBijection
<1> QED
    BY <1>2, FS_Bijection

\* How many sets of k members there are depends on the size alone.
LEMMA SubsetsBySize ==
    ASSUME NEW A, NEW B, IsFiniteSet(A), IsFiniteSet(B), Cardinality(A) = Cardinality(B), NEW k
    PROVE  Cardinality(kSubset(k, A)) = Cardinality(kSubset(k, B))
<1>1. PICK g : g \in Bijection(A, B)
    <2>1. ExistsBijection(A, B)
        BY FS_SameCardinalityBij
    <2> QED
        BY <2>1 DEF ExistsBijection
<1>2. /\ g \in [A -> B] /\ \A x, y \in A : g[x] = g[y] => x = y
      /\ \A y \in B : \E x \in A : g[x] = y
    BY <1>1 DEF Bijection, Injection, IsInjective, Surjection
<1> DEFINE F == [S \in kSubset(k, A) |-> ImageOf(g, S)]
<1>3. \A S \in kSubset(k, A) : F[S] \in kSubset(k, B)
    <2> TAKE S \in kSubset(k, A)
    <2>1. S \in SUBSET A /\ IsFiniteSet(S) /\ Cardinality(S) = k
        BY KSubsetsFinite
    <2>2. Cardinality(ImageOf(g, S)) = k
        BY <1>1, <2>1, ImageSize
    <2>3. ImageOf(g, S) \in SUBSET B
        BY <1>2, <2>1 DEF ImageOf
    <2> QED
        BY <2>2, <2>3 DEF kSubset
<1>4. \A S, T \in kSubset(k, A) : F[S] = F[T] => S = T
    <2> SUFFICES ASSUME NEW S \in kSubset(k, A), NEW T \in kSubset(k, A),
                        ImageOf(g, S) = ImageOf(g, T)
                 PROVE  S = T
        OBVIOUS
    <2>1. S \in SUBSET A /\ T \in SUBSET A
        BY KSubsetsFinite
    <2>2. \A x \in S : x \in T
        <3> TAKE x \in S
        <3>1. g[x] \in ImageOf(g, T)
            BY DEF ImageOf
        <3>2. PICK y \in T : g[y] = g[x]
            BY <3>1 DEF ImageOf
        <3> QED
            BY <1>2, <2>1, <3>2
    <2>3. \A x \in T : x \in S
        <3> TAKE x \in T
        <3>1. g[x] \in ImageOf(g, S)
            BY DEF ImageOf
        <3>2. PICK y \in S : g[y] = g[x]
            BY <3>1 DEF ImageOf
        <3> QED
            BY <1>2, <2>1, <3>2
    <2> QED
        BY <2>2, <2>3
<1>5. \A T \in kSubset(k, B) : \E S \in kSubset(k, A) : F[S] = T
    <2> TAKE T \in kSubset(k, B)
    <2> DEFINE S == {x \in A : g[x] \in T}
    <2>1. T \in SUBSET B /\ Cardinality(T) = k
        BY KSubsetsFinite
    <2>2. ImageOf(g, S) = T
        BY <1>2, <2>1 DEF ImageOf
    <2>3. S \in SUBSET A /\ IsFiniteSet(S)
        BY FS_Subset
    <2> HIDE DEF S
    <2>4. Cardinality(S) = k
        BY <1>1, <2>1, <2>2, <2>3, ImageSize
    <2>5. S \in kSubset(k, A)
        BY <2>3, <2>4 DEF kSubset
    <2> QED
        BY <2>2, <2>5
<1>6. F \in [kSubset(k, A) -> kSubset(k, B)]
    BY <1>3
<1> HIDE DEF F
<1>7. F \in Bijection(kSubset(k, A), kSubset(k, B))
    BY <1>4, <1>5, <1>6 DEF Bijection, Injection, IsInjective, Surjection
<1>8. IsFiniteSet(kSubset(k, A))
    BY KSubsetsFinite
<1>9. ExistsBijection(kSubset(k, A), kSubset(k, B))
    BY <1>7 DEF ExistsBijection
<1> QED
    BY <1>8, <1>9, FS_Bijection

\* Those that have x are those of the others, with x.
LEMMA SubsetsWithOne ==
    ASSUME NEW C, IsFiniteSet(C), NEW k \in Int, NEW x \in C
    PROVE  Cardinality(Having(kSubset(k, C), x)) = Cardinality(kSubset(k - 1, C \ {x}))
<1> DEFINE H == Having(kSubset(k, C), x)
           J == kSubset(k - 1, C \ {x})
           F == [S \in H |-> S \ {x}]
<1>1. \A S \in H : S \in SUBSET C /\ x \in S /\ IsFiniteSet(S) /\ Cardinality(S) = k
    BY KSubsetsFinite DEF Having
<1>2. \A S \in H : F[S] \in J
    <2> TAKE S \in H
    <2>1. Cardinality(S \ {x}) = k - 1
        BY <1>1, FS_RemoveElement
    <2> QED
        BY <1>1, <2>1 DEF kSubset
<1>3. \A S, T \in H : F[S] = F[T] => S = T
    <2> SUFFICES ASSUME NEW S \in H, NEW T \in H, S \ {x} = T \ {x}
                 PROVE  S = T
        OBVIOUS
    <2>1. x \in S /\ x \in T
        BY <1>1
    <2> HIDE DEF H
    <2> QED
        BY <2>1
<1>4. \A T \in J : \E S \in H : F[S] = T
    <2> TAKE T \in J
    <2>1. IsFiniteSet(C \ {x})
        BY FS_RemoveElement
    <2>2. T \in SUBSET (C \ {x}) /\ IsFiniteSet(T) /\ Cardinality(T) = k - 1
        BY <2>1, KSubsetsFinite
    <2>3. Cardinality(T \cup {x}) = (k - 1) + 1
        BY <2>2, FS_AddElement
    <2>4. T \cup {x} \in H
        BY <2>2, <2>3 DEF kSubset, Having
    <2>5. (T \cup {x}) \ {x} = T
        BY <2>2
    <2> QED
        BY <2>4, <2>5
<1>5. F \in [H -> J]
    BY <1>2
<1>6. IsFiniteSet(H)
    <2>1. H \in SUBSET kSubset(k, C)
        BY DEF Having
    <2> QED
        BY <2>1, KSubsetsFinite, FS_Subset
<1> HIDE DEF F
<1>7. F \in Bijection(H, J)
    BY <1>3, <1>4, <1>5 DEF Bijection, Injection, IsInjective, Surjection
<1>8. ExistsBijection(H, J)
    BY <1>7 DEF ExistsBijection
<1> QED
    BY <1>6, <1>8, FS_Bijection

\* In how many of the sets of k members each member is.
Share(k, C) == Cardinality(kSubset(k - 1, C \ {CHOOSE x \in C : TRUE}))

\* Every member is in as many of the sets of k members.
LEMMA ShareOfAll ==
    ASSUME NEW C, IsFiniteSet(C), NEW k \in Int, NEW x \in C
    PROVE  /\ Cardinality(Having(kSubset(k, C), x)) = Share(k, C)
           /\ Cardinality(kSubset(k - 1, C \ {x})) = Share(k, C)
           /\ Share(k, C) \in Nat
<1> DEFINE y == CHOOSE y \in C : TRUE
<1>1. y \in C
    OBVIOUS
<1> HIDE DEF y
<1>2. /\ IsFiniteSet(C \ {x}) /\ IsFiniteSet(C \ {y})
      /\ Cardinality(C \ {x}) = Cardinality(C) - 1 /\ Cardinality(C \ {y}) = Cardinality(C) - 1
    BY <1>1, FS_RemoveElement
<1>3. Cardinality(C \ {x}) = Cardinality(C \ {y})
    BY <1>2
<1>4. Cardinality(kSubset(k - 1, C \ {x})) = Cardinality(kSubset(k - 1, C \ {y}))
    BY <1>2, <1>3, SubsetsBySize
<1>5. Cardinality(kSubset(k - 1, C \ {y})) \in Nat
    BY <1>2, KSubsetsFinite
<1> QED
    BY <1>4, <1>5, SubsetsWithOne DEF Share, y

\* The sets with x, weighed by one each.
LEMMA HavingOnes ==
    ASSUME NEW K, IsFiniteSet(K), NEW x
    PROVE  /\ Weight(Ones(K), Having(K, x)) = Cardinality(Having(K, x))
           /\ Having(K, x) \in SUBSET K /\ IsFiniteSet(Having(K, x))
<1>1. Having(K, x) \in SUBSET K
    BY DEF Having
<1>2. IsFiniteSet(Having(K, x))
    BY <1>1, FS_Subset
<1>3. \A S \in Having(K, x) : Ones(K)[S] = 1
    BY <1>1 DEF Ones
<1> QED
    BY <1>1, <1>2, <1>3, WeightOfOnes

\* What the sets of k members weigh together.
LEMMA OverSubsets ==
    ASSUME NEW C, IsFiniteSet(C), NEW k \in Int, NEW v, \A x \in C : v[x] \in Nat,
           NEW w, \A S \in kSubset(k, C) : w[S] = Weight(v, S)
    PROVE  Weight(w, kSubset(k, C)) = Share(k, C) * Weight(v, C) \/ C = {}
<1> SUFFICES ASSUME C # {} PROVE Weight(w, kSubset(k, C)) = Share(k, C) * Weight(v, C)
    OBVIOUS
<1> DEFINE K == kSubset(k, C)
           c == Share(k, C)
           z == ByMember(C, v, Ones(K), K)
<1>1. K \in SUBSET (SUBSET C) /\ IsFiniteSet(K)
    BY KSubsetsFinite
<1>2. \A x \in C : Cardinality(Having(K, x)) = c /\ c \in Nat
    BY ShareOfAll
<1>3. \A S \in K : w[S] = Ones(K)[S] * Weight(v, S) /\ Ones(K)[S] \in Nat
    <2> TAKE S \in K
    <2>1. w[S] = Weight(v, S) /\ Ones(K)[S] = 1 /\ IsFiniteSet(S) /\ S \in SUBSET C
        BY KSubsetsFinite DEF Ones
    <2>2. Weight(v, S) \in Nat
        BY <2>1, WeightNat
    <2> QED
        BY <2>1, <2>2
<1> HIDE DEF K, c
<1>4. \A x \in C : z[x] = c * v[x]
    <2> TAKE x \in C
    <2>1. z[x] = v[x] * Weight(Ones(K), Having(K, x))
        BY DEF ByMember
    <2> HIDE DEF z
    <2>2. Weight(Ones(K), Having(K, x)) = c /\ c \in Nat /\ v[x] \in Nat
        BY <1>1, <1>2, HavingOnes
    <2> QED
        BY <2>1, <2>2
<1>5. Weight(w, K) = Weight(z, C)
    BY <1>1, <1>3, DoubleCount
<1> HIDE DEF z
<1>6. c \in Nat
    BY <1>2
<1>7. Weight(z, C) = c * Weight(v, C)
    BY <1>4, <1>6, WeightTimes
<1> QED
    BY <1>5, <1>7 DEF K, c

\* Each of them has k members.
LEMMA ShareTimes ==
    ASSUME NEW C, IsFiniteSet(C), C # {}, NEW k \in Int
    PROVE  Share(k, C) * Cardinality(C) = k * Cardinality(kSubset(k, C))
<1> DEFINE K == kSubset(k, C)
           w == [S \in K |-> Weight(Ones(C), S)]
<1>1. IsFiniteSet(K) /\ \A S \in K : IsFiniteSet(S) /\ S \in SUBSET C /\ Cardinality(S) = k
    BY KSubsetsFinite
<1>2. \A S \in K : w[S] = k
    <2> TAKE S \in K
    <2>1. \A x \in S : Ones(C)[x] = 1
        BY <1>1 DEF Ones
    <2> QED
        BY <1>1, <2>1, WeightOfOnes
<1>3. Weight(Ones(C), C) = Cardinality(C)
    <2>1. \A x \in C : Ones(C)[x] = 1
        BY DEF Ones
    <2> QED
        BY <2>1, WeightOfOnes
<1>4. Weight(w, K) = Share(k, C) * Weight(Ones(C), C)
    <2>1. \A x \in C : Ones(C)[x] \in Nat
        BY DEF Ones
    <2>2. \A S \in kSubset(k, C) : w[S] = Weight(Ones(C), S)
        OBVIOUS
    <2> HIDE DEF w
    <2> QED
        BY <2>1, <2>2, OverSubsets
<1> HIDE DEF w
<1>5. Weight(w, K) = k * Cardinality(K)
    <2>1. CASE K = {}
        <3>1. Weight(w, {}) = 0 /\ Cardinality({}) = 0
            BY WeightEmpty, FS_EmptySet
        <3> QED
            BY <2>1, <3>1
    <2>2. CASE K # {}
        <3>1. PICK S \in K : TRUE
            BY <2>2
        <3>2. k \in Nat
            BY <1>1, <3>1, FS_CardinalityType
        <3> HIDE DEF K
        <3> QED
            BY <1>1, <1>2, <3>2, WeightConstant
    <2> QED
        BY <2>1, <2>2
<1> QED
    BY <1>3, <1>4, <1>5

\* One member for each of another set: as many, and of the same weight.
LEMMA WeightMoved ==
    ASSUME NEW K, IsFiniteSet(K), NEW e, \A x, y \in K : e[x] = e[y] => x = y,
           NEW f, \A x \in K : f[e[x]] \in Nat, NEW h, \A x \in K : h[x] = f[e[x]]
    PROVE  /\ Weight(f, ImageOf(e, K)) = Weight(h, K)
           /\ IsFiniteSet(ImageOf(e, K)) /\ Cardinality(ImageOf(e, K)) = Cardinality(K)
<1> DEFINE Holds(L) == /\ Weight(f, ImageOf(e, L)) = Weight(h, L)
                       /\ IsFiniteSet(ImageOf(e, L)) /\ Cardinality(ImageOf(e, L)) = Cardinality(L)
           Good == {L \in SUBSET K : Holds(L)}
<1>1. {} \in Good
    <2>1. ImageOf(e, {}) = {}
        BY DEF ImageOf
    <2> QED
        BY <2>1, WeightEmpty, FS_EmptySet
<1>2. ASSUME NEW L \in SUBSET K, L # {}, \A x \in L : L \ {x} \in Good
      PROVE  L \in Good
    <2> PICK x \in L : TRUE
        BY <1>2
    <2> DEFINE M == L \ {x}
               I == ImageOf(e, M)
    <2>1. Holds(M) /\ x \notin M /\ L = M \cup {x} /\ M \in SUBSET K /\ x \in K
        BY <1>2
    <2>2. IsFiniteSet(M) /\ IsFiniteSet(I)
        BY <2>1, FS_Subset
    <2>3. ImageOf(e, L) = I \cup {e[x]}
        BY <2>1 DEF ImageOf
    <2>4. e[x] \notin I
        BY <2>1 DEF ImageOf
    <2>5. \A y \in I \cup {e[x]} : f[y] \in Nat
        BY <2>1 DEF ImageOf
    <2>6. \A y \in M \cup {x} : h[y] \in Nat
        BY <2>1
    <2> HIDE DEF M, I
    <2>7. Weight(f, I \cup {e[x]}) = Weight(f, I) + f[e[x]]
        <3> DEFINE z == e[x]
        <3>1. z \notin I /\ \A y \in I \cup {z} : f[y] \in Nat
            BY <2>4, <2>5
        <3> HIDE DEF z
        <3>2. Weight(f, I \cup {z}) = Weight(f, I) + f[z]
            BY <2>2, <3>1, WeightAdd
        <3> QED
            BY <3>2 DEF z
    <2>8. Weight(h, M \cup {x}) = Weight(h, M) + h[x]
        <3>1. x \notin M
            BY <2>1
        <3>2. IsFiniteSet(M)
            BY <2>2
        <3> QED
            BY <2>6, <3>1, <3>2, WeightAdd
    <2>9. /\ Cardinality(I \cup {e[x]}) = Cardinality(I) + 1
          /\ Cardinality(M \cup {x}) = Cardinality(M) + 1
          /\ IsFiniteSet(I \cup {e[x]})
        BY <2>1, <2>2, <2>4, FS_AddElement
    <2>10. h[x] = f[e[x]]
        OBVIOUS
    <2>11. Weight(f, I) = Weight(h, M) /\ Cardinality(I) = Cardinality(M)
        BY <2>1 DEF I
    <2> QED
        BY <2>1, <2>3, <2>7, <2>8, <2>9, <2>10, <2>11
<1> HIDE DEF Good
<1>3. \A L \in SUBSET K : L # {} /\ (\A x \in L : L \ {x} \in Good) => L \in Good
    BY <1>2
<1>4. \A L \in SUBSET K : L \in Good
    BY <1>1, <1>3, SetInduction
<1> QED
    BY <1>4 DEF Good

\* The share depends on the size alone.
LEMMA ShareBySize ==
    ASSUME NEW A, NEW B, IsFiniteSet(A), IsFiniteSet(B), A # {}, B # {},
           Cardinality(A) = Cardinality(B), NEW k \in Int
    PROVE  Share(k, A) = Share(k, B)
<1> PICK x \in A, y \in B : TRUE
    OBVIOUS
<1>1. /\ IsFiniteSet(A \ {x}) /\ IsFiniteSet(B \ {y})
      /\ Cardinality(A \ {x}) = Cardinality(A) - 1 /\ Cardinality(B \ {y}) = Cardinality(B) - 1
    BY FS_RemoveElement
<1>2. Cardinality(A \ {x}) = Cardinality(B \ {y})
    BY <1>1
<1>3. Cardinality(kSubset(k - 1, A \ {x})) = Cardinality(kSubset(k - 1, B \ {y}))
    BY <1>1, <1>2, SubsetsBySize
<1> QED
    BY <1>3, ShareOfAll

\* In how many of the sets of k members two members are.
Pairs(k, C) == Share(k - 1, C \ {CHOOSE x \in C : TRUE})

\* Every two members are together in as many of the sets of k members.
LEMMA PairShare ==
    ASSUME NEW C, IsFiniteSet(C), NEW k \in Int, NEW x \in C, NEW y \in C, x # y
    PROVE  /\ Cardinality(Having(Having(kSubset(k, C), x), y)) = Pairs(k, C)
           /\ Pairs(k, C) \in Nat
           /\ Pairs(k, C) * (Cardinality(C) - 1) = (k - 1) * Share(k, C)
<1> DEFINE D == C \ {x}
           L == Having(kSubset(k - 1, D), y)
           e == [S \in SUBSET C |-> S \cup {x}]
           z == CHOOSE a \in C : TRUE
<1>1. z \in C
    OBVIOUS
<1> HIDE DEF z
<1>2. /\ IsFiniteSet(D) /\ Cardinality(D) = Cardinality(C) - 1
      /\ IsFiniteSet(C \ {z}) /\ Cardinality(C \ {z}) = Cardinality(C) - 1
    BY <1>1, FS_RemoveElement
<1>3. y \in D /\ D # {} /\ Cardinality(C) - 1 \in Nat
    BY <1>2, FS_CardinalityType
<1>4. C \ {z} # {}
    BY <1>2, <1>3
<1>5. Share(k - 1, D) = Pairs(k, C)
    <2>1. Share(k - 1, D) = Share(k - 1, C \ {z})
        BY <1>2, <1>3, <1>4, ShareBySize
    <2> QED
        BY <2>1 DEF Pairs, z
<1>0. k - 1 \in Int
    OBVIOUS
<1>6. Cardinality(L) = Share(k - 1, D) /\ Share(k - 1, D) \in Nat
    <2> HIDE DEF D
    <2> QED
        BY <1>0, <1>2, <1>3, ShareOfAll
<1>7. \A S \in kSubset(k - 1, D) : S \in SUBSET D /\ IsFiniteSet(S) /\ Cardinality(S) = k - 1
    BY <1>2, KSubsetsFinite
<1>8. ImageOf(e, L) = Having(Having(kSubset(k, C), x), y)
    <2>1. \A S \in L : e[S] \in Having(Having(kSubset(k, C), x), y)
        <3> TAKE S \in L
        <3>1. S \in SUBSET D /\ IsFiniteSet(S) /\ Cardinality(S) = k - 1 /\ y \in S /\ x \notin S
            BY <1>7 DEF Having
        <3>2. Cardinality(S \cup {x}) = (k - 1) + 1
            BY <3>1, FS_AddElement
        <3>3. S \cup {x} \in kSubset(k, C)
            BY <3>1, <3>2 DEF kSubset
        <3>4. e[S] = S \cup {x}
            BY <3>1
        <3> QED
            BY <3>1, <3>3, <3>4 DEF Having
    <2>2. ASSUME NEW R \in Having(Having(kSubset(k, C), x), y)
          PROVE  \E S \in L : e[S] = R
        <3>1. R \in kSubset(k, C) /\ x \in R /\ y \in R
            BY DEF Having
        <3>2. R \in SUBSET C /\ IsFiniteSet(R) /\ Cardinality(R) = k
            BY <3>1, KSubsetsFinite
        <3>3. Cardinality(R \ {x}) = k - 1
            BY <3>1, <3>2, FS_RemoveElement
        <3>4. R \ {x} \in kSubset(k - 1, D)
            BY <3>2, <3>3 DEF kSubset
        <3>5. R \ {x} \in L
            BY <3>1, <3>4 DEF Having
        <3>6. e[R \ {x}] = R
            BY <3>1, <3>2
        <3> QED
            BY <3>5, <3>6
    <2> HIDE DEF L, e
    <2> QED
        BY <2>1, <2>2 DEF ImageOf
<1>9. IsFiniteSet(L) /\ \A S, T \in L : e[S] = e[T] => S = T
    <2>1. L \in SUBSET kSubset(k - 1, D)
        BY DEF Having
    <2>2. IsFiniteSet(kSubset(k - 1, D))
        BY <1>2, KSubsetsFinite
    <2>3. IsFiniteSet(L)
        BY <2>1, <2>2, FS_Subset
    <2>4. \A S \in L : S \in SUBSET C /\ x \notin S
        BY <1>7, <2>1
    <2> HIDE DEF L
    <2>5. ASSUME NEW S \in L, NEW T \in L, e[S] = e[T]
          PROVE  S = T
        <3>1. S \cup {x} = T \cup {x} /\ x \notin S /\ x \notin T
            BY <2>4, <2>5
        <3> QED
            BY <3>1
    <2> QED
        BY <2>3, <2>5
<1>10. Cardinality(ImageOf(e, L)) = Cardinality(L)
    <2> DEFINE h == [S \in L |-> 1]
               g == [S \in ImageOf(e, L) |-> 1]
    <2>1. \A S \in L : g[e[S]] \in Nat /\ h[S] = g[e[S]]
        BY DEF ImageOf
    <2> HIDE DEF L, e, g, h
    <2> QED
        BY <1>9, <2>1, WeightMoved
<1>11. Share(k - 1, D) * Cardinality(D) = (k - 1) * Cardinality(kSubset(k - 1, D))
    <2> HIDE DEF D
    <2> QED
        BY <1>0, <1>2, <1>3, ShareTimes
<1>12. Cardinality(kSubset(k - 1, D)) = Share(k, C)
    BY ShareOfAll
<1> QED
    BY <1>2, <1>5, <1>6, <1>8, <1>10, <1>11, <1>12

\* The sets with x are finitely many.
LEMMA HavingFinite ==
    ASSUME NEW C, IsFiniteSet(C), NEW k \in Int, NEW x
    PROVE  /\ Having(kSubset(k, C), x) \in SUBSET kSubset(k, C)
           /\ Having(kSubset(k, C), x) \in SUBSET (SUBSET C)
           /\ IsFiniteSet(Having(kSubset(k, C), x))
<1>1. Having(kSubset(k, C), x) \in SUBSET kSubset(k, C)
    BY DEF Having
<1>2. IsFiniteSet(kSubset(k, C)) /\ kSubset(k, C) \in SUBSET (SUBSET C)
    BY KSubsetsFinite
<1> QED
    BY <1>1, <1>2, FS_Subset

\* What the sets with x weigh together.
LEMMA OverSubsetsWithOne ==
    ASSUME NEW C, IsFiniteSet(C), NEW k \in Int, NEW v, \A x \in C : v[x] \in Nat,
           NEW w, \A S \in kSubset(k, C) : w[S] = Weight(v, S), NEW x \in C
    PROVE  Weight(w, Having(kSubset(k, C), x))
              = Share(k, C) * v[x] + Pairs(k, C) * (Weight(v, C) - v[x])
<1> DEFINE H == Having(kSubset(k, C), x)
           c == Share(k, C)
           d == Pairs(k, C)
           z == ByMember(C, v, Ones(H), H)
           D == C \ {x}
<1>1. H \in SUBSET (SUBSET C) /\ IsFiniteSet(H) /\ H \in SUBSET kSubset(k, C)
    BY HavingFinite
<1>2. Cardinality(H) = c /\ c \in Nat
    BY ShareOfAll
<1>3. \A y \in D : Cardinality(Having(H, y)) = d /\ d \in Nat
    BY PairShare
<1>4. d \in Nat
    <2> DEFINE a == CHOOSE a \in C : TRUE
    <2>1. a \in C
        OBVIOUS
    <2> HIDE DEF a
    <2>2. IsFiniteSet(C \ {a})
        BY FS_RemoveElement
    <2> DEFINE b == CHOOSE b \in C \ {a} : TRUE
    <2>3. IsFiniteSet((C \ {a}) \ {b})
        BY <2>2, FS_Subset
    <2>4. Cardinality(kSubset(k - 1 - 1, (C \ {a}) \ {b})) \in Nat
        BY <2>3, KSubsetsFinite
    <2> QED
        BY <2>4 DEF Pairs, Share, a, b
<1>5. Having(H, x) = H
    BY DEF Having
<1>6. \A S \in H : w[S] = Ones(H)[S] * Weight(v, S) /\ Ones(H)[S] \in Nat
    <2> TAKE S \in H
    <2>1. w[S] = Weight(v, S) /\ Ones(H)[S] = 1 /\ S \in SUBSET C
        BY <1>1 DEF Ones
    <2>2. IsFiniteSet(S)
        BY <2>1, FS_Subset
    <2>3. Weight(v, S) \in Nat
        BY <2>1, <2>2, WeightNat
    <2> QED
        BY <2>1, <2>3
<1> HIDE DEF H, c, d
<1>7. \A y \in C : z[y] = v[y] * Cardinality(Having(H, y))
    <2> TAKE y \in C
    <2>1. z[y] = v[y] * Weight(Ones(H), Having(H, y))
        BY DEF ByMember
    <2> HIDE DEF z
    <2> QED
        BY <1>1, <2>1, HavingOnes
<1>8. Weight(w, H) = Weight(z, C)
    BY <1>1, <1>6, DoubleCount
<1> HIDE DEF z
<1>9. z[x] = c * v[x] /\ z[x] \in Nat
    <2>1. z[x] = v[x] * c /\ v[x] \in Nat /\ c \in Nat
        BY <1>2, <1>5, <1>7
    <2> QED
        BY <2>1
<1>10. \A y \in D : z[y] = d * v[y] /\ z[y] \in Nat /\ v[y] \in Nat
    <2> TAKE y \in D
    <2>1. z[y] = v[y] * d /\ v[y] \in Nat /\ d \in Nat
        BY <1>3, <1>7
    <2> QED
        BY <2>1
<1>11. C = D \cup {x} /\ x \notin D /\ IsFiniteSet(D)
    BY FS_RemoveElement
<1> HIDE DEF D
<1>12. Weight(z, D) = d * Weight(v, D)
    BY <1>4, <1>10, <1>11, WeightTimes
<1>13. Weight(z, D \cup {x}) = Weight(z, D) + z[x]
    <2>1. \A y \in D \cup {x} : z[y] \in Nat
        BY <1>9, <1>10
    <2> QED
        BY <1>11, <2>1, WeightAdd
<1>14. Weight(v, D \cup {x}) = Weight(v, D) + v[x] /\ Weight(v, D) \in Nat
    <2>1. \A y \in D \cup {x} : v[y] \in Nat
        BY <1>10
    <2> QED
        BY <1>11, <2>1, WeightAdd
<1>15. Weight(v, C) - v[x] = Weight(v, D)
    <2>1. v[x] \in Nat
        OBVIOUS
    <2> QED
        BY <1>11, <1>14, <2>1
<1> QED
    BY <1>8, <1>9, <1>11, <1>12, <1>13, <1>15, <1>2, <1>4, <1>14 DEF H, c, d

\* What the squares of the sets of k members weigh together.
LEMMA SquaresOverSubsets ==
    ASSUME NEW C, IsFiniteSet(C), NEW k \in Int, NEW v, \A x \in C : v[x] \in Nat,
           NEW w, \A S \in kSubset(k, C) : w[S] = Weight(v, S),
           NEW s, \A S \in kSubset(k, C) : s[S] = w[S] * w[S],
           NEW p, \A x \in C : p[x] = v[x] * v[x], C # {}
    PROVE  Weight(s, kSubset(k, C))
              = Share(k, C) * Weight(p, C)
                  + Pairs(k, C) * (Weight(v, C) * Weight(v, C) - Weight(p, C))
<1> DEFINE K == kSubset(k, C)
           c == Share(k, C)
           d == Pairs(k, C)
           t == Weight(v, C)
           z == ByMember(C, v, w, K)
           r == [x \in C |-> v[x] * (t - v[x])]
           f == [x \in C |-> c * p[x]]
           g == [x \in C |-> d * r[x]]
           h == [x \in C |-> t * v[x]]
<1>1. K \in SUBSET (SUBSET C) /\ IsFiniteSet(K)
    BY KSubsetsFinite
<1>2. t \in Nat
    BY WeightNat
<1>3. c \in Nat /\ d \in Nat
    <2> PICK x \in C : TRUE
        OBVIOUS
    <2>1. c \in Nat
        BY ShareOfAll
    <2> DEFINE a == CHOOSE a \in C : TRUE
    <2>2. a \in C
        OBVIOUS
    <2> HIDE DEF a
    <2>3. IsFiniteSet(C \ {a})
        BY FS_RemoveElement
    <2> DEFINE b == CHOOSE b \in C \ {a} : TRUE
    <2>4. IsFiniteSet((C \ {a}) \ {b})
        BY <2>3, FS_Subset
    <2>5. Cardinality(kSubset(k - 1 - 1, (C \ {a}) \ {b})) \in Nat
        BY <2>4, KSubsetsFinite
    <2> QED
        BY <2>1, <2>5 DEF Pairs, Share, a, b
<1>4. \A S \in K : s[S] = w[S] * Weight(v, S) /\ w[S] \in Nat
    <2> TAKE S \in K
    <2>1. IsFiniteSet(S) /\ S \in SUBSET C
        BY KSubsetsFinite
    <2>2. Weight(v, S) \in Nat
        BY <2>1, WeightNat
    <2> QED
        BY <2>2
<1>5. \A x \in C : t - v[x] \in Nat
    <2> TAKE x \in C
    <2> DEFINE D == C \ {x}
    <2>1. C = D \cup {x} /\ x \notin D /\ IsFiniteSet(D) /\ \A y \in D \cup {x} : v[y] \in Nat
        BY FS_RemoveElement
    <2> HIDE DEF D
    <2>2. Weight(v, D \cup {x}) = Weight(v, D) + v[x] /\ Weight(v, D) \in Nat
        BY <2>1, WeightAdd
    <2>3. t = Weight(v, D) + v[x] /\ v[x] \in Nat
        BY <2>1, <2>2
    <2> HIDE DEF t
    <2> QED
        BY <2>2, <2>3
<1>6. \A x \in C : z[x] = v[x] * (c * v[x] + d * (t - v[x]))
    <2> TAKE x \in C
    <2>1. Weight(w, Having(K, x)) = c * v[x] + d * (t - v[x])
        BY OverSubsetsWithOne
    <2> QED
        BY <2>1 DEF ByMember
<1>7. Weight(s, K) = Weight(z, C)
    <2> HIDE DEF K
    <2> QED
        BY <1>1, <1>4, DoubleCount
<1> HIDE DEF t, z, c, d
<1>8. \A x \in C : /\ p[x] \in Nat /\ r[x] \in Nat /\ h[x] = t * v[x] /\ h[x] = p[x] + r[x]
                   /\ f[x] \in Nat /\ g[x] \in Nat /\ z[x] = f[x] + g[x]
    <2> TAKE x \in C
    <2> DEFINE a == v[x]
               b == t - v[x]
    <2>1. a \in Nat /\ b \in Nat /\ t = a + b
        BY <1>2, <1>5
    <2>2. p[x] = a * a /\ r[x] = a * b /\ z[x] = a * (c * a + d * b)
        BY <1>6
    <2>3. h[x] = t * a /\ f[x] = c * (a * a) /\ g[x] = d * (a * b)
        BY <2>2
    <2> HIDE DEF a, b
    <2>4. a * a \in Nat /\ a * b \in Nat
        BY <2>1
    <2>5. c * (a * a) \in Nat /\ d * (a * b) \in Nat
        BY <1>3, <2>4
    <2>6. (a + b) * a = a * a + a * b
        BY <2>1
    <2>7. a * (c * a + d * b) = c * (a * a) + d * (a * b)
        BY <1>3, <2>1
    <2> QED
        BY <2>1, <2>2, <2>3, <2>4, <2>5, <2>6, <2>7 DEF a
<1>9. (\A x \in C : f[x] = c * p[x]) /\ (\A x \in C : g[x] = d * r[x])
    OBVIOUS
<1> HIDE DEF r, f, g, h
<1>10. Weight(z, C) = Weight(f, C) + Weight(g, C)
    BY <1>8, WeightPlus
<1>11. Weight(f, C) = c * Weight(p, C)
    BY <1>3, <1>8, <1>9, WeightTimes
<1>12. Weight(g, C) = d * Weight(r, C)
    BY <1>3, <1>8, <1>9, WeightTimes
<1>13. Weight(h, C) = Weight(p, C) + Weight(r, C)
    BY <1>8, WeightPlus
<1>14. Weight(h, C) = t * Weight(v, C)
    BY <1>2, <1>8, WeightTimes
<1>15. Weight(p, C) \in Nat /\ Weight(r, C) \in Nat
    BY <1>8, WeightNat
<1>16. Weight(v, C) * Weight(v, C) - Weight(p, C) = Weight(r, C)
    BY <1>2, <1>13, <1>14, <1>15 DEF t
<1> QED
    BY <1>7, <1>10, <1>11, <1>12, <1>16 DEF K, c, d

Chosen(before, n, k) ==
    IF k > n THEN 0
    ELSE IF k = 0 \/ n = 0 THEN 1
    ELSE (before * n) \div k

Builds(f, g) ==
    f = [n \in 0..TopNumber |-> [k \in 0..TopNumber |-> Chosen(g[n - 1][k - 1], n, k)]]

\* The rule of the table of combinationCount(), entry by entry.
LEMMA BuildsEach ==
    ASSUME NEW f, NEW g, Builds(f, g), NEW n \in 0..TopNumber, NEW k \in 0..TopNumber
    PROVE  f[n][k] = Chosen(g[n - 1][k - 1], n, k)
BY DEF Builds

IsChoose(f) == Builds(f, f)

Subsets == [n \in 0..TopNumber |-> [k \in 0..TopNumber |-> Cardinality(kSubset(k, 1..n))]]

LEMMA TopIsNat == TopNumber \in Nat
BY PlanningAssumption DEF PlanningAssumption

\* The numbers of subsets obey the rule of combinationCount(): k times those of k
\* members are n times those of k - 1 members among one number less.
LEMMA SubsetsAreChosen == IsChoose(Subsets)
<1>1. ASSUME NEW n \in 0..TopNumber, NEW k \in 0..TopNumber
      PROVE  Cardinality(kSubset(k, 1..n))
                = Chosen(Subsets[n - 1][k - 1], n, k)
    <2> DEFINE C == 1..n
    <2>1. n \in Nat /\ k \in Nat
        BY TopIsNat
    <2>2. IsFiniteSet(C) /\ Cardinality(C) = n
        BY <2>1, FS_Interval
    <2>3. \A S \in kSubset(k, C) : S \in SUBSET C /\ IsFiniteSet(S) /\ Cardinality(S) = k
        BY <2>2, KSubsetsFinite
    <2>4. CASE k > n
        <3>1. \A S \in kSubset(k, C) : Cardinality(S) <= Cardinality(C)
            BY <2>2, <2>3, FS_Subset
        <3>2. kSubset(k, C) = {}
            BY <2>1, <2>2, <2>3, <2>4, <3>1
        <3> QED
            BY <2>1, <2>4, <3>2, FS_EmptySet DEF Chosen
    <2>5. CASE ~(k > n) /\ (k = 0 \/ n = 0)
        <3>1. k = 0
            BY <2>1, <2>5
        <3>2. \A S \in kSubset(k, C) : S = {}
            BY <2>3, <3>1, FS_EmptySet
        <3>3. {} \in kSubset(k, C)
            BY <3>1, FS_EmptySet DEF kSubset
        <3>4. kSubset(k, C) = {{}}
            BY <3>2, <3>3
        <3> QED
            BY <2>1, <2>5, <3>4, FS_Singleton DEF Chosen
    <2>6. CASE ~(k > n) /\ ~(k = 0 \/ n = 0)
        <3>1. n \in C /\ C \ {n} = 1..(n - 1) /\ C # {}
            BY <2>1, <2>6
        <3>2. k - 1 \in 0..TopNumber /\ n - 1 \in 0..TopNumber /\ k \in Int
            BY <2>1, <2>6, TopIsNat
        <3>3. Subsets[n - 1][k - 1] = Share(k, C) /\ Share(k, C) \in Nat
            <4>1. Subsets[n - 1][k - 1] = Cardinality(kSubset(k - 1, 1..(n - 1)))
                BY <3>2 DEF Subsets
            <4> HIDE DEF C
            <4>2. Cardinality(kSubset(k - 1, C \ {n})) = Share(k, C) /\ Share(k, C) \in Nat
                BY <2>2, <3>1, <3>2, ShareOfAll
            <4> QED
                BY <3>1, <4>1, <4>2
        <3>4. Share(k, C) * n = k * Cardinality(kSubset(k, C))
            <4> HIDE DEF C
            <4> QED
                BY <2>2, <3>1, <3>2, ShareTimes
        <3>5. Cardinality(kSubset(k, C)) \in Nat
            BY <2>2, KSubsetsFinite
        <3> DEFINE a == Share(k, C)
                   b == Cardinality(kSubset(k, C))
        <3> HIDE DEF a, b
        <3>6. a * n = k * b /\ b \in Nat /\ a \in Nat /\ k \in Nat /\ k > 0
            BY <2>1, <2>6, <3>3, <3>4, <3>5 DEF a, b
        <3>7. (k * b) \div k = b
            BY <3>6
        <3> QED
            BY <2>6, <3>3, <3>6, <3>7 DEF a, b, Chosen
    <2> QED
        BY <2>4, <2>5, <2>6
<1> QED
    BY <1>1 DEF IsChoose, Builds, Subsets

\* combinationCount(n, k), which multiplies and divides its way along a diagonal of
\* Pascal's triangle, counts the sets of k of n numbers (planningSpace.ts).
THEOREM ChooseCounts ==
    ASSUME NEW n \in 0..TopNumber, NEW k \in 0..TopNumber
    PROVE  Choose[n][k] = Cardinality(kSubset(k, 1..n))
<1>1. Choose = CHOOSE f : IsChoose(f)
    BY DEF Choose, IsChoose, Builds, Chosen
<1>2. IsChoose(Choose)
    BY <1>1, SubsetsAreChosen
<1> HIDE DEF Choose
<1> DEFINE Good == {m \in 0..TopNumber : \A j \in 0..TopNumber : Choose[m][j] = Subsets[m][j]}
<1>3. 0 \in Good
    <2> SUFFICES ASSUME NEW j \in 0..TopNumber PROVE Choose[0][j] = Subsets[0][j]
        BY TopIsNat
    <2>1. 0 \in 0..TopNumber
        BY TopIsNat
    <2>2. Choose[0][j] = Chosen(Choose[0 - 1][j - 1], 0, j)
        BY <1>2, <2>1, BuildsEach DEF IsChoose
    <2>3. Subsets[0][j] = Chosen(Subsets[0 - 1][j - 1], 0, j)
        BY SubsetsAreChosen, <2>1, BuildsEach DEF IsChoose
    <2> QED
        BY <2>2, <2>3 DEF Chosen
<1>4. ASSUME NEW m \in 0..(TopNumber - 1), m \in Good
      PROVE  m + 1 \in Good
    <2> PICK i \in 0..TopNumber : i = m + 1
        BY TopIsNat
    <2> SUFFICES ASSUME NEW j \in 0..TopNumber PROVE Choose[i][j] = Subsets[i][j]
        OBVIOUS
    <2>1. Choose[i][j] = Chosen(Choose[i - 1][j - 1], i, j)
        BY <1>2, BuildsEach DEF IsChoose
    <2>2. Subsets[i][j] = Chosen(Subsets[i - 1][j - 1], i, j)
        BY SubsetsAreChosen, BuildsEach DEF IsChoose
    <2>3. i - 1 = m /\ (j # 0 => j - 1 \in 0..TopNumber)
        BY TopIsNat
    <2>4. j # 0 => Choose[i - 1][j - 1] = Subsets[i - 1][j - 1]
        BY <1>4, <2>3
    <2> QED
        BY <2>1, <2>2, <2>4 DEF Chosen
<1> HIDE DEF Good
<1>5. \A m \in 0..TopNumber : m \in Good
    BY <1>3, <1>4, TopIsNat, CountingUp
<1> QED
    BY <1>5 DEF Good, Subsets

\* Two sets without a common member weigh together what they weigh.
LEMMA WeightUnion ==
    ASSUME NEW A, NEW B, IsFiniteSet(A), IsFiniteSet(B), A \cap B = {},
           NEW f, \A x \in A \cup B : f[x] \in Nat
    PROVE  Weight(f, A \cup B) = Weight(f, A) + Weight(f, B)
<1>1. /\ IsFiniteSet(Cells(f, A)) /\ Cardinality(Cells(f, A)) \in Nat
      /\ IsFiniteSet(Cells(f, B)) /\ Cardinality(Cells(f, B)) \in Nat
    BY CellsFinite
<1>2. Cells(f, A \cup B) = Cells(f, A) \cup Cells(f, B)
    BY DEF Cells
<1>3. Cells(f, A) \cap Cells(f, B) = {}
    BY DEF Cells
<1> DEFINE a == Cells(f, A)
           b == Cells(f, B)
<1>4. a \cap b = {} /\ IsFiniteSet(a) /\ IsFiniteSet(b)
    BY <1>1, <1>3
<1> HIDE DEF a, b
<1>5. Cardinality(a \cup b) = Cardinality(a) + Cardinality(b) - Cardinality({})
    BY <1>4, FS_Union
<1>6. Cardinality({}) = 0
    BY FS_EmptySet
<1> QED
    <2>1. Weight(f, A \cup B) = Cardinality(a \cup b)
        BY <1>2 DEF Weight, a, b
    <2>2. /\ Weight(f, A) = Cardinality(a) /\ Weight(f, B) = Cardinality(b)
          /\ Cardinality(a) \in Nat /\ Cardinality(b) \in Nat
        BY <1>1 DEF Weight, a, b
    <2>3. Cardinality(a \cup b) = Cardinality(a) + Cardinality(b)
        <3> DEFINE x == Cardinality(a)
                   y == Cardinality(b)
                   z == Cardinality({})
        <3>1. Cardinality(a \cup b) = x + y - z /\ z = 0 /\ x \in Nat /\ y \in Nat
            BY <1>5, <1>6, <2>2
        <3> HIDE DEF x, y, z
        <3>2. x + y - z = x + y
            BY <3>1
        <3> QED
            BY <3>1, <3>2 DEF x, y
    <2> QED
        BY <2>1, <2>2, <2>3

\* What the plan measures in a game.
Bits == [v \in Numbers |-> v % 2]
Held(q) == [v \in Numbers |-> IF v \in q.reference THEN 1 ELSE 0]
Summands == [v \in Numbers |-> v]

\* Games are finite sets of numbers of the draw.
LEMMA NumbersFinite ==
    /\ IsFiniteSet(Numbers) /\ Cardinality(Numbers) = TopNumber
    /\ \A S \in SUBSET Numbers : IsFiniteSet(S) /\ Cardinality(S) \in Nat /\ S \in SUBSET Nat
<1>1. IsFiniteSet(Numbers) /\ Cardinality(Numbers) = TopNumber
    BY TopIsNat, FS_Interval DEF Numbers
<1>2. \A S \in SUBSET Numbers : IsFiniteSet(S)
    BY <1>1, FS_Subset
<1>3. Numbers \in SUBSET Nat
    BY TopIsNat DEF Numbers
<1> QED
    BY <1>1, <1>2, <1>3, FS_CardinalityType

\* What is measured of a number is a natural number.
LEMMA MeasuresNat ==
    ASSUME NEW q
    PROVE  \A v \in Numbers : Bits[v] \in Nat /\ Held(q)[v] \in Nat /\ Summands[v] \in Nat
<1>1. ASSUME NEW v \in Numbers
      PROVE  Bits[v] \in Nat /\ Held(q)[v] \in Nat /\ Summands[v] \in Nat
    <2>1. v \in Nat
        BY NumbersFinite
    <2> QED
        BY <2>1 DEF Bits, Held, Summands
<1> QED
    BY <1>1

\* A set weighs the members it has that are marked by one.
LEMMA Indicated ==
    ASSUME NEW S, IsFiniteSet(S), NEW T \in SUBSET S, NEW f,
           \A x \in S : f[x] = IF x \in T THEN 1 ELSE 0
    PROVE  Weight(f, S) = Cardinality(T)
<1>1. IsFiniteSet(T)
    BY FS_Subset
<1>2. Weight(Ones(S), T) = Cardinality(T)
    BY <1>1, WeightOfOnes DEF Ones
<1>3. \A x \in S : Ones(S)[x] \in Nat /\ f[x] = IF x \in T THEN Ones(S)[x] ELSE 0
    BY DEF Ones
<1>4. Weight(f, S) = Weight(Ones(S), T)
    BY <1>3, WeightWithin
<1> QED
    BY <1>2, <1>4

\* The odd numbers, the repeated numbers and the sum of a game are weights.
LEMMA Measures ==
    ASSUME NEW q, NEW S \in SUBSET Numbers
    PROVE  /\ Cardinality(Odd(S)) = Weight(Bits, S)
           /\ Cardinality(S \cap q.reference) = Weight(Held(q), S)
           /\ Sum(S) = Weight(Summands, S)
           /\ Weight(Bits, S) \in Nat /\ Weight(Held(q), S) \in Nat /\ Weight(Summands, S) \in Nat
<1>1. IsFiniteSet(S) /\ S \in SUBSET Nat
    BY NumbersFinite
<1>2. Weight(Bits, S) \in Nat /\ Weight(Held(q), S) \in Nat /\ Weight(Summands, S) \in Nat
    <2>1. \A v \in S : Bits[v] \in Nat /\ Held(q)[v] \in Nat /\ Summands[v] \in Nat
        BY MeasuresNat
    <2> QED
        BY <1>1, <2>1, WeightNat
<1>3. Cardinality(Odd(S)) = Weight(Bits, S)
    <2>1. \A x \in S : Bits[x] = IF x \in Odd(S) THEN 1 ELSE 0
        BY <1>1 DEF Bits, Odd
    <2>2. Odd(S) \in SUBSET S
        BY DEF Odd
    <2> QED
        BY <1>1, <2>1, <2>2, Indicated
<1>4. Cardinality(S \cap q.reference) = Weight(Held(q), S)
    <2>1. \A x \in S : Held(q)[x] = IF x \in S \cap q.reference THEN 1 ELSE 0
        BY DEF Held
    <2>2. S \cap q.reference \in SUBSET S
        OBVIOUS
    <2> QED
        BY <1>1, <2>1, <2>2, Indicated
<1>5. Sum(S) = Weight(Summands, S)
    <2> DEFINE f == [v \in S |-> v]
    <2>1. f \in [S -> Nat]
        BY <1>1
    <2>2. Sum(S) = SumFunction(f)
        BY DEF Sum
    <2>3. \A v \in S : f[v] = Summands[v]
        BY DEF Summands
    <2> HIDE DEF f
    <2>4. SumFunction(f) = Weight(f, S)
        BY <1>1, <2>1, SumIsWeight
    <2>5. Weight(f, S) = Weight(Summands, S)
        BY <2>3, WeightSame
    <2> QED
        BY <2>2, <2>4, <2>5
<1> QED
    BY <1>2, <1>3, <1>4, <1>5

\* They add up over the fixed numbers and the others.
LEMMA MeasuresJoin ==
    ASSUME NEW q, NEW A \in SUBSET Numbers, NEW B \in SUBSET Numbers, A \cap B = {}
    PROVE  /\ Cardinality(Odd(A \cup B)) = Cardinality(Odd(A)) + Weight(Bits, B)
           /\ Cardinality((A \cup B) \cap q.reference)
                 = Cardinality(A \cap q.reference) + Weight(Held(q), B)
           /\ Sum(A \cup B) = Sum(A) + Weight(Summands, B)
<1>1. A \cup B \in SUBSET Numbers /\ IsFiniteSet(A) /\ IsFiniteSet(B)
    BY NumbersFinite
<1>2. \A v \in A \cup B : Bits[v] \in Nat /\ Held(q)[v] \in Nat /\ Summands[v] \in Nat
    BY MeasuresNat
<1>3. /\ Weight(Bits, A \cup B) = Weight(Bits, A) + Weight(Bits, B)
      /\ Weight(Held(q), A \cup B) = Weight(Held(q), A) + Weight(Held(q), B)
      /\ Weight(Summands, A \cup B) = Weight(Summands, A) + Weight(Summands, B)
    BY <1>1, <1>2, WeightUnion
<1>4. /\ Cardinality(Odd(A \cup B)) = Weight(Bits, A \cup B)
      /\ Cardinality((A \cup B) \cap q.reference) = Weight(Held(q), A \cup B)
      /\ Sum(A \cup B) = Weight(Summands, A \cup B)
    BY <1>1, Measures
<1>5. /\ Cardinality(Odd(A)) = Weight(Bits, A)
      /\ Cardinality(A \cap q.reference) = Weight(Held(q), A)
      /\ Sum(A) = Weight(Summands, A)
    BY <1>1, Measures
<1> QED
    BY <1>3, <1>4, <1>5

-----------------------------------------------------------------------------
(* The games of a request: the fixed numbers and some of the rest.         *)

More(q) == kSubset(Needed(q), Candidates(q))
WithFixed(q) == [S \in SUBSET Candidates(q) |-> q.fixed \cup S]

Selected(q) ==
    /\ q.fixed \in SUBSET Numbers /\ q.fixed \cap q.excluded = {}
    /\ q.betSize \in Int /\ Needed(q) \in Int /\ Cardinality(q.fixed) \in Nat
    /\ Candidates(q) \in SUBSET Numbers /\ q.fixed \cap Candidates(q) = {}
    /\ IsFiniteSet(Candidates(q)) /\ Cardinality(Candidates(q)) \in 0..TopNumber

\* A selection that validateGenerationSelection() lets through.
LEMMA ValidIsSelected ==
    ASSUME NEW q \in PlanAsks, SelectionIsValid(q)
    PROVE  Selected(q)
<1>1. q.betSize \in Int
    BY PlanningAssumption DEF PlanningAssumption
<1>2. q.fixed \in SUBSET Numbers /\ q.fixed \cap q.excluded = {}
    BY DEF SelectionIsValid
<1>3. Cardinality(q.fixed) \in Nat
    BY <1>2, NumbersFinite
<1>4. Candidates(q) \in SUBSET Numbers /\ q.fixed \cap Candidates(q) = {}
    BY DEF Candidates
<1>5. IsFiniteSet(Candidates(q)) /\ Cardinality(Candidates(q)) \in Nat
    BY <1>4, NumbersFinite
<1>6. Cardinality(Candidates(q)) <= TopNumber
    BY <1>4, NumbersFinite, FS_Subset
<1> QED
    BY <1>1, <1>2, <1>3, <1>4, <1>5, <1>6, TopIsNat DEF Selected, Needed

\* What completes the fixed numbers is a finite family.
LEMMA MoreFinite ==
    ASSUME NEW q, Selected(q)
    PROVE  /\ IsFiniteSet(More(q)) /\ Cardinality(More(q)) \in Nat
           /\ \A S \in More(q) : /\ S \in SUBSET Candidates(q) /\ IsFiniteSet(S)
                                 /\ Cardinality(S) = Needed(q) /\ S \in SUBSET Numbers
                                 /\ q.fixed \cap S = {} /\ WithFixed(q)[S] = q.fixed \cup S
<1>1. IsFiniteSet(Candidates(q)) /\ Candidates(q) \in SUBSET Numbers
      /\ q.fixed \cap Candidates(q) = {}
    BY DEF Selected
<1>2. /\ IsFiniteSet(More(q)) /\ Cardinality(More(q)) \in Nat
      /\ \A S \in More(q) : /\ S \in SUBSET Candidates(q) /\ IsFiniteSet(S)
                            /\ Cardinality(S) = Needed(q)
    BY <1>1, KSubsetsFinite DEF More
<1> QED
    BY <1>1, <1>2 DEF WithFixed

\* A game is the fixed numbers with what completes them, one for each.
LEMMA SpaceIsMoved ==
    ASSUME NEW q, Selected(q)
    PROVE  /\ Space(q) = ImageOf(WithFixed(q), More(q))
           /\ \A S, T \in More(q) : WithFixed(q)[S] = WithFixed(q)[T] => S = T
<1>1. \A S \in More(q) : WithFixed(q)[S] = q.fixed \cup S /\ q.fixed \cap S = {}
    BY MoreFinite
<1>2. Space(q) = ImageOf(WithFixed(q), More(q))
    <2>1. \A g \in Space(q) : \E S \in More(q) : g = WithFixed(q)[S]
        BY <1>1 DEF Space, More
    <2>2. \A S \in More(q) : WithFixed(q)[S] \in Space(q)
        BY <1>1 DEF Space, More
    <2> QED
        BY <2>1, <2>2 DEF ImageOf
<1>3. ASSUME NEW S \in More(q), NEW T \in More(q), WithFixed(q)[S] = WithFixed(q)[T]
      PROVE  S = T
    <2>1. q.fixed \cup S = q.fixed \cup T /\ q.fixed \cap S = {} /\ q.fixed \cap T = {}
        BY <1>1, <1>3
    <2> QED
        BY <2>1
<1> QED
    BY <1>2, <1>3

\* There are as many games as ways to complete them.
LEMMA SpaceSize ==
    ASSUME NEW q, Selected(q)
    PROVE  /\ IsFiniteSet(Space(q)) /\ Cardinality(Space(q)) = Cardinality(More(q))
           /\ \A g \in Space(q) : g \in SUBSET Numbers
<1> DEFINE f == Ones(Space(q))
           h == Ones(More(q))
<1>1. \A S \in More(q) : f[WithFixed(q)[S]] \in Nat /\ h[S] = f[WithFixed(q)[S]]
    BY SpaceIsMoved DEF Ones, ImageOf
<1>2. IsFiniteSet(More(q))
    BY MoreFinite
<1> HIDE DEF f, h
<1>3. IsFiniteSet(Space(q)) /\ Cardinality(Space(q)) = Cardinality(More(q))
    BY <1>1, <1>2, SpaceIsMoved, WeightMoved
<1>4. \A S \in More(q) : q.fixed \cup S \in SUBSET Numbers
    BY MoreFinite DEF Selected
<1> QED
    BY <1>3, <1>4 DEF Space, More

\* The weight of the games, by what they add to the fixed numbers.
LEMMA SpaceWeight ==
    ASSUME NEW q, Selected(q), NEW f, NEW h,
           \A S \in More(q) : f[q.fixed \cup S] \in Nat /\ h[S] = f[q.fixed \cup S]
    PROVE  Weight(f, Space(q)) = Weight(h, More(q))
<1>1. \A S \in More(q) : f[WithFixed(q)[S]] \in Nat /\ h[S] = f[WithFixed(q)[S]]
    BY MoreFinite
<1>2. IsFiniteSet(More(q))
    BY MoreFinite
<1> QED
    BY <1>1, <1>2, SpaceIsMoved, WeightMoved

\* Without ranges the plan counts the whole space.
LEMMA CountWithoutRanges ==
    ASSUME NEW q, Selected(q), q.odd = NoRange, q.repeated = NoRange, q.sum = NoRange
    PROVE  CountEligible(q) = Cardinality(Fitting(q))
<1>1. Fitting(q) = Space(q)
    BY DEF Fitting, Matches, WithinRange
<1> DEFINE n == Cardinality(Candidates(q))
           k == Needed(q)
<1>2. CountEligible(q) = IF k \in 0..n THEN Choose[n][k] ELSE 0
    BY DEF CountEligible
<1>3. n \in 0..TopNumber /\ k \in Int /\ IsFiniteSet(Candidates(q))
    BY DEF Selected
<1>4. Cardinality(Space(q)) = Cardinality(More(q)) /\ More(q) = kSubset(k, Candidates(q))
    BY SpaceSize DEF More
<1>5. CASE k \in 0..n
    <2>1. IsFiniteSet(1..n) /\ Cardinality(1..n) = n
        BY <1>3, FS_Interval
    <2>2. Cardinality(kSubset(k, 1..n)) = Cardinality(kSubset(k, Candidates(q)))
        BY <1>3, <2>1, SubsetsBySize
    <2>3. k \in 0..TopNumber
        <3>1. n \in Int /\ n <= TopNumber /\ TopNumber \in Int
            BY <1>3, TopIsNat
        <3> HIDE DEF n, k
        <3> QED
            BY <1>5, <3>1
    <2>4. Choose[n][k] = Cardinality(kSubset(k, 1..n))
        BY <1>3, <2>3, ChooseCounts
    <2> QED
        BY <1>1, <1>2, <1>4, <1>5, <2>2, <2>4
<1>6. CASE k \notin 0..n
    <2>1. ASSUME NEW S \in More(q) PROVE FALSE
        <3>1. S \in SUBSET Candidates(q) /\ IsFiniteSet(S) /\ Cardinality(S) = k
            BY MoreFinite
        <3>2. Cardinality(S) <= n /\ Cardinality(S) \in Nat
            BY <1>3, <3>1, FS_Subset, FS_CardinalityType
        <3> QED
            BY <1>3, <1>6, <3>1, <3>2
    <2>2. Cardinality(More(q)) = 0
        BY <2>1, FS_EmptySet
    <2> QED
        BY <1>1, <1>2, <1>4, <1>6, <2>2
<1> QED
    BY <1>5, <1>6

-----------------------------------------------------------------------------
(* The count by states: after the candidates up to n, each state holds the *)
(* number of sets of candidates that lead to it.                           *)

StateOf(S, q) ==
    <<Cardinality(S), Cardinality(Odd(q.fixed)) + Weight(Bits, S),
      Cardinality(q.fixed \cap q.reference) + Weight(Held(q), S), Sum(q.fixed) + Weight(Summands, S)>>

Picks(n, q) ==
    {S \in SUBSET (Candidates(q) \cap 1..n) :
        S = {} \/ (Cardinality(S) <= Needed(q) /\ Prune(StateOf(S, q), q))}

Leading(t, P, q) == {S \in P : StateOf(S, q) = t}
Tally(P, q) == [t \in {StateOf(S, q) : S \in P} |-> Cardinality(Leading(t, P, q))]

RangesAreInt(q) == {q.odd, q.repeated, q.sum} \subseteq {NoRange} \cup (Int \X Int)

\* What the fixed numbers measure.
LEMMA FixedMeasures ==
    ASSUME NEW q, Selected(q)
    PROVE  /\ Cardinality(Odd(q.fixed)) \in Nat /\ Cardinality(q.fixed \cap q.reference) \in Nat
           /\ Sum(q.fixed) \in Nat
BY Measures DEF Selected

\* The state a set leads to is four numbers.
LEMMA StateType ==
    ASSUME NEW q, Selected(q), NEW S \in SUBSET Numbers
    PROVE  /\ StateOf(S, q) \in Nat \X Nat \X Nat \X Nat
           /\ StateOf(S, q)[1] = Cardinality(S)
<1>1. /\ Cardinality(S) \in Nat /\ Weight(Bits, S) \in Nat
      /\ Weight(Held(q), S) \in Nat /\ Weight(Summands, S) \in Nat
    BY NumbersFinite, Measures
<1> QED
    BY <1>1, FixedMeasures DEF StateOf

\* The count starts from the fixed numbers alone.
LEMMA FirstIsEmpty ==
    ASSUME NEW q, Selected(q)
    PROVE  StateOf({}, q) = FirstState(q)
<1>1. Weight(Bits, {}) = 0 /\ Weight(Held(q), {}) = 0 /\ Weight(Summands, {}) = 0
      /\ Cardinality({}) = 0
    BY WeightEmpty, FS_EmptySet
<1> QED
    BY <1>1, FixedMeasures DEF StateOf, FirstState

\* Taking a candidate leads from the state of the set to that of the set with it.
LEMMA StateAdd ==
    ASSUME NEW q, Selected(q), NEW S \in SUBSET Numbers, NEW v \in Numbers, v \notin S
    PROVE  StateOf(S \cup {v}, q) = Take(StateOf(S, q), v, q)
<1>1. IsFiniteSet(S) /\ Cardinality(S \cup {v}) = Cardinality(S) + 1
    BY NumbersFinite, FS_AddElement
<1>2. \A y \in S \cup {v} : Bits[y] \in Nat /\ Held(q)[y] \in Nat /\ Summands[y] \in Nat
    BY MeasuresNat
<1>3. /\ Weight(Bits, S \cup {v}) = Weight(Bits, S) + Bits[v] /\ Weight(Bits, S) \in Nat
      /\ Weight(Held(q), S \cup {v}) = Weight(Held(q), S) + Held(q)[v]
      /\ Weight(Held(q), S) \in Nat
      /\ Weight(Summands, S \cup {v}) = Weight(Summands, S) + Summands[v] /\ Weight(Summands, S) \in Nat
    BY <1>1, <1>2, WeightAdd
<1>4. /\ Bits[v] = v % 2 /\ Held(q)[v] = (IF v \in q.reference THEN 1 ELSE 0)
      /\ Summands[v] = v
    BY DEF Bits, Held, Summands
<1> DEFINE a == Weight(Bits, S)
           b == Weight(Held(q), S)
           c == Weight(Summands, S)
           fa == Cardinality(Odd(q.fixed))
           fb == Cardinality(q.fixed \cap q.reference)
           fc == Sum(q.fixed)
           dv == Held(q)[v]
           m == v % 2
<1>5. /\ a \in Nat /\ b \in Nat /\ c \in Nat /\ fa \in Nat /\ fb \in Nat /\ fc \in Nat
      /\ dv \in Nat /\ m \in Nat /\ v \in Nat
    BY <1>2, <1>3, <1>4, FixedMeasures, NumbersFinite
<1>6. StateOf(S, q) = <<Cardinality(S), fa + a, fb + b, fc + c>>
    BY DEF StateOf
<1>7. StateOf(S \cup {v}, q) = <<Cardinality(S) + 1, fa + (a + m), fb + (b + dv), fc + (c + v)>>
    BY <1>1, <1>3, <1>4 DEF StateOf
<1>8. Take(<<Cardinality(S), fa + a, fb + b, fc + c>>, v, q)
         = <<Cardinality(S) + 1, (fa + a) + m, (fb + b) + dv, (fc + c) + v>>
    BY <1>4 DEF Take
<1> HIDE DEF a, b, c, fa, fb, fc, dv, m
<1>9. /\ (fa + a) + m = fa + (a + m) /\ (fb + b) + dv = fb + (b + dv)
      /\ (fc + c) + v = fc + (c + v)
    BY <1>5
<1> QED
    BY <1>6, <1>7, <1>8, <1>9

\* The greatest values are respected by what is smaller.
LEMMA PruneFalls ==
    ASSUME NEW q, RangesAreInt(q),
           NEW t \in Nat \X Nat \X Nat \X Nat, NEW u \in Nat \X Nat \X Nat \X Nat,
           t[2] <= u[2], t[3] <= u[3], t[4] <= u[4], Prune(u, q)
    PROVE  Prune(t, q)
<1>1. ASSUME NEW r \in {q.odd, q.repeated, q.sum}, NEW a \in Nat, NEW b \in Nat, a <= b,
             BelowMax(b, r)
      PROVE  BelowMax(a, r)
    <2>1. r = NoRange \/ r[2] \in Int
        BY DEF RangesAreInt
    <2> QED
        BY <1>1, <2>1 DEF BelowMax
<1>2. /\ t[2] \in Nat /\ t[3] \in Nat /\ t[4] \in Nat
      /\ u[2] \in Nat /\ u[3] \in Nat /\ u[4] \in Nat
    OBVIOUS
<1>3. BelowMax(u[2], q.odd) /\ BelowMax(u[3], q.repeated) /\ BelowMax(u[4], q.sum)
    BY DEF Prune
<1>4. BelowMax(t[2], q.odd) /\ BelowMax(t[3], q.repeated) /\ BelowMax(t[4], q.sum)
    BY <1>1, <1>2, <1>3
<1> QED
    BY <1>4 DEF Prune

\* Taking a candidate lowers nothing that is counted.
LEMMA TakeGrows ==
    ASSUME NEW q, NEW t \in Nat \X Nat \X Nat \X Nat, NEW v \in Nat
    PROVE  /\ Take(t, v, q) \in Nat \X Nat \X Nat \X Nat
           /\ t[2] <= Take(t, v, q)[2] /\ t[3] <= Take(t, v, q)[3] /\ t[4] <= Take(t, v, q)[4]
           /\ Take(t, v, q)[1] = t[1] + 1
<1> DEFINE d == IF v \in q.reference THEN 1 ELSE 0
           m == v % 2
<1>1. d \in Nat /\ m \in Nat
    OBVIOUS
<1>2. Take(t, v, q) = <<t[1] + 1, t[2] + m, t[3] + d, t[4] + v>>
    BY DEF Take
<1> HIDE DEF d, m
<1>3. t[1] \in Nat /\ t[2] \in Nat /\ t[3] \in Nat /\ t[4] \in Nat
    OBVIOUS
<1> QED
    BY <1>1, <1>2, <1>3

\* What leads to the states of U is counted state by state.
LEMMA FibreSum ==
    ASSUME NEW q, NEW P, IsFiniteSet(P), NEW U, IsFiniteSet(U),
           NEW f, \A t \in U : f[t] = Cardinality(Leading(t, P, q))
    PROVE  /\ Weight(f, U) = Cardinality({S \in P : StateOf(S, q) \in U})
           /\ \A t \in U : f[t] \in Nat
<1> DEFINE In(V) == {S \in P : StateOf(S, q) \in V}
           Good == {V \in SUBSET U : Weight(f, V) = Cardinality(In(V))}
<1>1. \A V : IsFiniteSet(In(V)) /\ Cardinality(In(V)) \in Nat
    <2> TAKE V
    <2>1. In(V) \in SUBSET P
        OBVIOUS
    <2> HIDE DEF In
    <2> QED
        BY <2>1, FS_Subset, FS_CardinalityType
<1>2. \A t \in U : f[t] = Cardinality(In({t})) /\ f[t] \in Nat
    <2> TAKE t \in U
    <2>1. Leading(t, P, q) = In({t})
        BY DEF Leading
    <2> HIDE DEF In
    <2> QED
        BY <1>1, <2>1
<1>3. {} \in Good
    <2>1. In({}) = {}
        OBVIOUS
    <2> HIDE DEF In
    <2> QED
        BY <2>1, WeightEmpty, FS_EmptySet DEF Good
<1>4. ASSUME NEW V \in SUBSET U, V # {}, \A t \in V : V \ {t} \in Good
      PROVE  V \in Good
    <2> PICK t \in V : TRUE
        BY <1>4
    <2> DEFINE M == V \ {t}
    <2>1. V = M \cup {t} /\ t \notin M /\ M \in SUBSET U /\ Weight(f, M) = Cardinality(In(M))
        BY <1>4
    <2>2. IsFiniteSet(M)
        BY <2>1, FS_Subset
    <2> HIDE DEF M
    <2>3. In(M \cup {t}) = In(M) \cup In({t}) /\ In(M) \cap In({t}) = {}
        BY <2>1
    <2> HIDE DEF In
    <2>4. Weight(f, M \cup {t}) = Weight(f, M) + f[t]
        <3>1. \A y \in M \cup {t} : f[y] \in Nat
            BY <1>2, <2>1
        <3> QED
            BY <2>1, <2>2, <3>1, WeightAdd
    <2>5. Cardinality(In(M) \cup In({t})) = Cardinality(In(M)) + Cardinality(In({t}))
        <3> DEFINE x == Cardinality(In(M))
                   y == Cardinality(In({t}))
                   z == Cardinality({})
        <3>1. Cardinality(In(M) \cup In({t})) = x + y - z
            <4> DEFINE A == In(M)
                       B == In({t})
            <4>1. IsFiniteSet(A) /\ IsFiniteSet(B) /\ A \cap B = {}
                BY <1>1, <2>3
            <4> HIDE DEF A, B
            <4>2. Cardinality(A \cup B) = Cardinality(A) + Cardinality(B) - Cardinality({})
                BY <4>1, FS_Union
            <4> QED
                BY <4>2 DEF A, B
        <3>2. x \in Nat /\ y \in Nat /\ z = 0
            BY <1>1, FS_EmptySet
        <3> HIDE DEF x, y, z
        <3>3. x + y - z = x + y
            BY <3>2
        <3> QED
            BY <3>1, <3>3 DEF x, y
    <2>6. f[t] = Cardinality(In({t}))
        BY <1>2
    <2> QED
        BY <2>1, <2>3, <2>4, <2>5, <2>6
<1> HIDE DEF Good
<1>5. \A V \in SUBSET U : V # {} /\ (\A t \in V : V \ {t} \in Good) => V \in Good
    BY <1>4
<1>6. \A V \in SUBSET U : V \in Good
    BY <1>3, <1>5, SetInduction
<1> QED
    BY <1>2, <1>6 DEF Good

TakenStates(counts, v, q) == {t \in DOMAIN counts : t[1] < Needed(q) /\ Prune(Take(t, v, q), q)}
Ways(counts, v, q, t) == {u \in TakenStates(counts, v, q) : Take(u, v, q) = t}

\* CountCandidate() with its parts named.
LEMMA CandidateCounted ==
    ASSUME NEW counts, NEW v, NEW q
    PROVE  CountCandidate(counts, v, q)
              = [t \in DOMAIN counts \cup {Take(u, v, q) : u \in TakenStates(counts, v, q)} |->
                    (IF t \in DOMAIN counts THEN counts[t] ELSE 0)
                      + SumFunction([u \in Ways(counts, v, q, t) |-> counts[u]])]
BY DEF CountCandidate, TakenStates, Ways

\* The sets that the count follows are finitely many.
LEMMA PicksFinite ==
    ASSUME NEW q, Selected(q), NEW n
    PROVE  /\ IsFiniteSet(Picks(n, q))
           /\ \A S \in Picks(n, q) : /\ S \in SUBSET Numbers /\ S \in SUBSET Candidates(q)
                                     /\ S \in SUBSET (1..n) /\ IsFiniteSet(S)
                                     /\ StateOf(S, q) \in Nat \X Nat \X Nat \X Nat
                                     /\ StateOf(S, q)[1] = Cardinality(S)
                                     /\ Cardinality(S) \in Nat
<1>1. \A S \in Picks(n, q) : S \in SUBSET Candidates(q) /\ S \in SUBSET (1..n)
    BY DEF Picks
<1>2. Candidates(q) \in SUBSET Numbers
    BY DEF Selected
<1>3. Picks(n, q) \in SUBSET (SUBSET Numbers)
    BY <1>1, <1>2
<1>4. IsFiniteSet(Picks(n, q))
    BY <1>3, NumbersFinite, SubsetsFinite
<1> QED
    BY <1>1, <1>3, <1>4, NumbersFinite, StateType

\* The sets the candidate n joins.
JoinedBy(n, q) ==
    {S \in Picks(n - 1, q) : Cardinality(S) < Needed(q) /\ Prune(Take(StateOf(S, q), n, q), q)}

\* The next candidate joins the sets that it does not take over a limit.
LEMMA PicksGrow ==
    ASSUME NEW q, Selected(q), RangesAreInt(q), NEW n \in 1..TopNumber, n \in Candidates(q)
    PROVE  /\ Picks(n, q) = Picks(n - 1, q) \cup {S \cup {n} : S \in JoinedBy(n, q)}
           /\ \A S \in Picks(n - 1, q) :
                 n \notin S /\ StateOf(S \cup {n}, q) = Take(StateOf(S, q), n, q)
<1>1. n \in Nat /\ n \in Numbers
    BY TopIsNat DEF Numbers
<1>2. Candidates(q) \cap 1..n = (Candidates(q) \cap 1..(n - 1)) \cup {n}
    BY <1>1
<1>3. n \notin 1..(n - 1)
    BY <1>1
<1>4. \A S \in Picks(n - 1, q) : n \notin S /\ StateOf(S \cup {n}, q) = Take(StateOf(S, q), n, q)
    <2> TAKE S \in Picks(n - 1, q)
    <2>1. n \notin S /\ S \in SUBSET Numbers
        BY <1>3, PicksFinite
    <2> QED
        BY <1>1, <2>1, StateAdd
<1>5. ASSUME NEW S \in Picks(n, q), n \notin S
      PROVE  S \in Picks(n - 1, q)
    BY <1>2, <1>5 DEF Picks
<1>6. ASSUME NEW S \in Picks(n, q), n \in S
      PROVE  S \ {n} \in JoinedBy(n, q) /\ S = (S \ {n}) \cup {n}
    <2> DEFINE R == S \ {n}
    <2>1. S = R \cup {n} /\ n \notin R /\ R \in SUBSET (Candidates(q) \cap 1..(n - 1))
        BY <1>2, <1>6 DEF Picks
    <2>2. R \in SUBSET Numbers /\ IsFiniteSet(R) /\ Cardinality(R) \in Nat
        BY <2>1, NumbersFinite DEF Selected
    <2>3. Cardinality(S) <= Needed(q) /\ Prune(StateOf(S, q), q)
        BY <1>6 DEF Picks
    <2> HIDE DEF R
    <2>4. StateOf(S, q) = Take(StateOf(R, q), n, q)
        BY <1>1, <2>1, <2>2, StateAdd
    <2>5. Cardinality(S) = Cardinality(R) + 1
        BY <2>1, <2>2, FS_AddElement
    <2>6. StateOf(R, q) \in Nat \X Nat \X Nat \X Nat
        BY <2>2, StateType
    <2>7. Prune(StateOf(R, q), q)
        BY <1>1, <2>3, <2>4, <2>6, TakeGrows, PruneFalls
    <2>8. Needed(q) \in Int
        BY DEF Selected
    <2>9. Cardinality(R) <= Needed(q) /\ Cardinality(R) < Needed(q)
        BY <2>2, <2>3, <2>5, <2>8
    <2>10. R \in Picks(n - 1, q)
        BY <2>1, <2>7, <2>9 DEF Picks
    <2>11. R \in JoinedBy(n, q)
        BY <2>3, <2>4, <2>9, <2>10 DEF JoinedBy
    <2> QED
        BY <2>1, <2>11 DEF R
<1>7. ASSUME NEW S \in Picks(n - 1, q)
      PROVE  S \in Picks(n, q)
    BY <1>2 DEF Picks
<1>8. ASSUME NEW S \in JoinedBy(n, q)
      PROVE  S \cup {n} \in Picks(n, q)
    <2>1. S \in Picks(n - 1, q) /\ Cardinality(S) < Needed(q)
          /\ Prune(Take(StateOf(S, q), n, q), q)
        BY DEF JoinedBy
    <2>2. S \in SUBSET Numbers /\ IsFiniteSet(S) /\ Cardinality(S) \in Nat /\ n \notin S
        BY <1>4, <2>1, PicksFinite
    <2>3. Cardinality(S \cup {n}) = Cardinality(S) + 1
        BY <2>2, FS_AddElement
    <2>4. Needed(q) \in Int
        BY DEF Selected
    <2>5. Cardinality(S \cup {n}) <= Needed(q)
        BY <2>1, <2>2, <2>3, <2>4
    <2>6. Prune(StateOf(S \cup {n}, q), q)
        BY <1>4, <2>1
    <2>7. S \cup {n} \in SUBSET (Candidates(q) \cap 1..n)
        BY <1>2, <2>1 DEF Picks
    <2> QED
        BY <2>5, <2>6, <2>7 DEF Picks
<1>9. \A S \in Picks(n, q) : S \in Picks(n - 1, q) \cup {R \cup {n} : R \in JoinedBy(n, q)}
    BY <1>5, <1>6
<1>10. \A S \in Picks(n - 1, q) \cup {R \cup {n} : R \in JoinedBy(n, q)} : S \in Picks(n, q)
    BY <1>7, <1>8
<1> QED
    BY <1>4, <1>9, <1>10

\* Those that lead to t: the old ones, and those n now joins.
LEMMA LeadingGrows ==
    ASSUME NEW q, Selected(q), RangesAreInt(q), NEW n \in 1..TopNumber, n \in Candidates(q), NEW t
    PROVE  Cardinality(Leading(t, Picks(n, q), q))
              = Cardinality(Leading(t, Picks(n - 1, q), q))
                  + Cardinality({S \in JoinedBy(n, q) : Take(StateOf(S, q), n, q) = t})
<1> DEFINE P == Picks(n - 1, q)
           J == {S \in JoinedBy(n, q) : Take(StateOf(S, q), n, q) = t}
           e == [S \in P |-> S \cup {n}]
           A == Leading(t, P, q)
           B == ImageOf(e, J)
<1>1. JoinedBy(n, q) \in SUBSET P
    BY DEF JoinedBy
<1>2. \A S \in P : n \notin S /\ StateOf(S \cup {n}, q) = Take(StateOf(S, q), n, q)
    BY PicksGrow
<1>3. J \in SUBSET P /\ A \in SUBSET P /\ IsFiniteSet(P)
    BY <1>1, PicksFinite DEF Leading
<1>4. IsFiniteSet(J) /\ IsFiniteSet(A)
    BY <1>3, FS_Subset
<1>5. \A S, T \in J : e[S] = e[T] => S = T
    <2> SUFFICES ASSUME NEW S \in J, NEW T \in J, S \cup {n} = T \cup {n} PROVE S = T
        BY <1>3
    <2>1. n \notin S /\ n \notin T
        BY <1>2, <1>3
    <2> QED
        BY <2>1
<1>6. IsFiniteSet(B) /\ Cardinality(B) = Cardinality(J)
    <2> DEFINE f == [S \in B |-> 1]
               h == [S \in J |-> 1]
    <2>1. \A S \in J : f[e[S]] \in Nat /\ h[S] = f[e[S]]
        BY DEF ImageOf
    <2> HIDE DEF f, h, e, J
    <2> QED
        BY <1>4, <1>5, <2>1, WeightMoved
<1>7. Leading(t, Picks(n, q), q) = A \cup B
    <2>1. \A S \in J : e[S] = S \cup {n}
        BY <1>3
    <2>2. ASSUME NEW R \in Leading(t, Picks(n, q), q)
          PROVE  R \in A \cup B
        <3>1. R \in Picks(n, q) /\ StateOf(R, q) = t
            BY DEF Leading
        <3>2. CASE R \in P
            BY <3>1, <3>2 DEF Leading
        <3>3. CASE \E S \in JoinedBy(n, q) : R = S \cup {n}
            <4>1. PICK S \in JoinedBy(n, q) : R = S \cup {n}
                BY <3>3
            <4>2. S \in J
                BY <1>1, <1>2, <3>1, <4>1
            <4>3. e[S] = R
                BY <2>1, <4>1, <4>2
            <4> QED
                BY <4>2, <4>3 DEF ImageOf
        <3> QED
            BY <3>1, <3>2, <3>3, PicksGrow
    <2>3. ASSUME NEW R \in A
          PROVE  R \in Leading(t, Picks(n, q), q)
        BY PicksGrow DEF Leading
    <2>4. ASSUME NEW R \in B
          PROVE  R \in Leading(t, Picks(n, q), q)
        <3>1. PICK S \in J : R = e[S]
            BY DEF ImageOf
        <3>2. S \in JoinedBy(n, q) /\ R = S \cup {n} /\ StateOf(R, q) = t
            BY <1>2, <1>3, <2>1, <3>1
        <3> QED
            BY <3>2, PicksGrow DEF Leading
    <2> QED
        BY <2>2, <2>3, <2>4
<1>8. A \cap B = {}
    <2>1. \A R \in B : n \in R
        BY <1>3 DEF ImageOf
    <2>2. \A R \in A : n \notin R
        BY <1>2, <1>3
    <2> QED
        BY <2>1, <2>2
<1> HIDE DEF A, B
<1>9. Cardinality(A \cup B) = Cardinality(A) + Cardinality(B)
    <2> DEFINE x == Cardinality(A)
               y == Cardinality(B)
               z == Cardinality({})
    <2>1. Cardinality(A \cup B) = x + y - z
        BY <1>4, <1>6, <1>8, FS_Union
    <2>2. x \in Nat /\ y \in Nat /\ z = 0
        BY <1>4, <1>6, FS_CardinalityType, FS_EmptySet
    <2> HIDE DEF x, y, z
    <2>3. x + y - z = x + y
        BY <2>2
    <2> QED
        BY <2>1, <2>3 DEF x, y
<1> QED
    BY <1>6, <1>7, <1>9 DEF A

\* One step of the count keeps the table of the sets that lead to each state.
LEMMA CountingStep ==
    ASSUME NEW q, Selected(q), RangesAreInt(q), NEW n \in 1..TopNumber, n \in Candidates(q)
    PROVE  CountCandidate(Tally(Picks(n - 1, q), q), n, q) = Tally(Picks(n, q), q)
<1> DEFINE P == Picks(n - 1, q)
           counts == Tally(P, q)
           D == {StateOf(S, q) : S \in P}
           taken == TakenStates(counts, n, q)
           E == D \cup {Take(u, n, q) : u \in taken}
           U(t) == Ways(counts, n, q, t)
<1>1. DOMAIN counts = D /\ \A t \in D : counts[t] = Cardinality(Leading(t, P, q))
    BY DEF Tally
<1>2. \A S \in P : StateOf(S, q)[1] = Cardinality(S)
    BY PicksFinite
<1>3. \A S \in P : S \in JoinedBy(n, q) <=> StateOf(S, q) \in taken
    BY <1>1, <1>2 DEF JoinedBy, TakenStates
<1>4. taken \in SUBSET D
    BY <1>1 DEF TakenStates
<1>5. {StateOf(S, q) : S \in Picks(n, q)} = E
    <2>1. \A S \in Picks(n, q) : StateOf(S, q) \in E
        <3> TAKE S \in Picks(n, q)
        <3>1. CASE S \in P
            BY <3>1
        <3>2. CASE \E R \in JoinedBy(n, q) : S = R \cup {n}
            <4>1. PICK R \in JoinedBy(n, q) : S = R \cup {n}
                BY <3>2
            <4>2. R \in P
                BY DEF JoinedBy
            <4>3. StateOf(S, q) = Take(StateOf(R, q), n, q) /\ StateOf(R, q) \in taken
                BY <1>3, <4>1, <4>2, PicksGrow
            <4> QED
                BY <4>3
        <3> QED
            BY <3>1, <3>2, PicksGrow
    <2>2. ASSUME NEW t \in E
          PROVE  \E S \in Picks(n, q) : t = StateOf(S, q)
        <3>1. CASE t \in D
            BY <3>1, PicksGrow
        <3>2. CASE \E u \in taken : t = Take(u, n, q)
            <4>1. PICK u \in taken : t = Take(u, n, q)
                BY <3>2
            <4>2. PICK R \in P : u = StateOf(R, q)
                BY <1>4, <4>1
            <4>3. R \in JoinedBy(n, q)
                BY <1>3, <4>1, <4>2
            <4>4. R \cup {n} \in Picks(n, q) /\ StateOf(R \cup {n}, q) = t
                BY <4>1, <4>2, <4>3, PicksGrow
            <4> QED
                BY <4>4
        <3> QED
            BY <3>1, <3>2
    <2> HIDE DEF E
    <2> QED
        BY <2>1, <2>2
<1>6. IsFiniteSet(D) /\ IsFiniteSet(P)
    <2>1. IsFiniteSet(P)
        BY PicksFinite
    <2> DEFINE r == Cardinality(P)
               s == [S \in P |-> StateOf(S, q)]
    <2>2. s \in Surjection(P, D)
        BY DEF Surjection
    <2> HIDE DEF s, P, D
    <2>3. IsFiniteSet(D)
        BY <2>1, <2>2, FS_Surjection
    <2> QED
        BY <2>1, <2>3
<1>7. \A t : IsFiniteSet(U(t)) /\ U(t) \in SUBSET D
    <2> TAKE t
    <2>1. U(t) \in SUBSET D
        BY <1>4 DEF Ways
    <2> HIDE DEF U, D
    <2> QED
        BY <1>6, <2>1, FS_Subset
<1>8. \A t : SumFunction([u \in U(t) |-> counts[u]])
                = Cardinality({S \in JoinedBy(n, q) : Take(StateOf(S, q), n, q) = t})
    <2> TAKE t
    <2> DEFINE V == U(t)
               f == [u \in V |-> counts[u]]
    <2>1. IsFiniteSet(V) /\ V \in SUBSET D
        BY <1>7
    <2>2. \A u \in V : f[u] = Cardinality(Leading(u, P, q))
        BY <1>1, <2>1
    <2>3. DOMAIN f = V /\ f = [u \in V |-> f[u]]
        OBVIOUS
    <2>4. {S \in P : StateOf(S, q) \in V}
             = {S \in JoinedBy(n, q) : Take(StateOf(S, q), n, q) = t}
        <3>1. \A S \in P : StateOf(S, q) \in V
                 <=> StateOf(S, q) \in taken /\ Take(StateOf(S, q), n, q) = t
            BY DEF Ways
        <3>2. \A S \in JoinedBy(n, q) : S \in P
            BY DEF JoinedBy
        <3> HIDE DEF V, P, taken
        <3> QED
            BY <1>3, <3>1, <3>2
    <2> HIDE DEF V, f, P, counts
    <2>5. Weight(f, V) = Cardinality({S \in P : StateOf(S, q) \in V}) /\ \A u \in V : f[u] \in Nat
        BY <1>6, <2>1, <2>2, FibreSum
    <2>6. f \in [V -> Nat]
        BY <2>3, <2>5
    <2>7. SumFunction(f) = Weight(f, V)
        BY <2>1, <2>6, SumIsWeight
    <2> QED
        BY <2>4, <2>5, <2>7 DEF f, V, P, counts
<1>9. \A t \in E : (IF t \in D THEN counts[t] ELSE 0) = Cardinality(Leading(t, P, q))
    <2> TAKE t \in E
    <2>1. CASE t \in D
        BY <1>1, <2>1
    <2>2. CASE t \notin D
        <3>1. Leading(t, P, q) = {}
            BY <2>2 DEF Leading
        <3> QED
            BY <2>2, <3>1, FS_EmptySet
    <2> QED
        BY <2>1, <2>2
<1> DEFINE new == [t \in E |-> (IF t \in D THEN counts[t] ELSE 0)
                                 + SumFunction([u \in U(t) |-> counts[u]])]
<1>10. CountCandidate(counts, n, q) = new
    BY <1>1, CandidateCounted
<1>11. \A t \in E : new[t] = Cardinality(Leading(t, Picks(n, q), q))
    <2> TAKE t \in E
    <2>1. new[t] = (IF t \in D THEN counts[t] ELSE 0) + SumFunction([u \in U(t) |-> counts[u]])
        OBVIOUS
    <2>2. Cardinality(Leading(t, Picks(n, q), q))
             = Cardinality(Leading(t, P, q))
                 + Cardinality({S \in JoinedBy(n, q) : Take(StateOf(S, q), n, q) = t})
        BY LeadingGrows
    <2> HIDE DEF new, U, counts, P, D, E
    <2> QED
        BY <1>8, <1>9, <2>1, <2>2
<1>12. Tally(Picks(n, q), q) = [t \in E |-> Cardinality(Leading(t, Picks(n, q), q))]
    BY <1>5 DEF Tally
<1>13. DOMAIN new = E /\ new = [t \in E |-> new[t]]
    OBVIOUS
<1> HIDE DEF new, E, U, taken
<1>14. new = [t \in E |-> Cardinality(Leading(t, Picks(n, q), q))]
    BY <1>11, <1>13
<1> QED
    BY <1>10, <1>12, <1>14

CountFrom(before, n, q) ==
    IF n = 0 THEN [t \in {FirstState(q)} |-> 1]
    ELSE IF n \in Candidates(q) THEN CountCandidate(before, n, q)
    ELSE before

CountBuilds(f, g, q) == f = [n \in 0..TopNumber |-> CountFrom(g[n - 1], n, q)]

\* The rule of the table of the count, candidate by candidate.
LEMMA CountBuildsEach ==
    ASSUME NEW f, NEW g, NEW q, CountBuilds(f, g, q), NEW n \in 0..TopNumber
    PROVE  f[n] = CountFrom(g[n - 1], n, q)
BY DEF CountBuilds

Tallies(q) == [n \in 0..TopNumber |-> Tally(Picks(n, q), q)]

\* The tables of the sets obey that rule.
LEMMA TalliesCount ==
    ASSUME NEW q, Selected(q), RangesAreInt(q)
    PROVE  CountBuilds(Tallies(q), Tallies(q), q)
<1>1. ASSUME NEW n \in 0..TopNumber
      PROVE  Tally(Picks(n, q), q) = CountFrom(Tallies(q)[n - 1], n, q)
    <2>1. CASE n = 0
        <3>1. Picks(n, q) = {{}}
            <4>1. Candidates(q) \cap 1..n = {}
                BY <2>1
            <4> QED
                BY <4>1 DEF Picks
        <3>2. StateOf({}, q) = FirstState(q)
            BY FirstIsEmpty
        <3>3. Leading(FirstState(q), {{}}, q) = {{}}
            BY <3>2 DEF Leading
        <3>4. Cardinality({{}}) = 1
            BY FS_Singleton
        <3>5. Tally({{}}, q) = [t \in {FirstState(q)} |-> 1]
            BY <3>2, <3>3, <3>4 DEF Tally
        <3> QED
            BY <2>1, <3>1, <3>5 DEF CountFrom
    <2>2. CASE n # 0 /\ n \in Candidates(q)
        <3>1. n \in 1..TopNumber /\ n - 1 \in 0..TopNumber
            BY <2>2, TopIsNat
        <3>2. Tallies(q)[n - 1] = Tally(Picks(n - 1, q), q)
            BY <3>1 DEF Tallies
        <3>3. CountCandidate(Tally(Picks(n - 1, q), q), n, q) = Tally(Picks(n, q), q)
            BY <2>2, <3>1, CountingStep
        <3> QED
            BY <2>2, <3>2, <3>3 DEF CountFrom
    <2>3. CASE n # 0 /\ n \notin Candidates(q)
        <3>1. n \in 1..TopNumber /\ n - 1 \in 0..TopNumber
            BY <2>3, TopIsNat
        <3>2. Tallies(q)[n - 1] = Tally(Picks(n - 1, q), q)
            BY <3>1 DEF Tallies
        <3>3. Candidates(q) \cap 1..n = Candidates(q) \cap 1..(n - 1)
            BY <2>3, <3>1
        <3>4. Picks(n, q) = Picks(n - 1, q)
            BY <3>3 DEF Picks
        <3> QED
            BY <2>3, <3>2, <3>4 DEF CountFrom
    <2> QED
        BY <2>1, <2>2, <2>3
<1> QED
    BY <1>1 DEF CountBuilds, Tallies

\* The table of the plan is the table of the sets of candidates.
LEMMA CountsAreTallies ==
    ASSUME NEW q, Selected(q), RangesAreInt(q), NEW f, CountBuilds(f, f, q)
    PROVE  f[TopNumber] = Tally(Picks(TopNumber, q), q)
<1> DEFINE Good == {m \in 0..TopNumber : f[m] = Tallies(q)[m]}
<1>1. CountBuilds(Tallies(q), Tallies(q), q)
    BY TalliesCount
<1>2. 0 \in Good
    <2>1. 0 \in 0..TopNumber
        BY TopIsNat
    <2>2. f[0] = CountFrom(f[0 - 1], 0, q)
        BY <2>1, CountBuildsEach
    <2>3. Tallies(q)[0] = CountFrom(Tallies(q)[0 - 1], 0, q)
        BY <1>1, <2>1, CountBuildsEach
    <2> QED
        BY <2>1, <2>2, <2>3 DEF CountFrom
<1>3. ASSUME NEW m \in 0..(TopNumber - 1), m \in Good
      PROVE  m + 1 \in Good
    <2> PICK n \in 0..TopNumber : n = m + 1
        BY TopIsNat
    <2>1. f[n] = CountFrom(f[n - 1], n, q)
        BY CountBuildsEach
    <2>2. Tallies(q)[n] = CountFrom(Tallies(q)[n - 1], n, q)
        BY <1>1, CountBuildsEach
    <2>3. n - 1 = m /\ f[m] = Tallies(q)[m]
        BY <1>3
    <2>4. f[n] = Tallies(q)[n]
        BY <2>1, <2>2, <2>3
    <2> QED
        BY <2>4
<1> HIDE DEF Good
<1>4. \A m \in 0..TopNumber : m \in Good
    BY <1>2, <1>3, TopIsNat, CountingUp
<1>5. TopNumber \in 0..TopNumber
    BY TopIsNat
<1> QED
    BY <1>4, <1>5 DEF Good, Tallies

InRanges(t, q) ==
    WithinRange(t[2], q.odd) /\ WithinRange(t[3], q.repeated) /\ WithinRange(t[4], q.sum)

FinalStates(counts, q) == {t \in DOMAIN counts : t[1] = Needed(q) /\ InRanges(t, q)}

\* countEligibleGenerationCombinations() reads the states that are complete and in range.
LEMMA CountUnfolds ==
    ASSUME NEW q, Selected(q), RangesAreInt(q),
           ~(q.odd = NoRange /\ q.repeated = NoRange /\ q.sum = NoRange)
    PROVE  CountEligible(q) =
              LET counts == Tally(Picks(TopNumber, q), q)
              IN IF ~Prune(FirstState(q), q) THEN 0
                 ELSE SumFunction([t \in FinalStates(counts, q) |-> counts[t]])
<1> DEFINE table == CHOOSE f : CountBuilds(f, f, q)
           counts == table[TopNumber]
<1>1. CountEligible(q) = IF ~Prune(FirstState(q), q) THEN 0
                         ELSE SumFunction([t \in FinalStates(counts, q) |-> counts[t]])
    BY DEF CountEligible, CountBuilds, CountFrom, FinalStates, InRanges
<1>2. CountBuilds(table, table, q)
    BY TalliesCount
<1> HIDE DEF table
<1>3. counts = Tally(Picks(TopNumber, q), q)
    BY <1>2, CountsAreTallies
<1> HIDE DEF counts
<1> QED
    BY <1>1, <1>3

\* What a set adds fits the ranges exactly when the game does.
LEMMA MatchesByState ==
    ASSUME NEW q, Selected(q), NEW S \in SUBSET Numbers, q.fixed \cap S = {}
    PROVE  Matches(q.fixed \cup S, q) <=> InRanges(StateOf(S, q), q)
<1>1. q.fixed \in SUBSET Numbers
    BY DEF Selected
<1>2. /\ Cardinality(Odd(q.fixed \cup S)) = Cardinality(Odd(q.fixed)) + Weight(Bits, S)
      /\ Cardinality((q.fixed \cup S) \cap q.reference)
            = Cardinality(q.fixed \cap q.reference) + Weight(Held(q), S)
      /\ Sum(q.fixed \cup S) = Sum(q.fixed) + Weight(Summands, S)
    BY <1>1, MeasuresJoin
<1> QED
    BY <1>2 DEF Matches, InRanges, StateOf

\* What is in the ranges was never pruned, nor what it was built from.
LEMMA RangesPrune ==
    ASSUME NEW q, NEW t, InRanges(t, q)
    PROVE  Prune(t, q)
BY DEF InRanges, Prune, WithinRange, BelowMax

\* The sets whose games fit.
Fits(q) == {S \in More(q) : InRanges(StateOf(S, q), q)}

\* The games that fit are those of the sets that fit.
LEMMA FittingIsMoved ==
    ASSUME NEW q, Selected(q)
    PROVE  Cardinality(Fitting(q)) = Cardinality(Fits(q)) /\ IsFiniteSet(Fits(q))
<1> DEFINE L == Fits(q)
           e == WithFixed(q)
           f == [g \in ImageOf(e, L) |-> 1]
           h == [S \in L |-> 1]
<1>1. L \in SUBSET More(q)
    BY DEF Fits
<1>2. IsFiniteSet(L)
    BY <1>1, MoreFinite, FS_Subset
<1>3. \A S, T \in L : e[S] = e[T] => S = T
    BY <1>1, SpaceIsMoved
<1>4. Fitting(q) = ImageOf(e, L)
    <2>1. \A S \in More(q) : e[S] = q.fixed \cup S /\ (S \in L <=> Matches(q.fixed \cup S, q))
        BY MoreFinite, MatchesByState DEF Fits
    <2>2. \A g \in Fitting(q) : \E S \in L : g = e[S]
        BY <2>1 DEF Fitting, Space, More
    <2>3. \A S \in L : e[S] \in Fitting(q)
        BY <1>1, <2>1 DEF Fitting, Space, More
    <2> HIDE DEF L, e
    <2> QED
        BY <2>2, <2>3 DEF ImageOf
<1>5. \A S \in L : f[e[S]] \in Nat /\ h[S] = f[e[S]]
    BY DEF ImageOf
<1> HIDE DEF L, e, f, h
<1>6. Cardinality(ImageOf(e, L)) = Cardinality(L)
    BY <1>2, <1>3, <1>5, WeightMoved
<1> QED
    BY <1>2, <1>4, <1>6 DEF L

\* Those sets lead to the states that are read.
LEMMA FitsAreReached ==
    ASSUME NEW q, Selected(q), RangesAreInt(q)
    PROVE  Fits(q) = {S \in Picks(TopNumber, q) :
                         StateOf(S, q)[1] = Needed(q) /\ InRanges(StateOf(S, q), q)}
<1>1. Candidates(q) \cap 1..TopNumber = Candidates(q)
    BY DEF Selected, Numbers
<1>2. ASSUME NEW S \in Fits(q)
      PROVE  /\ S \in Picks(TopNumber, q) /\ StateOf(S, q)[1] = Needed(q)
             /\ InRanges(StateOf(S, q), q)
    <2>1. S \in More(q) /\ InRanges(StateOf(S, q), q)
        BY DEF Fits
    <2>2. S \in SUBSET Candidates(q) /\ Cardinality(S) = Needed(q) /\ S \in SUBSET Numbers
        BY <2>1, MoreFinite
    <2>3. Prune(StateOf(S, q), q)
        BY <2>1, RangesPrune
    <2>4. StateOf(S, q)[1] = Needed(q)
        BY <2>2, StateType
    <2>5. Cardinality(S) <= Needed(q)
        BY <2>2 DEF Selected
    <2>6. S \in Picks(TopNumber, q)
        BY <1>1, <2>2, <2>3, <2>5 DEF Picks
    <2> QED
        BY <2>1, <2>4, <2>6
<1>3. ASSUME NEW S \in Picks(TopNumber, q), StateOf(S, q)[1] = Needed(q),
             InRanges(StateOf(S, q), q)
      PROVE  S \in Fits(q)
    <2>1. S \in SUBSET Candidates(q) /\ Cardinality(S) = Needed(q)
        BY <1>3, PicksFinite
    <2>2. S \in More(q)
        BY <2>1 DEF More, kSubset
    <2> QED
        BY <1>3, <2>2 DEF Fits
<1>4. \A S \in Fits(q) : S \in Picks(TopNumber, q)
                         /\ StateOf(S, q)[1] = Needed(q) /\ InRanges(StateOf(S, q), q)
    BY <1>2
<1>5. \A S \in Picks(TopNumber, q) :
          StateOf(S, q)[1] = Needed(q) /\ InRanges(StateOf(S, q), q) => S \in Fits(q)
    BY <1>3
<1> QED
    BY <1>4, <1>5

\* With ranges the table of the last candidate counts the games that fit.
LEMMA CountWithRanges ==
    ASSUME NEW q, Selected(q), RangesAreInt(q),
           ~(q.odd = NoRange /\ q.repeated = NoRange /\ q.sum = NoRange)
    PROVE  CountEligible(q) = Cardinality(Fitting(q))
<1> DEFINE P == Picks(TopNumber, q)
           counts == Tally(P, q)
           U == FinalStates(counts, q)
           f == [t \in U |-> counts[t]]
<1>1. CountEligible(q) = IF ~Prune(FirstState(q), q) THEN 0 ELSE SumFunction(f)
    BY CountUnfolds
<1>2. Cardinality(Fitting(q)) = Cardinality(Fits(q))
    BY FittingIsMoved
<1>3. CASE ~Prune(FirstState(q), q)
    <2>1. ASSUME NEW S \in Fits(q) PROVE FALSE
        <3>1. S \in SUBSET Numbers /\ InRanges(StateOf(S, q), q)
            BY MoreFinite DEF Fits
        <3>2. Prune(StateOf(S, q), q)
            BY <3>1, RangesPrune
        <3> DEFINE t == FirstState(q)
                   u == StateOf(S, q)
        <3>3. t = StateOf({}, q)
            BY FirstIsEmpty
        <3>4. t \in Nat \X Nat \X Nat \X Nat /\ u \in Nat \X Nat \X Nat \X Nat
            BY <3>1, <3>3, StateType
        <3>5. /\ t[2] = Cardinality(Odd(q.fixed)) /\ t[3] = Cardinality(q.fixed \cap q.reference)
              /\ t[4] = Sum(q.fixed)
            BY DEF FirstState
        <3>6. /\ u[2] = Cardinality(Odd(q.fixed)) + Weight(Bits, S)
              /\ u[3] = Cardinality(q.fixed \cap q.reference) + Weight(Held(q), S)
              /\ u[4] = Sum(q.fixed) + Weight(Summands, S)
            BY DEF StateOf
        <3>7. /\ Weight(Bits, S) \in Nat /\ Weight(Held(q), S) \in Nat
              /\ Weight(Summands, S) \in Nat
            BY <3>1, Measures
        <3>8. t[2] <= u[2] /\ t[3] <= u[3] /\ t[4] <= u[4]
            BY <3>5, <3>6, <3>7, FixedMeasures
        <3> HIDE DEF t, u
        <3>9. Prune(u, q)
            BY <3>2 DEF u
        <3>10. Prune(t, q)
            BY <3>4, <3>8, <3>9, PruneFalls
        <3> QED
            BY <1>3, <3>10 DEF t
    <2>2. Fits(q) = {}
        BY <2>1
    <2> QED
        BY <1>1, <1>2, <1>3, <2>2, FS_EmptySet
<1>4. CASE Prune(FirstState(q), q)
    <2>1. DOMAIN counts = {StateOf(S, q) : S \in P}
          /\ \A t \in DOMAIN counts : counts[t] = Cardinality(Leading(t, P, q))
        BY DEF Tally
    <2>2. IsFiniteSet(P)
        BY PicksFinite
    <2>3. IsFiniteSet(DOMAIN counts)
        <3> DEFINE s == [S \in P |-> StateOf(S, q)]
                   D == {StateOf(S, q) : S \in P}
        <3>1. s \in Surjection(P, D)
            BY DEF Surjection
        <3> HIDE DEF s, P, D
        <3>2. IsFiniteSet(D)
            BY <2>2, <3>1, FS_Surjection
        <3> QED
            BY <2>1, <3>2 DEF D
    <2>4. U \in SUBSET DOMAIN counts
        BY DEF FinalStates
    <2>5. IsFiniteSet(U)
        BY <2>3, <2>4, FS_Subset
    <2>6. {S \in P : StateOf(S, q) \in U} = Fits(q)
        <3>1. \A S \in P : StateOf(S, q) \in U
                 <=> StateOf(S, q)[1] = Needed(q) /\ InRanges(StateOf(S, q), q)
            BY <2>1 DEF FinalStates
        <3> QED
            BY <3>1, FitsAreReached
    <2>7. \A t \in U : f[t] = Cardinality(Leading(t, P, q))
        BY <2>1, <2>4
    <2>8. f = [t \in U |-> f[t]]
        OBVIOUS
    <2> HIDE DEF U, f, P, counts
    <2>9. Weight(f, U) = Cardinality({S \in P : StateOf(S, q) \in U}) /\ \A t \in U : f[t] \in Nat
        BY <2>2, <2>5, <2>7, FibreSum
    <2>10. f \in [U -> Nat]
        BY <2>8, <2>9
    <2>11. SumFunction(f) = Weight(f, U)
        BY <2>5, <2>10, SumIsWeight
    <2> QED
        BY <1>1, <1>2, <1>4, <2>6, <2>9, <2>11
<1> QED
    BY <1>3, <1>4

\* countEligibleGenerationCombinations() counts exactly the games that fit the
\* request: each of them once, though the table keeps states and not games, and
\* none is lost to the states that are pruned (planningSpace.ts).
THEOREM CountIsExact ==
    ASSUME NEW q \in PlanAsks, SelectionIsValid(q)
    PROVE  CountEligible(q) = Cardinality(Fitting(q)) /\ Cardinality(Fitting(q)) \in Nat
<1>1. Selected(q)
    BY ValidIsSelected
<1>2. RangesAreInt(q)
    BY PlanningAssumption DEF PlanningAssumption, RangesAreInt
<1>3. Cardinality(Fitting(q)) \in Nat
    BY <1>1, FittingIsMoved, FS_CardinalityType
<1> QED
    BY <1>1, <1>2, <1>3, CountWithoutRanges, CountWithRanges

-----------------------------------------------------------------------------
(* The averages of the plan.                                               *)

\* How often two members are together, in terms of the sizes.
LEMMA PairsTimes ==
    ASSUME NEW C, IsFiniteSet(C), C # {}, NEW k \in Int
    PROVE  /\ Pairs(k, C) * (Cardinality(C) - 1) = (k - 1) * Share(k, C)
           /\ Pairs(k, C) \in Nat /\ Share(k, C) \in Nat
<1> PICK x \in C : TRUE
    OBVIOUS
<1>1. Share(k, C) \in Nat
    BY ShareOfAll
<1>2. CASE \E y \in C : x # y
    BY <1>1, <1>2, PairShare
<1>3. CASE ~\E y \in C : x # y
    <2>1. C = {x}
        BY <1>3
    <2>2. Cardinality(C) = 1
        BY <2>1, FS_Singleton
    <2>3. Share(k, C) = Cardinality(kSubset(k - 1, {}))
        <3>1. C \ {x} = {}
            BY <2>1
        <3> QED
            BY <3>1, ShareOfAll
    <2>4. (k - 1) * Share(k, C) = 0
        <3>1. CASE k = 1
            BY <1>1, <3>1
        <3>2. CASE k # 1
            <4>1. \A S \in kSubset(k - 1, {}) : S = {} /\ Cardinality(S) = k - 1
                BY DEF kSubset
            <4>2. kSubset(k - 1, {}) = {}
                <5>1. Cardinality({}) = 0 /\ k - 1 # 0
                    BY <3>2, FS_EmptySet
                <5> QED
                    BY <4>1, <5>1
            <4>3. Share(k, C) = 0
                BY <2>3, <4>2, FS_EmptySet
            <4> QED
                BY <4>3
        <3> QED
            BY <3>1, <3>2
    <2>5. Pairs(k, C) \in Nat
        <3> DEFINE a == CHOOSE a \in C : TRUE
                   b == CHOOSE b \in C \ {a} : TRUE
        <3>1. IsFiniteSet((C \ {a}) \ {b})
            BY FS_Subset
        <3>2. Cardinality(kSubset(k - 1 - 1, (C \ {a}) \ {b})) \in Nat
            BY <3>1, KSubsetsFinite
        <3> QED
            BY <3>2 DEF Pairs, Share
    <2> QED
        BY <1>1, <2>2, <2>4, <2>5
<1> QED
    BY <1>2, <1>3

\* What a game has from the fixed numbers, and from the others on average.
LEMMA AverageIsExact ==
    ASSUME NEW q, Selected(q), NEW a \in Nat, NEW v, \A x \in Numbers : v[x] \in Nat,
           NEW f, \A S \in More(q) : f[q.fixed \cup S] = a + Weight(v, S)
    PROVE  (a * Cardinality(Candidates(q)) + Needed(q) * Weight(v, Candidates(q)))
              * Cardinality(Space(q))
              = Cardinality(Candidates(q)) * Weight(f, Space(q))
<1> DEFINE C == Candidates(q)
           k == Needed(q)
           K == More(q)
           w == [S \in K |-> Weight(v, S)]
           h == [S \in K |-> a + Weight(v, S)]
           o == [S \in K |-> a]
           n == Cardinality(C)
           m == Cardinality(K)
           t == Weight(v, C)
           c == Share(k, C)
<1>1. C \in SUBSET Numbers /\ IsFiniteSet(C) /\ k \in Int /\ n \in Nat
    BY FS_CardinalityType DEF Selected
<1>2. IsFiniteSet(K) /\ m \in Nat /\ K = kSubset(k, C)
    BY MoreFinite DEF More
<1>3. \A x \in C : v[x] \in Nat
    BY <1>1
<1>4. t \in Nat
    BY <1>1, <1>3, WeightNat
<1>5. \A S \in K : w[S] = Weight(v, S) /\ w[S] \in Nat /\ o[S] = a
                   /\ h[S] = o[S] + w[S] /\ h[S] = f[q.fixed \cup S] /\ h[S] \in Nat
    <2> TAKE S \in K
    <2>1. IsFiniteSet(S) /\ S \in SUBSET Numbers
        BY MoreFinite
    <2>2. Weight(v, S) \in Nat
        BY <2>1, WeightNat
    <2> QED
        BY <2>2
<1>6. Cardinality(Space(q)) = m
    BY SpaceSize
<1> HIDE DEF w, h, o
<1>7. Weight(f, Space(q)) = Weight(h, K)
    <2>1. \A S \in More(q) : f[q.fixed \cup S] \in Nat /\ h[S] = f[q.fixed \cup S]
        BY <1>5
    <2> HIDE DEF K
    <2>2. Weight(f, Space(q)) = Weight(h, More(q))
        BY <2>1, SpaceWeight
    <2> QED
        BY <2>2 DEF K
<1> HIDE DEF K, C, k
<1>8. Weight(h, K) = Weight(o, K) + Weight(w, K)
    <2>1. \A S \in K : o[S] \in Nat /\ w[S] \in Nat /\ h[S] = o[S] + w[S]
        BY <1>5
    <2> QED
        BY <1>2, <2>1, WeightPlus
<1>9. Weight(o, K) = a * m
    <2>1. \A S \in K : o[S] = a
        BY <1>5
    <2>2. IsFiniteSet(K)
        BY <1>2
    <2> HIDE DEF o, m
    <2> QED
        BY <2>1, <2>2, WeightConstant DEF m
<1>10. CASE C = {}
    <2>1. n = 0 /\ t = 0
        BY <1>10, FS_EmptySet, WeightEmpty
    <2>2. \A S \in K : h[S] \in Nat
        BY <1>5
    <2>3. Weight(h, K) \in Nat
        BY <1>2, <2>2, WeightNat
    <2>4. (a * n + k * t) * m = 0 /\ n * Weight(h, K) = 0
        BY <1>1, <1>2, <2>1, <2>3
    <2> QED
        BY <1>6, <1>7, <2>4 DEF K, C, k
<1>11. CASE C # {}
    <2>1. Weight(w, K) = c * t
        <3>1. \A S \in kSubset(k, C) : w[S] = Weight(v, S)
            BY <1>2, <1>5
        <3>2. Weight(w, kSubset(k, C)) = Share(k, C) * Weight(v, C)
            BY <1>1, <1>3, <1>11, <3>1, OverSubsets
        <3> QED
            BY <1>2, <3>2
    <2>2. c * n = k * m
        BY <1>1, <1>2, <1>11, ShareTimes
    <2>3. c \in Nat
        BY <1>1, <1>11, PairsTimes
    <2> HIDE DEF n, m, t, c
    <2>4. n * (a * m + c * t) = (a * n) * m + (c * n) * t
        BY <1>1, <1>2, <1>4, <2>3
    <2>5. (a * n + k * t) * m = (a * n) * m + (k * m) * t
        BY <1>1, <1>2, <1>4
    <2>6. (a * n + k * t) * m = n * Weight(h, K)
        BY <1>8, <1>9, <2>1, <2>2, <2>4, <2>5
    <2> QED
        BY <1>6, <1>7, <2>6 DEF n, m, t, K, C, k
<1> QED
    BY <1>10, <1>11

\* The algebra of the variance.
LEMMA VarianceAlgebra ==
    ASSUME NEW n \in Int, NEW m \in Int, NEW k \in Int, NEW c \in Int, NEW d \in Int,
           NEW q \in Int, NEW t \in Int, NEW a \in Int, NEW b \in Int, NEW f \in Int,
           c * n = k * m, d * (n - 1) = (k - 1) * c,
           a = c * q + d * (t * t - q), b = c * t
    PROVE  k * (n * q - t * t) * (n - k) * m * m
              = n * n * (n - 1) * (m * (f * f * m + 2 * f * b + a) - (f * m + b) * (f * m + b))
<1> DEFINE x == t * t
           y == n - 1
           km == k * m
<1>1. x \in Int /\ y \in Int /\ km \in Int
    OBVIOUS
<1>2. m * (f * f * m + 2 * f * b + a) - (f * m + b) * (f * m + b) = m * a - b * b
    BY SMTT(60)
<1>3. (n * y) * a = km * (y * q) + km * ((k - 1) * (x - q))
    <2>1. (n * y) * (c * q) = (c * n) * (y * q)
        BY <1>1, SMTT(30)
    <2>2. (n * y) * (d * (x - q)) = n * ((d * y) * (x - q))
        BY <1>1, SMTT(30)
    <2>3. d * y = (k - 1) * c
        OBVIOUS
    <2>4. n * (((k - 1) * c) * (x - q)) = (c * n) * ((k - 1) * (x - q))
        BY <1>1, SMTT(30)
    <2>5. (n * y) * a = (n * y) * (c * q) + (n * y) * (d * (x - q))
        BY <1>1, SMTT(30)
    <2> QED
        BY <2>1, <2>2, <2>3, <2>4, <2>5
<1>4. (n * n) * (b * b) = (km * km) * x
    <2>1. (n * n) * ((c * t) * (c * t)) = ((c * n) * (c * n)) * (t * t)
        BY SMTT(30)
    <2> QED
        BY <2>1
<1> HIDE DEF x, y
<1>5. n * n * y * (m * a - b * b) = (n * m) * ((n * y) * a) - y * ((n * n) * (b * b))
    BY <1>1, SMTT(60)
<1>6. (n * m) * (km * (y * q) + km * ((k - 1) * (x - q))) - y * ((km * km) * x)
         = km * (m * (n * (y * q) + n * ((k - 1) * (x - q)) - y * (k * x)))
    BY <1>1, SMTT(60)
<1>7. n * (y * q) + n * ((k - 1) * (x - q)) - y * (k * x) = (n * q - x) * (n - k)
    <2>1. n * ((n - 1) * q) + n * ((k - 1) * (x - q)) - (n - 1) * (k * x) = (n * q - x) * (n - k)
        BY <1>1, SMTT(60)
    <2> QED
        BY <2>1 DEF y
<1>8. km * (m * ((n * q - x) * (n - k))) = k * (n * q - x) * (n - k) * m * m
    BY <1>1, SMTT(60)
<1> QED
    BY <1>2, <1>3, <1>4, <1>5, <1>6, <1>7, <1>8 DEF x, y

\* A sum over the games is a weight.
LEMMA SpaceSum ==
    ASSUME NEW q, Selected(q), NEW f \in [Space(q) -> Nat]
    PROVE  SumFunction(f) = Weight(f, Space(q))
<1>1. IsFiniteSet(Space(q))
    BY SpaceSize
<1> QED
    BY <1>1, SumIsWeight

\* What a game measures is a number.
LEMMA GameMeasures ==
    ASSUME NEW q, Selected(q), NEW g \in Space(q)
    PROVE  Cardinality(Odd(g)) \in Nat /\ Cardinality(g \cap q.reference) \in Nat /\ Sum(g) \in Nat
<1>1. g \in SUBSET Numbers
    BY SpaceSize
<1> QED
    BY <1>1, Measures

\* What a game measures, by what completes it.
LEMMA MoreInSpace ==
    ASSUME NEW q, Selected(q), NEW S \in More(q)
    PROVE  /\ q.fixed \cup S \in Space(q)
           /\ Cardinality(Odd(q.fixed \cup S)) = Cardinality(Odd(q.fixed)) + Weight(Bits, S)
           /\ Cardinality((q.fixed \cup S) \cap q.reference)
                 = Cardinality(q.fixed \cap q.reference) + Weight(Held(q), S)
           /\ Sum(q.fixed \cup S) = Sum(q.fixed) + Weight(Summands, S)
<1>1. q.fixed \in SUBSET Numbers /\ S \in SUBSET Numbers /\ q.fixed \cap S = {}
    BY MoreFinite DEF Selected
<1>2. q.fixed \cup S \in Space(q)
    BY DEF Space, More
<1> QED
    BY <1>1, <1>2, MeasuresJoin

\* The averages of buildConditionalBaseline(), of odd numbers, repeated numbers and
\* sums, are those of the listed games, though it lists none
\* (planningSpace.ts).
THEOREM AveragesAreExact ==
    ASSUME NEW q, Selected(q)
    PROVE  LET space == Space(q)
               m == Cardinality(space)
               n == Cardinality(Candidates(q))
           IN /\ Baseline(q).odd * m
                    = n * SumFunction([g \in space |-> Cardinality(Odd(g))])
              /\ Baseline(q).repeated * m
                    = n * SumFunction([g \in space |-> Cardinality(g \cap q.reference)])
              /\ Baseline(q).sum * m = n * SumFunction([g \in space |-> Sum(g)])
<1> DEFINE space == Space(q)
           C == Candidates(q)
           n == Cardinality(C)
           k == Needed(q)
           m == Cardinality(space)
           f1 == [g \in space |-> Cardinality(Odd(g))]
           f2 == [g \in space |-> Cardinality(g \cap q.reference)]
           f3 == [g \in space |-> Sum(g)]
<1>1. f1 \in [space -> Nat] /\ f2 \in [space -> Nat] /\ f3 \in [space -> Nat]
    BY GameMeasures
<1>2. \A S \in More(q) : /\ f1[q.fixed \cup S] = Cardinality(Odd(q.fixed)) + Weight(Bits, S)
                         /\ f2[q.fixed \cup S]
                               = Cardinality(q.fixed \cap q.reference) + Weight(Held(q), S)
                         /\ f3[q.fixed \cup S] = Sum(q.fixed) + Weight(Summands, S)
    BY MoreInSpace
<1>3. C \in SUBSET Numbers
    BY DEF Selected
<1>4. /\ Cardinality(Odd(C)) = Weight(Bits, C)
      /\ Cardinality(C \cap q.reference) = Weight(Held(q), C)
      /\ Sum(C) = Weight(Summands, C)
    BY <1>3, Measures
<1>5. /\ Baseline(q).odd = Cardinality(Odd(q.fixed)) * n + k * Cardinality(Odd(C))
      /\ Baseline(q).repeated = Cardinality(q.fixed \cap q.reference) * n
                                  + k * Cardinality(C \cap q.reference)
      /\ Baseline(q).sum = Sum(q.fixed) * n + k * Sum(C)
    BY DEF Baseline
<1>6. /\ \A x \in Numbers : Bits[x] \in Nat
      /\ \A x \in Numbers : Held(q)[x] \in Nat
      /\ \A x \in Numbers : Summands[x] \in Nat
    BY MeasuresNat
<1>7. \A S \in More(q) : f1[q.fixed \cup S] = Cardinality(Odd(q.fixed)) + Weight(Bits, S)
    BY <1>2
<1>8. \A S \in More(q) :
          f2[q.fixed \cup S] = Cardinality(q.fixed \cap q.reference) + Weight(Held(q), S)
    BY <1>2
<1>9. \A S \in More(q) : f3[q.fixed \cup S] = Sum(q.fixed) + Weight(Summands, S)
    BY <1>2
<1> HIDE DEF f1, f2, f3
<1>10. /\ SumFunction(f1) = Weight(f1, Space(q)) /\ SumFunction(f2) = Weight(f2, Space(q))
       /\ SumFunction(f3) = Weight(f3, Space(q))
    BY <1>1, SpaceSum
<1>11. (Cardinality(Odd(q.fixed)) * n + k * Weight(Bits, C)) * m = n * Weight(f1, Space(q))
    BY <1>6, <1>7, FixedMeasures, AverageIsExact
<1>12. (Cardinality(q.fixed \cap q.reference) * n + k * Weight(Held(q), C)) * m
          = n * Weight(f2, Space(q))
    BY <1>6, <1>8, FixedMeasures, AverageIsExact
<1>13. (Sum(q.fixed) * n + k * Weight(Summands, C)) * m = n * Weight(f3, Space(q))
    BY <1>6, <1>9, FixedMeasures, AverageIsExact
<1> HIDE DEF n, m, k, C
<1>14. Baseline(q).odd * m = n * SumFunction(f1)
    BY <1>4, <1>5, <1>10, <1>11
<1>15. Baseline(q).repeated * m = n * SumFunction(f2)
    BY <1>4, <1>5, <1>10, <1>12
<1>16. Baseline(q).sum * m = n * SumFunction(f3)
    BY <1>4, <1>5, <1>10, <1>13
<1> QED
    BY <1>14, <1>15, <1>16 DEF f1, f2, f3, n, m, C

\* The variance of the sum, computed as that of a draw without replacement among the
\* candidates, is that of the listed games (buildConditionalBaseline()).
THEOREM VarianceIsExact ==
    ASSUME NEW q, Selected(q)
    PROVE  LET space == Space(q)
               m == Cardinality(space)
               n == Cardinality(Candidates(q))
               total == SumFunction([g \in space |-> Sum(g)])
           IN Baseline(q).variance * m * m
                 = n * n * (n - 1) * (m * SumFunction([g \in space |-> Sum(g) * Sum(g)])
                                        - total * total)
<1> DEFINE space == Space(q)
           C == Candidates(q)
           K == More(q)
           n == Cardinality(C)
           k == Needed(q)
           m == Cardinality(space)
           f == [g \in space |-> Sum(g)]
           s == [g \in space |-> Sum(g) * Sum(g)]
           p == [v \in C |-> v * v]
           e == Sum(q.fixed)
           w == [S \in K |-> Weight(Summands, S)]
           z == [S \in K |-> w[S] * w[S]]
           o == [S \in K |-> e]
           h == [S \in K |-> o[S] + w[S]]
           u == [S \in K |-> e * e + (2 * e) * w[S]]
           u1 == [S \in K |-> e * e]
           u2 == [S \in K |-> (2 * e) * w[S]]
           r == [S \in K |-> u[S] + z[S]]
           t == Weight(Summands, C)
           pp == Weight(p, C)
           aa == Weight(z, K)
           bb == Weight(w, K)
<1>1. C \in SUBSET Numbers /\ IsFiniteSet(C) /\ k \in Int /\ n \in Nat
    BY FS_CardinalityType DEF Selected
<1>2. IsFiniteSet(K) /\ Cardinality(K) = m /\ m \in Nat /\ K = kSubset(k, C)
    BY MoreFinite, SpaceSize DEF More
<1>3. e \in Nat /\ \A x \in C : x \in Nat /\ Summands[x] = x
    BY <1>1, FixedMeasures, NumbersFinite DEF Summands
<1>4. p \in [C -> Nat] /\ \A x \in C : Summands[x] \in Nat /\ p[x] = Summands[x] * Summands[x]
    BY <1>3
<1>5. SumFunction(p) = pp /\ pp \in Nat /\ t \in Nat
    <2> HIDE DEF p
    <2> QED
        BY <1>1, <1>4, SumIsWeight, WeightNat
<1>6. Sum(C) = t
    BY <1>1, Measures
<1>7. Baseline(q).variance = k * (n * pp - t * t) * (n - k)
    <2>1. Baseline(q).variance = k * (n * SumFunction(p) - Sum(C) * Sum(C)) * (n - k)
        BY DEF Baseline
    <2> HIDE DEF p
    <2> QED
        BY <1>5, <1>6, <2>1
<1>8. \A S \in K : w[S] \in Nat /\ w[S] = Weight(Summands, S)
    BY MoreFinite, Measures
<1> HIDE DEF w, p, e
<1>9. \A S \in K : /\ z[S] = w[S] * w[S] /\ z[S] \in Nat
                   /\ o[S] = e /\ o[S] \in Nat /\ h[S] = o[S] + w[S] /\ h[S] \in Nat
                   /\ u1[S] = e * e /\ u1[S] \in Nat /\ u2[S] = (2 * e) * w[S] /\ u2[S] \in Nat
                   /\ u[S] = u1[S] + u2[S] /\ u[S] \in Nat /\ r[S] = u[S] + z[S] /\ r[S] \in Nat
    <2> TAKE S \in K
    <2> DEFINE x == w[S]
    <2>1. x \in Nat
        BY <1>8
    <2>2. /\ z[S] = x * x /\ o[S] = e /\ h[S] = e + x /\ u1[S] = e * e /\ u2[S] = (2 * e) * x
          /\ u[S] = e * e + (2 * e) * x /\ r[S] = (e * e + (2 * e) * x) + x * x
        OBVIOUS
    <2> HIDE DEF x, z, o, h, u, u1, u2, r
    <2>3. x * x \in Nat /\ e * e \in Nat /\ (2 * e) * x \in Nat
        BY <1>3, <2>1
    <2> QED
        BY <1>3, <2>1, <2>2, <2>3 DEF x
<1>10. \A S \in K : /\ f[q.fixed \cup S] = h[S]
                    /\ s[q.fixed \cup S] = r[S]
    <2> TAKE S \in K
    <2>1. q.fixed \cup S \in space /\ Sum(q.fixed \cup S) = e + w[S]
        BY <1>8, MoreInSpace DEF e
    <2>2. f[q.fixed \cup S] = e + w[S] /\ s[q.fixed \cup S] = (e + w[S]) * (e + w[S])
        BY <2>1
    <2>3. h[S] = e + w[S] /\ r[S] = (e * e + (2 * e) * w[S]) + w[S] * w[S]
        OBVIOUS
    <2> DEFINE x == w[S]
    <2>4. x \in Nat
        BY <1>8
    <2> HIDE DEF x
    <2>5. (e + x) * (e + x) = (e * e + (2 * e) * x) + x * x
        BY <1>3, <2>4
    <2> QED
        BY <2>2, <2>3, <2>5 DEF x
<1>11. f \in [space -> Nat] /\ s \in [space -> Nat]
    <2>1. \A g \in space : Sum(g) \in Nat
        BY GameMeasures
    <2>2. \A g \in space : Sum(g) * Sum(g) \in Nat
        BY <2>1
    <2> QED
        BY <2>1, <2>2
<1> HIDE DEF f, s, z, o, h, u, u1, u2, r
<1>12. SumFunction(f) = Weight(h, K) /\ SumFunction(s) = Weight(r, K)
    <2>1. \A S \in More(q) : f[q.fixed \cup S] \in Nat /\ h[S] = f[q.fixed \cup S]
        BY <1>9, <1>10
    <2>2. \A S \in More(q) : s[q.fixed \cup S] \in Nat /\ r[S] = s[q.fixed \cup S]
        BY <1>9, <1>10
    <2> HIDE DEF K
    <2>3. Weight(f, Space(q)) = Weight(h, More(q)) /\ Weight(s, Space(q)) = Weight(r, More(q))
        BY <2>1, <2>2, SpaceWeight
    <2> QED
        BY <1>11, <2>3, SpaceSum DEF K
<1> HIDE DEF K, C, k
<1>13. Weight(h, K) = e * m + bb
    <2>1. \A S \in K : o[S] \in Nat /\ w[S] \in Nat /\ h[S] = o[S] + w[S]
        BY <1>8, <1>9
    <2>2. Weight(h, K) = Weight(o, K) + Weight(w, K)
        BY <1>2, <2>1, WeightPlus
    <2>3. Weight(o, K) = e * Cardinality(K)
        BY <1>2, <1>3, <1>9, WeightConstant
    <2> QED
        BY <1>2, <2>2, <2>3
<1>14. Weight(r, K) = e * e * m + 2 * e * bb + aa
    <2>1. \A S \in K : u[S] \in Nat /\ z[S] \in Nat /\ r[S] = u[S] + z[S]
        BY <1>9
    <2>2. Weight(r, K) = Weight(u, K) + Weight(z, K)
        BY <1>2, <2>1, WeightPlus
    <2>3. \A S \in K : u1[S] \in Nat /\ u2[S] \in Nat /\ u[S] = u1[S] + u2[S]
        BY <1>9
    <2>4. Weight(u, K) = Weight(u1, K) + Weight(u2, K)
        BY <1>2, <2>3, WeightPlus
    <2>5. e * e \in Nat /\ 2 * e \in Nat
        BY <1>3
    <2>6. Weight(u1, K) = (e * e) * Cardinality(K)
        BY <1>2, <2>5, <1>9, WeightConstant
    <2>7. \A S \in K : w[S] \in Nat /\ u2[S] = (2 * e) * w[S]
        BY <1>8, <1>9
    <2>8. Weight(u2, K) = (2 * e) * Weight(w, K)
        BY <1>2, <2>5, <2>7, WeightTimes
    <2> QED
        BY <1>2, <2>2, <2>4, <2>6, <2>8
<1>15. aa \in Nat /\ bb \in Nat
    BY <1>2, <1>8, <1>9, WeightNat
<1>16. k * (n * pp - t * t) * (n - k) * m * m
          = n * n * (n - 1) * (m * (e * e * m + 2 * e * bb + aa) - (e * m + bb) * (e * m + bb))
    <2>1. CASE C = {}
        <3>1. n = 0 /\ pp = 0 /\ t = 0
            BY <2>1, FS_EmptySet, WeightEmpty
        <3> DEFINE y == m * (e * e * m + 2 * e * bb + aa) - (e * m + bb) * (e * m + bb)
        <3>2. y \in Int
            BY <1>2, <1>3, <1>15
        <3> HIDE DEF y, n, pp, t, m
        <3>3. k * (n * pp - t * t) * (n - k) * m * m = 0 /\ n * n * (n - 1) * y = 0
            <4>1. n * pp - t * t = 0
                BY <3>1
            <4>2. k * (n * pp - t * t) = 0
                BY <1>1, <4>1
            <4> QED
                BY <1>1, <1>2, <3>1, <3>2, <4>2
        <3> QED
            BY <3>3 DEF y
    <2>2. CASE C # {}
        <3> DEFINE c == Share(k, C)
                   d == Pairs(k, C)
        <3>1. c * n = k * m
            BY <1>1, <1>2, <2>2, ShareTimes
        <3>2. d * (n - 1) = (k - 1) * c /\ d \in Nat /\ c \in Nat
            BY <1>1, <2>2, PairsTimes
        <3>3. \A x \in C : Summands[x] \in Nat
            BY <1>4
        <3>4. \A S \in kSubset(k, C) : w[S] = Weight(Summands, S)
            BY <1>2, <1>8
        <3>5. bb = c * t
            <4>1. Weight(w, kSubset(k, C)) = Share(k, C) * Weight(Summands, C)
                BY <1>1, <2>2, <3>3, <3>4, OverSubsets
            <4> QED
                BY <1>2, <4>1
        <3>6. aa = c * pp + d * (t * t - pp)
            <4>1. \A S \in kSubset(k, C) : z[S] = w[S] * w[S]
                BY <1>2, <1>9
            <4>2. \A x \in C : p[x] = Summands[x] * Summands[x]
                BY <1>4
            <4>3. Weight(z, kSubset(k, C))
                     = Share(k, C) * Weight(p, C)
                         + Pairs(k, C) * (Weight(Summands, C) * Weight(Summands, C) - Weight(p, C))
                BY <1>1, <2>2, <3>3, <3>4, <4>1, <4>2, SquaresOverSubsets
            <4> QED
                BY <1>2, <4>3
        <3> HIDE DEF c, d, n, m, pp, t, aa, bb
        <3>7. /\ n \in Int /\ m \in Int /\ c \in Int /\ d \in Int /\ pp \in Int /\ t \in Int
              /\ aa \in Int /\ bb \in Int /\ e \in Int /\ k \in Int
            BY <1>1, <1>2, <1>3, <1>5, <1>15, <3>2
        <3>8. d * (n - 1) = (k - 1) * c
            BY <3>2
        <3> QED
            BY <3>1, <3>5, <3>6, <3>7, <3>8, VarianceAlgebra
    <2> QED
        BY <2>1, <2>2
<1> HIDE DEF n, m, pp, t, aa, bb
<1>17. Baseline(q).variance * m * m
          = n * n * (n - 1) * (m * SumFunction(s) - SumFunction(f) * SumFunction(f))
    BY <1>7, <1>12, <1>13, <1>14, <1>16
<1> QED
    BY <1>17 DEF f, s, n, m, C

-----------------------------------------------------------------------------
(* The covering design has a best ticket.                                  *)

\* Min() of numbers that have a least one.
LEMMA MinOf ==
    ASSUME NEW S \in SUBSET Int, IsFiniteSet(S), S # {}
    PROVE  Min(S) \in S /\ \A y \in S : Min(S) <= y
<1>1. \E x \in S : \A y \in S : x <= y
    BY FiniteHasEnds
<1> QED
    BY <1>1 DEF Min

\* A finite set that an order orders strictly has a first member.
LEMMA HasFirst ==
    ASSUME NEW S, IsFiniteSet(S), NEW R, \A a \in S : <<a, a>> \notin R,
           \A a, b, c \in S : <<a, b>> \in R /\ <<b, c>> \in R => <<a, c>> \in R, S # {}
    PROVE  \E m \in S : \A x \in S : <<x, m>> \notin R
<1> DEFINE First(T) == \E m \in T : \A x \in T : <<x, m>> \notin R
           Good == {T \in SUBSET S : T = {} \/ First(T)}
<1>1. {} \in Good
    OBVIOUS
<1>2. ASSUME NEW T \in SUBSET S, T # {}, \A x \in T : T \ {x} \in Good
      PROVE  T \in Good
    <2> PICK x \in T : TRUE
        BY <1>2
    <2>1. CASE T \ {x} = {}
        <3>1. T = {x}
            BY <2>1
        <3> QED
            BY <3>1
    <2>2. CASE First(T \ {x})
        <3>1. PICK m \in T \ {x} : \A y \in T \ {x} : <<y, m>> \notin R
            BY <2>2
        <3>2. CASE <<x, m>> \notin R
            BY <3>1, <3>2
        <3>3. CASE <<x, m>> \in R
            <4>1. \A y \in T : <<y, x>> \notin R
                BY <3>1, <3>3
            <4> QED
                BY <4>1
        <3> QED
            BY <3>2, <3>3
    <2> QED
        BY <1>2, <2>1, <2>2
<1> HIDE DEF Good
<1>3. \A T \in SUBSET S : T # {} /\ (\A x \in T : T \ {x} \in Good) => T \in Good
    BY <1>2
<1>4. \A T \in SUBSET S : T \in Good
    BY <1>1, <1>3, SetInduction
<1> QED
    BY <1>4 DEF Good

\* The first number in which two games differ is of a.
Precedes(a, b, d) == d \in a \ b /\ \A x \in Numbers : x < d => (x \in a <=> x \in b)

\* Earlier() compares two games of a size by the first number that differs.
LEMMA EarlierPrecedes ==
    ASSUME NEW a \in SUBSET Numbers, NEW b \in SUBSET Numbers, Cardinality(a) = Cardinality(b)
    PROVE  Earlier(a, b) <=> \E d \in Numbers : Precedes(a, b, d)
<1>1. IsFiniteSet(a) /\ IsFiniteSet(b) /\ Numbers \in SUBSET Nat
    BY NumbersFinite
<1>2. a \ b \in SUBSET Int /\ b \ a \in SUBSET Int /\ IsFiniteSet(a \ b) /\ IsFiniteSet(b \ a)
    <2>1. a \ b \in SUBSET Int /\ b \ a \in SUBSET Int
        BY <1>1
    <2>2. IsFiniteSet(a \ b)
        BY <1>1, FS_Subset
    <2>3. IsFiniteSet(b \ a)
        BY <1>1, FS_Subset
    <2> QED
        BY <2>1, <2>2, <2>3
<1>3. a # b => a \ b # {} /\ b \ a # {}
    <2>1. a \in SUBSET b => a = b
        BY <1>1, FS_Subset
    <2>2. b \in SUBSET a => a = b
        BY <1>1, FS_Subset
    <2> QED
        BY <2>1, <2>2
<1> DEFINE d == Min(a \ b)
           e == Min(b \ a)
<1>4. a # b => /\ d \in a \ b /\ \A y \in a \ b : d <= y
               /\ e \in b \ a /\ \A y \in b \ a : e <= y
    BY <1>2, <1>3, MinOf
<1>5. Earlier(a, b) <=> a # b /\ d < e
    BY DEF Earlier
<1> HIDE DEF d, e
<1>6. ASSUME a # b, d < e
      PROVE  \E f \in Numbers : Precedes(a, b, f)
    <2>1. d \in Numbers /\ d \in Nat /\ e \in Nat
        BY <1>1, <1>4, <1>6
    <2>2. \A x \in Numbers : x < d => (x \in a <=> x \in b)
        <3> SUFFICES ASSUME NEW x \in Numbers, x < d PROVE x \in a <=> x \in b
            OBVIOUS
        <3>1. x \in Nat
            BY <1>1
        <3>2. x \notin a \ b
            BY <1>4, <1>6, <2>1, <3>1
        <3>3. x \notin b \ a
            BY <1>4, <1>6, <2>1, <3>1
        <3> QED
            BY <3>2, <3>3
    <2> QED
        BY <1>4, <1>6, <2>1, <2>2 DEF Precedes
<1>7. ASSUME NEW f \in Numbers, Precedes(a, b, f)
      PROVE  a # b /\ d < e
    <2>1. f \in a \ b /\ a # b
        BY <1>7 DEF Precedes
    <2>2. d <= f /\ e \in b \ a
        BY <1>4, <2>1
    <2>3. d \in Nat /\ e \in Nat /\ f \in Nat /\ e \in Numbers
        BY <1>1, <1>4, <2>1
    <2>4. ~(e < f)
        BY <1>7, <2>2, <2>3 DEF Precedes
    <2>5. e # f
        BY <2>1, <2>2
    <2> QED
        BY <2>1, <2>2, <2>3, <2>4, <2>5
<1> QED
    BY <1>5, <1>6, <1>7

\* That comparison is a strict order.
LEMMA PrecedesOrders ==
    ASSUME NEW a \in SUBSET Numbers, NEW b \in SUBSET Numbers, NEW c \in SUBSET Numbers,
           NEW d \in Numbers, Precedes(a, b, d), NEW e \in Numbers, Precedes(b, c, e)
    PROVE  \E f \in Numbers : Precedes(a, c, f)
<1>1. d \in Nat /\ e \in Nat /\ Numbers \in SUBSET Nat
    BY NumbersFinite
<1>2. d \in a /\ d \notin b /\ e \in b /\ e \notin c
    BY DEF Precedes
<1>3. CASE d < e
    <2>1. d \notin c
        BY <1>2, <1>3 DEF Precedes
    <2>2. \A x \in Numbers : x < d => (x \in a <=> x \in c)
        <3> SUFFICES ASSUME NEW x \in Numbers, x < d PROVE x \in a <=> x \in c
            OBVIOUS
        <3>1. x < e
            BY <1>1, <1>3
        <3> QED
            BY <3>1 DEF Precedes
    <2> QED
        BY <1>2, <2>1, <2>2 DEF Precedes
<1>4. CASE e < d
    <2>1. e \in a
        BY <1>2, <1>4 DEF Precedes
    <2>2. \A x \in Numbers : x < e => (x \in a <=> x \in c)
        <3> SUFFICES ASSUME NEW x \in Numbers, x < e PROVE x \in a <=> x \in c
            OBVIOUS
        <3>1. x < d
            BY <1>1, <1>4
        <3> QED
            BY <3>1 DEF Precedes
    <2> QED
        BY <1>2, <2>1, <2>2 DEF Precedes
<1>5. d # e
    BY <1>2
<1> QED
    BY <1>1, <1>3, <1>4, <1>5

\* Tickets and the sets they are to cover are finitely many.
LEMMA TicketsFinite ==
    ASSUME NEW q, q.pool \in SUBSET Numbers
    PROVE  /\ IsFiniteSet(Tickets(q)) /\ Tickets(q) \in SUBSET (SUBSET Numbers)
           /\ \A t \in Tickets(q) : Cardinality(t) = q.betSize
           /\ IsFiniteSet(TargetSets(q)) /\ TargetSets(q) \in SUBSET (SUBSET Numbers)
<1>1. IsFiniteSet(q.pool)
    BY NumbersFinite
<1>2. /\ IsFiniteSet(kSubset(q.betSize, q.pool))
      /\ kSubset(q.betSize, q.pool) \in SUBSET (SUBSET q.pool)
      /\ \A t \in kSubset(q.betSize, q.pool) : Cardinality(t) = q.betSize
    BY <1>1, KSubsetsFinite
<1>3. Tickets(q) \in SUBSET kSubset(q.betSize, q.pool)
    BY DEF Tickets
<1>4. IsFiniteSet(Tickets(q))
    BY <1>2, <1>3, FS_Subset
<1>5. IsFiniteSet(TargetSets(q)) /\ TargetSets(q) \in SUBSET (SUBSET q.pool)
    BY <1>1, KSubsetsFinite DEF TargetSets
<1> QED
    BY <1>2, <1>3, <1>4, <1>5

\* The gain of a ticket counts the uncovered sets it holds.
LEMMA GainCounts ==
    ASSUME uncovered \in SUBSET (SUBSET Numbers), NEW ticket
    PROVE  /\ Gain(ticket) \in Nat
           /\ Gain(ticket) = 0 <=> \A t \in uncovered : ~(t \subseteq ticket)
<1> DEFINE V == {t \in uncovered : t \subseteq ticket}
<1>1. V \in SUBSET uncovered /\ (V = {} <=> \A t \in uncovered : ~(t \subseteq ticket))
    OBVIOUS
<1>2. Gain(ticket) = Cardinality(V)
    BY DEF Gain
<1>3. IsFiniteSet(uncovered)
    BY NumbersFinite, SubsetsFinite
<1> HIDE DEF V
<1>4. IsFiniteSet(V)
    BY <1>1, <1>3, FS_Subset
<1> QED
    BY <1>1, <1>2, <1>4, FS_CardinalityType, FS_EmptySet

\* As long as some ticket adds something, the comparison of generateCoveringDesign()
\* has a best ticket, and the best one adds something: a design that stops because
\* its best ticket adds nothing has no other to buy (coveringDesign.ts).
THEOREM BestAdds ==
    ASSUME asked.pool \in SUBSET Numbers, uncovered \in SUBSET (SUBSET Numbers)
    PROVE  /\ (\E u \in Tickets(asked) \ InBatch : Gain(u) > 0) => \E t \in Best : Gain(t) > 0
           /\ \A t \in Best : Gain(t) > 0 => \A u \in Best : Gain(u) > 0
<1> DEFINE S == Tickets(asked) \ InBatch
           Before(u, t) == Gain(u) > Gain(t) \/ (Gain(u) = Gain(t) /\ Earlier(u, t))
           R == {p \in S \X S : Before(p[1], p[2])}
<1>1. \A t : Gain(t) \in Nat
    BY GainCounts
<1>2. /\ IsFiniteSet(S) /\ \A t \in S : t \in SUBSET Numbers
      /\ \A t, u \in S : Cardinality(t) = Cardinality(u)
    <2>1. S \in SUBSET Tickets(asked)
        OBVIOUS
    <2> HIDE DEF S
    <2>2. IsFiniteSet(S)
        BY <2>1, TicketsFinite, FS_Subset
    <2> QED
        BY <2>1, <2>2, TicketsFinite
<1>3. Best = {t \in S : \A u \in S : Gain(u) < Gain(t) \/ (Gain(u) = Gain(t) /\ ~Earlier(u, t))}
    BY DEF Best
<1> HIDE DEF S
<1>4. \A a \in S : <<a, a>> \notin R
    BY <1>1 DEF Earlier
<1>5. \A a, b, c \in S : Earlier(a, b) /\ Earlier(b, c) => Earlier(a, c)
    <2> SUFFICES ASSUME NEW a \in S, NEW b \in S, NEW c \in S, Earlier(a, b), Earlier(b, c)
                 PROVE  Earlier(a, c)
        OBVIOUS
    <2>1. a \in SUBSET Numbers /\ b \in SUBSET Numbers /\ c \in SUBSET Numbers
          /\ Cardinality(a) = Cardinality(b) /\ Cardinality(b) = Cardinality(c)
          /\ Cardinality(a) = Cardinality(c)
        BY <1>2
    <2>2. PICK d \in Numbers : Precedes(a, b, d)
        BY <2>1, EarlierPrecedes
    <2>3. PICK e \in Numbers : Precedes(b, c, e)
        BY <2>1, EarlierPrecedes
    <2>4. \E f \in Numbers : Precedes(a, c, f)
        BY <2>1, <2>2, <2>3, PrecedesOrders
    <2> QED
        BY <2>1, <2>4, EarlierPrecedes
<1>6. \A a, b, c \in S : <<a, b>> \in R /\ <<b, c>> \in R => <<a, c>> \in R
    <2> SUFFICES ASSUME NEW a \in S, NEW b \in S, NEW c \in S, Before(a, b), Before(b, c)
                 PROVE  Before(a, c)
        OBVIOUS
    <2> QED
        BY <1>1, <1>5
<1>7. ASSUME NEW u \in S, Gain(u) > 0
      PROVE  \E t \in Best : Gain(t) > 0
    <2>1. PICK m \in S : \A x \in S : <<x, m>> \notin R
        <3> HIDE DEF R
        <3> QED
            BY <1>2, <1>4, <1>6, <1>7, HasFirst
    <2>2. \A x \in S : ~Before(x, m)
        BY <2>1
    <2>3. \A x \in S : Gain(x) < Gain(m) \/ (Gain(x) = Gain(m) /\ ~Earlier(x, m))
        BY <1>1, <2>2
    <2>4. Gain(m) > 0
        BY <1>1, <1>7, <2>3
    <2> QED
        BY <1>3, <2>3, <2>4
<1>8. ASSUME NEW t \in Best, Gain(t) > 0, NEW u \in Best
      PROVE  Gain(u) > 0
    <2>1. Gain(t) <= Gain(u)
        BY <1>1, <1>3
    <2> QED
        BY <1>1, <1>8, <2>1
<1> QED
    BY <1>7, <1>8 DEF S

-----------------------------------------------------------------------------
(* The inductive invariant.                                                *)

\* Types.
PlanningShape ==
    /\ asked \in PlanAsks
    /\ phase \in {"asked", "refused", "planned", "sampling", "choosing", "covering",
                  "failed", "done"}
    /\ eligible \in Nat
    /\ batch \in Seq(SUBSET Numbers)
    /\ drawn \in SUBSET (SUBSET Numbers)
    /\ core \in SUBSET Numbers
    /\ uncovered \in SUBSET (SUBSET Numbers)

\* No game before the plan; after it, the number of games it announced.
PlanKept ==
    /\ phase \in {"asked", "refused", "planned"} => batch = <<>> /\ drawn = {} /\ core = {}
    /\ phase \notin {"asked", "refused"} =>
          SelectionIsValid(asked) /\ eligible = Cardinality(Fitting(asked))
    /\ phase \in {"sampling", "choosing"} => Sampled
    /\ phase = "covering" => asked.purpose = "coverage"

\* The core holds the fixed numbers and none of the excluded ones.
CoreFits == SamplingIsValid(asked) /\ asked.fixed \subseteq core /\ core \cap asked.excluded = {}

\* Games leave the pool for the batch, one at a time, and none comes back.
SamplesKept ==
    Sampled =>
        /\ \A i, j \in DOMAIN batch : batch[i] = batch[j] => i = j
        /\ InBatch \cap drawn = {}
        /\ InBatch \cup drawn \subseteq Fitting(asked)
        /\ \A game \in InBatch \cup drawn : core \subseteq game
        /\ phase \in {"sampling", "choosing"} => CoreFits
        /\ phase = "done" => Len(batch) = asked.count

\* Each ticket covered, when it was bought, what none before it had.
EachAdds ==
    \A i \in DOMAIN batch : \E t \in TargetSets(asked) :
        t \subseteq batch[i] /\ \A j \in 1..(i - 1) : ~(t \subseteq batch[j])

Uncovered == {t \in TargetSets(asked) : \A game \in InBatch : ~(t \subseteq game)}

\* What is uncovered is what no ticket of the batch holds.
CoverKept ==
    asked.purpose = "coverage" /\ phase \in {"covering", "done"} =>
        /\ asked.pool \in SUBSET Numbers
        /\ uncovered = Uncovered
        /\ Len(batch) <= TicketLimit(asked)
        /\ EachAdds
        /\ phase = "done" =>
              \/ Len(batch) = TicketLimit(asked)
              \/ \A ticket \in Tickets(asked) : Gain(ticket) = 0

\* The invariant of the request.
PlanningInv == PlanningShape /\ PlanKept /\ SamplesKept /\ CoverKept

-----------------------------------------------------------------------------

\* An empty batch.
LEMMA NoGameYet ==
    ASSUME batch = <<>>
    PROVE  InBatch = {} /\ DOMAIN batch = {} /\ Len(batch) = 0
<1>1. DOMAIN batch = {} /\ Len(batch) = 0
    OBVIOUS
<1> QED
    BY <1>1 DEF InBatch

\* A batch with one more game.
LEMMA Appended ==
    ASSUME batch \in Seq(SUBSET Numbers), NEW game \in SUBSET Numbers,
           batch' = Append(batch, game)
    PROVE  /\ batch' \in Seq(SUBSET Numbers) /\ InBatch' = InBatch \cup {game}
           /\ Len(batch) \in Nat /\ Len(batch') = Len(batch) + 1
           /\ DOMAIN batch = 1..Len(batch) /\ DOMAIN batch' = 1..(Len(batch) + 1)
           /\ \A i \in DOMAIN batch : i \in DOMAIN batch' /\ batch'[i] = batch[i]
           /\ Len(batch) + 1 \in DOMAIN batch' /\ batch'[Len(batch) + 1] = game
<1>1. /\ batch' \in Seq(SUBSET Numbers)
      /\ Len(batch) \in Nat /\ Len(batch') = Len(batch) + 1
      /\ DOMAIN batch = 1..Len(batch) /\ DOMAIN batch' = 1..(Len(batch) + 1)
    OBVIOUS
<1>2. /\ \A i \in DOMAIN batch : i \in DOMAIN batch' /\ batch'[i] = batch[i]
      /\ Len(batch) + 1 \in DOMAIN batch' /\ batch'[Len(batch) + 1] = game
    OBVIOUS
<1>3. \A i \in DOMAIN batch' : i \in DOMAIN batch \/ i = Len(batch) + 1
    BY <1>1
<1>4. InBatch' = InBatch \cup {game}
    BY <1>2, <1>3 DEF InBatch
<1> QED
    BY <1>1, <1>2, <1>4

\* A game sampled around the core fits the request and shares the core.
LEMMA SamplesFit ==
    ASSUME asked \in PlanAsks, SelectionIsValid(asked), CoreFits, core \in SUBSET Numbers,
           NEW game \in Samples
    PROVE  game \in Fitting(asked) /\ core \subseteq game /\ game \in SUBSET Numbers
<1> DEFINE r == asked.betSize - Cardinality(core)
           R == Numbers \ (asked.excluded \cup core)
           F == asked.fixed
           S == game \ F
<1>1. PICK more \in kSubset(r, R) : game = core \cup more /\ Matches(game, asked)
    BY DEF Samples
<1>2. more \in SUBSET R /\ Cardinality(more) = r
    BY <1>1 DEF kSubset
<1>3. more \in SUBSET Numbers /\ core \cap more = {} /\ more \cap asked.excluded = {}
    BY <1>2
<1>4. game \in SUBSET Numbers /\ F \in SUBSET Numbers /\ F \in SUBSET core
    BY <1>1, <1>3 DEF CoreFits, SelectionIsValid
<1>5. /\ IsFiniteSet(core) /\ Cardinality(core) \in Nat /\ IsFiniteSet(more)
      /\ IsFiniteSet(game) /\ IsFiniteSet(F) /\ Cardinality(F) \in Nat
      /\ Cardinality(game) \in Nat
    BY <1>3, <1>4, NumbersFinite
<1>6. asked.betSize \in Int
    BY PlanningAssumption DEF PlanningAssumption
<1>7. Cardinality(game) = asked.betSize
    <2>1. Cardinality(core \cup more) = Cardinality(core) + Cardinality(more) - Cardinality({})
        BY <1>3, <1>5, FS_Union
    <2>2. Cardinality({}) = 0
        BY FS_EmptySet
    <2> QED
        BY <1>1, <1>2, <1>5, <1>6, <2>1, <2>2
<1>8. Cardinality(S) = Needed(asked)
    <2>1. game \cap F = F
        BY <1>1, <1>4
    <2>2. Cardinality(game \ F) = Cardinality(game) - Cardinality(game \cap F)
        BY <1>5, FS_Difference
    <2> QED
        BY <1>7, <2>1, <2>2 DEF Needed
<1>9. S \in SUBSET Candidates(asked)
    BY <1>1, <1>3, <1>4 DEF Candidates, CoreFits
<1>10. F \cup S = game
    BY <1>1, <1>4
<1> HIDE DEF S
<1>11. S \in kSubset(Needed(asked), Candidates(asked))
    BY <1>8, <1>9 DEF kSubset
<1>12. game \in Space(asked)
    BY <1>10, <1>11 DEF Space
<1> QED
    BY <1>1, <1>4, <1>12 DEF Fitting

\* The budget pays for as many tickets as TicketLimit() allows.
LEMMA LimitIsPaid ==
    ASSUME NEW q \in PlanAsks, NEW n \in Nat, n <= TicketLimit(q)
    PROVE  q.budget = NoBudget \/ n * TicketPrice <= q.budget
<1>1. TicketPrice \in Nat /\ q.count \in Int /\ (q.budget = NoBudget \/ q.budget \in Nat)
    BY PlanningAssumption DEF PlanningAssumption
<1>2. CASE q.budget = NoBudget
    BY <1>2
<1>3. CASE q.budget # NoBudget /\ TicketPrice = 0
    BY <1>1, <1>3
<1>4. CASE q.budget # NoBudget /\ TicketPrice # 0
    <2> DEFINE b == q.budget
               p == TicketPrice
               d == b \div p
               M == {q.count, d}
    <2>1. b \in Nat /\ p \in Nat /\ p > 0 /\ d \in Nat
        BY <1>1, <1>4
    <2>2. TicketLimit(q) = Min(M)
        BY <1>4 DEF TicketLimit
    <2>3. M \in SUBSET Int /\ M # {} /\ d \in M
        BY <1>1, <2>1
    <2>4. IsFiniteSet(M)
        <3>1. IsFiniteSet({d})
            BY FS_Singleton
        <3>2. M = {d} \cup {q.count}
            OBVIOUS
        <3> QED
            BY <3>1, <3>2, FS_AddElement
    <2> HIDE DEF M
    <2>5. Min(M) <= d /\ Min(M) \in Int
        BY <2>3, <2>4, MinOf
    <2>6. n <= d
        BY <2>1, <2>2, <2>5
    <2>7. d * p <= b
        BY <2>1
    <2> HIDE DEF d, b, p
    <2>8. n * p <= d * p
        BY <2>1, <2>6
    <2>9. n * p <= b
        BY <2>1, <2>7, <2>8
    <2> QED
        BY <2>9 DEF b, p
<1> QED
    BY <1>2, <1>3, <1>4

-----------------------------------------------------------------------------
(* What the invariant implies.                                             *)

\* A batch without duplicates has as many games as entries.
LEMMA BatchSize ==
    ASSUME batch \in Seq(SUBSET Numbers), \A i, j \in DOMAIN batch : batch[i] = batch[j] => i = j
    PROVE  Cardinality(InBatch) = Len(batch) /\ IsFiniteSet(InBatch)
<1> DEFINE n == Len(batch)
           I == InBatch
<1>1. n \in Nat /\ DOMAIN batch = 1..n
    OBVIOUS
<1>2. batch \in [1..n -> I] /\ \A g \in I : \E i \in 1..n : batch[i] = g
    <2>1. \A i \in 1..n : batch[i] \in I
        BY <1>1 DEF InBatch
    <2>2. batch = [i \in 1..n |-> batch[i]]
        OBVIOUS
    <2>3. \A g \in I : \E i \in 1..n : batch[i] = g
        BY <1>1 DEF InBatch
    <2> HIDE DEF n, I
    <2> QED
        BY <2>1, <2>2, <2>3
<1>3. IsFiniteSet(1..n) /\ Cardinality(1..n) = n
    BY <1>1, ListedNumbers
<1> HIDE DEF n, I
<1>4. batch \in Bijection(1..n, I)
    BY <1>1, <1>2 DEF Bijection, Injection, IsInjective, Surjection
<1>5. ExistsBijection(1..n, I)
    BY <1>4 DEF ExistsBijection
<1>6. IsFiniteSet(I) /\ Cardinality(I) = Cardinality(1..n)
    BY <1>3, <1>5, FS_Bijection
<1> QED
    BY <1>3, <1>6 DEF n, I

\* The games that fit are finitely many.
LEMMA FittingFinite ==
    ASSUME NEW q \in PlanAsks, SelectionIsValid(q)
    PROVE  IsFiniteSet(Fitting(q)) /\ Fitting(q) \in SUBSET (SUBSET Numbers)
<1>1. Selected(q)
    BY ValidIsSelected
<1>2. IsFiniteSet(Space(q)) /\ \A g \in Space(q) : g \in SUBSET Numbers
    BY <1>1, SpaceSize
<1>3. Fitting(q) \in SUBSET Space(q)
    BY DEF Fitting
<1> QED
    BY <1>2, <1>3, FS_Subset

\* The invariant makes sampled games fit, differ and share the core.
LEMMA GamesAreSafe ==
    ASSUME PlanningInv
    PROVE  GamesFitRequest
<1> SUFFICES ASSUME Sampled PROVE GamesFitRequest
    BY DEF GamesFitRequest
<1>1. /\ \A i, j \in DOMAIN batch : batch[i] = batch[j] => i = j
      /\ InBatch \cup drawn \subseteq Fitting(asked)
      /\ \A game \in InBatch \cup drawn : core \subseteq game
      /\ phase = "done" => Len(batch) = asked.count
    BY DEF PlanningInv, SamplesKept
<1>2. batch \in Seq(SUBSET Numbers) /\ core \in SUBSET Numbers /\ eligible \in Nat
      /\ asked \in PlanAsks
    BY DEF PlanningInv, PlanningShape
<1>3. Cardinality(InBatch) = Len(batch)
    BY <1>1, <1>2, BatchSize
<1>4. core \subseteq SharedCore
    BY <1>1, <1>2 DEF SharedCore
<1>5. Len(batch) <= eligible
    <2>1. CASE phase \in {"asked", "refused"}
        <3>1. batch = <<>>
            BY <2>1 DEF PlanningInv, PlanKept
        <3>2. Len(batch) = 0
            BY <3>1, NoGameYet
        <3> QED
            BY <1>2, <3>2
    <2>2. CASE phase \notin {"asked", "refused"}
        <3>1. SelectionIsValid(asked) /\ eligible = Cardinality(Fitting(asked))
            BY <2>2 DEF PlanningInv, PlanKept
        <3>2. IsFiniteSet(Fitting(asked))
            BY <1>2, <3>1, FittingFinite
        <3>3. InBatch \in SUBSET Fitting(asked)
            BY <1>1
        <3>4. Cardinality(InBatch) <= Cardinality(Fitting(asked))
            BY <3>2, <3>3, FS_Subset
        <3> QED
            BY <1>3, <3>1, <3>4
    <2> QED
        BY <2>1, <2>2
<1> QED
    BY <1>1, <1>3, <1>4, <1>5 DEF GamesFitRequest

\* The invariant makes the report of a covering design true.
LEMMA CoverIsSafe ==
    ASSUME PlanningInv
    PROVE  CoverageIsTrue
<1> SUFFICES ASSUME phase \in {"covering", "done"}, asked.purpose = "coverage"
             PROVE  CoverageIsTrue
    BY DEF CoverageIsTrue
<1>1. /\ uncovered = Uncovered /\ Len(batch) <= TicketLimit(asked) /\ EachAdds
      /\ phase = "done" => \/ Len(batch) = TicketLimit(asked)
                           \/ \A ticket \in Tickets(asked) : Gain(ticket) = 0
    BY DEF PlanningInv, CoverKept
<1>2. asked \in PlanAsks /\ Len(batch) \in Nat
    BY DEF PlanningInv, PlanningShape
<1>3. TargetSets(asked) \ uncovered
         = {t \in TargetSets(asked) : \E game \in InBatch : t \subseteq game}
    BY <1>1 DEF Uncovered
<1>4. asked.budget = NoBudget \/ Len(batch) * TicketPrice <= asked.budget
    BY <1>1, <1>2, LimitIsPaid
<1> QED
    BY <1>1, <1>3, <1>4 DEF CoverageIsTrue, EachAdds

\* The invariant and the counting lemmas make the plan exact.
LEMMA PlanIsSafe ==
    ASSUME PlanningInv
    PROVE  PlanIsExact
<1> SUFFICES ASSUME phase = "planned" PROVE PlanIsExact
    BY DEF PlanIsExact
<1>1. SelectionIsValid(asked) /\ eligible = Cardinality(Fitting(asked)) /\ asked \in PlanAsks
    BY DEF PlanningInv, PlanKept, PlanningShape
<1>2. Selected(asked)
    BY <1>1, ValidIsSelected
<1> QED
    BY <1>1, <1>2, AveragesAreExact, VarianceIsExact DEF PlanIsExact

\* A request that has no plan yet satisfies the invariant.
LEMMA PlanningInitial ==
    ASSUME PlanningInit
    PROVE  PlanningInv
<1>1. batch = <<>> /\ phase = "asked" /\ drawn = {} /\ core = {} /\ uncovered = {}
      /\ eligible = 0 /\ asked \in PlanAsks
    BY DEF PlanningInit
<1>2. InBatch = {} /\ DOMAIN batch = {}
    BY <1>1, NoGameYet
<1>3. PlanningShape
    BY <1>1 DEF PlanningShape
<1>4. PlanKept
    BY <1>1 DEF PlanKept
<1>5. SamplesKept
    BY <1>1, <1>2 DEF SamplesKept
<1>6. CoverKept
    BY <1>1 DEF CoverKept
<1> QED
    BY <1>3, <1>4, <1>5, <1>6 DEF PlanningInv

\* The games stay: what is said of them stays true while the phase allows it.
LEMMA SameGames ==
    ASSUME PlanningInv, UNCHANGED <<asked, drawn, batch, uncovered>>, eligible' \in Nat,
           core' \in SUBSET Numbers,
           phase' \in {"asked", "refused", "planned", "sampling", "choosing", "covering",
                       "failed", "done"}
    PROVE  /\ PlanningShape'
           /\ InBatch' = InBatch
<1>1. PlanningShape'
    BY DEF PlanningInv, PlanningShape
<1>2. InBatch' = InBatch
    BY DEF InBatch
<1> QED
    BY <1>1, <1>2

\* buildGenerationPlan() counts the games of a valid selection.
LEMMA MakePlanStep ==
    ASSUME PlanningInv, MakePlan
    PROVE  PlanningInv'
<1>1. phase = "asked" /\ UNCHANGED <<asked, core, drawn, batch, uncovered>>
    BY DEF MakePlan
<1>2. /\ asked \in PlanAsks /\ eligible \in Nat /\ core \in SUBSET Numbers
      /\ batch = <<>> /\ drawn = {} /\ core = {}
    BY <1>1 DEF PlanningInv, PlanningShape, PlanKept
<1>3. InBatch = {} /\ DOMAIN batch = {} /\ Len(batch) = 0
    BY <1>2, NoGameYet
<1>4. \/ phase' = "refused" /\ eligible' \in Nat
      \/ /\ phase' = "planned" /\ SelectionIsValid(asked)
         /\ eligible' = Cardinality(Fitting(asked)) /\ eligible' \in Nat
    <2>1. CASE ~SelectionIsValid(asked) \/ ~ConstraintsAreValid(asked)
        BY <1>2, <2>1 DEF MakePlan
    <2>2. CASE SelectionIsValid(asked) /\ ConstraintsAreValid(asked)
        <3>1. CountEligible(asked) = Cardinality(Fitting(asked))
              /\ Cardinality(Fitting(asked)) \in Nat
            BY <1>2, <2>2, CountIsExact
        <3> DEFINE unknown == asked.repeated # NoRange /\ asked.reference = NoReference
                   count == IF unknown THEN 0 ELSE CountEligible(asked)
        <3>2. eligible' = count /\ phase' = IF count < 1 THEN "refused" ELSE "planned"
            BY <2>2 DEF MakePlan
        <3>3. CASE unknown
            BY <3>2, <3>3
        <3>4. CASE ~unknown
            BY <2>2, <3>1, <3>2, <3>4
        <3> QED
            BY <3>3, <3>4
    <2> QED
        BY <2>1, <2>2
<1>5. PlanningShape' /\ InBatch' = InBatch
    BY <1>1, <1>2, <1>4, SameGames
<1>6. PlanKept'
    <2>1. SelectionIsValid(asked)' <=> SelectionIsValid(asked)
        BY <1>1 DEF SelectionIsValid
    <2>2. Fitting(asked)' = Fitting(asked)
        BY <1>1
    <2> QED
        BY <1>1, <1>2, <1>4, <2>1, <2>2 DEF PlanKept
<1>7. SamplesKept'
    BY <1>1, <1>2, <1>3, <1>4, <1>5 DEF SamplesKept
<1>8. CoverKept'
    BY <1>4 DEF CoverKept
<1> QED
    BY <1>5, <1>6, <1>7, <1>8 DEF PlanningInv

\* A step that only gives up, goes on with the pool it has, or stutters.
LEMMA PhaseStep ==
    ASSUME PlanningInv, UNCHANGED <<asked, eligible, core, drawn, batch, uncovered>>,
           \/ phase' = "failed" /\ phase \notin {"asked", "refused"}
           \/ phase' = "choosing" /\ phase = "sampling" /\ Sampled
           \/ phase' = phase
    PROVE  PlanningInv'
<1>1. eligible \in Nat /\ core \in SUBSET Numbers
      /\ phase' \in {"asked", "refused", "planned", "sampling", "choosing", "covering",
                     "failed", "done"}
    BY DEF PlanningInv, PlanningShape
<1>2. PlanningShape' /\ InBatch' = InBatch
    BY <1>1, SameGames
<1>3. PlanKept'
    BY DEF PlanningInv, PlanKept, Sampled
<1>4. SamplesKept'
    <2>1. Sampled' <=> Sampled
        BY DEF Sampled
    <2>2. SUFFICES ASSUME Sampled PROVE SamplesKept'
        BY <2>1 DEF SamplesKept
    <2>3. /\ \A i, j \in DOMAIN batch : batch[i] = batch[j] => i = j
          /\ InBatch \cap drawn = {}
          /\ InBatch \cup drawn \subseteq Fitting(asked)
          /\ \A game \in InBatch \cup drawn : core \subseteq game
          /\ phase \in {"sampling", "choosing"} => CoreFits
          /\ phase = "done" => Len(batch) = asked.count
        BY <2>2 DEF PlanningInv, SamplesKept
    <2>4. CoreFits' <=> CoreFits
        BY DEF CoreFits
    <2> QED
        BY <1>2, <2>3, <2>4 DEF SamplesKept
<1>5. CoverKept'
    <2>1. SUFFICES ASSUME asked.purpose = "coverage" PROVE CoverKept'
        BY DEF CoverKept
    <2>2. phase \in {"covering", "done"} =>
                /\ asked.pool \in SUBSET Numbers
                /\ uncovered = Uncovered
                /\ Len(batch) <= TicketLimit(asked)
                /\ EachAdds
                /\ phase = "done" =>
                      \/ Len(batch) = TicketLimit(asked)
                      \/ \A ticket \in Tickets(asked) : Gain(ticket) = 0
        BY <2>1 DEF PlanningInv, CoverKept
    <2>3. phase' = "failed" \/ phase' = "choosing" \/ phase' = phase
        OBVIOUS
    <2>4. /\ Uncovered' = Uncovered /\ (EachAdds' <=> EachAdds)
          /\ TicketLimit(asked)' = TicketLimit(asked)
        BY <1>2 DEF Uncovered, EachAdds
    <2>5. Tickets(asked)' = Tickets(asked) /\ \A ticket : Gain(ticket)' = Gain(ticket)
        BY DEF Gain
    <2>6. (\A ticket \in Tickets(asked) : Gain(ticket) = 0)
             => (\A ticket \in Tickets(asked) : Gain(ticket) = 0)'
        BY <2>5 DEF Gain
    <2> QED
        BY <2>2, <2>3, <2>4, <2>6 DEF CoverKept
<1> QED
    BY <1>2, <1>3, <1>4, <1>5 DEF PlanningInv

\* The core is drawn from the candidates, with the fixed numbers.
LEMMA SampleCoreStep ==
    ASSUME PlanningInv, SampleCore
    PROVE  PlanningInv'
<1> DEFINE F == asked.fixed
           r == asked.fixedCount - Cardinality(F)
<1>1. /\ phase = "planned" /\ Sampled /\ SamplingIsValid(asked) /\ phase' = "sampling"
      /\ UNCHANGED <<asked, eligible, drawn, batch, uncovered>>
    BY DEF SampleCore
<1>2. PICK more \in kSubset(r, Candidates(asked)) :
          core' = IF asked.fixedCount = 0 THEN {} ELSE F \cup more
    BY DEF SampleCore
<1>3. /\ asked \in PlanAsks /\ eligible \in Nat /\ batch = <<>> /\ drawn = {}
      /\ SelectionIsValid(asked) /\ eligible = Cardinality(Fitting(asked))
    BY <1>1 DEF PlanningInv, PlanningShape, PlanKept
<1>4. Selected(asked)
    BY <1>3, ValidIsSelected
<1>5. more \in SUBSET Candidates(asked)
    BY DEF kSubset
<1>6. F \in SUBSET Numbers /\ F \cap asked.excluded = {} /\ more \in SUBSET Numbers
      /\ more \cap asked.excluded = {}
    BY <1>4, <1>5 DEF Selected, Candidates
<1>7. core' \in SUBSET Numbers /\ core' \cap asked.excluded = {}
    BY <1>2, <1>6
<1>8. F \subseteq core'
    <2>1. CASE asked.fixedCount = 0
        <3>1. IsFiniteSet(F) /\ Cardinality(F) \in Nat
            BY <1>6, NumbersFinite
        <3>2. Cardinality(F) <= asked.fixedCount
            BY <1>1 DEF SamplingIsValid
        <3>3. Cardinality(F) = 0
            BY <2>1, <3>1, <3>2
        <3>4. F = {}
            BY <3>1, <3>3, FS_EmptySet
        <3> QED
            BY <3>4
    <2>2. CASE asked.fixedCount # 0
        BY <1>2, <2>2
    <2> QED
        BY <2>1, <2>2
<1>9. PlanningShape' /\ InBatch' = InBatch
    BY <1>1, <1>3, <1>7, SameGames
<1>10. InBatch = {} /\ DOMAIN batch = {}
    BY <1>3, NoGameYet
<1>11. PlanKept'
    BY <1>1, <1>3 DEF PlanKept, Sampled
<1>12. SamplesKept'
    <2>1. CoreFits'
        BY <1>1, <1>7, <1>8 DEF CoreFits
    <2> QED
        BY <1>1, <1>3, <1>9, <1>10, <2>1 DEF SamplesKept
<1>13. CoverKept'
    <2>1. asked'.purpose # "coverage"
        BY <1>1 DEF Sampled
    <2> QED
        BY <2>1 DEF CoverKept
<1> QED
    BY <1>9, <1>11, <1>12, <1>13 DEF PlanningInv

\* A game joins the batch of a sampled request.
LEMMA BatchGrows ==
    ASSUME PlanningInv, Sampled, NEW game, game \in Fitting(asked), core \subseteq game,
           game \in SUBSET Numbers, game \notin InBatch, batch' = Append(batch, game),
           drawn' \in SUBSET drawn, game \notin drawn',
           UNCHANGED <<asked, eligible, core, uncovered>>,
           phase \in {"sampling", "choosing"},
           phase' = IF Len(batch') = asked.count THEN "done" ELSE phase
    PROVE  PlanningInv'
<1>1. /\ batch \in Seq(SUBSET Numbers) /\ asked \in PlanAsks /\ eligible \in Nat
      /\ drawn \in SUBSET (SUBSET Numbers) /\ core \in SUBSET Numbers
      /\ uncovered \in SUBSET (SUBSET Numbers)
    BY DEF PlanningInv, PlanningShape
<1>2. /\ batch' \in Seq(SUBSET Numbers) /\ InBatch' = InBatch \cup {game}
      /\ Len(batch) \in Nat
      /\ DOMAIN batch = 1..Len(batch) /\ DOMAIN batch' = 1..(Len(batch) + 1)
      /\ \A i \in DOMAIN batch : i \in DOMAIN batch' /\ batch'[i] = batch[i]
      /\ batch'[Len(batch) + 1] = game
    BY <1>1, Appended
<1>3. phase' \in {"sampling", "choosing", "done"}
    OBVIOUS
<1>4. PlanningShape'
    BY <1>1, <1>2, <1>3 DEF PlanningShape
<1>5. PlanKept'
    BY <1>3 DEF PlanningInv, PlanKept, Sampled
<1>6. SamplesKept'
    <2>1. /\ \A i, j \in DOMAIN batch : batch[i] = batch[j] => i = j
          /\ InBatch \cap drawn = {}
          /\ InBatch \cup drawn \subseteq Fitting(asked)
          /\ \A g \in InBatch \cup drawn : core \subseteq g
          /\ CoreFits
        BY DEF PlanningInv, SamplesKept
    <2>2. \A i \in DOMAIN batch : batch[i] # game
        BY DEF InBatch
    <2>3. \A i \in DOMAIN batch' : i \in DOMAIN batch \/ i = Len(batch) + 1
        BY <1>2
    <2>4. \A i, j \in DOMAIN batch' : batch'[i] = batch'[j] => i = j
        BY <1>2, <2>1, <2>2, <2>3
    <2>5. InBatch' \cap drawn' = {}
        BY <1>2, <2>1
    <2>6. InBatch' \cup drawn' \subseteq Fitting(asked)
        BY <1>2, <2>1
    <2>7. \A g \in InBatch' \cup drawn' : core \subseteq g
        BY <1>2, <2>1
    <2>8. CoreFits'
        BY <2>1 DEF CoreFits
    <2>9. phase' = "done" => Len(batch') = asked.count
        OBVIOUS
    <2> QED
        BY <2>4, <2>5, <2>6, <2>7, <2>8, <2>9 DEF SamplesKept
<1>7. CoverKept'
    <2>1. asked'.purpose # "coverage"
        BY DEF Sampled
    <2> QED
        BY <2>1 DEF CoverKept
<1> QED
    BY <1>4, <1>5, <1>6, <1>7 DEF PlanningInv

\* A game is drawn around the core, once.
LEMMA SampleGameStep ==
    ASSUME PlanningInv, SampleGame
    PROVE  PlanningInv'
<1>1. phase = "sampling" /\ UNCHANGED <<asked, eligible, core, uncovered>>
    BY DEF SampleGame
<1>2. PICK game \in Samples :
          /\ New(game)
          /\ IF asked.purpose = "uniform"
             THEN /\ batch' = Append(batch, game)
                  /\ phase' = IF Len(batch') = asked.count THEN "done" ELSE phase
                  /\ UNCHANGED drawn
             ELSE /\ drawn' = drawn \cup {game}
                  /\ phase' = IF Cardinality(drawn') = PoolTarget THEN "choosing" ELSE phase
                  /\ UNCHANGED batch
    BY DEF SampleGame
<1>3. /\ asked \in PlanAsks /\ core \in SUBSET Numbers /\ SelectionIsValid(asked)
      /\ eligible \in Nat /\ batch \in Seq(SUBSET Numbers)
      /\ drawn \in SUBSET (SUBSET Numbers) /\ uncovered \in SUBSET (SUBSET Numbers)
    BY <1>1 DEF PlanningInv, PlanningShape, PlanKept
<1>4. Sampled
    BY <1>1 DEF PlanningInv, PlanKept
<1>5. /\ \A i, j \in DOMAIN batch : batch[i] = batch[j] => i = j
      /\ InBatch \cap drawn = {}
      /\ InBatch \cup drawn \subseteq Fitting(asked)
      /\ \A g \in InBatch \cup drawn : core \subseteq g
      /\ CoreFits
    BY <1>1, <1>4 DEF PlanningInv, SamplesKept
<1>6. game \in Fitting(asked) /\ core \subseteq game /\ game \in SUBSET Numbers
    BY <1>3, <1>5, SamplesFit
<1>7. game \notin InBatch /\ game \notin drawn
    BY <1>2 DEF New
<1>8. CASE asked.purpose = "uniform"
    <2>1. /\ batch' = Append(batch, game) /\ drawn' = drawn
          /\ phase' = IF Len(batch') = asked.count THEN "done" ELSE phase
        BY <1>2, <1>8
    <2>2. drawn' \in SUBSET drawn /\ game \notin drawn'
        BY <1>7, <2>1
    <2> QED
        BY <1>1, <1>4, <1>6, <1>7, <2>1, <2>2, BatchGrows
<1>9. CASE asked.purpose # "uniform"
    <2>1. /\ drawn' = drawn \cup {game} /\ batch' = batch
          /\ phase' \in {"sampling", "choosing"}
        BY <1>1, <1>2, <1>9
    <2>2. InBatch' = InBatch
        BY <2>1 DEF InBatch
    <2>3. PlanningShape'
        BY <1>1, <1>3, <1>6, <2>1 DEF PlanningShape
    <2>4. PlanKept'
        BY <1>1, <1>4, <2>1 DEF PlanningInv, PlanKept, Sampled
    <2>5. CoreFits'
        BY <1>1, <1>5 DEF CoreFits
    <2>6. /\ InBatch' \cap drawn' = {} /\ InBatch' \cup drawn' \subseteq Fitting(asked)
          /\ \A g \in InBatch' \cup drawn' : core \subseteq g
        BY <1>5, <1>6, <1>7, <2>1, <2>2
    <2>7. SamplesKept'
        BY <1>1, <1>5, <2>1, <2>5, <2>6 DEF SamplesKept
    <2>8. CoverKept'
        <3>1. asked'.purpose # "coverage"
            BY <1>1, <1>4 DEF Sampled
        <3> QED
            BY <3>1 DEF CoverKept
    <2> QED
        BY <2>3, <2>4, <2>7, <2>8 DEF PlanningInv
<1> QED
    BY <1>8, <1>9

\* The game farthest from the batch leaves the pool and joins it.
LEMMA ChooseApartStep ==
    ASSUME PlanningInv, ChooseApart
    PROVE  PlanningInv'
<1>1. phase = "choosing" /\ UNCHANGED <<asked, eligible, core, uncovered>>
      /\ phase' = IF Len(batch') = asked.count THEN "done" ELSE phase
    BY DEF ChooseApart
<1>2. PICK game \in Closest : batch' = Append(batch, game) /\ drawn' = drawn \ {game}
    BY DEF ChooseApart
<1>3. game \in drawn
    BY DEF Closest
<1>4. Sampled
    BY <1>1 DEF PlanningInv, PlanKept
<1>5. /\ InBatch \cap drawn = {}
      /\ InBatch \cup drawn \subseteq Fitting(asked)
      /\ \A g \in InBatch \cup drawn : core \subseteq g
    BY <1>4 DEF PlanningInv, SamplesKept
<1>6. game \in SUBSET Numbers
    BY <1>3 DEF PlanningInv, PlanningShape
<1>7. game \in Fitting(asked) /\ core \subseteq game /\ game \notin InBatch
    BY <1>3, <1>5
<1>8. drawn' \in SUBSET drawn /\ game \notin drawn'
    BY <1>2
<1> QED
    BY <1>1, <1>2, <1>4, <1>6, <1>7, <1>8, BatchGrows

\* The limit of tickets is a natural number.
LEMMA LimitIsInt ==
    ASSUME NEW q \in PlanAsks
    PROVE  TicketLimit(q) \in Int
<1>1. TicketPrice \in Nat /\ q.count \in Int /\ (q.budget = NoBudget \/ q.budget \in Nat)
    BY PlanningAssumption DEF PlanningAssumption
<1>2. CASE q.budget = NoBudget \/ TicketPrice = 0
    BY <1>1, <1>2 DEF TicketLimit
<1>3. CASE ~(q.budget = NoBudget \/ TicketPrice = 0)
    <2> DEFINE d == q.budget \div TicketPrice
               M == {q.count, d}
    <2>1. d \in Int
        BY <1>1, <1>3
    <2>2. M \in SUBSET Int /\ M # {}
        BY <1>1, <2>1
    <2>3. IsFiniteSet(M)
        <3>1. IsFiniteSet({d})
            BY FS_Singleton
        <3>2. M = {d} \cup {q.count}
            OBVIOUS
        <3> QED
            BY <3>1, <3>2, FS_AddElement
    <2>4. TicketLimit(q) = Min(M)
        BY <1>3 DEF TicketLimit
    <2> HIDE DEF M
    <2>5. Min(M) \in M
        BY <2>2, <2>3, MinOf
    <2> QED
        BY <2>2, <2>4, <2>5
<1> QED
    BY <1>2, <1>3

\* generateCoveringDesign() begins with every target set uncovered.
LEMMA StartCoverageStep ==
    ASSUME PlanningInv, StartCoverage
    PROVE  PlanningInv'
<1>1. phase = "planned" /\ asked.purpose = "coverage"
    BY DEF StartCoverage
<1>2. CASE Fail
    <2>1. /\ UNCHANGED <<asked, eligible, core, drawn, batch, uncovered>>
          /\ phase' = "failed" /\ phase \notin {"asked", "refused"}
        BY <1>1, <1>2 DEF Fail
    <2> QED
        BY <2>1, PhaseStep
<1>3. CASE ~Fail
    <2>1. /\ CoverageIsValid(asked) /\ ~(TicketLimit(asked) < 1)
          /\ phase' = "covering" /\ uncovered' = TargetSets(asked)
          /\ UNCHANGED <<asked, eligible, core, drawn, batch>>
        BY <1>3 DEF StartCoverage
    <2>2. asked.pool \in SUBSET Numbers
        BY <2>1 DEF CoverageIsValid
    <2>3. /\ asked \in PlanAsks /\ eligible \in Nat /\ core \in SUBSET Numbers
          /\ batch \in Seq(SUBSET Numbers) /\ drawn \in SUBSET (SUBSET Numbers)
          /\ batch = <<>> /\ drawn = {} /\ SelectionIsValid(asked)
          /\ eligible = Cardinality(Fitting(asked))
        BY <1>1 DEF PlanningInv, PlanningShape, PlanKept
    <2>4. DOMAIN batch = {} /\ InBatch = {} /\ Len(batch) = 0
        BY <2>3, NoGameYet
    <2>5. InBatch' = {} /\ DOMAIN batch' = {} /\ Len(batch') = 0
        BY <2>1, <2>4 DEF InBatch
    <2>6. TargetSets(asked) \in SUBSET (SUBSET Numbers)
        BY <2>2, TicketsFinite
    <2>7. PlanningShape'
        BY <2>1, <2>3, <2>6 DEF PlanningShape
    <2>8. PlanKept'
        BY <1>1, <2>1, <2>3 DEF PlanKept
    <2>9. SamplesKept'
        BY <1>1, <2>1 DEF SamplesKept, Sampled
    <2>10. 0 <= TicketLimit(asked)
        <3>1. TicketLimit(asked) \in Int
            BY <2>3, LimitIsInt
        <3> QED
            BY <2>1, <3>1
    <2>11. TicketLimit(asked)' = TicketLimit(asked) /\ Uncovered' = TargetSets(asked)
        BY <2>1, <2>5 DEF Uncovered
    <2>12. EachAdds'
        BY <2>5 DEF EachAdds
    <2>13. CoverKept'
        BY <2>1, <2>2, <2>5, <2>10, <2>11, <2>12 DEF CoverKept
    <2> QED
        BY <2>7, <2>8, <2>9, <2>13 DEF PlanningInv
<1> QED
    BY <1>2, <1>3

\* The best ticket is bought if it covers something, otherwise the design ends.
LEMMA ChooseTicketStep ==
    ASSUME PlanningInv, ChooseTicket
    PROVE  PlanningInv'
<1>1. phase = "covering" /\ UNCHANGED <<asked, eligible, core, drawn>>
    BY DEF ChooseTicket
<1>2. asked.purpose = "coverage"
    BY <1>1 DEF PlanningInv, PlanKept
<1>3. /\ asked \in PlanAsks /\ eligible \in Nat /\ core \in SUBSET Numbers
      /\ batch \in Seq(SUBSET Numbers) /\ drawn \in SUBSET (SUBSET Numbers)
      /\ uncovered \in SUBSET (SUBSET Numbers) /\ SelectionIsValid(asked)
      /\ eligible = Cardinality(Fitting(asked))
    BY <1>1 DEF PlanningInv, PlanningShape, PlanKept
<1>4. /\ asked.pool \in SUBSET Numbers
      /\ uncovered = Uncovered /\ Len(batch) <= TicketLimit(asked) /\ EachAdds
    BY <1>1, <1>2 DEF PlanningInv, CoverKept
<1>5. /\ IsFiniteSet(Tickets(asked)) /\ Tickets(asked) \in SUBSET (SUBSET Numbers)
    BY <1>4, TicketsFinite
<1>6. SamplesKept'
    BY <1>1, <1>2 DEF SamplesKept, Sampled
<1>7. CASE Len(batch) < TicketLimit(asked) /\ \E t \in Best : Gain(t) > 0
    <2>1. PICK ticket \in Best :
              batch' = Append(batch, ticket) /\ uncovered' = CrossOut(ticket) /\ phase' = phase
        BY <1>7 DEF ChooseTicket
    <2>2. ticket \in Tickets(asked) /\ ticket \in SUBSET Numbers
        BY <1>5 DEF Best
    <2>3. Gain(ticket) > 0
        BY <1>3, <1>4, <1>7, BestAdds
    <2>4. PICK s \in uncovered : s \subseteq ticket
        BY <1>3, <2>3, GainCounts
    <2>5. /\ batch' \in Seq(SUBSET Numbers) /\ InBatch' = InBatch \cup {ticket}
          /\ Len(batch) \in Nat /\ Len(batch') = Len(batch) + 1
          /\ DOMAIN batch = 1..Len(batch) /\ DOMAIN batch' = 1..(Len(batch) + 1)
          /\ \A i \in DOMAIN batch : i \in DOMAIN batch' /\ batch'[i] = batch[i]
          /\ batch'[Len(batch) + 1] = ticket
        BY <1>3, <2>1, <2>2, Appended
    <2>6. uncovered' = {t \in uncovered : ~(t \subseteq ticket)}
        BY <2>1 DEF CrossOut
    <2>7. PlanningShape'
        BY <1>1, <1>3, <2>1, <2>5, <2>6 DEF PlanningShape
    <2>8. PlanKept'
        BY <1>1, <1>2, <1>3, <2>1 DEF PlanKept
    <2>9. uncovered' = Uncovered'
        <3>1. Uncovered' = {t \in TargetSets(asked) : \A game \in InBatch' : ~(t \subseteq game)}
            BY <1>1 DEF Uncovered
        <3> QED
            BY <1>4, <2>5, <2>6, <3>1, SMTT(30) DEF Uncovered
    <2>10. Len(batch') <= TicketLimit(asked)
        <3>1. CASE TicketLimit(asked) \in Int
            BY <1>7, <2>5, <3>1
        <3>2. TicketLimit(asked) \in Int
            BY <1>3, LimitIsInt
        <3> QED
            BY <3>1, <3>2
    <2>11. EachAdds'
        <3>1. s \in TargetSets(asked) /\ \A game \in InBatch : ~(s \subseteq game)
            BY <1>4, <2>4 DEF Uncovered
        <3>2. ASSUME NEW i \in DOMAIN batch'
              PROVE  \E t \in TargetSets(asked) :
                         t \subseteq batch'[i] /\ \A j \in 1..(i - 1) : ~(t \subseteq batch'[j])
            <4>1. CASE i \in DOMAIN batch
                <5>1. PICK t \in TargetSets(asked) :
                          t \subseteq batch[i] /\ \A j \in 1..(i - 1) : ~(t \subseteq batch[j])
                    BY <1>4, <4>1 DEF EachAdds
                <5>2. \A j \in 1..(i - 1) : j \in DOMAIN batch
                    BY <2>5, <4>1
                <5> QED
                    BY <2>5, <4>1, <5>1, <5>2
            <4>2. CASE i = Len(batch) + 1
                <5>1. \A j \in 1..(i - 1) : j \in DOMAIN batch
                    BY <2>5, <4>2
                <5>2. \A j \in 1..(i - 1) : batch'[j] \in InBatch
                    BY <2>5, <5>1 DEF InBatch
                <5> QED
                    BY <2>4, <2>5, <3>1, <4>2, <5>2
            <4> QED
                BY <2>5, <4>1, <4>2
        <3> QED
            BY <1>1, <3>2 DEF EachAdds
    <2>12. CoverKept'
        BY <1>1, <1>4, <2>1, <2>9, <2>10, <2>11 DEF CoverKept
    <2> QED
        BY <1>6, <2>7, <2>8, <2>12 DEF PlanningInv
<1>8. CASE ~(Len(batch) < TicketLimit(asked) /\ \E t \in Best : Gain(t) > 0)
    <2>1. phase' = "done" /\ UNCHANGED <<batch, uncovered>>
        BY <1>8 DEF ChooseTicket
    <2>2. InBatch' = InBatch
        BY <2>1 DEF InBatch
    <2>3. PlanningShape'
        BY <1>1, <1>3, <2>1 DEF PlanningShape
    <2>4. PlanKept'
        BY <1>1, <1>3, <2>1 DEF PlanKept
    <2>5. \/ Len(batch) = TicketLimit(asked)
          \/ \A ticket \in Tickets(asked) : Gain(ticket) = 0
        <3>1. CASE ~(Len(batch) < TicketLimit(asked))
            <4>1. TicketLimit(asked) \in Int /\ Len(batch) \in Int
                BY <1>3, LimitIsInt
            <4> QED
                BY <1>4, <3>1, <4>1
        <3>2. CASE ~\E t \in Best : Gain(t) > 0
            <4> SUFFICES ASSUME NEW ticket \in Tickets(asked) PROVE Gain(ticket) = 0
                OBVIOUS
            <4>1. CASE ticket \in InBatch
                <5>1. \A t \in uncovered : ~(t \subseteq ticket)
                    BY <1>4, <4>1 DEF Uncovered
                <5> QED
                    BY <1>3, <5>1, GainCounts
            <4>2. CASE ticket \notin InBatch
                <5>1. ~(Gain(ticket) > 0)
                    BY <1>3, <1>4, <3>2, <4>2, BestAdds
                <5>2. Gain(ticket) \in Nat
                    BY <1>3, GainCounts
                <5> QED
                    BY <5>1, <5>2
            <4> QED
                BY <4>1, <4>2
        <3> QED
            BY <1>8, <3>1, <3>2
    <2>6. Uncovered' = Uncovered /\ (EachAdds' <=> EachAdds)
          /\ TicketLimit(asked)' = TicketLimit(asked)
        BY <1>1, <2>1, <2>2 DEF Uncovered, EachAdds
    <2>7. (\A ticket \in Tickets(asked) : Gain(ticket) = 0)
             => (\A ticket \in Tickets(asked) : Gain(ticket) = 0)'
        BY <1>1, <2>1 DEF Gain
    <2>8. CoverKept'
        BY <1>1, <1>4, <2>1, <2>5, <2>6, <2>7 DEF CoverKept
    <2> QED
        BY <1>6, <2>3, <2>4, <2>8 DEF PlanningInv
<1> QED
    BY <1>7, <1>8

\* Every step keeps the invariant.
LEMMA PlanningStep ==
    ASSUME PlanningInv, [PlanningNext]_planningVars
    PROVE  PlanningInv'
<1>1. CASE MakePlan
    BY <1>1, MakePlanStep
<1>2. CASE SampleCore
    BY <1>2, SampleCoreStep
<1>3. CASE RefuseSampling
    <2>1. /\ UNCHANGED <<asked, eligible, core, drawn, batch, uncovered>>
          /\ phase' = "failed" /\ phase \notin {"asked", "refused"}
        BY <1>3 DEF RefuseSampling, Fail
    <2> QED
        BY <2>1, PhaseStep
<1>4. CASE SampleGame
    BY <1>4, SampleGameStep
<1>5. CASE SamplerGivesUp
    <2>1. /\ UNCHANGED <<asked, eligible, core, drawn, batch, uncovered>>
          /\ phase' = "failed" /\ phase \notin {"asked", "refused"}
        BY <1>5 DEF SamplerGivesUp, Fail
    <2> QED
        BY <2>1, PhaseStep
<1>6. CASE PoolStaysShort
    <2>1. /\ UNCHANGED <<asked, eligible, core, drawn, batch, uncovered>>
          /\ phase' = "choosing" /\ phase = "sampling" /\ Sampled
        BY <1>6 DEF PoolStaysShort, Sampled
    <2> QED
        BY <2>1, PhaseStep
<1>7. CASE ChooseApart
    BY <1>7, ChooseApartStep
<1>8. CASE StartCoverage
    BY <1>8, StartCoverageStep
<1>9. CASE ChooseTicket
    BY <1>9, ChooseTicketStep
<1>10. CASE UNCHANGED planningVars
    <2>1. /\ UNCHANGED <<asked, eligible, core, drawn, batch, uncovered>>
          /\ phase' = phase
        BY <1>10 DEF planningVars
    <2> QED
        BY <2>1, PhaseStep
<1> QED
    BY <1>1, <1>2, <1>3, <1>4, <1>5, <1>6, <1>7, <1>8, <1>9, <1>10 DEF PlanningNext

\* The invariant holds throughout.
LEMMA PlanningInvHolds == PlanningSpec => []PlanningInv
BY PlanningInitial, PlanningStep, PTL DEF PlanningSpec

\* Types: a request has its games, its plan and its pool only of numbers of the
\* draw (planning.ts, coveringDesign.ts).
THEOREM PlanningIsTyped == PlanningSpec => []PlanningTypeOK
<1>1. PlanningInv => PlanningTypeOK
    BY DEF PlanningInv, PlanningShape, PlanningTypeOK, InBatch
<1> QED
    BY <1>1, PlanningInvHolds, PTL

\* The plan announces exactly the number of games that can be drawn and their true
\* averages; the games delivered differ, fit the request and share the core; a
\* covering design reports what its tickets hold and buys none that adds nothing
\* (buildGenerationPlan(), generateUniformGames(), generatePortfolioGames() and
\* generateCoveringDesign()).
THEOREM PlanningIsSafe == PlanningSpec => []PlanningSafe
<1>1. PlanningInv => PlanningSafe
    BY PlanIsSafe, GamesAreSafe, CoverIsSafe DEF PlanningSafe
<1> QED
    BY <1>1, PlanningInvHolds, PTL

-----------------------------------------------------------------------------
(* The ranking of candidates: sets in an order.                            *)

\* A relation orders a set strictly, with no two members left uncompared.
IsOrder(R, S) ==
    /\ \A a \in S : <<a, a>> \notin R
    /\ \A a, b, c \in S : <<a, b>> \in R /\ <<b, c>> \in R => <<a, c>> \in R
    /\ \A a, b \in S : a = b \/ <<a, b>> \in R \/ <<b, a>> \in R

Ahead(R, S, x) == {y \in S : <<y, x>> \in R}

\* s is S in the order R.
Ordered(s, S, R) ==
    /\ DOMAIN s = 1..Cardinality(S) /\ s \in Seq(S) /\ Len(s) = Cardinality(S)
    /\ \A i \in 1..Cardinality(S) : s[i] \in S /\ Cardinality(Ahead(R, S, s[i])) = i - 1

\* How many are ahead of a member.
LEMMA AheadType ==
    ASSUME NEW S, IsFiniteSet(S), NEW R, NEW x \in S, <<x, x>> \notin R
    PROVE  IsFiniteSet(Ahead(R, S, x)) /\ Cardinality(Ahead(R, S, x)) \in 0..(Cardinality(S) - 1)
<1>1. Ahead(R, S, x) \subseteq S \ {x}
    BY DEF Ahead
<1>2. IsFiniteSet(S \ {x}) /\ Cardinality(S \ {x}) = Cardinality(S) - 1
    BY FS_RemoveElement
<1>3. /\ IsFiniteSet(Ahead(R, S, x))
      /\ Cardinality(Ahead(R, S, x)) <= Cardinality(S \ {x})
    BY <1>1, <1>2, FS_Subset
<1>4. Cardinality(Ahead(R, S, x)) \in Nat /\ Cardinality(S) \in Nat
    BY <1>3, FS_CardinalityType
<1> QED
    BY <1>2, <1>3, <1>4

\* More are ahead of what comes later.
LEMMA AheadGrows ==
    ASSUME NEW S, IsFiniteSet(S), NEW R, IsOrder(R, S), NEW a \in S, NEW b \in S,
           <<a, b>> \in R
    PROVE  Cardinality(Ahead(R, S, a)) < Cardinality(Ahead(R, S, b))
<1>1. a \notin Ahead(R, S, a) /\ Ahead(R, S, a) \cup {a} \subseteq Ahead(R, S, b)
    BY DEF Ahead, IsOrder
<1>2. <<a, a>> \notin R /\ <<b, b>> \notin R
    BY DEF IsOrder
<1>3. IsFiniteSet(Ahead(R, S, a)) /\ Cardinality(Ahead(R, S, a)) \in Nat
    BY <1>2, AheadType, FS_CardinalityType
<1>4. IsFiniteSet(Ahead(R, S, b)) /\ Cardinality(Ahead(R, S, b)) \in Nat
    BY <1>2, AheadType, FS_CardinalityType
<1>5. Cardinality(Ahead(R, S, a) \cup {a}) = Cardinality(Ahead(R, S, a)) + 1
    BY <1>1, <1>3, FS_AddElement
<1>6. Cardinality(Ahead(R, S, a) \cup {a}) <= Cardinality(Ahead(R, S, b))
    BY <1>1, <1>4, FS_Subset
<1> QED
    BY <1>3, <1>4, <1>5, <1>6

\* No two members have as many ahead.
LEMMA AheadDiffers ==
    ASSUME NEW S, IsFiniteSet(S), NEW R, IsOrder(R, S), NEW a \in S, NEW b \in S,
           Cardinality(Ahead(R, S, a)) = Cardinality(Ahead(R, S, b))
    PROVE  a = b
<1>1. a = b \/ <<a, b>> \in R \/ <<b, a>> \in R
    BY DEF IsOrder
<1>2. Cardinality(Ahead(R, S, a)) \in Int /\ Cardinality(Ahead(R, S, b)) \in Int
    <2>1. <<a, a>> \notin R /\ <<b, b>> \notin R
        BY DEF IsOrder
    <2>2. IsFiniteSet(Ahead(R, S, a)) /\ IsFiniteSet(Ahead(R, S, b))
        BY <2>1, AheadType
    <2> QED
        BY <2>2, FS_CardinalityType
<1>3. CASE <<a, b>> \in R
    BY <1>2, <1>3, AheadGrows
<1>4. CASE <<b, a>> \in R
    BY <1>2, <1>4, AheadGrows
<1> QED
    BY <1>1, <1>3, <1>4

\* Every place of the order is somebody's.
LEMMA EveryPlace ==
    ASSUME NEW S, IsFiniteSet(S), NEW R, IsOrder(R, S), NEW i \in 1..Cardinality(S)
    PROVE  \E x \in S : Cardinality(Ahead(R, S, x)) = i - 1
<1> DEFINE N == Cardinality(S)
           place == [x \in S |-> Cardinality(Ahead(R, S, x)) + 1]
<1>1. N \in Nat
    BY FS_CardinalityType
<1>2. place \in [S -> 1..N]
    <2> SUFFICES ASSUME NEW x \in S PROVE Cardinality(Ahead(R, S, x)) + 1 \in 1..N
        OBVIOUS
    <2>1. <<x, x>> \notin R
        BY DEF IsOrder
    <2>2. Cardinality(Ahead(R, S, x)) \in 0..(Cardinality(S) - 1)
        BY <2>1, AheadType
    <2> QED
        BY <1>1, <2>2
<1>3. \A a, b \in S : place[a] = place[b] => a = b
    <2> SUFFICES ASSUME NEW a \in S, NEW b \in S, place[a] = place[b] PROVE a = b
        OBVIOUS
    <2>1. place[a] - 1 = Cardinality(Ahead(R, S, a)) /\ place[b] - 1 = Cardinality(Ahead(R, S, b))
        <3>1. <<a, a>> \notin R /\ <<b, b>> \notin R
            BY DEF IsOrder
        <3>2. IsFiniteSet(Ahead(R, S, a)) /\ IsFiniteSet(Ahead(R, S, b))
            BY <3>1, AheadType
        <3>3. Cardinality(Ahead(R, S, a)) \in Int /\ Cardinality(Ahead(R, S, b)) \in Int
            BY <3>2, FS_CardinalityType
        <3> QED
            BY <3>3
    <2> HIDE DEF place
    <2>2. Cardinality(Ahead(R, S, a)) = Cardinality(Ahead(R, S, b))
        BY <2>1
    <2> QED
        BY <2>2, AheadDiffers
<1>4. IsFiniteSet(1..N) /\ Cardinality(1..N) = N
    BY <1>1, FS_Interval
<1>5. \A x \in S : place[x] = Cardinality(Ahead(R, S, x)) + 1
    OBVIOUS
<1> HIDE DEF place, N
<1>6. place \in Injection(S, 1..N)
    BY <1>2, <1>3 DEF Injection, IsInjective
<1>7. place \in Surjection(S, 1..N)
    BY <1>4, <1>6, FS_Injection DEF N
<1>8. \A k \in 1..N : \E x \in S : place[x] = k
    BY <1>7 DEF Surjection
<1>9. PICK x \in S : place[x] = i
    BY <1>8 DEF N
<1>10. Cardinality(Ahead(R, S, x)) \in Int
    <2>1. <<x, x>> \notin R
        BY DEF IsOrder
    <2>2. IsFiniteSet(Ahead(R, S, x))
        BY <2>1, AheadType
    <2> QED
        BY <2>2, FS_CardinalityType
<1> QED
    BY <1>1, <1>5, <1>9, <1>10 DEF N

\* A set in an order has each of its members once, the first ones first.
LEMMA OrderedHas ==
    ASSUME NEW S, IsFiniteSet(S), NEW R, IsOrder(R, S), NEW s, Ordered(s, S, R)
    PROVE  /\ Cardinality(S) \in Nat /\ Elements(s) = S
           /\ \A i, j \in DOMAIN s : s[i] = s[j] => i = j
           /\ \A i, j \in DOMAIN s : i < j => <<s[i], s[j]>> \in R
<1> DEFINE N == Cardinality(S)
<1>1. N \in Nat
    BY FS_CardinalityType
<1>2. DOMAIN s = 1..N /\ \A i \in 1..N : s[i] \in S /\ Cardinality(Ahead(R, S, s[i])) = i - 1
    BY DEF Ordered
<1>3. \A i, j \in DOMAIN s : s[i] = s[j] => i = j
    BY <1>1, <1>2
<1>4. ASSUME NEW i \in DOMAIN s, NEW j \in DOMAIN s, i < j
      PROVE  <<s[i], s[j]>> \in R
    <2>1. s[i] \in S /\ s[j] \in S /\ s[i] # s[j] /\ i \in Int /\ j \in Int
        BY <1>1, <1>2, <1>4
    <2>2. <<s[j], s[i]>> \notin R
        <3> SUFFICES ASSUME <<s[j], s[i]>> \in R PROVE FALSE
            OBVIOUS
        <3>1. Cardinality(Ahead(R, S, s[j])) < Cardinality(Ahead(R, S, s[i]))
            BY <2>1, AheadGrows
        <3> QED
            BY <1>2, <1>4, <2>1, <3>1
    <2> QED
        BY <2>1, <2>2 DEF IsOrder
<1>5. S \subseteq Elements(s)
    <2> SUFFICES ASSUME NEW x \in S PROVE \E i \in DOMAIN s : s[i] = x
        BY DEF Elements
    <2>1. <<x, x>> \notin R
        BY DEF IsOrder
    <2>2. Cardinality(Ahead(R, S, x)) \in 0..(N - 1)
        BY <2>1, AheadType
    <2> DEFINE i == Cardinality(Ahead(R, S, x)) + 1
    <2>3. i \in 1..N /\ i - 1 = Cardinality(Ahead(R, S, x))
        BY <1>1, <2>2
    <2> HIDE DEF i
    <2>4. s[i] \in S /\ Cardinality(Ahead(R, S, s[i])) = Cardinality(Ahead(R, S, x))
        BY <1>2, <2>3
    <2>5. s[i] = x
        BY <2>4, AheadDiffers
    <2> QED
        BY <1>2, <2>3, <2>5
<1>6. Elements(s) \subseteq S
    BY <1>2 DEF Elements
<1> QED
    BY <1>1, <1>3, <1>4, <1>5, <1>6

\* A set that lists each of its members at its place is in order.
LEMMA PlacedIsOrdered ==
    ASSUME NEW S, IsFiniteSet(S), NEW R, NEW s, s = [i \in 1..Cardinality(S) |-> s[i]],
           \A i \in 1..Cardinality(S) : s[i] \in S /\ Cardinality(Ahead(R, S, s[i])) = i - 1
    PROVE  Ordered(s, S, R)
<1>1. Cardinality(S) \in Nat
    BY FS_CardinalityType
<1> QED
    BY <1>1 DEF Ordered

\* The lesser and the greater of two numbers.
LEMMA OfTwo ==
    ASSUME NEW a \in Int, NEW b \in Int
    PROVE  /\ Min({a, b}) = IF a <= b THEN a ELSE b
           /\ Max({a, b}) = IF a >= b THEN a ELSE b
<1>1. Min({a, b}) \in {a, b} /\ \A y \in {a, b} : Min({a, b}) <= y
    <2>1. \E x \in {a, b} : \A y \in {a, b} : x <= y
        OBVIOUS
    <2> QED
        BY <2>1 DEF Min
<1>2. Max({a, b}) \in {a, b} /\ \A y \in {a, b} : Max({a, b}) >= y
    <2>1. \E x \in {a, b} : \A y \in {a, b} : x >= y
        OBVIOUS
    <2> QED
        BY <2>1 DEF Max
<1> QED
    BY <1>1, <1>2

\* The first n of a sequence.
LEMMA FirstOfIs ==
    ASSUME NEW T, NEW s \in Seq(T), NEW n \in Nat
    PROVE  /\ FirstOf(s, n) \in Seq(T) /\ Len(FirstOf(s, n)) <= n
           /\ Len(FirstOf(s, n)) = (IF n <= Len(s) THEN n ELSE Len(s))
           /\ \A i \in 1..Len(FirstOf(s, n)) : FirstOf(s, n)[i] = s[i] /\ i \in DOMAIN s
           /\ Elements(FirstOf(s, n)) \subseteq Elements(s)
<1> DEFINE m == Min({n, Len(s)})
           f == FirstOf(s, n)
<1>1. Len(s) \in Nat /\ DOMAIN s = 1..Len(s)
    OBVIOUS
<1>2. m = IF n <= Len(s) THEN n ELSE Len(s)
    BY <1>1, OfTwo
<1>3. f = SubSeq(s, 1, m)
    BY DEF FirstOf
<1>4. m \in 0..Len(s)
    BY <1>1, <1>2
<1> HIDE DEF m
<1>5. f \in Seq(T) /\ Len(f) = m /\ \A i \in 1..m : f[i] = s[i]
    BY <1>1, <1>3, <1>4
<1>6. Elements(f) \subseteq Elements(s)
    BY <1>1, <1>4, <1>5 DEF Elements
<1>7. \A i \in 1..Len(f) : f[i] = s[i] /\ i \in DOMAIN s
    BY <1>1, <1>4, <1>5
<1> HIDE DEF f
<1>8. Len(f) <= n /\ Len(f) = IF n <= Len(s) THEN n ELSE Len(s)
    <2>1. Len(f) = m /\ n \in Int /\ Len(s) \in Int
        BY <1>1, <1>5
    <2>2. (m = n /\ n <= Len(s)) \/ (m = Len(s) /\ ~(n <= Len(s)))
        BY <1>2
    <2> QED
        BY <2>1, <2>2
<1> QED
    BY <1>5, <1>6, <1>7, <1>8 DEF f

-----------------------------------------------------------------------------
(* Games and what is measured of them.                                     *)

\* The numbers are finitely many, and so are the sets of them.
LEMMA BallsFinite ==
    /\ Balls \in SUBSET Nat /\ \A n \in Balls : n \in Nat /\ n \in Int
    /\ IsFiniteSet(Balls) /\ Cardinality(Balls) = BallTop
    /\ \A g \in SUBSET Balls : IsFiniteSet(g) /\ Cardinality(g) \in Nat
<1>1. BallTop \in Nat
    BY RankingAssumption DEF RankingAssumption
<1>2. IsFiniteSet(Balls) /\ Cardinality(Balls) = BallTop
    BY <1>1, FS_Interval DEF Balls
<1>3. Balls \in SUBSET Nat /\ \A n \in Balls : n \in Nat /\ n \in Int
    BY <1>1 DEF Balls
<1>4. \A g \in SUBSET Balls : IsFiniteSet(g)
    BY <1>2, FS_Subset
<1> QED
    BY <1>2, <1>3, <1>4, FS_CardinalityType

\* The least number in which two games differ is of g.
LeastDiffers(g, h, d) == d \in g \ h /\ \A x \in Balls : x < d => (x \in g <=> x \in h)

\* Sooner() compares two games by the least number that differs.
LEMMA SoonerIs ==
    ASSUME NEW g \in SUBSET Balls, NEW h \in SUBSET Balls
    PROVE  Sooner(g, h) <=> \E d \in Balls : LeastDiffers(g, h, d)
<1> DEFINE D == (g \ h) \cup (h \ g)
<1>1. D \in SUBSET Balls /\ D \in SUBSET Int /\ IsFiniteSet(D)
    BY BallsFinite
<1>2. g # h => D # {}
    OBVIOUS
<1> HIDE DEF D
<1>3. D # {} => Min(D) \in D /\ \A y \in D : Min(D) <= y
    BY <1>1, MinOf
<1>4. ASSUME Sooner(g, h)
      PROVE  \E d \in Balls : LeastDiffers(g, h, d)
    <2>1. g # h /\ Min(D) \in g
        BY <1>4 DEF Sooner, D
    <2>2. Min(D) \in D /\ \A y \in D : Min(D) <= y
        BY <1>2, <1>3, <2>1
    <2>3. Min(D) \in g \ h /\ Min(D) \in Balls
        BY <1>1, <2>1, <2>2 DEF D
    <2>4. ASSUME NEW x \in Balls, x < Min(D)
          PROVE  x \in g <=> x \in h
        <3>1. x \in Int /\ Min(D) \in Int
            BY <2>3, BallsFinite
        <3>2. x \notin D
            BY <2>2, <2>4, <3>1
        <3> QED
            BY <3>2 DEF D
    <2> QED
        BY <2>3, <2>4 DEF LeastDiffers
<1>5. ASSUME NEW d \in Balls, LeastDiffers(g, h, d)
      PROVE  Sooner(g, h)
    <2>1. d \in D /\ g # h /\ d \in g
        BY <1>5 DEF LeastDiffers, D
    <2>2. Min(D) \in D /\ Min(D) <= d
        BY <1>3, <2>1
    <2>3. Min(D) \in Balls /\ Min(D) \in Int /\ d \in Int
        BY <1>1, <2>2, BallsFinite
    <2>4. ~(Min(D) < d)
        BY <1>5, <2>2, <2>3 DEF LeastDiffers, D
    <2>5. Min(D) = d
        BY <2>2, <2>3, <2>4
    <2> QED
        BY <2>1, <2>5 DEF Sooner, D
<1> QED
    BY <1>4, <1>5

\* Sooner() orders games.
LEMMA SoonerOrders ==
    /\ \A g \in SUBSET Balls : ~Sooner(g, g)
    /\ \A g, h \in SUBSET Balls : g = h \/ Sooner(g, h) \/ Sooner(h, g)
    /\ \A g, h, k \in SUBSET Balls : Sooner(g, h) /\ Sooner(h, k) => Sooner(g, k)
<1>1. \A g \in SUBSET Balls : ~Sooner(g, g)
    BY DEF Sooner
<1>2. ASSUME NEW g \in SUBSET Balls, NEW h \in SUBSET Balls, g # h
      PROVE  Sooner(g, h) \/ Sooner(h, g)
    <2> DEFINE D == (g \ h) \cup (h \ g)
    <2>1. D \in SUBSET Int /\ IsFiniteSet(D)
        BY BallsFinite
    <2>2. D # {}
        BY <1>2
    <2> HIDE DEF D
    <2>3. Min(D) \in D
        BY <2>1, <2>2, MinOf
    <2>4. D = (g \ h) \cup (h \ g) /\ D = (h \ g) \cup (g \ h)
        BY DEF D
    <2>5. Min((g \ h) \cup (h \ g)) = Min(D) /\ Min((h \ g) \cup (g \ h)) = Min(D)
        BY <2>4
    <2>6. Min(D) \in g \/ Min(D) \in h
        BY <2>3, <2>4
    <2> QED
        BY <1>2, <2>5, <2>6 DEF Sooner
<1>3. ASSUME NEW g \in SUBSET Balls, NEW h \in SUBSET Balls, NEW k \in SUBSET Balls,
             Sooner(g, h), Sooner(h, k)
      PROVE  Sooner(g, k)
    <2>1. PICK d \in Balls : LeastDiffers(g, h, d)
        BY <1>3, SoonerIs
    <2>2. PICK e \in Balls : LeastDiffers(h, k, e)
        BY <1>3, SoonerIs
    <2>3. d \in Nat /\ e \in Nat /\ Balls \in SUBSET Nat
        BY BallsFinite
    <2>4. d \in g /\ d \notin h /\ e \in h /\ e \notin k /\ d # e
        BY <2>1, <2>2 DEF LeastDiffers
    <2>5. CASE d < e
        <3>1. d \notin k
            BY <2>2, <2>4, <2>5 DEF LeastDiffers
        <3>2. ASSUME NEW x \in Balls, x < d PROVE x \in g <=> x \in k
            <4>1. x < e
                BY <2>3, <2>5, <3>2
            <4> QED
                BY <2>1, <2>2, <3>2, <4>1 DEF LeastDiffers
        <3>3. LeastDiffers(g, k, d)
            BY <2>4, <3>1, <3>2 DEF LeastDiffers
        <3> QED
            BY <3>3, SoonerIs
    <2>6. CASE e < d
        <3>1. e \in g
            BY <2>1, <2>4, <2>6 DEF LeastDiffers
        <3>2. ASSUME NEW x \in Balls, x < e PROVE x \in g <=> x \in k
            <4>1. x < d
                BY <2>3, <2>6, <3>2
            <4> QED
                BY <2>1, <2>2, <3>2, <4>1 DEF LeastDiffers
        <3>3. LeastDiffers(g, k, e)
            BY <2>4, <3>1, <3>2 DEF LeastDiffers
        <3> QED
            BY <3>3, SoonerIs
    <2> QED
        BY <2>3, <2>4, <2>5, <2>6
<1> QED
    BY <1>1, <1>2, <1>3

\* Games in the order of Sooner().
SoonerPairs(S) == {p \in S \X S : Sooner(p[1], p[2])}

\* A set of games in the order that breaks ties (candidateKey).
LEMMA GamesInOrder ==
    ASSUME NEW S \in SUBSET (SUBSET Balls), IsFiniteSet(S)
    PROVE  IsOrder(SoonerPairs(S), S) /\ Ordered(InOrder(S, Sooner), S, SoonerPairs(S))
<1> DEFINE R == SoonerPairs(S)
           s == InOrder(S, Sooner)
<1>1. \A a, b \in S : <<a, b>> \in R <=> Sooner(a, b)
    BY DEF SoonerPairs
<1>2. \A a \in S : a \in SUBSET Balls
    OBVIOUS
<1>3. IsOrder(R, S)
    <2> HIDE DEF R
    <2> QED
        BY <1>1, <1>2, SoonerOrders DEF IsOrder
<1>4. \A x \in S : Ahead(R, S, x) = {y \in S : Sooner(y, x)}
    BY <1>1 DEF Ahead
<1> DEFINE At(i) == CHOOSE x \in S : Cardinality({y \in S : Sooner(y, x)}) = i - 1
<1>5. s = [i \in 1..Cardinality(S) |-> At(i)]
    BY DEF InOrder
<1>6. ASSUME NEW i \in 1..Cardinality(S)
      PROVE  s[i] \in S /\ Cardinality(Ahead(R, S, s[i])) = i - 1
    <2>1. \E x \in S : Cardinality(Ahead(R, S, x)) = i - 1
        BY <1>3, EveryPlace
    <2>2. \E x \in S : Cardinality({y \in S : Sooner(y, x)}) = i - 1
        BY <1>4, <2>1
    <2>3. At(i) \in S /\ Cardinality({y \in S : Sooner(y, At(i))}) = i - 1
        BY <2>2
    <2> HIDE DEF R, s, At
    <2>4. s[i] = At(i)
        BY <1>5
    <2> QED
        BY <1>4, <2>3, <2>4
<1> HIDE DEF R, s, At
<1>7. s = [i \in 1..Cardinality(S) |-> s[i]]
    BY <1>5
<1>8. Ordered(s, S, R)
    BY <1>6, <1>7, PlacedIsOrdered
<1> QED
    BY <1>3, <1>8 DEF R, s

\* A total of natural numbers is one.
LEMMA TotalNat ==
    ASSUME NEW S, IsFiniteSet(S), NEW f \in [S -> Nat]
    PROVE  SumFunction(f) \in Nat
<1>1. SumFunction(f) = Weight(f, S)
    BY SumIsWeight
<1>2. Weight(f, S) \in Nat
    BY WeightNat
<1> QED
    BY <1>1, <1>2

\* A request is made of numbers.
LEMMA AskIs ==
    ASSUME rankAsk \in RankAsks
    PROVE  /\ rankAsk.games \in 1..ShortlistLimit /\ rankAsk.games \in Nat /\ rankAsk.core \in Nat
           /\ \A n \in Balls :
                 /\ rankAsk.rows[n].score \in Nat /\ rankAsk.rows[n].score \in Int
                 /\ rankAsk.rows[n].year \in Int /\ rankAsk.rows[n].blend \in Int
                 /\ rankAsk.rows[n].recent \in Int
<1>1. ShortlistLimit \in Nat
    BY RankingAssumption DEF RankingAssumption
<1>2. rankAsk.games \in 1..ShortlistLimit /\ rankAsk.core \in Nat
    BY RankingAssumption DEF RankingAssumption
<1>3. \A n \in Balls : /\ rankAsk.rows[n].score \in Nat
                       /\ rankAsk.rows[n].year \in Int /\ rankAsk.rows[n].blend \in Int
                       /\ rankAsk.rows[n].recent \in Int
    BY RankingAssumption DEF RankingAssumption, Balls
<1>4. rankAsk.games \in Nat
    BY <1>1, <1>2
<1>5. \A n \in Balls : rankAsk.rows[n].score \in Int
    BY <1>3
<1> QED
    BY <1>2, <1>3, <1>4, <1>5

\* The scores of a game add up to a number.
LEMMA ScoresAdd ==
    ASSUME rankAsk \in RankAsks, NEW g \in SUBSET Balls
    PROVE  Total(g, ScoreOf) \in Nat
<1> DEFINE f == [x \in g |-> ScoreOf(x)]
<1>1. f \in [g -> Nat]
    BY AskIs DEF ScoreOf
<1>2. Total(g, ScoreOf) = SumFunction(f)
    BY DEF Total
<1> HIDE DEF f
<1>3. IsFiniteSet(g)
    BY BallsFinite
<1> QED
    BY <1>1, <1>2, <1>3, TotalNat

-----------------------------------------------------------------------------
(* The orders of the generators.                                           *)

ScorePairs(S) == {p \in S \X S : HigherScore(p[1], p[2])}

\* Numbers in the order of their scores.
LEMMA NumbersByScore ==
    ASSUME rankAsk \in RankAsks, NEW S \in SUBSET Balls
    PROVE  IsOrder(ScorePairs(S), S) /\ Ordered(InOrder(S, HigherScore), S, ScorePairs(S))
<1> DEFINE R == ScorePairs(S)
           s == InOrder(S, HigherScore)
<1>0. IsFiniteSet(S)
    BY BallsFinite
<1>1. \A a, b \in S : <<a, b>> \in R <=> HigherScore(a, b)
    BY DEF ScorePairs
<1>2. \A a \in S : a \in Int /\ ScoreOf(a) \in Int
    BY AskIs, BallsFinite DEF ScoreOf
<1>3. IsOrder(R, S)
    <2> HIDE DEF R
    <2> QED
        BY <1>1, <1>2 DEF IsOrder, HigherScore
<1>4. \A x \in S : Ahead(R, S, x) = {y \in S : HigherScore(y, x)}
    BY <1>1 DEF Ahead
<1> DEFINE At(i) == CHOOSE x \in S : Cardinality({y \in S : HigherScore(y, x)}) = i - 1
<1>5. s = [i \in 1..Cardinality(S) |-> At(i)]
    BY DEF InOrder
<1>6. ASSUME NEW i \in 1..Cardinality(S)
      PROVE  s[i] \in S /\ Cardinality(Ahead(R, S, s[i])) = i - 1
    <2>1. \E x \in S : Cardinality(Ahead(R, S, x)) = i - 1
        BY <1>0, <1>3, EveryPlace
    <2>2. \E x \in S : Cardinality({y \in S : HigherScore(y, x)}) = i - 1
        BY <1>4, <2>1
    <2>3. At(i) \in S /\ Cardinality({y \in S : HigherScore(y, At(i))}) = i - 1
        BY <2>2
    <2> HIDE DEF R, s, At
    <2>4. s[i] = At(i)
        BY <1>5
    <2> QED
        BY <1>4, <2>3, <2>4
<1> HIDE DEF R, s, At
<1>7. s = [i \in 1..Cardinality(S) |-> s[i]]
    BY <1>5
<1>8. Ordered(s, S, R)
    BY <1>0, <1>6, <1>7, PlacedIsOrdered
<1> QED
    BY <1>3, <1>8 DEF R, s

PickPairs(S) == {p \in S \X S : PickedBefore(p[1], p[2])}

\* What a pick ranks by is a number.
LEMMA PickValueInt ==
    ASSUME rankAsk \in RankAsks, NEW n \in Balls
    PROVE  PickValue(n) \in Int
BY AskIs DEF PickValue

\* Numbers in the order of a pick.
LEMMA NumbersToPick ==
    ASSUME rankAsk \in RankAsks, NEW S \in SUBSET Balls
    PROVE  IsOrder(PickPairs(S), S) /\ Ordered(InOrder(S, PickedBefore), S, PickPairs(S))
<1> DEFINE R == PickPairs(S)
           s == InOrder(S, PickedBefore)
<1>0. IsFiniteSet(S)
    BY BallsFinite
<1>1. \A a, b \in S : <<a, b>> \in R <=> PickedBefore(a, b)
    BY DEF PickPairs
<1>2. \A a \in S : a \in Int /\ ScoreOf(a) \in Int /\ PickValue(a) \in Int
    BY AskIs, BallsFinite, PickValueInt DEF ScoreOf
<1>3. IsOrder(R, S)
    <2> HIDE DEF R
    <2> QED
        BY <1>1, <1>2 DEF IsOrder, HigherScore, PickedBefore
<1>4. \A x \in S : Ahead(R, S, x) = {y \in S : PickedBefore(y, x)}
    BY <1>1 DEF Ahead
<1> DEFINE At(i) == CHOOSE x \in S : Cardinality({y \in S : PickedBefore(y, x)}) = i - 1
<1>5. s = [i \in 1..Cardinality(S) |-> At(i)]
    BY DEF InOrder
<1>6. ASSUME NEW i \in 1..Cardinality(S)
      PROVE  s[i] \in S /\ Cardinality(Ahead(R, S, s[i])) = i - 1
    <2>1. \E x \in S : Cardinality(Ahead(R, S, x)) = i - 1
        BY <1>0, <1>3, EveryPlace
    <2>2. \E x \in S : Cardinality({y \in S : PickedBefore(y, x)}) = i - 1
        BY <1>4, <2>1
    <2>3. At(i) \in S /\ Cardinality({y \in S : PickedBefore(y, At(i))}) = i - 1
        BY <2>2
    <2> HIDE DEF R, s, At
    <2>4. s[i] = At(i)
        BY <1>5
    <2> QED
        BY <1>4, <2>3, <2>4
<1> HIDE DEF R, s, At
<1>7. s = [i \in 1..Cardinality(S) |-> s[i]]
    BY <1>5
<1>8. Ordered(s, S, R)
    BY <1>0, <1>6, <1>7, PlacedIsOrdered
<1> QED
    BY <1>3, <1>8 DEF R, s

AppealPairs(S) == {p \in S \X S : MoreAppealing(p[1], p[2])}

\* Games in the order of their return.
LEMMA GamesByAppeal ==
    ASSUME rankAsk \in RankAsks, NEW S \in SUBSET (SUBSET Balls), IsFiniteSet(S)
    PROVE  IsOrder(AppealPairs(S), S) /\ Ordered(InOrder(S, MoreAppealing), S, AppealPairs(S))
<1> DEFINE R == AppealPairs(S)
           s == InOrder(S, MoreAppealing)
<1>1. \A a, b \in S : <<a, b>> \in R <=> MoreAppealing(a, b)
    BY DEF AppealPairs
<1>2. \A a \in S : a \in SUBSET Balls /\ Return(a) \in Int
    BY ScoresAdd DEF Return
<1>3. IsOrder(R, S)
    <2> HIDE DEF R
    <2> QED
        BY <1>1, <1>2, SoonerOrders DEF IsOrder, MoreAppealing
<1>4. \A x \in S : Ahead(R, S, x) = {y \in S : MoreAppealing(y, x)}
    BY <1>1 DEF Ahead
<1> DEFINE At(i) == CHOOSE x \in S : Cardinality({y \in S : MoreAppealing(y, x)}) = i - 1
<1>5. s = [i \in 1..Cardinality(S) |-> At(i)]
    BY DEF InOrder
<1>6. ASSUME NEW i \in 1..Cardinality(S)
      PROVE  s[i] \in S /\ Cardinality(Ahead(R, S, s[i])) = i - 1
    <2>1. \E x \in S : Cardinality(Ahead(R, S, x)) = i - 1
        BY <1>3, EveryPlace
    <2>2. \E x \in S : Cardinality({y \in S : MoreAppealing(y, x)}) = i - 1
        BY <1>4, <2>1
    <2>3. At(i) \in S /\ Cardinality({y \in S : MoreAppealing(y, At(i))}) = i - 1
        BY <2>2
    <2> HIDE DEF R, s, At
    <2>4. s[i] = At(i)
        BY <1>5
    <2> QED
        BY <1>4, <2>3, <2>4
<1> HIDE DEF R, s, At
<1>7. s = [i \in 1..Cardinality(S) |-> s[i]]
    BY <1>5
<1>8. Ordered(s, S, R)
    BY <1>6, <1>7, PlacedIsOrdered
<1> QED
    BY <1>3, <1>8 DEF R, s

\* Candidates, no two of the same game.
IsField(S) ==
    /\ IsFiniteSet(S)
    /\ \A c \in S : c.numbers \in SUBSET Balls /\ c.rank \in Int
    /\ \A c, d \in S : c.numbers = d.numbers => c = d

\* Better() orders candidates.
LEMMA BetterOrders ==
    ASSUME NEW S, IsField(S)
    PROVE  /\ \A c \in S : ~Better(c, c)
           /\ \A c, d \in S : c = d \/ Better(c, d) \/ Better(d, c)
           /\ \A c, d \in S : ~(Better(c, d) /\ Better(d, c))
           /\ \A c, d, e \in S : Better(c, d) /\ Better(d, e) => Better(c, e)
<1>1. \A c \in S : c.numbers \in SUBSET Balls /\ c.rank \in Int
    BY DEF IsField
<1>2. \A c, d \in S : c.numbers = d.numbers => c = d
    BY DEF IsField
<1>3. \A c \in S : ~Better(c, c)
    BY <1>1, SoonerOrders DEF Better
<1>4. ASSUME NEW c \in S, NEW d \in S, NEW e \in S, Better(c, d), Better(d, e)
      PROVE  Better(c, e)
    BY <1>1, <1>4, SoonerOrders DEF Better
<1>5. ASSUME NEW c \in S, NEW d \in S, c # d
      PROVE  Better(c, d) \/ Better(d, c)
    BY <1>1, <1>2, <1>5, SoonerOrders DEF Better
<1> QED
    BY <1>3, <1>4, <1>5

BetterPairs(S) == {p \in S \X S : Better(p[1], p[2])}

\* Candidates, best first.
LEMMA CandidatesInOrder ==
    ASSUME NEW S, IsField(S)
    PROVE  IsOrder(BetterPairs(S), S) /\ Ordered(InOrder(S, Better), S, BetterPairs(S))
<1> DEFINE R == BetterPairs(S)
           s == InOrder(S, Better)
<1>0. IsFiniteSet(S)
    BY DEF IsField
<1>1. \A a, b \in S : <<a, b>> \in R <=> Better(a, b)
    BY DEF BetterPairs
<1>3. IsOrder(R, S)
    <2> HIDE DEF R
    <2> QED
        BY <1>1, BetterOrders DEF IsOrder
<1>4. \A x \in S : Ahead(R, S, x) = {y \in S : Better(y, x)}
    BY <1>1 DEF Ahead
<1> DEFINE At(i) == CHOOSE x \in S : Cardinality({y \in S : Better(y, x)}) = i - 1
<1>5. s = [i \in 1..Cardinality(S) |-> At(i)]
    BY DEF InOrder
<1>6. ASSUME NEW i \in 1..Cardinality(S)
      PROVE  s[i] \in S /\ Cardinality(Ahead(R, S, s[i])) = i - 1
    <2>1. \E x \in S : Cardinality(Ahead(R, S, x)) = i - 1
        BY <1>0, <1>3, EveryPlace
    <2>2. \E x \in S : Cardinality({y \in S : Better(y, x)}) = i - 1
        BY <1>4, <2>1
    <2>3. At(i) \in S /\ Cardinality({y \in S : Better(y, At(i))}) = i - 1
        BY <2>2
    <2> HIDE DEF R, s, At
    <2>4. s[i] = At(i)
        BY <1>5
    <2> QED
        BY <1>4, <2>3, <2>4
<1> HIDE DEF R, s, At
<1>7. s = [i \in 1..Cardinality(S) |-> s[i]]
    BY <1>5
<1>8. Ordered(s, S, R)
    BY <1>0, <1>6, <1>7, PlacedIsOrdered
<1> QED
    BY <1>3, <1>8 DEF R, s

-----------------------------------------------------------------------------
(* Ranks are numbers.                                                      *)

\* What is counted of a game.
LEMMA CountsOf ==
    ASSUME NEW g \in SUBSET Balls
    PROVE  /\ OddIn(g) \in Nat /\ RepeatsIn(g) \in Nat
           /\ \A n : n \in g => n \in Nat
           /\ \A h : Shared(g, h) \in Nat
<1>1. IsFiniteSet(g) /\ \A n \in g : n \in Nat
    BY BallsFinite
<1>2. \A h : IsFiniteSet(g \cap h)
    <2> TAKE h
    <2>1. g \cap h \subseteq g
        OBVIOUS
    <2> QED
        BY <1>1, <2>1, FS_Subset
<1>3. IsFiniteSet({n \in g : n % 2 = 1})
    <2>1. {n \in g : n % 2 = 1} \subseteq g
        OBVIOUS
    <2> QED
        BY <1>1, <2>1, FS_Subset
<1>4. \A h : Cardinality(g \cap h) \in Nat
    BY <1>2, FS_CardinalityType
<1>5. Cardinality({n \in g : n % 2 = 1}) \in Nat
    BY <1>3, FS_CardinalityType
<1> QED
    BY <1>1, <1>4, <1>5 DEF OddIn, RepeatsIn, Shared

\* A distance is a number.
LEMMA DistanceInt ==
    ASSUME NEW a \in Int, NEW b \in Int
    PROVE  Distance(a, b) \in Int
BY DEF Distance

\* The target of a group is one of the targets.
LEMMA TargetInt ==
    ASSUME Len(groups) \in Nat
    PROVE  Target(RepeatTargets) \in Int /\ Target(OddTargets) \in Int
<1>1. ASSUME NEW targets \in Seq(Int), targets # <<>>
      PROVE  Target(targets) \in Int
    <2>1. Len(targets) \in Nat \ {0} /\ \A i \in 1..Len(targets) : targets[i] \in Int
        BY <1>1
    <2>2. GroupOf - 1 = Len(groups)
        BY DEF GroupOf
    <2>3. (GroupOf - 1) % Len(targets) \in 0..(Len(targets) - 1)
        BY <2>1, <2>2
    <2>4. ((GroupOf - 1) % Len(targets)) + 1 \in 1..Len(targets)
        BY <2>1, <2>3
    <2> QED
        BY <2>1, <2>4 DEF Target
<1>2. /\ RepeatTargets \in Seq(Int) /\ RepeatTargets # <<>>
      /\ OddTargets \in Seq(Int) /\ OddTargets # <<>>
    BY RankingAssumption DEF RankingAssumption
<1> QED
    BY <1>1, <1>2

\* The targets of a group are numbers (targetOdd, targetRepeat).
LEMMA TargetsInt ==
    ASSUME Len(groups) \in Nat
    PROVE  TargetOdd \in Int /\ TargetRepeat \in Int
<1>1. BallsDrawn \in Nat
    BY RankingAssumption DEF RankingAssumption
<1>2. BallsDrawn \div 2 \in Int
    BY <1>1
<1> QED
    BY <1>2, TargetInt DEF TargetOdd, TargetRepeat

\* The penalty of a crowded grid.
LEMMA GridPenaltyNat ==
    ASSUME NEW g \in SUBSET Balls
    PROVE  GridPenalty(g) \in Nat
<1> DEFINE Cost(c) == IF c = 0 THEN 8 ELSE IF c > 4 THEN 15 * (c - 4) ELSE 0
           rows == [p \in GridRow(1)..GridRow(BallTop) |->
                      Cost(Cardinality({n \in g : GridRow(n) = p}))]
           columns == [p \in 0..(GridWidth - 1) |-> Cost(Cardinality({n \in g : Column(n) = p}))]
<1>1. \A c \in Nat : Cost(c) \in Nat
    OBVIOUS
<1>2. \A p : /\ Cardinality({n \in g : GridRow(n) = p}) \in Nat
             /\ Cardinality({n \in g : Column(n) = p}) \in Nat
    <2> TAKE p
    <2>1. IsFiniteSet(g)
        BY BallsFinite
    <2>2. {n \in g : GridRow(n) = p} \subseteq g /\ {n \in g : Column(n) = p} \subseteq g
        OBVIOUS
    <2>3. IsFiniteSet({n \in g : GridRow(n) = p}) /\ IsFiniteSet({n \in g : Column(n) = p})
        BY <2>1, <2>2, FS_Subset
    <2> QED
        BY <2>3, FS_CardinalityType
<1>3. BallTop \in Nat /\ GridWidth \in Nat \ {0}
    BY RankingAssumption DEF RankingAssumption
<1>4. GridRow(1) \in Int /\ GridRow(BallTop) \in Int
    BY <1>3 DEF GridRow
<1>5. IsFiniteSet(GridRow(1)..GridRow(BallTop)) /\ IsFiniteSet(0..(GridWidth - 1))
    BY <1>3, <1>4, FS_Interval
<1>6. GridPenalty(g) = SumFunction(rows) + SumFunction(columns)
    BY DEF GridPenalty, Total
<1> HIDE DEF Cost
<1>7. rows \in [GridRow(1)..GridRow(BallTop) -> Nat] /\ columns \in [0..(GridWidth - 1) -> Nat]
    BY <1>1, <1>2
<1> HIDE DEF rows, columns
<1>8. SumFunction(rows) \in Nat
    BY <1>5, <1>7, TotalNat
<1>9. SumFunction(columns) \in Nat
    BY <1>5, <1>7, TotalNat
<1> QED
    BY <1>6, <1>8, <1>9

\* The sum of the numbers of a game.
LEMMA NumbersAdd ==
    ASSUME NEW g \in SUBSET Balls, NEW f, f = [x \in g |-> x]
    PROVE  SumFunction(f) \in Nat
<1>1. f \in [g -> Nat]
    BY BallsFinite
<1>2. IsFiniteSet(g)
    BY BallsFinite
<1> QED
    BY <1>1, <1>2, TotalNat

\* Whatever the lottery, the rank of a game is a number.
LEMMA RankInt ==
    ASSUME rankAsk \in RankAsks, Len(groups) \in Nat, NEW g \in SUBSET Balls
    PROVE  RankOf(g) \in Int
<1>1. Total(g \ rankCore, ScoreOf) \in Int
    <2>1. g \ rankCore \in SUBSET Balls
        OBVIOUS
    <2> QED
        BY <2>1, ScoresAdd
<1>2. OddIn(g) \in Int /\ RepeatsIn(g) \in Int /\ TargetOdd \in Int /\ TargetRepeat \in Int
    BY CountsOf, TargetsInt
<1>3. Distance(OddIn(g), TargetOdd) \in Int /\ Distance(RepeatsIn(g), TargetRepeat) \in Int
    BY <1>2, DistanceInt
<1>4. GridPenalty(g) \in Int
    BY GridPenaltyNat
<1>5. Max({0, RepeatsIn(g) - 2}) \in Int
    <2> DEFINE over == RepeatsIn(g) - 2
    <2>1. over \in Int /\ 0 \in Int
        BY <1>2
    <2> HIDE DEF over
    <2>2. Max({0, over}) = IF 0 >= over THEN 0 ELSE over
        BY <2>1, OfTwo
    <2>3. Max({0, over}) \in Int
        BY <2>1, <2>2
    <2> QED
        BY <2>3 DEF over
<1>6. MegaSenaRank(g) \in Int
    BY <1>1, <1>3, <1>5 DEF MegaSenaRank
<1>7. LotofacilRank(g) \in Int
    BY <1>1, <1>3, <1>4 DEF LotofacilRank
<1>8. DiaDeSorteRank(g) \in Int
    <2> DEFINE f == [x \in g |-> x]
    <2>1. SumFunction(f) \in Nat
        BY NumbersAdd
    <2>2. SumTarget \in Int
        BY RankingAssumption DEF RankingAssumption
    <2>3. Distance(SumFunction(f), SumTarget) \in Int
        BY <2>1, <2>2, DistanceInt
    <2>4. DiaDeSorteRank(g) = 4 * Total(g \ rankCore, ScoreOf)
                - 140 * Distance(RepeatsIn(g), TargetRepeat)
                - 88 * Distance(OddIn(g), TargetOdd) - Distance(SumFunction(f), SumTarget)
        BY DEF DiaDeSorteRank, SumOf, Total
    <2> HIDE DEF f
    <2> QED
        BY <1>1, <1>3, <2>3, <2>4
<1> QED
    BY <1>6, <1>7, <1>8 DEF RankOf

\* What a candidate shares with the games of a list.
LEMMA OverlappingNat ==
    ASSUME NEW list, NEW n \in Nat, DOMAIN list = 1..n,
           \A i \in 1..n : list[i].numbers \in SUBSET Balls, NEW c
    PROVE  Overlapping(list, c) \in Nat
<1> DEFINE f == [i \in DOMAIN list |-> Shared(Variable(list[i]), Variable(c))]
<1>1. Overlapping(list, c) = SumFunction(f)
    BY DEF Overlapping, Total
<1>2. \A i \in 1..n : Shared(Variable(list[i]), Variable(c)) \in Nat
    <2> TAKE i \in 1..n
    <2>1. Variable(list[i]) \in SUBSET Balls
        BY DEF Variable
    <2> QED
        BY <2>1, CountsOf
<1>3. f \in [1..n -> Nat]
    BY <1>2
<1>4. IsFiniteSet(1..n)
    BY FS_Interval
<1> HIDE DEF f
<1> QED
    BY <1>1, <1>3, <1>4, TotalNat

\* The penalty of a repeated number is a number (GENERATION_POLICY).
LEMMA PenaltyInt == ReusePenalty \in Int
BY DEF ReusePenalty

-----------------------------------------------------------------------------
(* The candidates that are offered.                                        *)

\* The games of a core and a pool.
LEMMA WalkIs ==
    ASSUME rankCore \in SUBSET Balls, rankPool \in SUBSET Balls, rankCore \cap rankPool = {}
    PROVE  /\ Walk \in SUBSET (SUBSET Balls) /\ IsFiniteSet(Walk)
           /\ \A g \in Walk : rankCore \subseteq g /\ g \subseteq rankCore \cup rankPool
                              /\ Cardinality(g) = BallsDrawn
<1> DEFINE k == BallsDrawn - Cardinality(rankCore)
<1>1. /\ IsFiniteSet(rankCore) /\ Cardinality(rankCore) \in Nat
      /\ IsFiniteSet(rankPool) /\ BallsDrawn \in Nat
    <2>1. BallTop \in Nat /\ BallsDrawn \in 1..BallTop
        BY RankingAssumption DEF RankingAssumption
    <2>2. BallsDrawn \in Nat
        BY <2>1
    <2>3. /\ IsFiniteSet(rankCore) /\ Cardinality(rankCore) \in Nat
          /\ IsFiniteSet(rankPool)
        BY BallsFinite
    <2> QED
        BY <2>2, <2>3
<1>2. Walk = {rankCore \cup v : v \in kSubset(k, rankPool)}
    BY DEF Walk
<1>3. ASSUME NEW g \in Walk
      PROVE  /\ g \in SUBSET Balls /\ rankCore \subseteq g /\ g \subseteq rankCore \cup rankPool
             /\ Cardinality(g) = BallsDrawn
    <2>1. PICK v \in kSubset(k, rankPool) : g = rankCore \cup v
        BY <1>2
    <2> HIDE DEF k
    <2>2. v \in SUBSET rankPool /\ IsFiniteSet(v) /\ Cardinality(v) = k
        BY <1>1, KSubsetsFinite
    <2>3. rankCore \cap v = {}
        BY <2>2
    <2>4. Cardinality(rankCore \cup v) = Cardinality(rankCore) + Cardinality(v)
        <3>1. Cardinality(rankCore \cup v) = Cardinality(rankCore) + Cardinality(v)
                                               - Cardinality(rankCore \cap v)
            BY <1>1, <2>2, FS_Union
        <3>2. Cardinality(rankCore \cap v) = 0
            BY <2>3, FS_EmptySet
        <3>3. Cardinality(v) \in Nat
            BY <2>2, FS_CardinalityType
        <3> QED
            BY <1>1, <3>1, <3>2, <3>3
    <2> QED
        BY <1>1, <2>1, <2>2, <2>4 DEF k
<1>4. IsFiniteSet(SUBSET Balls)
    BY BallsFinite, FS_SUBSET
<1>5. Walk \in SUBSET (SUBSET Balls)
    BY <1>3
<1>6. IsFiniteSet(Walk)
    BY <1>4, <1>5, FS_Subset
<1> QED
    BY <1>3, <1>5, <1>6

Candidate == [numbers : SUBSET Balls, rank : Int]

\* The offers: every game that is yielded, once, with its rank.
OffersOk ==
    /\ Len(Offers) = Cardinality(Yielded) /\ Len(Offers) \in Nat
    /\ DOMAIN Offers = 1..Len(Offers) /\ Offers \in Seq(Elements(Offers))
    /\ \A i, j \in 1..Len(Offers) : Offers[i] = Offers[j] => i = j
    /\ IsField(Elements(Offers)) /\ Elements(Offers) \subseteq Candidate
    /\ \A i \in 1..Len(Offers) : Offers[i] \in Elements(Offers) /\ Offers[i].numbers \in Yielded
    /\ \A g \in Yielded : \E i \in 1..Len(Offers) : Offers[i].numbers = g

\* The candidates a generator offers are the games it yields, each once and ranked.
LEMMA OffersAre ==
    ASSUME rankAsk \in RankAsks, rankCore \in SUBSET Balls, rankPool \in SUBSET Balls,
           rankCore \cap rankPool = {}, Len(groups) \in Nat
    PROVE  OffersOk
<1> DEFINE s == InOrder(Yielded, Sooner)
           n == Cardinality(Yielded)
<1>1. Yielded \in SUBSET (SUBSET Balls) /\ IsFiniteSet(Yielded)
    <2>1. Yielded \subseteq Walk
        BY DEF Yielded
    <2>2. Walk \in SUBSET (SUBSET Balls) /\ IsFiniteSet(Walk)
        BY WalkIs
    <2> QED
        BY <2>1, <2>2, FS_Subset
<1>2. IsOrder(SoonerPairs(Yielded), Yielded) /\ Ordered(s, Yielded, SoonerPairs(Yielded))
    BY <1>1, GamesInOrder
<1>3. Offers = [i \in DOMAIN s |-> [numbers |-> s[i], rank |-> RankOf(s[i])]]
    BY DEF Offers
<1> HIDE DEF s
<1>4. n \in Nat /\ Elements(s) = Yielded /\ \A i, j \in DOMAIN s : s[i] = s[j] => i = j
    BY <1>1, <1>2, OrderedHas
<1>5. DOMAIN s = 1..n
    BY <1>2 DEF Ordered
<1>6. \A i \in 1..n : s[i] \in Yielded /\ s[i] \in SUBSET Balls
    BY <1>1, <1>4, <1>5 DEF Elements
<1>7. \A g \in Yielded : \E i \in 1..n : s[i] = g
    BY <1>4, <1>5 DEF Elements
<1>8. \A g \in Yielded : RankOf(g) \in Int
    BY <1>1, RankInt
<1> HIDE DEF n
<1>9. \A i \in 1..n : Offers[i] = [numbers |-> s[i], rank |-> RankOf(s[i])]
    BY <1>3, <1>5
<1>10. DOMAIN Offers = 1..n /\ Offers = [i \in 1..n |-> Offers[i]]
    BY <1>3, <1>5
<1>11. \A i \in 1..n : /\ Offers[i].numbers = s[i] /\ Offers[i].rank \in Int
                       /\ Offers[i] \in Elements(Offers)
    BY <1>6, <1>8, <1>9, <1>10 DEF Elements
<1>12. Offers \in Seq(Elements(Offers)) /\ Len(Offers) = n
    BY <1>4, <1>10, <1>11
<1>13. \A c \in Elements(Offers) : \E i \in 1..n : c = Offers[i]
    BY <1>10 DEF Elements
<1>14. \A i, j \in 1..n : Offers[i].numbers = Offers[j].numbers => i = j
    BY <1>4, <1>5, <1>11
<1>15. IsField(Elements(Offers))
    <2>1. IsFiniteSet(Elements(Offers))
        <3> DEFINE o == [i \in 1..n |-> Offers[i]]
        <3>1. IsFiniteSet(1..n)
            BY <1>4, FS_Interval
        <3>2. o \in Surjection(1..n, Elements(Offers))
            BY <1>11, <1>13 DEF Surjection
        <3> HIDE DEF o
        <3> QED
            BY <3>1, <3>2, FS_Surjection
    <2>2. ASSUME NEW c \in Elements(Offers)
          PROVE  c.numbers \in SUBSET Balls /\ c.rank \in Int
        BY <1>6, <1>11, <1>13
    <2>3. ASSUME NEW c \in Elements(Offers), NEW d \in Elements(Offers), c.numbers = d.numbers
          PROVE  c = d
        BY <1>13, <1>14, <2>3
    <2> QED
        BY <2>1, <2>2, <2>3 DEF IsField
<1>16. \A i, j \in 1..n : Offers[i] = Offers[j] => i = j
    BY <1>14
<1>17. \A g \in Yielded : \E i \in 1..n : Offers[i].numbers = g
    BY <1>7, <1>11
<1>18. Elements(Offers) \subseteq Candidate
    <2>1. ASSUME NEW i \in 1..n
          PROVE  Offers[i] \in Candidate
        <3>1. s[i] \in SUBSET Balls /\ RankOf(s[i]) \in Int
            BY <1>6, <1>8
        <3>2. \A a \in SUBSET Balls, b \in Int : [numbers |-> a, rank |-> b] \in Candidate
            BY DEF Candidate
        <3>3. [numbers |-> s[i], rank |-> RankOf(s[i])] \in Candidate
            BY <3>1, <3>2
        <3> QED
            BY <1>9, <3>3
    <2> QED
        BY <1>13, <2>1
<1> QED
    BY <1>4, <1>6, <1>10, <1>11, <1>12, <1>15, <1>16, <1>17, <1>18 DEF OffersOk, n

\* Part of a field is one.
LEMMA FieldPart ==
    ASSUME NEW F, IsField(F), NEW S \in SUBSET F
    PROVE  IsField(S)
<1>1. IsFiniteSet(S)
    BY FS_Subset DEF IsField
<1> QED
    BY <1>1 DEF IsField

-----------------------------------------------------------------------------
(* The heap, whatever the candidates: F are the candidates, h the heap.    *)

\* h holds candidates of F, each once.
IsHeapOf(h, F) ==
    /\ h \in Seq(F) /\ Len(h) \in Nat /\ DOMAIN h = 1..Len(h)
    /\ \A i \in 1..Len(h) : h[i] \in F
    /\ \A i, j \in 1..Len(h) : h[i] = h[j] => i = j

\* No candidate is better than one below it; but for the one that rises from p,
\* and for the one that sinks from p.
InHeap(h) == \A i \in 2..Len(h) : Better(h[i], h[i \div 2])
UpFrom(h, p) ==
    /\ \A i \in 2..Len(h) : i # p => Better(h[i], h[i \div 2])
    /\ p > 1 => \A i \in 2..Len(h) : i \div 2 = p => Better(h[i], h[p \div 2])
DownFrom(h, p) ==
    /\ \A i \in 2..Len(h) : i \div 2 # p => Better(h[i], h[i \div 2])
    /\ p > 1 => \A i \in 2..Len(h) : i \div 2 = p => Better(h[i], h[p \div 2])

\* The parent of a place is a place before it (siftUp()).
LEMMA HalfIs ==
    ASSUME NEW n \in Nat, NEW i \in 2..n
    PROVE  /\ i \in Nat /\ i \div 2 \in 1..n /\ i \div 2 < i /\ i \div 2 \in Nat
           /\ i = 2 * (i \div 2) \/ i = 2 * (i \div 2) + 1
OBVIOUS

\* The root of a heap is its worst.
LEMMA RootIsWorst ==
    ASSUME NEW F, IsField(F), NEW h, IsHeapOf(h, F), InHeap(h)
    PROVE  \A i \in 2..Len(h) : Better(h[i], h[1])
<1> DEFINE Bad == {i \in 2..Len(h) : ~Better(h[i], h[1])}
<1>1. SUFFICES ASSUME Bad # {} PROVE FALSE
    OBVIOUS
<1>2. Len(h) \in Nat /\ \A i \in 1..Len(h) : h[i] \in F
    BY DEF IsHeapOf
<1>3. Bad \in SUBSET Int /\ IsFiniteSet(Bad)
    <2>1. IsFiniteSet(2..Len(h)) /\ Bad \subseteq 2..Len(h)
        BY <1>2, FS_Interval
    <2>2. IsFiniteSet(Bad)
        BY <2>1, FS_Subset
    <2> QED
        BY <2>1, <2>2
<1>4. PICK i \in Bad : \A j \in Bad : i <= j
    <2> HIDE DEF Bad
    <2> QED
        BY <1>1, <1>3, FiniteHasEnds
<1>5. i \in 2..Len(h) /\ ~Better(h[i], h[1])
    OBVIOUS
<1>6. i \in Nat /\ i \div 2 \in 1..Len(h) /\ i \div 2 < i
    BY <1>2, <1>5, HalfIs
<1>7. Better(h[i], h[i \div 2])
    BY <1>5 DEF InHeap
<1>8. CASE i \div 2 = 1
    BY <1>5, <1>7, <1>8
<1>9. CASE i \div 2 # 1
    <2>1. i \div 2 \in 2..Len(h) /\ i \div 2 \notin Bad
        BY <1>2, <1>4, <1>6, <1>9
    <2>2. Better(h[i \div 2], h[1])
        BY <2>1
    <2>3. h[i] \in F /\ h[i \div 2] \in F /\ h[1] \in F
        BY <1>2, <1>5, <1>6
    <2> QED
        BY <1>5, <1>7, <2>2, <2>3, BetterOrders
<1> QED
    BY <1>8, <1>9

\* Two candidates change places.
LEMMA SwapIs ==
    ASSUME NEW F, NEW h, IsHeapOf(h, F), NEW p \in 1..Len(h), NEW q \in 1..Len(h), p # q
    PROVE  /\ IsHeapOf(Swap(h, p, q), F) /\ Len(Swap(h, p, q)) = Len(h)
           /\ Elements(Swap(h, p, q)) = Elements(h)
           /\ Swap(h, p, q)[p] = h[q] /\ Swap(h, p, q)[q] = h[p]
           /\ \A i \in 1..Len(h) : i # p /\ i # q => Swap(h, p, q)[i] = h[i]
<1> DEFINE s == Swap(h, p, q)
           n == Len(h)
<1>1. /\ h \in Seq(F) /\ n \in Nat /\ DOMAIN h = 1..n
      /\ \A i \in 1..n : h[i] \in F
      /\ \A i, j \in 1..n : h[i] = h[j] => i = j
    BY DEF IsHeapOf
<1>2. s = [i \in 1..n |-> IF i = q THEN h[p] ELSE IF i = p THEN h[q] ELSE h[i]]
    BY <1>1 DEF Swap
<1> HIDE DEF s
<1>3. s[p] = h[q] /\ s[q] = h[p] /\ \A i \in 1..n : i # p /\ i # q => s[i] = h[i]
    BY <1>2
<1>4. s \in Seq(F) /\ Len(s) = n /\ DOMAIN s = 1..n
    BY <1>1, <1>2
<1>5. \A i \in 1..n : s[i] \in F
    BY <1>1, <1>3
<1>6. \A i, j \in 1..n : s[i] = s[j] => i = j
    BY <1>1, <1>3
<1>7. Elements(s) = Elements(h)
    <2>1. ASSUME NEW i \in 1..n
          PROVE  (\E j \in 1..n : s[i] = h[j]) /\ (\E j \in 1..n : h[i] = s[j])
        <3>1. CASE i = p
            BY <3>1, <1>3
        <3>2. CASE i = q
            BY <3>2, <1>3
        <3>3. CASE i # p /\ i # q
            BY <3>3, <1>3
        <3> QED
            BY <3>1, <3>2, <3>3
    <2>2. Elements(s) = {s[i] : i \in 1..n} /\ Elements(h) = {h[i] : i \in 1..n}
        BY <1>1, <1>4 DEF Elements
    <2>3. ASSUME NEW x \in Elements(s) PROVE x \in Elements(h)
        <3>1. PICK i \in 1..n : x = s[i]
            BY <2>2
        <3>2. PICK j \in 1..n : s[i] = h[j]
            BY <2>1
        <3> QED
            BY <3>1, <3>2, <2>2
    <2>4. ASSUME NEW x \in Elements(h) PROVE x \in Elements(s)
        <3>1. PICK i \in 1..n : x = h[i]
            BY <2>2
        <3>2. PICK j \in 1..n : h[i] = s[j]
            BY <2>1
        <3> QED
            BY <3>1, <3>2, <2>2
    <2> QED
        BY <2>3, <2>4
<1> QED
    BY <1>1, <1>3, <1>4, <1>5, <1>6, <1>7 DEF IsHeapOf, s

\* One step of siftUp() leaves one candidate out of place, one level up.
LEMMA RisesOn ==
    ASSUME NEW F, IsField(F), NEW h, IsHeapOf(h, F), NEW p \in 2..Len(h), UpFrom(h, p),
           Worse(h[p], h[p \div 2])
    PROVE  UpFrom(Swap(h, p, p \div 2), p \div 2)
<1> DEFINE q == p \div 2
           s == Swap(h, p, q)
           n == Len(h)
<1>1. n \in Nat /\ \A i \in 1..n : h[i] \in F
    BY DEF IsHeapOf
<1>2. p \in 1..n /\ q \in 1..n /\ q < p /\ p # q /\ p \in Nat /\ q \in Nat
    BY <1>1, HalfIs
<1>3. /\ Len(s) = n /\ s[p] = h[q] /\ s[q] = h[p]
      /\ \A i \in 1..n : i # p /\ i # q => s[i] = h[i]
    <2> HIDE DEF q
    <2> QED
        BY <1>2, SwapIs
<1>4. Better(h[q], h[p])
    BY DEF Worse
<1>5. /\ \A i \in 2..n : i # p => Better(h[i], h[i \div 2])
      /\ \A i \in 2..n : i \div 2 = p => Better(h[i], h[q])
    BY <1>2 DEF UpFrom
<1>6. p \div 2 = q
    OBVIOUS
<1> HIDE DEF s, q
<1>7. ASSUME NEW i \in 2..n, i # q
      PROVE  Better(s[i], s[i \div 2])
    <2>1. i \in 1..n /\ i \in Nat /\ i \div 2 \in 1..n /\ i \div 2 < i
        BY <1>1, HalfIs
    <2>2. CASE i = p
        BY <1>3, <1>4, <1>6, <2>2
    <2>3. CASE i # p /\ i \div 2 = p
        <3>1. s[i] = h[i] /\ s[i \div 2] = h[q]
            BY <1>3, <1>7, <2>1, <2>3
        <3> QED
            BY <1>5, <2>3, <3>1
    <2>4. CASE i # p /\ i \div 2 = q
        <3>1. s[i] = h[i] /\ s[i \div 2] = h[p]
            BY <1>3, <1>7, <2>1, <2>4
        <3>2. Better(h[i], h[q])
            BY <1>5, <2>4
        <3>3. h[i] \in F /\ h[q] \in F /\ h[p] \in F
            BY <1>1, <1>2, <2>1
        <3> QED
            BY <1>4, <3>1, <3>2, <3>3, BetterOrders
    <2>5. CASE i # p /\ i \div 2 # p /\ i \div 2 # q
        <3>1. s[i] = h[i] /\ s[i \div 2] = h[i \div 2]
            BY <1>3, <1>7, <2>1, <2>5
        <3> QED
            BY <1>5, <2>5, <3>1
    <2> QED
        BY <2>2, <2>3, <2>4, <2>5
<1>8. ASSUME q > 1, NEW i \in 2..n, i \div 2 = q
      PROVE  Better(s[i], s[q \div 2])
    <2>1. q \in 2..n
        BY <1>1, <1>2, <1>8
    <2>2. q \div 2 \in 1..n /\ q \div 2 < q
        BY <1>1, <2>1, HalfIs
    <2>3. s[q \div 2] = h[q \div 2]
        BY <1>2, <1>3, <2>2
    <2>4. Better(h[q], h[q \div 2])
        BY <1>2, <1>5, <2>1
    <2>5. i \in 1..n /\ i \div 2 < i /\ i \in Nat
        BY <1>1, HalfIs
    <2>6. CASE i = p
        BY <1>3, <2>3, <2>4, <2>6
    <2>7. CASE i # p
        <3>1. s[i] = h[i]
            BY <1>2, <1>3, <1>8, <2>5, <2>7
        <3>2. Better(h[i], h[q])
            BY <1>5, <1>8, <2>7
        <3>3. h[i] \in F /\ h[q] \in F /\ h[q \div 2] \in F
            BY <1>1, <1>2, <2>2, <2>5
        <3> QED
            BY <2>3, <2>4, <3>1, <3>2, <3>3, BetterOrders
    <2> QED
        BY <2>6, <2>7
<1>9. UpFrom(s, q)
    BY <1>3, <1>7, <1>8 DEF UpFrom
<1> QED
    BY <1>9 DEF s, q

\* Where siftUp() stops the heap is in order.
LEMMA RisenIsHeap ==
    ASSUME NEW F, IsField(F), NEW h, IsHeapOf(h, F), NEW p \in 1..Len(h), UpFrom(h, p),
           ~(p > 1 /\ Worse(h[p], h[p \div 2]))
    PROVE  InHeap(h)
<1>1. /\ Len(h) \in Nat
      /\ \A i \in 1..Len(h) : h[i] \in F
      /\ \A i, j \in 1..Len(h) : h[i] = h[j] => i = j
    BY DEF IsHeapOf
<1>2. SUFFICES ASSUME NEW i \in 2..Len(h) PROVE Better(h[i], h[i \div 2])
    BY DEF InHeap
<1>3. CASE i # p
    BY <1>3 DEF UpFrom
<1>4. CASE i = p
    <2>1. i \in 1..Len(h) /\ i \div 2 \in 1..Len(h) /\ i \div 2 < i /\ i \in Nat /\ i > 1
        BY <1>1, HalfIs
    <2>2. ~Better(h[i \div 2], h[i])
        BY <1>4, <2>1 DEF Worse
    <2>3. h[i] # h[i \div 2] /\ h[i] \in F /\ h[i \div 2] \in F
        BY <1>1, <2>1
    <2> QED
        BY <2>2, <2>3, BetterOrders
<1> QED
    BY <1>3, <1>4

\* One step of siftDown(): the worst of the children comes up.
LEMMA SinksOn ==
    ASSUME NEW F, IsField(F), NEW h, IsHeapOf(h, F), NEW p \in 1..Len(h), DownFrom(h, p),
           NEW w \in 2..Len(h), w \div 2 = p, Worse(h[w], h[p]),
           \A x \in 2..Len(h) : x \div 2 = p => x = w \/ Worse(h[w], h[x])
    PROVE  DownFrom(Swap(h, p, w), w)
<1> DEFINE s == Swap(h, p, w)
           n == Len(h)
<1>1. n \in Nat /\ \A i \in 1..n : h[i] \in F
    BY DEF IsHeapOf
<1>2. w \in 1..n /\ p < w /\ p # w /\ p \in Nat /\ w \in Nat
    BY <1>1, HalfIs
<1>3. /\ Len(s) = n /\ s[p] = h[w] /\ s[w] = h[p]
      /\ \A i \in 1..n : i # p /\ i # w => s[i] = h[i]
    BY <1>2, SwapIs, SMTT(30)
<1>4. Better(h[p], h[w])
    BY DEF Worse
<1>5. /\ \A i \in 2..n : i \div 2 # p => Better(h[i], h[i \div 2])
      /\ p > 1 => \A i \in 2..n : i \div 2 = p => Better(h[i], h[p \div 2])
    BY DEF DownFrom
<1>6. \A x \in 2..n : x \div 2 = p => x = w \/ Better(h[x], h[w])
    BY DEF Worse
<1> HIDE DEF s
<1>7. ASSUME NEW i \in 2..n, i \div 2 # w
      PROVE  Better(s[i], s[i \div 2])
    <2>1. i \in 1..n /\ i \in Nat /\ i \div 2 \in 1..n /\ i \div 2 < i
        BY <1>1, HalfIs
    <2>2. CASE i = w
        BY <1>3, <1>4, <2>2
    <2>3. CASE i = p
        <3>1. p > 1
            BY <1>2, <2>3
        <3>2. Better(h[w], h[p \div 2])
            BY <1>5, <3>1
        <3>3. s[i] = h[w] /\ s[i \div 2] = h[p \div 2]
            BY <1>2, <1>3, <1>7, <2>1, <2>3
        <3> QED
            BY <3>2, <3>3
    <2>4. CASE i # w /\ i # p /\ i \div 2 = p
        <3>1. s[i] = h[i] /\ s[i \div 2] = h[w]
            BY <1>3, <2>1, <2>4
        <3> QED
            BY <1>6, <2>4, <3>1
    <2>5. CASE i # w /\ i # p /\ i \div 2 # p
        <3>1. s[i] = h[i] /\ s[i \div 2] = h[i \div 2]
            BY <1>3, <1>7, <2>1, <2>5
        <3> QED
            BY <1>5, <2>5, <3>1
    <2> QED
        BY <2>2, <2>3, <2>4, <2>5
<1>8. ASSUME NEW i \in 2..n, i \div 2 = w
      PROVE  Better(s[i], s[w \div 2])
    <2>1. i \in 1..n /\ i \in Nat /\ i \div 2 < i
        BY <1>1, HalfIs
    <2>2. s[i] = h[i] /\ s[w \div 2] = h[w]
        BY <1>2, <1>3, <1>8, <2>1
    <2>3. Better(h[i], h[w])
        BY <1>2, <1>5, <1>8
    <2> QED
        BY <2>2, <2>3
<1>9. DownFrom(s, w)
    BY <1>3, <1>7, <1>8 DEF DownFrom
<1> QED
    BY <1>9 DEF s

\* Where siftDown() stops the heap is in order.
LEMMA SunkIsHeap ==
    ASSUME NEW h, NEW p, DownFrom(h, p),
           \A x \in 2..Len(h) : x \div 2 = p => Worse(h[p], h[x])
    PROVE  InHeap(h)
BY DEF DownFrom, InHeap, Worse

\* The worst of a candidate and its children.
LEMMA WorstIs ==
    ASSUME NEW F, IsField(F), IsHeapOf(heap, F), NEW p \in 1..Len(heap)
    PROVE  \/ /\ WorstOf(p) = p
              /\ \A x \in 2..Len(heap) : x \div 2 = p => Worse(heap[p], heap[x])
           \/ /\ WorstOf(p) \in 2..Len(heap) /\ WorstOf(p) \div 2 = p /\ WorstOf(p) # p
              /\ Worse(heap[WorstOf(p)], heap[p])
              /\ \A x \in 2..Len(heap) :
                    x \div 2 = p => x = WorstOf(p) \/ Worse(heap[WorstOf(p)], heap[x])
<1> DEFINE n == Len(heap)
           P == {p, 2 * p, 2 * p + 1} \cap DOMAIN heap
           Q(v) == \A x \in P : x = v \/ Worse(heap[v], heap[x])
           w == WorstOf(p)
<1>1. /\ n \in Nat /\ DOMAIN heap = 1..n /\ \A i \in 1..n : heap[i] \in F
      /\ \A i, j \in 1..n : heap[i] = heap[j] => i = j
    BY DEF IsHeapOf
<1>2. p \in P /\ P \subseteq 1..n /\ p \in Nat
    BY <1>1
<1>3. \A x \in P : heap[x] \in F
    BY <1>1, <1>2
<1>4. \A x, y \in P : x = y \/ Worse(heap[x], heap[y]) \/ Worse(heap[y], heap[x])
    BY <1>1, <1>2, BetterOrders DEF Worse
<1>5. \A x, y, z \in P : Worse(heap[x], heap[y]) /\ Worse(heap[y], heap[z])
                          => Worse(heap[x], heap[z])
    <2> HIDE DEF P
    <2> QED
        BY <1>3, BetterOrders DEF Worse
<1>6. \E v \in P : Q(v)
    BY <1>2, <1>4, <1>5
<1>7. w \in P /\ Q(w)
    BY <1>6 DEF WorstOf
<1>8. \A x \in 2..n : x \div 2 = p => x \in P
    <2> TAKE x \in 2..n
    <2>1. x = 2 * (x \div 2) \/ x = 2 * (x \div 2) + 1
        BY <1>1, HalfIs
    <2> QED
        BY <1>1, <2>1
<1>9. w # p => w \in 2..n /\ w \div 2 = p
    <2>1. w = p \/ w = 2 * p \/ w = 2 * p + 1
        BY <1>7
    <2>2. w \in 1..n
        BY <1>2, <1>7
    <2>3. (2 * p) \div 2 = p /\ (2 * p + 1) \div 2 = p /\ 2 * p >= 2
        BY <1>2
    <2> HIDE DEF w
    <2> QED
        BY <1>1, <1>2, <2>1, <2>2, <2>3
<1> HIDE DEF P, w
<1>10. CASE w = p
    <2>1. \A x \in 2..n : x \div 2 = p => Worse(heap[p], heap[x])
        <3> SUFFICES ASSUME NEW x \in 2..n, x \div 2 = p PROVE Worse(heap[p], heap[x])
            OBVIOUS
        <3>1. x \in P /\ x # p
            BY <1>1, <1>8, HalfIs
        <3> QED
            BY <1>7, <1>10, <3>1
    <2> QED
        BY <1>10, <2>1 DEF w
<1>11. CASE w # p
    <2>1. Worse(heap[w], heap[p])
        BY <1>2, <1>7, <1>11
    <2>2. \A x \in 2..n : x \div 2 = p => x = w \/ Worse(heap[w], heap[x])
        BY <1>7, <1>8
    <2> QED
        BY <1>9, <1>11, <2>1, <2>2 DEF w
<1> QED
    BY <1>10, <1>11

-----------------------------------------------------------------------------
(* The invariant of the generators' loops.                                 *)

\* The stages of a profile's loops, and of a payout's.
Walking == {"offer", "up", "down"}
Generating == Walking \cup {"beam", "no portfolio"}
Drawing == {"sample", "batch", "too few samples", "no cap"}

\* The core of a request that is sound, while it is picked.
CoreSuits ==
    /\ rankCore \in SUBSET Balls /\ rankAsk.manual \subseteq rankCore
    /\ rankCore \cap rankAsk.excluded = {}
    /\ Cardinality(rankCore) <= rankAsk.core

ProfileCore == CoreSuits /\ RepeatsIn(rankCore) <= RepeatLimit

CoreInv ==
    /\ rankCore \subseteq Balls \cup rankAsk.manual
    /\ rankStage = "core" /\ rankAsk.purpose = "profile" /\ AskIsSound /\ CoreIsSound
          => ProfileCore
    /\ rankStage = "no core" => CoreSuits
    /\ rankStage \in Generating =>
          /\ rankAsk.purpose = "profile" /\ AskIsSound
          /\ ProfileCore /\ Cardinality(rankCore) = rankAsk.core
    /\ rankStage \in Drawing =>
          /\ rankAsk.purpose = "payout" /\ CoreSuits
          /\ Cardinality(rankCore) = rankAsk.core /\ rankAsk.core <= BallsDrawn

PoolInv ==
    /\ rankPool \in SUBSET Balls
    /\ rankStage \in Generating =>
          /\ rankPool \subseteq Available
          /\ ~(rankAsk.core = 0 /\ rankAsk.rules # {}) => Cardinality(rankPool) = PlannedPool

Seen == {Offers[i] : i \in 1..offered}

\* H are the best limit of seen.
BestOf(H, seen, limit) ==
    /\ H \subseteq seen /\ Cardinality(H) <= limit
    /\ H # seen => /\ Cardinality(H) = limit
                   /\ \A c \in H, d \in seen \ H : Better(c, d)

HeapInv ==
    /\ offered \in Nat /\ (rankStage = "core" => offered = 0)
    /\ rankStage \in Walking =>
          /\ offered <= Len(Offers)
          /\ IsHeapOf(heap, Elements(Offers)) /\ BestOf(Elements(heap), Seen, HeapLimit)
    /\ rankStage = "offer" => InHeap(heap) /\ sifting = 0
    /\ rankStage = "up" => sifting \in 1..Len(heap) /\ UpFrom(heap, sifting)
    /\ rankStage = "down" => sifting \in 1..Len(heap) /\ DownFrom(heap, sifting)
    /\ rankStage \notin Walking => heap = <<>> /\ sifting = 0

\* A group: candidates that are yielded, as many as are asked when there are.
GroupFits(group) ==
    /\ IsField(Elements(group)) /\ Elements(group) \subseteq Candidate
    /\ \A c \in Elements(group) : c.numbers \in Yielded
    /\ Cardinality(Yielded) >= rankAsk.games => Cardinality(Elements(group)) >= rankAsk.games

GroupsInv ==
    /\ Len(groups) \in Nat /\ groups = [i \in 1..Len(groups) |-> groups[i]]
    /\ rankStage \notin Generating \cup {"done"} => groups = <<>>
    /\ rankStage \in Generating => \A i \in 1..Len(groups) : GroupFits(groups[i])
    /\ rankStage \in Walking => Len(groups) < rankAsk.games
    /\ rankStage \in {"beam", "no portfolio"} => Len(groups) = rankAsk.games
    /\ \A i \in 1..Len(groups) : Elements(groups[i]) \subseteq Candidate

\* A partial portfolio: one candidate of each of the first k groups.
StateFits(state, k) ==
    /\ state = [games |-> state.games, score |-> state.score] /\ state.score \in Int
    /\ state.games \in Seq(Candidate) /\ Len(state.games) = k
    /\ \A i \in 1..k : state.games[i] \in Elements(groups[i])
    /\ \A i, j \in 1..k : state.games[i].numbers = state.games[j].numbers => i = j

BeamInv ==
    /\ Len(beam) \in Nat /\ beam = [i \in 1..Len(beam) |-> beam[i]]
    /\ \A i \in 1..Len(beam) : Elements(beam[i].games) \subseteq Candidate /\ beam[i].score \in Int
    /\ rankStage = "beam" =>
          /\ Len(beam) >= 1
          /\ \E k \in 0..rankAsk.games : \A i \in 1..Len(beam) : StateFits(beam[i], k)

\* A game of the batch.
GameFits(g) ==
    /\ g \in SUBSET Balls /\ Cardinality(g) = BallsDrawn
    /\ rankCore \subseteq g /\ g \cap rankAsk.excluded = {} /\ MeetsConstraints(g)

BatchFits ==
    /\ \A i \in 1..Len(rankBatch) : GameFits(rankBatch[i])
    /\ \A i, j \in 1..Len(rankBatch) : rankBatch[i] = rankBatch[j] => i = j
    /\ rankAsk.purpose = "payout" =>
          \A i, j \in 1..Len(rankBatch) : i # j => Shared(rankBatch[i], rankBatch[j]) <= rankCap

SampledInv ==
    /\ sampled \in SUBSET (SUBSET Balls) /\ IsFiniteSet(sampled)
    /\ rankCap \in 0..Max({LowCap, MidCap, HighCap, BallsDrawn})
    /\ rankStage = "batch" =>
          /\ Cardinality(sampled) >= rankAsk.games
          /\ \A g \in sampled : GameFits(g)
          /\ \A i \in 1..Len(rankBatch) : rankBatch[i] \in sampled

BatchInv ==
    /\ rankBatch \in Seq(SUBSET Balls)
    /\ rankStage \notin {"batch", "done", "no cap"} => rankBatch = <<>>
    /\ rankStage = "batch" => Len(rankBatch) <= rankAsk.games /\ BatchFits
    /\ rankStage = "done" =>
          /\ Len(rankBatch) = rankAsk.games /\ BatchFits
          /\ Cardinality(rankCore) = rankAsk.core /\ CoreSuits
          /\ rankAsk.purpose = "profile" => RepeatsIn(rankCore) <= RepeatLimit

RankingInv ==
    /\ rankAsk \in RankAsks
    /\ rankStage \in {"core", "offer", "up", "down", "beam", "sample", "batch"} \cup Ends
    /\ rankStage = "no portfolio" => Cardinality(Yielded) < rankAsk.games
    /\ rankStage # "no cap"
    /\ CoreInv /\ PoolInv /\ HeapInv /\ GroupsInv /\ BeamInv /\ SampledInv /\ BatchInv

-----------------------------------------------------------------------------
(* What the heap keeps of what it has seen.                                *)

\* One more candidate.
LEMMA OneMoreSeen ==
    ASSUME NEW S, IsFiniteSet(S), NEW x, x \notin S
    PROVE  IsFiniteSet(S \cup {x}) /\ Cardinality(S \cup {x}) = Cardinality(S) + 1
           /\ Cardinality(S) \in Nat
BY FS_AddElement, FS_CardinalityType

\* The best of what was seen are those that fewer than the limit beat.
LEMMA BestAreKept ==
    ASSUME NEW seen, IsField(seen), NEW H, NEW limit \in Nat, BestOf(H, seen, limit),
           NEW c \in seen
    PROVE  c \in H <=> Cardinality({d \in seen : Better(d, c)}) < limit
<1> DEFINE D == {d \in seen : Better(d, c)}
<1>1. IsFiniteSet(seen) /\ H \subseteq seen /\ Cardinality(H) <= limit
    BY DEF IsField, BestOf
<1>2. IsFiniteSet(H) /\ IsFiniteSet(D)
    BY <1>1, FS_Subset
<1>3. Cardinality(H) \in Nat /\ Cardinality(D) \in Nat
    BY <1>2, FS_CardinalityType
<1>4. ASSUME c \in H
      PROVE  Cardinality(D) < limit
    <2>1. D \subseteq H \ {c}
        <3>1. ASSUME NEW d \in D
              PROVE  d \in H /\ d # c
            <4>1. d \in seen /\ Better(d, c)
                OBVIOUS
            <4>2. d # c /\ ~Better(c, d)
                BY <4>1, BetterOrders
            <4>3. ASSUME d \notin H PROVE FALSE
                <5>1. H # seen /\ d \in seen \ H
                    BY <4>1, <4>3
                <5>2. Better(c, d)
                    BY <1>4, <5>1 DEF BestOf
                <5> QED
                    BY <4>2, <5>2
            <4> QED
                BY <4>2, <4>3
        <3> QED
            BY <3>1
    <2>2. Cardinality(H \ {c}) = Cardinality(H) - 1 /\ IsFiniteSet(H \ {c})
        BY <1>2, <1>4, FS_RemoveElement
    <2>3. Cardinality(D) <= Cardinality(H \ {c})
        BY <2>1, <2>2, FS_Subset
    <2> HIDE DEF D
    <2> QED
        BY <1>1, <1>3, <2>2, <2>3
<1>5. ASSUME c \notin H
      PROVE  ~(Cardinality(D) < limit)
    <2>1. H # seen
        BY <1>5
    <2>2. Cardinality(H) = limit /\ \A b \in H : Better(b, c)
        BY <1>5, <2>1 DEF BestOf
    <2>3. H \subseteq D
        BY <1>1, <2>2
    <2>4. Cardinality(H) <= Cardinality(D)
        BY <1>2, <2>3, FS_Subset
    <2> HIDE DEF D
    <2> QED
        BY <1>3, <2>2, <2>4
<1> QED
    BY <1>4, <1>5

\* A heap that is not full takes what it is offered.
LEMMA PushKeepsBest ==
    ASSUME NEW seen, IsFiniteSet(seen), NEW H, NEW limit \in Nat, BestOf(H, seen, limit),
           Cardinality(H) < limit, NEW x, x \notin seen
    PROVE  BestOf(H \cup {x}, seen \cup {x}, limit)
<1>1. H = seen
    <2>1. IsFiniteSet(H)
        BY FS_Subset DEF BestOf
    <2>2. Cardinality(H) \in Nat
        BY <2>1, FS_CardinalityType
    <2> QED
        BY <2>2 DEF BestOf
<1>2. Cardinality(H \cup {x}) = Cardinality(H) + 1 /\ Cardinality(H) \in Nat
    BY <1>1, OneMoreSeen
<1>3. Cardinality(H \cup {x}) <= limit
    BY <1>2
<1> QED
    BY <1>1, <1>3 DEF BestOf

\* A full heap gives its worst for what beats it.
LEMMA ReplaceKeepsBest ==
    ASSUME NEW F, IsField(F), NEW seen \in SUBSET F, NEW H, NEW limit \in Nat,
           BestOf(H, seen, limit), Cardinality(H) = limit,
           NEW w \in H, \A c \in H : c = w \/ Better(c, w),
           NEW x \in F, x \notin seen, Better(x, w)
    PROVE  BestOf((H \ {w}) \cup {x}, seen \cup {x}, limit)
<1> DEFINE K == (H \ {w}) \cup {x}
<1>1. H \subseteq seen /\ IsFiniteSet(seen) /\ IsFiniteSet(H)
    <2>1. H \subseteq seen /\ IsFiniteSet(seen)
        BY FS_Subset DEF BestOf, IsField
    <2> QED
        BY <2>1, FS_Subset
<1>2. IsFiniteSet(H \ {w}) /\ Cardinality(H \ {w}) = limit - 1
    BY <1>1, FS_RemoveElement
<1>3. Cardinality(K) = limit
    <2>1. x \notin H \ {w}
        BY <1>1
    <2>2. Cardinality(K) = Cardinality(H \ {w}) + 1
        BY <1>2, <2>1, OneMoreSeen
    <2> HIDE DEF K
    <2> QED
        BY <1>2, <2>2
<1>4. ASSUME NEW c \in K, NEW d \in (seen \cup {x}) \ K
      PROVE  Better(c, d)
    <2>1. d \in seen /\ d \in F /\ w \in F /\ c \in F /\ (d = w \/ d \notin H)
        BY <1>1
    <2>2. c = x \/ (c \in H /\ c # w)
        OBVIOUS
    <2>3. Better(c, w)
        BY <2>2
    <2>4. CASE d = w
        BY <2>3, <2>4
    <2>5. CASE d \notin H
        <3>1. Better(w, d)
            BY <2>1, <2>5 DEF BestOf
        <3> QED
            BY <2>1, <2>3, <3>1, BetterOrders
    <2> QED
        BY <2>1, <2>4, <2>5
<1>5. K \subseteq seen \cup {x}
    BY <1>1
<1> HIDE DEF K
<1>6. BestOf(K, seen \cup {x}, limit)
    BY <1>3, <1>4, <1>5 DEF BestOf
<1> QED
    BY <1>6 DEF K

\* A full heap leaves what its worst beats.
LEMMA SkipKeepsBest ==
    ASSUME NEW F, IsField(F), NEW seen \in SUBSET F, NEW H, NEW limit \in Nat,
           BestOf(H, seen, limit), Cardinality(H) = limit,
           NEW w \in H, \A c \in H : c = w \/ Better(c, w),
           NEW x \in F, x \notin seen, ~Better(x, w)
    PROVE  BestOf(H, seen \cup {x}, limit)
<1>1. H \subseteq seen
    BY DEF BestOf
<1>2. x # w /\ w \in F
    BY <1>1
<1>3. Better(w, x)
    BY <1>2, BetterOrders
<1>4. ASSUME NEW c \in H, NEW d \in (seen \cup {x}) \ H
      PROVE  Better(c, d)
    <2>1. CASE d = x
        <3>1. c \in F
            BY <1>1
        <3> QED
            BY <1>2, <1>3, <2>1, <3>1, BetterOrders
    <2>2. CASE d # x
        BY <2>2 DEF BestOf
    <2> QED
        BY <2>1, <2>2
<1> QED
    BY <1>1, <1>4 DEF BestOf

-----------------------------------------------------------------------------
(* What a step leaves as it is.                                            *)

\* The games that are yielded are those of the request, the core and the pool.
LEMMA SameYielded ==
    ASSUME UNCHANGED <<rankAsk, rankCore, rankPool>>
    PROVE  Yielded' = Yielded
BY DEF Yielded, Walk, Yields, MegaSenaYields, LotofacilYields, DiaDeSorteYields, MatchesRules,
       MeetsConstraints, OddIn, RepeatsIn

\* Their ranks depend on the group as well.
LEMMA SameOffers ==
    ASSUME UNCHANGED <<rankAsk, rankCore, rankPool, groups>>
    PROVE  Offers' = Offers
BY SameYielded DEF Offers, RankOf, MegaSenaRank, LotofacilRank, DiaDeSorteRank, Total, ScoreOf,
       Distance, RepeatsIn, TargetOdd, TargetRepeat, Target, GroupOf

\* The core, the pool and the limits are read from the request and the core.
LEMMA SameCore ==
    ASSUME UNCHANGED <<rankAsk, rankCore>>
    PROVE  /\ CoreSuits' = CoreSuits /\ ProfileCore' = ProfileCore /\ Available' = Available
           /\ AskIsSound' = AskIsSound /\ CoreIsSound' = CoreIsSound /\ RepeatLimit' = RepeatLimit
           /\ \A g : GameFits(g)' = GameFits(g)
           /\ PlannedPool' = PlannedPool /\ HeapLimit' = HeapLimit
BY DEF CoreSuits, ProfileCore, Available, AskIsSound, CoreIsSound, RepeatLimit, RepeatsIn,
       GameFits, MeetsConstraints, OddIn, PlannedPool, HeapLimit

\* What a group must be depends on the request, the core and the pool.
LEMMA SameGroup ==
    ASSUME UNCHANGED <<rankAsk, rankCore, rankPool>>, NEW group
    PROVE  GroupFits(group)' = GroupFits(group)
BY SameYielded DEF GroupFits

\* The invariant of one loop is kept by the steps of another.
LEMMA SameBeam ==
    ASSUME BeamInv, UNCHANGED <<rankAsk, groups, beam>>,
           rankStage' = "beam" => rankStage = "beam"
    PROVE  BeamInv'
<1>1. beam' = beam /\ rankAsk' = rankAsk
    OBVIOUS
<1>2. CASE rankStage' = "beam"
    <2>1. PICK k \in 0..rankAsk.games : \A i \in 1..Len(beam) : StateFits(beam[i], k)
        BY <1>2 DEF BeamInv
    <2>2. \A i \in 1..Len(beam') : StateFits(beam[i], k)'
        BY <1>1, <2>1 DEF StateFits
    <2> QED
        BY <1>1, <1>2, <2>1, <2>2 DEF BeamInv
<1>3. CASE rankStage' # "beam"
    BY <1>1, <1>3 DEF BeamInv
<1> QED
    BY <1>2, <1>3

\* The groups stay as they are when nothing they depend on changes.
LEMMA SameGroups ==
    ASSUME GroupsInv, UNCHANGED <<rankAsk, rankCore, rankPool, groups>>,
           \/ rankStage \in Walking /\ rankStage' \in Walking
           \/ rankStage = "beam" /\ rankStage' \in {"beam", "no portfolio", "done"}
           \/ rankStage \notin Generating /\ rankStage' \notin Generating /\ rankStage # "done"
    PROVE  GroupsInv'
<1>1. \A group : GroupFits(group)' = GroupFits(group)
    BY SameGroup
<1> QED
    BY <1>1 DEF GroupsInv, Walking, Generating

\* The sampled games stay as they are outside the batch.
LEMMA SameSampled ==
    ASSUME SampledInv, UNCHANGED <<sampled, rankCap>>,
           rankStage' # "batch"
    PROVE  SampledInv'
BY DEF SampledInv

\* The batch stays empty until it is chosen.
LEMMA SameBatch ==
    ASSUME BatchInv, UNCHANGED rankBatch,
           rankStage \notin {"batch", "done", "no cap"}, rankStage' \notin {"batch", "done"}
    PROVE  BatchInv'
BY DEF BatchInv

\* The heap stays empty outside the walk.
LEMMA SameHeap ==
    ASSUME HeapInv, UNCHANGED <<offered, heap, sifting>>,
           rankStage \notin Walking, rankStage' \notin Walking,
           rankStage' = "core" => rankStage = "core"
    PROVE  HeapInv'
BY DEF HeapInv, Walking

\* The steps of the heap leave the rest alone.
LEMMA WalkingFrame ==
    ASSUME RankingInv, rankStage \in Walking, rankStage' \in Walking, HeapInv',
           UNCHANGED <<rankAsk, rankCore, rankPool, groups, beam, sampled, rankCap, rankBatch>>
    PROVE  RankingInv'
<1>1. CoreInv'
    <2>1. CoreSuits' = CoreSuits /\ ProfileCore' = ProfileCore /\ AskIsSound' = AskIsSound
        BY SameCore
    <2> QED
        BY <2>1 DEF RankingInv, CoreInv, Walking, Generating, Drawing
<1>2. PoolInv'
    <2>1. Available' = Available /\ PlannedPool' = PlannedPool
        BY SameCore
    <2> QED
        BY <2>1 DEF RankingInv, PoolInv, Walking, Generating
<1>3. GroupsInv' /\ BeamInv'
    BY SameGroups, SameBeam DEF RankingInv, Walking
<1>4. SampledInv' /\ BatchInv'
    BY SameSampled, SameBatch DEF RankingInv, Walking
<1> QED
    BY <1>1, <1>2, <1>3, <1>4 DEF RankingInv, Walking

-----------------------------------------------------------------------------
(* The heap of a group: topRankedCandidates (shared.ts).                   *)

\* From the pool on, the offers are well formed.
LEMMA OffersHold ==
    ASSUME RankingInv, rankStage \in Generating
    PROVE  OffersOk
<1>1. rankCore \in SUBSET Balls
    BY DEF RankingInv, CoreInv, ProfileCore, CoreSuits
<1>2. rankPool \in SUBSET Balls /\ rankCore \cap rankPool = {}
    BY DEF RankingInv, PoolInv, Available
<1>3. rankAsk \in RankAsks /\ Len(groups) \in Nat
    BY DEF RankingInv, GroupsInv
<1> QED
    BY <1>1, <1>2, <1>3, OffersAre

\* The heap holds at least a shortlist.
LEMMA LimitIs ==
    ASSUME rankAsk \in RankAsks
    PROVE  HeapLimit \in Nat \ {0} /\ HeapLimit >= ShortlistLimit
<1>1. /\ ShortlistLimit \in Nat \ {0}
      /\ ExplorationLimit \in Nat /\ ExplorationLimit >= ShortlistLimit
    BY RankingAssumption DEF RankingAssumption
<1> QED
    BY <1>1 DEF HeapLimit

\* The candidates of a heap are as many as its places.
LEMMA HeapSize ==
    ASSUME NEW F, NEW h, IsHeapOf(h, F)
    PROVE  /\ Cardinality(Elements(h)) = Len(h) /\ IsFiniteSet(Elements(h))
           /\ Elements(h) = {h[i] : i \in 1..Len(h)} /\ Elements(h) \subseteq F
<1> DEFINE n == Len(h)
           f == [i \in 1..n |-> h[i]]
<1>1. /\ n \in Nat /\ DOMAIN h = 1..n
      /\ \A i \in 1..n : h[i] \in F
      /\ \A i, j \in 1..n : h[i] = h[j] => i = j
    BY DEF IsHeapOf
<1>2. Elements(h) = {h[i] : i \in 1..n}
    BY <1>1 DEF Elements
<1>3. f \in Bijection(1..n, Elements(h))
    BY <1>1, <1>2 DEF Bijection, Injection, IsInjective, Surjection
<1>4. IsFiniteSet(1..n) /\ Cardinality(1..n) = n
    BY <1>1, ListedNumbers
<1> HIDE DEF f, n
<1>5. ExistsBijection(1..n, Elements(h))
    BY <1>3 DEF ExistsBijection
<1>6. IsFiniteSet(Elements(h)) /\ Cardinality(Elements(h)) = Cardinality(1..n)
    BY <1>4, <1>5, FS_Bijection
<1> QED
    BY <1>1, <1>2, <1>4, <1>6 DEF n

\* One more is offered.
LEMMA SeenGrows ==
    ASSUME OffersOk, offered \in Nat, offered < Len(Offers), offered' = offered + 1,
           UNCHANGED <<rankAsk, rankCore, rankPool, groups>>
    PROVE  /\ Seen' = Seen \cup {Offers[offered + 1]} /\ Offers[offered + 1] \notin Seen
           /\ Seen \in SUBSET Elements(Offers) /\ IsFiniteSet(Seen)
           /\ Offers[offered + 1] \in Elements(Offers)
<1>1. Offers' = Offers
    BY SameOffers
<1>2. Len(Offers) \in Nat /\ DOMAIN Offers = 1..Len(Offers)
      /\ (\A i, j \in 1..Len(Offers) : Offers[i] = Offers[j] => i = j)
      /\ \A i \in 1..Len(Offers) : Offers[i] \in Elements(Offers)
    BY DEF OffersOk
<1> DEFINE next == offered + 1
<1>3. next \in 1..Len(Offers) /\ 1..next = 1..offered \cup {next} /\ next \notin 1..offered
      /\ 1..offered \subseteq 1..Len(Offers)
    BY <1>2
<1>4. Seen' = {Offers[i] : i \in 1..next}
    BY <1>1 DEF Seen
<1> HIDE DEF next
<1>5. Seen' = Seen \cup {Offers[next]}
    BY <1>3, <1>4 DEF Seen
<1>6. Offers[next] \notin Seen
    BY <1>2, <1>3 DEF Seen
<1>7. Seen \in SUBSET Elements(Offers)
    BY <1>2, <1>3 DEF Seen
<1>8. IsFiniteSet(Seen)
    BY <1>7, FS_Subset DEF OffersOk, IsField
<1> QED
    BY <1>2, <1>3, <1>5, <1>6, <1>7, <1>8 DEF next

\* push() puts a candidate at the end of a heap, from where it rises.
LEMMA PushedIs ==
    ASSUME NEW F, NEW h, IsHeapOf(h, F), InHeap(h), NEW x \in F, x \notin Elements(h)
    PROVE  /\ IsHeapOf(Append(h, x), F) /\ Len(Append(h, x)) = Len(h) + 1
           /\ Elements(Append(h, x)) = Elements(h) \cup {x}
           /\ UpFrom(Append(h, x), Len(h) + 1)
<1> DEFINE n == Len(h)
           s == Append(h, x)
<1>1. h \in Seq(F) /\ n \in Nat /\ DOMAIN h = 1..n /\ (\A i \in 1..n : h[i] \in F)
      /\ \A i, j \in 1..n : h[i] = h[j] => i = j
    BY DEF IsHeapOf
<1>2. s \in Seq(F) /\ Len(s) = n + 1 /\ DOMAIN s = 1..(n + 1) /\ s[n + 1] = x
      /\ \A i \in 1..n : s[i] = h[i]
    BY <1>1
<1> HIDE DEF s
<1>3. Elements(h) = {h[i] : i \in 1..n} /\ Elements(s) = {s[i] : i \in 1..(n + 1)}
    BY <1>1, <1>2 DEF Elements
<1>4. 1..(n + 1) = 1..n \cup {n + 1} /\ n + 1 \notin 1..n
    BY <1>1
<1>5. Elements(s) = Elements(h) \cup {x}
    BY <1>2, <1>3, <1>4
<1>6. \A i \in 1..n : h[i] # x
    BY <1>3
<1>7. \A i, j \in 1..(n + 1) : s[i] = s[j] => i = j
    BY <1>1, <1>2, <1>4, <1>6
<1>8. IsHeapOf(s, F)
    <2>1. \A i \in 1..(n + 1) : s[i] \in F
        BY <1>1, <1>2, <1>4
    <2> QED
        BY <1>1, <1>2, <1>7, <2>1 DEF IsHeapOf
<1>9. UpFrom(s, n + 1)
    <2>1. ASSUME NEW i \in 2..(n + 1), i # n + 1
          PROVE  Better(s[i], s[i \div 2])
        <3>1. i \in 2..n /\ i \in 1..n
            BY <1>1, <2>1
        <3>2. i \div 2 \in 1..n
            BY <1>1, <3>1, HalfIs
        <3> QED
            BY <1>2, <3>1, <3>2 DEF InHeap
    <2>2. ASSUME NEW i \in 2..(n + 1), i \div 2 = n + 1
          PROVE  FALSE
        <3>1. i \div 2 < i
            BY <1>1, HalfIs
        <3> QED
            BY <1>1, <2>2, <3>1
    <2> QED
        BY <1>1, <1>2, <2>1, <2>2 DEF UpFrom
<1> QED
    BY <1>2, <1>5, <1>8, <1>9 DEF s

\* A candidate takes the place of the root, from where it sinks.
LEMMA ReplacedIs ==
    ASSUME NEW F, NEW h, IsHeapOf(h, F), InHeap(h), Len(h) >= 1,
           NEW x \in F, x \notin Elements(h)
    PROVE  /\ IsHeapOf([h EXCEPT ![1] = x], F) /\ Len([h EXCEPT ![1] = x]) = Len(h)
           /\ Elements([h EXCEPT ![1] = x]) = (Elements(h) \ {h[1]}) \cup {x}
           /\ DownFrom([h EXCEPT ![1] = x], 1)
<1> DEFINE n == Len(h)
           s == [h EXCEPT ![1] = x]
<1>1. h \in Seq(F) /\ n \in Nat /\ DOMAIN h = 1..n /\ (\A i \in 1..n : h[i] \in F)
      /\ \A i, j \in 1..n : h[i] = h[j] => i = j
    BY DEF IsHeapOf
<1>2. s \in Seq(F) /\ Len(s) = n /\ DOMAIN s = 1..n /\ s[1] = x /\ 1 \in 1..n
      /\ \A i \in 1..n : i # 1 => s[i] = h[i]
    BY <1>1
<1> HIDE DEF s
<1>3. Elements(h) = {h[i] : i \in 1..n} /\ Elements(s) = {s[i] : i \in 1..n}
    BY <1>1, <1>2 DEF Elements
<1>4. \A i \in 1..n : h[i] # x
    BY <1>3
<1>5. Elements(s) = (Elements(h) \ {h[1]}) \cup {x}
    <2>1. ASSUME NEW c \in Elements(s) PROVE c \in (Elements(h) \ {h[1]}) \cup {x}
        <3>1. PICK i \in 1..n : c = s[i]
            BY <1>3
        <3>2. CASE i = 1
            BY <1>2, <3>1, <3>2
        <3>3. CASE i # 1
            <4>1. c = h[i] /\ h[i] # h[1]
                BY <1>1, <1>2, <3>1, <3>3
            <4> QED
                BY <1>3, <4>1
        <3> QED
            BY <3>2, <3>3
    <2>2. ASSUME NEW c \in Elements(h), c # h[1] PROVE c \in Elements(s)
        <3>1. PICK i \in 1..n : c = h[i]
            BY <1>3
        <3>2. i # 1 /\ c = s[i]
            BY <1>2, <2>2, <3>1
        <3> QED
            BY <1>3, <3>2
    <2>3. x \in Elements(s)
        BY <1>2, <1>3
    <2> QED
        BY <2>1, <2>2, <2>3
<1>6. \A i, j \in 1..n : s[i] = s[j] => i = j
    BY <1>1, <1>2, <1>4
<1>7. IsHeapOf(s, F)
    <2>1. \A i \in 1..n : s[i] \in F
        BY <1>1, <1>2
    <2> QED
        BY <1>1, <1>2, <1>6, <2>1 DEF IsHeapOf
<1>8. DownFrom(s, 1)
    <2>1. ASSUME NEW i \in 2..n, i \div 2 # 1
          PROVE  Better(s[i], s[i \div 2])
        <3>1. i \in 1..n /\ i # 1 /\ i \div 2 \in 1..n
            BY <1>1, HalfIs
        <3> QED
            BY <1>2, <2>1, <3>1 DEF InHeap
    <2>2. \A i \in 2..Len(s) : i \div 2 # 1 => Better(s[i], s[i \div 2])
        BY <1>2, <2>1
    <2> QED
        BY <2>2 DEF DownFrom
<1> QED
    BY <1>2, <1>5, <1>7, <1>8 DEF s

\* The heap takes a candidate.
LEMMA PushStep ==
    ASSUME RankingInv, PushCandidate
    PROVE  RankingInv'
<1> DEFINE F == Elements(Offers)
           x == Offers[offered + 1]
<1>1. /\ rankStage = "offer" /\ offered < Len(Offers) /\ Len(heap) < HeapLimit
      /\ heap' = Append(heap, x) /\ offered' = offered + 1 /\ sifting' = Len(heap) + 1
      /\ rankStage' = "up"
      /\ UNCHANGED <<rankAsk, rankCore, rankPool, groups, beam, sampled, rankCap, rankBatch>>
    BY DEF PushCandidate
<1>2. OffersOk /\ rankAsk \in RankAsks
    BY <1>1, OffersHold DEF Generating, Walking, RankingInv
<1>3. /\ offered \in Nat /\ IsHeapOf(heap, F) /\ BestOf(Elements(heap), Seen, HeapLimit)
      /\ InHeap(heap)
    BY <1>1 DEF RankingInv, HeapInv, Walking
<1>4. /\ Seen' = Seen \cup {x} /\ x \notin Seen /\ Seen \in SUBSET F /\ IsFiniteSet(Seen)
      /\ x \in F
    BY <1>1, <1>2, <1>3, SeenGrows
<1>5. Offers' = Offers /\ HeapLimit' = HeapLimit
    BY <1>1, SameOffers, SameCore
<1>6. Len(Offers) \in Nat
    BY <1>2 DEF OffersOk
<1> HIDE DEF x
<1>7. x \notin Elements(heap)
    BY <1>3, <1>4 DEF BestOf
<1>8. /\ IsHeapOf(heap', F) /\ Len(heap') = Len(heap) + 1 /\ UpFrom(heap', sifting')
      /\ Elements(heap') = Elements(heap) \cup {x}
    BY <1>1, <1>3, <1>4, <1>7, PushedIs
<1>9. BestOf(Elements(heap'), Seen', HeapLimit)
    <2>1. Cardinality(Elements(heap)) < HeapLimit
        BY <1>1, <1>3, HeapSize
    <2>2. HeapLimit \in Nat
        BY <1>2, LimitIs
    <2> QED
        BY <1>3, <1>4, <1>8, <2>1, <2>2, PushKeepsBest
<1>10. HeapInv'
    <2>1. Elements(Offers)' = F /\ Elements(heap)' = Elements(heap')
        BY <1>5 DEF Elements
    <2>2. offered' \in Nat /\ offered' <= Len(Offers) /\ sifting' \in 1..Len(heap')
        <3>1. Len(heap) \in Nat
            BY <1>3 DEF IsHeapOf
        <3> QED
            BY <1>1, <1>3, <1>6, <1>8, <3>1
    <2>3. IsHeapOf(heap, Elements(Offers))' /\ BestOf(Elements(heap), Seen, HeapLimit)'
        BY <1>5, <1>8, <1>9, <2>1 DEF IsHeapOf, BestOf
    <2>4. UpFrom(heap, sifting)'
        BY <1>8 DEF UpFrom
    <2> QED
        BY <1>1, <1>5, <2>2, <2>3, <2>4 DEF HeapInv, Walking
<1> QED
    BY <1>1, <1>10, WalkingFrame DEF Walking

\* A heap of candidates that holds the best of what was seen.
Kept ==
    /\ offered \in Nat /\ offered <= Len(Offers)
    /\ IsHeapOf(heap, Elements(Offers)) /\ BestOf(Elements(heap), Seen, HeapLimit)

\* What is kept after a step, from what the step leaves.
LEMMA KeptAgain ==
    ASSUME UNCHANGED <<rankAsk, rankCore, rankPool, groups>>,
           offered' \in Nat, offered' <= Len(Offers),
           IsHeapOf(heap', Elements(Offers)), BestOf(Elements(heap'), Seen', HeapLimit)
    PROVE  Kept'
<1>1. Offers' = Offers /\ HeapLimit' = HeapLimit
    BY SameOffers, SameCore
<1>2. Elements(Offers)' = Elements(Offers) /\ Elements(heap)' = Elements(heap')
    BY <1>1 DEF Elements
<1> QED
    BY <1>1, <1>2 DEF Kept, IsHeapOf, BestOf

\* Nothing more is seen while a candidate is sifted.
LEMMA SeenAgain ==
    ASSUME UNCHANGED <<rankAsk, rankCore, rankPool, groups, offered>>
    PROVE  Seen' = Seen
BY SameOffers DEF Seen

\* What is kept while the candidates are walked.
LEMMA KeptIs ==
    ASSUME RankingInv, rankStage \in Walking
    PROVE  Kept /\ OffersOk /\ rankAsk \in RankAsks /\ HeapLimit \in Nat \ {0}
<1>1. OffersOk /\ rankAsk \in RankAsks
    BY OffersHold DEF Generating, RankingInv
<1> QED
    BY <1>1, LimitIs DEF RankingInv, HeapInv, Kept

\* siftUp().
LEMMA SiftUpStep ==
    ASSUME RankingInv, SiftUp
    PROVE  RankingInv'
<1> DEFINE F == Elements(Offers)
           parent == sifting \div 2
           rises == sifting > 1 /\ Worse(heap[sifting], heap[parent])
<1>1. /\ rankStage = "up"
      /\ heap' = IF rises THEN Swap(heap, sifting, parent) ELSE heap
      /\ sifting' = IF rises THEN parent ELSE 0
      /\ rankStage' = IF rises THEN "up" ELSE "offer"
      /\ UNCHANGED <<rankAsk, rankCore, rankPool, offered, groups, beam, sampled, rankCap,
                     rankBatch>>
    BY DEF SiftUp
<1>2. Kept /\ OffersOk
    BY <1>1, KeptIs DEF Walking
<1>3. /\ IsHeapOf(heap, F) /\ IsField(F) /\ Len(heap) \in Nat
      /\ BestOf(Elements(heap), Seen, HeapLimit)
      /\ offered \in Nat /\ offered <= Len(Offers)
    BY <1>2 DEF Kept, OffersOk, IsHeapOf
<1>4. sifting \in 1..Len(heap) /\ UpFrom(heap, sifting)
    BY <1>1 DEF RankingInv, HeapInv
<1>5. Seen' = Seen
    BY <1>1, SeenAgain
<1>6. CASE rises
    <2>1. /\ sifting \in 2..Len(heap) /\ parent \in 1..Len(heap)
          /\ parent < sifting /\ parent # sifting
        BY <1>3, <1>4, <1>6, HalfIs
    <2>2. heap' = Swap(heap, sifting, parent) /\ sifting' = parent /\ rankStage' = "up"
        BY <1>1, <1>6
    <2>3. Worse(heap[sifting], heap[parent])
        BY <1>6
    <2>4. UpFrom(heap', sifting')
        BY <1>3, <1>4, <2>1, <2>2, <2>3, RisesOn
    <2> HIDE DEF parent
    <2>5. IsHeapOf(heap', F) /\ Len(heap') = Len(heap) /\ Elements(heap') = Elements(heap)
        BY <1>3, <1>4, <2>1, <2>2, SwapIs
    <2>6. Kept'
        BY <1>1, <1>3, <1>5, <2>5, KeptAgain
    <2>7. HeapInv'
        <3>1. UpFrom(heap, sifting)'
            BY <2>4 DEF UpFrom
        <3>2. sifting' \in 1..Len(heap')
            BY <2>1, <2>2, <2>5
        <3> QED
            BY <2>2, <2>6, <3>1, <3>2 DEF Kept, HeapInv, Walking
    <2> QED
        BY <1>1, <2>2, <2>7, WalkingFrame DEF Walking
<1>7. CASE ~rises
    <2>1. heap' = heap /\ sifting' = 0 /\ rankStage' = "offer"
        BY <1>1, <1>7
    <2>2. InHeap(heap)
        BY <1>3, <1>4, <1>7, RisenIsHeap
    <2>3. Kept'
        BY <1>1, <1>3, <1>5, <2>1, KeptAgain
    <2>4. HeapInv'
        BY <2>1, <2>2, <2>3 DEF Kept, HeapInv, Walking, InHeap
    <2> QED
        BY <1>1, <2>1, <2>4, WalkingFrame DEF Walking
<1> QED
    BY <1>6, <1>7

\* siftDown().
LEMMA SiftDownStep ==
    ASSUME RankingInv, SiftDown
    PROVE  RankingInv'
<1> DEFINE F == Elements(Offers)
           worst == WorstOf(sifting)
<1>1. /\ rankStage = "down"
      /\ heap' = IF worst # sifting THEN Swap(heap, sifting, worst) ELSE heap
      /\ sifting' = IF worst # sifting THEN worst ELSE 0
      /\ rankStage' = IF worst # sifting THEN "down" ELSE "offer"
      /\ UNCHANGED <<rankAsk, rankCore, rankPool, offered, groups, beam, sampled, rankCap,
                     rankBatch>>
    BY DEF SiftDown
<1>2. Kept /\ OffersOk
    BY <1>1, KeptIs DEF Walking
<1>3. /\ IsHeapOf(heap, F) /\ IsField(F) /\ Len(heap) \in Nat
      /\ BestOf(Elements(heap), Seen, HeapLimit)
      /\ offered \in Nat /\ offered <= Len(Offers)
    BY <1>2 DEF Kept, OffersOk, IsHeapOf
<1>4. sifting \in 1..Len(heap) /\ DownFrom(heap, sifting)
    BY <1>1 DEF RankingInv, HeapInv
<1>5. Seen' = Seen
    BY <1>1, SeenAgain
<1>6. \/ /\ worst = sifting
         /\ \A x \in 2..Len(heap) : x \div 2 = sifting => Worse(heap[sifting], heap[x])
      \/ /\ worst \in 2..Len(heap) /\ worst \div 2 = sifting /\ worst # sifting
         /\ Worse(heap[worst], heap[sifting])
         /\ \A x \in 2..Len(heap) : x \div 2 = sifting => x = worst \/ Worse(heap[worst], heap[x])
    BY <1>3, <1>4, WorstIs
<1> HIDE DEF worst
<1>7. CASE worst # sifting
    <2>1. /\ worst \in 2..Len(heap) /\ worst \in 1..Len(heap) /\ worst \div 2 = sifting
          /\ Worse(heap[worst], heap[sifting])
          /\ \A x \in 2..Len(heap) : x \div 2 = sifting => x = worst \/ Worse(heap[worst], heap[x])
        BY <1>6, <1>7
    <2>2. heap' = Swap(heap, sifting, worst) /\ sifting' = worst /\ rankStage' = "down"
        BY <1>1, <1>7
    <2>3. DownFrom(heap', sifting')
        BY <1>3, <1>4, <2>1, <2>2, SinksOn
    <2>4. IsHeapOf(heap', F) /\ Len(heap') = Len(heap) /\ Elements(heap') = Elements(heap)
        BY <1>3, <1>4, <1>7, <2>1, <2>2, SwapIs
    <2>5. Kept'
        BY <1>1, <1>3, <1>5, <2>4, KeptAgain
    <2>6. HeapInv'
        <3>1. DownFrom(heap, sifting)'
            BY <2>3 DEF DownFrom
        <3>2. sifting' \in 1..Len(heap')
            BY <2>1, <2>2, <2>4
        <3> QED
            BY <2>2, <2>5, <3>1, <3>2 DEF Kept, HeapInv, Walking
    <2> QED
        BY <1>1, <2>2, <2>6, WalkingFrame DEF Walking
<1>8. CASE worst = sifting
    <2>1. heap' = heap /\ sifting' = 0 /\ rankStage' = "offer"
        BY <1>1, <1>8
    <2>2. \A x \in 2..Len(heap) : x \div 2 = sifting => Worse(heap[sifting], heap[x])
        BY <1>6, <1>8
    <2>3. InHeap(heap)
        BY <1>4, <2>2, SunkIsHeap
    <2>4. Kept'
        BY <1>1, <1>3, <1>5, <2>1, KeptAgain
    <2>5. HeapInv'
        BY <2>1, <2>3, <2>4 DEF Kept, HeapInv, Walking, InHeap
    <2> QED
        BY <1>1, <2>1, <2>5, WalkingFrame DEF Walking
<1> QED
    BY <1>7, <1>8

\* replaceWorst().
LEMMA ReplaceStep ==
    ASSUME RankingInv, ReplaceWorst
    PROVE  RankingInv'
<1> DEFINE F == Elements(Offers)
           x == Offers[offered + 1]
           wins == Better(x, heap[1])
<1>1. /\ rankStage = "offer" /\ offered < Len(Offers) /\ Len(heap) = HeapLimit
      /\ heap' = IF wins THEN [heap EXCEPT ![1] = x] ELSE heap
      /\ sifting' = IF wins THEN 1 ELSE 0
      /\ rankStage' = IF wins THEN "down" ELSE "offer"
      /\ offered' = offered + 1
      /\ UNCHANGED <<rankAsk, rankCore, rankPool, groups, beam, sampled, rankCap, rankBatch>>
    BY DEF ReplaceWorst
<1>2. Kept /\ OffersOk /\ HeapLimit \in Nat \ {0}
    BY <1>1, KeptIs DEF Walking
<1>3. /\ IsHeapOf(heap, F) /\ IsField(F) /\ Len(heap) \in Nat
      /\ BestOf(Elements(heap), Seen, HeapLimit)
      /\ offered \in Nat /\ offered <= Len(Offers) /\ Len(Offers) \in Nat
    BY <1>2 DEF Kept, OffersOk, IsHeapOf
<1>4. InHeap(heap)
    BY <1>1 DEF RankingInv, HeapInv
<1>5. /\ Seen' = Seen \cup {x} /\ x \notin Seen /\ Seen \in SUBSET F /\ x \in F
    BY <1>1, <1>2, <1>3, SeenGrows
<1>6. Cardinality(Elements(heap)) = HeapLimit /\ Elements(heap) = {heap[i] : i \in 1..Len(heap)}
    BY <1>1, <1>3, HeapSize
<1>7. 1 \in 1..Len(heap) /\ Len(heap) >= 1 /\ heap[1] \in Elements(heap)
    BY <1>1, <1>2, <1>6
<1>8. \A c \in Elements(heap) : c = heap[1] \/ Better(c, heap[1])
    <2>1. \A i \in 2..Len(heap) : Better(heap[i], heap[1])
        BY <1>3, <1>4, RootIsWorst
    <2>2. 1..Len(heap) = {1} \cup 2..Len(heap)
        BY <1>3, <1>7
    <2> QED
        BY <1>6, <2>1, <2>2
<1>9. x \notin Elements(heap)
    BY <1>3, <1>5 DEF BestOf
<1>10. offered' \in Nat /\ offered' <= Len(Offers)
    BY <1>1, <1>3
<1> HIDE DEF x, F
<1>11. CASE wins
    <2>1. heap' = [heap EXCEPT ![1] = x] /\ sifting' = 1 /\ rankStage' = "down"
        BY <1>1, <1>11
    <2>2. /\ IsHeapOf(heap', F) /\ Len(heap') = Len(heap) /\ DownFrom(heap', 1)
          /\ Elements(heap') = (Elements(heap) \ {heap[1]}) \cup {x}
        BY <1>3, <1>4, <1>5, <1>7, <1>9, <2>1, ReplacedIs
    <2>3. BestOf(Elements(heap'), Seen', HeapLimit)
        <3>1. Better(x, heap[1])
            BY <1>11
        <3>2. BestOf((Elements(heap) \ {heap[1]}) \cup {x}, Seen \cup {x}, HeapLimit)
            BY <1>2, <1>3, <1>5, <1>6, <1>7, <1>8, <3>1, ReplaceKeepsBest
        <3> QED
            BY <1>5, <2>2, <3>2
    <2>4. Kept'
        BY <1>1, <1>10, <2>2, <2>3, KeptAgain DEF F
    <2>5. HeapInv'
        <3>1. DownFrom(heap, sifting)'
            BY <2>1, <2>2 DEF DownFrom
        <3>2. sifting' \in 1..Len(heap')
            BY <1>7, <2>1, <2>2
        <3> QED
            BY <2>1, <2>4, <3>1, <3>2 DEF Kept, HeapInv, Walking
    <2> QED
        BY <1>1, <2>1, <2>5, WalkingFrame DEF Walking
<1>12. CASE ~wins
    <2>1. heap' = heap /\ sifting' = 0 /\ rankStage' = "offer"
        BY <1>1, <1>12
    <2>2. BestOf(Elements(heap), Seen', HeapLimit)
        BY <1>2, <1>3, <1>5, <1>6, <1>7, <1>8, <1>12, SkipKeepsBest
    <2>3. Kept'
        BY <1>1, <1>3, <1>10, <2>1, <2>2, KeptAgain DEF F
    <2>4. HeapInv'
        BY <1>4, <2>1, <2>3 DEF Kept, HeapInv, Walking, InHeap
    <2> QED
        BY <1>1, <2>1, <2>4, WalkingFrame DEF Walking
<1> QED
    BY <1>11, <1>12

-----------------------------------------------------------------------------
(* The groups: buildPortfolioShortlist (portfolio.ts).                     *)

\* c goes before d into a list.
Preferred(list, c, d) ==
    \/ Diverse(list, c) > Diverse(list, d)
    \/ Diverse(list, c) = Diverse(list, d) /\ Sooner(c.numbers, d.numbers)

\* One of those that are left is preferred to the others.
LEMMA WinnerIs ==
    ASSUME NEW E, IsField(E), NEW left \in SUBSET E, left # {},
           NEW list \in Seq(E)
    PROVE  Winner(list, left) \in left
<1> DEFINE R == {p \in left \X left : Preferred(list, p[1], p[2])}
<1>1. Len(list) \in Nat /\ DOMAIN list = 1..Len(list)
      /\ \A i \in 1..Len(list) : list[i].numbers \in SUBSET Balls
    BY DEF IsField
<1>2. \A c \in left : Diverse(list, c) \in Int
    <2>1. ASSUME NEW c \in left
          PROVE  Diverse(list, c) \in Int
        <3>1. Overlapping(list, c) \in Nat
            BY <1>1, OverlappingNat
        <3>2. c.rank \in Int /\ ReusePenalty \in Int
            BY PenaltyInt DEF IsField
        <3> QED
            BY <3>1, <3>2 DEF Diverse
    <2> QED
        BY <2>1
<1>3. IsFiniteSet(left)
    BY FS_Subset DEF IsField
<1>4. \A c \in left : c.numbers \in SUBSET Balls
    BY DEF IsField
<1>5. \A c, d \in left : <<c, d>> \in R <=> Preferred(list, c, d)
    OBVIOUS
<1> HIDE DEF R
<1>6. \A c \in left : <<c, c>> \notin R
    BY <1>2, <1>4, <1>5, SoonerOrders DEF Preferred
<1>7. \A b, c, d \in left : <<b, c>> \in R /\ <<c, d>> \in R => <<b, d>> \in R
    <2>1. ASSUME NEW b \in left, NEW c \in left, NEW d \in left,
                 Preferred(list, b, c), Preferred(list, c, d)
          PROVE  Preferred(list, b, d)
        BY <1>2, <1>4, <2>1, SoonerOrders DEF Preferred
    <2> QED
        BY <1>5, <2>1
<1>8. \A c, d \in left : c = d \/ <<c, d>> \in R \/ <<d, c>> \in R
    <2>1. ASSUME NEW c \in left, NEW d \in left, c # d
          PROVE  Preferred(list, c, d) \/ Preferred(list, d, c)
        <3>1. c.numbers # d.numbers
            BY <2>1 DEF IsField
        <3> QED
            BY <1>2, <1>4, <3>1, SoonerOrders DEF Preferred
    <2> QED
        BY <1>5, <2>1
<1>9. \E c \in left : \A d \in left : <<d, c>> \notin R
    BY <1>3, <1>6, <1>7, HasFirst
<1>10. \E c \in left : \A d \in left \ {c} : Preferred(list, c, d)
    BY <1>5, <1>8, <1>9
<1> QED
    BY <1>10 DEF Winner, Preferred

\* The list that buildPortfolioShortlist() grows, one winner at a time.
Grown(list, E) == Append(list, Winner(list, E \ Elements(list)))

ListBuilds(f, g, n, E) == f = [k \in 0..n |-> IF k = 0 THEN <<>> ELSE Grown(g[k - 1], E)]

\* Each list is the one before it with the winner of what is left.
LEMMA ListBuildsEach ==
    ASSUME NEW f, NEW g, NEW n, NEW E, ListBuilds(f, g, n, E), NEW k \in 0..n
    PROVE  f[k] = IF k = 0 THEN <<>> ELSE Grown(g[k - 1], E)
BY DEF ListBuilds

\* The lists of buildPortfolioShortlist() exist, one for each length.
LEMMA ListExists ==
    ASSUME NEW n \in Nat, NEW E
    PROVE  \E f : ListBuilds(f, f, n, E)
<1> DEFINE Good == {m \in 0..n : \E f : ListBuilds(f, f, m, E)}
<1>1. 0 \in Good
    <2> DEFINE f == [k \in 0..0 |-> <<>>]
    <2>1. ListBuilds(f, f, 0, E)
        BY DEF ListBuilds
    <2> QED
        BY <2>1
<1>2. ASSUME NEW m \in 0..(n - 1), m \in Good
      PROVE  m + 1 \in Good
    <2>1. PICK f : ListBuilds(f, f, m, E)
        BY <1>2
    <2> DEFINE next == m + 1
               g == [k \in 0..next |-> IF k = next THEN Grown(f[m], E) ELSE f[k]]
    <2>2. next \in 0..n /\ m \in Nat /\ next \in Nat /\ next # 0 /\ next - 1 = m
        OBVIOUS
    <2>3. \A k \in 0..next : k = next \/ k \in 0..m
        OBVIOUS
    <2>4. ASSUME NEW k \in 0..next
          PROVE  g[k] = IF k = 0 THEN <<>> ELSE Grown(g[k - 1], E)
        <3>1. CASE k = next
            <4>1. k - 1 = m /\ k # 0 /\ m \in 0..next /\ m # next
                BY <3>1
            <4>2. g[m] = f[m] /\ g[k] = Grown(f[m], E)
                BY <3>1, <4>1
            <4> QED
                BY <4>1, <4>2
        <3>2. CASE k # next
            <4>1. k \in 0..m /\ g[k] = f[k]
                BY <2>3, <3>2
            <4>2. f[k] = IF k = 0 THEN <<>> ELSE Grown(f[k - 1], E)
                BY <2>1, <4>1, ListBuildsEach
            <4>3. k # 0 => k - 1 \in 0..next /\ k - 1 # next
                OBVIOUS
            <4>4. k # 0 => g[k - 1] = f[k - 1]
                BY <4>3
            <4> QED
                BY <4>1, <4>2, <4>4
        <3> QED
            BY <3>1, <3>2
    <2>5. g = [k \in 0..next |-> g[k]]
        OBVIOUS
    <2> HIDE DEF g, next
    <2>6. ListBuilds(g, g, next, E)
        BY <2>4, <2>5 DEF ListBuilds
    <2> QED
        BY <2>2, <2>6 DEF next
<1> HIDE DEF Good
<1>3. \A m \in 0..n : m \in Good
    BY <1>1, <1>2, CountingUp
<1> QED
    BY <1>3 DEF Good

\* A list that is appended to holds one member more.
LEMMA OneMoreElement ==
    ASSUME NEW E, NEW list \in Seq(E), NEW x \in E
    PROVE  /\ Append(list, x) \in Seq(E) /\ Len(Append(list, x)) = Len(list) + 1
           /\ Elements(Append(list, x)) = Elements(list) \cup {x}
           /\ Elements(list) \subseteq E /\ Len(list) \in Nat
<1> DEFINE n == Len(list)
           s == Append(list, x)
<1>1. n \in Nat /\ DOMAIN list = 1..n /\ \A i \in 1..n : list[i] \in E
    OBVIOUS
<1>2. s \in Seq(E) /\ Len(s) = n + 1 /\ DOMAIN s = 1..(n + 1) /\ s[n + 1] = x
      /\ \A i \in 1..n : s[i] = list[i]
    BY <1>1
<1> HIDE DEF s
<1>3. Elements(list) = {list[i] : i \in 1..n} /\ Elements(s) = {s[i] : i \in 1..(n + 1)}
    BY <1>1, <1>2 DEF Elements
<1>4. 1..(n + 1) = 1..n \cup {n + 1} /\ n + 1 \notin 1..n
    BY <1>1
<1> QED
    BY <1>1, <1>2, <1>3, <1>4 DEF s

\* The list has as many candidates as it has been grown by.
LEMMA ListsAre ==
    ASSUME NEW E, IsField(E), NEW n \in Nat, n <= Cardinality(E), NEW f, ListBuilds(f, f, n, E)
    PROVE  \A k \in 0..n : /\ f[k] \in Seq(E)
                           /\ Cardinality(Elements(f[k])) = k /\ Elements(f[k]) \subseteq E
<1> DEFINE Good == {k \in 0..n : /\ f[k] \in Seq(E)
                                 /\ Cardinality(Elements(f[k])) = k /\ Elements(f[k]) \subseteq E}
<1>1. 0 \in Good
    <2>1. f[0] = <<>>
        BY ListBuildsEach
    <2>2. Elements(<<>>) = {}
        BY DEF Elements
    <2>3. Cardinality({}) = 0 /\ <<>> \in Seq(E) /\ 0 \in 0..n
        BY FS_EmptySet
    <2>4. f[0] \in Seq(E) /\ Elements(f[0]) = {}
        BY <2>1, <2>2, <2>3
    <2> QED
        BY <2>3, <2>4
<1>2. ASSUME NEW m \in 0..(n - 1), m \in Good
      PROVE  m + 1 \in Good
    <2> DEFINE list == f[m]
               x == Winner(list, E \ Elements(list))
    <2>1. list \in Seq(E) /\ Cardinality(Elements(list)) = m /\ Elements(list) \subseteq E
        BY <1>2
    <2>2. f[m + 1] = Grown(list, E)
        <3>1. m + 1 \in 0..n /\ m + 1 # 0 /\ (m + 1) - 1 = m
            OBVIOUS
        <3> DEFINE k == m + 1
        <3>2. f[k] = IF k = 0 THEN <<>> ELSE Grown(f[k - 1], E)
            BY <3>1, ListBuildsEach
        <3> QED
            BY <3>1, <3>2
    <2>3. E \ Elements(list) # {}
        <3>1. ASSUME E \ Elements(list) = {} PROVE FALSE
            <4>1. Elements(list) = E
                BY <2>1, <3>1
            <4>2. Cardinality(E) = m
                BY <2>1, <4>1
            <4> QED
                BY <4>2
        <3> QED
            BY <3>1
    <2> HIDE DEF list
    <2>4. x \in E \ Elements(list)
        BY <2>1, <2>3, WinnerIs
    <2>5. f[m + 1] = Append(list, x)
        BY <2>2 DEF Grown
    <2> HIDE DEF x
    <2>6. /\ Append(list, x) \in Seq(E)
          /\ Elements(Append(list, x)) = Elements(list) \cup {x}
        BY <2>1, <2>4, OneMoreElement
    <2>7. IsFiniteSet(Elements(list))
        BY <2>1, FS_Subset DEF IsField
    <2>8. Cardinality(Elements(list) \cup {x}) = m + 1
        BY <2>1, <2>4, <2>7, OneMoreSeen
    <2>9. /\ m + 1 \in 0..n /\ f[m + 1] \in Seq(E) /\ Elements(f[m + 1]) \subseteq E
          /\ Cardinality(Elements(f[m + 1])) = m + 1
        BY <2>1, <2>4, <2>5, <2>6, <2>8
    <2> QED
        BY <2>9
<1> HIDE DEF Good
<1>3. \A m \in 0..n : m \in Good
    BY <1>1, <1>2, CountingUp
<1> QED
    BY <1>3 DEF Good

\* A list that is too long is shortened to the limit.
LEMMA ShortlistIs ==
    ASSUME NEW E, IsField(E), NEW s, Elements(s) = E, Len(s) = Cardinality(E)
    PROVE  /\ Elements(Shortlist(s)) \subseteq E
           /\ Cardinality(Elements(Shortlist(s)))
                 = IF Len(s) <= ShortlistLimit THEN Len(s) ELSE ShortlistLimit
<1>1. CASE Len(s) <= ShortlistLimit
    BY <1>1 DEF Shortlist
<1>2. CASE ~(Len(s) <= ShortlistLimit)
    <2> DEFINE f == CHOOSE list : ListBuilds(list, list, ShortlistLimit, E)
    <2>1. Shortlist(s) = f[ShortlistLimit]
        BY <1>2 DEF Shortlist, ListBuilds, Grown
    <2>2. ShortlistLimit \in Nat
        BY RankingAssumption DEF RankingAssumption
    <2>3. ListBuilds(f, f, ShortlistLimit, E)
        BY <2>2, ListExists
    <2> HIDE DEF f
    <2>4. ShortlistLimit <= Cardinality(E)
        <3>1. Cardinality(E) \in Nat
            BY FS_CardinalityType DEF IsField
        <3> QED
            BY <1>2, <2>2, <3>1
    <2>5. /\ Cardinality(Elements(f[ShortlistLimit])) = ShortlistLimit
          /\ Elements(f[ShortlistLimit]) \subseteq E
        BY <2>2, <2>3, <2>4, ListsAre
    <2> QED
        BY <1>2, <2>1, <2>5
<1> QED
    BY <1>1, <1>2

\* A group is finished: sorted, and shortened when there are several games.
LEMMA GroupIsMade ==
    ASSUME RankingInv, rankStage = "offer", offered = Len(Offers)
    PROVE  LET sorted == InOrder(Elements(heap), Better)
           IN  GroupFits(IF rankAsk.games = 1 THEN sorted ELSE Shortlist(sorted))
<1> DEFINE H == Elements(heap)
           F == Elements(Offers)
           sorted == InOrder(H, Better)
           group == IF rankAsk.games = 1 THEN sorted ELSE Shortlist(sorted)
<1>1. Kept /\ OffersOk /\ rankAsk \in RankAsks /\ HeapLimit \in Nat \ {0}
    BY KeptIs DEF Walking
<1>2. IsField(F) /\ F \subseteq Candidate /\ Len(Offers) = Cardinality(Yielded)
      /\ Len(Offers) \in Nat /\ DOMAIN Offers = 1..Len(Offers)
      /\ (\A i, j \in 1..Len(Offers) : Offers[i] = Offers[j] => i = j)
      /\ \A i \in 1..Len(Offers) : Offers[i] \in F /\ Offers[i].numbers \in Yielded
    BY <1>1 DEF OffersOk
<1>3. BestOf(H, Seen, HeapLimit) /\ IsHeapOf(heap, F)
    BY <1>1 DEF Kept
<1>4. Seen = F
    BY <1>2 DEF Seen, Elements
<1>5. Cardinality(F) = Cardinality(Yielded)
    <2>1. Offers \in Seq(F)
        BY <1>1 DEF OffersOk
    <2>2. IsHeapOf(Offers, F)
        BY <1>2, <2>1 DEF IsHeapOf
    <2> QED
        BY <1>2, <2>2, HeapSize
<1>6. H \subseteq F /\ (H # F => Cardinality(H) = HeapLimit)
    BY <1>3, <1>4 DEF BestOf
<1>7. IsField(H) /\ IsFiniteSet(H)
    BY <1>2, <1>6, FieldPart DEF IsField
<1>8. IsOrder(BetterPairs(H), H) /\ Ordered(sorted, H, BetterPairs(H))
    BY <1>7, CandidatesInOrder
<1> HIDE DEF sorted
<1>9. Elements(sorted) = H /\ Len(sorted) = Cardinality(H) /\ Cardinality(H) \in Nat
    BY <1>7, <1>8, OrderedHas DEF Ordered
<1>10. rankAsk.games \in 1..ShortlistLimit /\ ShortlistLimit \in Nat /\ HeapLimit >= ShortlistLimit
    BY <1>1, AskIs, LimitIs, RankingAssumption DEF RankingAssumption
<1>11. Cardinality(Yielded) >= rankAsk.games => Cardinality(H) >= rankAsk.games
    <2>1. Cardinality(Yielded) \in Nat
        BY <1>2
    <2>2. CASE H = F
        BY <1>5, <2>1, <2>2
    <2>3. CASE H # F
        BY <1>1, <1>6, <1>10, <2>1, <2>3
    <2> QED
        BY <2>2, <2>3
<1>12. Elements(group) \subseteq H
       /\ (Cardinality(Yielded) >= rankAsk.games => Cardinality(Elements(group)) >= rankAsk.games)
    <2>1. CASE rankAsk.games = 1
        BY <1>9, <1>11, <2>1
    <2>2. CASE rankAsk.games # 1
        <3>1. group = Shortlist(sorted)
            BY <2>2
        <3>2. /\ Elements(Shortlist(sorted)) \subseteq H
              /\ Cardinality(Elements(Shortlist(sorted)))
                    = IF Len(sorted) <= ShortlistLimit THEN Len(sorted) ELSE ShortlistLimit
            BY <1>7, <1>9, ShortlistIs
        <3> HIDE DEF group
        <3> QED
            BY <1>9, <1>10, <1>11, <3>1, <3>2
    <2> QED
        BY <2>1, <2>2
<1>13. \A c \in F : c.numbers \in Yielded
    <2>1. F = {Offers[i] : i \in 1..Len(Offers)}
        BY <1>2 DEF Elements
    <2> QED
        BY <1>2, <2>1
<1> HIDE DEF group, H, F
<1>14. GroupFits(group)
    <2>1. IsField(Elements(group)) /\ Elements(group) \subseteq F
        BY <1>2, <1>6, <1>12, FieldPart
    <2> QED
        BY <1>2, <1>12, <1>13, <2>1 DEF GroupFits
<1> QED
    BY <1>14 DEF group, sorted, H

\* As many games are offered to every group.
LEMMA SameLength ==
    ASSUME OffersOk, UNCHANGED <<rankAsk, rankCore, rankPool>>
    PROVE  Len(Offers') = Len(Offers) /\ Len(Offers) \in Nat
<1> DEFINE s == InOrder(Yielded, Sooner)
           n == Len(Offers)
<1>1. n \in Nat /\ DOMAIN Offers = 1..n
    BY DEF OffersOk
<1>2. DOMAIN s = DOMAIN Offers
    BY DEF Offers
<1>3. DOMAIN Offers' = DOMAIN s
    BY SameYielded DEF Offers
<1>4. Offers' = [i \in DOMAIN Offers' |-> Offers'[i]]
    BY DEF Offers
<1> HIDE DEF s, n
<1>5. DOMAIN Offers' = 1..n
    BY <1>1, <1>2, <1>3
<1> DEFINE o == Offers'
<1> HIDE DEF o
<1>6. o = [i \in 1..n |-> o[i]]
    BY <1>4, <1>5 DEF o
<1>7. o \in Seq({o[i] : i \in 1..n}) /\ Len(o) = n
    BY <1>1, <1>6
<1> QED
    BY <1>1, <1>7 DEF o, n

\* A group that is added leaves the others.
LEMMA GroupsGrow ==
    ASSUME GroupsInv, NEW g, groups' = Append(groups, g), GroupFits(g),
           \A i \in 1..Len(groups) : GroupFits(groups[i]),
           UNCHANGED <<rankAsk, rankCore, rankPool>>
    PROVE  /\ Len(groups') = Len(groups) + 1 /\ Len(groups) \in Nat
           /\ DOMAIN groups' = 1..(Len(groups) + 1)
           /\ groups' = [i \in 1..(Len(groups) + 1) |-> groups'[i]]
           /\ \A i \in 1..(Len(groups) + 1) : GroupFits(groups[i])'
<1> DEFINE n == Len(groups)
<1>1. n \in Nat /\ DOMAIN groups = 1..n
    BY DEF GroupsInv
<1>2. groups \in Seq({groups[i] : i \in 1..n})
    <2>1. groups = [i \in 1..n |-> groups[i]]
        BY DEF GroupsInv
    <2> QED
        BY <1>1, <2>1
<1>3. /\ Len(groups') = n + 1 /\ DOMAIN groups' = 1..(n + 1) /\ groups'[n + 1] = g
      /\ \A i \in 1..n : groups'[i] = groups[i]
    BY <1>1, <1>2
<1>4. \A x : GroupFits(x)' = GroupFits(x)
    BY SameGroup
<1>5. ASSUME NEW i \in 1..(n + 1)
      PROVE  GroupFits(groups[i])'
    <2>1. GroupFits(groups'[i])
        <3>1. i = n + 1 \/ i \in 1..n
            BY <1>1
        <3> QED
            BY <1>3, <3>1
    <2> QED
        BY <2>1, SameYielded DEF GroupFits
<1>6. groups' = [i \in 1..(n + 1) |-> groups'[i]]
    <2> DEFINE T == {groups[i] : i \in 1..n} \cup {g}
    <2>1. groups \in Seq(T) /\ g \in T
        BY <1>2
    <2> HIDE DEF T
    <2>2. groups' \in Seq(T)
        BY <2>1
    <2> QED
        BY <1>3, <2>2, LenProperties
<1> QED
    BY <1>1, <1>3, <1>5, <1>6

\* The core and the pool stay as they are while the groups are made.
LEMMA ChosenFrame ==
    ASSUME RankingInv, rankStage \in Generating, rankStage' \in Generating,
           UNCHANGED <<rankAsk, rankCore, rankPool>>
    PROVE  CoreInv' /\ PoolInv'
<1>1. /\ CoreSuits' = CoreSuits /\ ProfileCore' = ProfileCore /\ AskIsSound' = AskIsSound
      /\ Available' = Available /\ PlannedPool' = PlannedPool
    BY SameCore
<1>2. rankStage' \notin {"core", "no core"} \cup Drawing
    BY DEF Generating, Walking, Drawing
<1>3. CoreInv'
    BY <1>1, <1>2 DEF RankingInv, CoreInv
<1>4. PoolInv'
    BY <1>1 DEF RankingInv, PoolInv
<1> QED
    BY <1>3, <1>4

\* A group that is finished joins the others, and the heap starts empty again.
LEMMA FinishGroupStep ==
    ASSUME RankingInv, FinishGroup
    PROVE  RankingInv'
<1> DEFINE sorted == InOrder(Elements(heap), Better)
           g == IF rankAsk.games = 1 THEN sorted ELSE Shortlist(sorted)
           n == Len(groups)
<1>1. /\ rankStage = "offer" /\ offered = Len(Offers)
      /\ groups' = Append(groups, g)
      /\ rankStage' = IF Len(groups') < rankAsk.games THEN "offer" ELSE "beam"
      /\ heap' = <<>> /\ offered' = 0 /\ beam' = <<[games |-> <<>>, score |-> 0]>>
      /\ UNCHANGED <<rankAsk, rankCore, rankPool, sifting, sampled, rankCap, rankBatch>>
    BY DEF FinishGroup
<1>2. GroupFits(g)
    BY <1>1, GroupIsMade
<1> HIDE DEF g
<1>3. /\ OffersOk /\ rankAsk \in RankAsks /\ HeapLimit \in Nat \ {0}
    BY <1>1, KeptIs DEF Walking
<1>4. /\ GroupsInv /\ n < rankAsk.games /\ sifting = 0
      /\ \A i \in 1..n : GroupFits(groups[i])
    BY <1>1 DEF RankingInv, GroupsInv, HeapInv, Walking, Generating
<1>5. /\ Len(groups') = n + 1 /\ n \in Nat /\ DOMAIN groups' = 1..(n + 1)
      /\ groups' = [i \in 1..(n + 1) |-> groups'[i]]
      /\ \A i \in 1..(n + 1) : GroupFits(groups[i])'
    BY <1>1, <1>2, <1>4, GroupsGrow
<1>6. rankStage' \in {"offer", "beam"} /\ rankAsk.games \in Nat
    BY <1>1, <1>3, AskIs
<1>7. rankStage' = "offer" => n + 1 < rankAsk.games
    BY <1>1, <1>5
<1>8. rankStage' = "beam" => n + 1 = rankAsk.games
    BY <1>1, <1>4, <1>5, <1>6
<1>9. GroupsInv'
    <2>1. groups' = [i \in 1..Len(groups') |-> groups'[i]]
        BY <1>5
    <2>2. \A i \in 1..Len(groups') : Elements(groups'[i]) \subseteq Candidate
        BY <1>5 DEF GroupFits
    <2>3. Len(groups') \in Nat
        BY <1>5
    <2> HIDE DEF n
    <2>4. rankStage' \notin {"no portfolio", "up", "down"}
        BY <1>6
    <2>5. \A i \in 1..Len(groups') : GroupFits(groups[i])'
        BY <1>5
    <2>6. (rankStage' = "offer" => Len(groups') < rankAsk'.games)
          /\ (rankStage' = "beam" => Len(groups') = rankAsk'.games)
        BY <1>1, <1>5, <1>7, <1>8
    <2> QED
        BY <1>6, <2>1, <2>2, <2>3, <2>4, <2>5, <2>6 DEF GroupsInv, Generating, Walking
<1>10. HeapInv'
    <2>1. Elements(<<>>) = {}
        BY DEF Elements
    <2>2. Elements(heap)' = {}
        BY <1>1, <2>1 DEF Elements
    <2>3. IsHeapOf(heap, Elements(Offers))'
        BY <1>1 DEF IsHeapOf
    <2>4. Seen' = {}
        BY <1>1 DEF Seen
    <2>5. HeapLimit' \in Nat
        BY <1>1, <1>3, SameCore
    <2>6. BestOf(Elements(heap), Seen, HeapLimit)'
        <3>1. Cardinality({}) = 0
            BY FS_EmptySet
        <3> QED
            BY <2>2, <2>4, <2>5, <3>1 DEF BestOf
    <2>7. InHeap(heap)'
        BY <1>1 DEF InHeap
    <2>8. offered' <= Len(Offers') /\ offered' \in Nat
        BY <1>1, <1>3, SameLength
    <2> QED
        BY <1>1, <1>4, <1>6, <2>3, <2>6, <2>7, <2>8 DEF HeapInv, Walking
<1>11. BeamInv'
    <2> DEFINE b == [games |-> <<>>, score |-> 0]
    <2>1. Len(beam') = 1 /\ beam' = [i \in 1..1 |-> beam'[i]] /\ beam'[1] = b
        BY <1>1
    <2>2. \A i \in 1..Len(beam') : beam'[i] = b
        BY <2>1
    <2>3. b.games = <<>> /\ b.score = 0 /\ Elements(b.games) = {}
        BY DEF Elements
    <2>4. StateFits(b, 0)'
        <3>1. <<>> \in Seq(Candidate') /\ Len(<<>>) = 0 /\ 0 \in Int
            OBVIOUS
        <3> QED
            BY <2>3, <3>1 DEF StateFits
    <2> HIDE DEF b
    <2>5. \A i \in 1..Len(beam') : StateFits(beam[i], 0)'
        BY <2>2, <2>4 DEF StateFits
    <2>6. 0 \in 0..rankAsk'.games
        BY <1>1, <1>6
    <2>7. \A i \in 1..Len(beam') :
            Elements(beam'[i].games) \subseteq Candidate /\ beam'[i].score \in Int
        BY <2>2, <2>3
    <2> QED
        BY <2>1, <2>5, <2>6, <2>7 DEF BeamInv
<1>12. CoreInv' /\ PoolInv'
    BY <1>1, <1>6, ChosenFrame DEF Generating, Walking
<1>13. SampledInv' /\ BatchInv'
    BY <1>1, <1>6, SameSampled, SameBatch DEF RankingInv
<1> QED
    BY <1>1, <1>3, <1>6, <1>9, <1>10, <1>11, <1>12, <1>13 DEF RankingInv

-----------------------------------------------------------------------------
(* The beam: selectPortfolioCandidates (portfolio.ts).                     *)

\* States of a beam, with one candidate of each of the first m groups.
AreStates(X, m) ==
    /\ IsFiniteSet(X) /\ m \in Nat /\ \A s \in X : StateFits(s, m)
    /\ \A i \in 1..m : IsField(Elements(groups[i]))

\* What two states have in common up to a place.
LEMMA StatesDiffer ==
    ASSUME NEW X, NEW m, AreStates(X, m), NEW s \in X, NEW t \in X, s # t, s.score = t.score
    PROVE  \E i \in 1..m : /\ s.games[i].numbers # t.games[i].numbers
                           /\ \A j \in 1..(i - 1) : s.games[j].numbers = t.games[j].numbers
<1> DEFINE D == {i \in 1..m : s.games[i].numbers # t.games[i].numbers}
<1>1. m \in Nat /\ StateFits(s, m) /\ StateFits(t, m)
    BY DEF AreStates
<1>2. D # {}
    <2>1. ASSUME D = {} PROVE FALSE
        <3>1. ASSUME NEW i \in 1..m PROVE s.games[i] = t.games[i]
            <4>1. s.games[i].numbers = t.games[i].numbers
                BY <2>1
            <4>2. IsField(Elements(groups[i]))
                BY DEF AreStates
            <4>3. s.games[i] \in Elements(groups[i]) /\ t.games[i] \in Elements(groups[i])
                BY <1>1 DEF StateFits
            <4> QED
                BY <4>1, <4>2, <4>3 DEF IsField
        <3>2. s.games \in Seq(Candidate) /\ t.games \in Seq(Candidate)
              /\ Len(s.games) = m /\ Len(t.games) = m
            BY <1>1 DEF StateFits
        <3>3. s.games = t.games
            BY <3>1, <3>2, SeqEqual
        <3>4. /\ s = [games |-> s.games, score |-> s.score]
              /\ t = [games |-> t.games, score |-> t.score]
            BY <1>1 DEF StateFits
        <3> QED
            BY <3>3, <3>4
    <2> QED
        BY <2>1
<1>3. D \in SUBSET Int /\ IsFiniteSet(D)
    <2>0. m \in Int /\ D \in SUBSET (1..m)
        BY <1>1
    <2>1. IsFiniteSet(1..m)
        BY <2>0, FS_Interval
    <2>2. IsFiniteSet(D)
        BY <2>0, <2>1, FS_Subset
    <2> QED
        BY <1>1, <2>2
<1>4. PICK i \in D : \A j \in D : i <= j
    <2> HIDE DEF D
    <2> QED
        BY <1>2, <1>3, FiniteHasEnds
<1>5. \A j \in 1..(i - 1) : s.games[j].numbers = t.games[j].numbers
    <2>1. ASSUME NEW j \in 1..(i - 1), s.games[j].numbers # t.games[j].numbers
          PROVE  FALSE
        <3>1. j \in 1..m /\ ~(i <= j)
            BY <1>1
        <3> QED
            BY <1>4, <2>1, <3>1
    <2> QED
        BY <2>1
<1> QED
    BY <1>4, <1>5

\* BetterState() tells two states apart.
LEMMA StatesOrder ==
    ASSUME NEW X, NEW m, AreStates(X, m)
    PROVE  /\ \A s \in X : ~BetterState(s, s)
           /\ \A s, t, u \in X : BetterState(s, t) /\ BetterState(t, u) => BetterState(s, u)
           /\ \A s, t \in X : s = t \/ BetterState(s, t) \/ BetterState(t, s)
<1> DEFINE N(s, i) == s.games[i].numbers
<1>1. ASSUME NEW s \in X
      PROVE  /\ s.score \in Int /\ DOMAIN s.games = 1..m /\ m \in Nat
             /\ \A i \in 1..m : N(s, i) \in SUBSET Balls
    <2>1. StateFits(s, m) /\ m \in Nat
        BY DEF AreStates
    <2>2. s.score \in Int /\ s.games \in Seq(Candidate) /\ Len(s.games) = m
        BY <2>1 DEF StateFits
    <2>3. DOMAIN s.games = 1..m /\ \A i \in 1..m : s.games[i] \in Candidate
        BY <2>2
    <2>4. \A c \in Candidate : c.numbers \in SUBSET Balls
        BY DEF Candidate
    <2> QED
        BY <2>1, <2>2, <2>3, <2>4
<1>2. \A s, t \in X : BetterState(s, t) <=>
         \/ s.score > t.score
         \/ /\ s.score = t.score
            /\ \E i \in 1..m : /\ \A j \in 1..(i - 1) : N(s, j) = N(t, j)
                               /\ Sooner(N(s, i), N(t, i))
    BY <1>1 DEF BetterState
<1>3. \A s \in X : ~BetterState(s, s)
    BY <1>1, <1>2, SoonerOrders
<1>4. ASSUME NEW s \in X, NEW t \in X, s # t
      PROVE  BetterState(s, t) \/ BetterState(t, s)
    <2>1. CASE s.score # t.score
        BY <1>1, <1>2, <2>1
    <2>2. CASE s.score = t.score
        <3>1. PICK i \in 1..m : /\ N(s, i) # N(t, i) /\ \A j \in 1..(i - 1) : N(s, j) = N(t, j)
            BY <1>4, <2>2, StatesDiffer
        <3>2. N(s, i) \in SUBSET Balls /\ N(t, i) \in SUBSET Balls
            BY <1>1
        <3>3. Sooner(N(s, i), N(t, i)) \/ Sooner(N(t, i), N(s, i))
            <4> HIDE DEF N
            <4> QED
                BY <3>1, <3>2, SoonerOrders
        <3> HIDE DEF N
        <3> QED
            BY <1>2, <2>2, <3>1, <3>3
    <2> QED
        BY <2>1, <2>2
<1>5. ASSUME NEW s \in X, NEW t \in X, NEW u \in X, BetterState(s, t), BetterState(t, u)
      PROVE  BetterState(s, u)
    <2>0. s.score \in Int /\ t.score \in Int /\ u.score \in Int /\ m \in Nat
        BY <1>1
    <2>1. CASE s.score > t.score \/ t.score > u.score
        <3>1. s.score > u.score
            BY <1>2, <1>5, <2>0, <2>1
        <3> QED
            BY <1>2, <3>1
    <2>2. CASE ~(s.score > t.score \/ t.score > u.score)
        <3> HIDE DEF N
        <3>1. s.score = t.score /\ t.score = u.score
            BY <1>2, <1>5, <2>2
        <3>2. PICK i \in 1..m : /\ \A j \in 1..(i - 1) : N(s, j) = N(t, j)
                                /\ Sooner(N(s, i), N(t, i))
            BY <1>2, <1>5, <2>2
        <3>3. PICK k \in 1..m : /\ \A j \in 1..(k - 1) : N(t, j) = N(u, j)
                                /\ Sooner(N(t, k), N(u, k))
            BY <1>2, <1>5, <2>2
        <3>4. CASE i = k
            <4>1. Sooner(N(s, i), N(u, i))
                BY <1>1, <3>2, <3>3, <3>4, SoonerOrders
            <4>2. \A j \in 1..(i - 1) : N(s, j) = N(u, j)
                BY <3>2, <3>3, <3>4
            <4> QED
                BY <1>2, <3>1, <4>1, <4>2
        <3>5. CASE i < k
            <4>1. i \in 1..(k - 1) /\ 1..(i - 1) \subseteq 1..(k - 1)
                BY <2>0, <3>5
            <4>2. N(t, i) = N(u, i)
                BY <3>3, <4>1
            <4>3. Sooner(N(s, i), N(u, i))
                BY <3>2, <4>2
            <4>4. \A j \in 1..(i - 1) : N(s, j) = N(u, j)
                BY <3>2, <3>3, <4>1
            <4> QED
                BY <1>2, <3>1, <4>3, <4>4
        <3>6. CASE k < i
            <4>1. k \in 1..(i - 1) /\ 1..(k - 1) \subseteq 1..(i - 1)
                BY <2>0, <3>6
            <4>2. N(s, k) = N(t, k)
                BY <3>2, <4>1
            <4>3. Sooner(N(s, k), N(u, k))
                BY <3>3, <4>2
            <4>4. \A j \in 1..(k - 1) : N(s, j) = N(u, j)
                BY <3>2, <3>3, <4>1
            <4> QED
                BY <1>2, <3>1, <4>3, <4>4
        <3>7. i = k \/ i < k \/ k < i
            BY <2>0
        <3> QED
            BY <3>4, <3>5, <3>6, <3>7
    <2> QED
        BY <2>1, <2>2
<1> QED
    BY <1>3, <1>4, <1>5

StatePairs(S) == {p \in S \X S : BetterState(p[1], p[2])}

\* The states of a beam, best first.
LEMMA StatesInOrder ==
    ASSUME NEW S, NEW m, AreStates(S, m)
    PROVE  IsOrder(StatePairs(S), S) /\ Ordered(InOrder(S, BetterState), S, StatePairs(S))
<1> DEFINE R == StatePairs(S)
           s == InOrder(S, BetterState)
<1>0. IsFiniteSet(S)
    BY DEF AreStates
<1>1. \A a, b \in S : <<a, b>> \in R <=> BetterState(a, b)
    BY DEF StatePairs
<1>3. IsOrder(R, S)
    <2> HIDE DEF R
    <2> QED
        BY <1>1, StatesOrder DEF IsOrder
<1>4. \A x \in S : Ahead(R, S, x) = {y \in S : BetterState(y, x)}
    BY <1>1 DEF Ahead
<1> DEFINE At(i) == CHOOSE x \in S : Cardinality({y \in S : BetterState(y, x)}) = i - 1
<1>5. s = [i \in 1..Cardinality(S) |-> At(i)]
    BY DEF InOrder
<1>6. ASSUME NEW i \in 1..Cardinality(S)
      PROVE  s[i] \in S /\ Cardinality(Ahead(R, S, s[i])) = i - 1
    <2>1. \E x \in S : Cardinality(Ahead(R, S, x)) = i - 1
        BY <1>0, <1>3, EveryPlace
    <2>2. \E x \in S : Cardinality({y \in S : BetterState(y, x)}) = i - 1
        BY <1>4, <2>1
    <2>3. At(i) \in S /\ Cardinality({y \in S : BetterState(y, At(i))}) = i - 1
        BY <2>2
    <2> HIDE DEF R, s, At
    <2>4. s[i] = At(i)
        BY <1>5
    <2> QED
        BY <1>4, <2>3, <2>4
<1> HIDE DEF R, s, At
<1>7. s = [i \in 1..Cardinality(S) |-> s[i]]
    BY <1>5
<1>8. Ordered(s, S, R)
    BY <1>0, <1>6, <1>7, PlacedIsOrdered
<1> QED
    BY <1>3, <1>8 DEF R, s

\* A state with one more candidate.
LEMMA ExtendedFits ==
    ASSUME NEW k \in Nat, NEW s, StateFits(s, k), GroupFits(groups[k + 1]),
           NEW e \in Extended(s, Elements(groups[k + 1]))
    PROVE  StateFits(e, k + 1)
<1> DEFINE G == Elements(groups[k + 1])
<1>1. PICK c \in G :
         /\ c.numbers \notin Elements(Shape(s.games))
         /\ e = [games |-> Append(s.games, c),
                 score |-> s.score + c.rank - ReusePenalty * Overlapping(s.games, c)]
    BY DEF Extended
<1>2. c \in Candidate /\ c.numbers \in SUBSET Balls /\ c.rank \in Int
    BY DEF GroupFits, IsField
<1>3. /\ s.score \in Int /\ s.games \in Seq(Candidate) /\ Len(s.games) = k
      /\ \A i \in 1..k : s.games[i] \in Elements(groups[i])
      /\ \A i, j \in 1..k : s.games[i].numbers = s.games[j].numbers => i = j
    BY DEF StateFits
<1>4. DOMAIN s.games = 1..k /\ \A i \in 1..k : s.games[i].numbers \in SUBSET Balls
    <2>1. DOMAIN s.games = 1..k /\ \A i \in 1..k : s.games[i] \in Candidate
        BY <1>3
    <2>2. \A x \in Candidate : x.numbers \in SUBSET Balls
        BY DEF Candidate
    <2> QED
        BY <2>1, <2>2
<1>5. Overlapping(s.games, c) \in Nat /\ ReusePenalty \in Int
    BY <1>4, OverlappingNat, PenaltyInt
<1> DEFINE games == Append(s.games, c)
           score == s.score + c.rank - ReusePenalty * Overlapping(s.games, c)
<1>6. score \in Int
    BY <1>2, <1>3, <1>5
<1>7. /\ games \in Seq(Candidate) /\ Len(games) = k + 1 /\ games[k + 1] = c
      /\ \A i \in 1..k : games[i] = s.games[i]
    BY <1>2, <1>3
<1>8. \A i \in 1..k : c.numbers # s.games[i].numbers
    <2>1. DOMAIN Shape(s.games) = 1..k /\ \A i \in 1..k : Shape(s.games)[i] = s.games[i].numbers
        BY <1>3 DEF Shape
    <2> QED
        BY <1>1, <2>1 DEF Elements
<1> HIDE DEF games, score
<1>9. 1..(k + 1) = 1..k \cup {k + 1} /\ k + 1 \notin 1..k
    OBVIOUS
<1>10. \A i \in 1..(k + 1) : games[i] \in Elements(groups[i])
    BY <1>1, <1>3, <1>7, <1>9
<1>11. \A i, j \in 1..(k + 1) : games[i].numbers = games[j].numbers => i = j
    BY <1>3, <1>7, <1>8, <1>9
<1>12. e = [games |-> games, score |-> score]
    BY <1>1 DEF games, score
<1>13. e.games = games /\ e.score = score
    BY <1>12
<1> QED
    BY <1>6, <1>7, <1>10, <1>11, <1>12, <1>13 DEF StateFits

\* A state extended with every candidate of a group.
LEMMA ExtendedFinite ==
    ASSUME NEW s, NEW G, IsFiniteSet(G)
    PROVE  IsFiniteSet(Extended(s, G))
<1> DEFINE A == {c \in G : c.numbers \notin Elements(Shape(s.games))}
           f == [c \in A |-> [games |-> Append(s.games, c),
                              score |-> s.score + c.rank - ReusePenalty * Overlapping(s.games, c)]]
<1>1. Extended(s, G) = {f[c] : c \in A}
    BY DEF Extended
<1>2. IsFiniteSet(A)
    BY FS_Subset
<1> DEFINE X == {f[c] : c \in A}
<1>3. f \in Surjection(A, X)
    BY DEF Surjection
<1> HIDE DEF f, A, X
<1>4. IsFiniteSet(X)
    BY <1>2, <1>3, FS_Surjection
<1> QED
    BY <1>1, <1>4 DEF X

\* A group with more candidates than a state has one that is not in it.
LEMMA SomeExtends ==
    ASSUME NEW k \in Nat, NEW s, StateFits(s, k), NEW G, IsField(G), Cardinality(G) > k
    PROVE  Extended(s, G) # {}
<1> DEFINE T == Elements(Shape(s.games))
<1>1. s.games \in Seq(Candidate) /\ Len(s.games) = k
    BY DEF StateFits
<1>2. T = {s.games[i].numbers : i \in 1..k}
    BY <1>1 DEF Shape, Elements
<1>3. IsFiniteSet(T) /\ Cardinality(T) <= k
    <2> DEFINE f == [i \in 1..k |-> s.games[i].numbers]
    <2>1. f \in Surjection(1..k, T)
        BY <1>2 DEF Surjection
    <2>2. IsFiniteSet(1..k) /\ Cardinality(1..k) = k
        BY FS_Interval
    <2> HIDE DEF f, T
    <2> QED
        BY <2>1, <2>2, FS_Surjection
<1>4. IsFiniteSet(G) /\ \A c, d \in G : c.numbers = d.numbers => c = d
    BY DEF IsField
<1>5. \E c \in G : c.numbers \notin T
    <2>1. ASSUME \A c \in G : c.numbers \in T PROVE FALSE
        <3> DEFINE f == [c \in G |-> c.numbers]
        <3>1. f \in Injection(G, T)
            BY <1>4, <2>1 DEF Injection, IsInjective
        <3> HIDE DEF f, T
        <3>2. Cardinality(G) <= Cardinality(T)
            BY <1>3, <3>1, FS_Injection
        <3>3. Cardinality(T) \in Nat /\ Cardinality(G) \in Nat
            BY <1>3, <1>4, FS_CardinalityType
        <3> QED
            BY <1>3, <3>2, <3>3
    <2> QED
        BY <2>1
<1> QED
    BY <1>5 DEF Extended

\* The states of the next length.
LEMMA ExpandedAre ==
    ASSUME NEW k \in Nat, NEW n \in Nat, NEW states, \A i \in 1..n : StateFits(states[i], k),
           \A i \in 1..(k + 1) : GroupFits(groups[i])
    PROVE  AreStates(UNION {Extended(states[i], Elements(groups[k + 1])) : i \in 1..n}, k + 1)
<1> DEFINE G == Elements(groups[k + 1])
           f == [i \in 1..n |-> Extended(states[i], G)]
           P == {f[i] : i \in 1..n}
           X == UNION {Extended(states[i], G) : i \in 1..n}
<1>0. k + 1 \in 1..(k + 1) /\ k + 1 \in Nat
    OBVIOUS
<1>1. X = UNION P
    OBVIOUS
<1>2. IsFiniteSet(P)
    <2>1. f \in Surjection(1..n, P)
        BY DEF Surjection
    <2>2. IsFiniteSet(1..n)
        BY FS_Interval
    <2> HIDE DEF f, P
    <2> QED
        BY <2>1, <2>2, FS_Surjection
<1>3. IsFiniteSet(G)
    BY <1>0 DEF GroupFits, IsField
<1>4. \A Y \in P : IsFiniteSet(Y)
    BY <1>3, ExtendedFinite
<1>5. IsFiniteSet(X)
    <2> HIDE DEF P, X
    <2> QED
        BY <1>1, <1>2, <1>4, FS_UNION
<1>6. ASSUME NEW e \in X
      PROVE  StateFits(e, k + 1)
    <2>1. PICK i \in 1..n : e \in Extended(states[i], G)
        OBVIOUS
    <2>2. StateFits(states[i], k) /\ GroupFits(groups[k + 1])
        BY <1>0
    <2> QED
        BY <2>1, <2>2, ExtendedFits
<1>7. \A i \in 1..(k + 1) : IsField(Elements(groups[i]))
    BY DEF GroupFits
<1> HIDE DEF X
<1>8. AreStates(X, k + 1)
    BY <1>0, <1>5, <1>6, <1>7 DEF AreStates
<1> QED
    BY <1>8 DEF X

\* The states that follow those of the beam.
Expanded(k) == UNION {Extended(beam[i], Elements(groups[k + 1])) : i \in 1..Len(beam)}

\* The beam holds portfolios of one size.
LEMMA BeamIs ==
    ASSUME RankingInv, rankStage = "beam"
    PROVE  /\ Len(beam) \in Nat /\ DOMAIN beam = 1..Len(beam) /\ 1 \in 1..Len(beam)
           /\ Len(groups) = rankAsk.games /\ rankAsk.games \in Nat
           /\ \A i \in 1..rankAsk.games : GroupFits(groups[i])
           /\ \E k \in 0..rankAsk.games : \A i \in 1..Len(beam) : StateFits(beam[i], k)
<1>1. rankAsk.games \in Nat
    BY AskIs DEF RankingInv
<1>2. Len(groups) = rankAsk.games /\ \A i \in 1..rankAsk.games : GroupFits(groups[i])
    BY DEF RankingInv, GroupsInv, Generating
<1>3. /\ Len(beam) \in Nat /\ beam = [i \in 1..Len(beam) |-> beam[i]] /\ Len(beam) >= 1
      /\ \E k \in 0..rankAsk.games : \A i \in 1..Len(beam) : StateFits(beam[i], k)
    BY DEF RankingInv, BeamInv
<1> QED
    BY <1>1, <1>2, <1>3

\* No state follows only when too few games are yielded.
LEMMA NoneFollows ==
    ASSUME RankingInv, rankStage = "beam", NEW k \in Nat, k < rankAsk.games,
           StateFits(beam[1], k), Expanded(k) = {}
    PROVE  Cardinality(Yielded) < rankAsk.games
<1> DEFINE G == Elements(groups[k + 1])
           x == Extended(beam[1], G)
<1>1. 1 \in 1..Len(beam) /\ k + 1 \in 1..rankAsk.games /\ rankAsk.games \in Nat
    BY BeamIs
<1>2. GroupFits(groups[k + 1])
    BY <1>1, BeamIs
<1>3. x = {}
    BY <1>1 DEF Expanded
<1>4. IsField(G) /\ (Cardinality(Yielded) >= rankAsk.games => Cardinality(G) >= rankAsk.games)
    BY <1>2 DEF GroupFits
<1>5. Cardinality(G) \in Nat
    BY <1>4, FS_CardinalityType DEF IsField
<1>6. Cardinality(Yielded) \in Nat
    BY OffersHold DEF OffersOk, Generating
<1> HIDE DEF G
<1>7. ~(Cardinality(G) > k)
    BY <1>3, <1>4, SomeExtends
<1> QED
    BY <1>1, <1>4, <1>5, <1>6, <1>7

\* The states of the next beam.
LEMMA BeamFollows ==
    ASSUME RankingInv, rankStage = "beam", NEW k \in Nat, k < rankAsk.games,
           \A i \in 1..Len(beam) : StateFits(beam[i], k), Expanded(k) # {},
           NEW next, next = FirstOf(InOrder(Expanded(k), BetterState), RankBeam)
    PROVE  /\ Len(next) \in Nat /\ next = [i \in 1..Len(next) |-> next[i]] /\ Len(next) >= 1
           /\ \A i \in 1..Len(next) : StateFits(next[i], k + 1)
<1> DEFINE X == Expanded(k)
           sorted == InOrder(X, BetterState)
<1>1. k + 1 \in Nat /\ 1..(k + 1) \subseteq 1..rankAsk.games /\ Len(beam) \in Nat
    BY BeamIs
<1>2. AreStates(X, k + 1)
    <2>1. \A i \in 1..(k + 1) : GroupFits(groups[i])
        BY <1>1, BeamIs
    <2> DEFINE n == Len(beam)
    <2>2. n \in Nat /\ \A i \in 1..n : StateFits(beam[i], k)
        BY <1>1
    <2>3. X = UNION {Extended(beam[i], Elements(groups[k + 1])) : i \in 1..n}
        BY DEF Expanded
    <2> HIDE DEF X, n
    <2> QED
        BY <2>1, <2>2, <2>3, ExpandedAre
<1> HIDE DEF X
<1>3. Ordered(sorted, X, StatePairs(X))
    BY <1>2, StatesInOrder
<1> HIDE DEF sorted
<1>4. sorted \in Seq(X) /\ Len(sorted) = Cardinality(X)
    BY <1>3 DEF Ordered
<1>5. Cardinality(X) \in Nat \ {0}
    <2>1. IsFiniteSet(X)
        BY <1>2 DEF AreStates
    <2>2. X # {}
        BY DEF X
    <2> QED
        BY <2>1, <2>2, FS_EmptySet, FS_CardinalityType
<1>6. RankBeam \in Nat \ {0}
    BY RankingAssumption DEF RankingAssumption
<1>7. /\ FirstOf(sorted, RankBeam) \in Seq(X)
      /\ Len(FirstOf(sorted, RankBeam)) = IF RankBeam <= Len(sorted) THEN RankBeam ELSE Len(sorted)
    BY <1>4, <1>6, FirstOfIs
<1>8. next \in Seq(X) /\ Len(next) >= 1
    BY <1>4, <1>5, <1>6, <1>7 DEF sorted, X
<1>9. /\ Len(next) \in Nat /\ next = [i \in 1..Len(next) |-> next[i]]
      /\ \A i \in 1..Len(next) : next[i] \in X
    BY <1>8, LenProperties
<1> QED
    BY <1>2, <1>8, <1>9 DEF AreStates

\* The beam goes on from the states it has, or there is no game left to add.
LEMMA ExtendBeamStep ==
    ASSUME RankingInv, ExtendBeam
    PROVE  RankingInv'
<1>1. /\ rankStage = "beam" /\ Len(beam[1].games) < rankAsk.games
      /\ UNCHANGED <<rankAsk, rankCore, rankPool, offered, heap, sifting, groups, sampled,
                     rankCap, rankBatch>>
    BY DEF ExtendBeam
<1>2. PICK k \in 0..rankAsk.games : \A i \in 1..Len(beam) : StateFits(beam[i], k)
    BY <1>1, BeamIs
<1>3. DOMAIN beam = 1..Len(beam) /\ 1 \in 1..Len(beam) /\ rankAsk.games \in Nat
    BY <1>1, BeamIs
<1>4. Len(beam[1].games) = k
    BY <1>2, <1>3 DEF StateFits
<1>5. k \in Nat /\ k < rankAsk.games /\ k + 1 \in 0..rankAsk.games
    BY <1>1, <1>3, <1>4
<1>6. IF Expanded(k) = {} THEN rankStage' = "no portfolio" /\ beam' = <<>>
      ELSE rankStage' = "beam" /\ beam' = FirstOf(InOrder(Expanded(k), BetterState), RankBeam)
    BY <1>3, <1>4 DEF ExtendBeam, Expanded
<1>7. rankStage' \in {"beam", "no portfolio"}
    BY <1>6
<1>8. rankStage' = "no portfolio" => (Cardinality(Yielded) < rankAsk.games)'
    <2>1. Expanded(k) = {} => Cardinality(Yielded) < rankAsk.games
        BY <1>1, <1>2, <1>3, <1>5, NoneFollows
    <2>2. Yielded' = Yielded
        BY <1>1, SameYielded
    <2> QED
        BY <1>1, <1>6, <2>1, <2>2
<1>9. BeamInv'
    <2>1. CASE Expanded(k) = {}
        <3>1. beam' = <<>> /\ rankStage' = "no portfolio"
            BY <1>6, <2>1
        <3>2. Len(beam') = 0 /\ \A i \in 1..0 : FALSE
            <4>1. \A i \in 1..0 : FALSE
                OBVIOUS
            <4>2. Len(<<>>) = 0
                OBVIOUS
            <4> QED
                BY <3>1, <4>1, <4>2
        <3>3. <<>> = [i \in 1..0 |-> <<>>[i]]
            <4>1. <<>> \in Seq({}) /\ Len(<<>>) = 0
                OBVIOUS
            <4> QED
                BY <4>1, LenProperties
        <3>4. beam' = [i \in 1..Len(beam') |-> beam'[i]]
            BY <3>1, <3>2, <3>3
        <3> QED
            BY <3>1, <3>2, <3>4 DEF BeamInv
    <2>2. CASE Expanded(k) # {}
        <3>1. beam' = FirstOf(InOrder(Expanded(k), BetterState), RankBeam)
            BY <1>6, <2>2
        <3> DEFINE next == beam'
        <3> HIDE DEF next
        <3>2. /\ Len(next) \in Nat /\ next = [i \in 1..Len(next) |-> next[i]] /\ Len(next) >= 1
              /\ \A i \in 1..Len(next) : StateFits(next[i], k + 1)
            BY <1>1, <1>2, <1>5, <2>2, <3>1, BeamFollows DEF next
        <3>3. \A i \in 1..Len(next) : Elements(next[i].games) \subseteq Candidate
                                       /\ next[i].score \in Int
            <4>1. ASSUME NEW i \in 1..Len(next)
                  PROVE  Elements(next[i].games) \subseteq Candidate /\ next[i].score \in Int
                <5>1. next[i].games \in Seq(Candidate) /\ next[i].score \in Int
                    BY <3>2 DEF StateFits
                <5> QED
                    BY <5>1 DEF Elements
            <4> QED
                BY <4>1
        <3> DEFINE m == k + 1
        <3>4. m \in 0..rankAsk.games /\ \A i \in 1..Len(next) : StateFits(next[i], m)
            BY <1>5, <3>2
        <3> HIDE DEF m
        <3>5. \A i \in 1..Len(beam') : StateFits(beam[i], m)'
            BY <1>1, <3>4 DEF StateFits, next
        <3>6. m \in 0..rankAsk'.games
            BY <1>1, <3>4
        <3> QED
            BY <3>2, <3>3, <3>5, <3>6 DEF BeamInv, next
    <2> QED
        BY <2>1, <2>2
<1>10. CoreInv' /\ PoolInv'
    BY <1>1, <1>7, ChosenFrame DEF Generating
<1>11. GroupsInv'
    BY <1>1, <1>7, SameGroups DEF RankingInv
<1>12. HeapInv'
    BY <1>1, <1>7, SameHeap DEF RankingInv, Walking
<1>13. SampledInv' /\ BatchInv'
    BY <1>1, <1>7, SameSampled, SameBatch DEF RankingInv
<1> QED
    BY <1>1, <1>7, <1>8, <1>9, <1>10, <1>11, <1>12, <1>13 DEF RankingInv, Ends

\* What is yielded fits the request.
LEMMA YieldedFits ==
    ASSUME RankingInv, rankStage \in Generating, NEW g \in Yielded
    PROVE  GameFits(g)
<1>1. rankCore \in SUBSET Balls /\ rankCore \cap rankAsk.excluded = {}
    BY DEF RankingInv, CoreInv, ProfileCore, CoreSuits
<1>2. /\ rankPool \in SUBSET Balls /\ rankPool \cap rankAsk.excluded = {}
      /\ rankCore \cap rankPool = {}
    BY DEF RankingInv, PoolInv, Available
<1>3. g \in Walk /\ Yields(g)
    BY DEF Yielded
<1>4. /\ g \in SUBSET Balls /\ rankCore \subseteq g /\ g \subseteq rankCore \cup rankPool
      /\ Cardinality(g) = BallsDrawn
    BY <1>1, <1>2, <1>3, WalkIs
<1>5. MeetsConstraints(g)
    BY <1>3 DEF Yields, MegaSenaYields, LotofacilYields, DiaDeSorteYields
<1> QED
    BY <1>1, <1>2, <1>4, <1>5 DEF GameFits

\* What is drawn is of what it is drawn from.
LEMMA DrawableIs ==
    ASSUME NEW T, NEW s \in Seq(T), NEW n \in Nat, NEW x \in Drawable(s, n)
    PROVE  \E i \in 1..Len(s) : x = s[i]
<1> DEFINE m == IF rankAsk.mode = "deterministic" THEN 1 ELSE n
<1>1. m \in Nat
    OBVIOUS
<1>2. x \in Elements(FirstOf(s, m))
    BY DEF Drawable
<1> HIDE DEF m
<1>3. Elements(FirstOf(s, m)) \subseteq Elements(s)
    BY <1>1, FirstOfIs
<1>4. DOMAIN s = 1..Len(s)
    OBVIOUS
<1> QED
    BY <1>2, <1>3, <1>4 DEF Elements

\* The portfolio that is drawn is a batch that was asked for.
LEMMA ChoosePortfolioStep ==
    ASSUME RankingInv, ChoosePortfolio
    PROVE  RankingInv'
<1>1. /\ rankStage = "beam" /\ Len(beam[1].games) = rankAsk.games
      /\ rankStage' = "done"
      /\ UNCHANGED <<rankAsk, rankCore, rankPool, offered, heap, sifting, groups, beam, sampled,
                     rankCap>>
    BY DEF ChoosePortfolio
<1>2. PICK k \in 0..rankAsk.games : \A i \in 1..Len(beam) : StateFits(beam[i], k)
    BY <1>1, BeamIs
<1>3. 1 \in 1..Len(beam) /\ rankAsk.games \in Nat
      /\ \A i \in 1..rankAsk.games : GroupFits(groups[i])
    BY <1>1, BeamIs
<1>4. k = rankAsk.games
    BY <1>1, <1>2, <1>3 DEF StateFits
<1>5. PICK s \in Drawable(beam, PickWindow) : rankBatch' = Shape(s.games)
    BY DEF ChoosePortfolio
<1>6. StateFits(s, k)
    <2> DEFINE n == Len(beam)
               T == {beam[i] : i \in 1..n}
    <2>1. n \in Nat /\ beam = [i \in 1..n |-> beam[i]]
        BY <1>1 DEF RankingInv, BeamInv
    <2>2. beam \in Seq(T)
        BY <2>1
    <2>3. PickWindow \in Nat
        BY RankingAssumption DEF RankingAssumption
    <2> HIDE DEF T
    <2>4. \E i \in 1..n : s = beam[i]
        BY <2>2, <2>3, DrawableIs
    <2> QED
        BY <1>2, <2>4
<1>7. /\ s.games \in Seq(Candidate) /\ Len(s.games) = k /\ k \in Nat
      /\ \A i \in 1..k : s.games[i] \in Elements(groups[i])
      /\ \A i, j \in 1..k : s.games[i].numbers = s.games[j].numbers => i = j
    BY <1>6 DEF StateFits
<1>8. rankBatch' = [i \in 1..k |-> s.games[i].numbers]
    BY <1>5, <1>7 DEF Shape
<1>9. \A i \in 1..k : GameFits(s.games[i].numbers)
    <2>1. ASSUME NEW i \in 1..k
          PROVE  s.games[i].numbers \in Yielded
        BY <1>3, <1>4, <1>7 DEF GroupFits
    <2> QED
        BY <1>1, <2>1, YieldedFits DEF Generating
<1>10. /\ rankBatch' \in Seq(SUBSET Balls) /\ Len(rankBatch') = k
       /\ \A i \in 1..k : rankBatch'[i] = s.games[i].numbers
    <2>1. \A i \in 1..k : s.games[i].numbers \in SUBSET Balls
        BY <1>9 DEF GameFits
    <2> QED
        BY <1>7, <1>8, <2>1
<1>11. CoreSuits /\ Cardinality(rankCore) = rankAsk.core /\ RepeatsIn(rankCore) <= RepeatLimit
       /\ rankAsk.purpose = "profile"
    BY <1>1 DEF RankingInv, CoreInv, ProfileCore, Generating
<1>12. /\ CoreSuits' /\ (Cardinality(rankCore) = rankAsk.core)'
       /\ (RepeatsIn(rankCore) <= RepeatLimit)'
       /\ rankAsk'.purpose = "profile"
    <2>1. CoreSuits' = CoreSuits /\ RepeatLimit' = RepeatLimit
        BY <1>1, SameCore
    <2> QED
        BY <1>1, <1>11, <2>1 DEF RepeatsIn
<1>13. BatchFits'
    <2>1. \A i \in 1..Len(rankBatch') : GameFits(rankBatch[i])'
        <3>1. \A g : GameFits(g)' = GameFits(g)
            BY <1>1, SameCore
        <3>2. \A i \in 1..Len(rankBatch') : GameFits(rankBatch'[i])
            BY <1>9, <1>10
        <3> QED
            BY <1>1, <3>2 DEF GameFits, MeetsConstraints, OddIn, RepeatsIn
    <2>2. \A i, j \in 1..Len(rankBatch') : rankBatch'[i] = rankBatch'[j] => i = j
        BY <1>7, <1>10
    <2> QED
        BY <1>12, <2>1, <2>2 DEF BatchFits
<1>14. BatchInv'
    BY <1>1, <1>4, <1>10, <1>12, <1>13 DEF BatchInv
<1>15. CoreInv'
    BY <1>1, <1>11, <1>12 DEF CoreInv, CoreSuits, Generating, Walking, Drawing
<1>16. PoolInv'
    BY <1>1 DEF RankingInv, PoolInv, Generating, Walking
<1>17. GroupsInv' /\ BeamInv'
    BY <1>1, SameGroups, SameBeam DEF RankingInv
<1>18. HeapInv'
    BY <1>1, SameHeap DEF RankingInv, Walking
<1>19. SampledInv'
    BY <1>1 DEF RankingInv, SampledInv
<1> QED
    BY <1>1, <1>14, <1>15, <1>16, <1>17, <1>18, <1>19 DEF RankingInv, Ends

-----------------------------------------------------------------------------
(* The pool: buildStratifiedCandidatePool (shared.ts), and the pool of the *)
(* article's rules, buildCandidatePool (megaSena.ts).                      *)

\* A list has at most as many members as places.
LEMMA ElementsAre ==
    ASSUME NEW T, NEW s \in Seq(T)
    PROVE  /\ IsFiniteSet(Elements(s)) /\ Cardinality(Elements(s)) <= Len(s)
           /\ Elements(s) \subseteq T /\ Cardinality(Elements(s)) \in Nat
<1> DEFINE n == Len(s)
           f == [i \in 1..n |-> s[i]]
<1>1. n \in Nat /\ DOMAIN s = 1..n /\ \A i \in 1..n : s[i] \in T
    OBVIOUS
<1>2. Elements(s) = {s[i] : i \in 1..n}
    BY <1>1 DEF Elements
<1>3. f \in Surjection(1..n, Elements(s))
    BY <1>2 DEF Surjection
<1>4. IsFiniteSet(1..n) /\ Cardinality(1..n) = n
    <2> HIDE DEF n
    <2> QED
        BY <1>1, FS_Interval
<1> HIDE DEF f
<1>5. IsFiniteSet(Elements(s)) /\ Cardinality(Elements(s)) <= n
    BY <1>3, <1>4, FS_Surjection
<1> QED
    BY <1>1, <1>2, <1>5, FS_CardinalityType

\* One member more is at most one more.
LEMMA AtMostOneMore ==
    ASSUME NEW S, IsFiniteSet(S), NEW x
    PROVE  Cardinality(S \cup {x}) <= Cardinality(S) + 1
<1>1. Cardinality(S) \in Nat
    BY FS_CardinalityType
<1>2. CASE x \in S
    <2>1. S \cup {x} = S
        BY <1>2
    <2> QED
        BY <1>1, <2>1
<1>3. CASE x \notin S
    <2>1. Cardinality(S \cup {x}) = Cardinality(S) + 1
        BY <1>3, OneMoreSeen
    <2> QED
        BY <1>1, <2>1
<1> QED
    BY <1>2, <1>3

\* Two sets together have at most as many members as both.
LEMMA UnionAtMost ==
    ASSUME NEW S, IsFiniteSet(S), NEW T, IsFiniteSet(T)
    PROVE  Cardinality(S \cup T) <= Cardinality(S) + Cardinality(T) /\ IsFiniteSet(S \cup T)
<1>1. IsFiniteSet(S \cap T)
    BY FS_Subset
<1>2. /\ IsFiniteSet(S \cup T)
      /\ Cardinality(S \cup T) = Cardinality(S) + Cardinality(T) - Cardinality(S \cap T)
    BY FS_Union
<1>3. Cardinality(S) \in Nat /\ Cardinality(T) \in Nat /\ Cardinality(S \cap T) \in Nat
    BY <1>1, FS_CardinalityType
<1> QED
    BY <1>2, <1>3

\* Numbers by score: all of them, or the first.
LEMMA ByScoreIs ==
    ASSUME rankAsk \in RankAsks, NEW S \in SUBSET Balls
    PROVE  /\ ByScore(S) \in Seq(S) /\ Len(ByScore(S)) = Cardinality(S)
           /\ Elements(ByScore(S)) = S /\ Cardinality(S) \in Nat
<1> DEFINE s == InOrder(S, HigherScore)
<1>1. IsOrder(ScorePairs(S), S) /\ Ordered(s, S, ScorePairs(S))
    BY NumbersByScore
<1>2. IsFiniteSet(S) /\ Cardinality(S) \in Nat
    BY BallsFinite
<1>3. ByScore(S) = s
    BY DEF ByScore
<1> HIDE DEF s
<1>4. Elements(s) = S
    BY <1>1, <1>2, OrderedHas
<1> QED
    BY <1>1, <1>2, <1>3, <1>4 DEF Ordered

\* The best k of a set are at most k of its members.
LEMMA TopScoredIs ==
    ASSUME rankAsk \in RankAsks, NEW S \in SUBSET Balls, NEW k \in Nat
    PROVE  /\ TopScored(S, k) \subseteq S /\ IsFiniteSet(TopScored(S, k))
           /\ Cardinality(TopScored(S, k)) <= k /\ Cardinality(TopScored(S, k)) \in Nat
<1> DEFINE f == FirstOf(ByScore(S), k)
<1>1. f \in Seq(S) /\ Len(f) <= k
    BY ByScoreIs, FirstOfIs
<1>2. TopScored(S, k) = Elements(f)
    BY DEF TopScored
<1> HIDE DEF f
<1>3. Len(f) \in Nat
    BY <1>1
<1>4. /\ IsFiniteSet(Elements(f)) /\ Cardinality(Elements(f)) <= Len(f)
      /\ Elements(f) \subseteq S /\ Cardinality(Elements(f)) \in Nat
    BY <1>1, ElementsAre
<1> QED
    BY <1>1, <1>2, <1>3, <1>4

Filled(kept, ranked, k) == kept \cup Elements(SubSeq(ranked, 1, k))
Enough(kept, ranked, size, least) ==
    {k \in Min({least, Len(ranked)})..Len(ranked) : Cardinality(Filled(kept, ranked, k)) >= size}

\* The fill-up of a pool, with its parts named.
LEMMA FillUpUnfolds ==
    ASSUME NEW kept, NEW ranked, NEW size, NEW least
    PROVE  FillUp(kept, ranked, size, least)
              = Filled(kept, ranked, IF Enough(kept, ranked, size, least) = {} THEN Len(ranked)
                                     ELSE Min(Enough(kept, ranked, size, least)))
BY DEF FillUp, Filled, Enough

\* Part of what is ranked.
LEMMA FilledIs ==
    ASSUME NEW A, IsFiniteSet(A), NEW kept \in SUBSET A, NEW ranked \in Seq(A),
           NEW k \in 0..Len(ranked)
    PROVE  /\ Filled(kept, ranked, k) \in SUBSET A
           /\ Filled(kept, ranked, k) = kept \cup {ranked[i] : i \in 1..k}
           /\ IsFiniteSet(Filled(kept, ranked, k)) /\ Cardinality(Filled(kept, ranked, k)) \in Nat
<1>1. k \in Nat /\ DOMAIN SubSeq(ranked, 1, k) = 1..k
      /\ \A i \in 1..k : SubSeq(ranked, 1, k)[i] = ranked[i] /\ ranked[i] \in A
    OBVIOUS
<1>2. Filled(kept, ranked, k) = kept \cup {ranked[i] : i \in 1..k}
    BY <1>1 DEF Filled, Elements
<1>3. Filled(kept, ranked, k) \in SUBSET A
    BY <1>1, <1>2
<1>4. IsFiniteSet(Filled(kept, ranked, k))
    BY <1>3, FS_Subset
<1> QED
    BY <1>2, <1>3, <1>4, FS_CardinalityType

\* Where the filling stops.
LEMMA EnoughHas ==
    ASSUME NEW A, NEW kept, NEW ranked \in Seq(A), NEW size, NEW least \in Nat,
           Enough(kept, ranked, size, least) # {}
    PROVE  /\ Min(Enough(kept, ranked, size, least)) \in Enough(kept, ranked, size, least)
           /\ \A k \in Enough(kept, ranked, size, least) :
                 Min(Enough(kept, ranked, size, least)) <= k
           /\ Enough(kept, ranked, size, least) \subseteq 0..Len(ranked)
<1> DEFINE n == Len(ranked)
           a == Min({least, n})
           E == Enough(kept, ranked, size, least)
<1>1. n \in Nat
    OBVIOUS
<1>2. a = IF least <= n THEN least ELSE n
    BY <1>1, OfTwo
<1>3. E \subseteq a..n
    BY DEF Enough
<1> HIDE DEF n, a, E
<1>4. a \in Nat
    BY <1>1, <1>2
<1>5. E \subseteq 0..n /\ E \in SUBSET Int
    BY <1>1, <1>3, <1>4
<1>6. IsFiniteSet(E)
    <2>1. IsFiniteSet(0..n)
        BY <1>1, FS_Interval
    <2> QED
        BY <1>5, <2>1, FS_Subset
<1>7. Min(E) \in E /\ \A k \in E : Min(E) <= k
    BY <1>5, <1>6, MinOf DEF E
<1> QED
    BY <1>5, <1>7 DEF E, n

\* A pool that is filled up is of what is available.
LEMMA FillUpIs ==
    ASSUME NEW A, IsFiniteSet(A), NEW kept \in SUBSET A, NEW ranked \in Seq(A),
           NEW size, NEW least \in Nat
    PROVE  FillUp(kept, ranked, size, least) \in SUBSET A
<1> DEFINE E == Enough(kept, ranked, size, least)
           k == IF E = {} THEN Len(ranked) ELSE Min(E)
<1>1. k \in 0..Len(ranked)
    <2>1. CASE E = {}
        BY <2>1
    <2>2. CASE E # {}
        BY <2>2, EnoughHas
    <2> QED
        BY <2>1, <2>2
<1>2. FillUp(kept, ranked, size, least) = Filled(kept, ranked, k)
    BY FillUpUnfolds
<1> HIDE DEF k
<1>3. Filled(kept, ranked, k) \in SUBSET A
    BY <1>1, FilledIs
<1> QED
    BY <1>2, <1>3

\* The numbers are added one at a time, so the filling stops at the size.
LEMMA FillUpSize ==
    ASSUME NEW A, IsFiniteSet(A), NEW kept \in SUBSET A, NEW ranked \in Seq(A),
           Elements(ranked) = A, NEW size \in Nat, Cardinality(kept) <= size,
           size <= Cardinality(A)
    PROVE  Cardinality(FillUp(kept, ranked, size, 0)) = size
<1> DEFINE E == Enough(kept, ranked, size, 0)
           n == Len(ranked)
           k == Min(E)
           C(i) == Cardinality(Filled(kept, ranked, i))
<1>1. n \in Nat /\ DOMAIN ranked = 1..n
    OBVIOUS
<1>2. \A i \in 0..n : C(i) \in Nat
    BY FilledIs
<1>3. Min({0, n}) = 0
    BY <1>1, OfTwo
<1>4. E = {i \in 0..n : C(i) >= size}
    BY <1>3 DEF Enough
<1>5. C(n) = Cardinality(A)
    <2>1. n \in 0..n
        BY <1>1
    <2>2. Filled(kept, ranked, n) = kept \cup {ranked[i] : i \in 1..n}
        <3> DEFINE m == n
        <3>1. m \in 0..Len(ranked)
            BY <2>1
        <3> HIDE DEF m
        <3>2. Filled(kept, ranked, m) = kept \cup {ranked[i] : i \in 1..m}
            BY <3>1, FilledIs
        <3> QED
            BY <3>2 DEF m
    <2>3. {ranked[i] : i \in 1..n} = A
        BY <1>1 DEF Elements
    <2>4. Filled(kept, ranked, n) = A
        BY <2>2, <2>3
    <2> QED
        BY <2>4
<1>6. n \in E
    BY <1>1, <1>4, <1>5
<1>7. k \in E /\ \A i \in E : k <= i
    BY <1>6, EnoughHas
<1>8. FillUp(kept, ranked, size, 0) = Filled(kept, ranked, k)
    BY <1>6, FillUpUnfolds
<1> HIDE DEF E, k
<1>9. k \in 0..n /\ C(k) >= size
    BY <1>4, <1>7
<1>10. CASE k = 0
    <2>1. Filled(kept, ranked, 0) = kept
        <3>1. Filled(kept, ranked, 0) = kept \cup {ranked[i] : i \in 1..0}
            BY <1>9, <1>10, FilledIs
        <3>2. {ranked[i] : i \in 1..0} = {}
            OBVIOUS
        <3> QED
            BY <3>1, <3>2
    <2>2. C(k) <= size
        BY <1>10, <2>1
    <2> QED
        BY <1>2, <1>8, <1>9, <2>2
<1>11. CASE k # 0
    <2> DEFINE j == k - 1
               P == Filled(kept, ranked, j)
    <2>1. j \in 0..n /\ k \in 1..n /\ 1..k = 1..j \cup {k} /\ ~(k <= j)
        BY <1>1, <1>9, <1>11
    <2>2. C(j) < size
        <3>1. j \notin E
            BY <1>7, <2>1
        <3> QED
            BY <1>2, <1>4, <2>1, <3>1
    <2>3. Filled(kept, ranked, k) = kept \cup {ranked[i] : i \in 1..k}
        BY <1>9, FilledIs
    <2>4. P = kept \cup {ranked[i] : i \in 1..j} /\ IsFiniteSet(P)
        <3> HIDE DEF j
        <3> QED
            BY <2>1, FilledIs
    <2>5. Filled(kept, ranked, k) = P \cup {ranked[k]}
        BY <2>1, <2>3, <2>4
    <2> HIDE DEF P
    <2>6. Cardinality(P \cup {ranked[k]}) <= Cardinality(P) + 1
        BY <2>4, AtMostOneMore
    <2>7. C(k) <= C(j) + 1
        BY <2>5, <2>6 DEF P
    <2> HIDE DEF j, C
    <2> QED
        BY <1>2, <1>8, <1>9, <2>1, <2>2, <2>7 DEF C
<1> QED
    BY <1>10, <1>11

\* The shares of the tiers fit in the pool.
LEMMA QuotasFit ==
    /\ Quota("strong") \in Nat /\ Quota("balanced") \in Nat /\ Quota("cold") \in Nat
    /\ Quota("strong") + Quota("balanced") + Quota("cold") <= StratumLimit
<1> DEFINE a == (StratumLimit * 50) \div 100
           b == (StratumLimit * 35) \div 100
           c == (StratumLimit * 15) \div 100
<1>1. StratumLimit \in Nat /\ StratumLimit >= 3
    BY RankingAssumption DEF RankingAssumption
<1>2. /\ Quota("strong") = IF a = 0 THEN 1 ELSE a
      /\ Quota("balanced") = IF b = 0 THEN 1 ELSE b
      /\ Quota("cold") = IF c = 0 THEN 1 ELSE c
    BY DEF Quota
<1>3. /\ a \in Nat /\ 100 * a <= StratumLimit * 50 /\ StratumLimit * 50 < 100 * a + 100
      /\ b \in Nat /\ 100 * b <= StratumLimit * 35 /\ StratumLimit * 35 < 100 * b + 100
      /\ c \in Nat /\ 100 * c <= StratumLimit * 15 /\ StratumLimit * 15 < 100 * c + 100
    BY <1>1
<1> HIDE DEF a, b, c
<1> QED
    BY <1>1, <1>2, <1>3

\* The stratified pool is all that is left, or as much as its limit.
LEMMA StratifiedIs ==
    ASSUME rankAsk \in RankAsks
    PROVE  /\ StratifiedPool \subseteq Available
           /\ Cardinality(StratifiedPool)
                 = IF Cardinality(Available) <= StratumLimit THEN Cardinality(Available)
                   ELSE StratumLimit
<1> DEFINE A == Available
           OfTier(tier) == {n \in A : rankAsk.rows[n].tier = tier}
           Part(t) == TopScored(OfTier(t), Quota(t))
           kept == UNION {Part(t) : t \in {"strong", "balanced", "cold"}}
<1>1. A \in SUBSET Balls /\ IsFiniteSet(A) /\ Cardinality(A) \in Nat
    BY BallsFinite DEF Available
<1>2. StratifiedPool = IF Cardinality(A) <= StratumLimit THEN A
                       ELSE FillUp(kept, ByScore(A), StratumLimit, 0)
    BY DEF StratifiedPool
<1>3. StratumLimit \in Nat
    BY RankingAssumption DEF RankingAssumption
<1>4. CASE Cardinality(A) <= StratumLimit
    BY <1>2, <1>4
<1>5. CASE ~(Cardinality(A) <= StratumLimit)
    <2>1. kept = Part("strong") \cup Part("balanced") \cup Part("cold")
        OBVIOUS
    <2>2. ASSUME NEW t, Quota(t) \in Nat
          PROVE  /\ Part(t) \subseteq A /\ IsFiniteSet(Part(t))
                 /\ Cardinality(Part(t)) <= Quota(t) /\ Cardinality(Part(t)) \in Nat
        <3>1. OfTier(t) \in SUBSET Balls /\ OfTier(t) \subseteq A
            BY <1>1
        <3> HIDE DEF OfTier
        <3> QED
            BY <2>2, <3>1, TopScoredIs
    <2> DEFINE x == Part("strong")
               y == Part("balanced")
               z == Part("cold")
    <2>3. /\ x \subseteq A /\ IsFiniteSet(x) /\ Cardinality(x) <= Quota("strong")
          /\ y \subseteq A /\ IsFiniteSet(y) /\ Cardinality(y) <= Quota("balanced")
          /\ z \subseteq A /\ IsFiniteSet(z) /\ Cardinality(z) <= Quota("cold")
          /\ Cardinality(x) \in Nat /\ Cardinality(y) \in Nat /\ Cardinality(z) \in Nat
        BY <2>2, QuotasFit
    <2> HIDE DEF x, y, z
    <2>4. Cardinality(x \cup y) <= Cardinality(x) + Cardinality(y) /\ IsFiniteSet(x \cup y)
        BY <2>3, UnionAtMost
    <2>5. Cardinality((x \cup y) \cup z) <= Cardinality(x \cup y) + Cardinality(z)
          /\ IsFiniteSet((x \cup y) \cup z)
        BY <2>3, <2>4, UnionAtMost
    <2>6. kept = (x \cup y) \cup z
        BY <2>1 DEF x, y, z
    <2> HIDE DEF kept
    <2>7. kept \in SUBSET A /\ IsFiniteSet(kept)
        BY <2>3, <2>5, <2>6
    <2>8. Cardinality(x \cup y) \in Nat /\ Cardinality(kept) \in Nat
        BY <2>4, <2>7, FS_CardinalityType
    <2>9. Cardinality(kept) <= StratumLimit
        BY <1>3, <2>3, <2>4, <2>5, <2>6, <2>8, QuotasFit
    <2>10. ByScore(A) \in Seq(A) /\ Elements(ByScore(A)) = A
        BY <1>1, ByScoreIs
    <2>11. StratumLimit <= Cardinality(A)
        BY <1>1, <1>3, <1>5
    <2> HIDE DEF A
    <2>12. FillUp(kept, ByScore(A), StratumLimit, 0) \in SUBSET A
        BY <1>1, <2>7, <2>10, FillUpIs
    <2>13. Cardinality(FillUp(kept, ByScore(A), StratumLimit, 0)) = StratumLimit
        BY <1>1, <1>3, <2>7, <2>9, <2>10, <2>11, FillUpSize
    <2> QED
        BY <1>2, <1>5, <2>12, <2>13 DEF A
<1> QED
    BY <1>4, <1>5

\* The pool of the article's rules is of what is left.
LEMMA RulesPoolIs ==
    ASSUME rankAsk \in RankAsks
    PROVE  RulesPool \subseteq Available
<1> DEFINE A == Available
           preferred == TopScored(A \cap PreferredBalls, 2 + 3)
           quadrants == UNION {TopScored({n \in A : Quadrant(n) = q}, 2) :
                                 q \in {Quadrant(n) : n \in Balls}}
           parity == UNION {TopScored({n \in A : n % 2 = p}, 4) : p \in {0, 1}}
           bestOfColumns == UNION {TopScored({n \in A : Column(n) = c}, 1) :
                                     c \in 0..GridWidth - 1}
           columns == TopScored(bestOfColumns, ColumnLimit)
           kept == UNION {IF "preferred" \in rankAsk.rules THEN preferred ELSE {},
                          IF "quadrants" \in rankAsk.rules THEN quadrants ELSE {},
                          IF "parity" \in rankAsk.rules THEN parity ELSE {},
                          IF "columns" \in rankAsk.rules THEN columns ELSE {}}
           size == Max({RulesPoolSize, Cardinality(kept)})
<1>1. A \in SUBSET Balls /\ IsFiniteSet(A)
    BY BallsFinite DEF Available
<1>2. RulesPool = FillUp(kept, ByScore(A), size, 1)
    BY DEF RulesPool
<1>3. \A S \in SUBSET A, k \in Nat : TopScored(S, k) \subseteq A
    BY <1>1, TopScoredIs
<1> HIDE DEF A
<1>4. preferred \subseteq A
    <2>1. A \cap PreferredBalls \in SUBSET A /\ 2 + 3 \in Nat
        OBVIOUS
    <2> QED
        BY <1>3, <2>1
<1>5. quadrants \subseteq A
    BY <1>3
<1>6. parity \subseteq A
    BY <1>3
<1>7. columns \subseteq A
    <2>1. bestOfColumns \subseteq A
        BY <1>3
    <2>2. ColumnLimit \in Nat
        BY RankingAssumption DEF RankingAssumption
    <2> HIDE DEF bestOfColumns
    <2> QED
        BY <1>3, <2>1, <2>2
<1> HIDE DEF preferred, quadrants, parity, columns
<1>8. kept \in SUBSET A
    BY <1>4, <1>5, <1>6, <1>7
<1> HIDE DEF kept, size
<1>9. ByScore(A) \in Seq(A)
    BY <1>1, ByScoreIs
<1>10. FillUp(kept, ByScore(A), size, 1) \in SUBSET A
    BY <1>1, <1>8, <1>9, FillUpIs
<1> QED
    BY <1>2, <1>10 DEF A

\* The pool that is built is the pool that was announced.
LEMMA PoolPlanned ==
    ASSUME rankAsk \in RankAsks, CoreSuits, AskIsSound, Cardinality(rankCore) = rankAsk.core
    PROVE  /\ CandidatePool \subseteq Available
           /\ ~(rankAsk.core = 0 /\ rankAsk.rules # {}) => Cardinality(CandidatePool) = PlannedPool
<1> DEFINE left == Cardinality(Available)
           rest == BallTop - Cardinality(rankAsk.excluded) - rankAsk.core
           limit == IF rankAsk.lottery = "lotofacil" THEN BallTop ELSE StratumLimit
<1>1. /\ rankCore \in SUBSET Balls /\ rankCore \cap rankAsk.excluded = {}
      /\ rankAsk.excluded \in SUBSET Balls /\ ~(Cardinality(rankAsk.manual) > rankAsk.core)
      /\ rankAsk.core \in Nat
    <2>1. Cardinality(rankAsk.manual) \in Nat
        BY BallsFinite DEF AskIsSound
    <2> QED
        BY <2>1, AskIs DEF CoreSuits, AskIsSound
<1>2. /\ IsFiniteSet(rankCore) /\ IsFiniteSet(rankAsk.excluded) /\ IsFiniteSet(Balls)
      /\ Cardinality(Balls) = BallTop /\ BallTop \in Nat /\ StratumLimit \in Nat
      /\ Cardinality(rankAsk.excluded) \in Nat
    BY <1>1, BallsFinite, RankingAssumption DEF RankingAssumption
<1>3. left = rest /\ left \in Nat /\ left <= BallTop
    <2> DEFINE T == rankCore \cup rankAsk.excluded
    <2>1. Cardinality(T) = Cardinality(rankCore) + Cardinality(rankAsk.excluded)
          /\ IsFiniteSet(T)
        <3>1. Cardinality(T) = Cardinality(rankCore) + Cardinality(rankAsk.excluded)
                               - Cardinality(rankCore \cap rankAsk.excluded)
              /\ IsFiniteSet(T)
            BY <1>2, FS_Union
        <3>2. Cardinality(rankCore \cap rankAsk.excluded) = 0
            BY <1>1, FS_EmptySet
        <3> HIDE DEF T
        <3>3. Cardinality(rankCore) \in Nat
            BY <1>1
        <3> QED
            BY <1>2, <3>1, <3>2, <3>3
    <2>2. Cardinality(Balls \ T) = Cardinality(Balls) - Cardinality(Balls \cap T)
          /\ IsFiniteSet(Balls \ T)
        BY <1>2, <2>1, FS_Difference
    <2>3. Balls \cap T = T
        BY <1>1
    <2>4. Cardinality(Balls \ T) \in Nat
        BY <2>2, FS_CardinalityType
    <2>5. Available = Balls \ T
        BY DEF Available
    <2> HIDE DEF T
    <2>6. left = BallTop - (rankAsk.core + Cardinality(rankAsk.excluded))
        BY <1>2, <2>1, <2>2, <2>3, <2>5
    <2> QED
        BY <1>1, <1>2, <2>4, <2>5, <2>6
<1>4. PlannedPool = IF left <= limit THEN left ELSE limit
    <2>1. Max({0, rest}) = left
        BY <1>3, OfTwo
    <2>2. limit \in Int
        BY <1>2
    <2>3. Min({left, limit}) = IF left <= limit THEN left ELSE limit
        BY <1>3, <2>2, OfTwo
    <2>4. PlannedPool = Min({Max({0, rest}), limit})
        BY <1>1 DEF PlannedPool
    <2> QED
        BY <2>1, <2>3, <2>4
<1>5. CASE rankAsk.lottery = "lotofacil"
    <2>1. CandidatePool = Available
        BY <1>5 DEF CandidatePool
    <2> QED
        BY <1>3, <1>4, <1>5, <2>1
<1>6. CASE rankAsk.lottery # "lotofacil" /\ rankAsk.lottery = "mega-sena" /\ rankAsk.core = 0
           /\ rankAsk.rules # {}
    <2>1. CandidatePool = RulesPool
        BY <1>6 DEF CandidatePool
    <2> QED
        BY <1>6, <2>1, RulesPoolIs
<1>7. CASE rankAsk.lottery # "lotofacil"
           /\ ~(rankAsk.lottery = "mega-sena" /\ rankAsk.core = 0 /\ rankAsk.rules # {})
    <2>1. CandidatePool = StratifiedPool
        BY <1>7 DEF CandidatePool
    <2> QED
        BY <1>4, <1>7, <2>1, StratifiedIs
<1> QED
    BY <1>5, <1>6, <1>7

-----------------------------------------------------------------------------
(* The core: selectProfiledFixedNumbers (shared.ts).                       *)

\* The offers are well formed after a step, too.
LEMMA OffersAreOk ==
    rankAsk \in RankAsks /\ rankCore \in SUBSET Balls /\ rankPool \in SUBSET Balls
      /\ rankCore \cap rankPool = {} /\ Len(groups) \in Nat => OffersOk
BY OffersAre

\* The same of the state after a step.
LEMMA OffersAreNext ==
    (rankAsk \in RankAsks /\ rankCore \in SUBSET Balls /\ rankPool \in SUBSET Balls
      /\ rankCore \cap rankPool = {} /\ Len(groups) \in Nat => OffersOk)'
BY OffersAreOk, PTL

\* While the core is picked nothing else has begun.
LEMMA NothingBegun ==
    ASSUME RankingInv, rankStage = "core"
    PROVE  /\ groups = <<>> /\ heap = <<>> /\ sifting = 0 /\ offered = 0 /\ rankBatch = <<>>
           /\ rankAsk \in RankAsks /\ rankCore \subseteq Balls \cup rankAsk.manual
BY DEF RankingInv, CoreInv, HeapInv, GroupsInv, BatchInv, Walking, Generating

\* A request is for a game at least.
LEMMA SomeGame ==
    ASSUME rankAsk \in RankAsks
    PROVE  0 < rankAsk.games
<1>1. rankAsk.games \in 1..ShortlistLimit /\ ShortlistLimit \in Nat
    BY AskIs, RankingAssumption DEF RankingAssumption
<1> QED
    BY <1>1

\* An empty list has no places.
LEMMA NoPlaces == 1..0 = {}
OBVIOUS

\* What the steps of the core leave alone.
LEMMA CoreFrame ==
    ASSUME RankingInv, rankStage = "core", rankStage' \in {"core", "no core", "refused", "offer"},
           UNCHANGED <<rankAsk, offered, heap, sifting, groups, beam, sampled, rankCap, rankBatch>>
    PROVE  /\ GroupsInv' /\ BeamInv' /\ SampledInv' /\ BatchInv'
           /\ rankStage' # "offer" => HeapInv'
<1>1. groups = <<>> /\ rankAsk \in RankAsks
    BY NothingBegun
<1>2. 1..0 = {}
    BY NoPlaces
<1>3. 0 < rankAsk.games
    BY <1>1, SomeGame
<1>4. groups' = <<>> /\ Len(groups') = 0 /\ groups' = groups /\ rankAsk' = rankAsk
    BY <1>1
<1>5. GroupsInv'
    <2>1. groups' = [i \in 1..Len(groups') |-> groups'[i]]
        BY <1>4 DEF RankingInv, GroupsInv
    <2>2. Len(groups') < rankAsk'.games
        BY <1>3, <1>4
    <2> QED
        BY <1>2, <1>4, <2>1, <2>2 DEF GroupsInv, Walking, Generating
<1>6. BeamInv'
    BY SameBeam DEF RankingInv
<1>7. SampledInv' /\ BatchInv'
    BY SameSampled, SameBatch DEF RankingInv
<1>8. rankStage' # "offer" => HeapInv'
    BY SameHeap DEF RankingInv, Walking
<1> QED
    BY <1>5, <1>6, <1>7, <1>8

\* A refused request changes nothing else.
LEMMA RefuseCoreStep ==
    ASSUME RankingInv, RefuseCore
    PROVE  RankingInv'
<1>1. /\ rankStage = "core" /\ rankStage' = "refused"
      /\ UNCHANGED <<rankAsk, rankCore, rankPool, offered, heap, sifting, groups, beam, sampled,
                     rankCap, rankBatch>>
    BY DEF RefuseCore
<1>2. GroupsInv' /\ BeamInv' /\ SampledInv' /\ BatchInv' /\ HeapInv'
    BY <1>1, CoreFrame
<1>3. CoreInv' /\ PoolInv'
    BY <1>1 DEF RankingInv, CoreInv, PoolInv, Generating, Walking, Drawing
<1> QED
    BY <1>1, <1>2, <1>3 DEF RankingInv, Ends

\* A core that cannot be completed still fits the request (selectProfiledFixedNumbers()).
LEMMA CoreFailsStep ==
    ASSUME RankingInv, CoreFails
    PROVE  RankingInv'
<1>1. /\ rankStage = "core" /\ rankStage' = "no core" /\ rankAsk.purpose = "profile"
      /\ AskIsSound /\ CoreIsSound
      /\ UNCHANGED <<rankAsk, rankCore, rankPool, offered, heap, sifting, groups, beam, sampled,
                     rankCap, rankBatch>>
    BY DEF CoreFails
<1>2. GroupsInv' /\ BeamInv' /\ SampledInv' /\ BatchInv' /\ HeapInv'
    BY <1>1, CoreFrame
<1>3. CoreSuits'
    BY <1>1, SameCore DEF RankingInv, CoreInv, ProfileCore
<1>4. CoreInv' /\ PoolInv'
    BY <1>1, <1>3 DEF RankingInv, CoreInv, PoolInv, Generating, Walking, Drawing
<1> QED
    BY <1>1, <1>2, <1>4 DEF RankingInv, Ends

\* A number that may be picked keeps the core within the repeats allowed.
LEMMA PickedFits ==
    ASSUME rankAsk \in RankAsks, ProfileCore, Cardinality(rankCore) < rankAsk.core,
           NEW n \in Selectable
    PROVE  /\ rankCore \cup {n} \in SUBSET Balls
           /\ (rankCore \cup {n}) \cap rankAsk.excluded = {}
           /\ Cardinality(rankCore \cup {n}) <= rankAsk.core
           /\ RepeatsIn(rankCore \cup {n}) <= RepeatLimit
<1>1. /\ rankCore \in SUBSET Balls /\ rankCore \cap rankAsk.excluded = {}
      /\ RepeatsIn(rankCore) <= RepeatLimit
    BY DEF ProfileCore, CoreSuits
<1>2. /\ n \in Balls /\ n \notin rankCore /\ n \notin rankAsk.excluded
      /\ RepeatsIn(rankCore) < RepeatLimit \/ n \notin rankAsk.last
    BY DEF Selectable
<1>3. IsFiniteSet(rankCore) /\ Cardinality(rankCore) \in Nat /\ rankAsk.core \in Nat
    BY <1>1, BallsFinite, AskIs
<1>4. Cardinality(rankCore \cup {n}) = Cardinality(rankCore) + 1
    BY <1>2, <1>3, OneMoreSeen
<1>5. RepeatsIn(rankCore) \in Nat
    BY <1>1, CountsOf
<1>6. RepeatLimit \in Int
    BY <1>3, OfTwo DEF RepeatLimit
<1>7. RepeatsIn(rankCore \cup {n}) <= RepeatLimit
    <2> DEFINE S == rankCore \cap rankAsk.last
    <2>1. CASE n \notin rankAsk.last
        <3>1. (rankCore \cup {n}) \cap rankAsk.last = S
            BY <2>1
        <3> QED
            BY <1>1, <3>1 DEF RepeatsIn
    <2>2. CASE n \in rankAsk.last
        <3>1. (rankCore \cup {n}) \cap rankAsk.last = S \cup {n} /\ n \notin S
            BY <1>2, <2>2
        <3>2. IsFiniteSet(S)
            BY <1>3, FS_Subset
        <3>3. Cardinality(S) = RepeatsIn(rankCore)
            BY DEF RepeatsIn
        <3> HIDE DEF S
        <3>4. Cardinality(S \cup {n}) = Cardinality(S) + 1
            BY <3>1, <3>2, OneMoreSeen
        <3>5. RepeatsIn(rankCore \cup {n}) = RepeatsIn(rankCore) + 1
            BY <3>1, <3>3, <3>4 DEF RepeatsIn
        <3> QED
            BY <1>2, <1>5, <1>6, <2>2, <3>5
    <2> QED
        BY <2>1, <2>2
<1> QED
    BY <1>1, <1>2, <1>3, <1>4, <1>7

\* A picked number keeps the core within the request and the repeat limit.
LEMMA PickCoreStep ==
    ASSUME RankingInv, PickCore
    PROVE  RankingInv'
<1>1. /\ rankStage = "core" /\ rankStage' = "core" /\ rankAsk.purpose = "profile"
      /\ AskIsSound /\ CoreIsSound /\ Cardinality(rankCore) < rankAsk.core
      /\ UNCHANGED <<rankAsk, rankPool, offered, heap, sifting, groups, beam, sampled,
                     rankCap, rankBatch>>
    BY DEF PickCore
<1>2. PICK n \in Drawable(PickOrder, PickWindow) : rankCore' = rankCore \cup {n}
    BY DEF PickCore
<1>3. rankAsk \in RankAsks /\ ProfileCore
    BY <1>1 DEF RankingInv, CoreInv
<1>4. n \in Selectable
    <2> DEFINE S == Selectable
    <2>1. S \in SUBSET Balls
        BY DEF Selectable
    <2> HIDE DEF S
    <2>2. Ordered(InOrder(S, PickedBefore), S, PickPairs(S))
        BY <1>3, <2>1, NumbersToPick
    <2> DEFINE s == InOrder(S, PickedBefore)
    <2>3. s \in Seq(S) /\ \A i \in 1..Len(s) : s[i] \in S
        BY <2>2 DEF Ordered
    <2>4. PickOrder = s
        BY DEF PickOrder, S
    <2> HIDE DEF s
    <2>5. PickWindow \in Nat
        BY RankingAssumption DEF RankingAssumption
    <2>6. \E i \in 1..Len(s) : n = s[i]
        BY <2>3, <2>4, <2>5, DrawableIs
    <2> QED
        BY <2>3, <2>6 DEF S
<1>5. /\ rankCore' \in SUBSET Balls /\ rankCore' \cap rankAsk.excluded = {}
      /\ Cardinality(rankCore') <= rankAsk.core /\ RepeatsIn(rankCore') <= RepeatLimit
    BY <1>1, <1>2, <1>3, <1>4, PickedFits
<1>6. RepeatsIn(rankCore)' = RepeatsIn(rankCore') /\ RepeatLimit' = RepeatLimit
    BY <1>1 DEF RepeatsIn, RepeatLimit
<1>7. rankAsk.manual \subseteq rankCore'
    BY <1>2, <1>3 DEF ProfileCore, CoreSuits
<1>8. ProfileCore'
    BY <1>1, <1>5, <1>6, <1>7 DEF ProfileCore, CoreSuits
<1>9. GroupsInv' /\ BeamInv' /\ SampledInv' /\ BatchInv' /\ HeapInv'
    BY <1>1, CoreFrame
<1>10. CoreInv' /\ PoolInv'
    BY <1>1, <1>5, <1>8 DEF RankingInv, CoreInv, PoolInv, Generating, Walking, Drawing
<1> QED
    BY <1>1, <1>3, <1>9, <1>10 DEF RankingInv, Ends

\* The pool is of what is available, and of the size that was announced.
LEMMA BuildPoolStep ==
    ASSUME RankingInv, BuildPool
    PROVE  RankingInv'
<1>1. /\ rankStage = "core" /\ rankStage' = "offer" /\ rankAsk.purpose = "profile"
      /\ AskIsSound /\ CoreIsSound /\ Cardinality(rankCore) = rankAsk.core
      /\ rankPool' = CandidatePool
      /\ UNCHANGED <<rankAsk, rankCore, offered, heap, sifting, groups, beam, sampled,
                     rankCap, rankBatch>>
    BY DEF BuildPool
<1>2. rankAsk \in RankAsks /\ ProfileCore /\ CoreSuits
    BY <1>1 DEF RankingInv, CoreInv, ProfileCore
<1>3. /\ rankPool' \subseteq Available
      /\ ~(rankAsk.core = 0 /\ rankAsk.rules # {}) => Cardinality(rankPool') = PlannedPool
    BY <1>1, <1>2, PoolPlanned
<1>4. /\ CoreSuits' = CoreSuits /\ ProfileCore' = ProfileCore /\ AskIsSound' = AskIsSound
      /\ Available' = Available /\ PlannedPool' = PlannedPool /\ HeapLimit' = HeapLimit
    BY <1>1, SameCore
<1>5. CoreInv'
    BY <1>1, <1>2, <1>4 DEF CoreInv, CoreSuits, Generating, Walking, Drawing
<1>6. rankPool' \in SUBSET Balls
    BY <1>3 DEF Available
<1>7. PoolInv'
    BY <1>1, <1>3, <1>4, <1>6 DEF PoolInv
<1>8. GroupsInv' /\ BeamInv' /\ SampledInv' /\ BatchInv'
    BY <1>1, CoreFrame
<1>9. heap = <<>> /\ sifting = 0 /\ offered = 0 /\ groups = <<>>
    BY <1>1, NothingBegun
<1>10. OffersOk'
    <2>1. rankCore' \in SUBSET Balls
        BY <1>1, <1>2 DEF CoreSuits
    <2>2. rankCore' \cap rankPool' = {}
        BY <1>1, <1>3 DEF Available
    <2>3. Len(groups') \in Nat
        BY <1>1, <1>9
    <2> QED
        BY <1>1, <1>2, <1>6, <2>1, <2>2, <2>3, OffersAreNext
<1>11. HeapInv'
    <2>1. Elements(<<>>) = {}
        BY DEF Elements
    <2>2. Elements(heap)' = {}
        BY <1>1, <1>9, <2>1 DEF Elements
    <2>3. IsHeapOf(heap, Elements(Offers))'
        BY <1>1, <1>9 DEF IsHeapOf
    <2>4. Seen' = {}
        BY <1>1, <1>9 DEF Seen
    <2>5. HeapLimit' \in Nat
        BY <1>2, <1>4, LimitIs
    <2>6. BestOf(Elements(heap), Seen, HeapLimit)'
        <3>1. Cardinality({}) = 0
            BY FS_EmptySet
        <3> QED
            BY <2>2, <2>4, <2>5, <3>1 DEF BestOf
    <2>7. InHeap(heap)'
        BY <1>1, <1>9 DEF InHeap
    <2>8. offered' <= Len(Offers') /\ offered' \in Nat
        BY <1>1, <1>9, <1>10 DEF OffersOk
    <2> QED
        BY <1>1, <1>9, <2>3, <2>6, <2>7, <2>8 DEF HeapInv, Walking
<1> QED
    BY <1>1, <1>2, <1>5, <1>7, <1>8, <1>11 DEF RankingInv

-----------------------------------------------------------------------------
(* The payout generators: selectDiversifiedBatch (payoutSelection.ts).     *)

\* No cap passes the bound of its type.
LEMMA CapsBound ==
    LET top == Max({LowCap, MidCap, HighCap, BallsDrawn})
    IN  /\ top \in Nat /\ LowCap <= top /\ MidCap <= top /\ HighCap <= top /\ BallsDrawn <= top
        /\ LowCap \in Nat /\ MidCap \in Nat /\ HighCap \in Nat /\ BallsDrawn \in Nat \ {0}
<1> DEFINE S == {LowCap, MidCap, HighCap, BallsDrawn}
<1>1. LowCap \in Nat /\ MidCap \in Nat /\ HighCap \in Nat /\ BallsDrawn \in Nat \ {0}
    BY RankingAssumption DEF RankingAssumption
<1>2. \E x \in S : \A y \in S : x >= y
    BY <1>1
<1>3. Max(S) \in S /\ \A y \in S : Max(S) >= y
    BY <1>2 DEF Max
<1> QED
    BY <1>1, <1>3

\* An empty list has no length.
LEMMA NoLength == Len(<<>>) = 0
OBVIOUS

\* What a payout generator leaves alone.
LEMMA PayoutFrame ==
    ASSUME RankingInv, rankStage \in {"core", "sample", "batch"},
           rankStage' \in {"sample", "batch", "refused", "too few samples", "done"},
           UNCHANGED <<rankAsk, rankPool, offered, heap, sifting, groups, beam>>
    PROVE  /\ PoolInv' /\ HeapInv' /\ GroupsInv' /\ BeamInv' /\ rankAsk' \in RankAsks
           /\ rankStage' \in {"core", "offer", "up", "down", "beam", "sample", "batch"} \cup Ends
           /\ rankStage' # "no cap" /\ rankStage' # "no portfolio"
<1>1. groups' = <<>>
    BY DEF RankingInv, GroupsInv, Generating, Walking
<1>2. Len(groups') = 0
    BY <1>1, NoLength
<1>3. GroupsInv'
    <2>1. groups' = [i \in 1..Len(groups') |-> groups'[i]]
        BY DEF RankingInv, GroupsInv
    <2> QED
        BY <1>1, <1>2, <2>1, NoPlaces DEF GroupsInv, Generating, Walking
<1>4. BeamInv'
    BY SameBeam DEF RankingInv
<1>5. HeapInv'
    BY SameHeap DEF RankingInv, Walking
<1>6. PoolInv'
    BY DEF RankingInv, PoolInv, Generating, Walking
<1> QED
    BY <1>3, <1>4, <1>5, <1>6 DEF RankingInv, Ends

\* The core that a payout generator draws fits the request.
LEMMA PayoutCoreStep ==
    ASSUME RankingInv, rankAsk.purpose = "payout", PayoutCore,
           UNCHANGED <<rankAsk, rankPool, offered, heap, sifting, groups, beam>>
    PROVE  RankingInv'
<1>1. rankStage = "core" /\ rankStage' \in {"sample", "refused"}
      /\ UNCHANGED <<sampled, rankCap, rankBatch>>
    BY DEF PayoutCore
<1>2. SampledInv' /\ BatchInv'
    BY <1>1, SameSampled, SameBatch DEF RankingInv
<1>3. CoreInv'
    <2>1. CASE PayoutIsSound
        <3>1. rankCore' \in SampleCoreFor /\ rankStage' = "sample"
            BY <2>1 DEF PayoutCore
        <3>2. AskIsSound /\ rankAsk.core <= BallsDrawn
            BY <2>1 DEF PayoutIsSound
        <3>3. /\ rankCore' \in SUBSET (Balls \ rankAsk.excluded)
              /\ rankAsk.manual \subseteq rankCore'
              /\ Cardinality(rankCore') = rankAsk.core
            BY <3>1 DEF SampleCoreFor, kSubset
        <3>4. rankAsk.core \in Nat
            BY AskIs DEF RankingInv
        <3>5. CoreSuits'
            BY <3>3, <3>4 DEF CoreSuits
        <3> QED
            BY <3>1, <3>2, <3>3, <3>5 DEF CoreInv, Generating, Walking, Drawing
    <2>2. CASE ~PayoutIsSound
        <3>1. rankCore' = rankCore /\ rankStage' = "refused"
            BY <2>2 DEF PayoutCore
        <3> QED
            BY <3>1 DEF RankingInv, CoreInv, Generating, Walking, Drawing
    <2> QED
        BY <2>1, <2>2
<1> QED
    BY <1>1, <1>2, <1>3, PayoutFrame DEF RankingInv

\* The sampled games fit the request, and the cap stays within its bound.
LEMMA SamplePoolStep ==
    ASSUME RankingInv, rankAsk.purpose = "payout", NEW cap \in {LowCap, MidCap, HighCap},
           SamplePool(cap),
           UNCHANGED <<rankAsk, rankPool, offered, heap, sifting, groups, beam>>
    PROVE  RankingInv'
<1> DEFINE top == Max({LowCap, MidCap, HighCap, BallsDrawn})
<1>1. /\ rankStage = "sample" /\ sampled' \subseteq Samplable
      /\ rankStage' = IF Cardinality(sampled') < rankAsk.games THEN "too few samples" ELSE "batch"
      /\ rankCap' = Max({cap, Cardinality(rankCore)})
      /\ UNCHANGED <<rankCore, rankBatch>>
    BY DEF SamplePool
<1>2. /\ CoreSuits /\ Cardinality(rankCore) = rankAsk.core /\ rankAsk.core <= BallsDrawn
      /\ rankAsk \in RankAsks /\ rankBatch = <<>>
    BY <1>1 DEF RankingInv, CoreInv, BatchInv, Drawing
<1>3. rankAsk.core \in Nat /\ rankAsk.games \in Nat
    BY <1>2, AskIs
<1>4. rankCap' \in 0..top
    <2>1. cap \in Nat /\ cap <= top /\ top \in Nat /\ BallsDrawn <= top /\ BallsDrawn \in Nat
        BY CapsBound
    <2> HIDE DEF top
    <2> DEFINE c == rankAsk.core
    <2>2. c \in Nat /\ rankCap' = Max({cap, c}) /\ c <= BallsDrawn
        BY <1>1, <1>2, <1>3
    <2> HIDE DEF c
    <2>3. Max({cap, c}) = IF cap >= c THEN cap ELSE c
        BY <2>1, <2>2, OfTwo
    <2> QED
        BY <2>1, <2>2, <2>3
<1>5. /\ sampled' \in SUBSET (SUBSET Balls) /\ \A g \in sampled' : GameFits(g)
    <2>1. ASSUME NEW g \in Samplable
          PROVE  GameFits(g)
        <3>1. g \in kSubset(BallsDrawn, Balls \ rankAsk.excluded) /\ rankCore \subseteq g
              /\ MeetsConstraints(g)
            BY DEF Samplable
        <3> QED
            BY <3>1 DEF GameFits, kSubset
    <2>2. \A g \in sampled' : GameFits(g)
        BY <1>1, <2>1
    <2> QED
        BY <2>2 DEF GameFits
<1>6. IsFiniteSet(sampled') /\ Cardinality(sampled') \in Nat
    <2>1. IsFiniteSet(SUBSET Balls)
        BY BallsFinite, FS_SUBSET
    <2>2. IsFiniteSet(sampled')
        BY <1>5, <2>1, FS_Subset
    <2> QED
        BY <2>2, FS_CardinalityType
<1>7. \A g : GameFits(g)' = GameFits(g)
    BY <1>1, SameCore
<1>8. rankBatch' = <<>> /\ Len(rankBatch') = 0
    BY <1>1, <1>2
<1>9. SampledInv'
    <2>1. rankStage' = "batch" => Cardinality(sampled') >= rankAsk'.games
        BY <1>1, <1>3, <1>6
    <2>2. \A g \in sampled' : GameFits(g)'
        BY <1>5, <1>7
    <2> QED
        BY <1>4, <1>5, <1>6, <1>8, <2>1, <2>2, NoPlaces DEF SampledInv
<1>10. BatchInv'
    <2>1. BatchFits'
        BY <1>8, NoPlaces DEF BatchFits
    <2>2. Len(rankBatch') <= rankAsk'.games
        BY <1>3, <1>8
    <2>3. rankBatch' \in Seq(SUBSET Balls)
        BY <1>8
    <2>4. rankStage' \in {"too few samples", "batch"}
        BY <1>1
    <2> QED
        BY <1>8, <2>1, <2>2, <2>3, <2>4 DEF BatchInv
<1>11. CoreInv'
    <2>1. CoreSuits' = CoreSuits
        BY <1>1, SameCore
    <2> QED
        BY <1>1, <1>2, <2>1 DEF RankingInv, CoreInv, Generating, Walking, Drawing
<1> QED
    BY <1>1, <1>9, <1>10, <1>11, PayoutFrame DEF RankingInv

\* A game that may join the batch.
FitsBeside(g) ==
    \A i \in DOMAIN rankBatch : g # rankBatch[i] /\ Shared(g, rankBatch[i]) <= rankCap

\* What is eligible fits beside the batch, and nothing that fits is left out.
LEMMA EligibleIs ==
    ASSUME RankingInv, rankStage = "batch"
    PROVE  /\ \A g \in Eligible : g \in sampled /\ FitsBeside(g)
           /\ Eligible = {} => \A g \in sampled : ~FitsBeside(g)
<1> DEFINE window == Max({rankAsk.games * WindowFactor, (Cardinality(sampled) + 9) \div 10})
           first == Elements(FirstOf(Appeal, window))
           near == {g \in first : FitsBeside(g)}
<1>1. rankAsk \in RankAsks /\ sampled \in SUBSET (SUBSET Balls) /\ IsFiniteSet(sampled)
    BY DEF RankingInv, SampledInv
<1>2. first \subseteq sampled
    <2>1. Ordered(InOrder(sampled, MoreAppealing), sampled, AppealPairs(sampled))
        BY <1>1, GamesByAppeal
    <2> DEFINE s == Appeal
    <2>2. s \in Seq(sampled) /\ DOMAIN s = 1..Cardinality(sampled)
          /\ \A i \in 1..Cardinality(sampled) : s[i] \in sampled
        BY <2>1 DEF Appeal, Ordered
    <2>3. window \in Nat
        <3>1. WindowFactor \in Nat
            BY RankingAssumption DEF RankingAssumption
        <3>2. rankAsk.games \in Nat /\ Cardinality(sampled) \in Nat
            BY <1>1, AskIs, FS_CardinalityType
        <3> DEFINE a == rankAsk.games * WindowFactor
                   b == (Cardinality(sampled) + 9) \div 10
        <3>3. a \in Nat /\ b \in Nat
            BY <3>1, <3>2
        <3> HIDE DEF a, b
        <3>4. Max({a, b}) = IF a >= b THEN a ELSE b
            BY <3>3, OfTwo
        <3> QED
            BY <3>3, <3>4 DEF a, b
    <2> HIDE DEF s, window
    <2>4. Elements(FirstOf(s, window)) \subseteq Elements(s)
        BY <2>2, <2>3, FirstOfIs
    <2>5. Elements(s) \subseteq sampled
        BY <2>2 DEF Elements
    <2> QED
        BY <2>4, <2>5 DEF s
<1>3. Eligible = IF near # {} THEN near ELSE {g \in sampled : FitsBeside(g)}
    BY DEF Eligible, FitsBeside
<1> HIDE DEF first
<1> QED
    BY <1>2, <1>3

\* The batch in the making.
LEMMA MakingIs ==
    ASSUME RankingInv, rankStage = "batch"
    PROVE  /\ BatchFits /\ rankBatch \in Seq(SUBSET Balls) /\ Len(rankBatch) \in Nat
           /\ DOMAIN rankBatch = 1..Len(rankBatch) /\ Len(rankBatch) <= rankAsk.games
           /\ rankAsk \in RankAsks /\ rankAsk.games \in Nat /\ rankAsk.purpose = "payout"
           /\ \A i \in 1..Len(rankBatch) : rankBatch[i] \in sampled
           /\ \A g \in sampled : GameFits(g)
           /\ sampled \in SUBSET (SUBSET Balls) /\ IsFiniteSet(sampled)
           /\ Cardinality(sampled) >= rankAsk.games /\ Cardinality(sampled) \in Nat
           /\ rankCap \in Nat
<1>1. /\ BatchFits /\ rankBatch \in Seq(SUBSET Balls) /\ Len(rankBatch) <= rankAsk.games
      /\ \A i \in 1..Len(rankBatch) : rankBatch[i] \in sampled
      /\ \A g \in sampled : GameFits(g)
      /\ sampled \in SUBSET (SUBSET Balls) /\ IsFiniteSet(sampled)
      /\ Cardinality(sampled) >= rankAsk.games
      /\ rankAsk \in RankAsks
    BY DEF RankingInv, BatchInv, SampledInv
<1>2. rankAsk.purpose = "payout"
    BY DEF RankingInv, CoreInv, Drawing
<1>3. rankAsk.games \in Nat /\ Cardinality(sampled) \in Nat
    BY <1>1, AskIs, FS_CardinalityType
<1>4. rankCap \in Nat
    BY CapsBound DEF RankingInv, SampledInv
<1>5. Len(rankBatch) \in Nat /\ DOMAIN rankBatch = 1..Len(rankBatch)
    BY <1>1
<1> QED
    BY <1>1, <1>2, <1>3, <1>4, <1>5

\* Two games share as many numbers either way.
LEMMA SharedEither ==
    ASSUME NEW g, NEW h
    PROVE  Shared(g, h) = Shared(h, g)
<1>1. g \cap h = h \cap g
    OBVIOUS
<1> QED
    BY <1>1 DEF Shared

\* A game that joins the batch differs from the others and shares at most the cap with them
\* (selectDiversifiedBatch()).
LEMMA PickGameStep ==
    ASSUME RankingInv, rankAsk.purpose = "payout", PickGame,
           UNCHANGED <<rankAsk, rankPool, offered, heap, sifting, groups, beam>>
    PROVE  RankingInv'
<1> DEFINE n == Len(rankBatch)
<1>1. /\ rankStage = "batch" /\ n < rankAsk.games
      /\ UNCHANGED <<rankCore, rankStage, sampled, rankCap>>
    BY DEF PickGame
<1>2. PICK g \in Eligible : rankBatch' = Append(rankBatch, g)
    BY DEF PickGame
<1>3. g \in sampled /\ FitsBeside(g)
    BY <1>1, EligibleIs
<1>4. /\ BatchFits /\ rankBatch \in Seq(SUBSET Balls) /\ n \in Nat
      /\ DOMAIN rankBatch = 1..n /\ rankAsk.games \in Nat
      /\ \A i \in 1..n : rankBatch[i] \in sampled
      /\ \A h \in sampled : GameFits(h)
      /\ sampled \in SUBSET (SUBSET Balls)
    BY <1>1, MakingIs
<1>5. /\ rankBatch' \in Seq(SUBSET Balls) /\ Len(rankBatch') = n + 1
      /\ \A i \in 1..n : rankBatch'[i] = rankBatch[i]
      /\ rankBatch'[n + 1] = g
    BY <1>2, <1>3, <1>4
<1>6. /\ \A i \in 1..n : g # rankBatch[i] /\ Shared(g, rankBatch[i]) <= rankCap
      /\ \A i \in 1..n : Shared(rankBatch[i], g) <= rankCap
    BY <1>3, <1>4, SharedEither DEF FitsBeside
<1>7. /\ \A i, j \in 1..n : rankBatch[i] = rankBatch[j] => i = j
      /\ \A i, j \in 1..n : i # j => Shared(rankBatch[i], rankBatch[j]) <= rankCap
    BY <1>4 DEF BatchFits
<1> HIDE DEF n
<1>8. \A i \in 1..(n + 1) : i = n + 1 \/ i \in 1..n
    BY <1>4
<1>9. \A i \in 1..(n + 1) : rankBatch'[i] \in sampled
    BY <1>3, <1>4, <1>5, <1>8
<1>10. \A h : GameFits(h)' = GameFits(h)
    BY <1>1, SameCore
<1>11. BatchFits'
    <2>1. \A i \in 1..Len(rankBatch') : GameFits(rankBatch[i])'
        <3>1. \A i \in 1..Len(rankBatch') : GameFits(rankBatch'[i])
            BY <1>4, <1>5, <1>9
        <3> QED
            BY <1>1, <3>1 DEF GameFits, MeetsConstraints, OddIn, RepeatsIn
    <2>2. \A i, j \in 1..(n + 1) : rankBatch'[i] = rankBatch'[j] => i = j
        BY <1>5, <1>6, <1>7, <1>8
    <2>3. \A i, j \in 1..(n + 1) : i # j => Shared(rankBatch'[i], rankBatch'[j]) <= rankCap
        BY <1>5, <1>6, <1>7, <1>8
    <2>4. \A i, j \in 1..Len(rankBatch') :
             i # j => (Shared(rankBatch[i], rankBatch[j]) <= rankCap)'
        BY <1>1, <1>5, <2>3 DEF Shared
    <2> QED
        BY <1>5, <2>1, <2>2, <2>4 DEF BatchFits
<1>12. n + 1 <= rankAsk.games
    BY <1>1, <1>4 DEF n
<1>13. BatchInv'
    BY <1>1, <1>5, <1>11, <1>12 DEF BatchInv
<1>14. SampledInv'
    <2>1. \A h \in sampled' : GameFits(h)'
        BY <1>1, <1>4, <1>10
    <2> QED
        BY <1>1, <1>5, <1>9, <2>1 DEF RankingInv, SampledInv
<1>15. CoreInv'
    <2>1. CoreSuits' = CoreSuits
        BY <1>1, SameCore
    <2> QED
        BY <1>1, <2>1 DEF RankingInv, CoreInv, Generating, Walking, Drawing
<1> QED
    BY <1>1, <1>13, <1>14, <1>15, PayoutFrame DEF RankingInv

\* Two games of a batch share at most one number less than they have.
LEMMA DistinctShareLess ==
    ASSUME NEW g, GameFits(g), NEW h, GameFits(h), g # h
    PROVE  Shared(g, h) <= MaxCap
<1>1. /\ g \in SUBSET Balls /\ h \in SUBSET Balls
      /\ Cardinality(g) = BallsDrawn /\ Cardinality(h) = BallsDrawn
    BY DEF GameFits
<1>2. IsFiniteSet(g) /\ IsFiniteSet(h) /\ BallsDrawn \in Nat
    BY <1>1, BallsFinite
<1>3. g \cap h \subseteq g /\ g \cap h \subseteq h
    OBVIOUS
<1>4. Cardinality(g \cap h) <= BallsDrawn
    BY <1>1, <1>2, <1>3, FS_Subset
<1>5. Cardinality(g \cap h) # BallsDrawn
    <2>1. SUFFICES ASSUME Cardinality(g \cap h) = BallsDrawn
                   PROVE  FALSE
        OBVIOUS
    <2>2. g \cap h = g
        BY <1>1, <1>2, <1>3, <2>1, FS_Subset
    <2>3. g \cap h = h
        BY <1>1, <1>2, <1>3, <2>1, FS_Subset
    <2> QED
        BY <2>2, <2>3
<1>6. Cardinality(g \cap h) \in Nat
    BY <1>1, BallsFinite
<1> QED
    BY <1>2, <1>4, <1>5, <1>6 DEF Shared, MaxCap

\* With the widest cap there is always a game left: the error that the
\* generators throw for running out of caps is never reached.
LEMMA SomeGameLeft ==
    ASSUME RankingInv, rankStage = "batch", Len(rankBatch) < rankAsk.games, Eligible = {}
    PROVE  rankCap < MaxCap
<1>1. SUFFICES ASSUME ~(rankCap < MaxCap)
               PROVE  FALSE
    OBVIOUS
<1>2. /\ rankBatch \in Seq(SUBSET Balls) /\ Len(rankBatch) \in Nat
      /\ DOMAIN rankBatch = 1..Len(rankBatch)
      /\ \A i \in 1..Len(rankBatch) : rankBatch[i] \in sampled
      /\ \A g \in sampled : GameFits(g)
      /\ rankAsk.games \in Nat /\ Cardinality(sampled) >= rankAsk.games
      /\ Cardinality(sampled) \in Nat /\ IsFiniteSet(sampled) /\ rankCap \in Nat
    BY MakingIs
<1>3. /\ IsFiniteSet(Elements(rankBatch)) /\ Cardinality(Elements(rankBatch)) <= Len(rankBatch)
      /\ Cardinality(Elements(rankBatch)) \in Nat
    BY <1>2, ElementsAre
<1>4. PICK g \in sampled : g \notin Elements(rankBatch)
    <2>1. SUFFICES ASSUME sampled \subseteq Elements(rankBatch)
                   PROVE  FALSE
        OBVIOUS
    <2>2. Cardinality(sampled) <= Cardinality(Elements(rankBatch))
        BY <1>3, <2>1, FS_Subset
    <2> QED
        BY <1>2, <1>3, <2>2
<1>5. MaxCap \in Int /\ MaxCap <= rankCap
    BY <1>1, <1>2, CapsBound DEF MaxCap
<1>6. ASSUME NEW i \in 1..Len(rankBatch)
      PROVE  g # rankBatch[i] /\ Shared(g, rankBatch[i]) <= rankCap
    <2>1. g # rankBatch[i]
        BY <1>2, <1>4 DEF Elements
    <2>2. Shared(g, rankBatch[i]) <= MaxCap
        BY <1>2, <2>1, DistinctShareLess
    <2>3. Shared(g, rankBatch[i]) \in Nat
        BY <1>2, CountsOf DEF GameFits
    <2> QED
        BY <1>2, <1>5, <2>1, <2>2, <2>3
<1>7. FitsBeside(g)
    BY <1>2, <1>6 DEF FitsBeside
<1> QED
    BY <1>4, <1>7, EligibleIs

\* A cap that is raised stays within its bound, and what was chosen fits it.
LEMMA RaiseCapStep ==
    ASSUME RankingInv, rankAsk.purpose = "payout", RaiseCap,
           UNCHANGED <<rankAsk, rankPool, offered, heap, sifting, groups, beam>>
    PROVE  RankingInv'
<1> DEFINE top == Max({LowCap, MidCap, HighCap, BallsDrawn})
<1>1. /\ rankStage = "batch" /\ Len(rankBatch) < rankAsk.games /\ Eligible = {}
      /\ UNCHANGED <<rankCore, sampled, rankBatch>>
    BY DEF RaiseCap
<1>2. rankCap < MaxCap
    BY <1>1, SomeGameLeft
<1>3. rankStage' = "batch" /\ rankCap' = rankCap + 1
    BY <1>2 DEF RaiseCap
<1>4. rankCap \in Nat /\ BatchFits /\ \A h \in sampled : GameFits(h)
    BY <1>1, MakingIs
<1>5. rankCap' \in 0..top
    <2>1. top \in Nat /\ BallsDrawn <= top /\ BallsDrawn \in Nat
        BY CapsBound
    <2> HIDE DEF top
    <2> QED
        BY <1>2, <1>3, <1>4, <2>1 DEF MaxCap
<1>6. \A h : GameFits(h)' = GameFits(h)
    BY <1>1, SameCore
<1>7. SampledInv'
    <2>1. \A h \in sampled' : GameFits(h)'
        BY <1>1, <1>4, <1>6
    <2> HIDE DEF top
    <2> QED
        BY <1>1, <1>5, <2>1 DEF RankingInv, SampledInv, top
<1>8. BatchFits'
    <2>1. \A i \in 1..Len(rankBatch') : GameFits(rankBatch[i])'
        BY <1>1, <1>4 DEF BatchFits, GameFits, MeetsConstraints, OddIn, RepeatsIn
    <2>2. \A i, j \in 1..Len(rankBatch') : rankBatch'[i] = rankBatch'[j] => i = j
        BY <1>1, <1>4 DEF BatchFits
    <2>3. ASSUME NEW i \in 1..Len(rankBatch), NEW j \in 1..Len(rankBatch), i # j
          PROVE  Shared(rankBatch[i], rankBatch[j]) <= rankCap'
        <3>1. Shared(rankBatch[i], rankBatch[j]) <= rankCap
            BY <1>4, <2>3 DEF BatchFits
        <3>2. rankBatch[i] \in SUBSET Balls
            BY <1>4, <2>3 DEF BatchFits, GameFits
        <3>3. Shared(rankBatch[i], rankBatch[j]) \in Nat
            BY <3>2, CountsOf
        <3> QED
            BY <1>3, <1>4, <3>1, <3>3
    <2>4. \A i, j \in 1..Len(rankBatch') :
             i # j => (Shared(rankBatch[i], rankBatch[j]) <= rankCap)'
        BY <1>1, <2>3 DEF Shared
    <2> QED
        BY <2>1, <2>2, <2>4 DEF BatchFits
<1>9. BatchInv'
    BY <1>1, <1>3, <1>8 DEF RankingInv, BatchInv
<1>10. CoreInv'
    <2>1. CoreSuits' = CoreSuits
        BY <1>1, SameCore
    <2> QED
        BY <1>1, <1>3, <2>1 DEF RankingInv, CoreInv, Generating, Walking, Drawing
<1> QED
    BY <1>1, <1>3, <1>7, <1>9, <1>10, PayoutFrame DEF RankingInv

\* A batch that ends well is the batch that was chosen.
LEMMA FinishBatchStep ==
    ASSUME RankingInv, rankAsk.purpose = "payout", FinishBatch,
           UNCHANGED <<rankAsk, rankPool, offered, heap, sifting, groups, beam>>
    PROVE  RankingInv'
<1>1. /\ rankStage = "batch" /\ Len(rankBatch) = rankAsk.games
      /\ rankStage' \in {"done", "refused"}
      /\ rankBatch' = IF rankStage' = "done" THEN rankBatch ELSE <<>>
      /\ UNCHANGED <<rankCore, sampled, rankCap>>
    BY DEF FinishBatch
<1>2. BatchFits
    BY <1>1, MakingIs
<1>3. CoreSuits /\ Cardinality(rankCore) = rankAsk.core
    BY <1>1 DEF RankingInv, CoreInv, Drawing
<1>4. CoreSuits' = CoreSuits
    BY <1>1, SameCore
<1>5. rankStage' = "done" => BatchFits'
    BY <1>1, <1>2 DEF BatchFits, GameFits, MeetsConstraints, OddIn, RepeatsIn, Shared
<1>6. rankBatch' \in Seq(SUBSET Balls)
    BY <1>1 DEF RankingInv, BatchInv
<1>7. BatchInv'
    BY <1>1, <1>3, <1>4, <1>5, <1>6 DEF BatchInv
<1>8. CoreInv'
    BY <1>1 DEF RankingInv, CoreInv, Generating, Walking, Drawing
<1>9. SampledInv'
    BY <1>1, SameSampled DEF RankingInv
<1> QED
    BY <1>1, <1>7, <1>8, <1>9, PayoutFrame DEF RankingInv

\* Every step of the seven payout generators preserves the invariant.
LEMMA PayoutStep ==
    ASSUME RankingInv, NEW lottery, NEW cap \in {LowCap, MidCap, HighCap}, Payout(lottery, cap)
    PROVE  RankingInv'
<1>1. /\ rankAsk.purpose = "payout"
      /\ PayoutCore \/ SamplePool(cap) \/ PickGame \/ RaiseCap \/ FinishBatch
      /\ UNCHANGED <<rankAsk, rankPool, offered, heap, sifting, groups, beam>>
    BY DEF Payout
<1> QED
    BY <1>1, PayoutCoreStep, SamplePoolStep, PickGameStep, RaiseCapStep, FinishBatchStep

-----------------------------------------------------------------------------
(* The generators throughout.                                              *)

\* An empty list is a function of its places.
LEMMA NoFunction == <<>> = [i \in 1..Len(<<>>) |-> <<>>[i]]
<1>1. <<>> \in Seq({})
    OBVIOUS
<1> QED
    BY <1>1, LenProperties

\* The invariant holds of a request that begins.
LEMMA RankingInvInit == RankingInit => RankingInv
<1> SUFFICES ASSUME RankingInit
             PROVE  RankingInv
    OBVIOUS
<1>1. /\ rankAsk \in RankAsks /\ rankStage = "core" /\ rankCore = rankAsk.manual
      /\ rankPool = {} /\ sampled = {} /\ offered = 0 /\ sifting = 0 /\ rankCap = 0
      /\ heap = <<>> /\ groups = <<>> /\ beam = <<>> /\ rankBatch = <<>>
    BY DEF RankingInit
<1>2. Len(groups) = 0 /\ Len(beam) = 0 /\ Len(heap) = 0
    BY <1>1, NoLength
<1>3. CoreInv
    <2>1. AskIsSound /\ CoreIsSound => ProfileCore
        BY <1>1 DEF AskIsSound, CoreIsSound, ProfileCore, CoreSuits
    <2> QED
        BY <1>1, <2>1 DEF CoreInv, Generating, Walking, Drawing
<1>4. PoolInv /\ HeapInv
    BY <1>1 DEF PoolInv, HeapInv, Generating, Walking
<1>5. GroupsInv
    <2>1. groups = [i \in 1..Len(groups) |-> groups[i]]
        BY <1>1, NoFunction
    <2> QED
        BY <1>1, <1>2, <2>1, NoPlaces DEF GroupsInv, Generating, Walking
<1>6. BeamInv
    <2>1. beam = [i \in 1..Len(beam) |-> beam[i]]
        BY <1>1, NoFunction
    <2> QED
        BY <1>1, <1>2, <2>1, NoPlaces DEF BeamInv
<1>7. SampledInv
    <2>1. rankCap \in 0..Max({LowCap, MidCap, HighCap, BallsDrawn})
        <3> DEFINE top == Max({LowCap, MidCap, HighCap, BallsDrawn})
        <3>1. top \in Nat
            BY CapsBound
        <3> HIDE DEF top
        <3>2. 0 \in 0..top
            BY <3>1
        <3> QED
            BY <1>1, <3>2 DEF top
    <2> QED
        BY <1>1, <2>1, FS_EmptySet DEF SampledInv
<1>8. BatchInv
    BY <1>1 DEF BatchInv
<1> QED
    BY <1>1, <1>3, <1>4, <1>5, <1>6, <1>7, <1>8 DEF RankingInv

\* The invariant survives a step that changes nothing.
LEMMA RankingInvStutter ==
    ASSUME RankingInv, UNCHANGED rankVars
    PROVE  RankingInv'
<1>1. UNCHANGED <<rankAsk, rankStage, rankCore, rankPool, offered, heap, sifting, groups, beam,
                  sampled, rankCap, rankBatch>>
    BY DEF rankVars
<1>2. /\ CoreSuits' = CoreSuits /\ ProfileCore' = ProfileCore /\ Available' = Available
      /\ AskIsSound' = AskIsSound /\ CoreIsSound' = CoreIsSound /\ RepeatLimit' = RepeatLimit
      /\ PlannedPool' = PlannedPool /\ HeapLimit' = HeapLimit
      /\ \A g : GameFits(g)' = GameFits(g)
    BY <1>1, SameCore
<1>3. CoreInv' /\ PoolInv'
    BY <1>1, <1>2 DEF RankingInv, CoreInv, PoolInv
<1>4. HeapInv'
    <2>1. Offers' = Offers /\ Seen' = Seen
        BY <1>1, SameOffers, SeenAgain
    <2>2. Elements(Offers)' = Elements(Offers) /\ Elements(heap)' = Elements(heap)
        BY <1>1, <2>1 DEF Elements
    <2>3. IsHeapOf(heap, Elements(Offers))' = IsHeapOf(heap, Elements(Offers))
        BY <1>1, <2>2 DEF IsHeapOf
    <2>4. /\ InHeap(heap)' = InHeap(heap) /\ UpFrom(heap, sifting)' = UpFrom(heap, sifting)
          /\ DownFrom(heap, sifting)' = DownFrom(heap, sifting)
        BY <1>1 DEF InHeap, UpFrom, DownFrom
    <2>5. BestOf(Elements(heap), Seen, HeapLimit)' = BestOf(Elements(heap), Seen, HeapLimit)
        BY <1>2, <2>1, <2>2 DEF BestOf
    <2> QED
        BY <1>1, <2>1, <2>3, <2>4, <2>5 DEF RankingInv, HeapInv
<1>5. GroupsInv'
    <2>1. \A group : GroupFits(group)' = GroupFits(group)
        BY <1>1, SameGroup
    <2>2. CASE rankStage \notin Generating \cup {"done"}
        BY <1>1, <2>2 DEF RankingInv, GroupsInv, Generating, Walking
    <2>3. CASE rankStage \in Generating \cup {"done"}
        BY <1>1, <2>1, <2>3 DEF RankingInv, GroupsInv, Generating, Walking
    <2> QED
        BY <2>2, <2>3
<1>6. BeamInv'
    BY <1>1, SameBeam DEF RankingInv
<1>7. SampledInv'
    BY <1>1, <1>2 DEF RankingInv, SampledInv
<1>8. BatchInv'
    <2>1. BatchFits' = BatchFits
        BY <1>1 DEF BatchFits, GameFits, MeetsConstraints, OddIn, RepeatsIn, Shared
    <2>2. RepeatsIn(rankCore)' = RepeatsIn(rankCore)
        BY <1>1 DEF RepeatsIn
    <2> QED
        BY <1>1, <1>2, <2>1, <2>2 DEF RankingInv, BatchInv
<1> QED
    BY <1>1, <1>2, <1>3, <1>4, <1>5, <1>6, <1>7, <1>8, SameYielded DEF RankingInv

\* Every step of the generators preserves the invariant.
LEMMA RankingInvStep == RankingInv /\ [RankingNext]_rankVars => RankingInv'
<1> SUFFICES ASSUME RankingInv, [RankingNext]_rankVars
             PROVE  RankingInv'
    OBVIOUS
<1>1. CASE UNCHANGED rankVars
    BY <1>1, RankingInvStutter
<1>2. CASE RefuseCore \/ PickCore \/ CoreFails \/ BuildPool
    BY <1>2, RefuseCoreStep, PickCoreStep, CoreFailsStep, BuildPoolStep
<1>3. CASE PushCandidate \/ SiftUp \/ ReplaceWorst \/ SiftDown \/ FinishGroup
    BY <1>3, PushStep, SiftUpStep, ReplaceStep, SiftDownStep, FinishGroupStep
<1>4. CASE ExtendBeam \/ ChoosePortfolio
    BY <1>4, ExtendBeamStep, ChoosePortfolioStep
<1>5. CASE \/ MegaSenaPayout \/ QuinaPayout \/ DuplaSenaPayout \/ MaisMilionariaPayout
           \/ TimemaniaPayout \/ DiaDeSortePayout \/ LotofacilPayout
    <2>1. \/ Payout("mega-sena", LowCap) \/ Payout("quina", LowCap)
          \/ Payout("dupla-sena", LowCap) \/ Payout("mais-milionaria", LowCap)
          \/ Payout("timemania", MidCap) \/ Payout("dia-de-sorte", MidCap)
          \/ Payout("lotofacil", HighCap)
        BY <1>5 DEF MegaSenaPayout, QuinaPayout, DuplaSenaPayout, MaisMilionariaPayout,
                    TimemaniaPayout, DiaDeSortePayout, LotofacilPayout
    <2> QED
        BY <2>1, PayoutStep
<1> QED
    BY <1>1, <1>2, <1>3, <1>4, <1>5 DEF RankingNext

\* The invariant holds throughout.
LEMMA RankingInvHolds == RankingSpec => []RankingInv
BY RankingInvInit, RankingInvStep, PTL DEF RankingSpec

\* The invariant has the type invariant in it.
LEMMA RankingInvType == RankingInv => RankingTypeOK
<1> SUFFICES ASSUME RankingInv
             PROVE  RankingTypeOK
    OBVIOUS
<1>1. /\ rankAsk \in RankAsks
      /\ rankStage \in {"core", "offer", "up", "down", "beam", "sample", "batch"} \cup Ends
      /\ rankCore \subseteq Balls \cup rankAsk.manual /\ rankPool \subseteq Balls
      /\ sampled \subseteq SUBSET Balls
      /\ offered \in Nat /\ rankCap \in 0..Max({LowCap, MidCap, HighCap, BallsDrawn})
    BY DEF RankingInv, CoreInv, PoolInv, SampledInv, HeapInv
<1>2. Elements(heap) \subseteq Candidate /\ sifting \in 0..Len(heap)
    <2>1. CASE rankStage \in Walking
        <3>1. IsHeapOf(heap, Elements(Offers)) /\ Elements(Offers) \subseteq Candidate
            BY <2>1, KeptIs DEF Kept, OffersOk
        <3>2. Elements(heap) \subseteq Elements(Offers)
            BY <3>1, HeapSize
        <3>3. Len(heap) \in Nat
            BY <3>1 DEF IsHeapOf
        <3> DEFINE n == Len(heap)
        <3>4. n \in Nat /\ (sifting = 0 \/ sifting \in 1..n)
            BY <2>1, <3>3 DEF RankingInv, HeapInv, Walking
        <3> HIDE DEF n
        <3>5. sifting \in 0..n
            BY <3>4
        <3> QED
            BY <3>1, <3>2, <3>5 DEF n
    <2>2. CASE rankStage \notin Walking
        <3>1. heap = <<>> /\ sifting = 0
            BY <2>2 DEF RankingInv, HeapInv
        <3>2. Elements(<<>>) = {}
            BY DEF Elements
        <3>3. 0 \in 0..Len(<<>>)
            BY NoLength
        <3> QED
            BY <3>1, <3>2, <3>3
    <2> QED
        BY <2>1, <2>2
<1>3. \A i \in DOMAIN groups : Elements(groups[i]) \subseteq Candidate
    BY DEF RankingInv, GroupsInv
<1>4. \A i \in DOMAIN beam : Elements(beam[i].games) \subseteq Candidate /\ beam[i].score \in Int
    BY DEF RankingInv, BeamInv
<1>5. Elements(rankBatch) \subseteq SUBSET Balls
    BY ElementsAre DEF RankingInv, BatchInv
<1> QED
    BY <1>1, <1>2, <1>3, <1>4, <1>5 DEF RankingTypeOK, Candidate

\* And what the loops promise together.
LEMMA RankingInvSafe == RankingInv => RankingSafe
<1> SUFFICES ASSUME RankingInv
             PROVE  RankingSafe
    OBVIOUS
<1>1. HeapKeepsBest
    <2>1. SUFFICES ASSUME rankStage = "offer", NEW c \in Seen
                   PROVE  c \in Elements(heap)
                             <=> Cardinality({d \in Seen : Better(d, c)}) < HeapLimit
        BY DEF HeapKeepsBest, Seen
    <2>2. Kept /\ OffersOk /\ HeapLimit \in Nat \ {0}
        BY <2>1, KeptIs DEF Walking
    <2>3. BestOf(Elements(heap), Seen, HeapLimit) /\ offered \in Nat /\ offered <= Len(Offers)
        BY <2>2 DEF Kept
    <2>4. IsField(Elements(Offers)) /\ Len(Offers) \in Nat
          /\ \A i \in 1..Len(Offers) : Offers[i] \in Elements(Offers)
        BY <2>2 DEF OffersOk
    <2>5. Seen \in SUBSET Elements(Offers)
        BY <2>3, <2>4 DEF Seen
    <2>6. IsField(Seen)
        BY <2>4, <2>5, FieldPart
    <2> QED
        BY <2>1, <2>2, <2>3, <2>6, BestAreKept
<1>2. BatchIsAsked
    <2> SUFFICES ASSUME rankStage = "done"
                 PROVE  BatchIsAsked
        BY DEF BatchIsAsked
    <2>1. /\ Len(rankBatch) = rankAsk.games /\ BatchFits /\ rankBatch \in Seq(SUBSET Balls)
          /\ Cardinality(rankCore) = rankAsk.core /\ CoreSuits
          /\ rankAsk.purpose = "profile" => RepeatsIn(rankCore) <= RepeatLimit
        BY DEF RankingInv, BatchInv
    <2>2. DOMAIN rankBatch = 1..Len(rankBatch)
        BY <2>1
    <2>3. \A i \in DOMAIN rankBatch :
            /\ Cardinality(rankBatch[i]) = BallsDrawn
            /\ rankCore \subseteq rankBatch[i] /\ rankBatch[i] \cap rankAsk.excluded = {}
            /\ MeetsConstraints(rankBatch[i])
        BY <2>1, <2>2 DEF BatchFits, GameFits
    <2>4. \A i \in DOMAIN rankBatch : FiledCore \subseteq rankBatch[i]
        BY <2>3 DEF FiledCore
    <2>5. \A i \in DOMAIN rankBatch : \A j \in DOMAIN rankBatch \ {i} :
            /\ rankBatch[i] # rankBatch[j]
            /\ rankAsk.purpose = "payout" => Shared(rankBatch[i], rankBatch[j]) <= rankCap
        BY <2>1, <2>2 DEF BatchFits
    <2> QED
        BY <2>1, <2>3, <2>4, <2>5 DEF BatchIsAsked, CoreSuits
<1>3. GivenUpForNothingLeft
    <2>1. ASSUME rankStage = "no portfolio"
          PROVE  Len(Offers) < rankAsk.games
        <3>1. OffersOk
            BY <2>1, OffersHold DEF Generating
        <3> QED
            BY <2>1, <3>1 DEF RankingInv, OffersOk
    <2> QED
        BY <2>1 DEF RankingInv, GivenUpForNothingLeft
<1>4. PoolIsPlanned
    BY DEF RankingInv, PoolInv, PoolIsPlanned, Generating, Walking
<1> QED
    BY <1>1, <1>2, <1>3, <1>4 DEF RankingSafe

\* Types: what the loops hold at each step is of the numbers of the draw (shared.ts, portfolio.ts,
\* payoutSelection.ts).
THEOREM RankingIsTyped == RankingSpec => []RankingTypeOK
BY RankingInvHolds, RankingInvType, PTL

\* The heap keeps the best of what it has seen, the batch that comes out is the batch that was
\* asked for, it is given up only when fewer games than asked fit the pool and never for want of a
\* cap, and the pool is the pool that was announced (topRankedCandidates(),
\* selectPortfolioCandidates(), selectDiversifiedBatch() and the pools of the generators).
THEOREM RankingIsSafe == RankingSpec => []RankingSafe
BY RankingInvHolds, RankingInvSafe, PTL

=============================================================================
