--------------------------- MODULE SaveReportsProofs ---------------------------
(***************************************************************************)
(* Proofs about SaveReports, for every set of files, hashes, releases and  *)
(* report ids.  Type correctness and SavedWasCounted hold for any number   *)
(* of processes, CountedOncePerCrash, DeferredNotCounted, OopsStored,      *)
(* ReportCountExact and the refinement of Intake for one.                  *)
(***************************************************************************)
EXTENDS SaveReports, FiniteSetsExt, FiniteSetTheorems, WellFoundedInduction, TLAPS

-----------------------------------------------------------------------------
(***************************************************************************)
(* Sums over finite sets.  MapThenSumSet adds the elements up in an order  *)
(* that CHOOSE fixes for every subset: g below is the function it          *)
(* iterates.  What a sum is does not follow from its definition at once;   *)
(* each lemma takes the smallest size at which it would fail.              *)
(***************************************************************************)

LEMMA Least ==
  ASSUME NEW T, T \subseteq Nat, T # {}
  PROVE  \E n \in T : \A m \in T : n <= m
<1>. DEFINE R == OpToRel(<, Nat)
<1>1. R = {ss \in Nat \X Nat : ss[1] < ss[2]}
  BY DEF OpToRel
<1>2. IsWellFoundedOn(R, Nat)
  BY NatLessThanWellFounded
<1>. HIDE DEF R
<1>3. PICK n \in T : \A m \in T : ~ (<<m, n>> \in R)
  BY <1>2, WFMin
<1>4. ASSUME NEW m \in T PROVE n <= m
  <2>1. ~ (<<m, n>> \in R) /\ m \in Nat /\ n \in Nat
    BY <1>3
  <2>2. m < n => <<m, n>> \in R
    BY <1>1, <2>1
  <2>. QED BY <2>1, <2>2
<1>. QED BY <1>4

First(s) == CHOOSE x \in s : TRUE

Summed(f, g, s) == IF s = {} THEN 0 ELSE f[First(s)] + g[s \ {First(s)}]

IsTotal(f, S, g) == g = [s \in SUBSET S |-> Summed(f, g, s)]

Total(f, S) == (CHOOSE g : IsTotal(f, S, g))[S]

LEMMA FirstIn == \A s : s # {} => First(s) \in s
BY DEF First

\* Without its first element a finite set is smaller.
LEMMA RestSmaller ==
  ASSUME NEW s, IsFiniteSet(s), NEW x \in s
  PROVE  /\ IsFiniteSet(s \ {x})
         /\ Cardinality(s) \in Nat /\ Cardinality(s \ {x}) \in Nat
         /\ Cardinality(s \ {x}) = Cardinality(s) - 1
BY FS_RemoveElement, FS_CardinalityType

\* There is such a function, and its values are numbers.
LEMMA TotalExists ==
  ASSUME NEW S, IsFiniteSet(S), NEW f, \A x \in S : f[x] \in Nat
  PROVE  \E g \in [SUBSET S -> Nat] : IsTotal(f, S, g)
<1>. DEFINE Upto(n) == {s \in SUBSET S : Cardinality(s) <= n}
            OK(n) == \E g \in [Upto(n) -> Nat] : \A s \in Upto(n) : g[s] = Summed(f, g, s)
            T == {n \in Nat : ~OK(n)}
<1>0. \A s \in SUBSET S : IsFiniteSet(s) /\ Cardinality(s) \in Nat
  BY FS_Subset, FS_CardinalityType
<1>1. OK(0)
  <2>1. Upto(0) = {{}}
    BY <1>0, FS_EmptySet
  <2>. DEFINE g == [s \in {{}} |-> 0]
  <2>2. g \in [Upto(0) -> Nat] /\ g[{}] = 0
    BY <2>1
  <2>3. \A s \in Upto(0) : g[s] = Summed(f, g, s)
    BY <2>1, <2>2 DEF Summed
  <2>. HIDE DEF g, Upto
  <2>. QED BY <2>2, <2>3
<1>2. ASSUME NEW n \in Nat, OK(n) PROVE OK(n + 1)
  <2>1. PICK g \in [Upto(n) -> Nat] : \A s \in Upto(n) : g[s] = Summed(f, g, s)
    BY <1>2
  <2>. DEFINE k == [s \in Upto(n + 1) |-> Summed(f, g, s)]
  <2>2. \A s \in Upto(n + 1) : s # {} => /\ s \ {First(s)} \in Upto(n)
                                        /\ First(s) \in S
    <3>. SUFFICES ASSUME NEW s \in Upto(n + 1), s # {}
                  PROVE  s \ {First(s)} \in Upto(n) /\ First(s) \in S
      OBVIOUS
    <3>1. First(s) \in s /\ s \in SUBSET S /\ Cardinality(s) <= n + 1
      BY FirstIn
    <3>2. IsFiniteSet(s)
      BY <1>0, <3>1
    <3>3. Cardinality(s) \in Nat /\ Cardinality(s \ {First(s)}) = Cardinality(s) - 1
      BY <3>1, <3>2, RestSmaller
    <3>. QED BY <3>1, <3>3
  <2>3. Upto(n) \subseteq Upto(n + 1)
    BY <1>0
  <2>4. ASSUME NEW s \in Upto(n + 1) PROVE k[s] = Summed(f, g, s) /\ k[s] \in Nat
    <3>1. k[s] = Summed(f, g, s)
      OBVIOUS
    <3>2. s # {} => g[s \ {First(s)}] \in Nat /\ f[First(s)] \in Nat
      BY <2>1, <2>2
    <3>. HIDE DEF k
    <3>. QED BY <3>1, <3>2 DEF Summed
  <2>. HIDE DEF k
  <2>5. \A s \in Upto(n) : k[s] = g[s]
    BY <2>1, <2>3, <2>4
  <2>6. ASSUME NEW s \in Upto(n + 1) PROVE k[s] = Summed(f, k, s)
    <3>1. s # {} => k[s \ {First(s)}] = g[s \ {First(s)}]
      BY <2>2, <2>5
    <3>. QED BY <2>4, <3>1 DEF Summed
  <2>7. k \in [Upto(n + 1) -> Nat]
    BY <2>4 DEF k
  <2>. HIDE DEF Upto
  <2>. QED BY <2>6, <2>7
<1>3. \A n \in Nat : OK(n)
  <2>. SUFFICES ASSUME T # {} PROVE FALSE
    BY Zenon
  <2>. HIDE DEF OK
  <2>1. T \subseteq Nat
    OBVIOUS
  <2>2. PICK n \in T : \A m \in T : n <= m
    BY <2>1, Least
  <2>3. n \in Nat /\ ~OK(n)
    OBVIOUS
  <2>4. CASE n = 0
    BY <1>1, <2>3, <2>4
  <2>5. CASE n # 0
    <3>1. n - 1 \in Nat /\ (n - 1) + 1 = n /\ ~(n <= n - 1)
      BY <2>3, <2>5
    <3>2. OK(n - 1)
      BY <2>2, <3>1
    <3>3. OK((n - 1) + 1)
      BY <1>2, <3>1, <3>2
    <3>. QED BY <2>3, <3>1, <3>3
  <2>. QED BY <2>4, <2>5
<1>4. Upto(Cardinality(S)) = SUBSET S
  BY <1>0, FS_Subset
<1>5. PICK g \in [SUBSET S -> Nat] : \A s \in SUBSET S : g[s] = Summed(f, g, s)
  <2>1. OK(Cardinality(S))
    BY <1>3, FS_CardinalityType
  <2>. QED BY <1>4, <2>1
<1>6. IsTotal(f, S, g)
  BY <1>5 DEF IsTotal
<1>. QED BY <1>6

LEMMA TotalStep ==
  ASSUME NEW S, NEW f, NEW g, IsTotal(f, S, g)
  PROVE  /\ g[{}] = 0
         /\ \A s \in SUBSET S : s # {} => /\ g[s] = f[First(s)] + g[s \ {First(s)}]
                                          /\ First(s) \in S
<1>1. \A s \in SUBSET S : g[s] = Summed(f, g, s)
  BY DEF IsTotal
<1>2. \A s \in SUBSET S : s # {} => First(s) \in S
  BY FirstIn
<1>. QED BY <1>1, <1>2 DEF Summed

\* The sum is a number.
LEMMA TotalValues ==
  ASSUME NEW S, IsFiniteSet(S), NEW f, \A x \in S : f[x] \in Nat, NEW g, IsTotal(f, S, g)
  PROVE  \A s \in SUBSET S : g[s] \in Nat
<1>. DEFINE T == {Cardinality(s) : s \in {r \in SUBSET S : g[r] \notin Nat}}
<1>0. \A s \in SUBSET S : IsFiniteSet(s) /\ Cardinality(s) \in Nat
  BY FS_Subset, FS_CardinalityType
<1>. SUFFICES ASSUME T # {} PROVE FALSE
  OBVIOUS
<1>1. T \subseteq Nat
  BY <1>0
<1>2. PICK n \in T : \A m \in T : n <= m
  BY <1>1, Least
<1>3. PICK s \in SUBSET S : g[s] \notin Nat /\ n = Cardinality(s)
  OBVIOUS
<1>4. s # {}
  <2>1. g[{}] = 0
    BY TotalStep
  <2>. QED BY <1>3, <2>1
<1>5. /\ g[s] = f[First(s)] + g[s \ {First(s)}]
      /\ First(s) \in s /\ First(s) \in S
  BY <1>4, TotalStep, FirstIn
<1>6. g[s \ {First(s)}] \notin Nat
  BY <1>3, <1>5
<1>7. Cardinality(s \ {First(s)}) \in T
  BY <1>6
<1>8. Cardinality(s \ {First(s)}) = n - 1 /\ n \in Nat
  BY <1>0, <1>3, <1>5, RestSmaller
<1>. QED BY <1>2, <1>7, <1>8

\* The order in which the elements are added up does not matter.
LEMMA TotalRemove ==
  ASSUME NEW S, IsFiniteSet(S), NEW f, \A x \in S : f[x] \in Nat, NEW g, IsTotal(f, S, g)
  PROVE  \A s \in SUBSET S : \A x \in s : g[s] = f[x] + g[s \ {x}]
<1>. DEFINE Bad == {r \in SUBSET S : \E x \in r : g[r] # f[x] + g[r \ {x}]}
            T == {Cardinality(s) : s \in Bad}
<1>0. \A s \in SUBSET S : IsFiniteSet(s) /\ Cardinality(s) \in Nat
  BY FS_Subset, FS_CardinalityType
<1>. SUFFICES ASSUME T # {} PROVE FALSE
  OBVIOUS
<1>1. T \subseteq Nat
  BY <1>0
<1>2. PICK n \in T : \A m \in T : n <= m
  BY <1>1, Least
<1>3. PICK s \in Bad : n = Cardinality(s)
  OBVIOUS
<1>4. PICK x \in s : g[s] # f[x] + g[s \ {x}]
  OBVIOUS
<1>. DEFINE y == First(s)
<1>5. /\ g[s] = f[y] + g[s \ {y}]
      /\ y \in s /\ s \in SUBSET S
  <2>1. s \in SUBSET S /\ s # {}
    BY <1>4
  <2>2. First(s) \in s
    BY <2>1, FirstIn
  <2>3. \A r \in SUBSET S : r # {} => g[r] = f[First(r)] + g[r \ {First(r)}]
    <3>. HIDE DEF Bad, T
    <3>. QED BY TotalStep
  <2>. QED BY <2>1, <2>2, <2>3
<1>6. y # x
  BY <1>4, <1>5
<1>. HIDE DEF y
<1>7. /\ Cardinality(s \ {x}) = n - 1 /\ Cardinality(s \ {y}) = n - 1 /\ n \in Nat
  BY <1>0, <1>3, <1>4, <1>5, RestSmaller
<1>8. \A r \in SUBSET S : Cardinality(r) = n - 1 => r \notin Bad
  BY <1>2, <1>7
<1>9. /\ g[s \ {x}] = f[y] + g[(s \ {x}) \ {y}]
      /\ g[s \ {y}] = f[x] + g[(s \ {y}) \ {x}]
  <2>1. s \ {x} \in SUBSET S /\ s \ {y} \in SUBSET S /\ y \in s \ {x} /\ x \in s \ {y}
    BY <1>5, <1>6
  <2>2. s \ {x} \notin Bad /\ s \ {y} \notin Bad
    BY <1>7, <1>8, <2>1
  <2>. QED BY <2>1, <2>2
<1>10. (s \ {x}) \ {y} = (s \ {y}) \ {x}
  OBVIOUS
<1>11. g[(s \ {x}) \ {y}] \in Nat /\ f[x] \in Nat /\ f[y] \in Nat
  BY <1>5, TotalValues
<1>12. g[s] = f[y] + (f[x] + g[(s \ {y}) \ {x}])
  BY <1>5, <1>9
<1>13. g[s \ {x}] = f[y] + g[(s \ {y}) \ {x}]
  BY <1>9, <1>10
<1>14. g[(s \ {y}) \ {x}] \in Nat
  BY <1>10, <1>11
<1>15. g[s] = f[x] + g[s \ {x}]
  BY <1>11, <1>12, <1>13, <1>14
<1>. QED BY <1>4, <1>15

\* On U, e is f with d more at x, and with 0 outside S.
Grown(e, U, f, S, x, d) ==
  \A y \in U : e[y] = (IF y \in S THEN f[y] ELSE 0) + (IF y = x THEN d ELSE 0)

LEMMA TotalCompare ==
  ASSUME NEW U, IsFiniteSet(U), NEW S, S \subseteq U,
         NEW f, \A y \in S : f[y] \in Nat, NEW e, \A y \in U : e[y] \in Nat,
         NEW x, NEW d \in Nat, Grown(e, U, f, S, x, d),
         NEW g, IsTotal(f, S, g), NEW k, IsTotal(e, U, k)
  PROVE  \A s \in SUBSET U : k[s] = g[s \cap S] + (IF x \in s THEN d ELSE 0)
<1>. DEFINE Bad == {r \in SUBSET U : k[r] # g[r \cap S] + (IF x \in r THEN d ELSE 0)}
            T == {Cardinality(s) : s \in Bad}
<1>0. /\ \A s \in SUBSET U : IsFiniteSet(s) /\ Cardinality(s) \in Nat
      /\ IsFiniteSet(S)
  BY FS_Subset, FS_CardinalityType
<1>. SUFFICES ASSUME T # {} PROVE FALSE
  OBVIOUS
<1>1. T \subseteq Nat
  BY <1>0
<1>2. PICK n \in T : \A m \in T : n <= m
  BY <1>1, Least
<1>3. PICK s \in Bad : n = Cardinality(s)
  OBVIOUS
<1>4. s \in SUBSET U /\ s # {}
  <2>1. g[{}] = 0 /\ k[{}] = 0
    BY TotalStep
  <2>2. {} \cap S = {} /\ x \notin {}
    OBVIOUS
  <2>3. {} \notin Bad
    BY <2>1, <2>2
  <2>. QED BY <1>3, <2>3
<1>. DEFINE y == First(s)
            r == s \ {y}
<1>5. /\ k[s] = e[y] + k[r]
      /\ y \in s /\ s \in SUBSET U /\ r \in SUBSET U
  <2>1. First(s) \in s
    BY <1>4, FirstIn
  <2>2. \A q \in SUBSET U : q # {} => k[q] = e[First(q)] + k[q \ {First(q)}]
    <3>. HIDE DEF Bad, T
    <3>. QED BY TotalStep
  <2>. QED BY <1>4, <2>1, <2>2
<1>. HIDE DEF y
<1>6. Cardinality(r) = n - 1 /\ n \in Nat
  BY <1>0, <1>3, <1>5, RestSmaller
<1>7. k[r] = g[r \cap S] + (IF x \in r THEN d ELSE 0)
  <2>1. r \notin Bad
    <3>1. r \in Bad => Cardinality(r) \in T
      OBVIOUS
    <3>. HIDE DEF Bad, T, r
    <3>. QED BY <1>2, <1>6, <3>1
  <2>. HIDE DEF r
  <2>. QED BY <1>5, <2>1
<1>8. /\ g[r \cap S] \in Nat /\ g[s \cap S] \in Nat
  BY <1>0, TotalValues
<1>9. y \in S => g[s \cap S] = f[y] + g[r \cap S] /\ f[y] \in Nat
  <2>. SUFFICES ASSUME y \in S PROVE g[s \cap S] = f[y] + g[r \cap S]
    OBVIOUS
  <2>1. r \cap S = (s \cap S) \ {y} /\ y \in s \cap S /\ s \cap S \in SUBSET S
    BY <1>5
  <2>2. g[s \cap S] = f[y] + g[(s \cap S) \ {y}]
    BY <1>0, <2>1, TotalRemove
  <2>. QED BY <2>1, <2>2
<1>10. y \notin S => r \cap S = s \cap S
  OBVIOUS
<1>11. e[y] = (IF y \in S THEN f[y] ELSE 0) + (IF y = x THEN d ELSE 0)
  BY <1>5 DEF Grown
<1>12. x \in s <=> x \in r \/ x = y
  BY <1>5
<1>13. x \in r => x # y
  OBVIOUS
<1>14. k[s] # g[s \cap S] + (IF x \in s THEN d ELSE 0)
  BY <1>3
<1>. HIDE DEF r, Bad, T
<1>15. CASE y \in S
  BY <1>5, <1>7, <1>8, <1>9, <1>11, <1>12, <1>13, <1>14, <1>15
<1>16. CASE y \notin S
  <2>1. g[r \cap S] = g[s \cap S]
    BY <1>10, <1>16
  <2>2. e[y] = IF y = x THEN d ELSE 0
    BY <1>11, <1>16
  <2>. QED BY <1>5, <1>7, <1>8, <1>12, <1>13, <1>14, <2>1, <2>2
<1>. QED BY <1>15, <1>16

LEMMA TotalUnique ==
  ASSUME NEW S, IsFiniteSet(S), NEW f, \A x \in S : f[x] \in Nat,
         NEW g, IsTotal(f, S, g), NEW k, IsTotal(f, S, k)
  PROVE  k[S] = g[S]
<1>1. PICK U, e, x, d : U = S /\ e = f /\ d = 0
  OBVIOUS
<1>2. Grown(e, U, f, S, x, d)
  BY <1>1 DEF Grown
<1>3. IsFiniteSet(U) /\ S \subseteq U /\ (\A y \in U : e[y] \in Nat) /\ d \in Nat /\ IsTotal(e, U, k)
  BY <1>1
<1>4. \A s \in SUBSET U : k[s] = g[s \cap S] + (IF x \in s THEN d ELSE 0)
  <2>1. g \in [SUBSET S -> Nat] /\ k \in [SUBSET U -> Nat]
    <3>1. \A s \in SUBSET S : g[s] \in Nat /\ k[s] \in Nat
      BY TotalValues
    <3>. QED BY <1>1, <3>1 DEF IsTotal
  <2>. QED BY ONLY <1>2, <1>3, <2>1, TotalCompare, IsTotal(f, S, g), \A y \in S : f[y] \in Nat
<1>5. U \cap S = S /\ S \in SUBSET U /\ U = S
  BY <1>1
<1>6. k[S] = g[S] + 0
  BY <1>1, <1>4, <1>5
<1>7. g[S] \in Nat
  BY <1>5, TotalValues
<1>. QED BY <1>6, <1>7

LEMMA TotalIs ==
  ASSUME NEW S, IsFiniteSet(S), NEW f, \A x \in S : f[x] \in Nat, NEW g, IsTotal(f, S, g)
  PROVE  Total(f, S) = g[S] /\ Total(f, S) \in Nat
<1>1. PICK k : k = CHOOSE r : IsTotal(f, S, r)
  OBVIOUS
<1>2. IsTotal(f, S, k)
  BY <1>1
<1>3. Total(f, S) = k[S]
  BY <1>1 DEF Total
<1>4. k[S] = g[S]
  BY <1>2, TotalUnique
<1>5. g[S] \in Nat
  <2>1. S \in SUBSET S
    OBVIOUS
  <2>. QED BY <2>1, TotalValues
<1>. QED BY <1>3, <1>4, <1>5

\* Elements with 0 that join a set do not change its sum, and one that counts d
\* more, as an old or as a new one, makes it bigger by d.
LEMMA TotalChanges ==
  ASSUME NEW U, IsFiniteSet(U), NEW S, S \subseteq U,
         NEW f, \A y \in S : f[y] \in Nat, NEW e, \A y \in U : e[y] \in Nat,
         NEW x, NEW d \in Nat, Grown(e, U, f, S, x, d)
  PROVE  Total(e, U) = Total(f, S) + (IF x \in U THEN d ELSE 0)
<1>1. IsFiniteSet(S) /\ U \cap S = S
  BY FS_Subset
<1>2. PICK g \in [SUBSET S -> Nat] : IsTotal(f, S, g)
  BY <1>1, TotalExists
<1>3. PICK k \in [SUBSET U -> Nat] : IsTotal(e, U, k)
  BY TotalExists
<1>4. \A s \in SUBSET U : k[s] = g[s \cap S] + (IF x \in s THEN d ELSE 0)
  BY <1>2, <1>3, TotalCompare
<1>5. k[U] = g[S] + (IF x \in U THEN d ELSE 0)
  BY <1>1, <1>4
<1>. QED BY <1>1, <1>2, <1>3, <1>5, TotalIs

LEMMA TotalGrows ==
  ASSUME NEW D, NEW f \in [D -> Nat], NEW e \in [D -> Nat],
         NEW U \in SUBSET D, IsFiniteSet(U), NEW S \in SUBSET U,
         NEW x, NEW d \in Nat, Grown(e, U, f, S, x, d)
  PROVE  Total(e, U) = Total(f, S) + (IF x \in U THEN d ELSE 0)
<1>1. (\A y \in S : f[y] \in Nat) /\ (\A y \in U : e[y] \in Nat) /\ S \subseteq U
  OBVIOUS
<1>. QED BY <1>1, TotalChanges

LEMMA TotalNone == \A f : Total(f, {}) = 0
<1>. SUFFICES ASSUME NEW f PROVE Total(f, {}) = 0
  OBVIOUS
<1>1. IsFiniteSet({}) /\ {} \in SUBSET {}
  BY FS_EmptySet
<1>2. PICK g \in [SUBSET {} -> Nat] : IsTotal(f, {}, g)
  BY <1>1, TotalExists
<1>3. g[{}] = 0
  BY <1>2, TotalStep
<1>. QED BY <1>1, <1>2, <1>3, TotalIs

\* The sum of the community modules.
LEMMA TotalOf ==
  ASSUME NEW S, IsFiniteSet(S), NEW f, \A x \in S : f[x] \in Nat
  PROVE  MapThenSumSet(LAMBDA x : f[x], S) = Total(f, S)
<1>. DEFINE R(g) == g = [s \in SUBSET S |->
                           IF s = {} THEN 0
                           ELSE f[CHOOSE x \in s : TRUE]
                                  + g[s \ {CHOOSE x \in s : TRUE}]]
            r == CHOOSE g : R(g)
<1>1. MapThenSumSet(LAMBDA x : f[x], S) = r[S]
  BY DEF MapThenSumSet, MapThenFoldSet
<1>2. ASSUME NEW g PROVE R(g) <=> IsTotal(f, S, g)
  BY DEF IsTotal, Summed, First
<1>4. \E g : IsTotal(f, S, g)
  BY TotalExists
<1>. HIDE DEF R
<1>5. R(r)
  BY <1>2, <1>4
<1>. HIDE DEF r
<1>6. IsTotal(f, S, r)
  BY <1>2, <1>5
<1>. QED BY <1>1, <1>6, TotalIs

-----------------------------------------------------------------------------
(* What the operators of sessions and tables return.                        *)
\* Session operators keep sessions well typed.
LEMMA CounterMembers ==
  ASSUME NEW i \in ReportId, NEW r \in Release
  PROVE  /\ ReportCounter(i) \in Counter
         /\ ReleaseCounter(i, r) \in Counter
         /\ DetailCounter(i, r) \in Counter
BY DEF Counter, ReportCounters, RowCounters

LEMMA CleanSessionType == CleanSession \in Session
BY DEF CleanSession, Session

LEMMA IncrementType ==
  ASSUME NEW s \in Session, NEW c \in Counter, NEW n \in Nat,
         tally \in [Counter -> Nat]
  PROVE  Increment(s, c, n) \in Session
<1>. DEFINE b == [s.base EXCEPT ![c] = IF s.added[c] = 0 THEN tally[c] ELSE @]
            a == [s.added EXCEPT ![c] = @ + n]
            k == s.clash \/ (s.added[c] > 0 /\ s.base[c] = 0)
<1>1. Increment(s, c, n) = [s EXCEPT !.base = b, !.added = a, !.clash = k]
  BY DEF Session, Increment
<1>2. b \in [Counter -> Nat] /\ a \in [Counter -> Nat]
  BY DEF Session
<1>3. k \in BOOLEAN
  OBVIOUS
<1>. HIDE DEF a, b, k
<1>. QED BY <1>1, <1>2, <1>3 DEF Session

LEMMA FindReportType ==
  ASSUME StoreTypeOK, NEW p \in Saver, NEW u \in UReport, NEW i \in ReportId,
         FindReport(p, u, i)
  PROVE  session' \in [Saver -> Session]
<1>1. CASE /\ i \in Committed(u.hash)
           /\ session' =
                IF i \in session[p].loaded THEN session
                ELSE [session EXCEPT
                        ![p].loaded = @ \cup {i},
                        ![p].base[ReportCounter(i)] = tally[ReportCounter(i)]]
  <2>. DEFINE b == [session[p].base EXCEPT
                       ![ReportCounter(i)] = tally[ReportCounter(i)]]
              t == [session[p] EXCEPT !.loaded = @ \cup {i}, !.base = b]
  <2>1. session[p] \in Session
    BY DEF StoreTypeOK
  <2>2. b \in [Counter -> Nat]
    BY <2>1 DEF StoreTypeOK, Session, Counter, ReportCounters
  <2>3. t \in Session
    <3>. HIDE DEF b
    <3>. QED BY <2>1, <2>2 DEF Session
  <2>4. session' = IF i \in session[p].loaded THEN session
                   ELSE [session EXCEPT ![p] = t]
    BY <1>1, <2>1 DEF StoreTypeOK, Session
  <2>. HIDE DEF t
  <2>. QED BY <2>3, <2>4 DEF StoreTypeOK
<1>2. CASE session' = [session EXCEPT ![p].new[i] = u.hash]
  <2>. DEFINE n == [session[p].new EXCEPT ![i] = u.hash]
              t == [session[p] EXCEPT !.new = n]
  <2>1. session[p] \in Session
    BY DEF StoreTypeOK
  <2>2. n \in [ReportId -> Hash \cup {NoHash}]
    BY <2>1 DEF Session, UReport
  <2>3. t \in Session
    <3>. HIDE DEF n
    <3>. QED BY <2>1, <2>2 DEF Session
  <2>4. session' = [session EXCEPT ![p] = t]
    BY <1>2, <2>1 DEF StoreTypeOK, Session
  <2>. HIDE DEF t
  <2>. QED BY <2>3, <2>4 DEF StoreTypeOK
<1>. QED BY <1>1, <1>2 DEF FindReport

LEMMA FlushType ==
  ASSUME StoreTypeOK, NEW p \in Saver, Flush(p)
  PROVE  /\ hashOf' \in [ReportId -> Hash \cup {NoHash}]
         /\ tally' \in [Counter -> Nat]
         /\ traced' \in SUBSET ReportId
         /\ session' \in [Saver -> Session]
BY CleanSessionType DEF Flush, StoreTypeOK, Session

LEMMA ForgetType ==
  ASSUME StoreTypeOK, NEW p \in Saver, Forget(p)
  PROVE  /\ session' \in [Saver -> Session]
         /\ addLob' \in [Saver -> Lob \cup {NoLob}]
BY CleanSessionType DEF Forget, StoreTypeOK

LEMMA CountDetailsType ==
  ASSUME StoreTypeOK, StoreAssumption, NEW p \in Saver, NEW u \in UReport,
         NEW i \in ReportId, NEW n \in Nat, CountDetails(p, u, i, n)
  PROVE  /\ session' \in [Saver -> Session]
         /\ addLob' \in [Saver -> Lob \cup {NoLob}]
<1>1. session[p] \in Session /\ tally \in [Counter -> Nat]
  BY DEF StoreTypeOK
<1>2. DetailCounter(i, u.release) \in Counter /\ ReportCounter(i) \in Counter
  BY CounterMembers DEF UReport
<1>. DEFINE s == Increment(session[p], DetailCounter(i, u.release), n)
            a == [s.added EXCEPT ![ReportCounter(i)] = @ + n]
            t == [s EXCEPT !.added = a, !.traced = @ \cup {i}]
<1>3. s \in Session
  BY <1>1, <1>2, IncrementType
<1>. HIDE DEF s
<1>4. a \in [Counter -> Nat]
  BY <1>2, <1>3 DEF Session
<1>5. t \in Session
  <2>. HIDE DEF a
  <2>. QED BY <1>3, <1>4 DEF Session
<1>6. session' = [session EXCEPT ![p] = t]
  <2>1. session' = [session EXCEPT ![p] =
            [s EXCEPT !.added[ReportCounter(i)] = @ + n, !.traced = @ \cup {i}]]
    BY Zenon DEF CountDetails, s
  <2>2. [s EXCEPT !.added[ReportCounter(i)] = @ + n, !.traced = @ \cup {i}] = t
    BY <1>3 DEF Session
  <2>. QED BY <2>1, <2>2
<1>7. session' \in [Saver -> Session]
  <2>. HIDE DEF t
  <2>. QED BY <1>5, <1>6 DEF StoreTypeOK
<1>8. addLob' \in [Saver -> Lob \cup {NoLob}]
  BY DEF CountDetails, StoreTypeOK, Lob
<1>. QED BY <1>7, <1>8

LEMMA AddOneType ==
  ASSUME NEW S, NEW g \in [S -> Nat], NEW x \in S
  PROVE  [g EXCEPT ![x] = g[x] + 1] \in [S -> Nat]
OBVIOUS

\* What counting a file does to the history of commits.
LEMMA CountFile ==
  ASSUME commits \in [File -> Nat], NEW f \in File,
         commits' = [commits EXCEPT ![f] = @ + 1]
  PROVE  /\ commits' \in [File -> Nat]
         /\ commits'[f] = commits[f] + 1
         /\ commits'[f] > 0
         /\ \A g \in File : commits'[g] >= commits[g]
         /\ \A g \in File \ {f} : commits'[g] = commits[g]
<1>1. commits' = [commits EXCEPT ![f] = commits[f] + 1]
  OBVIOUS
<1>2. commits' \in [File -> Nat]
  BY <1>1, AddOneType
<1>3. commits'[f] = commits[f] + 1 /\ commits[f] \in Nat
  BY <1>1
<1>4. \A g \in File \ {f} : commits'[g] = commits[g]
  BY <1>1
<1>5. ASSUME NEW g \in File PROVE commits'[g] >= commits[g]
  <2>1. CASE g = f
    BY <1>3, <2>1
  <2>2. CASE g # f
    BY <1>4, <2>2
  <2>. QED BY <2>1, <2>2
<1>. QED BY <1>2, <1>3, <1>4, <1>5

\* While a process works on a file it has one, and from the look-up to the
\* flush it also has a report.
Working == {"opsys", "stat", "release", "details", "flush", "postflush",
            "keep", "defer"}
Reporting == {"release", "details", "flush", "postflush", "keep"}

LocalsOK ==
  \A p \in Saver : /\ pc[p] \in Working <=> cur[p] \in File
                   /\ pc[p] \in Reporting => report[p] \in ReportId
                   /\ pc[p] = "postflush" => addLob[p] # NoLob

LEMMA EndType ==
  ASSUME TypeOK, NEW p \in Saver, NEW step \in Step, End(p, step)
  PROVE  /\ session' \in [Saver -> Session]
         /\ addLob' \in [Saver -> Lob \cup {NoLob}]
         /\ pc' \in [Saver -> Step]
         /\ todo' \in [Saver -> SUBSET File]
         /\ cur' \in [Saver -> File \cup {NoFile}]
         /\ report' \in [Saver -> ReportId \cup {NoReport}]
BY ForgetType DEF End, Goto, TypeOK

LEMMA EndLocals ==
  ASSUME TypeOK, LocalsOK, NEW p \in Saver, NEW step \in {"idle", "dead"},
         End(p, step)
  PROVE  LocalsOK'
BY SaveAssumption DEF End, Goto, Forget, TypeOK, StoreTypeOK, LocalsOK, Working, Reporting

-----------------------------------------------------------------------------
TypeInv == TypeOK /\ LocalsOK

LEMMA TypeInit == Init => TypeInv
<1>. SUFFICES ASSUME Init PROVE TypeInv
  OBVIOUS
<1>1. StoreTypeOK
  BY CleanSessionType DEF Init, StoreInit, StoreTypeOK
<1>2. TypeOK
  BY <1>1, SaveAssumption DEF Init, TypeOK, Dir, Step
<1>3. LocalsOK
  BY SaveAssumption DEF Init, LocalsOK, Working, Reporting
<1>. QED BY <1>2, <1>3 DEF TypeInv

LEMMA TypeNext == TypeInv /\ [Next]_vars => TypeInv'
<1>. SUFFICES ASSUME TypeOK, LocalsOK, [Next]_vars PROVE TypeOK' /\ LocalsOK'
  BY DEF TypeInv
<1>. USE StoreAssumption, SaveAssumption
<1>0. StoreTypeOK
  BY DEF TypeOK
<1>1. ASSUME NEW f \in File, Submit(f) PROVE TypeOK' /\ LocalsOK'
  BY <1>1 DEF Submit, TypeOK, StoreTypeOK, LocalsOK, storeVars, procVars, Dir
<1>2. ASSUME NEW f \in File, FinishWriting(f) PROVE TypeOK' /\ LocalsOK'
  BY <1>2 DEF FinishWriting, TypeOK, StoreTypeOK, LocalsOK, storeVars, procVars
<1>3. ASSUME NEW p \in Saver, Start(p) PROVE TypeOK' /\ LocalsOK'
  BY <1>3 DEF Start, Goto, Incoming, TypeOK, StoreTypeOK, LocalsOK, storeVars,
              spoolVars, Step, Working, Reporting
<1>4. ASSUME NEW p \in Saver, Load(p) PROVE TypeOK' /\ LocalsOK'
  BY <1>4 DEF Load, Goto, TypeOK, StoreTypeOK, LocalsOK, storeVars,
              spoolVars, Step, Working, Reporting
<1>5. ASSUME NEW p \in Saver, Die(p), UNCHANGED spoolVars, crashes' = crashes,
             commits' = commits
      PROVE  TypeOK' /\ LocalsOK'
  BY <1>5, <1>0, EndType, EndLocals DEF Die, TypeOK, StoreTypeOK, spoolVars, Step
<1>6. ASSUME NEW p \in Saver, RecordOpsys(p) PROVE TypeOK' /\ LocalsOK'
  <2>1. CASE /\ Flush(p) /\ unknownOpsys' = unknownOpsys + 1 /\ Goto(p, "defer")
             /\ UNCHANGED <<oops, addLob, todo, cur, report>>
    <3>1. TypeOK'
      BY <1>0, <1>6, <2>1, FlushType DEF RecordOpsys, Goto, TypeOK, StoreTypeOK,
         spoolVars, Step
    <3>2. LocalsOK'
      BY <1>6, <2>1 DEF RecordOpsys, Goto, TypeOK, LocalsOK, Working, Reporting
    <3>. QED BY <3>1, <3>2
  <2>. QED BY <1>5, <1>6, <2>1 DEF RecordOpsys
<1>7. ASSUME NEW p \in Saver, LookUp(p) PROVE TypeOK' /\ LocalsOK'
  <2>1. CASE /\ Goto(p, "defer")
             /\ UNCHANGED <<storeVars, todo, cur, report>>
    BY <1>7, <2>1 DEF LookUp, Goto, TypeOK, StoreTypeOK, LocalsOK, storeVars,
       spoolVars, Step, Working, Reporting
  <2>2. CASE /\ \E i \in ReportId : /\ FindReport(p, ureport[cur[p]], i)
                                    /\ report' = [report EXCEPT ![p] = i]
             /\ Goto(p, "release")
             /\ UNCHANGED <<hashOf, tally, traced, oops, unknownOpsys, addLob,
                            todo, cur>>
    <3>1. ureport[cur[p]] \in UReport
      BY <1>7 DEF LookUp, TypeOK, LocalsOK, Working
    <3>2. session' \in [Saver -> Session]
      BY <1>0, <2>2, <3>1, FindReportType
    <3>3. report' \in [Saver -> ReportId \cup {NoReport}]
      BY <2>2 DEF TypeOK
    <3>4. TypeOK'
      BY <1>7, <2>2, <3>2, <3>3 DEF LookUp, Goto, TypeOK, StoreTypeOK, spoolVars, Step
    <3>5. LocalsOK'
      BY <1>7, <2>2 DEF LookUp, Goto, TypeOK, LocalsOK, Working, Reporting
    <3>. QED BY <3>4, <3>5
  <2>. QED BY <1>5, <1>7, <2>1, <2>2 DEF LookUp
<1>8. ASSUME NEW p \in Saver, SaveRelease(p) PROVE TypeOK' /\ LocalsOK'
  <2>1. cur[p] \in File /\ report[p] \in ReportId
    BY <1>8 DEF SaveRelease, LocalsOK, Working, Reporting
  <2>2. ReleaseCounter(report[p], ureport[cur[p]].release) \in Counter
    BY <2>1, CounterMembers DEF TypeOK, UReport
  <2>3. session' \in [Saver -> Session]
    BY <1>8, <2>2, IncrementType DEF SaveRelease, CountRelease, TypeOK, StoreTypeOK
  <2>4. TypeOK'
    BY <1>8, <2>3 DEF SaveRelease, Goto, TypeOK, StoreTypeOK, spoolVars, Step
  <2>5. LocalsOK'
    BY <1>8 DEF SaveRelease, Goto, TypeOK, LocalsOK, Working, Reporting
  <2>. QED BY <2>4, <2>5
<1>9. ASSUME NEW p \in Saver, SaveDetails(p) PROVE TypeOK' /\ LocalsOK'
  <2>1. report[p] \in ReportId /\ ureport[cur[p]] \in UReport
    BY <1>9 DEF SaveDetails, LocalsOK, Working, Reporting, TypeOK
  <2>2. /\ session' \in [Saver -> Session]
        /\ addLob' \in [Saver -> Lob \cup {NoLob}]
    BY <1>0, <1>9, <2>1, CountDetailsType DEF SaveDetails
  <2>3. TypeOK'
    BY <1>9, <2>2 DEF SaveDetails, Goto, TypeOK, StoreTypeOK, spoolVars, Step
  <2>4. LocalsOK'
    BY <1>9, <2>1 DEF SaveDetails, CountDetails, Goto, TypeOK, StoreTypeOK,
                      LocalsOK, Working, Reporting
  <2>. QED BY <2>3, <2>4
<1>10. ASSUME NEW p \in Saver, Commit(p) PROVE TypeOK' /\ LocalsOK'
  <2>1. CASE /\ Flush(p)
             /\ commits' = [commits EXCEPT ![cur[p]] = @ + 1]
             /\ Goto(p, IF ureport[cur[p]].hash \in KernelHash
                           /\ addLob[p] # NoLob
                        THEN "postflush" ELSE "keep")
             /\ UNCHANGED <<oops, unknownOpsys, addLob, todo, cur, report>>
    <3>0. cur[p] \in File
      BY <1>10 DEF Commit, LocalsOK, Working
    <3>1. TypeOK'
      <4>1. commits' \in [File -> Nat]
        BY <2>1, <3>0, CountFile DEF TypeOK
      <4>2. pc' \in [Saver -> Step]
        <5>1. PICK step \in {"postflush", "keep"} : Goto(p, step)
          BY <2>1
        <5>. QED BY <5>1 DEF Goto, TypeOK, Step
      <4>. QED
        BY <1>0, <1>10, <2>1, <4>1, <4>2, FlushType
        DEF Commit, TypeOK, StoreTypeOK, spoolVars
    <3>2. LocalsOK'
      BY <1>10, <2>1 DEF Commit, Goto, TypeOK, LocalsOK, Working, Reporting
    <3>. QED BY <3>1, <3>2
  <2>. QED BY <1>5, <1>10, <2>1 DEF Commit
<1>11. ASSUME NEW p \in Saver, PostFlush(p) PROVE TypeOK' /\ LocalsOK'
  <2>1. TypeOK'
    BY <1>11 DEF PostFlush, SaveLob, Goto, TypeOK, StoreTypeOK, spoolVars, Step
  <2>2. LocalsOK'
    BY <1>11 DEF PostFlush, SaveLob, LobAccepted, Goto, TypeOK, StoreTypeOK,
                 LocalsOK, Working, Reporting
  <2>. QED BY <2>1, <2>2
<1>12. ASSUME NEW p \in Saver, NEW step \in {"keep", "defer"},
              NEW target \in {"saved", "deferred"}, MoveTo(p, step, target)
       PROVE  TypeOK' /\ LocalsOK'
  <2>1. TypeOK'
    BY <1>12 DEF MoveTo, Goto, TypeOK, StoreTypeOK, storeVars, Dir, Step
  <2>2. LocalsOK'
    BY <1>12 DEF MoveTo, Goto, TypeOK, StoreTypeOK, storeVars, LocalsOK,
                 Working, Reporting
  <2>. QED BY <2>1, <2>2
<1>13. ASSUME NEW p \in Saver, Finish(p) PROVE TypeOK' /\ LocalsOK'
  BY <1>13 DEF Finish, Goto, TypeOK, StoreTypeOK, LocalsOK, storeVars, spoolVars,
     Step, Working, Reporting
<1>16. ASSUME NEW p \in Saver, SaveAttachments(p) PROVE TypeOK' /\ LocalsOK'
  <2>1. LocalsOK'
    BY <1>16, EndLocals DEF SaveAttachments
  <2>2. /\ hashOf' \in [ReportId -> Hash \cup {NoHash}]
        /\ tally' \in [Counter -> Nat]
        /\ traced' \in SUBSET ReportId
    BY <1>0, <1>16, FlushType DEF SaveAttachments, StoreTypeOK
  <2>3. End(p, "idle") /\ "idle" \in Step
    BY <1>16 DEF SaveAttachments, Step
  <2>4. /\ session' \in [Saver -> Session]
        /\ addLob' \in [Saver -> Lob \cup {NoLob}]
        /\ pc' \in [Saver -> Step]
        /\ todo' \in [Saver -> SUBSET File]
        /\ cur' \in [Saver -> File \cup {NoFile}]
        /\ report' \in [Saver -> ReportId \cup {NoReport}]
    BY <2>3, EndType
  <2>. QED BY <1>16, <2>1, <2>2, <2>4 DEF SaveAttachments, TypeOK, StoreTypeOK, spoolVars
<1>14. ASSUME NEW p \in Saver, Crash(p) PROVE TypeOK' /\ LocalsOK'
  <2>1. LocalsOK'
    BY <1>14, EndLocals DEF Crash
  <2>2. TypeOK'
    <3>1. End(p, "idle") /\ "idle" \in Step
      BY <1>14 DEF Crash, Step
    <3>2. /\ session' \in [Saver -> Session]
          /\ addLob' \in [Saver -> Lob \cup {NoLob}]
          /\ pc' \in [Saver -> Step]
          /\ todo' \in [Saver -> SUBSET File]
          /\ cur' \in [Saver -> File \cup {NoFile}]
          /\ report' \in [Saver -> ReportId \cup {NoReport}]
      BY <3>1, EndType
    <3>. QED BY <1>14, <3>2 DEF Crash, TypeOK, StoreTypeOK, spoolVars
  <2>. QED BY <2>1, <2>2
<1>15. CASE UNCHANGED vars
  BY <1>15 DEF vars, storeVars, spoolVars, procVars, TypeOK, StoreTypeOK, LocalsOK
<1>. QED
  BY <1>1, <1>2, <1>3, <1>4, <1>6, <1>7, <1>8, <1>9, <1>10, <1>11, <1>12, <1>13,
     <1>14, <1>15, <1>16 DEF Next, SaveFile, MoveToSaved, MoveToDeferred

\* Every variable of save-reports keeps its type, for any number of processes.
THEOREM TypeCorrect == Spec => []TypeOK
<1>1. TypeInv => TypeOK
  BY DEF TypeInv
<1>. QED BY <1>1, TypeInit, TypeNext, PTL DEF Spec

-----------------------------------------------------------------------------
(* What is in saved was counted, for any number of processes: from its     *)
(* flush to its rename a file is the current file of a process that has    *)
(* passed the flush, and commits never goes down.                          *)

CountedInv ==
  /\ \A p \in Saver : pc[p] \in {"postflush", "keep"} => commits[cur[p]] > 0
  /\ SavedWasCounted

LEMMA CountedNext == TypeInv /\ CountedInv /\ [Next]_vars => CountedInv'
<1>. SUFFICES ASSUME TypeOK, LocalsOK, CountedInv, [Next]_vars PROVE CountedInv'
  BY DEF TypeInv
<1>. USE SaveAssumption DEF CountedInv, SavedWasCounted
<1>1. ASSUME NEW f \in File, Submit(f) \/ FinishWriting(f) PROVE CountedInv'
  BY <1>1 DEF Submit, FinishWriting, TypeOK, procVars
<1>2. ASSUME NEW p \in Saver, Die(p), UNCHANGED <<spoolVars, commits>>
      PROVE  CountedInv'
  BY <1>2 DEF Die, End, Goto, TypeOK, spoolVars
<1>3. ASSUME NEW p \in Saver, Start(p) \/ Load(p) \/ RecordOpsys(p) \/ LookUp(p)
                              \/ SaveRelease(p) \/ SaveDetails(p)
      PROVE  CountedInv'
  <2>1. ASSUME NEW step \in Step \ {"postflush", "keep"}, Goto(p, step),
               \A q \in Saver \ {p} : cur'[q] = cur[q], UNCHANGED <<dir, commits>>
        PROVE  CountedInv'
    BY <2>1 DEF Goto, TypeOK
  <2>2. CASE Start(p)
    BY <2>1, <2>2 DEF Start, spoolVars, Step
  <2>5. CASE Load(p)
    <3>1. PICK step \in {"defer", "opsys", "stat"} : Goto(p, step)
      BY <2>5 DEF Load
    <3>2. \A q \in Saver \ {p} : cur'[q] = cur[q]
      BY <2>5 DEF Load, TypeOK
    <3>. QED BY <2>1, <2>5, <3>1, <3>2 DEF Load, spoolVars, Step
  <2>3. CASE RecordOpsys(p) \/ LookUp(p)
    BY <1>2, <2>1, <2>3 DEF RecordOpsys, LookUp, spoolVars, Step
  <2>4. CASE SaveRelease(p) \/ SaveDetails(p)
    BY <2>1, <2>4 DEF SaveRelease, SaveDetails, spoolVars, Step
  <2>. QED BY <1>3, <2>2, <2>3, <2>4, <2>5
<1>4. ASSUME NEW p \in Saver, Commit(p) PROVE CountedInv'
  <2>0. cur[p] \in File
    BY <1>4 DEF Commit, LocalsOK, Working
  <2>1. CASE /\ commits' = [commits EXCEPT ![cur[p]] = @ + 1]
             /\ \E step \in Step : Goto(p, step)
             /\ UNCHANGED <<dir, cur>>
    <3>1. /\ commits' \in [File -> Nat]
          /\ commits'[cur[p]] > 0
          /\ \A f \in File : commits'[f] >= commits[f]
      BY <2>0, <2>1, CountFile DEF TypeOK
    <3>2. \A q \in Saver \ {p} : pc'[q] = pc[q]
      BY <2>1 DEF Goto, TypeOK
    <3>3. ASSUME NEW q \in Saver \ {p}, pc'[q] \in {"postflush", "keep"}
          PROVE  commits'[cur'[q]] > 0
      <4>1. pc[q] \in {"postflush", "keep"} /\ cur'[q] = cur[q]
        BY <2>1, <3>2, <3>3
      <4>2. cur[q] \in File /\ commits[cur[q]] > 0
        BY <4>1 DEF LocalsOK, Working
      <4>3. commits'[cur[q]] >= commits[cur[q]]
        BY <3>1, <4>2
      <4>4. commits[cur[q]] \in Nat /\ commits'[cur[q]] \in Nat
        BY <3>1, <4>2 DEF TypeOK
      <4>. QED BY <4>1, <4>2, <4>3, <4>4
    <3>4. SavedWasCounted'
      BY <2>1, <3>1 DEF TypeOK
    <3>. QED BY <2>1, <3>1, <3>3, <3>4
  <2>2. CASE Die(p) /\ UNCHANGED commits
    BY <1>2, <1>4, <2>2 DEF Commit
  <2>. QED BY <1>4, <2>1, <2>2 DEF Commit, spoolVars, Step
<1>5. ASSUME NEW p \in Saver, PostFlush(p) PROVE CountedInv'
  BY <1>5 DEF PostFlush, Goto, TypeOK, spoolVars
<1>6. ASSUME NEW p \in Saver, MoveToSaved(p) \/ MoveToDeferred(p) PROVE CountedInv'
  BY <1>6 DEF MoveToSaved, MoveToDeferred, MoveTo, Goto, TypeOK, LocalsOK, Working
<1>7. ASSUME NEW p \in Saver, Finish(p) \/ SaveAttachments(p) \/ Crash(p)
      PROVE  CountedInv'
  BY <1>7 DEF Finish, SaveAttachments, Crash, End, Goto, TypeOK, spoolVars
<1>8. CASE UNCHANGED vars
  BY <1>8 DEF vars, spoolVars, procVars
<1>. QED
  BY <1>1, <1>3, <1>4, <1>5, <1>6, <1>7, <1>8 DEF Next, SaveFile

\* No file is moved to saved before its uReport was counted and flushed,
\* whatever the processes, the files and the crashes.
THEOREM SavedWasCountedAlways == Spec => []SavedWasCounted
<1>1. Init => CountedInv
  BY DEF Init, CountedInv, SavedWasCounted
<1>2. CountedInv => SavedWasCounted
  BY DEF CountedInv
<1>. QED BY <1>1, <1>2, TypeInit, TypeNext, CountedNext, PTL DEF Spec

-----------------------------------------------------------------------------
(* What save-reports promises when its runs do not overlap: with at most   *)
(* one process at a time.                                                  *)

OneSaver == \A p, q \in Saver : p = q

\* The file in work and the files still to do are in incoming, each once.
SpoolInv ==
  \A p \in Saver : /\ todo[p] \subseteq Incoming
                   /\ cur[p] \in File => /\ dir[cur[p]] = "incoming"
                                         /\ cur[p] \notin todo[p]

\* The flush of a file is behind the process, or the file is not its business.
Settled(f) ==
  \/ dir[f] \in {"saved", "deferred"}
  \/ \E p \in Saver : cur[p] = f /\ pc[p] \in {"postflush", "keep", "defer"}

\* Each count beyond the first is the work of a crash between flush and rename.
CountInv ==
  /\ CountedOncePerCrash
  /\ \A f \in File : ~Settled(f) => commits[f] <= crashes

\* A counted file is complete, was acceptable and has a report.
CountedWasGood ==
  \A f \in File :
    commits[f] > 0 => /\ f \in complete
                      /\ ureport[f].verdict \in {"ok", "noComponent"}
                      /\ Committed(ureport[f].hash) # {}

\* What each step of the process may rely on.
StepInv ==
  \A p \in Saver :
    LET u == ureport[cur[p]]
    IN  /\ pc[p] = "opsys" => u.verdict = "unknownOs"
        /\ pc[p] = "stat" => u.verdict \notin {"invalid", "unknownOs"}
        /\ pc[p] = "release" => u.verdict \in {"ok", "noComponent", "noArch"}
        /\ pc[p] \in {"stat", "release", "details", "flush"}
             => cur[p] \in complete
        /\ pc[p] \in {"details", "flush"} => u.verdict \in {"ok", "noComponent"}
        /\ pc[p] \in {"release", "details", "flush"}
             => u.hash \in {hashOf[report[p]], session[p].new[report[p]]}
        /\ pc[p] = "defer" => commits[cur[p]] = 0

\* The session never replaces a committed report.
NewInv ==
  \A p \in Saver, i \in ReportId :
    session[p].new[i] # NoHash => hashOf[i] = NoHash

\* The kernel plugin remembers a lob only for the report in work, and only one
\* that save_lob will accept.
LobInv ==
  \A p \in Saver :
    addLob[p] # NoLob => /\ pc[p] \in {"flush", "postflush"}
                         /\ ureport[cur[p]].hash \in KernelHash
                         /\ LobAccepted(p)

\* The checker's limit on the size of an oops keeps out what a lob cannot hold.
OopsesFit == \A f \in File : ureport[f].verdict # "bigOops"

DeferInv == /\ OopsesFit
            /\ DeferredNotCounted
            /\ CountedWasGood
            /\ StepInv
            /\ NewInv
            /\ LobInv

-----------------------------------------------------------------------------
LEMMA SpoolNext ==
  ASSUME OneSaver, TypeInv, SpoolInv, [Next]_vars
  PROVE  SpoolInv'
<1>. USE SaveAssumption DEF SpoolInv, Incoming
<1>0. TypeOK /\ LocalsOK
  BY DEF TypeInv
<1>1. CASE UNCHANGED <<dir, todo, cur>>
  BY <1>1
<1>2. ASSUME NEW p \in Saver, NEW step \in Step, End(p, step), dir' = dir
      PROVE  SpoolInv'
  BY <1>0, <1>2 DEF End, TypeOK, OneSaver
<1>3. ASSUME NEW f \in File, Submit(f) PROVE SpoolInv'
  BY <1>0, <1>3 DEF Submit, TypeOK, procVars
<1>4. ASSUME NEW p \in Saver, Start(p) PROVE SpoolInv'
  BY <1>0, <1>4 DEF Start, TypeOK, LocalsOK, Working, OneSaver, spoolVars
<1>5. ASSUME NEW p \in Saver, Load(p) PROVE SpoolInv'
  BY <1>0, <1>5 DEF Load, TypeOK, OneSaver, spoolVars
<1>6. ASSUME NEW p \in Saver, MoveToSaved(p) \/ MoveToDeferred(p) PROVE SpoolInv'
  <2>1. cur[p] \in File /\ cur' = [cur EXCEPT ![p] = NoFile] /\ todo' = todo
    BY <1>0, <1>6 DEF MoveToSaved, MoveToDeferred, MoveTo, LocalsOK, Working
  <2>2. \A f \in File : f # cur[p] => dir'[f] = dir[f]
    BY <1>0, <1>6 DEF MoveToSaved, MoveToDeferred, MoveTo, TypeOK
  <2>3. cur[p] \notin todo[p] /\ todo[p] \subseteq Incoming
    BY <2>1
  <2>4. \A q \in Saver : q = p /\ cur'[q] = NoFile
    BY <1>0, <2>1 DEF OneSaver, TypeOK
  <2>. QED BY <2>1, <2>2, <2>3, <2>4
<1>7. ASSUME NEW p \in Saver, RecordOpsys(p) \/ LookUp(p) \/ Commit(p)
      PROVE  SpoolInv'
  BY <1>1, <1>2, <1>7 DEF RecordOpsys, LookUp, Commit, Die, spoolVars, Step
<1>8. ASSUME NEW p \in Saver, SaveAttachments(p) \/ Crash(p) PROVE SpoolInv'
  BY <1>2, <1>8 DEF SaveAttachments, Crash, spoolVars, Step
<1>9. ASSUME NEW p \in Saver,
             SaveRelease(p) \/ SaveDetails(p) \/ PostFlush(p) \/ Finish(p)
      PROVE  SpoolInv'
  BY <1>1, <1>9 DEF SaveRelease, SaveDetails, PostFlush, Finish, spoolVars
<1>10. ASSUME NEW f \in File, FinishWriting(f) PROVE SpoolInv'
  BY <1>1, <1>10 DEF FinishWriting, procVars
<1>11. CASE UNCHANGED vars
  BY <1>1, <1>11 DEF vars, spoolVars, procVars
<1>. QED
  BY <1>3, <1>4, <1>5, <1>6, <1>7, <1>8, <1>9, <1>10, <1>11 DEF Next, SaveFile

LEMMA CountNext ==
  ASSUME OneSaver, TypeInv, SpoolInv, CountInv, [Next]_vars
  PROVE  CountInv'
<1>. USE SaveAssumption
<1>0. TypeOK /\ LocalsOK
  BY DEF TypeInv
\* A step that counts nothing may settle files; it unsettles none, unless it
\* is a crash.
<1>1. ASSUME UNCHANGED <<commits, crashes>>,
             \A f \in File : Settled(f) => Settled(f)'
      PROVE  CountInv'
  BY <1>1 DEF CountInv, CountedOncePerCrash
<1>2. ASSUME NEW p \in Saver, NEW step \in {"idle", "dead"}, End(p, step),
             UNCHANGED <<dir, commits, crashes>>,
             pc[p] \notin {"postflush", "keep", "defer"}
      PROVE  CountInv'
  BY <1>0, <1>1, <1>2 DEF Settled, OneSaver
<1>3. ASSUME NEW p \in Saver, NEW step \in Step, Goto(p, step),
             UNCHANGED <<dir, commits, crashes>>,
             pc[p] \in {"postflush", "keep", "defer"}
               => cur'[p] = cur[p] /\ step \in {"postflush", "keep", "defer"}
      PROVE  CountInv'
  BY <1>0, <1>1, <1>3 DEF Settled, Goto, OneSaver, TypeOK
<1>4. ASSUME NEW f \in File, Submit(f) \/ FinishWriting(f) PROVE CountInv'
  BY <1>0, <1>1, <1>4 DEF Submit, FinishWriting, Settled, procVars, TypeOK
<1>5. ASSUME NEW p \in Saver, Start(p) \/ Load(p) PROVE CountInv'
  <2>1. PICK step \in Step : Goto(p, step)
    BY <1>5 DEF Start, Load, Step
  <2>2. pc[p] \notin {"postflush", "keep", "defer"}
    BY <1>5 DEF Start, Load
  <2>. QED BY <1>3, <1>5, <2>1, <2>2 DEF Start, Load, spoolVars
<1>6. ASSUME NEW p \in Saver, RecordOpsys(p) \/ LookUp(p) PROVE CountInv'
  <2>1. pc[p] \notin {"postflush", "keep", "defer"} /\ UNCHANGED <<dir, commits, crashes>>
    BY <1>6 DEF RecordOpsys, LookUp, spoolVars
  <2>2. CASE Die(p)
    BY <1>2, <2>1, <2>2 DEF Die
  <2>3. CASE \E step \in Step : Goto(p, step)
    BY <1>3, <2>1, <2>3
  <2>. QED BY <1>6, <2>2, <2>3 DEF RecordOpsys, LookUp, Step
<1>7. ASSUME NEW p \in Saver, SaveRelease(p) \/ SaveDetails(p) PROVE CountInv'
  <2>1. PICK step \in Step : Goto(p, step)
    BY <1>7 DEF SaveRelease, SaveDetails, Step
  <2>2. pc[p] \notin {"postflush", "keep", "defer"}
    BY <1>7 DEF SaveRelease, SaveDetails
  <2>. QED BY <1>3, <1>7, <2>1, <2>2 DEF SaveRelease, SaveDetails, spoolVars
<1>8. ASSUME NEW p \in Saver, Commit(p) PROVE CountInv'
  <2>1. pc[p] = "flush" /\ UNCHANGED <<dir, crashes>>
    BY <1>8 DEF Commit, spoolVars
  <2>2. CASE Die(p) /\ UNCHANGED commits
    BY <1>2, <2>1, <2>2 DEF Die
  <2>3. CASE /\ commits' = [commits EXCEPT ![cur[p]] = @ + 1]
             /\ \E step \in {"postflush", "keep"} : Goto(p, step)
             /\ cur' = cur
    <3>0. cur[p] \in File
      BY <1>0, <2>1 DEF LocalsOK, Working
    <3>1. ~Settled(cur[p])
      BY <2>1, <3>0 DEF Settled, SpoolInv, OneSaver
    <3>2. commits[cur[p]] <= crashes
      BY <3>0, <3>1 DEF CountInv
    <3>3. /\ commits'[cur[p]] = commits[cur[p]] + 1
          /\ \A f \in File \ {cur[p]} : commits'[f] = commits[f]
      BY <1>0, <2>3, <3>0, CountFile DEF TypeOK
    <3>4. \A f \in File : f = cur[p] => Settled(f)'
      BY <1>0, <2>3 DEF Settled, Goto, TypeOK
    <3>5. \A f \in File : Settled(f) => Settled(f)'
      BY <2>1, <3>4 DEF Settled, OneSaver
    <3>6. crashes \in Nat /\ commits[cur[p]] \in Nat
      BY <1>0, <3>0 DEF TypeOK
    <3>7. CountedOncePerCrash'
      <4>. SUFFICES ASSUME NEW f \in File PROVE commits'[f] <= 1 + crashes'
        BY DEF CountedOncePerCrash
      <4>1. CASE f = cur[p]
        BY <2>1, <3>2, <3>3, <3>6, <4>1
      <4>2. CASE f # cur[p]
        BY <2>1, <3>3, <4>2 DEF CountInv, CountedOncePerCrash
      <4>. QED BY <4>1, <4>2
    <3>8. ASSUME NEW f \in File, ~Settled(f)' PROVE commits'[f] <= crashes'
      <4>1. f # cur[p] /\ ~Settled(f)
        BY <3>4, <3>5, <3>8
      <4>. QED BY <2>1, <3>3, <4>1 DEF CountInv
    <3>. QED BY <3>7, <3>8 DEF CountInv
  <2>. QED BY <1>8, <2>2, <2>3 DEF Commit
<1>9. ASSUME NEW p \in Saver, PostFlush(p) PROVE CountInv'
  <2>1. \E step \in {"keep", "defer"} : Goto(p, step)
    BY <1>9 DEF PostFlush
  <2>. QED BY <1>3, <1>9, <2>1 DEF PostFlush, spoolVars, Step
<1>10. ASSUME NEW p \in Saver, MoveToSaved(p) \/ MoveToDeferred(p)
       PROVE  CountInv'
  <2>1. dir' = [dir EXCEPT ![cur[p]] =
                  IF @ # "incoming" THEN @
                  ELSE IF pc[p] = "keep" THEN "saved" ELSE "deferred"]
    BY <1>10 DEF MoveToSaved, MoveToDeferred, MoveTo
  <2>2. cur[p] \in File /\ dir[cur[p]] = "incoming"
    BY <1>0, <1>10 DEF MoveToSaved, MoveToDeferred, MoveTo, LocalsOK, Working,
       SpoolInv
  <2>3. \A f \in File : Settled(f) => dir'[f] \in {"saved", "deferred"}
    BY <1>0, <2>1, <2>2 DEF Settled, OneSaver, TypeOK
  <2>. QED BY <1>1, <1>10, <2>3 DEF MoveToSaved, MoveToDeferred, MoveTo, Settled
<1>11. ASSUME NEW p \in Saver, Finish(p) \/ SaveAttachments(p) PROVE CountInv'
  <2>1. CASE Finish(p)
    BY <1>3, <2>1 DEF Finish, spoolVars, Step
  <2>2. CASE SaveAttachments(p)
    BY <1>2, <2>2 DEF SaveAttachments, spoolVars
  <2>. QED BY <1>11, <2>1, <2>2
<1>12. ASSUME NEW p \in Saver, Crash(p) PROVE CountInv'
  <2>1. crashes' = crashes + 1 /\ commits' = commits
    BY <1>12 DEF Crash
  <2>. QED BY <1>0, <2>1 DEF CountInv, CountedOncePerCrash, TypeOK
<1>13. CASE UNCHANGED vars
  BY <1>1, <1>13 DEF vars, spoolVars, procVars, Settled
<1>. QED
  BY <1>4, <1>5, <1>6, <1>7, <1>8, <1>9, <1>10, <1>11, <1>12, <1>13
  DEF Next, SaveFile

\* While runs do not overlap, a uReport is counted once, and once more at most
\* for each time a process was killed between the flush and the rename.
THEOREM CountedOncePerCrashAlways ==
  ASSUME OneSaver
  PROVE  Spec => []CountedOncePerCrash
<1>1. Init => SpoolInv /\ CountInv
  BY SaveAssumption
  DEF Init, SpoolInv, CountInv, CountedOncePerCrash, Settled
<1>2. CountInv => CountedOncePerCrash
  BY DEF CountInv
<1>3. TypeInv /\ SpoolInv /\ [Next]_vars => SpoolInv'
  BY SpoolNext
<1>4. TypeInv /\ SpoolInv /\ CountInv /\ [Next]_vars => CountInv'
  BY CountNext
<1>. QED BY <1>1, <1>2, <1>3, <1>4, TypeInit, TypeNext, PTL DEF Spec

-----------------------------------------------------------------------------
(* What the operators of the store do to the pending and committed reports. *)

LEMMA IncrementNew ==
  ASSUME NEW s \in Session, NEW c \in Counter, NEW n \in Nat
  PROVE  Increment(s, c, n).new = s.new
BY DEF Increment, Session

LEMMA FindReportNew ==
  ASSUME OneSaver, StoreTypeOK, StoreAssumption, NewInv, NEW p \in Saver,
         NEW u \in UReport, NEW i \in ReportId, FindReport(p, u, i),
         hashOf' = hashOf
  PROVE  u.hash \in {hashOf[i], session'[p].new[i]} /\ NewInv'
<1>1. session[p] \in Session
  BY DEF StoreTypeOK
<1>2. CASE /\ i \in Committed(u.hash)
           /\ session' =
                IF i \in session[p].loaded THEN session
                ELSE [session EXCEPT
                        ![p].loaded = @ \cup {i},
                        ![p].base[ReportCounter(i)] = tally[ReportCounter(i)]]
  <2>1. session'[p].new = session[p].new
    BY <1>1, <1>2 DEF StoreTypeOK, Session
  <2>2. u.hash = hashOf[i]
    BY <1>2 DEF Committed
  <2>. QED BY <2>1, <2>2 DEF NewInv, OneSaver
<1>3. CASE i \in FreeIds /\ session' = [session EXCEPT ![p].new[i] = u.hash]
  <2>1. session'[p].new = [session[p].new EXCEPT ![i] = u.hash]
    BY <1>1, <1>3 DEF StoreTypeOK, Session
  <2>2. session[p].new \in [ReportId -> Hash \cup {NoHash}]
    BY <1>1 DEF Session
  <2>3. session'[p].new[i] = u.hash /\ hashOf[i] = NoHash
    BY <1>3, <2>1, <2>2 DEF FreeIds
  <2>4. \A j \in ReportId \ {i} : session'[p].new[j] = session[p].new[j]
    BY <2>1, <2>2
  <2>. QED BY <2>3, <2>4 DEF NewInv, OneSaver
<1>. QED BY <1>2, <1>3 DEF FindReport

LEMMA FlushCommits ==
  ASSUME OneSaver, StoreTypeOK, NewInv, NEW p \in Saver, Flush(p)
  PROVE  /\ NewInv'
         /\ \A h \in Hash : Committed(h) \subseteq Committed(h)'
         /\ \A i \in ReportId : session[p].new[i] # NoHash
                                 => hashOf'[i] = session[p].new[i]
         /\ \A i \in ReportId : session[p].new[i] = NoHash => hashOf'[i] = hashOf[i]
<1>1. \A i \in ReportId : hashOf'[i] = IF session[p].new[i] # NoHash
                                        THEN session[p].new[i] ELSE hashOf[i]
  BY DEF Flush
<1>2. session' = [session EXCEPT ![p] = CleanSession]
  BY DEF Flush
<1>3. NewInv'
  BY <1>2 DEF NewInv, OneSaver, CleanSession, StoreTypeOK
<1>4. ASSUME NEW h \in Hash, NEW i \in Committed(h), StoreAssumption
      PROVE  i \in Committed(h)'
  BY <1>1, <1>4 DEF Committed, NewInv, StoreAssumption
<1>. QED BY <1>1, <1>3, <1>4, StoreAssumption

LEMMA DeferNext ==
  ASSUME OneSaver, TypeInv, SpoolInv, DeferInv, [Next]_vars
  PROVE  DeferInv'
<1>. USE StoreAssumption, SaveAssumption
<1>0. TypeOK /\ LocalsOK /\ StoreTypeOK
  BY DEF TypeInv, TypeOK
<1>1. OopsesFit'
  BY DEF DeferInv, OopsesFit, Next, SaveFile, Submit, FinishWriting, Start, Load,
     RecordOpsys, LookUp, SaveRelease, SaveDetails, Commit, PostFlush,
     MoveToSaved, MoveToDeferred, MoveTo, Finish, SaveAttachments, Crash, vars, spoolVars
\* What no step but the flush and the move can disturb.
<1>2. ASSUME commits' = commits, ureport' = ureport, complete \subseteq complete',
             \A h \in Hash : Committed(h) \subseteq Committed(h)'
      PROVE  CountedWasGood'
  <2>1. \A f \in File : ureport[f].hash \in Hash
    BY <1>0 DEF TypeOK, UReport
  <2>. QED BY <1>2, <2>1 DEF DeferInv, CountedWasGood
<1>3. UNCHANGED <<dir, commits>> => DeferredNotCounted'
  BY DEF DeferInv, DeferredNotCounted
<1>4. hashOf' = hashOf => \A h \in Hash : Committed(h) \subseteq Committed(h)'
  BY DEF Committed
<1>5. UNCHANGED <<hashOf, session>> => NewInv'
  BY DEF DeferInv, NewInv
<1>6. \A f \in File : \/ f \notin complete
                       \/ ureport[f].verdict \notin {"ok", "noComponent"}
                       \/ Committed(ureport[f].hash) = {}
                     => commits[f] = 0
  BY <1>0 DEF DeferInv, CountedWasGood, TypeOK
<1>7. ASSUME NEW p \in Saver, NEW step \in {"idle", "dead"}, End(p, step),
             UNCHANGED <<dir, ureport, complete, commits>>,
             \A h \in Hash : Committed(h) \subseteq Committed(h)'
      PROVE  DeferInv'
  <2>1. session'[p] = CleanSession /\ addLob'[p] = NoLob /\ pc'[p] = step
    BY <1>0, <1>7 DEF End, Forget, Goto, TypeOK, StoreTypeOK
  <2>2. StepInv' /\ LobInv'
    BY <2>1 DEF StepInv, LobInv, OneSaver
  <2>3. NewInv'
    BY <2>1 DEF NewInv, OneSaver, CleanSession
  <2>. QED BY <1>1, <1>2, <1>3, <1>7, <2>2, <2>3 DEF DeferInv
<1>8. ASSUME NEW f \in File, Submit(f) PROVE DeferInv'
  <2>1. DeferredNotCounted'
    BY <1>0, <1>8 DEF Submit, DeferInv, DeferredNotCounted, TypeOK
  <2>2. StepInv' /\ LobInv'
    BY <1>8 DEF Submit, DeferInv, StepInv, LobInv, LobAccepted, procVars, storeVars
  <2>. QED BY <1>1, <1>2, <1>4, <1>5, <1>8, <2>1, <2>2
           DEF Submit, DeferInv, storeVars
<1>9. ASSUME NEW f \in File, FinishWriting(f) PROVE DeferInv'
  <2>1. StepInv' /\ LobInv'
    BY <1>9 DEF FinishWriting, DeferInv, StepInv, LobInv, LobAccepted, procVars,
                storeVars
  <2>. QED BY <1>1, <1>2, <1>3, <1>4, <1>5, <1>9, <2>1
           DEF FinishWriting, DeferInv, storeVars
<1>10. ASSUME NEW p \in Saver, Start(p) PROVE DeferInv'
  <2>1. StepInv' /\ LobInv'
    BY <1>0, <1>10 DEF Start, Goto, DeferInv, StepInv, LobInv, LobAccepted,
                       TypeOK, storeVars, OneSaver
  <2>. QED BY <1>1, <1>2, <1>3, <1>4, <1>5, <1>10, <2>1
           DEF Start, DeferInv, storeVars, spoolVars
<1>11. ASSUME NEW p \in Saver, Load(p) PROVE DeferInv'
  <2>1. LobInv'
    <3>1. addLob[p] = NoLob
      BY <1>11 DEF Load, DeferInv, LobInv
    <3>. QED BY <1>11, <3>1 DEF Load, LobInv, OneSaver, storeVars
  <2>2. StepInv'
    <3>1. PICK f \in todo[p] :
            LET loads == dir[f] = "incoming" /\ f \in complete
            IN  /\ cur' = [cur EXCEPT ![p] = f]
                /\ \/ (~loads \/ ureport[f].verdict = "invalid") /\ Goto(p, "defer")
                   \/ loads /\ ureport[f].verdict = "unknownOs" /\ Goto(p, "opsys")
                   \/ /\ loads /\ ureport[f].verdict \notin {"invalid", "unknownOs"}
                      /\ Goto(p, "stat")
      BY <1>11 DEF Load
    <3>2. f \in File /\ dir[f] = "incoming"
      BY <1>0, <3>1 DEF SpoolInv, Incoming, TypeOK
    <3>3. cur'[p] = f /\ UNCHANGED <<commits, ureport, complete>>
      BY <1>0, <1>11, <3>1 DEF Load, TypeOK, spoolVars
    <3>4. CASE (f \notin complete \/ ureport[f].verdict = "invalid") /\ Goto(p, "defer")
      BY <1>0, <1>6, <3>2, <3>3, <3>4 DEF StepInv, OneSaver, Goto, TypeOK
    <3>5. CASE f \in complete /\ ureport[f].verdict = "unknownOs" /\ Goto(p, "opsys")
      BY <1>0, <3>3, <3>5 DEF StepInv, OneSaver, Goto, TypeOK
    <3>6. CASE /\ f \in complete /\ ureport[f].verdict \notin {"invalid", "unknownOs"}
               /\ Goto(p, "stat")
      BY <1>0, <3>3, <3>6 DEF StepInv, OneSaver, Goto, TypeOK
    <3>. QED BY <3>1, <3>2, <3>4, <3>5, <3>6
  <2>. QED BY <1>1, <1>2, <1>3, <1>4, <1>5, <1>11, <2>1, <2>2
           DEF Load, DeferInv, storeVars, spoolVars
<1>12. ASSUME NEW p \in Saver, RecordOpsys(p) PROVE DeferInv'
  <2>1. pc[p] = "opsys" /\ UNCHANGED <<dir, ureport, complete, commits>>
    BY <1>12 DEF RecordOpsys, spoolVars
  <2>2. CASE Flush(p) /\ Goto(p, "defer") /\ UNCHANGED <<addLob, cur>>
    <3>1. StepInv'
      <4>1. cur[p] \in File /\ ureport[cur[p]].verdict = "unknownOs"
        BY <1>0, <2>1 DEF LocalsOK, Working, DeferInv, StepInv
      <4>2. commits[cur[p]] = 0
        BY <1>6, <4>1
      <4>. QED BY <1>0, <2>1, <2>2, <4>2 DEF StepInv, OneSaver, Goto, TypeOK
    <3>2. LobInv'
      <4>1. addLob[p] = NoLob
        BY <2>1 DEF DeferInv, LobInv
      <4>. QED BY <2>2, <4>1 DEF LobInv, OneSaver
    <3>. QED BY <1>0, <1>1, <1>2, <1>3, <2>1, <2>2, <3>1, <3>2, FlushCommits
             DEF DeferInv
  <2>3. CASE Die(p)
    BY <1>4, <1>7, <2>1, <2>3 DEF Die
  <2>. QED BY <1>12, <2>2, <2>3 DEF RecordOpsys
<1>13. ASSUME NEW p \in Saver, LookUp(p) PROVE DeferInv'
  <2>1. pc[p] = "stat" /\ UNCHANGED <<dir, ureport, complete, commits>>
    BY <1>13 DEF LookUp, spoolVars
  <2>2. /\ cur[p] \in File /\ cur[p] \in complete
        /\ addLob[p] = NoLob
        /\ ureport[cur[p]] \in UReport
    BY <1>0, <2>1 DEF LocalsOK, Working, DeferInv, StepInv, LobInv, TypeOK
  <2>3. CASE Die(p)
    BY <1>4, <1>7, <2>1, <2>3 DEF Die
  <2>4. CASE /\ \/ ureport[cur[p]].verdict = "noRelease"
                \/ Committed(ureport[cur[p]].hash) = {}
             /\ Goto(p, "defer")
             /\ UNCHANGED <<storeVars, cur>>
    <3>1. commits[cur[p]] = 0
      BY <1>6, <2>2, <2>4
    <3>2. StepInv'
      BY <1>0, <2>1, <2>4, <3>1 DEF StepInv, OneSaver, Goto, TypeOK
    <3>3. LobInv'
      BY <2>2, <2>4 DEF LobInv, OneSaver, storeVars
    <3>. QED BY <1>1, <1>2, <1>3, <1>4, <1>5, <2>1, <2>4, <3>2, <3>3
             DEF DeferInv, storeVars
  <2>5. CASE /\ ureport[cur[p]].verdict \notin {"unsafe", "noRelease"}
             /\ \E i \in ReportId : /\ FindReport(p, ureport[cur[p]], i)
                                    /\ report' = [report EXCEPT ![p] = i]
             /\ Goto(p, "release")
             /\ UNCHANGED <<hashOf, addLob, cur>>
    <3>1. PICK i \in ReportId : /\ FindReport(p, ureport[cur[p]], i)
                                /\ report' = [report EXCEPT ![p] = i]
      BY <2>5
    <3>2. /\ ureport[cur[p]].hash \in {hashOf[i], session'[p].new[i]}
          /\ NewInv'
      BY <1>0, <2>2, <2>5, <3>1, FindReportNew DEF DeferInv
    <3>3. ureport[cur[p]].verdict \in {"ok", "noComponent", "noArch"}
      BY <2>1, <2>2, <2>5 DEF DeferInv, StepInv, OopsesFit, UReport, Verdict
    <3>4. report'[p] = i /\ pc'[p] = "release"
      BY <1>0, <2>5, <3>1 DEF Goto, TypeOK
    <3>5. StepInv'
      BY <2>1, <2>2, <2>5, <3>2, <3>3, <3>4 DEF StepInv, OneSaver
    <3>6. LobInv'
      BY <2>2, <2>5 DEF LobInv, OneSaver
    <3>. QED BY <1>1, <1>2, <1>3, <1>4, <2>1, <2>5, <3>2, <3>5, <3>6 DEF DeferInv
  <2>. QED BY <1>13, <2>3, <2>4, <2>5 DEF LookUp
<1>14. ASSUME NEW p \in Saver, SaveRelease(p) PROVE DeferInv'
  <2>1. /\ pc[p] = "release"
        /\ UNCHANGED <<hashOf, dir, ureport, complete, commits, cur, report, addLob>>
    BY <1>14 DEF SaveRelease, spoolVars
  <2>2. /\ cur[p] \in File /\ report[p] \in ReportId /\ addLob[p] = NoLob
        /\ ureport[cur[p]].release \in Release
    BY <1>0, <2>1 DEF LocalsOK, Working, Reporting, DeferInv, LobInv, TypeOK, UReport
  <2>3. session'[p].new = session[p].new
    <3>1. session[p] \in Session
             /\ ReleaseCounter(report[p], ureport[cur[p]].release) \in Counter
      BY <1>0, <2>2, CounterMembers DEF StoreTypeOK
    <3>2. session'[p] = Increment(session[p],
                          ReleaseCounter(report[p], ureport[cur[p]].release), 1)
      BY <1>0, <1>14 DEF SaveRelease, CountRelease, StoreTypeOK
    <3>. QED BY <3>1, <3>2, IncrementNew
  <2>4. NewInv'
    BY <2>1, <2>3 DEF DeferInv, NewInv, OneSaver
  <2>5. LobInv'
    BY <2>1, <2>2 DEF LobInv, OneSaver
  <2>6. StepInv'
    <3>1. CASE ureport[cur[p]].verdict = "noArch" /\ Goto(p, "defer")
      <4>1. commits[cur[p]] = 0
        BY <1>6, <2>2, <3>1
      <4>. QED BY <1>0, <2>1, <3>1, <4>1 DEF StepInv, OneSaver, Goto, TypeOK
    <3>2. CASE ureport[cur[p]].verdict # "noArch" /\ Goto(p, "details")
      <4>1. pc'[p] = "details"
        BY <1>0, <3>2 DEF Goto, TypeOK
      <4>. QED BY <2>1, <2>3, <3>2, <4>1 DEF DeferInv, StepInv, OneSaver
    <3>. QED BY <1>14, <3>1, <3>2 DEF SaveRelease
  <2>. QED BY <1>1, <1>2, <1>3, <1>4, <2>1, <2>4, <2>5, <2>6 DEF DeferInv
<1>15. ASSUME NEW p \in Saver, SaveDetails(p) PROVE DeferInv'
  <2>1. /\ pc[p] = "details" /\ Goto(p, "flush")
        /\ UNCHANGED <<hashOf, oops, dir, ureport, complete, commits, cur, report>>
    BY <1>15 DEF SaveDetails, spoolVars
  <2>2. /\ cur[p] \in File /\ report[p] \in ReportId /\ addLob[p] = NoLob
        /\ ureport[cur[p]] \in UReport
    BY <1>0, <2>1 DEF LocalsOK, Working, Reporting, DeferInv, LobInv, TypeOK
  <2>3. session'[p].new = session[p].new
    <3>. DEFINE s == Increment(session[p],
                       DetailCounter(report[p], ureport[cur[p]].release), 1)
                t == [s EXCEPT !.added[ReportCounter(report[p])] = @ + 1,
                               !.traced = @ \cup {report[p]}]
    <3>1. session[p] \in Session
             /\ DetailCounter(report[p], ureport[cur[p]].release) \in Counter
      BY <1>0, <2>2, CounterMembers DEF StoreTypeOK, UReport
    <3>2. s \in Session /\ s.new = session[p].new
      BY <1>0, <3>1, IncrementNew, IncrementType DEF StoreTypeOK
    <3>3. session' = [session EXCEPT ![p] = t]
      BY <1>15, Zenon DEF SaveDetails, CountDetails
    <3>. HIDE DEF s
    <3>4. t.new = s.new
      BY <3>2 DEF Session
    <3>. HIDE DEF t
    <3>5. session'[p] = t
      BY <1>0, <3>3 DEF StoreTypeOK
    <3>. QED BY <3>2, <3>4, <3>5
  <2>4. NewInv'
    BY <2>1, <2>3 DEF DeferInv, NewInv, OneSaver
  <2>5. pc'[p] = "flush"
    BY <1>0, <2>1 DEF Goto, TypeOK
  <2>6. LobInv'
    <3>. DEFINE u == ureport[cur[p]]
                i == report[p]
    <3>1. CASE addLob' = addLob
      BY <2>2, <3>1 DEF LobInv, OneSaver
    <3>2. CASE /\ u.hash \in KernelHash /\ oops[i] = "none"
               /\ addLob' = [addLob EXCEPT ![p] = [report |-> i,
                                                   fits |-> u.verdict # "bigOops"]]
      <4>1. addLob'[p] = [report |-> i, fits |-> TRUE]
        BY <1>0, <2>2, <3>2 DEF StoreTypeOK, DeferInv, OopsesFit
      <4>. QED BY <2>1, <2>5, <3>2, <4>1 DEF LobInv, LobAccepted, OneSaver
    <3>. QED BY <1>15, <3>1, <3>2 DEF SaveDetails, CountDetails
  <2>7. StepInv'
    BY <2>1, <2>3, <2>5 DEF DeferInv, StepInv, OneSaver
  <2>. QED BY <1>1, <1>2, <1>3, <1>4, <2>1, <2>4, <2>6, <2>7 DEF DeferInv
<1>16. ASSUME NEW p \in Saver, Commit(p) PROVE DeferInv'
  <2>1. pc[p] = "flush" /\ UNCHANGED <<dir, ureport, complete>>
    BY <1>16 DEF Commit, spoolVars
  <2>2. /\ cur[p] \in File /\ cur[p] \in complete /\ report[p] \in ReportId
        /\ ureport[cur[p]].verdict \in {"ok", "noComponent"}
        /\ ureport[cur[p]].hash \in {hashOf[report[p]], session[p].new[report[p]]}
        /\ ureport[cur[p]].hash \in Hash
    BY <1>0, <2>1 DEF LocalsOK, Working, Reporting, DeferInv, StepInv, TypeOK, UReport
  <2>3. CASE Die(p) /\ UNCHANGED commits
    BY <1>4, <1>7, <2>1, <2>3 DEF Die
  <2>4. CASE /\ Flush(p)
             /\ commits' = [commits EXCEPT ![cur[p]] = @ + 1]
             /\ Goto(p, IF ureport[cur[p]].hash \in KernelHash
                           /\ addLob[p] # NoLob
                        THEN "postflush" ELSE "keep")
             /\ UNCHANGED <<oops, addLob, cur>>
    <3>1. /\ NewInv'
          /\ \A h \in Hash : Committed(h) \subseteq Committed(h)'
          /\ \A i \in ReportId : session[p].new[i] # NoHash
                                  => hashOf'[i] = session[p].new[i]
          /\ \A i \in ReportId : session[p].new[i] = NoHash
                                  => hashOf'[i] = hashOf[i]
      BY <1>0, <2>4, FlushCommits DEF DeferInv
    <3>2. hashOf'[report[p]] = ureport[cur[p]].hash
      BY <2>2, <3>1 DEF DeferInv, NewInv
    <3>3. \A g \in File \ {cur[p]} : commits'[g] = commits[g]
      BY <1>0, <2>2, <2>4, CountFile DEF TypeOK
    <3>4. CountedWasGood'
      <4>. SUFFICES ASSUME NEW f \in File, commits'[f] > 0
                    PROVE  /\ f \in complete
                           /\ ureport[f].verdict \in {"ok", "noComponent"}
                           /\ Committed(ureport[f].hash)' # {}
        BY <2>1 DEF CountedWasGood
      <4>1. CASE f = cur[p]
        BY <2>1, <2>2, <3>2, <4>1 DEF Committed
      <4>2. CASE f # cur[p]
        <5>1. commits[f] > 0 /\ ureport[f].hash \in Hash
          BY <1>0, <3>3, <4>2 DEF TypeOK, UReport
        <5>2. /\ f \in complete
              /\ ureport[f].verdict \in {"ok", "noComponent"}
              /\ Committed(ureport[f].hash) # {}
          BY <5>1 DEF DeferInv, CountedWasGood
        <5>3. Committed(ureport[f].hash) \subseteq Committed(ureport[f].hash)'
          BY <2>1, <3>1, <5>1
        <5>. QED BY <5>2, <5>3
      <4>. QED BY <4>1, <4>2
    <3>5. DeferredNotCounted'
      BY <2>1, <2>2, <3>3 DEF DeferInv, DeferredNotCounted, SpoolInv
    <3>6. PICK step \in {"postflush", "keep"} :
            /\ Goto(p, step)
            /\ step = "keep" => \/ ureport[cur[p]].hash \notin KernelHash
                                \/ addLob[p] = NoLob
      BY <2>4
    <3>7. pc'[p] = step
      BY <1>0, <3>6 DEF Goto, TypeOK
    <3>8. StepInv'
      BY <3>7 DEF StepInv, OneSaver
    <3>9. LobInv'
      <4>1. CASE addLob[p] = NoLob
        BY <2>4, <4>1 DEF LobInv, OneSaver
      <4>2. CASE addLob[p] # NoLob
        <5>1. ureport[cur[p]].hash \in KernelHash /\ LobAccepted(p)
          BY <4>2 DEF DeferInv, LobInv
        <5>2. step = "postflush"
          BY <3>6, <4>2, <5>1
        <5>. QED BY <2>1, <2>4, <3>7, <5>1, <5>2 DEF LobInv, LobAccepted, OneSaver
      <4>. QED BY <4>1, <4>2
    <3>. QED BY <1>1, <3>1, <3>4, <3>5, <3>8, <3>9 DEF DeferInv
  <2>. QED BY <1>16, <2>3, <2>4 DEF Commit
<1>17. ASSUME NEW p \in Saver, PostFlush(p) PROVE DeferInv'
  <2>1. /\ pc[p] = "postflush" /\ SaveLob(p)
        /\ UNCHANGED <<hashOf, session, dir, ureport, complete, commits>>
    BY <1>17 DEF PostFlush, spoolVars
  <2>2. LobAccepted(p)
    BY <1>0, <2>1 DEF LocalsOK, DeferInv, LobInv
  <2>3. Goto(p, "keep") /\ addLob'[p] = NoLob
    BY <1>0, <1>17, <2>1, <2>2 DEF PostFlush, SaveLob, StoreTypeOK
  <2>4. StepInv' /\ LobInv'
    BY <1>0, <2>3 DEF StepInv, LobInv, OneSaver, Goto, TypeOK
  <2>. QED BY <1>1, <1>2, <1>3, <1>4, <1>5, <2>1, <2>4 DEF DeferInv
<1>18. ASSUME NEW p \in Saver, MoveToSaved(p) \/ MoveToDeferred(p) PROVE DeferInv'
  <2>1. /\ Goto(p, "pick") /\ UNCHANGED <<storeVars, ureport, complete, commits>>
        /\ pc[p] \in {"keep", "defer"}
        /\ dir' = [dir EXCEPT ![cur[p]] =
                      IF @ # "incoming" THEN @
                      ELSE IF pc[p] = "keep" THEN "saved" ELSE "deferred"]
    BY <1>18 DEF MoveToSaved, MoveToDeferred, MoveTo
  <2>2. DeferredNotCounted'
    <3>1. pc[p] = "defer" => commits[cur[p]] = 0
      BY DEF DeferInv, StepInv
    <3>2. \A f \in File : dir'[f] = "deferred"
                         => dir[f] = "deferred" \/ (f = cur[p] /\ pc[p] = "defer")
      BY <1>0, <2>1 DEF TypeOK
    <3>. QED BY <2>1, <3>1, <3>2 DEF DeferInv, DeferredNotCounted
  <2>3. StepInv'
    BY <1>0, <2>1 DEF StepInv, OneSaver, Goto, TypeOK
  <2>4. LobInv'
    <3>1. addLob[p] = NoLob
      BY <2>1 DEF DeferInv, LobInv
    <3>. QED BY <2>1, <3>1 DEF LobInv, OneSaver, storeVars
  <2>. QED BY <1>1, <1>2, <1>4, <1>5, <2>1, <2>2, <2>3, <2>4 DEF DeferInv, storeVars
<1>19. ASSUME NEW p \in Saver, Crash(p) PROVE DeferInv'
  BY <1>4, <1>7, <1>19 DEF Crash, spoolVars
<1>21. ASSUME NEW p \in Saver, Finish(p) PROVE DeferInv'
  <2>1. StepInv' /\ LobInv'
    BY <1>0, <1>21 DEF Finish, Goto, DeferInv, StepInv, LobInv, LobAccepted,
                       TypeOK, storeVars, OneSaver
  <2>. QED BY <1>1, <1>2, <1>3, <1>4, <1>5, <1>21, <2>1
           DEF Finish, DeferInv, storeVars, spoolVars
<1>22. ASSUME NEW p \in Saver, SaveAttachments(p) PROVE DeferInv'
  <2>1. \A h \in Hash : Committed(h) \subseteq Committed(h)'
    BY <1>0, <1>4, <1>22, FlushCommits DEF SaveAttachments, DeferInv
  <2>. QED BY <1>7, <1>22, <2>1 DEF SaveAttachments, spoolVars
<1>20. CASE UNCHANGED vars
  <2>1. StepInv' /\ LobInv'
    BY <1>20 DEF DeferInv, StepInv, LobInv, LobAccepted, vars, storeVars,
                 spoolVars, procVars
  <2>. QED BY <1>1, <1>2, <1>3, <1>4, <1>5, <1>20, <2>1
           DEF DeferInv, vars, storeVars, spoolVars
<1>. QED
  BY <1>8, <1>9, <1>10, <1>11, <1>12, <1>13, <1>14, <1>15, <1>16, <1>17, <1>18,
     <1>19, <1>20, <1>21, <1>22 DEF Next, SaveFile

LEMMA DeferInit ==
  ASSUME \A u \in Offered : u.verdict # "bigOops"
  PROVE  Init => DeferInv
<1>. SUFFICES ASSUME Init PROVE DeferInv
  OBVIOUS
<1>1. OopsesFit /\ DeferredNotCounted /\ CountedWasGood
  BY DEF Init, OopsesFit, DeferredNotCounted, CountedWasGood
<1>2. StepInv
  BY DEF Init, StepInv
<1>3. NewInv /\ LobInv
  BY DEF Init, StoreInit, NewInv, LobInv, CleanSession
<1>. QED BY <1>1, <1>2, <1>3 DEF DeferInv

\* While runs do not overlap and the checker bounds an oops by what a lob can
\* hold, a deferred file was not counted: nothing is stored and then refused.
THEOREM DeferredNotCountedAlways ==
  ASSUME OneSaver, \A u \in Offered : u.verdict # "bigOops"
  PROVE  Spec => []DeferredNotCounted
<1>1. Init => SpoolInv
  BY SaveAssumption DEF Init, SpoolInv
<1>2. Init => DeferInv
  BY DeferInit
<1>3. DeferInv => DeferredNotCounted
  BY DEF DeferInv
<1>4. TypeInv /\ SpoolInv /\ [Next]_vars => SpoolInv'
  BY SpoolNext
<1>5. TypeInv /\ SpoolInv /\ DeferInv /\ [Next]_vars => DeferInv'
  BY DeferNext
<1>. QED BY <1>1, <1>2, <1>3, <1>4, <1>5, TypeInit, TypeNext, PTL DEF Spec

-----------------------------------------------------------------------------
(* Oopses and sums, while runs do not overlap.                             *)

\* While nobody was killed, an oops is missing only between the flush of its
\* report and post_flush.  So a report without a backtrace has no oops file, a
\* backtrace is pending only just before the flush, and the plugin then remembers
\* the oops of this report.
OopsInv ==
  crashes = 0 =>
    /\ OopsStored
    /\ \A i \in ReportId : i \notin traced => oops[i] = "none"
    /\ \A i \in traced : hashOf[i] # NoHash
    /\ \A p \in Saver :
         /\ session[p].traced = IF pc[p] = "flush" THEN {report[p]} ELSE {}
         /\ pc[p] = "flush" /\ ureport[cur[p]].hash \in KernelHash
               /\ report[p] \notin traced
             => addLob[p].report = report[p]
         /\ addLob[p] # NoLob
             => \/ pc[p] = "flush" /\ addLob[p].report = report[p]
                \/ pc[p] = "postflush" /\ addLob[p].report \in traced

\* The report of a uReport in work has its hash, committed or pending.
HashKept ==
  \A p \in Saver :
    pc[p] \in {"release", "details", "flush"}
      => /\ ureport[cur[p]].hash \in {hashOf[report[p]], session[p].new[report[p]]}
         /\ report[p] \in session[p].loaded \/ session[p].new[report[p]] # NoHash

\* A session holds the count of a report as it is committed, and adds one to the
\* report that is about to be flushed.
CountsHeld ==
  /\ \A p \in Saver, i \in ReportId :
       /\ session[p].base[ReportCounter(i)] =
            IF i \in session[p].loaded THEN tally[ReportCounter(i)] ELSE 0
       /\ session[p].added[ReportCounter(i)] =
            IF pc[p] = "flush" /\ i = report[p] THEN 1 ELSE 0
  /\ \A i \in ReportId : hashOf[i] = NoHash => tally[ReportCounter(i)] = 0

FilesOf(h) == {f \in File : ureport[f].hash = h}

Counts == [i \in ReportId |-> tally[ReportCounter(i)]]

ExactInv ==
  /\ NewInv
  /\ HashKept
  /\ CountsHeld
  /\ \A h \in Hash : Total(Counts, Committed(h)) = Total(commits, FilesOf(h))

\* What the steps of a save change in a session.
LEMMA IncrementKeeps ==
  ASSUME NEW s \in Session, NEW c \in RowCounters, NEW n \in Nat,
         tally \in [Counter -> Nat]
  PROVE  LET t == Increment(s, c, n)
         IN  /\ t \in Session
             /\ t.new = s.new /\ t.loaded = s.loaded /\ t.traced = s.traced
             /\ \A i \in ReportId : /\ t.base[ReportCounter(i)] = s.base[ReportCounter(i)]
                                    /\ t.added[ReportCounter(i)] = s.added[ReportCounter(i)]
<1>. DEFINE b == [s.base EXCEPT ![c] = IF s.added[c] = 0 THEN tally[c] ELSE @]
            a == [s.added EXCEPT ![c] = @ + n]
            k == s.clash \/ (s.added[c] > 0 /\ s.base[c] = 0)
            t == [s EXCEPT !.base = b, !.added = a, !.clash = k]
<1>1. Increment(s, c, n) = t
  BY DEF Session, Increment
<1>2. c \in Counter
  BY DEF Counter
<1>3. t \in Session
  BY <1>1, <1>2, IncrementType
<1>4. \A i \in ReportId : ReportCounter(i) # c /\ ReportCounter(i) \in Counter
  BY DEF RowCounters, ReportCounter, ReleaseCounter, DetailCounter, Counter, ReportCounters
<1>5. \A i \in ReportId : /\ b[ReportCounter(i)] = s.base[ReportCounter(i)]
                          /\ a[ReportCounter(i)] = s.added[ReportCounter(i)]
  BY <1>4 DEF Session
<1>. HIDE DEF b, a, k
<1>6. t.new = s.new /\ t.loaded = s.loaded /\ t.traced = s.traced /\ t.base = b /\ t.added = a
  BY DEF Session
<1>. HIDE DEF t
<1>. QED BY <1>1, <1>3, <1>5, <1>6

LEMMA CountDetailsSession ==
  ASSUME StoreTypeOK, NEW p \in Saver, NEW u \in UReport, NEW i \in ReportId,
         CountDetails(p, u, i, 1)
  PROVE  LET s == session[p]
             t == session'[p]
         IN  /\ t.new = s.new /\ t.loaded = s.loaded
             /\ t.traced = s.traced \cup {i}
             /\ \A j \in ReportId :
                  /\ t.base[ReportCounter(j)] = s.base[ReportCounter(j)]
                  /\ t.added[ReportCounter(j)] =
                       s.added[ReportCounter(j)] + (IF j = i THEN 1 ELSE 0)
<1>. DEFINE s == Increment(session[p], DetailCounter(i, u.release), 1)
            a == [s.added EXCEPT ![ReportCounter(i)] = @ + 1]
            t == [s EXCEPT !.added = a, !.traced = @ \cup {i}]
<1>1. session[p] \in Session /\ tally \in [Counter -> Nat]
  BY DEF StoreTypeOK
<1>2. DetailCounter(i, u.release) \in RowCounters
  BY DEF UReport, RowCounters
<1>3. /\ s \in Session
      /\ s.new = session[p].new /\ s.loaded = session[p].loaded
      /\ s.traced = session[p].traced
      /\ \A j \in ReportId : /\ s.base[ReportCounter(j)] = session[p].base[ReportCounter(j)]
                             /\ s.added[ReportCounter(j)] = session[p].added[ReportCounter(j)]
  BY <1>1, <1>2, IncrementKeeps
<1>. HIDE DEF s
<1>4. \A j \in ReportId : /\ ReportCounter(j) \in Counter
                          /\ ReportCounter(j) = ReportCounter(i) => j = i
  BY DEF ReportCounter, Counter, ReportCounters
<1>5. \A j \in ReportId : a[ReportCounter(j)] = s.added[ReportCounter(j)] + (IF j = i THEN 1 ELSE 0)
  BY <1>3, <1>4 DEF Session
<1>6. session'[p] = t
  <2>1. session' = [session EXCEPT ![p] =
            [s EXCEPT !.added[ReportCounter(i)] = @ + 1, !.traced = @ \cup {i}]]
    BY Zenon DEF CountDetails, s
  <2>2. [s EXCEPT !.added[ReportCounter(i)] = @ + 1, !.traced = @ \cup {i}] = t
    BY <1>3 DEF Session
  <2>. HIDE DEF t
  <2>. QED BY <2>1, <2>2 DEF StoreTypeOK
<1>. HIDE DEF a
<1>7. t.new = s.new /\ t.loaded = s.loaded /\ t.traced = s.traced \cup {i}
      /\ t.base = s.base /\ t.added = a
  BY <1>3 DEF Session
<1>. HIDE DEF t
<1>. QED BY <1>3, <1>5, <1>6, <1>7

\* The report a uReport is given is one the session has loaded or adds.
LEMMA FindReportSession ==
  ASSUME StoreTypeOK, NEW p \in Saver, NEW u \in UReport, NEW i \in ReportId,
         FindReport(p, u, i)
  PROVE  LET s == session[p]
             t == session'[p]
         IN  /\ t.traced = s.traced /\ t.added = s.added
             /\ \/ t = s /\ i \in s.loaded /\ hashOf[i] = u.hash
                \/ /\ t.new = s.new /\ hashOf[i] = u.hash
                   /\ t.loaded = s.loaded \cup {i}
                   /\ t.base = [s.base EXCEPT ![ReportCounter(i)] = tally[ReportCounter(i)]]
                \/ /\ i \in FreeIds
                   /\ t.new = [s.new EXCEPT ![i] = u.hash]
                   /\ t.loaded = s.loaded /\ t.base = s.base
<1>1. session[p] \in Session
  BY DEF StoreTypeOK
<1>2. CASE i \in Committed(u.hash) /\ i \in session[p].loaded /\ session' = session
  BY <1>2 DEF Committed
<1>3. CASE /\ i \in Committed(u.hash)
           /\ session' = [session EXCEPT
                  ![p].loaded = @ \cup {i},
                  ![p].base[ReportCounter(i)] = tally[ReportCounter(i)]]
  <2>. DEFINE b == [session[p].base EXCEPT ![ReportCounter(i)] = tally[ReportCounter(i)]]
              t == [session[p] EXCEPT !.loaded = @ \cup {i}, !.base = b]
  <2>1. session'[p] = t
    BY <1>1, <1>3 DEF StoreTypeOK, Session
  <2>2. t.new = session[p].new /\ t.loaded = session[p].loaded \cup {i} /\ t.base = b
        /\ t.traced = session[p].traced /\ t.added = session[p].added
    <3>. HIDE DEF b
    <3>. QED BY <1>1 DEF Session
  <2>. HIDE DEF t
  <2>. QED BY <1>3, <2>1, <2>2 DEF Committed
<1>4. CASE i \in FreeIds /\ session' = [session EXCEPT ![p].new[i] = u.hash]
  <2>. DEFINE n == [session[p].new EXCEPT ![i] = u.hash]
              t == [session[p] EXCEPT !.new = n]
  <2>1. session'[p] = t
    BY <1>1, <1>4 DEF StoreTypeOK, Session
  <2>2. t.new = n /\ t.loaded = session[p].loaded /\ t.base = session[p].base
        /\ t.traced = session[p].traced /\ t.added = session[p].added
    <3>. HIDE DEF n
    <3>. QED BY <1>1 DEF Session
  <2>. HIDE DEF t
  <2>. QED BY <1>4, <2>1, <2>2
<1>. QED BY <1>2, <1>3, <1>4 DEF FindReport

LEMMA OopsNext ==
  ASSUME OneSaver, TypeInv, DeferInv, OopsInv, [Next]_vars
  PROVE  OopsInv'
<1>. USE StoreAssumption, SaveAssumption
<1>0. TypeOK /\ LocalsOK /\ StoreTypeOK
  BY DEF TypeInv, TypeOK
<1>1. crashes' = 0 => crashes = 0 /\ ~(\E p \in Saver : Crash(p))
  BY <1>0 DEF Next, SaveFile, Submit, FinishWriting, Start, Load,
     RecordOpsys, LookUp, SaveRelease, SaveDetails, Commit, PostFlush,
     MoveToSaved, MoveToDeferred, MoveTo, Finish, SaveAttachments, Crash, vars, TypeOK
<1>. SUFFICES ASSUME crashes = 0, crashes' = 0 PROVE OopsInv'
  BY <1>1 DEF OopsInv
<1>2. /\ OopsStored
      /\ \A i \in ReportId : i \notin traced => oops[i] = "none"
      /\ \A i \in traced : hashOf[i] # NoHash
      /\ \A p \in Saver :
           /\ session[p].traced = IF pc[p] = "flush" THEN {report[p]} ELSE {}
           /\ pc[p] = "flush" /\ ureport[cur[p]].hash \in KernelHash
                 /\ report[p] \notin traced
               => addLob[p].report = report[p]
           /\ addLob[p] # NoLob
               => \/ pc[p] = "flush" /\ addLob[p].report = report[p]
                  \/ pc[p] = "postflush" /\ addLob[p].report \in traced
  BY DEF OopsInv
\* While a process is neither before the flush nor after it, nothing is pending.
<1>3. ASSUME NEW p \in Saver, pc'[p] \notin {"flush", "postflush"},
             pc[p] # "postflush", traced' = traced, oops' = oops,
             \A i \in traced : hashOf'[i] = hashOf[i],
             session'[p].traced = {}, addLob'[p] = NoLob
      PROVE  OopsInv'
  <2>1. OopsStored'
    BY <1>2, <1>3 DEF OopsStored, OneSaver
  <2>. QED BY <1>2, <1>3, <2>1 DEF OopsInv, OneSaver
<1>4. ASSUME NEW p \in Saver, NEW step \in {"idle", "dead"}, End(p, step),
             pc[p] # "postflush", UNCHANGED <<hashOf, traced, oops>>
      PROVE  OopsInv'
  <2>1. session'[p] = CleanSession /\ addLob'[p] = NoLob /\ pc'[p] = step
    BY <1>0, <1>4 DEF End, Forget, Goto, TypeOK, StoreTypeOK
  <2>2. session'[p].traced = {}
    BY <2>1 DEF CleanSession
  <2>. QED BY <1>3, <1>4, <2>1, <2>2
<1>5. ASSUME NEW p \in Saver, NEW step \in Step \ {"flush", "postflush"}, Goto(p, step),
             pc[p] \notin {"flush", "postflush"},
             traced' = traced, oops' = oops, addLob' = addLob,
             \A i \in traced : hashOf'[i] = hashOf[i],
             session'[p].traced \subseteq session[p].traced
      PROVE  OopsInv'
  <2>1. pc'[p] = step
    BY <1>0, <1>5 DEF Goto, TypeOK
  <2>2. session'[p].traced = {} /\ addLob[p] = NoLob
    BY <1>2, <1>5
  <2>. QED BY <1>3, <1>5, <2>1, <2>2
<1>6. ASSUME NEW f \in File, Submit(f) \/ FinishWriting(f) PROVE OopsInv'
  <2>1. UNCHANGED <<storeVars, ureport, procVars>>
    BY <1>6 DEF Submit, FinishWriting
  <2>2. OopsStored'
    BY <1>2, <2>1 DEF OopsStored, storeVars, procVars
  <2>. QED BY <1>2, <2>1, <2>2 DEF OopsInv, storeVars, procVars
<1>7. ASSUME NEW p \in Saver, Start(p) \/ Load(p) PROVE OopsInv'
  <2>1. PICK step \in Step \ {"flush", "postflush"} : Goto(p, step)
    BY <1>7 DEF Start, Load, Step
  <2>2. pc[p] \notin {"flush", "postflush"} /\ UNCHANGED storeVars
    BY <1>7 DEF Start, Load
  <2>. QED BY <1>5, <2>1, <2>2 DEF storeVars
<1>8. ASSUME NEW p \in Saver, Flush(p), pc[p] # "flush"
      PROVE  /\ traced' = traced /\ session'[p].traced = {}
             /\ \A i \in traced : hashOf'[i] = hashOf[i]
  <2>1. traced' = traced \cup session[p].traced /\ session' = [session EXCEPT ![p] = CleanSession]
    BY <1>8, Zenon DEF Flush
  <2>2. session[p].traced = {}
    BY <1>2, <1>8
  <2>3. session'[p].traced = {}
    BY <1>0, <2>1 DEF StoreTypeOK, CleanSession
  <2>4. \A i \in traced : i \in ReportId /\ session[p].new[i] = NoHash
    <3>1. \A i \in traced : i \in ReportId /\ hashOf[i] # NoHash
      BY <1>0, <1>2 DEF StoreTypeOK, OopsInv
    <3>2. \A i \in ReportId : session[p].new[i] # NoHash => hashOf[i] = NoHash
      BY <1>0 DEF DeferInv, NewInv
    <3>. QED BY <3>1, <3>2
  <2>5. \A i \in traced : hashOf'[i] = hashOf[i]
    BY <1>0, <1>8, <2>4, FlushCommits DEF DeferInv
  <2>. QED BY <2>1, <2>2, <2>3, <2>5
<1>9. ASSUME NEW p \in Saver, RecordOpsys(p) PROVE OopsInv'
  <2>1. pc[p] = "opsys"
    BY <1>9 DEF RecordOpsys
  <2>2. CASE Flush(p) /\ Goto(p, "defer") /\ UNCHANGED <<oops, addLob>>
    BY <1>5, <1>8, <2>1, <2>2 DEF Step
  <2>3. CASE Die(p)
    BY <1>4, <2>1, <2>3 DEF Die
  <2>. QED BY <1>9, <2>2, <2>3 DEF RecordOpsys
<1>10. ASSUME NEW p \in Saver, LookUp(p) PROVE OopsInv'
  <2>1. pc[p] = "stat" /\ cur[p] \in File
    BY <1>0, <1>10 DEF LookUp, LocalsOK, Working
  <2>2. CASE Die(p)
    BY <1>4, <2>1, <2>2 DEF Die
  <2>3. CASE Goto(p, "defer") /\ UNCHANGED storeVars
    BY <1>5, <2>1, <2>3 DEF storeVars, Step
  <2>4. CASE /\ \E i \in ReportId : FindReport(p, ureport[cur[p]], i)
             /\ Goto(p, "release")
             /\ UNCHANGED <<hashOf, traced, oops, addLob>>
    <3>1. ureport[cur[p]] \in UReport
      BY <1>0, <2>1 DEF TypeOK
    <3>2. session'[p].traced = session[p].traced
      BY <1>0, <2>4, <3>1, FindReportSession
    <3>. QED BY <1>5, <2>1, <2>4, <3>2 DEF Step
  <2>. QED BY <1>10, <2>2, <2>3, <2>4 DEF LookUp
<1>11. ASSUME NEW p \in Saver, SaveRelease(p) PROVE OopsInv'
  <2>1. /\ pc[p] = "release" /\ UNCHANGED <<hashOf, traced, oops, addLob>>
        /\ cur[p] \in File /\ report[p] \in ReportId
    BY <1>0, <1>11 DEF SaveRelease, LocalsOK, Working, Reporting
  <2>2. PICK step \in {"defer", "details"} : Goto(p, step)
    BY <1>11 DEF SaveRelease
  <2>3. session'[p].traced = session[p].traced
    <3>1. ReleaseCounter(report[p], ureport[cur[p]].release) \in RowCounters
      BY <1>0, <2>1 DEF TypeOK, UReport, RowCounters
    <3>2. session'[p] = Increment(session[p],
                          ReleaseCounter(report[p], ureport[cur[p]].release), 1)
      BY <1>0, <1>11 DEF SaveRelease, CountRelease, StoreTypeOK
    <3>. QED BY <1>0, <3>1, <3>2, IncrementKeeps DEF StoreTypeOK
  <2>. QED BY <1>5, <2>1, <2>2, <2>3 DEF Step
<1>12. ASSUME NEW p \in Saver, SaveDetails(p) PROVE OopsInv'
  <2>. DEFINE u == ureport[cur[p]]
              i == report[p]
  <2>1. /\ pc[p] = "details" /\ Goto(p, "flush")
        /\ UNCHANGED <<hashOf, traced, oops, ureport, cur, report>>
        /\ u \in UReport /\ i \in ReportId
    BY <1>0, <1>12 DEF SaveDetails, LocalsOK, Working, Reporting, spoolVars, TypeOK
  <2>2. pc'[p] = "flush"
    BY <1>0, <2>1 DEF Goto, TypeOK
  <2>3. session[p].traced = {} /\ addLob[p] = NoLob
    BY <1>2, <2>1
  <2>4. session'[p].traced = {i}
    <3>1. CountDetails(p, u, i, 1)
      BY <1>12 DEF SaveDetails
    <3>2. session'[p].traced = session[p].traced \cup {i}
      <4>1. u \in UReport /\ i \in ReportId
        BY <2>1
      <4>. HIDE DEF u, i
      <4>. QED BY <1>0, <3>1, <4>1, CountDetailsSession
    <3>. QED BY <2>3, <3>2
  <2>5. OopsStored'
    BY <1>2, <2>1 DEF OopsStored, OneSaver
  <2>6. /\ u.hash \in KernelHash /\ i \notin traced => addLob'[p].report = i
        /\ addLob'[p] # NoLob => addLob'[p].report = i
    <3>1. CASE u.hash \in KernelHash /\ i \notin traced
      <4>1. addLob' = [addLob EXCEPT ![p] = [report |-> i, fits |-> u.verdict # "bigOops"]]
        BY <1>2, <1>12, <2>1, <2>3, <3>1 DEF SaveDetails, CountDetails
      <4>. QED BY <1>0, <4>1 DEF StoreTypeOK
    <3>2. CASE ~(u.hash \in KernelHash /\ i \notin traced)
      <4>1. addLob' = addLob
        BY <1>12, <2>1, <2>3, <3>2 DEF SaveDetails, CountDetails
      <4>. QED BY <2>3, <3>2, <4>1
    <3>. QED BY <3>1, <3>2
  <2>. QED BY <1>2, <2>1, <2>2, <2>4, <2>5, <2>6 DEF OopsInv, OneSaver
<1>13. ASSUME NEW p \in Saver, Commit(p) PROVE OopsInv'
  <2>. DEFINE u == ureport[cur[p]]
              i == report[p]
  <2>1. /\ pc[p] = "flush" /\ UNCHANGED <<oops, ureport>>
        /\ u \in UReport /\ i \in ReportId
    BY <1>0, <1>13 DEF Commit, Die, LocalsOK, Working, Reporting, spoolVars, TypeOK
  <2>2. CASE Die(p)
    BY <1>4, <2>1, <2>2 DEF Die
  <2>3. CASE /\ Flush(p)
             /\ Goto(p, IF u.hash \in KernelHash /\ addLob[p] # NoLob
                        THEN "postflush" ELSE "keep")
             /\ UNCHANGED <<addLob, cur, report>>
    <3>1. /\ traced' = traced \cup session[p].traced
          /\ session' = [session EXCEPT ![p] = CleanSession]
      BY <2>3, Zenon DEF Flush
    <3>2. session'[p].traced = {}
      BY <1>0, <3>1 DEF StoreTypeOK, CleanSession
    <3>3. /\ \A j \in ReportId : session[p].new[j] # NoHash => hashOf'[j] = session[p].new[j]
          /\ \A j \in ReportId : session[p].new[j] = NoHash => hashOf'[j] = hashOf[j]
      BY <1>0, <2>3, FlushCommits DEF DeferInv
    <3>4. \A j \in traced : hashOf'[j] = hashOf[j]
      <4>1. \A j \in traced : j \in ReportId /\ hashOf[j] # NoHash
        BY <1>0, <1>2 DEF StoreTypeOK, OopsInv
      <4>2. \A j \in ReportId : session[p].new[j] # NoHash => hashOf[j] = NoHash
        BY <1>0 DEF DeferInv, NewInv
      <4>. QED BY <3>3, <4>1, <4>2
    <3>5. hashOf'[i] = u.hash /\ u.hash # NoHash
      <4>1. u.hash \in {hashOf[i], session[p].new[i]} /\ u.hash # NoHash
        BY <2>1 DEF DeferInv, StepInv, UReport
      <4>2. session[p].new[i] # NoHash => hashOf[i] = NoHash
        BY <2>1 DEF DeferInv, NewInv
      <4>. QED BY <2>1, <3>3, <4>1, <4>2
    <3>6. \A j \in traced' : j \in traced \/ j = i
      BY <1>2, <3>1
    <3>7. PICK step \in {"postflush", "keep"} :
             /\ Goto(p, step)
             /\ step = "postflush" <=> u.hash \in KernelHash /\ addLob[p] # NoLob
      <4>1. CASE u.hash \in KernelHash /\ addLob[p] # NoLob
        BY <2>3, <4>1
      <4>2. CASE ~(u.hash \in KernelHash /\ addLob[p] # NoLob)
        BY <2>3, <4>2
      <4>. QED BY <4>1, <4>2
    <3>8. pc'[p] = step
      BY <1>0, <3>7 DEF Goto, TypeOK
    <3>9. addLob[p] # NoLob => addLob[p].report = i /\ step = "postflush"
      BY <1>2, <2>1, <3>7 DEF DeferInv, LobInv
    <3>10. u.hash \in KernelHash /\ i \notin traced
             => step = "postflush" /\ addLob[p].report = i
      <4>. SUFFICES ASSUME u.hash \in KernelHash, i \notin traced
                    PROVE  step = "postflush" /\ addLob[p].report = i
        OBVIOUS
      <4>1. addLob[p].report = i
        BY <1>2, <2>1
      <4>2. addLob[p] # NoLob
        BY <2>1, <4>1 DEF NoLob
      <4>. QED BY <3>7, <4>1, <4>2
    <3>11. OopsStored'
      <4>. SUFFICES ASSUME NEW j \in traced', hashOf'[j] \in KernelHash
                    PROVE  \/ oops[j] = "stored"
                           \/ pc'[p] = "postflush" /\ addLob[p].report = j
        BY <2>1, <2>3 DEF OopsStored
      <4>1. CASE j \in traced
        BY <1>2, <2>1, <3>4, <4>1 DEF OopsStored, OneSaver
      <4>2. CASE j \notin traced
        BY <3>5, <3>6, <3>8, <3>10, <4>2
      <4>. QED BY <4>1, <4>2
    <3>12. addLob[p] # NoLob => i \in traced'
      BY <1>2, <2>1, <3>1
    <3>13. \A j \in traced' : hashOf'[j] # NoHash
      BY <1>2, <3>4, <3>5, <3>6
    <3>. QED BY <1>2, <2>1, <2>3, <3>1, <3>2, <3>8, <3>9, <3>11, <3>12, <3>13 DEF OopsInv, OneSaver
  <2>. QED BY <1>13, <2>2, <2>3 DEF Commit
<1>14. ASSUME NEW p \in Saver, PostFlush(p) PROVE OopsInv'
  <2>1. /\ pc[p] = "postflush" /\ SaveLob(p) /\ addLob[p] # NoLob
        /\ UNCHANGED <<hashOf, traced, session>>
    BY <1>0, <1>14 DEF PostFlush, LocalsOK
  <2>. DEFINE i == addLob[p].report
  <2>2. LobAccepted(p) /\ i \in traced
    BY <1>2, <2>1 DEF DeferInv, LobInv
  <2>3. /\ oops' = [oops EXCEPT ![i] = "stored"] /\ addLob'[p] = NoLob /\ Goto(p, "keep")
    BY <1>0, <1>14, <2>1, <2>2 DEF SaveLob, LobAccepted, PostFlush, StoreTypeOK
  <2>4. pc'[p] = "keep"
    BY <1>0, <2>3 DEF Goto, TypeOK
  <2>5. i \in ReportId /\ oops'[i] = "stored" /\ \A j \in ReportId \ {i} : oops'[j] = oops[j]
    BY <1>0, <2>2, <2>3 DEF StoreTypeOK
  <2>6. OopsStored'
    <3>1. \A j \in traced : hashOf[j] \in KernelHash => oops[j] = "stored" \/ j = i
      BY <1>2, <2>1 DEF OopsStored, OneSaver
    <3>2. \A j \in traced : j \in ReportId
      BY <1>0 DEF StoreTypeOK
    <3>. HIDE DEF i
    <3>3. \A j \in traced : hashOf[j] \in KernelHash => oops'[j] = "stored"
      BY <2>5, <3>1, <3>2
    <3>. QED BY <2>1, <3>3 DEF OopsStored
  <2>7. \A j \in ReportId : j \notin traced => oops'[j] = "none"
    BY <1>2, <2>2, <2>5
  <2>8. session[p].traced = {}
    BY <1>2, <2>1
  <2>. QED BY <1>2, <2>1, <2>3, <2>4, <2>6, <2>7, <2>8 DEF OopsInv, OneSaver
<1>15. ASSUME NEW p \in Saver, MoveToSaved(p) \/ MoveToDeferred(p) PROVE OopsInv'
  <2>1. /\ pc[p] \in {"keep", "defer"} /\ Goto(p, "pick") /\ UNCHANGED storeVars
    BY <1>15 DEF MoveToSaved, MoveToDeferred, MoveTo
  <2>. QED BY <1>5, <2>1 DEF storeVars, Step
<1>16. ASSUME NEW p \in Saver, Finish(p) PROVE OopsInv'
  BY <1>5, <1>16 DEF Finish, storeVars, Step
<1>18. ASSUME NEW p \in Saver, SaveAttachments(p) PROVE OopsInv'
  <2>1. pc[p] = "attach" /\ End(p, "idle") /\ oops' = oops
    BY <1>18 DEF SaveAttachments
  <2>2. pc'[p] = "idle" /\ addLob'[p] = NoLob
    BY <1>0, <2>1 DEF End, Forget, Goto, TypeOK, StoreTypeOK
  <2>3. CASE Flush(p)
    BY <1>3, <1>8, <2>1, <2>2, <2>3
  <2>4. CASE UNCHANGED <<hashOf, traced>>
    BY <1>4, <2>1, <2>4
  <2>. QED BY <1>18, <2>3, <2>4 DEF SaveAttachments
<1>17. CASE UNCHANGED vars
  <2>1. OopsStored'
    BY <1>2, <1>17 DEF OopsStored, vars, storeVars, spoolVars, procVars
  <2>. QED BY <1>2, <1>17, <2>1 DEF OopsInv, vars, storeVars, spoolVars, procVars
<1>. QED
  BY <1>1, <1>6, <1>7, <1>9, <1>10, <1>11, <1>12, <1>13, <1>14, <1>15, <1>16,
     <1>17, <1>18 DEF Next, SaveFile

\* While runs do not overlap, nobody is killed and the checker bounds an oops by
\* what a lob can hold, every kernel report that has a backtrace has its oops, or
\* is about to get it.
THEOREM OopsStoredAlways ==
  ASSUME OneSaver, \A u \in Offered : u.verdict # "bigOops"
  PROVE  Spec => []OopsStored
<1>1. Init => SpoolInv
  BY SaveAssumption DEF Init, SpoolInv
<1>2. Init => DeferInv
  BY DeferInit
<1>3. Init => OopsInv
  BY DEF Init, StoreInit, OopsInv, OopsStored, CleanSession, NoLob
<1>4. OopsInv /\ TypeInv => OopsStored
  BY DEF OopsInv, OopsStored
<1>5. TypeInv /\ SpoolInv /\ [Next]_vars => SpoolInv'
  BY SpoolNext
<1>6. TypeInv /\ SpoolInv /\ DeferInv /\ [Next]_vars => DeferInv'
  BY DeferNext
<1>7. TypeInv /\ DeferInv /\ OopsInv /\ [Next]_vars => OopsInv'
  BY OopsNext
<1>. QED BY <1>1, <1>2, <1>3, <1>4, <1>5, <1>6, <1>7, TypeInit, TypeNext, PTL DEF Spec

\* A flush writes one more for the report that was added to, and leaves the other
\* counts as they are; the reports it adds had none.
LEMMA FlushCounts ==
  ASSUME TypeInv, NewInv, CountsHeld, HashKept, NEW p \in Saver, Flush(p),
         NEW d \in Nat, pc[p] = "flush" => d = 1, pc[p] # "flush" => d = 0,
         IsFiniteSet(ReportId)
  PROVE  /\ \A i \in ReportId :
              /\ tally'[ReportCounter(i)]
                   = tally[ReportCounter(i)] + (IF i = report[p] THEN d ELSE 0)
              /\ hashOf'[i] = NoHash => hashOf[i] = NoHash
                                        /\ (pc[p] = "flush" => i # report[p])
         /\ \A h \in Hash : Total(Counts', Committed(h)')
                              = Total(Counts, Committed(h))
                                + (IF report[p] \in Committed(h)' THEN d ELSE 0)
<1>. USE StoreAssumption
<1>. DEFINE s == session[p]
<1>0. StoreTypeOK /\ TypeOK /\ LocalsOK
  BY DEF TypeInv, TypeOK
<1>1. /\ \A i \in ReportId : hashOf'[i] = IF s.new[i] # NoHash THEN s.new[i] ELSE hashOf[i]
      /\ tally' = [c \in Counter |-> IF s.added[c] > 0
                                     THEN s.base[c] + s.added[c] ELSE tally[c]]
  BY DEF Flush
<1>2. \A i \in ReportId : ReportCounter(i) \in Counter /\ tally[ReportCounter(i)] \in Nat
  BY <1>0 DEF StoreTypeOK, Counter, ReportCounters
<1>. HIDE DEF s
<1>3. /\ \A i \in ReportId : /\ s.base[ReportCounter(i)] =
                                  IF i \in s.loaded THEN tally[ReportCounter(i)] ELSE 0
                             /\ s.added[ReportCounter(i)] =
                                  IF pc[p] = "flush" /\ i = report[p] THEN 1 ELSE 0
                             /\ hashOf[i] = NoHash => tally[ReportCounter(i)] = 0
                             /\ s.new[i] # NoHash => hashOf[i] = NoHash
      /\ pc[p] = "flush" => report[p] \in s.loaded \/ s.new[report[p]] # NoHash
  BY DEF CountsHeld, NewInv, HashKept, s
<1>4. ASSUME NEW i \in ReportId
      PROVE  tally'[ReportCounter(i)]
               = tally[ReportCounter(i)] + (IF i = report[p] THEN d ELSE 0)
  <2>1. tally'[ReportCounter(i)] = IF s.added[ReportCounter(i)] > 0
                                   THEN s.base[ReportCounter(i)] + s.added[ReportCounter(i)]
                                   ELSE tally[ReportCounter(i)]
    BY <1>1, <1>2
  <2>2. CASE pc[p] = "flush" /\ i = report[p]
    <3>1. s.added[ReportCounter(i)] = 1 /\ d = 1
      BY <1>3, <2>2
    <3>2. s.base[ReportCounter(i)] = tally[ReportCounter(i)]
      BY <1>3, <2>2
    <3>. QED BY <1>2, <2>1, <2>2, <3>1, <3>2
  <2>3. CASE ~(pc[p] = "flush" /\ i = report[p])
    <3>1. s.added[ReportCounter(i)] = 0 /\ (IF i = report[p] THEN d ELSE 0) = 0
      BY <1>3, <2>3
    <3>2. ~(s.added[ReportCounter(i)] > 0)
      BY <3>1
    <3>3. tally'[ReportCounter(i)] = tally[ReportCounter(i)]
      BY <2>1, <3>2
    <3>4. tally[ReportCounter(i)] = tally[ReportCounter(i)] + 0
      BY <1>2
    <3>. QED BY ONLY <3>1, <3>3, <3>4
  <2>. QED BY <2>2, <2>3
<1>5. ASSUME NEW i \in ReportId, hashOf'[i] = NoHash
      PROVE  hashOf[i] = NoHash /\ (pc[p] = "flush" => i # report[p])
  <2>1. s.new[i] = NoHash /\ hashOf[i] = NoHash
    BY <1>1, <1>5
  <2>2. ASSUME pc[p] = "flush", i = report[p] PROVE FALSE
    <3>1. ureport[cur[p]].hash \in {hashOf[i], s.new[i]}
      BY <2>2 DEF HashKept, s
    <3>2. ureport[cur[p]].hash \in Hash
      BY <1>0, <2>2 DEF LocalsOK, Working, TypeOK, UReport
    <3>. QED BY <2>1, <3>1, <3>2
  <2>. QED BY <2>1, <2>2
<1>6. ASSUME NEW h \in Hash
      PROVE  Total(Counts', Committed(h)')
               = Total(Counts, Committed(h)) + (IF report[p] \in Committed(h)' THEN d ELSE 0)
  <2>1. PICK U, S, f, e, x : /\ U = Committed(h)' /\ S = Committed(h)
                             /\ f = Counts /\ e = Counts' /\ x = report[p]
    OBVIOUS
  <2>2. U \subseteq ReportId /\ S \subseteq U
    <3>1. \A i \in ReportId : hashOf[i] = h => hashOf'[i] = h
      BY <1>1, <1>3
    <3>. QED BY <2>1, <3>1 DEF Committed
  <2>3. IsFiniteSet(U)
    BY <2>2, FS_Subset
  <2>4. \A i \in ReportId : f[i] = tally[ReportCounter(i)] /\ e[i] = tally'[ReportCounter(i)]
    BY <2>1 DEF Counts, ReportCounter
  <2>5. \A i \in ReportId : e[i] = f[i] + (IF i = x THEN d ELSE 0) /\ f[i] \in Nat
    BY <1>2, <1>4, <2>1, <2>4
  <2>6. ASSUME NEW i \in U, i \notin S PROVE f[i] = 0
    <3>1. i \in ReportId /\ hashOf'[i] = h /\ hashOf[i] # h
      BY <2>1, <2>6 DEF Committed
    <3>2. hashOf[i] = NoHash
      BY <1>1, <1>3, <3>1
    <3>. QED BY <1>3, <2>4, <3>1, <3>2
  <2>7. f \in [ReportId -> Nat] /\ e \in [ReportId -> Nat]
    <3>1. \A i \in ReportId : f[i] \in Nat /\ e[i] \in Nat
      BY <2>5
    <3>. QED BY <2>1, <3>1 DEF Counts
  <2>8. Grown(e, U, f, S, x, d)
    BY <2>2, <2>5, <2>6 DEF Grown
  <2>9. U \in SUBSET ReportId /\ S \in SUBSET U
    BY <2>2
  <2>10. Total(e, U) = Total(f, S) + (IF x \in U THEN d ELSE 0)
    BY ONLY <2>3, <2>7, <2>8, <2>9, d \in Nat, TotalGrows
  <2>. QED BY <2>1, <2>10
<1>. QED BY <1>4, <1>5, <1>6

LEMMA CommitsNat ==
  ASSUME TypeOK, IsFiniteSet(File), NEW h
  PROVE  Total(commits, FilesOf(h)) \in Nat
<1>1. FilesOf(h) \in SUBSET File /\ commits \in [File -> Nat]
  BY DEF FilesOf, TypeOK
<1>2. IsFiniteSet(FilesOf(h)) /\ \A f \in FilesOf(h) : commits[f] \in Nat
  BY <1>1, FS_Subset
<1>3. PICK g \in [SUBSET FilesOf(h) -> Nat] : IsTotal(commits, FilesOf(h), g)
  BY <1>2, TotalExists
<1>. QED BY <1>2, <1>3, TotalIs

LEMMA CommitsCount ==
  ASSUME TypeOK, IsFiniteSet(File), NEW h, NEW f \in File, NEW d \in Nat, d = 1,
         commits' = [commits EXCEPT ![f] = @ + 1]
  PROVE  Total(commits', FilesOf(h)) = Total(commits, FilesOf(h))
                                        + (IF f \in FilesOf(h) THEN d ELSE 0)
<1>1. FilesOf(h) \in SUBSET File /\ commits \in [File -> Nat]
  BY DEF FilesOf, TypeOK
<1>2. /\ commits' \in [File -> Nat] /\ commits'[f] = commits[f] + 1
      /\ \A g \in File \ {f} : commits'[g] = commits[g]
  BY <1>1, CountFile
<1>3. PICK U, a, b : U = FilesOf(h) /\ a = commits /\ b = commits'
  OBVIOUS
<1>4. U \in SUBSET File /\ IsFiniteSet(U) /\ U \in SUBSET U
      /\ a \in [File -> Nat] /\ b \in [File -> Nat]
  BY <1>1, <1>2, <1>3, FS_Subset
<1>5. \A g \in U : b[g] = a[g] + (IF g = f THEN d ELSE 0)
  BY <1>2, <1>3, <1>4
<1>6. Grown(b, U, a, U, f, d)
  BY <1>5 DEF Grown
<1>7. Total(b, U) = Total(a, U) + (IF f \in U THEN d ELSE 0)
  BY ONLY <1>4, <1>6, f \in File, d \in Nat, TotalGrows
<1>. QED BY <1>3, <1>7

LEMMA ExactNext ==
  ASSUME OneSaver, IsFiniteSet(ReportId), IsFiniteSet(File), TypeInv, ExactInv, [Next]_vars
  PROVE  ExactInv'
<1>. USE StoreAssumption, SaveAssumption
<1>0. TypeOK /\ LocalsOK /\ StoreTypeOK /\ NewInv /\ HashKept /\ CountsHeld
  BY DEF TypeInv, TypeOK, ExactInv
<1>1. \A h \in Hash : Total(Counts, Committed(h)) = Total(commits, FilesOf(h))
  BY DEF ExactInv
<1>2. ASSUME UNCHANGED <<hashOf, tally, commits, ureport>>
      PROVE  \A h \in Hash : Total(Counts', Committed(h)') = Total(commits', FilesOf(h)')
  <2>1. Counts' = Counts /\ \A h \in Hash : Committed(h)' = Committed(h) /\ FilesOf(h)' = FilesOf(h)
    BY <1>2 DEF Counts, Committed, FilesOf
  <2>. QED BY <1>1, <1>2, <2>1
<1>3. \A i, j \in ReportId : ReportCounter(i) = ReportCounter(j) => i = j
  BY DEF ReportCounter
\* The session of a process that ended or flushed is clean.
<1>4. ASSUME NEW p \in Saver, session'[p] = CleanSession,
             pc'[p] \notin {"release", "details", "flush"},
             \A i \in ReportId : hashOf'[i] = NoHash => tally'[ReportCounter(i)] = 0
      PROVE  NewInv' /\ HashKept' /\ CountsHeld'
  <2>1. /\ \A i \in ReportId : ReportCounter(i) \in Counter
        /\ CleanSession.loaded = {}
        /\ \A i \in ReportId : CleanSession.new[i] = NoHash
        /\ \A c \in Counter : CleanSession.base[c] = 0 /\ CleanSession.added[c] = 0
    BY DEF CleanSession, Counter, ReportCounters
  <2>2. NewInv' /\ HashKept'
    BY <1>4, <2>1 DEF NewInv, HashKept, OneSaver
  <2>3. \A i \in ReportId : /\ session'[p].base[ReportCounter(i)] = 0
                            /\ session'[p].added[ReportCounter(i)] = 0
                            /\ i \notin session'[p].loaded
    BY <1>4, <2>1
  <2>4. CountsHeld'
    BY <1>4, <2>3 DEF CountsHeld, OneSaver
  <2>. QED BY <2>2, <2>4
<1>5. ASSUME NEW p \in Saver, NEW step \in {"idle", "dead"}, End(p, step),
             UNCHANGED <<hashOf, tally, commits, ureport>>
      PROVE  ExactInv'
  <2>1. session'[p] = CleanSession /\ pc'[p] = step
    BY <1>0, <1>5 DEF End, Forget, Goto, TypeOK, StoreTypeOK
  <2>2. \A i \in ReportId : hashOf'[i] = NoHash => tally'[ReportCounter(i)] = 0
    BY <1>0, <1>5 DEF CountsHeld
  <2>. QED BY <1>2, <1>4, <1>5, <2>1, <2>2 DEF ExactInv
\* The process goes on to a step before the look-up or after the flush.
<1>6. ASSUME NEW p \in Saver, NEW step \in Step \ {"release", "details", "flush"},
             Goto(p, step), pc[p] # "flush", UNCHANGED <<storeVars, commits, ureport>>
      PROVE  ExactInv'
  <2>1. pc'[p] = step
    BY <1>0, <1>6 DEF Goto, TypeOK
  <2>2. NewInv' /\ HashKept' /\ CountsHeld'
    BY <1>0, <1>6, <2>1 DEF NewInv, HashKept, CountsHeld, OneSaver, storeVars
  <2>. QED BY <1>2, <1>6, <2>2 DEF ExactInv, storeVars
\* A flush that counts no file writes only what saves that were given up left.
<1>18. ASSUME NEW p \in Saver, Flush(p), pc[p] # "flush", UNCHANGED <<commits, ureport>>,
              pc'[p] \notin {"release", "details", "flush"}
       PROVE  ExactInv'
  <2>1. PICK d \in Nat : d = 0
    OBVIOUS
  <2>2. /\ \A i \in ReportId :
              /\ tally'[ReportCounter(i)]
                   = tally[ReportCounter(i)] + (IF i = report[p] THEN d ELSE 0)
              /\ hashOf'[i] = NoHash => hashOf[i] = NoHash
        /\ \A h \in Hash : Total(Counts', Committed(h)')
                              = Total(Counts, Committed(h))
                                + (IF report[p] \in Committed(h)' THEN d ELSE 0)
    BY <1>0, <1>18, <2>1, FlushCounts
  <2>3. \A h \in Hash : Total(commits, FilesOf(h)) \in Nat
    BY <1>0, CommitsNat
  <2>4. \A h \in Hash : Total(Counts', Committed(h)') = Total(commits', FilesOf(h)')
    <3>1. \A h \in Hash : FilesOf(h)' = FilesOf(h)
      BY <1>18 DEF FilesOf
    <3>. QED BY <1>1, <1>18, <2>1, <2>2, <2>3, <3>1
  <2>5. \A i \in ReportId : tally[ReportCounter(i)] \in Nat
    BY <1>0 DEF StoreTypeOK, Counter, ReportCounters
  <2>6. \A i \in ReportId : hashOf'[i] = NoHash => tally'[ReportCounter(i)] = 0
    BY <1>0, <2>1, <2>2, <2>5 DEF CountsHeld
  <2>7. session'[p] = CleanSession
    BY <1>0, <1>18 DEF Flush, StoreTypeOK
  <2>. QED BY <1>4, <1>18, <2>4, <2>6, <2>7 DEF ExactInv
<1>7. ASSUME NEW f \in File, Submit(f) \/ FinishWriting(f) PROVE ExactInv'
  <2>1. UNCHANGED <<storeVars, ureport, procVars, commits>>
    BY <1>7 DEF Submit, FinishWriting
  <2>2. NewInv' /\ HashKept' /\ CountsHeld'
    BY <1>0, <2>1 DEF NewInv, HashKept, CountsHeld, storeVars, procVars
  <2>. QED BY <1>2, <2>1, <2>2 DEF ExactInv, storeVars
<1>8. ASSUME NEW p \in Saver, Start(p) \/ Load(p) PROVE ExactInv'
  <2>1. PICK step \in Step \ {"release", "details", "flush"} : Goto(p, step)
    BY <1>8 DEF Start, Load, Step
  <2>2. pc[p] # "flush" /\ UNCHANGED <<storeVars, commits, ureport>>
    BY <1>8 DEF Start, Load, spoolVars
  <2>. QED BY <1>6, <2>1, <2>2
<1>9. ASSUME NEW p \in Saver, RecordOpsys(p) PROVE ExactInv'
  <2>1. pc[p] = "opsys" /\ UNCHANGED <<commits, ureport>>
    BY <1>9 DEF RecordOpsys, spoolVars
  <2>2. CASE Die(p)
    BY <1>5, <2>1, <2>2 DEF Die
  <2>3. CASE Flush(p) /\ Goto(p, "defer")
    <3>1. pc'[p] = "defer"
      BY <1>0, <2>3 DEF Goto, TypeOK
    <3>. QED BY <1>18, <2>1, <2>3, <3>1
  <2>. QED BY <1>9, <2>2, <2>3 DEF RecordOpsys
<1>10. ASSUME NEW p \in Saver, LookUp(p) PROVE ExactInv'
  <2>1. pc[p] = "stat" /\ cur[p] \in File /\ UNCHANGED <<commits, ureport>>
    BY <1>0, <1>10 DEF LookUp, LocalsOK, Working, spoolVars
  <2>2. CASE Die(p)
    BY <1>5, <2>1, <2>2 DEF Die
  <2>3. CASE Goto(p, "defer") /\ UNCHANGED storeVars
    BY <1>6, <2>1, <2>3 DEF Step
  <2>4. CASE /\ \E i \in ReportId : /\ FindReport(p, ureport[cur[p]], i)
                                    /\ report' = [report EXCEPT ![p] = i]
             /\ Goto(p, "release")
             /\ UNCHANGED <<hashOf, tally, cur>>
    <3>1. PICK i \in ReportId : /\ FindReport(p, ureport[cur[p]], i)
                                /\ report' = [report EXCEPT ![p] = i]
      BY <2>4
    <3>2. PICK u \in UReport : u = ureport[cur[p]]
      BY <1>0, <2>1 DEF TypeOK
    <3>3. /\ session'[p].added = session[p].added
          /\ \/ session'[p] = session[p] /\ i \in session[p].loaded /\ hashOf[i] = u.hash
             \/ /\ session'[p].new = session[p].new /\ hashOf[i] = u.hash
                /\ session'[p].loaded = session[p].loaded \cup {i}
                /\ session'[p].base =
                     [session[p].base EXCEPT ![ReportCounter(i)] = tally[ReportCounter(i)]]
             \/ /\ i \in FreeIds
                /\ session'[p].new = [session[p].new EXCEPT ![i] = u.hash]
                /\ session'[p].loaded = session[p].loaded
                /\ session'[p].base = session[p].base
      BY <1>0, <3>1, <3>2, FindReportSession
    <3>4. pc'[p] = "release" /\ report'[p] = i
      BY <1>0, <2>4, <3>1 DEF Goto, TypeOK
    <3>5. u.hash \in {hashOf[i], session'[p].new[i]} /\ NewInv'
      BY <1>0, <2>4, <3>1, <3>2, FindReportNew
    <3>6. session[p] \in Session
      BY <1>0 DEF StoreTypeOK
    <3>7. i \in session'[p].loaded \/ session'[p].new[i] # NoHash
      <4>1. u.hash # NoHash /\ session[p].new \in [ReportId -> Hash \cup {NoHash}]
        BY <3>6 DEF UReport, Session
      <4>. QED BY <3>3, <4>1
    <3>8. HashKept'
      BY <2>1, <2>4, <3>2, <3>4, <3>5, <3>7 DEF HashKept, OneSaver
    <3>9. \A j \in ReportId :
            /\ session'[p].base[ReportCounter(j)] =
                 IF j \in session'[p].loaded THEN tally[ReportCounter(j)] ELSE 0
            /\ session'[p].added[ReportCounter(j)] = 0
      <4>1. \A j \in ReportId :
              /\ session[p].base[ReportCounter(j)] =
                   IF j \in session[p].loaded THEN tally[ReportCounter(j)] ELSE 0
              /\ session[p].added[ReportCounter(j)] = 0
        BY <1>0, <2>1 DEF CountsHeld
      <4>2. session[p].base \in [Counter -> Nat] /\ \A j \in ReportId : ReportCounter(j) \in Counter
        BY <3>6 DEF Session, Counter, ReportCounters
      <4>. HIDE DEF ReportCounter
      <4>3. CASE session'[p].loaded = session[p].loaded /\ session'[p].base = session[p].base
        BY <3>3, <4>1, <4>3
      <4>4. CASE /\ session'[p].loaded = session[p].loaded \cup {i}
                 /\ session'[p].base =
                      [session[p].base EXCEPT ![ReportCounter(i)] = tally[ReportCounter(i)]]
        <5>1. ASSUME NEW j \in ReportId
              PROVE  session'[p].base[ReportCounter(j)] =
                       IF j = i THEN tally[ReportCounter(j)] ELSE session[p].base[ReportCounter(j)]
          <6>1. ReportCounter(j) \in DOMAIN session[p].base
            BY <4>2
          <6>2. ReportCounter(j) = ReportCounter(i) <=> j = i
            BY <1>3
          <6>. QED BY <4>4, <6>1, <6>2
        <5>. QED BY <3>3, <4>1, <4>4, <5>1
      <4>. QED BY <3>3, <4>3, <4>4
    <3>10. CountsHeld'
      BY <1>0, <2>4, <3>4, <3>9 DEF CountsHeld, OneSaver
    <3>. QED BY <1>2, <2>1, <2>4, <3>5, <3>8, <3>10 DEF ExactInv
  <2>. QED BY <1>10, <2>2, <2>3, <2>4 DEF LookUp
<1>11. ASSUME NEW p \in Saver, SaveRelease(p) PROVE ExactInv'
  <2>1. /\ pc[p] = "release" /\ UNCHANGED <<hashOf, tally, commits, ureport, cur, report>>
        /\ cur[p] \in File /\ report[p] \in ReportId
    BY <1>0, <1>11 DEF SaveRelease, LocalsOK, Working, Reporting, spoolVars
  <2>2. PICK step \in {"defer", "details"} : Goto(p, step)
    BY <1>11 DEF SaveRelease
  <2>3. /\ session'[p].new = session[p].new /\ session'[p].loaded = session[p].loaded
        /\ \A j \in ReportId :
             /\ session'[p].base[ReportCounter(j)] = session[p].base[ReportCounter(j)]
             /\ session'[p].added[ReportCounter(j)] = session[p].added[ReportCounter(j)]
    <3>1. ReleaseCounter(report[p], ureport[cur[p]].release) \in RowCounters
      BY <1>0, <2>1 DEF TypeOK, UReport, RowCounters
    <3>2. session'[p] = Increment(session[p],
                          ReleaseCounter(report[p], ureport[cur[p]].release), 1)
      BY <1>0, <1>11 DEF SaveRelease, CountRelease, StoreTypeOK
    <3>. QED BY <1>0, <3>1, <3>2, IncrementKeeps DEF StoreTypeOK
  <2>4. pc'[p] = step
    BY <1>0, <2>2 DEF Goto, TypeOK
  <2>5. NewInv' /\ HashKept'
    BY <1>0, <2>1, <2>3, <2>4 DEF NewInv, HashKept, OneSaver
  <2>6. CountsHeld'
    BY <1>0, <2>1, <2>3, <2>4 DEF CountsHeld, OneSaver
  <2>. QED BY <1>2, <2>1, <2>5, <2>6 DEF ExactInv
<1>12. ASSUME NEW p \in Saver, SaveDetails(p) PROVE ExactInv'
  <2>1. /\ pc[p] = "details" /\ Goto(p, "flush")
        /\ UNCHANGED <<hashOf, tally, commits, ureport, cur, report>>
        /\ cur[p] \in File /\ report[p] \in ReportId
    BY <1>0, <1>12 DEF SaveDetails, LocalsOK, Working, Reporting, spoolVars
  <2>2. pc'[p] = "flush"
    BY <1>0, <2>1 DEF Goto, TypeOK
  <2>3. /\ session'[p].new = session[p].new /\ session'[p].loaded = session[p].loaded
        /\ \A j \in ReportId :
             /\ session'[p].base[ReportCounter(j)] = session[p].base[ReportCounter(j)]
             /\ session'[p].added[ReportCounter(j)] =
                  session[p].added[ReportCounter(j)] + (IF j = report[p] THEN 1 ELSE 0)
    <3>1. PICK u \in UReport : u = ureport[cur[p]]
      BY <1>0, <2>1 DEF TypeOK
    <3>2. CountDetails(p, u, report[p], 1)
      BY <1>12, <3>1 DEF SaveDetails
    <3>. QED BY <1>0, <2>1, <3>2, CountDetailsSession
  <2>4. NewInv' /\ HashKept'
    BY <1>0, <2>1, <2>2, <2>3 DEF NewInv, HashKept, OneSaver
  <2>5. \A j \in ReportId : session[p].added[ReportCounter(j)] = 0
    BY <1>0, <2>1 DEF CountsHeld
  <2>6. CountsHeld'
    BY <1>0, <2>1, <2>2, <2>3, <2>5 DEF CountsHeld, OneSaver
  <2>. QED BY <1>2, <2>1, <2>4, <2>6 DEF ExactInv
<1>13. ASSUME NEW p \in Saver, Commit(p) PROVE ExactInv'
  <2>1. /\ pc[p] = "flush" /\ ureport' = ureport
        /\ cur[p] \in File /\ report[p] \in ReportId
    BY <1>0, <1>13 DEF Commit, LocalsOK, Working, Reporting, spoolVars
  <2>2. CASE Die(p) /\ UNCHANGED commits
    BY <1>5, <2>1, <2>2 DEF Die
  <2>3. CASE /\ Flush(p)
             /\ commits' = [commits EXCEPT ![cur[p]] = @ + 1]
             /\ \E step \in {"postflush", "keep"} : Goto(p, step)
    <3>1. PICK d \in Nat : d = 1
      OBVIOUS
    <3>2. /\ \A i \in ReportId :
                /\ tally'[ReportCounter(i)]
                     = tally[ReportCounter(i)] + (IF i = report[p] THEN d ELSE 0)
                /\ hashOf'[i] = NoHash => hashOf[i] = NoHash /\ i # report[p]
          /\ \A h \in Hash : Total(Counts', Committed(h)')
                                = Total(Counts, Committed(h))
                                  + (IF report[p] \in Committed(h)' THEN d ELSE 0)
      BY <1>0, <2>1, <2>3, <3>1, FlushCounts
    <3>3. PICK u \in UReport : u = ureport[cur[p]]
      BY <1>0, <2>1 DEF TypeOK
    <3>4. hashOf'[report[p]] = u.hash
      <4>1. u.hash \in {hashOf[report[p]], session[p].new[report[p]]} /\ u.hash # NoHash
        BY <1>0, <2>1, <3>3 DEF HashKept, UReport
      <4>2. session[p].new[report[p]] # NoHash => hashOf[report[p]] = NoHash
        BY <1>0, <2>1 DEF NewInv
      <4>3. hashOf'[report[p]] = IF session[p].new[report[p]] # NoHash
                                 THEN session[p].new[report[p]] ELSE hashOf[report[p]]
        BY <2>1, <2>3 DEF Flush
      <4>. QED BY <4>1, <4>2, <4>3
    <3>5. \A h \in Hash : /\ report[p] \in Committed(h)' <=> h = u.hash
                          /\ cur[p] \in FilesOf(h) <=> h = u.hash
                          /\ FilesOf(h)' = FilesOf(h)
      BY <2>1, <3>3, <3>4 DEF Committed, FilesOf
    <3>6. \A h \in Hash : Total(commits', FilesOf(h)) = Total(commits, FilesOf(h))
                            + (IF cur[p] \in FilesOf(h) THEN d ELSE 0)
      BY <1>0, <2>1, <2>3, <3>1, CommitsCount
    <3>7. \A h \in Hash : Total(Counts', Committed(h)') = Total(commits', FilesOf(h)')
      BY <1>1, <3>2, <3>5, <3>6
    <3>8. \A i \in ReportId : tally[ReportCounter(i)] \in Nat
      BY <1>0 DEF StoreTypeOK, Counter, ReportCounters
    <3>9. \A i \in ReportId : hashOf'[i] = NoHash => tally'[ReportCounter(i)] = 0
      BY <1>0, <3>2, <3>8 DEF CountsHeld
    <3>10. session'[p] = CleanSession /\ pc'[p] \in {"postflush", "keep"}
      BY <1>0, <2>3 DEF Flush, Goto, TypeOK, StoreTypeOK
    <3>. QED BY <1>4, <3>7, <3>9, <3>10 DEF ExactInv
  <2>. QED BY <1>13, <2>2, <2>3 DEF Commit
<1>14. ASSUME NEW p \in Saver, PostFlush(p) PROVE ExactInv'
  <2>1. /\ pc[p] = "postflush" /\ UNCHANGED <<hashOf, tally, session, commits, ureport>>
        /\ \E step \in {"keep", "defer"} : Goto(p, step)
    BY <1>14 DEF PostFlush, spoolVars
  <2>2. pc'[p] \in {"keep", "defer"}
    BY <1>0, <2>1 DEF Goto, TypeOK
  <2>3. NewInv' /\ HashKept' /\ CountsHeld'
    BY <1>0, <2>1, <2>2 DEF NewInv, HashKept, CountsHeld, OneSaver
  <2>. QED BY <1>2, <2>1, <2>3 DEF ExactInv
<1>15. ASSUME NEW p \in Saver, MoveToSaved(p) \/ MoveToDeferred(p) PROVE ExactInv'
  <2>1. /\ pc[p] \in {"keep", "defer"} /\ Goto(p, "pick")
        /\ UNCHANGED <<storeVars, commits, ureport>>
    BY <1>15 DEF MoveToSaved, MoveToDeferred, MoveTo
  <2>. QED BY <1>6, <2>1 DEF Step
<1>16. ASSUME NEW p \in Saver, Finish(p) \/ Crash(p) PROVE ExactInv'
  BY <1>5, <1>6, <1>16 DEF Finish, Crash, spoolVars, Step
<1>19. ASSUME NEW p \in Saver, SaveAttachments(p) PROVE ExactInv'
  <2>1. pc[p] = "attach" /\ End(p, "idle") /\ UNCHANGED <<commits, ureport>>
    BY <1>19 DEF SaveAttachments, spoolVars
  <2>2. pc'[p] = "idle"
    BY <1>0, <2>1 DEF End, Goto, TypeOK
  <2>3. CASE Flush(p)
    BY <1>18, <2>1, <2>2, <2>3
  <2>4. CASE UNCHANGED <<hashOf, tally>>
    BY <1>5, <2>1, <2>4
  <2>. QED BY <1>19, <2>3, <2>4 DEF SaveAttachments
<1>17. CASE UNCHANGED vars
  <2>1. NewInv' /\ HashKept' /\ CountsHeld'
    BY <1>0, <1>17 DEF NewInv, HashKept, CountsHeld, vars, storeVars, spoolVars, procVars
  <2>. QED BY <1>2, <1>17, <2>1 DEF ExactInv, vars, storeVars, spoolVars
<1>. QED
  BY <1>7, <1>8, <1>9, <1>10, <1>11, <1>12, <1>13, <1>14, <1>15, <1>16,
     <1>17, <1>19 DEF Next, SaveFile

\* The sums of ReportCountExact, written out.
LEMMA CountsSum ==
  ASSUME StoreTypeOK, NEW S \in SUBSET ReportId, IsFiniteSet(S)
  PROVE  MapThenSumSet(LAMBDA i : tally[ReportCounter(i)], S) = Total(Counts, S)
<1>. DEFINE R(g) == g = [s \in SUBSET S |->
                           IF s = {} THEN 0
                           ELSE tally[ReportCounter(CHOOSE x \in s : TRUE)]
                                  + g[s \ {CHOOSE x \in s : TRUE}]]
            r == CHOOSE g : R(g)
<1>1. MapThenSumSet(LAMBDA i : tally[ReportCounter(i)], S) = r[S]
  BY DEF MapThenSumSet, MapThenFoldSet
<1>2. ASSUME NEW g PROVE R(g) <=> IsTotal(Counts, S, g)
  <2>. DEFINE a == [s \in SUBSET S |->
                      IF s = {} THEN 0
                      ELSE tally[ReportCounter(CHOOSE x \in s : TRUE)]
                             + g[s \ {CHOOSE x \in s : TRUE}]]
              b == [s \in SUBSET S |-> Summed(Counts, g, s)]
  <2>1. ASSUME NEW s \in SUBSET S PROVE a[s] = b[s]
    <3>1. CASE s = {}
      BY <3>1 DEF Summed
    <3>2. CASE s # {}
      <4>1. First(s) \in ReportId
        BY <3>2, FirstIn
      <4>2. Counts[First(s)] = tally[ReportCounter(First(s))]
        BY <4>1 DEF Counts
      <4>. QED BY <3>2, <4>2 DEF Summed, First
    <3>. QED BY <3>1, <3>2
  <2>2. a = b
    BY <2>1
  <2>3. R(g) <=> g = a
    OBVIOUS
  <2>4. IsTotal(Counts, S, g) <=> g = b
    BY DEF IsTotal
  <2>. HIDE DEF a, b, R
  <2>. QED BY <2>2, <2>3, <2>4
<1>3. \A i \in S : Counts[i] \in Nat
  BY DEF Counts, StoreTypeOK, Counter, ReportCounters
<1>4. \E g : IsTotal(Counts, S, g)
  BY <1>3, TotalExists
<1>. HIDE DEF R
<1>5. R(r)
  BY <1>2, <1>4
<1>. HIDE DEF r
<1>6. IsTotal(Counts, S, r)
  BY <1>2, <1>5
<1>. QED BY <1>1, <1>3, <1>6, TotalIs

LEMMA CommitsSum ==
  ASSUME TypeOK, NEW S \in SUBSET File, IsFiniteSet(S)
  PROVE  MapThenSumSet(LAMBDA f : commits[f], S) = Total(commits, S)
<1>1. \A f \in S : commits[f] \in Nat
  BY DEF TypeOK
<1>. QED BY <1>1, TotalOf

\* While runs do not overlap, the counts of the reports with one hash add up to
\* the times that files with this hash were counted, however many saves were
\* given up, refused or killed half-way.
THEOREM ReportCountExactAlways ==
  ASSUME OneSaver, IsFiniteSet(ReportId), IsFiniteSet(File)
  PROVE  Spec => []ReportCountExact
<1>1. Init => ExactInv
  <2>. SUFFICES ASSUME Init PROVE ExactInv
    OBVIOUS
  <2>1. NewInv /\ HashKept
    BY DEF Init, StoreInit, NewInv, HashKept, CleanSession
  <2>2. CountsHeld
    BY DEF Init, StoreInit, CountsHeld, CleanSession, Counter, ReportCounters
  <2>3. ASSUME NEW h \in Hash PROVE Total(Counts, Committed(h)) = Total(commits, FilesOf(h))
    <3>1. Committed(h) = {}
      BY StoreAssumption DEF Init, StoreInit, Committed
    <3>0. PICK d \in Nat : d = 0
      OBVIOUS
    <3>2. PICK U, a, b, x : U = FilesOf(h) /\ a = [f \in File |-> 0] /\ b = commits
      OBVIOUS
    <3>3. /\ U \in SUBSET File /\ IsFiniteSet(U) /\ {} \in SUBSET U
          /\ a \in [File -> Nat] /\ b \in [File -> Nat] /\ b = a
      BY <3>2, FS_Subset DEF Init, FilesOf
    <3>4. Grown(b, U, a, {}, x, d)
      BY <3>0, <3>2, <3>3 DEF Grown
    <3>5. Total(b, U) = Total(a, {}) + (IF x \in U THEN d ELSE 0)
      BY ONLY <3>3, <3>4, d \in Nat, TotalGrows
    <3>6. \A c : Total(c, {}) = 0
      BY TotalNone
    <3>7. Total(b, U) = 0
      BY <3>0, <3>5, <3>6
    <3>. QED BY <3>1, <3>2, <3>6, <3>7
  <2>. QED BY <2>1, <2>2, <2>3 DEF ExactInv
<1>2. TypeInv /\ ExactInv => ReportCountExact
  <2>. SUFFICES ASSUME TypeOK, ExactInv, NEW h \in Hash
                PROVE  MapThenSumSet(LAMBDA i : tally[ReportCounter(i)], Committed(h))
                         = MapThenSumSet(LAMBDA f : commits[f], {f \in File : ureport[f].hash = h})
    BY DEF ReportCountExact, TypeInv
  <2>1. Committed(h) \in SUBSET ReportId /\ IsFiniteSet(Committed(h))
    BY FS_Subset DEF Committed
  <2>2. FilesOf(h) \in SUBSET File /\ IsFiniteSet(FilesOf(h))
    BY FS_Subset DEF FilesOf
  <2>3. MapThenSumSet(LAMBDA i : tally[ReportCounter(i)], Committed(h))
          = Total(Counts, Committed(h))
    BY <2>1, CountsSum DEF TypeOK
  <2>4. MapThenSumSet(LAMBDA f : commits[f], FilesOf(h)) = Total(commits, FilesOf(h))
    BY <2>2, CommitsSum
  <2>. QED BY <2>3, <2>4 DEF ExactInv, FilesOf
<1>3. TypeInv /\ ExactInv /\ [Next]_vars => ExactInv'
  BY ExactNext
<1>. QED BY <1>1, <1>2, <1>3, TypeInit, TypeNext, PTL DEF Spec

-----------------------------------------------------------------------------
(* The refinement: every step is a step of Intake, or leaves it alone.     *)

LEMMA StepImplements ==
  ASSUME OneSaver, TypeInv, SpoolInv, CountedInv, CountInv, DeferInv, [Next]_vars
  PROVE  [Promised!Next]_(Promised!intakeVars)
<1>. USE SaveAssumption DEF Promised!Next, Promised!intakeVars
<1>0. TypeOK /\ LocalsOK
  BY DEF TypeInv
<1>1. CASE UNCHANGED <<dir, commits, crashes>>
  BY <1>1
<1>2. ASSUME NEW f \in File, Submit(f) PROVE Promised!Next
  BY <1>2 DEF Submit, Promised!Arrive, Promised!Move
<1>3. ASSUME NEW p \in Saver, Commit(p), commits' # commits PROVE Promised!Next
  <2>1. /\ pc[p] = "flush" /\ commits' = [commits EXCEPT ![cur[p]] = @ + 1]
        /\ UNCHANGED <<dir, crashes>>
    BY <1>3 DEF Commit, spoolVars
  <2>2. cur[p] \in File
    BY <1>0, <2>1 DEF LocalsOK, Working
  <2>3. dir[cur[p]] = "incoming"
    BY <2>2 DEF SpoolInv
  <2>4. ~Settled(cur[p])
    BY <2>1, <2>3 DEF Settled, OneSaver
  <2>. QED BY <2>1, <2>2, <2>3, <2>4 DEF CountInv, Promised!Count
<1>4. ASSUME NEW p \in Saver, MoveToSaved(p) \/ MoveToDeferred(p)
      PROVE  Promised!Next
  <2>1. /\ pc[p] \in {"keep", "defer"} /\ UNCHANGED <<commits, crashes>>
        /\ dir' = [dir EXCEPT ![cur[p]] =
                      IF @ # "incoming" THEN @
                      ELSE IF pc[p] = "keep" THEN "saved" ELSE "deferred"]
    BY <1>4 DEF MoveToSaved, MoveToDeferred, MoveTo
  <2>2. cur[p] \in File
    BY <1>0, <2>1 DEF LocalsOK, Working
  <2>3. dir[cur[p]] = "incoming"
    BY <2>2 DEF SpoolInv
  <2>4. CASE pc[p] = "keep"
    <3>1. commits[cur[p]] > 0
      BY <2>2, <2>4 DEF CountedInv
    <3>. QED BY <2>1, <2>2, <2>3, <2>4, <3>1 DEF Promised!Accept, Promised!Move
  <2>5. CASE pc[p] = "defer"
    <3>1. commits[cur[p]] = 0
      BY <2>5 DEF DeferInv, StepInv
    <3>. QED BY <2>1, <2>2, <2>3, <2>5, <3>1 DEF Promised!Refuse, Promised!Move
  <2>. QED BY <2>1, <2>4, <2>5
<1>5. ASSUME NEW p \in Saver, Crash(p) PROVE Promised!Next
  BY <1>5 DEF Crash, spoolVars, Promised!Mishap
<1>6. ASSUME NEW p \in Saver, Start(p) \/ Load(p) \/ RecordOpsys(p) \/ LookUp(p) \/ SaveRelease(p)
      PROVE  UNCHANGED <<dir, commits, crashes>>
  BY <1>6 DEF Start, Load, RecordOpsys, LookUp, SaveRelease, spoolVars
<1>7. ASSUME NEW p \in Saver, \/ SaveDetails(p) \/ PostFlush(p) \/ Finish(p) \/ SaveAttachments(p)
                             \/ (Commit(p) /\ commits' = commits)
      PROVE  UNCHANGED <<dir, commits, crashes>>
  BY <1>7 DEF SaveDetails, PostFlush, Finish, SaveAttachments, Commit, spoolVars
<1>8. ASSUME NEW f \in File, FinishWriting(f) PROVE UNCHANGED <<dir, commits, crashes>>
  BY <1>8 DEF FinishWriting
<1>9. CASE UNCHANGED vars
  BY <1>9 DEF vars, spoolVars
<1>10. CASE Next
  <2>1. CASE \E f \in File : Submit(f) \/ FinishWriting(f)
    BY <2>1, <1>1, <1>2, <1>8
  <2>2. CASE \E p \in Saver : Start(p) \/ SaveFile(p) \/ Crash(p)
    <3>1. PICK p \in Saver : Start(p) \/ SaveFile(p) \/ Crash(p)
      BY <2>2
    <3>. QED BY <3>1, <1>1, <1>3, <1>4, <1>5, <1>6, <1>7 DEF SaveFile
  <2>. QED BY <1>10, <2>1, <2>2 DEF Next
<1>. QED BY <1>9, <1>10, <1>1

\* While runs do not overlap and the checker bounds an oops by what a lob can
\* hold, save-reports implements Intake: for every set of files, reports,
\* releases and hashes, and any number of kills.
THEOREM ImplementsIntakeAlways ==
  ASSUME OneSaver, \A u \in Offered : u.verdict # "bigOops"
  PROVE  Spec => ImplementsIntake
<1>1. Init => SpoolInv /\ CountInv /\ CountedInv
  BY SaveAssumption
  DEF Init, SpoolInv, CountInv, CountedOncePerCrash, Settled, CountedInv, SavedWasCounted
<1>2. Init => DeferInv
  BY DeferInit
<1>3. Init => Promised!Init
  BY DEF Init, Promised!Init
<1>4. TypeInv /\ SpoolInv /\ [Next]_vars => SpoolInv'
  BY SpoolNext
<1>5. TypeInv /\ SpoolInv /\ CountInv /\ [Next]_vars => CountInv'
  BY CountNext
<1>6. TypeInv /\ SpoolInv /\ DeferInv /\ [Next]_vars => DeferInv'
  BY DeferNext
<1>7. TypeInv /\ SpoolInv /\ CountedInv /\ CountInv /\ DeferInv /\ [Next]_vars
        => [Promised!Next]_(Promised!intakeVars)
  BY StepImplements
<1>. QED
  BY <1>1, <1>2, <1>3, <1>4, <1>5, <1>6, <1>7, TypeInit, TypeNext, CountedNext, PTL
  DEF Spec, ImplementsIntake, Promised!Spec
==============================================================================
