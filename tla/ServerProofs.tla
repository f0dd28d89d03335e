----------------------------- MODULE ServerProofs ------------------------------
(***************************************************************************)
(* Proofs about Server: what is uploaded to the web application, the files *)
(* that clients attach, the counts of what uReports list, the frames that  *)
(* are stored of them, the flushes that are refused, the runs of           *)
(* mark-probably-fixed and what beat sends, for any number of processes.   *)
(***************************************************************************)
EXTENDS Server, FiniteSetsExt, FiniteSetTheorems, WellFoundedInduction, TLAPS

-----------------------------------------------------------------------------
(***************************************************************************)
(* Sums over finite sets.  MapThenSumSet adds the elements up in an order  *)
(* that CHOOSE fixes for every subset: g below is the function it          *)
(* iterates.  What a sum is does not follow from its definition at once;   *)
(* each lemma takes the smallest size at which it would fail.              *)
(***************************************************************************)

LEMMA Least ==
  ASSUME NEW T, T \subseteq Nat, T # {}
  PROVE  \E n \in T : \A m \in T : n <= m
<1>. DEFINE R == OpToRel(<, Nat)
<1>1. R = {ss \in Nat \X Nat : ss[1] < ss[2]}
  BY DEF OpToRel
<1>2. IsWellFoundedOn(R, Nat)
  BY NatLessThanWellFounded
<1>. HIDE DEF R
<1>3. PICK n \in T : \A m \in T : ~ (<<m, n>> \in R)
  BY <1>2, WFMin
<1>4. ASSUME NEW m \in T PROVE n <= m
  <2>1. ~ (<<m, n>> \in R) /\ m \in Nat /\ n \in Nat
    BY <1>3
  <2>2. m < n => <<m, n>> \in R
    BY <1>1, <2>1
  <2>. QED BY <2>1, <2>2
<1>. QED BY <1>4

First(s) == CHOOSE x \in s : TRUE

Summed(f, g, s) == IF s = {} THEN 0 ELSE f[First(s)] + g[s \ {First(s)}]

IsTotal(f, S, g) == g = [s \in SUBSET S |-> Summed(f, g, s)]

Total(f, S) == (CHOOSE g : IsTotal(f, S, g))[S]

LEMMA FirstIn == \A s : s # {} => First(s) \in s
BY DEF First

\* Without its first element a finite set is smaller.
LEMMA RestSmaller ==
  ASSUME NEW s, IsFiniteSet(s), NEW x \in s
  PROVE  /\ IsFiniteSet(s \ {x})
         /\ Cardinality(s) \in Nat /\ Cardinality(s \ {x}) \in Nat
         /\ Cardinality(s \ {x}) = Cardinality(s) - 1
BY FS_RemoveElement, FS_CardinalityType

\* There is such a function, and its values are numbers.
LEMMA TotalExists ==
  ASSUME NEW S, IsFiniteSet(S), NEW f, \A x \in S : f[x] \in Nat
  PROVE  \E g \in [SUBSET S -> Nat] : IsTotal(f, S, g)
<1>. DEFINE Upto(n) == {s \in SUBSET S : Cardinality(s) <= n}
            OK(n) == \E g \in [Upto(n) -> Nat] : \A s \in Upto(n) : g[s] = Summed(f, g, s)
            T == {n \in Nat : ~OK(n)}
<1>0. \A s \in SUBSET S : IsFiniteSet(s) /\ Cardinality(s) \in Nat
  BY FS_Subset, FS_CardinalityType
<1>1. OK(0)
  <2>1. Upto(0) = {{}}
    BY <1>0, FS_EmptySet
  <2>. DEFINE g == [s \in {{}} |-> 0]
  <2>2. g \in [Upto(0) -> Nat] /\ g[{}] = 0
    BY <2>1
  <2>3. \A s \in Upto(0) : g[s] = Summed(f, g, s)
    BY <2>1, <2>2 DEF Summed
  <2>. HIDE DEF g, Upto
  <2>. QED BY <2>2, <2>3
<1>2. ASSUME NEW n \in Nat, OK(n) PROVE OK(n + 1)
  <2>1. PICK g \in [Upto(n) -> Nat] : \A s \in Upto(n) : g[s] = Summed(f, g, s)
    BY <1>2
  <2>. DEFINE k == [s \in Upto(n + 1) |-> Summed(f, g, s)]
  <2>2. \A s \in Upto(n + 1) : s # {} => /\ s \ {First(s)} \in Upto(n)
                                        /\ First(s) \in S
    <3>. SUFFICES ASSUME NEW s \in Upto(n + 1), s # {}
                  PROVE  s \ {First(s)} \in Upto(n) /\ First(s) \in S
      OBVIOUS
    <3>1. First(s) \in s /\ s \in SUBSET S /\ Cardinality(s) <= n + 1
      BY FirstIn
    <3>2. IsFiniteSet(s)
      BY <1>0, <3>1
    <3>3. Cardinality(s) \in Nat /\ Cardinality(s \ {First(s)}) = Cardinality(s) - 1
      BY <3>1, <3>2, RestSmaller
    <3>. QED BY <3>1, <3>3
  <2>3. Upto(n) \subseteq Upto(n + 1)
    BY <1>0
  <2>4. ASSUME NEW s \in Upto(n + 1) PROVE k[s] = Summed(f, g, s) /\ k[s] \in Nat
    <3>1. k[s] = Summed(f, g, s)
      OBVIOUS
    <3>2. s # {} => g[s \ {First(s)}] \in Nat /\ f[First(s)] \in Nat
      BY <2>1, <2>2
    <3>. HIDE DEF k
    <3>. QED BY <3>1, <3>2 DEF Summed
  <2>. HIDE DEF k
  <2>5. \A s \in Upto(n) : k[s] = g[s]
    BY <2>1, <2>3, <2>4
  <2>6. ASSUME NEW s \in Upto(n + 1) PROVE k[s] = Summed(f, k, s)
    BY <2>2, <2>5, <2>4 DEF Summed
  <2>7. k \in [Upto(n + 1) -> Nat]
    BY <2>4 DEF k
  <2>. HIDE DEF Upto
  <2>. QED BY <2>6, <2>7
<1>3. \A n \in Nat : OK(n)
  <2>. SUFFICES ASSUME T # {} PROVE FALSE
    BY Zenon
  <2>. HIDE DEF OK
  <2>1. T \subseteq Nat
    OBVIOUS
  <2>2. PICK n \in T : \A m \in T : n <= m
    BY <2>1, Least
  <2>3. n \in Nat /\ ~OK(n)
    OBVIOUS
  <2>4. CASE n = 0
    BY <1>1, <2>3, <2>4
  <2>5. CASE n # 0
    <3>1. n - 1 \in Nat /\ (n - 1) + 1 = n /\ ~(n <= n - 1)
      BY <2>3, <2>5
    <3>2. OK(n - 1)
      BY <2>2, <3>1
    <3>3. OK((n - 1) + 1)
      BY <1>2, <3>1, <3>2
    <3>. QED BY <2>3, <3>1, <3>3
  <2>. QED BY <2>4, <2>5
<1>4. Upto(Cardinality(S)) = SUBSET S
  BY <1>0, FS_Subset
<1>5. PICK g \in [SUBSET S -> Nat] : \A s \in SUBSET S : g[s] = Summed(f, g, s)
  BY <1>3, FS_CardinalityType, <1>4
<1>6. IsTotal(f, S, g)
  BY <1>5 DEF IsTotal
<1>. QED BY <1>6

LEMMA TotalStep ==
  ASSUME NEW S, NEW f, NEW g, IsTotal(f, S, g)
  PROVE  /\ g[{}] = 0
         /\ \A s \in SUBSET S : s # {} => /\ g[s] = f[First(s)] + g[s \ {First(s)}]
                                          /\ First(s) \in S
<1>1. \A s \in SUBSET S : g[s] = Summed(f, g, s)
  BY DEF IsTotal
<1>2. \A s \in SUBSET S : s # {} => First(s) \in S
  BY FirstIn
<1>. QED BY <1>1, <1>2 DEF Summed

\* The sum is a number.
LEMMA TotalValues ==
  ASSUME NEW S, IsFiniteSet(S), NEW f, \A x \in S : f[x] \in Nat, NEW g, IsTotal(f, S, g)
  PROVE  \A s \in SUBSET S : g[s] \in Nat
<1>. DEFINE T == {Cardinality(s) : s \in {r \in SUBSET S : g[r] \notin Nat}}
<1>0. \A s \in SUBSET S : IsFiniteSet(s) /\ Cardinality(s) \in Nat
  BY FS_Subset, FS_CardinalityType
<1>. SUFFICES ASSUME T # {} PROVE FALSE
  OBVIOUS
<1>1. T \subseteq Nat
  BY <1>0
<1>2. PICK n \in T : \A m \in T : n <= m
  BY <1>1, Least
<1>3. PICK s \in SUBSET S : g[s] \notin Nat /\ n = Cardinality(s)
  OBVIOUS
<1>4. s # {}
  <2>1. g[{}] = 0
    BY TotalStep
  <2>. QED BY <1>3, <2>1
<1>5. /\ g[s] = f[First(s)] + g[s \ {First(s)}]
      /\ First(s) \in s /\ First(s) \in S
  BY <1>4, TotalStep, FirstIn
<1>6. g[s \ {First(s)}] \notin Nat
  BY <1>3, <1>5
<1>7. Cardinality(s \ {First(s)}) \in T
  BY <1>6
<1>8. Cardinality(s \ {First(s)}) = n - 1 /\ n \in Nat
  BY <1>0, <1>3, <1>5, RestSmaller
<1>. QED BY <1>2, <1>7, <1>8

\* The order in which the elements are added up does not matter.
LEMMA TotalRemove ==
  ASSUME NEW S, IsFiniteSet(S), NEW f, \A x \in S : f[x] \in Nat, NEW g, IsTotal(f, S, g)
  PROVE  \A s \in SUBSET S : \A x \in s : g[s] = f[x] + g[s \ {x}]
<1>. DEFINE Bad == {r \in SUBSET S : \E x \in r : g[r] # f[x] + g[r \ {x}]}
            T == {Cardinality(s) : s \in Bad}
<1>0. \A s \in SUBSET S : IsFiniteSet(s) /\ Cardinality(s) \in Nat
  BY FS_Subset, FS_CardinalityType
<1>. SUFFICES ASSUME T # {} PROVE FALSE
  OBVIOUS
<1>1. T \subseteq Nat
  BY <1>0
<1>2. PICK n \in T : \A m \in T : n <= m
  BY <1>1, Least
<1>3. PICK s \in Bad : n = Cardinality(s)
  OBVIOUS
<1>4. PICK x \in s : g[s] # f[x] + g[s \ {x}]
  OBVIOUS
<1>. DEFINE y == First(s)
<1>5. /\ g[s] = f[y] + g[s \ {y}]
      /\ y \in s /\ s \in SUBSET S
  <2>1. s \in SUBSET S /\ s # {}
    BY <1>4
  <2>2. First(s) \in s
    BY <2>1, FirstIn
  <2>3. \A r \in SUBSET S : r # {} => g[r] = f[First(r)] + g[r \ {First(r)}]
    <3>. HIDE DEF Bad, T
    <3>. QED BY TotalStep
  <2>. QED BY <2>1, <2>2, <2>3
<1>6. y # x
  BY <1>4, <1>5
<1>. HIDE DEF y
<1>7. /\ Cardinality(s \ {x}) = n - 1 /\ Cardinality(s \ {y}) = n - 1 /\ n \in Nat
  BY <1>0, <1>3, <1>4, <1>5, RestSmaller
<1>8. \A r \in SUBSET S : Cardinality(r) = n - 1 => r \notin Bad
  BY <1>2, <1>7
<1>9. /\ g[s \ {x}] = f[y] + g[(s \ {x}) \ {y}]
      /\ g[s \ {y}] = f[x] + g[(s \ {y}) \ {x}]
  BY <1>5, <1>6, <1>7, <1>8
<1>10. (s \ {x}) \ {y} = (s \ {y}) \ {x}
  OBVIOUS
<1>11. g[(s \ {x}) \ {y}] \in Nat /\ f[x] \in Nat /\ f[y] \in Nat
  BY <1>5, TotalValues
<1>12. g[s] = f[y] + (f[x] + g[(s \ {y}) \ {x}])
  BY <1>5, <1>9
<1>13. g[s \ {x}] = f[y] + g[(s \ {y}) \ {x}]
  BY <1>9, <1>10
<1>14. g[(s \ {y}) \ {x}] \in Nat
  BY <1>10, <1>11
<1>15. g[s] = f[x] + g[s \ {x}]
  BY <1>11, <1>12, <1>13, <1>14
<1>. QED BY <1>4, <1>15

\* On U, e is f with d more at x, and with 0 outside S.
Grown(e, U, f, S, x, d) ==
  \A y \in U : e[y] = (IF y \in S THEN f[y] ELSE 0) + (IF y = x THEN d ELSE 0)

LEMMA TotalCompare ==
  ASSUME NEW U, IsFiniteSet(U), NEW S, S \subseteq U,
         NEW f, \A y \in S : f[y] \in Nat, NEW e, \A y \in U : e[y] \in Nat,
         NEW x, NEW d \in Nat, Grown(e, U, f, S, x, d),
         NEW g, IsTotal(f, S, g), NEW k, IsTotal(e, U, k)
  PROVE  \A s \in SUBSET U : k[s] = g[s \cap S] + (IF x \in s THEN d ELSE 0)
<1>. DEFINE Bad == {r \in SUBSET U : k[r] # g[r \cap S] + (IF x \in r THEN d ELSE 0)}
            T == {Cardinality(s) : s \in Bad}
<1>0. /\ \A s \in SUBSET U : IsFiniteSet(s) /\ Cardinality(s) \in Nat
      /\ IsFiniteSet(S)
  BY FS_Subset, FS_CardinalityType
<1>. SUFFICES ASSUME T # {} PROVE FALSE
  OBVIOUS
<1>1. T \subseteq Nat
  BY <1>0
<1>2. PICK n \in T : \A m \in T : n <= m
  BY <1>1, Least
<1>3. PICK s \in Bad : n = Cardinality(s)
  OBVIOUS
<1>4. s \in SUBSET U /\ s # {}
  <2>1. g[{}] = 0 /\ k[{}] = 0
    BY TotalStep
  <2>2. {} \cap S = {} /\ x \notin {}
    OBVIOUS
  <2>3. {} \notin Bad
    BY <2>1, <2>2
  <2>. QED BY <1>3, <2>3
<1>. DEFINE y == First(s)
            r == s \ {y}
<1>5. /\ k[s] = e[y] + k[r]
      /\ y \in s /\ s \in SUBSET U /\ r \in SUBSET U
  <2>1. First(s) \in s
    BY <1>4, FirstIn
  <2>2. \A q \in SUBSET U : q # {} => k[q] = e[First(q)] + k[q \ {First(q)}]
    <3>. HIDE DEF Bad, T
    <3>. QED BY TotalStep
  <2>. QED BY <1>4, <2>1, <2>2
<1>. HIDE DEF y
<1>6. Cardinality(r) = n - 1 /\ n \in Nat
  BY <1>0, <1>3, <1>5, RestSmaller
<1>7. k[r] = g[r \cap S] + (IF x \in r THEN d ELSE 0)
  <2>1. r \notin Bad
    <3>1. r \in Bad => Cardinality(r) \in T
      OBVIOUS
    <3>. HIDE DEF Bad, T, r
    <3>. QED BY <1>2, <1>6, <3>1
  <2>. HIDE DEF r
  <2>. QED BY <1>5, <2>1
<1>8. /\ g[r \cap S] \in Nat /\ g[s \cap S] \in Nat
  BY <1>0, TotalValues
<1>9. y \in S => g[s \cap S] = f[y] + g[r \cap S] /\ f[y] \in Nat
  <2>. SUFFICES ASSUME y \in S PROVE g[s \cap S] = f[y] + g[r \cap S]
    OBVIOUS
  <2>1. r \cap S = (s \cap S) \ {y} /\ y \in s \cap S /\ s \cap S \in SUBSET S
    BY <1>5
  <2>2. g[s \cap S] = f[y] + g[(s \cap S) \ {y}]
    BY <1>0, <2>1, TotalRemove
  <2>. QED BY <2>1, <2>2
<1>10. y \notin S => r \cap S = s \cap S
  OBVIOUS
<1>11. e[y] = (IF y \in S THEN f[y] ELSE 0) + (IF y = x THEN d ELSE 0)
  BY <1>5 DEF Grown
<1>12. x \in s <=> x \in r \/ x = y
  BY <1>5
<1>13. x \in r => x # y
  OBVIOUS
<1>14. k[s] # g[s \cap S] + (IF x \in s THEN d ELSE 0)
  BY <1>3
<1>. HIDE DEF r, Bad, T
<1>15. CASE y \in S
  BY <1>5, <1>7, <1>8, <1>9, <1>11, <1>12, <1>13, <1>14, <1>15
<1>16. CASE y \notin S
  <2>1. g[r \cap S] = g[s \cap S]
    BY <1>10, <1>16
  <2>2. e[y] = IF y = x THEN d ELSE 0
    BY <1>11, <1>16
  <2>. QED BY <1>5, <1>7, <1>8, <1>12, <1>13, <1>14, <2>1, <2>2
<1>. QED BY <1>15, <1>16

LEMMA TotalUnique ==
  ASSUME NEW S, IsFiniteSet(S), NEW f, \A x \in S : f[x] \in Nat,
         NEW g, IsTotal(f, S, g), NEW k, IsTotal(f, S, k)
  PROVE  k[S] = g[S]
<1>1. PICK U, e, x, d : U = S /\ e = f /\ d = 0
  OBVIOUS
<1>2. Grown(e, U, f, S, x, d)
  BY <1>1 DEF Grown
<1>3. IsFiniteSet(U) /\ S \subseteq U /\ (\A y \in U : e[y] \in Nat) /\ d \in Nat /\ IsTotal(e, U, k)
  BY <1>1
<1>4. \A s \in SUBSET U : k[s] = g[s \cap S] + (IF x \in s THEN d ELSE 0)
  <2>1. g \in [SUBSET S -> Nat] /\ k \in [SUBSET U -> Nat]
    <3>1. \A s \in SUBSET S : g[s] \in Nat /\ k[s] \in Nat
      BY TotalValues
    <3>. QED BY <1>1, <3>1 DEF IsTotal
  <2>. QED BY ONLY <1>2, <1>3, <2>1, TotalCompare, IsTotal(f, S, g), \A y \in S : f[y] \in Nat
<1>5. U \cap S = S /\ S \in SUBSET U /\ U = S
  BY <1>1
<1>6. k[S] = g[S] + 0
  BY <1>1, <1>4, <1>5
<1>7. g[S] \in Nat
  BY <1>5, TotalValues
<1>. QED BY <1>6, <1>7

LEMMA TotalIs ==
  ASSUME NEW S, IsFiniteSet(S), NEW f, \A x \in S : f[x] \in Nat, NEW g, IsTotal(f, S, g)
  PROVE  Total(f, S) = g[S] /\ Total(f, S) \in Nat
<1>1. PICK k : k = CHOOSE r : IsTotal(f, S, r)
  OBVIOUS
<1>2. IsTotal(f, S, k)
  BY <1>1
<1>3. Total(f, S) = k[S]
  BY <1>1 DEF Total
<1>4. k[S] = g[S]
  BY <1>2, TotalUnique
<1>5. g[S] \in Nat
  BY TotalValues
<1>. QED BY <1>3, <1>4, <1>5

\* Elements with 0 that join a set do not change its sum, and one that counts d
\* more, as an old or as a new one, makes it bigger by d.
LEMMA TotalChanges ==
  ASSUME NEW U, IsFiniteSet(U), NEW S, S \subseteq U,
         NEW f, \A y \in S : f[y] \in Nat, NEW e, \A y \in U : e[y] \in Nat,
         NEW x, NEW d \in Nat, Grown(e, U, f, S, x, d)
  PROVE  Total(e, U) = Total(f, S) + (IF x \in U THEN d ELSE 0)
<1>1. IsFiniteSet(S) /\ U \cap S = S
  BY FS_Subset
<1>2. PICK g \in [SUBSET S -> Nat] : IsTotal(f, S, g)
  BY <1>1, TotalExists
<1>3. PICK k \in [SUBSET U -> Nat] : IsTotal(e, U, k)
  BY TotalExists
<1>4. \A s \in SUBSET U : k[s] = g[s \cap S] + (IF x \in s THEN d ELSE 0)
  BY <1>2, <1>3, TotalCompare
<1>5. k[U] = g[S] + (IF x \in U THEN d ELSE 0)
  BY <1>1, <1>4
<1>. QED BY <1>1, <1>2, <1>3, <1>5, TotalIs

\* Only the values of the elements matter.
LEMMA TotalAgrees ==
  ASSUME NEW S, IsFiniteSet(S), NEW f, \A y \in S : f[y] \in Nat, NEW e, \A y \in S : e[y] = f[y]
  PROVE  Total(e, S) = Total(f, S) /\ Total(f, S) \in Nat
<1>1. Grown(e, S, f, S, 0, 0) /\ \A y \in S : e[y] \in Nat
  BY DEF Grown
<1>2. Total(e, S) = Total(f, S) + (IF 0 \in S THEN 0 ELSE 0)
  BY <1>1, TotalChanges
<1>3. Total(f, S) \in Nat
  <2>1. PICK g \in [SUBSET S -> Nat] : IsTotal(f, S, g)
    BY TotalExists
  <2>. QED BY <2>1, TotalIs
<1>. QED BY <1>2, <1>3

LEMMA TotalNone == \A f : Total(f, {}) = 0
<1>. SUFFICES ASSUME NEW f PROVE Total(f, {}) = 0
  OBVIOUS
<1>1. IsFiniteSet({}) /\ {} \in SUBSET {}
  BY FS_EmptySet
<1>2. PICK g \in [SUBSET {} -> Nat] : IsTotal(f, {}, g)
  BY <1>1, TotalExists
<1>3. g[{}] = 0
  BY <1>2, TotalStep
<1>. QED BY <1>1, <1>2, <1>3, TotalIs

\* The sum of the community modules.
LEMMA TotalOf ==
  ASSUME NEW S, IsFiniteSet(S), NEW f, \A x \in S : f[x] \in Nat
  PROVE  MapThenSumSet(LAMBDA x : f[x], S) = Total(f, S)
<1>. DEFINE R(g) == g = [s \in SUBSET S |->
                           IF s = {} THEN 0
                           ELSE f[CHOOSE x \in s : TRUE]
                                  + g[s \ {CHOOSE x \in s : TRUE}]]
            r == CHOOSE g : R(g)
<1>1. MapThenSumSet(LAMBDA x : f[x], S) = r[S]
  BY DEF MapThenSumSet, MapThenFoldSet
<1>2. ASSUME NEW g PROVE R(g) <=> IsTotal(f, S, g)
  BY DEF IsTotal, Summed, First
<1>4. \E g : IsTotal(f, S, g)
  BY TotalExists
<1>. HIDE DEF R
<1>5. R(r)
  BY <1>2, <1>4
<1>. HIDE DEF r
<1>6. IsTotal(f, S, r)
  BY <1>2, <1>5
<1>. QED BY <1>1, <1>6, TotalIs

-----------------------------------------------------------------------------
(* Beat: the three places where it keeps the time of a task's last run.    *)

\* The scheduler starts with nothing sent (schedulers.py, DBScheduler.__init__).
LEMMA InitSound == ASSUME BeatInit PROVE BeatInv
<1>1. BeatTypeOK
  BY DEF Row, Entry, Copy, NoEntry, NoCopy, BeatInit, BeatTypeOK
<1>2. ASSUME NEW t \in Task PROVE Sound(t) /\ Remembered(t)
  BY <1>2 DEF BeatInit, Sound, Remembered, NoEntry, NoCopy, Dirty
<1> QED BY <1>1, <1>2 DEF BeatInv

\* What beat takes over from its session is as new as the row in it.
LEMMA RowHeldType == ASSUME BeatTypeOK, NEW t \in Task
                     PROVE  /\ RowHeld(t) \in Copy /\ AsEntry(RowHeld(t)) \in Entry
                            /\ Counted(RowHeld(t)) \in Copy /\ AsEntry(Counted(RowHeld(t))) \in Entry
  BY DEF BeatTypeOK, RowHeld, AsEntry, Counted, Row, Entry, Copy, Never

\* A beat that ends forgets what it did not commit, and only that.
LEMMA DieSound == ASSUME BeatInv, Die PROVE BeatInv'
<1>1. BeatTypeOK'
  BY DEF BeatInv, BeatTypeOK, Die, Entry, Copy, NoEntry, NoCopy, Never, Dirty
<1>2. ASSUME NEW t \in Task PROVE Sound(t)' /\ Remembered(t)'
  BY <1>2 DEF BeatInv, BeatTypeOK, Die, NoEntry, NoCopy, Dirty, Sound, Remembered, Gone
<1> QED BY <1>1, <1>2 DEF BeatInv

\* Reading the schedule anew keeps what the session holds (get_from_database).
LEMMA RefreshSound == ASSUME BeatInv, Refresh PROVE BeatInv'
<1>1. CASE \E t \in Dirty : Gone(t)
  BY <1>1, DieSound DEF Refresh
<1>2. CASE ~\E t \in Dirty : Gone(t)
  <2>1. /\ locked' = locked \cup Dirty
        /\ copies' = [t \in Task |-> IF periodic[t].state = "there" THEN Counted(RowHeld(t)) ELSE NoCopy]
        /\ entries' = [t \in Task |-> IF periodic[t].state = "there" THEN AsEntry(Counted(RowHeld(t))) ELSE NoEntry]
        /\ UNCHANGED <<clock, periodic, up, sent, forgotten>>
        /\ up
    BY <1>2 DEF Refresh
  <2>2. BeatTypeOK'
    BY <2>1, RowHeldType DEF BeatInv, BeatTypeOK, Entry, Copy, NoEntry, NoCopy, Never, Dirty
  <2>3. ASSUME NEW t \in Task PROVE Sound(t)' /\ Remembered(t)'
    <3>1. CASE periodic[t].state = "there"
      <4>1. copies'[t] = Counted(RowHeld(t)) /\ entries'[t] = AsEntry(Counted(RowHeld(t)))
        BY <2>1, <2>3, <3>1
      <4>2. copies'[t].in /\ entries'[t].last = copies'[t].last /\ entries'[t].in
        BY <4>1 DEF BeatInv, BeatTypeOK, Copy, Row, Counted, RowHeld, AsEntry
      <4>3. Sound(t)'
        BY <2>1, <2>3, <3>1, <4>1, <4>2 DEF BeatInv, BeatTypeOK, Sound, Dirty
      <4>4. Remembered(t)'
        <5> SUFFICES ASSUME sent[t] > 0, t \notin forgotten PROVE Remembered(t)'
          BY <2>1 DEF Remembered
        <5>1. sent[t] = 1 /\ (copies[t].in => copies[t].last = clock) /\ (t \notin Dirty \cup locked => periodic[t].last = clock)
              /\ (t \in Dirty \cup locked => copies[t].in)
          BY <2>3, <3>1 DEF BeatInv, Remembered, Sound, Gone
        <5>2. RowHeld(t).last = clock
          BY <5>1 DEF RowHeld
        <5>3. copies'[t].last = clock
          BY <4>1, <5>2 DEF Counted, RowHeld, BeatInv, BeatTypeOK, Copy, Row
        <5>4. t \notin (Dirty \cup locked)' => periodic'[t].last = clock'
          BY <2>1, <5>1 DEF Dirty
        <5> QED BY <2>1, <4>2, <5>1, <5>3, <5>4 DEF Remembered
      <4> QED BY <4>3, <4>4
    <3>2. CASE periodic[t].state # "there"
      <4>1. copies'[t] = NoCopy /\ entries'[t] = NoEntry
        BY <2>1, <2>3, <3>2
      <4>2. t \notin Dirty /\ t \notin locked
        BY <1>2, <2>3, <3>2 DEF BeatInv, BeatTypeOK, Sound, Dirty, Gone, Row
      <4> QED BY <2>1, <2>3, <3>2, <4>1, <4>2 DEF BeatInv, BeatTypeOK, Sound, Remembered, NoCopy, NoEntry, Dirty, Gone
    <3> QED BY <3>1, <3>2
  <2> QED BY <2>2, <2>3 DEF BeatInv
<1> QED BY <1>1, <1>2

\* What is sent has its run time in the copy and in the entry before
\* (DBScheduleEntry.next).
LEMMA SendSound == ASSUME BeatInv, NEW u \in Task, Send(u) PROVE BeatInv'
<1>1. CASE ~copies[u].in /\ Gone(u)
  BY <1>1, DieSound DEF Send
<1>2. CASE ~(~copies[u].in /\ Gone(u))
  <2>1. /\ copies' = [copies EXCEPT ![u] = [RowHeld(u) EXCEPT !.last = clock, !.dirty = TRUE]]
        /\ entries' = [entries EXCEPT ![u] = [AsEntry(RowHeld(u)) EXCEPT !.last = clock]]
        /\ sent' = sent \/ sent' = [sent EXCEPT ![u] = @ + 1]
        /\ UNCHANGED <<clock, periodic, up, locked, forgotten>>
        /\ up /\ entries[u].in /\ entries[u].last < clock
    BY <1>2 DEF Send
  <2> DEFINE copy == [RowHeld(u) EXCEPT !.last = clock, !.dirty = TRUE]
             entry == [AsEntry(RowHeld(u)) EXCEPT !.last = clock]
  <2>2. copy \in Copy /\ entry \in Entry /\ copy.in /\ copy.last = clock /\ copy.dirty /\ entry.last = clock /\ entry.in
    <3>1. PICK held \in Copy : held = RowHeld(u)
      BY RowHeldType DEF BeatInv
    <3>2. held.in
      BY <3>1 DEF RowHeld, BeatInv, BeatTypeOK, Copy
    <3>3. PICK old \in Entry : old = AsEntry(held) /\ old.in
      BY <3>1, RowHeldType DEF BeatInv, AsEntry
    <3>4. clock \in Nat
      BY DEF BeatInv, BeatTypeOK
    <3>5. [held EXCEPT !.last = clock, !.dirty = TRUE] \in Copy
      BY <3>4 DEF Copy
    <3>6. [old EXCEPT !.last = clock] \in Entry
      BY <3>4 DEF Entry
    <3>7. copy = [held EXCEPT !.last = clock, !.dirty = TRUE] /\ entry = [old EXCEPT !.last = clock]
      BY <3>1, <3>3
    <3> HIDE DEF copy, entry
    <3>8. copy.in /\ copy.last = clock /\ copy.dirty
      BY <3>2, <3>7 DEF Copy
    <3>9. entry.in /\ entry.last = clock
      BY <3>3, <3>7 DEF Entry
    <3> QED BY <3>5, <3>6, <3>7, <3>8, <3>9
  <2>3. copies' = [copies EXCEPT ![u] = copy] /\ entries' = [entries EXCEPT ![u] = entry]
    BY <2>1
  <2> HIDE DEF copy, entry
  <2>4. BeatTypeOK'
    BY <2>1, <2>2, <2>3 DEF BeatInv, BeatTypeOK
  <2>5. ASSUME NEW t \in Task PROVE Sound(t)' /\ Remembered(t)'
    <3>1. CASE t = u
      <4>1. copies'[t] = copy /\ entries'[t] = entry /\ t \in Dirty'
        BY <2>2, <2>3, <2>5, <3>1 DEF BeatInv, BeatTypeOK, Dirty
      <4>2. sent[t] > 0 => t \in forgotten
        BY <2>1, <2>5, <3>1 DEF BeatInv, BeatTypeOK, Remembered, Entry, Never
      <4>3. sent[t] \in Nat /\ sent'[t] \in {sent[t], sent[t] + 1}
        BY <2>1, <2>5, <3>1 DEF BeatInv, BeatTypeOK
      <4>4. periodic[t].state # "new"
        BY <2>1, <2>5, <3>1 DEF BeatInv, Sound
      <4>5. Sound(t)'
        BY <2>1, <2>2, <2>5, <4>1, <4>4 DEF BeatInv, Sound
      <4>6. Remembered(t)'
        BY <2>1, <2>2, <4>1, <4>2, <4>3 DEF Remembered
      <4> QED BY <4>5, <4>6
    <3>2. CASE t # u
      <4>1. copies'[t] = copies[t] /\ entries'[t] = entries[t] /\ sent'[t] = sent[t] /\ (t \in Dirty' <=> t \in Dirty)
        BY <2>1, <2>3, <2>5, <3>2 DEF BeatInv, BeatTypeOK, Dirty
      <4> QED BY <2>1, <2>5, <4>1 DEF BeatInv, Sound, Remembered, Gone
    <3> QED BY <3>1, <3>2
  <2> QED BY <2>4, <2>5 DEF BeatInv
<1> QED BY <1>1, <1>2

\* What is committed is what the session held last (DBScheduler.sync, close).
LEMMA SyncSound == ASSUME BeatInv, NEW stop \in BOOLEAN, Sync(stop) PROVE BeatInv'
<1>1. CASE SyncFails
  BY <1>1, DieSound DEF Sync
<1>2. CASE ~SyncFails
  <2>1. /\ periodic' = [t \in Task |-> Committed(t)]
        /\ copies' = [t \in Task |-> NoCopy] /\ locked' = {}
        /\ up' = ~stop /\ entries' = IF stop THEN [t \in Task |-> NoEntry] ELSE entries
        /\ UNCHANGED <<clock, sent, forgotten>>
        /\ up
    BY <1>2 DEF Sync
  <2>2. ASSUME NEW t \in Task
        PROVE /\ Committed(t) \in Row /\ Committed(t).state = periodic[t].state
              /\ Committed(t).last = IF t \in Dirty \cup locked THEN copies[t].last ELSE periodic[t].last
    BY <2>2 DEF BeatInv, BeatTypeOK, Committed, Row, Copy
  <2>3. NoEntry \in Entry /\ NoCopy \in Copy /\ NoEntry.in = FALSE /\ NoCopy.in = FALSE /\ NoCopy.dirty = FALSE
    BY DEF Entry, Copy, NoEntry, NoCopy
  <2>4. BeatTypeOK'
    BY <2>1, <2>2, <2>3 DEF BeatInv, BeatTypeOK
  <2>5. ASSUME NEW t \in Task PROVE Sound(t)' /\ Remembered(t)'
    <3>1. copies'[t] = NoCopy /\ t \notin Dirty' /\ t \notin locked' /\ periodic'[t] = Committed(t)
      BY <2>1, <2>3, <2>5 DEF Dirty
    <3>2. entries'[t] = entries[t] \/ entries'[t] = NoEntry
      BY <2>1, <2>5
    <3>3. Sound(t)'
      BY <2>1, <2>2, <2>3, <2>5, <3>1, <3>2 DEF BeatInv, Sound
    <3>4. Remembered(t)'
      BY <2>1, <2>2, <2>3, <2>5, <3>1, <3>2 DEF BeatInv, Sound, Remembered, Gone
    <3> QED BY <3>3, <3>4
  <2> QED BY <2>4, <2>5 DEF BeatInv
<1> QED BY <1>1, <1>2

\* Administrators never touch when a task ran (schedule_item, action_run).
LEMMA AdminSound == ASSUME BeatInv, NEW u \in Task, AddTask(u) \/ EditTask(u) \/ DeleteTask(u) PROVE BeatInv'
<1>1. PICK row \in Row :
        /\ periodic' = [periodic EXCEPT ![u] = row] /\ row.state # "new" /\ ~Gone(u)
        /\ periodic[u].state = "new" \/ (row.last = periodic[u].last /\ u \notin locked)
  <2>1. CASE AddTask(u)
    <3>1. PICK on \in BOOLEAN : periodic' = [periodic EXCEPT ![u] = [state |-> "there", on |-> on, last |-> Never]]
      BY <2>1 DEF AddTask
    <3>2. [state |-> "there", on |-> on, last |-> Never] \in Row
      BY DEF Row
    <3> QED BY <2>1, <3>1, <3>2 DEF AddTask, Gone
  <2>2. CASE EditTask(u)
    <3> DEFINE row == [periodic[u] EXCEPT !.on = ~@]
    <3>1. row \in Row /\ row.state = "there" /\ row.last = periodic[u].last
      BY <2>2 DEF EditTask, BeatInv, BeatTypeOK, Row
    <3>2. periodic' = [periodic EXCEPT ![u] = row]
      BY <2>2 DEF EditTask, BeatInv, BeatTypeOK
    <3> QED BY <2>2, <3>1, <3>2 DEF EditTask, Gone
  <2>3. CASE DeleteTask(u)
    <3> DEFINE row == [periodic[u] EXCEPT !.state = "gone"]
    <3>1. row \in Row /\ row.state = "gone" /\ row.last = periodic[u].last
      BY <2>3 DEF DeleteTask, BeatInv, BeatTypeOK, Row
    <3>2. periodic' = [periodic EXCEPT ![u] = row]
      BY <2>3 DEF DeleteTask, BeatInv, BeatTypeOK
    <3> QED BY <2>3, <3>1, <3>2 DEF DeleteTask, Gone
  <2> QED BY <2>1, <2>2, <2>3
<1>2. UNCHANGED <<clock, up, entries, copies, locked, sent, forgotten>>
  BY DEF AddTask, EditTask, DeleteTask
<1>3. BeatTypeOK'
  BY <1>1, <1>2 DEF BeatInv, BeatTypeOK
<1>4. ASSUME NEW t \in Task PROVE Sound(t)' /\ Remembered(t)'
  <2>1. CASE t # u
    BY <1>1, <1>2, <1>4, <2>1 DEF BeatInv, BeatTypeOK, Sound, Remembered, Dirty, Gone
  <2>2. CASE t = u
    <3>1. periodic'[t] = row
      BY <1>1, <2>2 DEF BeatInv, BeatTypeOK
    <3>2. Dirty' = Dirty
      BY <1>2 DEF Dirty
    <3>3. Sound(t) /\ Remembered(t) /\ sent[t] \in Nat
      BY <1>4 DEF BeatInv, BeatTypeOK
    <3>4. Sound(t)'
      BY <1>1, <1>2, <2>2, <3>1, <3>2, <3>3 DEF Sound
    <3>5. Remembered(t)'
      BY <1>1, <1>2, <2>2, <3>1, <3>2, <3>3 DEF Remembered, Sound, Gone
    <3> QED BY <3>4, <3>5
  <2> QED BY <2>1, <2>2
<1> QED BY <1>3, <1>4 DEF BeatInv

\* The strengthened invariant holds of every state that beat, time and the
\* administrators can bring about.
THEOREM BeatInvAlways == BeatSpec => []BeatInv
<1>1. ASSUME BeatInv, [BeatNext]_beatVars PROVE BeatInv'
  <2>1. CASE StartBeat
    <3>1. /\ entries' = [t \in Task |-> NoEntry] /\ copies' = [t \in Task |-> NoCopy] /\ up' = TRUE /\ ~up
          /\ UNCHANGED <<clock, periodic, locked, sent, forgotten>>
      BY <2>1 DEF StartBeat
    <3>2. NoEntry \in Entry /\ NoCopy \in Copy /\ NoEntry.in = FALSE /\ NoCopy.in = FALSE /\ NoCopy.dirty = FALSE
      BY DEF Entry, Copy, NoEntry, NoCopy
    <3>3. BeatTypeOK'
      BY <1>1, <3>1, <3>2 DEF BeatInv, BeatTypeOK
    <3>4. ASSUME NEW t \in Task PROVE Sound(t)' /\ Remembered(t)'
      BY <1>1, <3>1, <3>2, <3>4 DEF BeatInv, Sound, Remembered, Dirty, Gone
    <3> QED BY <3>3, <3>4 DEF BeatInv
  <2>2. CASE KillBeat
    BY <1>1, <2>2, DieSound DEF KillBeat
  <2>3. CASE Refresh
    BY <1>1, <2>3, RefreshSound
  <2>4. ASSUME NEW t \in Task, Send(t) PROVE BeatInv'
    BY <1>1, <2>4, SendSound
  <2>5. ASSUME NEW stop \in BOOLEAN, Sync(stop) PROVE BeatInv'
    BY <1>1, <2>5, SyncSound
  <2>6. CASE Tick
    BY <1>1, <2>6 DEF Tick, BeatInv, BeatTypeOK, Sound, Remembered, Dirty
  <2>7. ASSUME NEW t \in Task, AddTask(t) \/ EditTask(t) \/ DeleteTask(t) PROVE BeatInv'
    BY <1>1, <2>7, AdminSound
  <2>8. CASE UNCHANGED beatVars
    BY <1>1, <2>8 DEF beatVars, BeatInv, BeatTypeOK, Sound, Remembered, Dirty, Gone
  <2> QED BY <1>1, <2>1, <2>2, <2>3, <2>4, <2>5, <2>6, <2>7, <2>8 DEF BeatNext, BeatStep
<1> QED BY <1>1, InitSound, PTL DEF BeatSpec

\* A task is sent at most once in a period, unless beat ended in it without
\* committing when the task ran last (schedulers.py, DBScheduler).
THEOREM SentOncePerDueAlways == BeatSpec => []SentOncePerDue
<1>1. ASSUME BeatInv PROVE SentOncePerDue
  <2>1. ASSUME NEW t \in Task PROVE sent[t] <= 1 \/ t \in forgotten
    BY <1>1, <2>1 DEF BeatInv, BeatTypeOK, Remembered
  <2> QED BY <2>1 DEF SentOncePerDue
<1> QED BY <1>1, BeatInvAlways, PTL

-----------------------------------------------------------------------------
(* Inbox: texts and rows of invalid uReports, counts of unknown systems.   *)

LEMMA InitInbox == ASSUME InboxInit PROVE InboxInv
<1>1. /\ DOMAIN invalids = {} /\ texts = {} /\ DOMAIN strangers = {} /\ incoming = {}
      /\ crossed = {} /\ crowded = {} /\ request = [r \in Request |-> NoRequest]
      /\ cleaner = [c \in Cleaner |-> NoCleaner] /\ strangers = [k \in {} |-> 0]
  BY DEF InboxInit
<1>2. NoRequest \in ARequest /\ NoRequest.pc = "idle" /\ NoCleaner \in ACleaner
  BY DEF NoRequest, ARequest, RequestPc, NoCleaner, ACleaner
<1>3. InboxTypeOK
  BY <1>1, <1>2 DEF InboxTypeOK
<1>4. \A r \in Request : request[r].pc = "idle"
  BY <1>1, <1>2
<1>5. BodyInv /\ SeenInv /\ \A r \in Request : TextInv(r)
  BY <1>1, <1>4 DEF BodyInv, SeenInv, TextInv
<1>6. ASSUME NEW os \in Names PROVE SystemInv(os)
  BY <1>1, <1>4 DEF RowsOfSystem, Tallied, Counting, SystemInv
<1> QED BY <1>3, <1>5, <1>6 DEF InboxInv

\* A step of the request r to pc, in which it keeps what it is about.
Moved(r, pc) ==
  /\ request' \in [Request -> ARequest]
  /\ request'[r].pc = pc
  /\ request'[r].body = request[r].body
  /\ \A q \in Request \ {r} : request'[q] = request[q]

LEMMA ToMoves ==
  ASSUME InboxTypeOK, NEW r \in Request, NEW pc \in RequestPc, To(r, pc)
  PROVE  Moved(r, pc) /\ request'[r].seen = request[r].seen
BY DEF InboxTypeOK, To, Moved, ARequest

LEMMA AnsweredMoves ==
  ASSUME InboxTypeOK, NEW r \in Request, NEW status \in Nat, Answered(r, status)
  PROVE  Moved(r, "done") /\ request'[r].seen = request[r].seen
<1>1. request \in [Request -> ARequest]
  BY DEF InboxTypeOK
<1>2. request[r] \in ARequest /\ DOMAIN request = Request
  BY <1>1
<1>3. /\ request'[r] = [request[r] EXCEPT !.pc = "done", !.status = status]
      /\ \A q \in Request \ {r} : request'[q] = request[q]
      /\ request' = [q \in Request |-> request'[q]]
  BY <1>2 DEF Answered
<1>4. request'[r] \in ARequest
  BY <1>2, <1>3 DEF ARequest, RequestPc
<1>5. /\ request'[r].pc = "done"
      /\ request'[r].body = request[r].body
      /\ request'[r].seen = request[r].seen
  BY <1>2, <1>3 DEF ARequest
<1>6. \A q \in Request : request'[q] \in ARequest
  BY <1>1, <1>3, <1>4
<1> QED BY <1>3, <1>5, <1>6 DEF Moved

LEMMA AfterInvalidMoves ==
  ASSUME InboxTypeOK, NEW r \in Request, AfterInvalid(r)
  PROVE  \E pc \in {"system", "done"} :
           /\ Moved(r, pc) /\ request'[r].seen = request[r].seen
           /\ pc = "system" <=> Stranger(Body(r))
<1>1. CASE Stranger(Body(r))
  BY <1>1, ToMoves DEF AfterInvalid, RequestPc
<1>2. CASE ~Stranger(Body(r))
  BY <1>2, AnsweredMoves DEF AfterInvalid
<1> QED BY <1>1, <1>2

LEMMA BodyKept ==
  ASSUME BodyInv, NEW r \in Request, NEW pc, Moved(r, pc), request[r].pc # "idle",
         pc \in {"system", "count"} => Stranger(Body(r)),
         pc \in {"look up", "file", "answer"} => ~Stranger(Body(r))
  PROVE  BodyInv'
<1> SUFFICES ASSUME NEW q \in Request
             PROVE  /\ request'[q].pc # "idle" => \E b \in Upload : request'[q].body = {b}
                    /\ request'[q].pc \in {"system", "count"} => Stranger(Body(q)')
                    /\ request'[q].pc \in {"look up", "file", "answer"} => ~Stranger(Body(q)')
  BY DEF BodyInv
<1>1. Body(q)' = Body(q)
  BY DEF Moved, Body
<1> QED BY <1>1 DEF Moved, BodyInv

\* What others do with texts and rows is nothing to a request.
LEMMA TextKept ==
  ASSUME NEW r \in Request, TextInv(r), request'[r] = request[r], cleaner' = cleaner,
         r \in DOMAIN invalids' <=> r \in DOMAIN invalids,
         r \in DOMAIN invalids => invalids'[r] = invalids[r],
         r \in texts' <=> r \in texts, r \in crossed => r \in crossed'
  PROVE  TextInv(r)'
<1>1. \A c \in Cleaner : Meets(c, r)' <=> Meets(c, r)
  BY DEF Meets, Matching
<1>2. Cleaning' = Cleaning
  BY DEF Cleaning
<1>3. Settled(r) => Settled(r)'
  BY <1>1 DEF Settled
<1> QED BY <1>2, <1>3 DEF TextInv

\* Steps that neither begin nor end the counting of a system.
LEMMA SystemKept ==
  ASSUME NEW r \in Request, strangers' = strangers, crowded \subseteq crowded',
         \A os \in Names \ crowded : SystemInv(os),
         \A q \in Request \ {r} : request'[q] = request[q],
         request[r].pc \notin {"count", "done"}, request'[r].pc # "count",
         request'[r].pc = "done" => ~Stranger(Body(r)'), SeenInv
  PROVE  SeenInv' /\ \A os \in Names \ crowded' : SystemInv(os)'
<1>1. \A q \in Request \ {r} : Body(q)' = Body(q)
  BY DEF Body
<1>2. \A os : RowsOfSystem(os)' = RowsOfSystem(os)
  BY DEF RowsOfSystem
<1>3. SeenInv'
  BY <1>1, <1>2 DEF SeenInv
<1>4. ASSUME NEW os \in Names \ crowded' PROVE SystemInv(os)'
  <2>1. SystemInv(os)
    BY <1>4
  <2>2. Tallied(os)' = Tallied(os)
    BY <1>1 DEF Tallied
  <2>3. \A q \in Request : Counting(q, os)' <=> Counting(q, os)
    BY <1>1 DEF Counting
  <2>4. \A q \in Request : Counting(q, os) => request'[q].seen = request[q].seen
    BY DEF Counting
  <2> QED BY <2>1, <2>2, <2>3, <2>4, <1>2 DEF SystemInv
<1> QED BY <1>3, <1>4

LEMMA ReceiveInbox ==
  ASSUME InboxInv, NEW r \in Request, NEW b \in Upload, Receive(r, b)
  PROVE  InboxInv'
<1>. DEFINE pc == IF b.form = "scalar" THEN "done" ELSE IF Refused(b) THEN "invalid"
                  ELSE IF b.long THEN "done" ELSE "look up"
            status == IF b.form = "scalar" THEN 500 ELSE IF ~Refused(b) /\ b.long THEN 413 ELSE 0
            new == [NoRequest EXCEPT !.body = {b}, !.pc = pc, !.status = status]
<1>1. /\ request[r].pc = "idle" /\ request' = [request EXCEPT ![r] = new]
      /\ crossed' = IF Cleaning = {} THEN crossed ELSE crossed \cup {r}
      /\ UNCHANGED <<invalids, texts, strangers, incoming, cleaner, crowded>>
  BY DEF Receive
<1>2. InboxTypeOK /\ BodyInv /\ SeenInv
  BY DEF InboxInv
<1>3. pc \in {"invalid", "done", "look up"} /\ status \in Nat
  OBVIOUS
<1>4. pc \in {"done", "look up"} => ~Stranger(b)
  BY DEF Stranger, Refused, Accepted
<1>. HIDE DEF pc, status
<1>5. new \in ARequest /\ new.pc = pc /\ new.body = {b}
  BY <1>3 DEF NoRequest, ARequest, RequestPc
<1>. HIDE DEF new
<1>6. /\ request' \in [Request -> ARequest] /\ request'[r] = new
      /\ \A q \in Request \ {r} : request'[q] = request[q]
  BY <1>1, <1>2, <1>5 DEF InboxTypeOK
<1>7. request'[r].pc = pc /\ request'[r].body = {b} /\ Body(r)' = b
  BY <1>5, <1>6 DEF Body, Only
<1>8. InboxTypeOK'
  BY <1>1, <1>2, <1>6 DEF InboxTypeOK
<1>9. BodyInv'
  BY <1>6, <1>2, <1>3, <1>4, <1>7 DEF Body, BodyInv
<1>10. ASSUME NEW q \in Request PROVE TextInv(q)'
  <2>1. TextInv(q)
    BY DEF InboxInv
  <2>2. CASE q # r
    BY <1>1, <1>6, <2>1, <2>2, TextKept
  <2>3. CASE q = r
    <3>1. r \notin DOMAIN invalids' /\ r \notin texts'
      BY <1>1, <2>1, <2>3 DEF TextInv
    <3>2. r \notin crossed' => Cleaning' = {}
      BY <1>1 DEF Cleaning
    <3>3. Settled(r)'
      BY <3>1 DEF Settled, Meets, Matching
    <3> QED BY <1>3, <1>7, <2>3, <3>1, <3>2, <3>3 DEF TextInv
  <2> QED BY <2>2, <2>3
<1>11. SeenInv' /\ \A os \in Names \ crowded' : SystemInv(os)'
  BY <1>1, <1>2, <1>3, <1>4, <1>6, <1>7, SystemKept DEF InboxInv
<1> QED BY <1>8, <1>9, <1>10, <1>11 DEF InboxInv

\* What every step of a request has to show for itself, unless it counts a system.
LEMMA RequestInbox ==
  ASSUME InboxInv, NEW r \in Request, NEW pc, Moved(r, pc), TextInv(r)',
         request[r].pc \notin {"idle", "count", "done"}, pc # "count",
         pc \in {"system", "done"} => (pc = "system" <=> Stranger(Body(r))),
         pc \in {"look up", "file", "answer"} => ~Stranger(Body(r)),
         DOMAIN invalids' \subseteq DOMAIN invalids \cup {r},
         DOMAIN invalids \subseteq DOMAIN invalids',
         \A q \in Request \ {r} : q \in DOMAIN invalids => invalids'[q] = invalids[q],
         texts \subseteq texts', texts' \subseteq texts \cup {r},
         incoming' \subseteq Request,
         UNCHANGED <<strangers, cleaner, crossed, crowded>>
  PROVE  InboxInv'
<1>1. InboxTypeOK /\ BodyInv /\ SeenInv
  BY DEF InboxInv
<1>2. InboxTypeOK'
  BY <1>1 DEF InboxTypeOK, Moved
<1>3. BodyInv'
  BY <1>1, BodyKept
<1>4. ASSUME NEW q \in Request PROVE TextInv(q)'
  <2>1. CASE q # r
    BY <2>1, TextKept DEF InboxInv, Moved
  <2> QED BY <2>1
<1>5. Body(r)' = Body(r) /\ request'[r].pc = pc
  BY DEF Moved, Body
<1>6. \A q \in Request \ {r} : request'[q] = request[q]
  BY DEF Moved
<1>7. SeenInv' /\ \A os \in Names \ crowded' : SystemInv(os)'
  BY <1>1, <1>5, <1>6, SystemKept DEF InboxInv
<1> QED BY <1>2, <1>3, <1>4, <1>7 DEF InboxInv

LEMMA SaveInvalidInbox ==
  ASSUME InboxInv, NEW r \in Request, SaveInvalid(r) \/ InvalidUnsaved(r)
  PROVE  InboxInv'
<1>1. InboxTypeOK /\ TextInv(r)
  BY DEF InboxInv
<1>2. CASE SaveInvalid(r)
  <2>1. /\ request[r].pc = "invalid" /\ To(r, "text")
        /\ DOMAIN invalids' = DOMAIN invalids \cup {r}
        /\ \A q \in Request \ {r} : q \in DOMAIN invalids => invalids'[q] = invalids[q]
        /\ UNCHANGED <<texts, strangers, incoming, cleaner, crossed, crowded>>
    BY <1>2 DEF SaveInvalid, Put
  <2>2. Moved(r, "text")
    BY <1>1, <2>1, ToMoves DEF RequestPc
  <2>3. TextInv(r)'
    BY <1>1, <2>1, <2>2 DEF TextInv, Moved, Cleaning
  <2>4. incoming' \subseteq Request
    BY <1>1, <2>1 DEF InboxTypeOK
  <2> QED BY <2>1, <2>2, <2>3, <2>4, RequestInbox
<1>3. CASE InvalidUnsaved(r)
  <2>1. /\ request[r].pc = "invalid" /\ AfterInvalid(r)
        /\ UNCHANGED <<invalids, texts, strangers, incoming, cleaner, crossed, crowded>>
    BY <1>3 DEF InvalidUnsaved
  <2>2. PICK pc \in {"system", "done"} : Moved(r, pc) /\ (pc = "system" <=> Stranger(Body(r)))
    BY <1>1, <2>1, AfterInvalidMoves
  <2>3. r \notin DOMAIN invalids' /\ r \notin texts' /\ request'[r].pc = pc
    BY <1>1, <2>1, <2>2 DEF TextInv, Moved
  <2>4. Settled(r)'
    BY <2>3 DEF Settled, Meets, Matching
  <2>5. TextInv(r)'
    BY <1>1, <2>1, <2>3, <2>4 DEF TextInv, Cleaning
  <2>6. incoming' \subseteq Request
    BY <1>1, <2>1 DEF InboxTypeOK
  <2> QED BY <2>1, <2>2, <2>5, <2>6, RequestInbox
<1> QED BY <1>2, <1>3

LEMMA SaveTextInbox ==
  ASSUME InboxInv, NEW r \in Request, ReadId(r) \/ SaveText(r)
  PROVE  InboxInv'
<1>1. InboxTypeOK /\ TextInv(r)
  BY DEF InboxInv
<1>2. CASE ReadId(r) /\ r \in DOMAIN invalids
  <2>1. /\ request[r].pc = "text" /\ To(r, "write")
        /\ UNCHANGED <<invalids, texts, strangers, incoming, cleaner, crossed, crowded>>
    BY <1>2 DEF ReadId
  <2>2. Moved(r, "write")
    BY <1>1, <2>1, ToMoves DEF RequestPc
  <2>3. TextInv(r)'
    BY <1>1, <2>1, <2>2 DEF TextInv, Moved, Cleaning
  <2>4. incoming' \subseteq Request
    BY <1>1, <2>1 DEF InboxTypeOK
  <2> QED BY <2>1, <2>2, <2>3, <2>4, RequestInbox
<1>3. CASE ~(ReadId(r) /\ r \in DOMAIN invalids)
  <2>1. /\ AfterInvalid(r) /\ request[r].pc \in {"text", "write"}
        /\ request[r].pc = "text" => texts' = texts /\ r \notin DOMAIN invalids
        /\ request[r].pc = "write" => texts' = texts \cup {r}
        /\ UNCHANGED <<invalids, strangers, incoming, cleaner, crossed, crowded>>
    BY <1>3 DEF ReadId, SaveText
  <2>2. PICK pc \in {"system", "done"} : Moved(r, pc) /\ (pc = "system" <=> Stranger(Body(r)))
    BY <1>1, <2>1, AfterInvalidMoves
  <2>3. request'[r].pc = pc
    BY <2>2 DEF Moved
  <2>4. r \notin crossed => /\ request[r].pc = "write" /\ r \in DOMAIN invalids' /\ r \in texts'
                            /\ Cleaning = {} /\ Cleaning' = {}
    BY <1>1, <2>1 DEF TextInv, Cleaning
  <2>5. r \notin crossed => Settled(r)'
    BY <2>1, <2>4 DEF Settled, Meets, Cleaning, InboxTypeOK, ACleaner
  <2>6. TextInv(r)'
    BY <2>1, <2>3, <2>4, <2>5 DEF TextInv
  <2>7. incoming' \subseteq Request
    BY <1>1, <2>1 DEF InboxTypeOK
  <2> QED BY <2>1, <2>2, <2>6, <2>7, RequestInbox
<1> QED BY <1>2, <1>3

\* The uReport of a request is known or not.
LEMMA IsKnownType == ASSUME NEW u PROVE IsKnown(u) \in BOOLEAN
BY DEF IsKnown

LEMMA WriteInbox ==
  ASSUME InboxInv, NEW r \in Request, LookUp(r) \/ WriteUReport(r) \/ Answer(r)
  PROVE  InboxInv'
<1>1. InboxTypeOK /\ TextInv(r) /\ BodyInv
  BY DEF InboxInv
<1>2. /\ request[r].pc \in {"look up", "file", "answer"}
      /\ incoming' \subseteq incoming \cup {r}
      /\ UNCHANGED <<invalids, texts, strangers, cleaner, crossed, crowded>>
  BY DEF LookUp, WriteUReport, Answer
<1>3. \E pc \in {"file", "answer", "done"} : Moved(r, pc)
  <2>1. CASE \E status \in Nat : Answered(r, status)
    BY <1>1, <2>1, AnsweredMoves
  <2>2. CASE To(r, "answer")
    BY <1>1, <2>2, ToMoves DEF RequestPc
  <2>3. CASE request' = [request EXCEPT ![r].pc = "file", ![r].known = IsKnown(Body(r).u)]
    <3>1. PICK k \in BOOLEAN : k = IsKnown(Body(r).u)
      BY IsKnownType
    <3>2. request' = [request EXCEPT ![r] = [request[r] EXCEPT !.pc = "file", !.known = k]]
      BY <2>3, <3>1
    <3>3. [request[r] EXCEPT !.pc = "file", !.known = k] \in ARequest
      BY <1>1, ZenonT(40) DEF InboxTypeOK, ARequest, RequestPc
    <3>4. [request[r] EXCEPT !.pc = "file", !.known = k].body = request[r].body
          /\ [request[r] EXCEPT !.pc = "file", !.known = k].pc = "file"
      BY <1>1 DEF InboxTypeOK, ARequest
    <3>5. Moved(r, "file")
      BY <1>1, <3>2, <3>3, <3>4 DEF Moved, InboxTypeOK
    <3> QED BY <3>5
  <2>4. CASE LookUp(r)
    <3>1. Answered(r, 503) \/ request' = [request EXCEPT ![r].pc = "file",
                                                       ![r].known = IsKnown(Body(r).u)]
      BY <2>4 DEF LookUp
    <3>2. 503 \in Nat
      OBVIOUS
    <3> QED BY <2>1, <2>3, <3>1, <3>2
  <2>5. CASE WriteUReport(r)
    BY <2>2, <2>5 DEF WriteUReport
  <2>6. CASE Answer(r)
    BY <2>6, <2>1 DEF Answer
  <2> QED BY <2>4, <2>5, <2>6
<1>4. PICK pc \in {"file", "answer", "done"} : Moved(r, pc)
  BY <1>3
<1>5. ~Stranger(Body(r))
  BY <1>1, <1>2 DEF BodyInv
<1>6. r \notin DOMAIN invalids' /\ r \notin texts' /\ request'[r].pc = pc
  BY <1>1, <1>2, <1>4 DEF TextInv, Moved
<1>7. Settled(r)'
  BY <1>6 DEF Settled, Meets, Matching
<1>8. TextInv(r)'
  BY <1>1, <1>2, <1>6, <1>7 DEF TextInv, Cleaning
<1>9. incoming' \subseteq Request
  BY <1>1, <1>2 DEF InboxTypeOK
<1> QED BY <1>2, <1>4, <1>5, <1>8, <1>9, RequestInbox

\* A request that counts a system reads its row first.
LEMMA FindSystemInbox ==
  ASSUME InboxInv, NEW r \in Request, FindSystem(r)
  PROVE  InboxInv'
<1>. DEFINE os == Body(r).u.os
            peers == {q \in Active \ {r} : request[q].pc = "count" /\ Body(q).u.os = os}
<1>1. PICK seen \in IF RowsOfSystem(os) = {} THEN {{}} ELSE {{<<k, strangers[k]>>} : k \in RowsOfSystem(os)} :
        /\ request[r].pc = "system"
        /\ request' = [request EXCEPT ![r].pc = "count", ![r].seen = seen]
        /\ crowded' = crowded \cup IF peers = {} THEN {} ELSE {os}
        /\ UNCHANGED <<invalids, texts, strangers, incoming, cleaner, crossed>>
  BY DEF FindSystem
<1>2. InboxTypeOK /\ BodyInv /\ SeenInv /\ \A q \in Request : TextInv(q)
  BY DEF InboxInv
<1>3. Stranger(Body(r)) /\ os \in Names
  <2>1. PICK b \in Upload : request[r].body = {b}
    BY <1>1, <1>2 DEF BodyInv
  <2>2. Body(r) = b
    BY <2>1 DEF Body, Only
  <2>. QED BY <1>1, <1>2, <2>2 DEF BodyInv, Names
<1>4. /\ RowsOfSystem(os) = {} => seen = {}
      /\ RowsOfSystem(os) # {} => \E k \in RowsOfSystem(os) : seen = {<<k, strangers[k]>>}
  BY <1>1
<1>5. seen \in SUBSET ((Names \X Request) \X Nat)
  BY <1>2, <1>4 DEF RowsOfSystem, InboxTypeOK
<1>. DEFINE new == [request[r] EXCEPT !.pc = "count", !.seen = seen]
<1>6. new \in ARequest /\ new.pc = "count" /\ new.seen = seen /\ new.body = request[r].body
  BY <1>2, <1>5 DEF InboxTypeOK, ARequest, RequestPc
<1>7. request' = [request EXCEPT ![r] = new]
  BY <1>1
<1>. HIDE DEF new, os, peers
<1>8. Moved(r, "count") /\ request'[r].seen = seen
  BY <1>2, <1>6, <1>7 DEF Moved, InboxTypeOK
<1>9. \A q \in Request : Body(q)' = Body(q)
  BY <1>8 DEF Body, Moved
<1>10. InboxTypeOK'
  BY <1>1, <1>2, <1>3, <1>8 DEF InboxTypeOK, Moved
<1>11. BodyInv'
  BY <1>1, <1>2, <1>3, <1>8, BodyKept
<1>12. ASSUME NEW q \in Request PROVE TextInv(q)'
  <2>1. CASE q # r
    BY <1>8, <2>1, <1>1, <1>2, TextKept DEF Moved
  <2>2. CASE q = r
    BY <1>1, <1>8, <1>2, <2>2 DEF Moved, Cleaning, TextInv
  <2>. QED BY <2>1, <2>2
<1>13. \A o : RowsOfSystem(o)' = RowsOfSystem(o)
  BY <1>1 DEF RowsOfSystem
<1>14. SeenInv'
  <2>. SUFFICES ASSUME NEW q \in Request, request'[q].pc = "count", request'[q].seen # {}
                PROVE  \E x \in request'[q].seen :
                         request'[q].seen = {x} /\ x[1] \in RowsOfSystem(Body(q).u.os)
    BY <1>9, <1>13 DEF SeenInv
  <2>1. CASE q # r
    BY <1>2, <1>8, <2>1 DEF SeenInv, Moved
  <2>2. CASE q = r
    BY <1>4, <1>8, <2>2 DEF os
  <2>. QED BY <2>1, <2>2
<1>15. ASSUME NEW o \in Names \ crowded' PROVE SystemInv(o)'
  <2>1. SystemInv(o)
    BY <1>1, <1>15 DEF InboxInv
  <2>2. Tallied(o)' = Tallied(o)
    BY <1>1, <1>8, <1>9 DEF Tallied, Moved
  <2>3. \A q \in Request \ {r} : (Counting(q, o)' <=> Counting(q, o)) /\ request'[q] = request[q]
    BY <1>8, <1>9 DEF Counting, Moved
  <2>4. Counting(r, o)' <=> o = os
    BY <1>8, <1>9 DEF Counting, Moved, os
  <2>5. CASE o # os
    <3>1. strangers' = strangers
      BY <1>1
    <3>2. \A q \in Request : Counting(q, o)' => Counting(q, o) /\ request'[q] = request[q]
      BY <2>3, <2>4, <2>5
    <3>. QED BY <1>13, <2>1, <2>2, <3>1, <3>2 DEF SystemInv
  <2>6. CASE o = os
    <3>1. peers = {}
      BY <1>1, <1>15, <2>6
    <3>2. \A q \in Request \ {r} : ~Counting(q, o)
      BY <2>6, <3>1 DEF peers, Counting, Active
    <3>3. \A k, l \in RowsOfSystem(o) : k = l
      BY <2>1 DEF SystemInv
    <3>4. seen = {<<k, strangers[k]>> : k \in RowsOfSystem(o)}
      BY <1>4, <2>6, <3>3
    <3>5. /\ RowsOfSystem(o) = {} => Tallied(o) = {}
          /\ \A k \in RowsOfSystem(o) : strangers[k] = Cardinality(Tallied(o))
      BY <2>1 DEF SystemInv
    <3>6. \A q \in Request : Counting(q, o)' => q = r
      BY <2>3, <3>2
    <3>7. {<<k, strangers'[k]>> : k \in RowsOfSystem(o)'} = seen
      BY <1>1, <1>13, <3>4
    <3>8. \A q \in Request : Counting(q, o)' => request'[q].seen = seen
      BY <1>8, <3>6
    <3>9. \A k, l \in RowsOfSystem(o)' : k = l
      BY <1>13, <3>3
    <3>10. \A k \in RowsOfSystem(o)' : strangers'[k] = Cardinality(Tallied(o)')
      BY <1>1, <1>13, <2>2, <3>5
    <3>11. RowsOfSystem(o)' = {} => Tallied(o)' = {}
      BY <1>13, <2>2, <3>5
    <3>. QED BY <3>6, <3>7, <3>8, <3>9, <3>10, <3>11 DEF SystemInv
  <2>. QED BY <2>5, <2>6
<1>. QED BY <1>10, <1>11, <1>12, <1>14, <1>15 DEF InboxInv

\* Counting writes what was read and one more, so a system that one request at a
\* time counts loses none of them.
LEMMA CountSystemInbox ==
  ASSUME InboxInv, IsFiniteSet(Request), NEW r \in Request, CountSystem(r)
  PROVE  InboxInv'
<1>. DEFINE seen == request[r].seen
<1>1. /\ request[r].pc = "count" /\ Answered(r, 400)
      /\ strangers' = IF seen = {} THEN Put(strangers, <<Body(r).u.os, r>>, 1)
                      ELSE [strangers EXCEPT ![Only(seen)[1]] = Only(seen)[2] + 1]
      /\ UNCHANGED <<invalids, texts, incoming, cleaner, crossed, crowded>>
  BY DEF CountSystem
<1>2. InboxTypeOK /\ BodyInv /\ SeenInv /\ \A q \in Request : TextInv(q)
  BY DEF InboxInv
<1>3. Stranger(Body(r)) /\ Body(r).u.os \in Names
  <2>1. PICK b \in Upload : request[r].body = {b}
    BY <1>1, <1>2 DEF BodyInv
  <2>2. Body(r) = b
    BY <2>1 DEF Body, Only
  <2>. QED BY <1>1, <1>2, <2>2 DEF BodyInv, Names
<1>. PICK os \in Names : os = Body(r).u.os
  BY <1>3
<1>4. Moved(r, "done") /\ 400 \in Nat
  BY <1>1, <1>2, AnsweredMoves
<1>5. \A q \in Request : Body(q)' = Body(q)
  BY <1>4 DEF Body, Moved
<1>. DEFINE key == IF seen = {} THEN <<os, r>> ELSE Only(seen)[1]
            value == IF seen = {} THEN 1 ELSE Only(seen)[2] + 1
<1>6. seen # {} => \E x \in seen : seen = {x} /\ x = Only(seen) /\ x[1] \in RowsOfSystem(os)
  <2>. SUFFICES ASSUME seen # {} PROVE \E x \in seen : seen = {x} /\ x = Only(seen) /\ x[1] \in RowsOfSystem(os)
    OBVIOUS
  <2>1. PICK x \in seen : seen = {x} /\ x[1] \in RowsOfSystem(os)
    BY <1>1, <1>2 DEF SeenInv
  <2>2. Only(seen) = x
    BY <2>1 DEF Only
  <2>. QED BY <2>1, <2>2
<1>7. seen \in SUBSET ((Names \X Request) \X Nat)
  BY <1>2 DEF InboxTypeOK, ARequest
<1>8. key \in Names \X Request /\ value \in Nat /\ key[1] = os
      /\ (seen # {} => key \in DOMAIN strangers)
  <2>1. CASE seen = {}
    BY <1>3, <2>1
  <2>2. CASE seen # {}
    BY <1>6, <1>7, <2>2 DEF RowsOfSystem
  <2>. QED BY <2>1, <2>2
<1>9. /\ DOMAIN strangers' = DOMAIN strangers \cup {key}
      /\ strangers'[key] = value
      /\ \A k \in DOMAIN strangers \ {key} : strangers'[k] = strangers[k]
      /\ strangers' \in [DOMAIN strangers' -> Nat]
  <2>1. CASE seen = {}
    <3>1. strangers' = [k \in DOMAIN strangers \cup {key} |-> IF k = key THEN 1 ELSE strangers[k]] /\ value = 1
      BY <1>1, <2>1 DEF Put
    <3>. HIDE DEF key, value
    <3>. QED BY <1>2, <3>1 DEF InboxTypeOK
  <2>2. CASE seen # {}
    <3>1. strangers' = [strangers EXCEPT ![key] = value] /\ key \in DOMAIN strangers
      BY <1>1, <1>8, <2>2
    <3>. HIDE DEF key, value
    <3>. QED BY <1>2, <1>8, <3>1 DEF InboxTypeOK
  <2>. QED BY <2>1, <2>2
<1>10. seen = {} => key = <<os, r>> /\ value = 1
  OBVIOUS
<1>11. seen # {} => seen = {<<key, Only(seen)[2]>>} /\ value = Only(seen)[2] + 1
  BY <1>6, <1>7
<1>. HIDE DEF key, value, seen
<1>12. InboxTypeOK'
  BY <1>1, <1>2, <1>4, <1>8, <1>9 DEF InboxTypeOK, Moved
<1>13. BodyInv'
  BY <1>1, <1>2, <1>4, BodyKept
<1>14. ASSUME NEW q \in Request PROVE TextInv(q)'
  <2>1. CASE q # r
    BY <1>4, <2>1, <1>1, <1>2, TextKept DEF Moved
  <2>2. CASE q = r
    <3>1. request'[r].pc = "done" /\ Cleaning' = Cleaning
      BY <1>1, <1>4 DEF Moved, Cleaning
    <3>2. TextInv(r)
      BY <1>2
    <3>3. r \notin crossed => Settled(r)'
      BY <1>1, <1>2, <3>2, Zenon DEF TextInv, Settled, Meets, Cleaning, InboxTypeOK, ACleaner
    <3>. QED BY <1>1, <2>2, <3>1, <3>3 DEF TextInv
  <2>. QED BY <2>1, <2>2
<1>15. /\ \A o : o # os => RowsOfSystem(o)' = RowsOfSystem(o)
       /\ RowsOfSystem(os)' = RowsOfSystem(os) \cup {key}
       /\ \A o : RowsOfSystem(o) \subseteq RowsOfSystem(o)'
  BY <1>8, <1>9 DEF RowsOfSystem
<1>16. \A q \in Request : request'[q].pc = "count" => q # r /\ request'[q] = request[q]
  BY <1>4 DEF Moved
<1>17. SeenInv'
  <2>. SUFFICES ASSUME NEW q \in Request, request'[q].pc = "count", request'[q].seen # {}
                PROVE  \E x \in request'[q].seen :
                         request'[q].seen = {x} /\ x[1] \in RowsOfSystem(Body(q).u.os)'
    BY DEF SeenInv
  <2>1. request'[q] = request[q] /\ Body(q)' = Body(q)
    BY <1>5, <1>16
  <2>2. PICK x \in request[q].seen : request[q].seen = {x} /\ x[1] \in RowsOfSystem(Body(q).u.os)
    BY <1>2, <2>1 DEF SeenInv
  <2>. PICK o : o = Body(q).u.os
    OBVIOUS
  <2>3. RowsOfSystem(Body(q).u.os)' = RowsOfSystem(o)'
    BY <2>1
  <2>. QED BY <1>15, <2>1, <2>2, <2>3
<1>18. ASSUME NEW o \in Names \ crowded' PROVE SystemInv(o)'
  <2>1. SystemInv(o)
    BY <1>1, <1>18 DEF InboxInv
  <2>2. \A q \in Request : Counting(q, o)' => Counting(q, o) /\ q # r /\ request'[q] = request[q]
    BY <1>5, <1>16 DEF Counting
  <2>3. CASE o # os
    <3>1. Tallied(o)' = Tallied(o)
      BY <1>1, <1>4, <1>5, <2>3 DEF Tallied, Moved
    <3>2. RowsOfSystem(o)' = RowsOfSystem(o)
      BY <1>15, <2>3
    <3>3. \A k \in RowsOfSystem(o) : strangers'[k] = strangers[k]
      BY <1>8, <1>9, <2>3 DEF RowsOfSystem
    <3>. QED BY <2>1, <2>2, <3>1, <3>2, <3>3 DEF SystemInv
  <2>4. CASE o = os
    <3>1. Tallied(o)' = Tallied(o) \cup {r} /\ r \notin Tallied(o)
      BY <1>1, <1>3, <1>4, <1>5, <2>4 DEF Tallied, Moved
    <3>2. Counting(r, o) /\ \A q \in Request : ~Counting(q, o)'
      BY <1>1, <2>4, <2>1, <2>2 DEF Counting, SystemInv
    <3>3. seen = {<<k, strangers[k]>> : k \in RowsOfSystem(o)}
      BY <2>1, <3>2 DEF SystemInv, seen
    <3>4. IsFiniteSet(Tallied(o)) /\ Cardinality(Tallied(o)) \in Nat
          /\ Cardinality(Tallied(o)') = Cardinality(Tallied(o)) + 1
      BY FS_Subset, <3>1, FS_AddElement, FS_CardinalityType DEF Tallied
    <3>5. RowsOfSystem(o)' = {key} /\ value = Cardinality(Tallied(o)')
      <4>1. CASE seen = {}
        <5>1. RowsOfSystem(o) = {}
          BY <3>3, <4>1
        <5>2. Cardinality(Tallied(o)) = 0
          BY <2>1, <5>1, FS_EmptySet DEF SystemInv
        <5>. QED BY <1>10, <1>15, <2>4, <3>4, <4>1, <5>1, <5>2
      <4>2. CASE seen # {}
        <5>1. PICK k \in RowsOfSystem(o) : TRUE
          BY <3>3, <4>2
        <5>2. RowsOfSystem(o) = {k} /\ strangers[k] = Cardinality(Tallied(o))
          BY <2>1, <5>1 DEF SystemInv
        <5>3. seen = {<<k, strangers[k]>>}
          BY <3>3, <5>2
        <5>4. <<key, Only(seen)[2]>> = <<k, strangers[k]>>
          BY <1>11, <4>2, <5>3
        <5>. QED BY <1>11, <1>15, <2>4, <3>4, <4>2, <5>2, <5>4
      <4>. QED BY <4>1, <4>2
    <3>. QED BY <1>9, <3>2, <3>5 DEF SystemInv
  <2>. QED BY <2>3, <2>4
<1>. QED BY <1>12, <1>13, <1>14, <1>17, <1>18 DEF InboxInv

\* Cleaners and time are nothing to requests but for texts and rows.
LEMMA RestKept ==
  ASSUME InboxInv, InboxTypeOK', UNCHANGED <<strangers, request, crowded>>,
         \A r \in Request : TextInv(r)'
  PROVE  InboxInv'
<1>1. \A r : Body(r)' = Body(r)
  BY DEF Body
<1>2. \A os : RowsOfSystem(os)' = RowsOfSystem(os) /\ Tallied(os)' = Tallied(os)
  BY <1>1 DEF RowsOfSystem, Tallied
<1>3. \A r, os : Counting(r, os)' <=> Counting(r, os)
  BY <1>1 DEF Counting
<1>4. BodyInv'
  BY <1>1 DEF InboxInv, BodyInv
<1>5. SeenInv'
  BY <1>1, <1>2 DEF InboxInv, SeenInv
<1>6. ASSUME NEW os \in Names \ crowded' PROVE SystemInv(os)'
  BY <1>6, <1>2, <1>3 DEF InboxInv, SystemInv
<1>. QED BY <1>4, <1>5, <1>6 DEF InboxInv

LEMMA CleanStartInbox ==
  ASSUME InboxInv, NEW c \in Cleaner, NEW old \in BOOLEAN, CleanStart(c, old)
  PROVE  InboxInv'
<1>. DEFINE new == [pc |-> "texts", todo |-> Matching(old), old |-> old]
<1>1. /\ cleaner[c].pc = "idle" /\ cleaner' = [cleaner EXCEPT ![c] = new]
      /\ crossed' = crossed \cup Active
      /\ UNCHANGED <<invalids, texts, strangers, incoming, request, crowded>>
  BY DEF CleanStart
<1>2. InboxTypeOK
  BY DEF InboxInv
<1>3. new \in ACleaner /\ new.pc = "texts" /\ new.todo = Matching(old) /\ new.old = old
  BY <1>2 DEF ACleaner, Matching, InboxTypeOK
<1>. HIDE DEF new
<1>4. cleaner' \in [Cleaner -> ACleaner] /\ cleaner'[c] = new /\ \A d \in Cleaner \ {c} : cleaner'[d] = cleaner[d]
  BY <1>1, <1>2, <1>3 DEF InboxTypeOK
<1>5. InboxTypeOK'
  BY <1>1, <1>2, <1>4 DEF InboxTypeOK, Active
<1>6. ASSUME NEW r \in Request PROVE TextInv(r)'
  <2>1. TextInv(r)
    BY DEF InboxInv
  <2>2. r \notin crossed' => request[r].pc \in {"idle", "done"}
    BY <1>1 DEF Active
  <2>3. ASSUME Settled(r) PROVE Settled(r)'
    BY <1>1, <1>4, <1>3, <2>3 DEF Meets, Matching, Settled
  <2>. QED BY <1>1, <2>1, <2>2, <2>3 DEF TextInv
<1>. QED BY <1>1, <1>5, <1>6, RestKept

\* A text goes before its row, so a row without one is a row that goes.
LEMMA CleanTextInbox ==
  ASSUME InboxInv, NEW c \in Cleaner, CleanText(c)
  PROVE  InboxInv'
<1>1. PICK t \in cleaner[c].todo :
        /\ cleaner[c].pc = "texts" /\ texts' = texts \ {t}
        /\ cleaner' = [cleaner EXCEPT ![c].todo = @ \ {t}]
        /\ UNCHANGED <<invalids, strangers, incoming, request, crossed, crowded>>
  BY DEF CleanText
<1>2. InboxTypeOK
  BY DEF InboxInv
<1>3. /\ cleaner' \in [Cleaner -> ACleaner] /\ cleaner'[c].todo = cleaner[c].todo \ {t}
      /\ cleaner'[c].pc = cleaner[c].pc /\ cleaner'[c].old = cleaner[c].old
      /\ \A d \in Cleaner \ {c} : cleaner'[d] = cleaner[d]
  BY <1>1, <1>2 DEF InboxTypeOK, ACleaner
<1>4. InboxTypeOK'
  BY <1>1, <1>2, <1>3 DEF InboxTypeOK
<1>5. ASSUME NEW r \in Request PROVE TextInv(r)'
  <2>1. TextInv(r)
    BY DEF InboxInv
  <2>2. \A d \in Cleaner : Meets(d, r)' <=> Meets(d, r)
    BY <1>1, <1>3 DEF Meets, Matching
  <2>3. Cleaning # {}
    BY <1>1 DEF Cleaning
  <2>4. ASSUME Settled(r) PROVE Settled(r)'
    <3>1. CASE r # t
      BY <1>1, <1>3, <2>2, <2>4, <3>1 DEF Settled
    <3>2. CASE r = t
      BY <1>1, <2>4, <3>2, <1>3, <2>2 DEF Settled
    <3>. QED BY <3>1, <3>2
  <2>. QED BY <1>1, <2>1, <2>3, <2>4 DEF TextInv
<1>. QED BY <1>1, <1>4, <1>5, RestKept

LEMMA CleanRowsInbox ==
  ASSUME InboxInv, NEW c \in Cleaner, CleanRows(c)
  PROVE  InboxInv'
<1>1. /\ cleaner[c].pc = "texts" /\ cleaner[c].todo = {}
      /\ invalids' = [r \in DOMAIN invalids \ Matching(cleaner[c].old) |-> invalids[r]]
      /\ cleaner' = [cleaner EXCEPT ![c] = NoCleaner]
      /\ UNCHANGED <<texts, strangers, incoming, request, crossed, crowded>>
  BY DEF CleanRows
<1>2. InboxTypeOK
  BY DEF InboxInv
<1>3. NoCleaner \in ACleaner /\ NoCleaner.pc = "idle"
  BY DEF NoCleaner, ACleaner
<1>4. /\ cleaner' \in [Cleaner -> ACleaner] /\ cleaner'[c].pc = "idle"
      /\ \A d \in Cleaner \ {c} : cleaner'[d] = cleaner[d]
  BY <1>1, <1>2, <1>3 DEF InboxTypeOK
<1>5. InboxTypeOK'
  BY <1>1, <1>2, <1>4 DEF InboxTypeOK
<1>6. ASSUME NEW r \in Request PROVE TextInv(r)'
  <2>1. TextInv(r)
    BY DEF InboxInv
  <2>2. Cleaning # {}
    BY <1>1 DEF Cleaning
  <2>3. ASSUME Settled(r) PROVE Settled(r)'
    <3>1. CASE Meets(c, r)
      BY <1>1, <2>3, <3>1 DEF Settled, Meets, Matching
    <3>2. CASE ~Meets(c, r)
      <4>1. /\ r \in DOMAIN invalids' <=> r \in DOMAIN invalids
            /\ r \in DOMAIN invalids => invalids'[r] = invalids[r]
        BY <1>1, <3>2 DEF Meets
      <4>2. \A d \in Cleaner \ {c} : Meets(d, r)' <=> Meets(d, r)
        BY <1>4, <4>1 DEF Meets, Matching
      <4>3. ~Meets(c, r)'
        BY <1>4 DEF Meets
      <4>. QED BY <1>1, <1>4, <2>3, <3>2, <4>1, <4>2, <4>3 DEF Settled
    <3>. QED BY <3>1, <3>2
  <2>. QED BY <1>1, <2>1, <2>2, <2>3 DEF TextInv
<1>. QED BY <1>1, <1>5, <1>6, RestKept

LEMMA CleanKilledInbox ==
  ASSUME InboxInv, NEW c \in Cleaner, CleanKilled(c)
  PROVE  InboxInv'
<1>1. /\ cleaner[c].pc = "texts" /\ cleaner' = [cleaner EXCEPT ![c] = NoCleaner]
      /\ crossed' = crossed \cup DOMAIN invalids
      /\ UNCHANGED <<invalids, texts, strangers, incoming, request, crowded>>
  BY DEF CleanKilled
<1>2. InboxTypeOK
  BY DEF InboxInv
<1>3. NoCleaner \in ACleaner
  BY DEF NoCleaner, ACleaner
<1>4. InboxTypeOK'
  BY <1>1, <1>2, <1>3 DEF InboxTypeOK
<1>5. ASSUME NEW r \in Request PROVE TextInv(r)'
  <2>1. TextInv(r)
    BY DEF InboxInv
  <2>2. Cleaning # {}
    BY <1>1 DEF Cleaning
  <2>3. ASSUME Settled(r), r \notin crossed' PROVE Settled(r)'
    BY <1>1, <2>3 DEF Settled, Meets, Matching
  <2>. QED BY <1>1, <2>1, <2>2, <2>3 DEF TextInv
<1>. QED BY <1>1, <1>4, <1>5, RestKept

LEMMA AgeInbox == ASSUME InboxInv, Age PROVE InboxInv'
<1>1. /\ Cleaning = {} /\ DOMAIN invalids' = DOMAIN invalids
      /\ UNCHANGED <<texts, strangers, incoming, request, cleaner, crossed, crowded>>
  BY DEF Age
<1>2. InboxTypeOK
  BY DEF InboxInv
<1>3. InboxTypeOK'
  BY <1>1, <1>2 DEF InboxTypeOK
<1>4. \A c \in Cleaner : cleaner[c].pc # "texts"
  BY <1>1 DEF Cleaning
<1>5. ASSUME NEW r \in Request PROVE TextInv(r)'
  BY <1>1, <1>4 DEF InboxInv, Cleaning, Settled, Meets, TextInv
<1>. QED BY <1>1, <1>3, <1>5, RestKept

LEMMA NextInbox ==
  ASSUME InboxInv, IsFiniteSet(Request), [Next]_vars
  PROVE  InboxInv'
<1>1. ASSUME NEW r \in Request, RequestStep(r) PROVE InboxInv'
  BY <1>1, SaveInvalidInbox, SaveTextInbox, FindSystemInbox, CountSystemInbox, WriteInbox DEF RequestStep
<1>2. ASSUME NEW r \in Request, NEW b \in Upload, Receive(r, b) PROVE InboxInv'
  BY <1>2, ReceiveInbox
<1>3. ASSUME NEW c \in Cleaner, CleanerStep(c) PROVE InboxInv'
  BY <1>3, CleanTextInbox, CleanRowsInbox, CleanKilledInbox DEF CleanerStep
<1>4. ASSUME NEW c \in Cleaner, NEW old \in BOOLEAN, CleanStart(c, old) PROVE InboxInv'
  BY <1>4, CleanStartInbox
<1>5. CASE Serve
  BY <1>1, <1>2, <1>3, <1>4, <1>5, AgeInbox DEF Serve
<1>6. CASE UNCHANGED inboxVars
  <2>1. UNCHANGED <<strangers, request, crowded, invalids, texts, incoming, cleaner, crossed>>
    BY <1>6 DEF inboxVars
  <2>2. InboxTypeOK'
    BY <2>1 DEF InboxInv, InboxTypeOK
  <2>3. ASSUME NEW r \in Request PROVE TextInv(r)'
    BY <2>1, TextKept DEF InboxInv
  <2>. QED BY <2>1, <2>2, <2>3, RestKept
<1>7. Next => Serve \/ UNCHANGED inboxVars
  <2>1. ASSUME NEW t \in Attacher, AttachStart(t) \/ AttachStep(t) \/ AttachKilled(t)
        PROVE  UNCHANGED laterVars
    BY <2>1, Zenon DEF AttachStart, AttachKilled, AttachStep, AttachNext, AttachLookUp, AttachNote, AttachContact,
                AttachLink, AttachMove, Dies
  <2>2. ASSUME NEW a \in Attachment, Attach(a) \/ EraseContact(Says[a].data)
        PROVE  UNCHANGED laterVars
    BY <2>2 DEF Attach, EraseContact
  <2>3. FileAway => UNCHANGED inboxVars
    BY <2>1, <2>2 DEF FileAway, laterVars
  <2>. QED BY <2>3 DEF Next, webVars
<1>. QED BY <1>5, <1>6, <1>7 DEF vars

\* The sum over one row is its count.
LEMMA OneRow ==
  ASSUME NEW k \in DOMAIN strangers, strangers[k] \in Nat
  PROVE  MapThenSumSet(LAMBDA l : strangers[l], {k}) = strangers[k]
<1>. DEFINE S == {k}
            body(g) == [s \in SUBSET S |-> IF s = {} THEN 0
                                           ELSE strangers[CHOOSE x \in s : TRUE] + g[s \ {CHOOSE x \in s : TRUE}]]
            iter == CHOOSE g : g = body(g)
            f == [s \in SUBSET S |-> IF s = {} THEN 0 ELSE strangers[k]]
<1>1. MapThenSumSet(LAMBDA l : strangers[l], S) = iter[S]
  BY DEF MapThenSumSet, MapThenFoldSet
<1>2. SUBSET S = {{}, S} /\ (CHOOSE x \in S : TRUE) = k /\ S # {} /\ S \ {k} = {}
  OBVIOUS
<1>3. ASSUME NEW g, g[{}] = 0 PROVE body(g) = f
  <2>1. ASSUME NEW s \in SUBSET S PROVE body(g)[s] = f[s]
    <3>1. CASE s = {}
      BY <3>1
    <3>2. CASE s = S
      BY <1>2, <1>3, <3>2
    <3>. QED BY <1>2, <3>1, <3>2
  <2>. QED BY <2>1
<1>4. f = body(f)
  <2>1. f[{}] = 0
    BY <1>2
  <2>. HIDE DEF f
  <2>. QED BY <1>3, <2>1
<1>5. iter = body(iter)
  <2>. HIDE DEF body, f
  <2>. QED BY <1>4
<1>6. iter[{}] = 0
  <2>1. body(iter)[{}] = 0
    BY <1>2
  <2>. HIDE DEF iter, body
  <2>. QED BY <1>5, <2>1
<1>7. iter = f
  <2>. HIDE DEF iter, body, f
  <2>. QED BY <1>3, <1>5, <1>6
<1>8. f[S] = strangers[k]
  BY <1>2
<1>. HIDE DEF iter, f
<1>. QED BY <1>1, <1>7, <1>8

\* The strengthened invariant holds of every state of the server.
THEOREM InboxInvAlways ==
  ASSUME IsFiniteSet(Request) PROVE Spec => []InboxInv
<1>1. Init => InboxInv
  BY InitInbox DEF Init
<1>2. InboxInv /\ [Next]_vars => InboxInv'
  BY NextInbox
<1>. QED BY <1>1, <1>2, PTL DEF Spec

\* The row of an answered request has its text and the text its row, and the rows
\* of an unknown system add up to the uploads that named it (webfaf/reports.py,
\* new; delete_invalid_ureports.py, run), for any finite number of requests.
THEOREM InboxAddsUpAlways ==
  ASSUME IsFiniteSet(Request) PROVE Spec => []InboxAddsUp
<1>1. ASSUME InboxInv PROVE InboxAddsUp
  <2>1. ASSUME NEW r \in Request \ crossed, request[r].pc = "done",
               \A c \in Cleaner : cleaner[c].pc # "texts" \/ r \notin Matching(cleaner[c].old)
        PROVE  r \in texts <=> r \in DOMAIN invalids
    BY <1>1, <2>1 DEF InboxInv, TextInv, Settled, Meets
  <2>2. ASSUME NEW os \in {k[1] : k \in DOMAIN strangers} \ crowded
        PROVE  MapThenSumSet(LAMBDA k : strangers[k], RowsOfSystem(os)) = Cardinality(Tallied(os))
    <3>1. PICK k \in DOMAIN strangers : k[1] = os
      BY <2>2
    <3>2. os \in Names /\ strangers[k] \in Nat
      BY <1>1, <3>1 DEF InboxInv, InboxTypeOK
    <3>3. SystemInv(os)
      BY <1>1, <2>2, <3>2 DEF InboxInv
    <3>4. RowsOfSystem(os) = {k} /\ strangers[k] = Cardinality(Tallied(os))
      BY <3>1, <3>3 DEF SystemInv, RowsOfSystem
    <3>5. MapThenSumSet(LAMBDA l : strangers[l], {k}) = strangers[k]
      BY <3>2, OneRow
    <3>. QED BY <3>4, <3>5
  <2>. QED BY <2>1, <2>2 DEF InboxAddsUp, Tallied
<1>. QED BY <1>1, InboxInvAlways, PTL

-----------------------------------------------------------------------------
(* The attachments: what a file in the hands of a process still claims.    *)

\* Only t acts.
Acts(t) ==
  /\ attacher' \in [Attacher -> AnAttacher]
  /\ \A s \in Attacher \ {t} : attacher'[s] = attacher[s]

LEMMA OnlyOf == ASSUME NEW a PROVE Only({a}) = a
BY DEF Only

\* Nobody is at work on a file and nothing is stored (save_reports.py, run).
LEMMA InitAttach == ASSUME AttachInit PROVE AttachInv
<1>1. /\ filed = [a \in Attachment |-> "none"] /\ DOMAIN notes = {} /\ contacts = <<>>
      /\ \A t \in Attacher : attacher[t].pc = "idle" /\ attacher[t].at = {}
      /\ again = {} /\ doubled = {}
  BY DEF AttachInit, NoAttacher
<1>2. AttachTypeOK
  BY <1>1 DEF AttachInit, NoAttacher, AnAttacher, AttacherPc, AttachTypeOK, Place
<1>3. \A t \in Attacher, a \in Attachment : ~Held(t, a)
  BY <1>1 DEF Held
<1>4. \A t \in Attacher : HeldInv(t)
  BY <1>1, <1>3 DEF HeldInv
<1>5. \A a \in Attachment : /\ ~Toward(a, "saved", "to saved")
                            /\ ~Toward(a, "deferred", "to deferred")
  BY <1>1, <1>3 DEF Toward
<1>6. \A a \in Attachment : OnceInv(a) /\ PlaceInv(a)
  BY <1>3, <1>5 DEF OnceInv, PlaceInv
<1>7. ASSUME NEW k PROVE CommentInv(k)
  BY <1>1, <1>5, FS_EmptySet DEF Noted, Count, CommentInv
<1>8. \A w : WriterInv(w)
  BY <1>1, <1>3 DEF WriterInv, Writing, ContactsOf
<1>. QED BY <1>1, <1>2, <1>4, <1>6, <1>7, <1>8 DEF AttachInv

LEMMA HeldFile ==
  ASSUME AttachInv, NEW t \in Attacher, attacher[t].pc \notin {"idle", "next"}
  PROVE  \E a \in Attachment : Held(t, a) /\ attacher[t].at = {a} /\ File(t) = a /\ Attached(t) = Says[a]
<1>1. PICK a \in Attachment : Held(t, a)
  BY DEF AttachInv, HeldInv
<1>2. attacher[t].at = {a}
  BY <1>1 DEF Held
<1>3. File(t) = a
  BY <1>2, OnlyOf DEF File
<1>. QED BY <1>1, <1>2, <1>3 DEF Attached

\* What a file is about and where it is heading, when t acts and the files stay.
LEMMA TowardKept ==
  ASSUME NEW t \in Attacher, Acts(t), filed' = filed, NEW a \in Attachment, NEW place, NEW pc,
         attacher[t].pc # pc, attacher'[t].pc # pc
  PROVE  Toward(a, place, pc)' <=> Toward(a, place, pc)
BY DEF Acts, Toward, Held

LEMMA NotedKept ==
  ASSUME NEW k, \A a \in Attachment : Key(a) = k =>
           (Toward(a, "saved", "to saved")' <=> Toward(a, "saved", "to saved"))
  PROVE  Noted(k)' = Noted(k)
BY DEF Noted, Key

\* Writers leave, and more is known to have been looked up by two.
LEMMA WritersLeave ==
  ASSUME NEW w, WriterInv(w), \A s \in Attacher : Writing(s, w)' => Writing(s, w),
         UNCHANGED <<notes, contacts>>, doubled \subseteq doubled'
  PROVE  WriterInv(w)'
BY DEF WriterInv, ContactsOf

LEMMA WritingKept ==
  ASSUME NEW t \in Attacher, Acts(t), attacher'[t].pc # "write", NEW w, NEW s \in Attacher, Writing(s, w)'
  PROVE  Writing(s, w)
BY DEF Acts, Writing, Held

LEMMA HeldKept ==
  ASSUME AttachInv, NEW t \in Attacher, Acts(t), contacts' = contacts, HeldInv(t)'
  PROVE  \A s \in Attacher : HeldInv(s)'
<1>. SUFFICES ASSUME NEW s \in Attacher, s # t PROVE HeldInv(s)'
  OBVIOUS
<1>1. attacher'[s] = attacher[s] /\ HeldInv(s)
  BY DEF Acts, AttachInv
<1>. QED BY <1>1 DEF HeldInv, Held

LEMMA WithActs ==
  ASSUME AttachTypeOK, NEW t \in Attacher, NEW pc \in AttacherPc, attacher' = With(t, pc)
  PROVE  /\ Acts(t)
         /\ attacher'[t].pc = pc /\ attacher'[t].at = attacher[t].at
         /\ attacher'[t].contact = attacher[t].contact
<1>1. attacher \in [Attacher -> AnAttacher] /\ attacher' = [attacher EXCEPT ![t].pc = pc]
  BY DEF AttachTypeOK, With
<1>2. attacher[t] \in AnAttacher /\ attacher'[t] = [attacher[t] EXCEPT !.pc = pc]
  BY <1>1
<1>3. attacher'[t] \in AnAttacher
  BY <1>2 DEF AnAttacher
<1>4. \A s \in Attacher \ {t} : attacher'[s] = attacher[s]
  BY <1>1
<1>5. attacher' \in [Attacher -> AnAttacher]
  BY <1>1, <1>3, <1>4
<1>6. attacher'[t].pc = pc /\ attacher'[t].at = attacher[t].at /\ attacher'[t].contact = attacher[t].contact
  BY <1>2 DEF AnAttacher
<1>. QED BY <1>4, <1>5, <1>6 DEF Acts

LEMMA PutActs ==
  ASSUME AttachTypeOK, NEW t \in Attacher, NEW x \in AnAttacher, attacher' = [attacher EXCEPT ![t] = x]
  PROVE  Acts(t) /\ attacher'[t] = x
BY DEF AttachTypeOK, Acts

LEMMA NobodyTyped ==
  ASSUME NEW pc \in AttacherPc, NEW left \in SUBSET Attachment, NEW at \in SUBSET Attachment
  PROVE  /\ [NoAttacher EXCEPT !.left = left, !.at = at, !.pc = pc] \in AnAttacher
         /\ [NoAttacher EXCEPT !.pc = pc, !.left = left] \in AnAttacher
         /\ NoAttacher \in AnAttacher
BY DEF NoAttacher, AnAttacher, AttacherPc

\* The web application writes a file (webfaf/reports.py, attach).
LEMMA AttachAttach == ASSUME AttachInv, NEW a \in Attachment, Attach(a) PROVE AttachInv'
<1>1. /\ filed[a] = "none" /\ filed' = [filed EXCEPT ![a] = "incoming"]
      /\ UNCHANGED <<notes, contacts, links, attacher, excused, again, doubled>>
  BY DEF Attach
<1>2. AttachTypeOK /\ filed' \in [Attachment -> Place]
  BY <1>1 DEF AttachInv, AttachTypeOK, Place
<1>3. AttachTypeOK'
  BY <1>1, <1>2 DEF AttachTypeOK
<1>4. \A t \in Attacher : HeldInv(t)'
  BY <1>1 DEF AttachInv, HeldInv, Held
<1>5. \A b \in Attachment : OnceInv(b)'
  BY <1>1, <1>2 DEF AttachInv, AttachTypeOK, OnceInv, Held
<1>6. \A b \in Attachment : /\ Toward(b, "saved", "to saved")' <=> Toward(b, "saved", "to saved")
                            /\ Toward(b, "deferred", "to deferred")' <=> Toward(b, "deferred", "to deferred")
  BY <1>1, <1>2 DEF AttachTypeOK, Toward, Held
<1>7. \A b \in Attachment : PlaceInv(b)'
  BY <1>1, <1>6, Zenon DEF AttachInv, PlaceInv, Kept, ContactKept, ContactsOf
<1>8. ASSUME NEW b \in Attachment PROVE CommentInv(Key(b))'
  BY <1>6, NotedKept, <1>1 DEF AttachInv, CommentInv, Count
<1>9. \A w \in Subject : WriterInv(w)'
  BY <1>1 DEF AttachInv, WriterInv, Writing, Held, ContactsOf
<1>. QED BY <1>1, <1>3, <1>4, <1>5, <1>7, <1>8, <1>9 DEF AttachInv

\* A process lets go of what it has in hand, or takes nothing.
LetGo(t) ==
  /\ Acts(t)
  /\ attacher'[t].pc \in {"idle", "next"} /\ attacher'[t].at = {}
  /\ again \cup attacher[t].at \subseteq again' /\ again' \subseteq Attachment
  /\ UNCHANGED <<filed, notes, contacts, links, excused, doubled>>
LEMMA LetGoAttach == ASSUME AttachInv, NEW t \in Attacher, LetGo(t) PROVE AttachInv'
<1>. USE DEF LetGo
<1>1. AttachTypeOK'
  BY DEF AttachInv, AttachTypeOK, Acts
<1>2. \A s \in Attacher : HeldInv(s)'
  BY HeldKept DEF HeldInv, Held
<1>3. \A b \in Attachment : OnceInv(b)'
  BY DEF AttachInv, OnceInv, Held, Acts
<1>4. \A b \in Attachment : /\ Toward(b, "saved", "to saved")' => Toward(b, "saved", "to saved")
                            /\ Toward(b, "deferred", "to deferred")' => Toward(b, "deferred", "to deferred")
                            /\ b \notin again' /\ Toward(b, "saved", "to saved") => Toward(b, "saved", "to saved")'
  BY DEF Toward, Held, Acts
<1>5. \A b \in Attachment : PlaceInv(b)'
  BY <1>4 DEF AttachInv, PlaceInv, Kept, ContactKept, ContactsOf
<1>6. ASSUME NEW b \in Attachment PROVE CommentInv(Key(b))'
  <2>1. CASE \E c \in again' : Key(c) = Key(b)
    BY <2>1 DEF CommentInv, Key
  <2>2. CASE ~ \E c \in again' : Key(c) = Key(b)
    BY <2>2, <1>4, NotedKept DEF AttachInv, CommentInv, Count
  <2>. QED BY <2>1, <2>2
<1>7. ASSUME NEW w \in Subject PROVE WriterInv(w)'
  BY WritingKept, WritersLeave DEF AttachInv
<1>. QED BY <1>1, <1>2, <1>3, <1>5, <1>6, <1>7 DEF AttachInv

\* A process that starts, ends, dies of a text, or finds a file gone lets go.
LEMMA StartAttach == ASSUME AttachInv, NEW t \in Attacher, AttachStart(t) PROVE AttachInv'
<1>. DEFINE x == [NoAttacher EXCEPT !.pc = "next", !.left = Waiting]
<1>1. x \in AnAttacher /\ x.pc = "next" /\ x.at = {}
  <2>1. Waiting \in SUBSET Attachment /\ "next" \in AttacherPc
    BY DEF Waiting, AttacherPc
  <2>2. x \in AnAttacher
    BY <2>1, NobodyTyped, Zenon
  <2>. QED BY <2>2 DEF NoAttacher
<1>2. attacher' = [attacher EXCEPT ![t] = x] /\ AttachTypeOK
  BY DEF AttachStart, AttachInv
<1>3. attacher[t].at = {}
  BY DEF AttachInv, HeldInv, AttachStart
<1>4. UNCHANGED <<filed, notes, contacts, links, excused, doubled>> /\ again' = again /\ again \subseteq Attachment
  BY DEF AttachStart, AttachInv
<1>. HIDE DEF x
<1>5. Acts(t) /\ attacher'[t] = x
  BY <1>1, <1>2, PutActs
<1>. QED BY <1>1, <1>3, <1>4, <1>5, LetGoAttach DEF LetGo

LEMMA KilledAttach ==
  ASSUME AttachInv, NEW t \in Attacher, AttachKilled(t) \/ Dies(t) PROVE AttachInv'
<1>1. attacher' = [attacher EXCEPT ![t] = NoAttacher] /\ AttachTypeOK /\ NoAttacher \in AnAttacher
  <2>1. "idle" \in AttacherPc
    BY DEF AttacherPc
  <2>2. NoAttacher \in AnAttacher
    BY <2>1, NobodyTyped, Zenon
  <2>. QED BY <2>2 DEF AttachKilled, Dies, AttachInv
<1>2. UNCHANGED <<filed, notes, contacts, links, excused, doubled>>
  BY DEF AttachKilled, Dies
<1>3. again' = again \cup attacher[t].at /\ again' \subseteq Attachment
  <2>1. attacher[t].at \subseteq Attachment /\ again \subseteq Attachment
    BY DEF AttachInv, AttachTypeOK, AnAttacher
  <2>2. CASE AttachKilled(t)
    BY <2>1, <2>2 DEF AttachKilled
  <2>3. CASE Dies(t)
    <3>1. PICK a \in Attachment : attacher[t].at = {a} /\ File(t) = a
      BY <2>3, HeldFile DEF Dies
    <3>. QED BY <2>1, <2>3, <3>1 DEF Dies
  <2>. QED BY <2>2, <2>3
<1>4. Acts(t) /\ attacher'[t] = NoAttacher
  BY <1>1, PutActs
<1>. QED BY <1>2, <1>3, <1>4, LetGoAttach DEF LetGo, NoAttacher

\* The next file is taken up, again if somebody else has it in hand
\* (save_reports.py, run: the files were listed before).
LEMMA TakenAttach ==
  ASSUME AttachInv, NEW t \in Attacher, NEW a \in Attachment, attacher[t].pc = "next", Acts(t),
         attacher'[t].pc = "look up", attacher'[t].at = {a}, filed[a] = "incoming",
         again' = again \cup (IF \E s \in Attacher : a \in attacher[s].at THEN {a} ELSE {}),
         UNCHANGED <<filed, notes, contacts, links, excused, doubled>>
  PROVE  AttachInv'
<1>1. AttachTypeOK' /\ again' \subseteq Attachment
  BY DEF AttachInv, AttachTypeOK, Acts
<1>2. attacher[t].at = {}
  BY DEF AttachInv, HeldInv
<1>3. \A s \in Attacher : HeldInv(s)'
  BY HeldKept DEF HeldInv, Held
<1>4. \A b \in Attachment : OnceInv(b)'
  <2>1. ASSUME a \notin again' PROVE \A s \in Attacher : ~Held(s, a)
    BY <2>1 DEF Held
  <2>2. \A s \in Attacher \ {t}, b \in Attachment : Held(s, b)' <=> Held(s, b)
    BY DEF Held, Acts
  <2>3. \A b \in Attachment : Held(t, b)' <=> b = a
    BY DEF Held
  <2>4. OnceInv(a)'
    BY <2>1, <2>2 DEF OnceInv
  <2>5. ASSUME NEW b \in Attachment, b # a PROVE OnceInv(b)'
    BY <2>2, <2>3, <2>5 DEF AttachInv, OnceInv
  <2>. QED BY <2>4, <2>5
<1>5. \A b \in Attachment : /\ Toward(b, "saved", "to saved")' <=> Toward(b, "saved", "to saved")
                            /\ Toward(b, "deferred", "to deferred")' <=> Toward(b, "deferred", "to deferred")
  BY TowardKept
<1>6. \A b \in Attachment : PlaceInv(b)'
  BY <1>5 DEF AttachInv, PlaceInv, Kept, ContactKept, ContactsOf
<1>7. ASSUME NEW b \in Attachment PROVE CommentInv(Key(b))'
  BY <1>5, NotedKept DEF AttachInv, CommentInv, Count
<1>8. ASSUME NEW w \in Subject PROVE WriterInv(w)'
  BY WritingKept, WritersLeave DEF AttachInv
<1>. QED BY <1>1, <1>3, <1>4, <1>6, <1>7, <1>8 DEF AttachInv

LEMMA NextAttach == ASSUME AttachInv, NEW t \in Attacher, AttachNext(t) PROVE AttachInv'
<1>1. /\ attacher[t].pc = "next" /\ attacher[t].at = {} /\ AttachTypeOK
      /\ UNCHANGED <<filed, notes, contacts, links, excused, doubled>>
      /\ again \subseteq Attachment /\ attacher[t].left \subseteq Attachment
  BY Zenon DEF AttachNext, AttachInv, HeldInv, AttachTypeOK, AnAttacher
<1>2. CASE attacher[t].left = {}
  <2>1. NoAttacher \in AnAttacher /\ NoAttacher.pc = "idle" /\ NoAttacher.at = {}
    BY DEF NoAttacher, AnAttacher, AttacherPc
  <2>2. attacher' = [attacher EXCEPT ![t] = NoAttacher] /\ again' = again
    BY <1>2 DEF AttachNext
  <2>3. Acts(t) /\ attacher'[t] = NoAttacher
    BY <1>1, <2>1, <2>2, PutActs
  <2>. QED BY <1>1, <2>1, <2>2, <2>3, LetGoAttach DEF LetGo
<1>3. CASE attacher[t].left # {}
  <2>1. PICK a \in attacher[t].left :
          /\ attacher' = [attacher EXCEPT ![t] =
               [NoAttacher EXCEPT !.left = attacher[t].left \ {a}, !.at = {a} \cap Waiting,
                                  !.pc = IF a \in Waiting THEN "look up" ELSE "next"]]
          /\ again' = again \cup IF \E s \in Attacher : a \in attacher[s].at THEN {a} ELSE {}
    BY <1>3, Zenon DEF AttachNext
  <2>. DEFINE left == attacher[t].left \ {a}
              at == {a} \cap Waiting
              pc == IF a \in Waiting THEN "look up" ELSE "next"
              x == [NoAttacher EXCEPT !.left = left, !.at = at, !.pc = pc]
  <2>2. x \in AnAttacher /\ x.pc = pc /\ x.at = at
    <3>1. left \in SUBSET Attachment /\ at \in SUBSET Attachment /\ pc \in AttacherPc
      BY <1>1 DEF Waiting, AttacherPc
    <3>. HIDE DEF left, at, pc
    <3>2. x \in AnAttacher
      BY <3>1, NobodyTyped, Zenon
    <3>. QED BY <3>2 DEF NoAttacher
  <2>3. attacher' = [attacher EXCEPT ![t] = x]
    BY <2>1
  <2>4. again' \subseteq Attachment /\ again \subseteq again' /\ a \in Attachment
    BY <1>1, <2>1
  <2>. HIDE DEF x
  <2>5. Acts(t) /\ attacher'[t] = x
    BY <1>1, <2>2, <2>3, PutActs
  <2>6. CASE a \in Waiting
    <3>1. filed[a] = "incoming" /\ attacher'[t].pc = "look up" /\ attacher'[t].at = {a}
      BY <2>2, <2>5, <2>6 DEF Waiting
    <3>. QED BY <1>1, <2>1, <2>4, <2>5, <3>1, TakenAttach
  <2>7. CASE a \notin Waiting
    BY <2>2, <2>5, <2>7, <1>1, <2>4, LetGoAttach DEF LetGo
  <2>. QED BY <2>6, <2>7
<1>. QED BY <1>2, <1>3

\* A step of t on the file a that leaves it in its hands, and that stores no text.
LEMMA StepAttach ==
  ASSUME AttachInv, NEW t \in Attacher, NEW a \in Attachment, Held(t, a), Acts(t), Held(t, a)',
         attacher[t].pc \in {"look up", "link"},
         UNCHANGED <<filed, notes, contacts, again>>,
         links \subseteq links', excused \subseteq excused', doubled \subseteq doubled',
         attacher'[t].pc = "to saved" => Says[a].kind # "comment",
         HeldInv(t)', PlaceInv(a)', attacher'[t].pc = "write" => WriterInv(About(a))'
  PROVE  AttachInv'
<1>1. AttachTypeOK'
  BY DEF AttachInv, AttachTypeOK, Acts
<1>2. \A s \in Attacher : HeldInv(s)'
  BY HeldKept
<1>3. \A s \in Attacher, b \in Attachment : Held(s, b)' <=> Held(s, b)
  BY DEF Held, Acts
<1>4. \A b \in Attachment : OnceInv(b)'
  BY <1>3 DEF AttachInv, OnceInv
<1>5. \A b \in Attachment : Held(t, b) => b = a
  BY DEF Held
<1>6. \A b \in Attachment \ {a} : /\ Toward(b, "saved", "to saved")' <=> Toward(b, "saved", "to saved")
                                  /\ Toward(b, "deferred", "to deferred")' <=> Toward(b, "deferred", "to deferred")
  BY <1>3, <1>5 DEF Toward, Acts
<1>7. ASSUME NEW b \in Attachment, b # a PROVE PlaceInv(b)'
  BY <1>6, <1>7 DEF Kept, ContactKept, ContactsOf, AttachInv, PlaceInv
<1>8. ASSUME NEW b \in Attachment PROVE CommentInv(Key(b))'
  <2>. SUFFICES ASSUME Says[b].kind = "comment" PROVE CommentInv(Key(b))'
    BY DEF CommentInv, Key
  <2>1. ASSUME NEW c \in Attachment, Key(c) = Key(b)
        PROVE  Toward(c, "saved", "to saved")' <=> Toward(c, "saved", "to saved")
    <3>1. CASE c = a
      BY <2>1, <3>1, TowardKept DEF Key
    <3>. QED BY <3>1, <1>6
  <2>2. Noted(Key(b))' = Noted(Key(b))
    BY <2>1, NotedKept
  <2>. QED BY <2>2 DEF AttachInv, CommentInv, Count
<1>9. ASSUME NEW w \in Subject PROVE WriterInv(w)'
  <2>1. CASE attacher'[t].pc # "write"
    BY <2>1, WritingKept, WritersLeave DEF AttachInv
  <2>2. CASE attacher'[t].pc = "write" /\ w # About(a)
    BY <2>2, <1>3, <1>5, WritersLeave DEF Writing, Acts, AttachInv
  <2>. QED BY <2>1, <2>2
<1>. QED BY <1>1, <1>2, <1>4, <1>7, <1>8, <1>9 DEF AttachInv

\* What is looked up is put down as twice looked up if another is about to write
\* it (pyfaf/ureport.py, save_attachment).
LEMMA LookedWrite ==
  ASSUME AttachInv, NEW t \in Attacher, NEW a \in Attachment, Held(t, a), Acts(t), Held(t, a)',
         attacher[t].pc = "look up", NEW w, w = About(a),
         (\E s \in Attacher \ {t} : Writing(s, w)) => w \in doubled',
         doubled \subseteq doubled', UNCHANGED <<notes, contacts>>,
         Says[a].kind = "url" => Key(a) \notin DOMAIN notes,
         Says[a].kind = "email" => ContactsOf(Says[a].data) = {}
  PROVE  WriterInv(w)'
<1>1. CASE w \in doubled'
  BY <1>1 DEF WriterInv
<1>2. CASE w \notin doubled'
  <2>1. \A s \in Attacher \ {t} : ~Writing(s, w)'
    BY <1>2 DEF Writing, Held, Acts
  <2>2. w[1] = Says[a].kind
    BY DEF About, Key
  <2>3. w[1] = "url" => w \notin DOMAIN notes
    BY <2>2 DEF About
  <2>4. ASSUME NEW e \in Data, w = <<"email", e>> PROVE ContactsOf(e)' = {}
    <3>1. <<"email", e>>[1] = "email" /\ <<"email", e>>[2] = e
      OBVIOUS
    <3>2. Says[a].kind = "email"
      BY <2>2, <2>4, <3>1
    <3>3. w = <<"email", Says[a].data>>
      BY <3>2 DEF About
    <3>4. \A x, y : <<"email", x>> = <<"email", y>> => x = y
      OBVIOUS
    <3>5. Says[a].data = e
      BY <2>4, <3>3, <3>4
    <3>. QED BY <3>2, <3>5 DEF ContactsOf
  <2>5. \A r, s \in Attacher : Writing(r, w)' /\ Writing(s, w)' => r = s
    BY <2>1
  <2>6. (w \in DOMAIN notes)' /\ w[1] = "url" => FALSE
    BY <2>3
  <2>7. \A e \in Data : w = <<"email", e>> =>
          (\A i, j \in ContactsOf(e)' : i = j) /\ ContactsOf(e)' = {}
    BY <2>4
  <2>. QED BY <2>5, <2>6, <2>7 DEF WriterInv
<1>. QED BY <1>1, <1>2

\* What is deferred, as nothing can be saved of it (save_attachment).
LEMMA DeferAttach ==
  ASSUME AttachInv, NEW t \in Attacher, NEW a \in Attachment, Held(t, a),
         attacher[t].pc \in {"look up", "link"}, attacher' = Defer(t),
         UNCHANGED <<filed, notes, contacts, again, links, doubled>>, excused \subseteq excused',
         Says[a].kind \in Allowed => Kept(a)'
  PROVE  AttachInv'
<1>1. AttachTypeOK /\ "to deferred" \in AttacherPc /\ attacher' = With(t, "to deferred")
  BY DEF AttachInv, AttacherPc, Defer
<1>2. Acts(t) /\ attacher'[t].pc = "to deferred" /\ attacher'[t].at = attacher[t].at
  BY <1>1, WithActs
<1>3. Held(t, a)'
  BY <1>2 DEF Held
<1>4. HeldInv(t)'
  BY <1>2, <1>3 DEF HeldInv
<1>5. Toward(a, "saved", "to saved")' => Toward(a, "saved", "to saved")
  BY <1>2 DEF Toward, Held, Acts
<1>6. PlaceInv(a)'
  BY <1>5 DEF AttachInv, Kept, ContactKept, ContactsOf, PlaceInv
<1>. QED BY <1>2, <1>3, <1>4, <1>6, StepAttach

\* The address, the URL or the comment is looked up (save_attachment).
LEMMA LookUpAttach == ASSUME AttachInv, NEW t \in Attacher, AttachLookUp(t) PROVE AttachInv'
<1>1. attacher[t].pc = "look up" /\ AttachTypeOK /\ UNCHANGED <<filed, notes, contacts, links, again>>
  BY DEF AttachLookUp, AttachInv
<1>2. PICK a \in Attachment : /\ Held(t, a) /\ attacher[t].at = {a}
                              /\ File(t) = a /\ Attached(t) = Says[a]
  BY <1>1, HeldFile
<1>. DEFINE said == Says[a]
            rid == IdOf[said.of]
            others == {s \in Attacher \ {t} : attacher[s].pc \in {"write", "link"} /\ About(File(s)) = About(a)}
<1>3. CASE said.kind \notin Allowed \/ said.of \notin reports
  BY <1>2, <1>3, <1>1, DeferAttach DEF AttachLookUp, Kept
<1>4. CASE ~(said.kind \notin Allowed \/ said.of \notin reports)
  <2>1. /\ CASE said.kind = "email" ->
                  IF ContactsOf(said.data) = {} THEN attacher' = [attacher EXCEPT ![t].pc = "write", ![t].new = TRUE]
                  ELSE \E id \in ContactsOf(said.data) :
                         attacher' = [attacher EXCEPT ![t].pc = IF Linked(rid, id) THEN "to saved" ELSE "link", ![t].contact = {id}]
             [] said.kind = "url" -> attacher' = With(t, IF Key(a) \in DOMAIN notes THEN "to saved" ELSE "write")
             [] said.kind = "comment" -> attacher' = With(t, "write")
             [] OTHER -> attacher' = With(t, "to saved")
        /\ doubled' = doubled \cup IF others = {} THEN {} ELSE {About(a)}
        /\ excused' = IF \E id \in attacher'[t].contact : <<id, rid>> \in links /\ <<rid, id>> \notin links
                      THEN excused \cup {a} ELSE excused
    BY <1>2, <1>4 DEF AttachLookUp
  <2>. HIDE DEF said, rid
  <2>2. excused \subseteq excused' /\ doubled \subseteq doubled'
    BY <2>1
  <2>3. (\E s \in Attacher \ {t} : Writing(s, About(a))) => About(a) \in doubled'
    <3>. SUFFICES ASSUME NEW s \in Attacher \ {t}, Writing(s, About(a)) PROVE About(a) \in doubled'
      OBVIOUS
    <3>1. PICK b \in Attachment : Held(s, b) /\ About(b) = About(a) /\ attacher[s].pc = "write"
      BY DEF Writing
    <3>2. File(s) = b
      BY <3>1, OnlyOf DEF Held, File
    <3>3. s \in others
      BY <3>1, <3>2
    <3>. QED BY <2>1, <3>3
  <2>. HIDE DEF others
  \* What remains once it is known what t does next.
  <2>4. ASSUME Acts(t), attacher'[t].at = {a}, HeldInv(t)',
               attacher'[t].pc \in {"write", "link", "to saved"},
               attacher'[t].pc = "write" =>
                 /\ said.kind = "url" => Key(a) \notin DOMAIN notes
                 /\ said.kind = "email" => ContactsOf(said.data) = {},
               attacher'[t].pc = "to saved" =>
                 /\ said.kind # "comment" /\ (said.kind = "url" => Key(a) \in DOMAIN notes)
                 /\ said.kind = "email" => Kept(a)'
        PROVE  AttachInv'
    <3>1. Held(t, a)'
      BY <2>4 DEF Held
    <3>2. attacher'[t].pc = "write" => WriterInv(About(a))'
      BY <1>1, <1>2, <2>2, <2>3, <2>4, <3>1, LookedWrite DEF said
    <3>3. PlaceInv(a) /\ (Kept(a) => Kept(a)')
      BY <1>1, <2>2 DEF AttachInv, Kept, ContactKept, ContactsOf
    <3>4. Toward(a, "deferred", "to deferred")' => Toward(a, "deferred", "to deferred")
      BY <1>1, <2>4 DEF Toward, Held, Acts
    <3>5. PlaceInv(a)'
      <4>1. CASE attacher'[t].pc = "to saved"
        BY <1>1, <2>4, <4>1, <3>3, <3>4 DEF Notable, said, PlaceInv
      <4>2. CASE attacher'[t].pc # "to saved"
        BY <1>1, <2>4, <4>2, <3>3, <3>4 DEF Toward, Held, Acts, PlaceInv
      <4>. QED BY <4>1, <4>2
    <3>6. attacher'[t].pc = "to saved" => Says[a].kind # "comment"
      BY <2>4 DEF said
    <3>. QED BY <1>1, <1>2, <2>2, <2>4, <3>1, <3>2, <3>5, <3>6, StepAttach
  <2>5. CASE said.kind # "email"
    <3>. DEFINE pc == IF said.kind = "comment" \/ (said.kind = "url" /\ Key(a) \notin DOMAIN notes)
                      THEN "write" ELSE "to saved"
    <3>1. attacher' = With(t, pc) /\ pc \in AttacherPc
      BY <2>1, <2>5 DEF AttacherPc
    <3>2. Acts(t) /\ attacher'[t].pc = pc /\ attacher'[t].at = {a}
      BY <1>1, <1>2, <3>1, WithActs
    <3>3. HeldInv(t)'
      BY <3>2 DEF Held, Notable, said, HeldInv
    <3>. QED BY <2>4, <2>5, <3>2, <3>3
  <2>6. CASE said.kind = "email" /\ ContactsOf(said.data) = {}
    <3>1. attacher' = [attacher EXCEPT ![t].pc = "write", ![t].new = TRUE]
      BY <2>1, <2>6
    <3>2. Acts(t) /\ attacher'[t].pc = "write" /\ attacher'[t].at = {a}
      <4>. DEFINE x == [attacher[t] EXCEPT !.pc = "write", !.new = TRUE]
      <4>1. attacher[t] \in AnAttacher /\ attacher' = [attacher EXCEPT ![t] = x]
        BY <1>1, <3>1 DEF AttachTypeOK
      <4>2. x \in AnAttacher /\ x.pc = "write" /\ x.at = attacher[t].at
        BY <4>1 DEF AnAttacher, AttacherPc
      <4>. HIDE DEF x
      <4>. QED BY <1>1, <1>2, <4>1, <4>2, PutActs
    <3>3. HeldInv(t)'
      BY <3>2, <2>6 DEF Held, HeldInv, said
    <3>. QED BY <2>4, <2>6, <3>2, <3>3
  <2>7. CASE said.kind = "email" /\ ContactsOf(said.data) # {}
    <3>1. PICK id \in ContactsOf(said.data) :
            attacher' = [attacher EXCEPT ![t].pc = IF Linked(rid, id) THEN "to saved" ELSE "link", ![t].contact = {id}]
      BY <2>1, <2>7
    <3>. DEFINE pc == IF Linked(rid, id) THEN "to saved" ELSE "link"
    <3>2. Acts(t) /\ attacher'[t].pc = pc /\ attacher'[t].at = {a} /\ attacher'[t].contact = {id}
      <4>. DEFINE x == [attacher[t] EXCEPT !.pc = pc, !.contact = {id}]
      <4>1. attacher[t] \in AnAttacher /\ attacher' = [attacher EXCEPT ![t] = x]
        BY <1>1, <3>1 DEF AttachTypeOK
      <4>2. id \in Nat
        <5>1. contacts \in Seq(SUBSET Data)
          BY <1>1 DEF AttachTypeOK
        <5>2. DOMAIN contacts = 1 .. Len(contacts) /\ Len(contacts) \in Nat
          BY <5>1
        <5>3. id \in DOMAIN contacts
          BY DEF ContactsOf
        <5>. QED BY <5>2, <5>3
      <4>3. x \in AnAttacher /\ x.pc = pc /\ x.at = attacher[t].at /\ x.contact = {id}
        BY <4>1, <4>2 DEF AnAttacher, AttacherPc
      <4>. HIDE DEF x, pc
      <4>. QED BY <1>1, <1>2, <4>1, <4>3, PutActs
    <3>3. HeldInv(t)'
      BY <3>2, <1>1, <2>7 DEF Held, ContactsOf, HeldInv, said
    <3>4. pc = "to saved" => Kept(a)'
      <4>. SUFFICES ASSUME <<id, rid>> \in links PROVE Kept(a)'
        BY DEF Linked
      <4>1. CASE <<rid, id>> \in links
        BY <1>1, <2>7, <4>1 DEF Kept, ContactKept, ContactsOf, said, rid
      <4>2. CASE <<rid, id>> \notin links
        BY <2>1, <3>2, <4>2 DEF Kept
      <4>. QED BY <4>1, <4>2
    <3>. QED BY <2>4, <2>7, <3>2, <3>3, <3>4
  <2>. QED BY <2>5, <2>6, <2>7
<1>. QED BY <1>3, <1>4

\* A comment or a URL is stored (save_attachment).
LEMMA NoteAttach ==
  ASSUME AttachInv, IsFiniteSet(Attachment), NEW t \in Attacher, AttachNote(t) PROVE AttachInv'
<1>1. attacher[t].pc = "write" /\ AttachTypeOK /\ UNCHANGED <<filed, contacts, links, excused, again, doubled>>
  BY DEF AttachNote, AttachInv
<1>2. PICK a \in Attachment : /\ Held(t, a) /\ attacher[t].at = {a}
                              /\ File(t) = a /\ Attached(t) = Says[a]
  BY <1>1, HeldFile
<1>3. /\ Says[a].kind # "email"
      /\ notes' = Put(notes, Key(a), Count(notes, Key(a)) + 1)
      /\ attacher' = With(t, "to saved") /\ "to saved" \in AttacherPc
  BY <1>2 DEF AttachNote, AttacherPc
<1>4. a \in Notable
  BY <1>1, <1>2, <1>3 DEF AttachInv, HeldInv
<1>5. Acts(t) /\ attacher'[t].pc = "to saved" /\ attacher'[t].at = {a}
  BY <1>1, <1>2, <1>3, WithActs
<1>6. /\ DOMAIN notes' = DOMAIN notes \cup {Key(a)}
      /\ \A k \in DOMAIN notes \ {Key(a)} : notes'[k] = notes[k]
      /\ notes'[Key(a)] = Count(notes, Key(a)) + 1
      /\ notes' = [k \in DOMAIN notes' |-> notes'[k]]
  BY <1>3 DEF Put
<1>7. Count(notes, Key(a)) \in Nat
  BY <1>1 DEF AttachTypeOK, Count
<1>8. AttachTypeOK'
  <2>1. notes' \in [DOMAIN notes' -> Nat]
    BY <1>1, <1>6, <1>7 DEF AttachTypeOK
  <2>2. DOMAIN notes' \subseteq {Key(b) : b \in Notable}
    BY <1>1, <1>4, <1>6 DEF AttachTypeOK
  <2>3. {Key(b) : b \in Notable}' = {Key(b) : b \in Notable}
    BY DEF Key, Notable
  <2>. QED BY <1>1, <1>5, <2>1, <2>2, <2>3 DEF AttachTypeOK, Acts
<1>9. \A s \in Attacher, b \in Attachment : Held(s, b)' <=> Held(s, b)
  BY <1>2, <1>5 DEF Held, Acts
<1>10. \A b \in Attachment : Held(t, b) => b = a
  BY <1>2 DEF Held
<1>11. \A s \in Attacher : HeldInv(s)'
  BY <1>2, <1>5, <1>9, <1>1, HeldKept DEF HeldInv
<1>12. \A b \in Attachment : OnceInv(b)'
  BY <1>1, <1>9 DEF AttachInv, OnceInv
<1>13. \A b \in Attachment \ {a} : Toward(b, "saved", "to saved")' <=> Toward(b, "saved", "to saved")
  BY <1>1, <1>5, <1>9, <1>10 DEF Toward, Acts
<1>14. \A b \in Attachment : Toward(b, "deferred", "to deferred")' <=> Toward(b, "deferred", "to deferred")
  BY <1>1, <1>5, TowardKept
<1>15. ASSUME NEW b \in Attachment PROVE PlaceInv(b)'
  <2>1. PlaceInv(b) /\ (Kept(b)' <=> Kept(b))
    BY <1>1 DEF AttachInv, Kept, ContactKept, ContactsOf
  <2>2. CASE b = a
    BY <1>3, <1>6, <1>14, <2>1, <2>2 DEF PlaceInv
  <2>3. CASE b # a
    BY <1>6, <1>13, <1>14, <2>1, <2>3 DEF PlaceInv
  <2>. QED BY <2>2, <2>3
<1>16. ASSUME NEW b \in Attachment PROVE CommentInv(Key(b))'
  <2>. SUFFICES ASSUME ~ \E c \in again : Key(c) = Key(b) PROVE CommentInv(Key(b))'
    BY <1>1 DEF CommentInv, Key
  <2>1. CommentInv(Key(b))
    BY DEF AttachInv
  <2>2. CASE Key(b) # Key(a)
    BY <1>13, <2>2, NotedKept, <1>6, <1>1, <2>1 DEF Count, CommentInv
  <2>3. CASE Key(b) = Key(a)
    <3>1. a \notin again /\ OnceInv(a)
      BY <2>3 DEF AttachInv
    <3>2. filed[a] = "incoming" /\ \A s \in Attacher : Held(s, a) => s = t
      BY <1>2, <3>1 DEF OnceInv
    <3>3. a \notin Noted(Key(a))
      BY <1>1, <3>2 DEF Noted, Toward
    <3>4. Toward(a, "saved", "to saved")'
      BY <1>2, <1>5, <1>9 DEF Toward
    <3>5. Noted(Key(a))' = Noted(Key(a)) \cup {a}
      BY <1>13, <3>4, Zenon DEF Noted, Key
    <3>6. IsFiniteSet(Noted(Key(a)))
      BY FS_Subset DEF Noted
    <3>7. Cardinality(Noted(Key(a)) \cup {a}) = Cardinality(Noted(Key(a))) + 1
      BY <3>3, <3>6, FS_AddElement
    <3>8. Count(notes, Key(a))' = Count(notes, Key(a)) + 1
      BY <1>6 DEF Count
    <3>. QED BY <2>1, <2>3, <3>5, <3>7, <3>8 DEF CommentInv
  <2>. QED BY <2>2, <2>3
<1>17. ASSUME NEW w \in Subject PROVE WriterInv(w)'
  <2>1. \A s \in Attacher : Writing(s, w)' => Writing(s, w) /\ s # t
    BY <1>5, <1>9 DEF Writing, Acts
  <2>2. WriterInv(w)
    BY DEF AttachInv
  <2>. SUFFICES ASSUME w \notin doubled PROVE WriterInv(w)'
    BY <1>1 DEF WriterInv
  <2>3. \A e : ContactsOf(e)' = ContactsOf(e)
    BY <1>1 DEF ContactsOf
  <2>4. ASSUME w \in DOMAIN notes', w[1] = "url"
        PROVE  notes'[w] = 1 /\ \A s \in Attacher : ~Writing(s, w)'
    <3>1. CASE w = Key(a)
      <4>1. Writing(t, w)
        BY <1>1, <1>2, <1>3, <3>1 DEF Writing, About
      <4>2. w \notin DOMAIN notes /\ \A s \in Attacher : Writing(s, w) => s = t
        BY <2>2, <2>4, <4>1 DEF WriterInv
      <4>3. Count(notes, w) = 0
        BY <4>2 DEF Count
      <4>. QED BY <1>6, <2>1, <3>1, <4>2, <4>3
    <3>2. CASE w # Key(a)
      BY <1>6, <2>1, <2>2, <2>4, <3>2 DEF WriterInv
    <3>. QED BY <3>1, <3>2
  <2>5. \A r, s \in Attacher : Writing(r, w)' /\ Writing(s, w)' => r = s
    BY <2>1, <2>2 DEF WriterInv
  <2>6. \A e \in Data : w = <<"email", e>> =>
          /\ \A i, j \in ContactsOf(e)' : i = j
          /\ (\E s \in Attacher : Writing(s, w)') => ContactsOf(e)' = {}
    BY <2>1, <2>2, <2>3 DEF WriterInv
  <2>. QED BY <2>4, <2>5, <2>6 DEF WriterInv
<1>. QED BY <1>1, <1>8, <1>11, <1>12, <1>15, <1>16, <1>17 DEF AttachInv

\* Two rows of a report and an address cannot be linked twice (save_attachment).
LEMMA LinkAttach == ASSUME AttachInv, NEW t \in Attacher, AttachLink(t) PROVE AttachInv'
<1>1. attacher[t].pc = "link" /\ AttachTypeOK /\ UNCHANGED <<filed, notes, contacts, again, doubled>>
  BY DEF AttachLink, AttachInv
<1>2. PICK a \in Attachment : /\ Held(t, a) /\ attacher[t].at = {a}
                              /\ File(t) = a /\ Attached(t) = Says[a]
  BY <1>1, HeldFile
<1>3. Says[a].kind = "email" /\ \E id \in DOMAIN contacts : attacher[t].contact = {id} /\ contacts[id] \subseteq {Says[a].data}
  BY <1>1, <1>2 DEF AttachInv, HeldInv
<1>4. PICK id \in DOMAIN contacts : attacher[t].contact = {id} /\ contacts[id] \subseteq {Says[a].data}
  BY <1>3
<1>. DEFINE link == <<IdOf[Says[a].of], id>>
            gone == contacts[id] = {}
<1>5. IF link \in links \/ gone
      THEN attacher' = Defer(t) /\ UNCHANGED links /\ excused' = IF gone THEN excused \cup {a} ELSE excused
      ELSE attacher' = With(t, "to saved") /\ links' = links \cup {link} /\ UNCHANGED excused
  BY <1>4, OnlyOf, <1>2 DEF AttachLink
<1>6. ~gone => id \in ContactsOf(Says[a].data)
  BY <1>4 DEF ContactsOf
<1>7. CASE link \in links \/ gone
  <2>1. Kept(a)'
    <3>1. CASE gone
      BY <1>5, <1>7, <3>1 DEF Kept
    <3>2. CASE ~gone
      <4>1. ContactKept(a) /\ links' = links
        BY <1>5, <1>6, <1>7, <3>2 DEF ContactKept
      <4>2. ContactKept(a)'
        BY <1>1, <4>1 DEF ContactKept, ContactsOf
      <4>. QED BY <1>3, <4>2 DEF Kept
    <3>. QED BY <3>1, <3>2
  <2>. QED BY <1>1, <1>2, <1>5, <1>7, <2>1, DeferAttach
<1>8. CASE ~(link \in links \/ gone)
  <2>1. attacher' = With(t, "to saved") /\ links' = links \cup {link} /\ excused' = excused /\ "to saved" \in AttacherPc
    BY <1>5, <1>8 DEF AttacherPc
  <2>2. Acts(t) /\ attacher'[t].pc = "to saved" /\ attacher'[t].at = {a}
    BY <1>1, <1>2, <2>1, WithActs
  <2>3. Held(t, a)' /\ \A b \in Attachment : Held(t, b)' => b = a
    BY <2>2 DEF Held
  <2>4. HeldInv(t)'
    BY <2>2, <2>3 DEF HeldInv
  <2>5. Kept(a)'
    BY <1>1, <1>6, <1>8, <2>1, <1>3 DEF ContactsOf, Kept, ContactKept
  <2>6. PlaceInv(a)'
    BY <1>3, <2>5 DEF Notable, PlaceInv
  <2>. QED BY <1>1, <1>2, <1>3, <2>1, <2>2, <2>3, <2>4, <2>6, StepAttach
<1>. QED BY <1>7, <1>8

LEMMA AppendOne ==
  ASSUME NEW S, NEW q \in Seq(S), NEW e \in S
  PROVE  /\ Append(q, e) \in Seq(S) /\ Len(Append(q, e)) = Len(q) + 1
         /\ Append(q, e)[Len(q) + 1] = e /\ \A i \in 1 .. Len(q) : Append(q, e)[i] = q[i]
OBVIOUS

\* A row for an address that nobody has given yet, and its link (save_attachment).
LEMMA ContactAttach == ASSUME AttachInv, NEW t \in Attacher, AttachContact(t) PROVE AttachInv'
<1>1. attacher[t].pc = "write" /\ AttachTypeOK /\ UNCHANGED <<filed, notes, excused, again, doubled>>
  BY DEF AttachContact, AttachInv
<1>2. PICK a \in Attachment : /\ Held(t, a) /\ attacher[t].at = {a}
                              /\ File(t) = a /\ Attached(t) = Says[a]
  BY <1>1, HeldFile
<1>3. /\ Says[a].kind = "email" /\ contacts' = Append(contacts, {Says[a].data})
      /\ links' = links \cup {<<IdOf[Says[a].of], Len(contacts')>>}
      /\ attacher' = With(t, "to saved") /\ "to saved" \in AttacherPc
  BY <1>2 DEF AttachContact, AttacherPc
<1>4. Acts(t) /\ attacher'[t].pc = "to saved" /\ attacher'[t].at = {a}
  BY <1>1, <1>2, <1>3, WithActs
<1>. DEFINE new == Len(contacts) + 1
<1>5. /\ contacts' \in Seq(SUBSET Data)
      /\ DOMAIN contacts' = DOMAIN contacts \cup {new} /\ new \notin DOMAIN contacts
      /\ Len(contacts') = new /\ contacts'[new] = {Says[a].data}
      /\ \A i \in DOMAIN contacts : contacts'[i] = contacts[i]
  <2>1. contacts \in Seq(SUBSET Data) /\ {Says[a].data} \in SUBSET Data
    BY <1>1 DEF AttachTypeOK, Data
  <2>2. DOMAIN contacts = 1 .. Len(contacts) /\ Len(contacts) \in Nat
    BY <2>1
  <2>. DEFINE row == {Says[a].data}
              longer == Append(contacts, row)
  <2>3. /\ longer \in Seq(SUBSET Data) /\ Len(longer) = new
        /\ longer[new] = row /\ \A i \in 1 .. Len(contacts) : longer[i] = contacts[i]
    <3>1. row \in SUBSET Data /\ contacts \in Seq(SUBSET Data)
      BY <2>1
    <3>. HIDE DEF row
    <3>. QED BY <3>1, AppendOne
  <2>4. contacts' = longer
    BY <1>3
  <2>. HIDE DEF longer, row
  <2>5. DOMAIN contacts' = 1 .. new
    BY <2>3, <2>4
  <2>6. contacts'[new] = {Says[a].data}
    BY <2>3, <2>4 DEF row
  <2>7. contacts' \in Seq(SUBSET Data) /\ Len(contacts') = new
    BY <2>3, <2>4
  <2>8. \A i \in DOMAIN contacts : contacts'[i] = contacts[i]
    BY <2>2, <2>3, <2>4
  <2>9. DOMAIN contacts' = DOMAIN contacts \cup {new} /\ new \notin DOMAIN contacts
    BY <2>2, <2>5
  <2>. QED BY <2>6, <2>7, <2>8, <2>9
<1>. HIDE DEF new
<1>6. \A e : ContactsOf(e)' = ContactsOf(e) \cup IF e = Says[a].data THEN {new} ELSE {}
  BY <1>5 DEF ContactsOf
<1>7. AttachTypeOK'
  BY <1>1, <1>4, <1>5 DEF Key, Notable, Data, AttachTypeOK, Acts
<1>8. \A s \in Attacher, b \in Attachment : Held(s, b)' <=> Held(s, b)
  BY <1>2, <1>4 DEF Held, Acts
<1>9. \A b \in Attachment : Held(t, b) => b = a
  BY <1>2 DEF Held
<1>10. ASSUME NEW s \in Attacher PROVE HeldInv(s)'
  <2>1. CASE s = t
    BY <1>2, <1>4, <1>8, <2>1 DEF HeldInv
  <2>2. CASE s # t
    <3>1. attacher'[s] = attacher[s] /\ HeldInv(s)
      BY <1>4, <2>2 DEF Acts, AttachInv
    <3>2. ASSUME NEW b \in Attachment, Held(s, b)'
          PROVE  /\ attacher'[s].pc = "write" => b \in Notable \/ Says[b].kind = "email"
                 /\ attacher'[s].pc = "link" =>
                      /\ Says[b].kind = "email"
                      /\ \E id \in DOMAIN contacts' :
                           attacher'[s].contact = {id} /\ contacts'[id] \subseteq {Says[b].data}
      <4>1. Held(s, b)
        BY <1>8, <3>2
      <4>2. attacher[s].pc = "link" => \E id \in DOMAIN contacts :
              attacher[s].contact = {id} /\ contacts[id] \subseteq {Says[b].data}
        BY <3>1, <4>1 DEF HeldInv
      <4>3. \A id \in DOMAIN contacts : id \in DOMAIN contacts' /\ contacts'[id] = contacts[id]
        BY <1>5
      <4>4. attacher'[s].pc = "link" => \E id \in DOMAIN contacts' :
              attacher'[s].contact = {id} /\ contacts'[id] \subseteq {Says[b].data}
        BY <3>1, <4>2, <4>3
      <4>. QED BY <3>1, <4>1, <4>4 DEF HeldInv
    <3>. QED BY <1>8, <3>1, <3>2 DEF HeldInv, Notable
  <2>. QED BY <2>1, <2>2
<1>11. \A b \in Attachment : OnceInv(b)'
  BY <1>1, <1>8 DEF AttachInv, OnceInv
<1>12. \A b \in Attachment \ {a} : Toward(b, "saved", "to saved")' <=> Toward(b, "saved", "to saved")
  BY <1>1, <1>4, <1>8, <1>9 DEF Toward, Acts
<1>13. \A b \in Attachment : Toward(b, "deferred", "to deferred")' <=> Toward(b, "deferred", "to deferred")
  BY <1>1, <1>4, TowardKept
<1>14. ASSUME NEW b \in Attachment PROVE PlaceInv(b)'
  <2>1. PlaceInv(b) /\ (Kept(b) => Kept(b)')
    BY <1>1, <1>3, <1>6 DEF AttachInv, Kept, ContactKept
  <2>2. CASE b = a
    <3>1. <<IdOf[Says[a].of], new>> \in links' /\ new \in ContactsOf(Says[a].data)'
      BY <1>3, <1>5, <1>6
    <3>2. Kept(a)'
      BY <1>3, <3>1 DEF Kept, ContactKept
    <3>3. a \notin Notable
      BY <1>3 DEF Notable
    <3>. QED BY <2>2, <3>2, <3>3 DEF PlaceInv, Notable
  <2>3. CASE b # a
    BY <1>1, <1>12, <1>13, <2>1, <2>3 DEF PlaceInv
  <2>. QED BY <2>2, <2>3
<1>15. ASSUME NEW b \in Attachment PROVE CommentInv(Key(b))'
  <2>. SUFFICES ASSUME Says[b].kind = "comment" PROVE CommentInv(Key(b))'
    BY DEF CommentInv, Key
  <2>1. \A c \in Attachment : Key(c) = Key(b) => c # a
    BY <1>3 DEF Key
  <2>2. Noted(Key(b))' = Noted(Key(b))
    BY <1>12, <2>1, NotedKept
  <2>. QED BY <1>1, <2>2 DEF AttachInv, CommentInv, Count
<1>16. ASSUME NEW w \in Subject PROVE WriterInv(w)'
  <2>1. \A s \in Attacher : Writing(s, w)' => Writing(s, w) /\ s # t
    BY <1>4, <1>8 DEF Writing, Acts
  <2>2. WriterInv(w)
    BY DEF AttachInv
  <2>. SUFFICES ASSUME w \notin doubled PROVE WriterInv(w)'
    BY <1>1 DEF WriterInv
  <2>3. w \in DOMAIN notes' /\ w[1] = "url" => notes'[w] = 1 /\ \A s \in Attacher : ~Writing(s, w)'
    BY <1>1, <2>1, <2>2 DEF WriterInv
  <2>4. \A r, s \in Attacher : Writing(r, w)' /\ Writing(s, w)' => r = s
    BY <2>1, <2>2 DEF WriterInv
  <2>5. ASSUME NEW e \in Data, w = <<"email", e>>
        PROVE  /\ \A i, j \in ContactsOf(e)' : i = j
               /\ (\E s \in Attacher : Writing(s, w)') => ContactsOf(e)' = {}
    <3>1. CASE e = Says[a].data
      <4>1. Writing(t, w)
        BY <1>1, <1>2, <1>3, <2>5, <3>1 DEF Writing, About
      <4>2. ContactsOf(e) = {} /\ \A s \in Attacher : ~Writing(s, w)'
        BY <2>1, <2>2, <2>5, <4>1 DEF WriterInv
      <4>. QED BY <1>6, <4>2
    <3>2. CASE e # Says[a].data
      BY <1>6, <2>1, <2>2, <2>5, <3>2 DEF WriterInv
    <3>. QED BY <3>1, <3>2
  <2>. QED BY <2>3, <2>4, <2>5 DEF WriterInv
<1>. QED BY <1>1, <1>7, <1>10, <1>11, <1>14, <1>15, <1>16 DEF AttachInv

\* A file is moved unless somebody else has moved it (save_reports.py, run).
LEMMA MoveAttach == ASSUME AttachInv, NEW t \in Attacher, AttachMove(t) PROVE AttachInv'
<1>1. /\ attacher[t].pc \in {"to saved", "to deferred"} /\ AttachTypeOK
      /\ UNCHANGED <<notes, contacts, links, excused, again, doubled>>
  BY DEF AttachMove, AttachInv
<1>2. PICK a \in Attachment : /\ Held(t, a) /\ attacher[t].at = {a} /\ File(t) = a
  BY <1>1, HeldFile
<1>. DEFINE to == IF attacher[t].pc = "to saved" THEN "saved" ELSE "deferred"
<1>3. /\ filed' = IF filed[a] = "incoming" THEN [filed EXCEPT ![a] = to] ELSE filed
      /\ attacher' = [attacher EXCEPT ![t].pc = "next", ![t].at = {}]
  BY <1>2 DEF AttachMove
<1>4. Acts(t) /\ attacher'[t].pc = "next" /\ attacher'[t].at = {}
  <2>. DEFINE x == [attacher[t] EXCEPT !.pc = "next", !.at = {}]
  <2>1. attacher[t] \in AnAttacher /\ attacher' = [attacher EXCEPT ![t] = x]
    BY <1>1, <1>3 DEF AttachTypeOK
  <2>2. x \in AnAttacher /\ x.pc = "next" /\ x.at = {}
    BY <2>1 DEF AnAttacher, AttacherPc
  <2>. HIDE DEF x
  <2>. QED BY <1>1, <2>1, <2>2, PutActs
<1>5. /\ filed' \in [Attachment -> Place]
      /\ \A b \in Attachment \ {a} : filed'[b] = filed[b]
      /\ filed'[a] = IF filed[a] = "incoming" THEN to ELSE filed[a]
  <2>1. filed \in [Attachment -> Place] /\ to \in Place
    BY <1>1 DEF AttachTypeOK, Place
  <2>. HIDE DEF to
  <2>. QED BY <1>3, <2>1
<1>6. AttachTypeOK'
  BY <1>1, <1>4, <1>5 DEF Key, Notable, AttachTypeOK, Acts
<1>7. \A s \in Attacher : HeldInv(s)'
  BY <1>4, <1>1, HeldKept DEF HeldInv, Held
<1>8. /\ \A s \in Attacher \ {t}, b \in Attachment : Held(s, b)' <=> Held(s, b)
      /\ \A b \in Attachment : ~Held(t, b)' /\ (Held(t, b) => b = a)
  BY <1>2, <1>4 DEF Held, Acts
<1>9. ASSUME NEW b \in Attachment PROVE OnceInv(b)'
  <2>1. OnceInv(b)
    BY DEF AttachInv
  <2>2. CASE b = a
    BY <1>1, <1>2, <1>8, <2>1, <2>2 DEF OnceInv
  <2>3. CASE b # a
    BY <1>1, <1>5, <1>8, <2>1, <2>3 DEF OnceInv
  <2>. QED BY <2>2, <2>3
<1>10. \A b \in Attachment \ {a} : /\ Toward(b, "saved", "to saved")' <=> Toward(b, "saved", "to saved")
                                   /\ Toward(b, "deferred", "to deferred")' <=> Toward(b, "deferred", "to deferred")
  BY <1>4, <1>5, <1>8 DEF Toward, Acts
<1>11. /\ Toward(a, "saved", "to saved")' => Toward(a, "saved", "to saved")
       /\ Toward(a, "deferred", "to deferred")' => Toward(a, "deferred", "to deferred")
  BY <1>1, <1>2, <1>4, <1>5, <1>8 DEF Toward, Acts
<1>12. a \notin again => (Toward(a, "saved", "to saved") => Toward(a, "saved", "to saved")')
  <2>. SUFFICES ASSUME a \notin again, Toward(a, "saved", "to saved") PROVE filed'[a] = "saved"
    BY DEF Toward
  <2>1. filed[a] = "incoming" /\ \A s \in Attacher : Held(s, a) => s = t
    BY <1>2 DEF AttachInv, OnceInv
  <2>2. attacher[t].pc = "to saved"
    BY <2>1 DEF Toward
  <2>. QED BY <1>5, <2>1, <2>2
<1>13. ASSUME NEW b \in Attachment PROVE PlaceInv(b)'
  BY <1>1, <1>10, <1>11 DEF AttachInv, Kept, ContactKept, ContactsOf, PlaceInv
<1>14. ASSUME NEW b \in Attachment PROVE CommentInv(Key(b))'
  <2>. SUFFICES ASSUME ~ \E c \in again : Key(c) = Key(b) PROVE CommentInv(Key(b))'
    BY <1>1 DEF CommentInv, Key
  <2>1. Noted(Key(b))' = Noted(Key(b))
    BY <1>10, <1>11, <1>12, NotedKept
  <2>. QED BY <1>1, <2>1 DEF AttachInv, CommentInv, Count
<1>15. ASSUME NEW w \in Subject PROVE WriterInv(w)'
  BY <1>4, <1>1, WritingKept, WritersLeave DEF AttachInv
<1>. QED BY <1>1, <1>6, <1>7, <1>9, <1>13, <1>14, <1>15 DEF AttachInv

\* A reporter deletes his data (webfaf/user.py, delete_user_data).
LEMMA EraseAttach == ASSUME AttachInv, NEW e \in Data, EraseContact(e) PROVE AttachInv'
<1>1. PICK id \in ContactsOf(e) : contacts' = [contacts EXCEPT ![id] = {}] /\ links' = {l \in links : l[2] # id}
  BY DEF EraseContact
<1>2. /\ filed' = [a \in Attachment |-> IF Email(a, e) /\ filed[a] \in {"saved", "deferred"} THEN "erased" ELSE filed[a]]
      /\ excused' = excused \cup {a \in Attachment : Email(a, e) /\ \E t \in Attacher : a \in attacher[t].at}
      /\ UNCHANGED <<notes, attacher, again, doubled>> /\ AttachTypeOK
  BY DEF EraseContact, AttachInv
<1>3. /\ contacts' \in Seq(SUBSET Data) /\ DOMAIN contacts' = DOMAIN contacts
      /\ contacts'[id] = {} /\ contacts[id] = {e}
      /\ \A i \in DOMAIN contacts \ {id} : contacts'[i] = contacts[i]
  BY <1>2, <1>1 DEF AttachTypeOK, ContactsOf
<1>4. AttachTypeOK'
  BY <1>2, <1>3 DEF Key, Notable, Data, AttachTypeOK, Place
<1>5. \A t \in Attacher, b \in Attachment : Held(t, b)' <=> Held(t, b)
  BY <1>2 DEF Held
<1>6. ASSUME NEW t \in Attacher PROVE HeldInv(t)'
  <2>1. HeldInv(t)
    BY DEF AttachInv
  <2>2. ASSUME NEW b \in Attachment, Held(t, b)'
        PROVE  /\ attacher'[t].pc = "write" => b \in Notable \/ Says[b].kind = "email"
               /\ attacher'[t].pc = "link" =>
                    /\ Says[b].kind = "email"
                    /\ \E i \in DOMAIN contacts' :
                         attacher'[t].contact = {i} /\ contacts'[i] \subseteq {Says[b].data}
    BY <1>2, <1>3, <1>5, <2>1, <2>2 DEF HeldInv
  <2>. QED BY <1>2, <1>5, <2>1, <2>2 DEF HeldInv, Notable
<1>7. ASSUME NEW b \in Attachment PROVE OnceInv(b)'
  BY <1>2, <1>5 DEF AttachInv, OnceInv
<1>8. ASSUME NEW b \in Attachment, ~Email(b, e)
      PROVE  /\ Toward(b, "saved", "to saved")' <=> Toward(b, "saved", "to saved")
             /\ Toward(b, "deferred", "to deferred")' <=> Toward(b, "deferred", "to deferred")
  BY <1>2, <1>5, <1>8, Zenon DEF Toward
<1>9. ASSUME NEW b \in Attachment PROVE PlaceInv(b)'
  <2>1. PlaceInv(b)
    BY DEF AttachInv
  <2>2. CASE Email(b, e)
    <3>1. filed'[b] # "saved" /\ filed'[b] # "deferred"
      BY <1>2, <2>2
    <3>2. ASSUME NEW t \in Attacher, Held(t, b) PROVE Kept(b)'
      BY <1>2, <2>2, <3>2 DEF Held, Kept
    <3>3. b \notin Notable
      BY <2>2 DEF Email, Notable
    <3>. QED BY <1>5, <3>1, <3>2, <3>3 DEF PlaceInv, Toward, Notable
  <2>3. CASE ~Email(b, e)
    <3>1. Kept(b) => Kept(b)'
      <4>. SUFFICES ASSUME Says[b].kind = "email", ContactKept(b) PROVE ContactKept(b)'
        BY <1>2 DEF Kept
      <4>1. PICK i \in ContactsOf(Says[b].data) : <<IdOf[Says[b].of], i>> \in links
        BY DEF ContactKept
      <4>2. Says[b].data # e
        BY <2>3 DEF Email
      <4>3. i \in DOMAIN contacts /\ contacts[i] = {Says[b].data}
        BY DEF ContactsOf
      <4>4. i # id
        BY <1>3, <4>2, <4>3
      <4>5. i \in ContactsOf(Says[b].data)' /\ <<IdOf[Says[b].of], i>> \in links'
        BY <1>1, <1>3, <4>1, <4>3, <4>4 DEF ContactsOf
      <4>. QED BY <4>5 DEF ContactKept
    <3>. QED BY <1>2, <1>8, <2>1, <2>3, <3>1 DEF PlaceInv
  <2>. QED BY <2>2, <2>3
<1>10. ASSUME NEW b \in Attachment PROVE CommentInv(Key(b))'
  <2>. SUFFICES ASSUME Says[b].kind = "comment" PROVE CommentInv(Key(b))'
    BY DEF CommentInv, Key
  <2>1. \A c \in Attachment : Key(c) = Key(b) => ~Email(c, e)
    BY DEF Key, Email
  <2>2. Noted(Key(b))' = Noted(Key(b))
    BY <1>8, <2>1, NotedKept
  <2>. QED BY <1>2, <2>2 DEF AttachInv, CommentInv, Count
<1>11. ASSUME NEW w \in Subject PROVE WriterInv(w)'
  <2>1. \A t \in Attacher : Writing(t, w)' <=> Writing(t, w)
    BY <1>2, <1>5 DEF Writing
  <2>2. ASSUME NEW d \in Data PROVE ContactsOf(d)' \subseteq ContactsOf(d)
    BY <1>3 DEF ContactsOf
  <2>3. WriterInv(w)
    BY DEF AttachInv
  <2>. QED BY <1>2, <2>1, <2>2, <2>3 DEF WriterInv
<1>. QED BY <1>2, <1>4, <1>6, <1>7, <1>9, <1>10, <1>11 DEF AttachInv

\* A step of the server, whoever takes it.
LEMMA NextAttachInv ==
  ASSUME AttachInv, IsFiniteSet(Attachment), [Next]_vars PROVE AttachInv'
<1>1. CASE UNCHANGED attachVars
  <2>1. UNCHANGED <<filed, notes, contacts, links, attacher, excused, again, doubled>>
    BY <1>1 DEF attachVars
  <2>2. AttachTypeOK' /\ again' \subseteq Attachment
    BY <2>1 DEF AttachInv, AttachTypeOK, Key, Notable, Data
  <2>3. \A t \in Attacher : HeldInv(t)'
    BY <2>1 DEF AttachInv, HeldInv, Held, Notable
  <2>4. \A a \in Attachment : OnceInv(a)'
    BY <2>1 DEF AttachInv, OnceInv, Held
  <2>5. \A a \in Attachment : /\ Toward(a, "saved", "to saved")' <=> Toward(a, "saved", "to saved")
                              /\ Toward(a, "deferred", "to deferred")' <=> Toward(a, "deferred", "to deferred")
    BY <2>1 DEF Toward, Held
  <2>6. \A a \in Attachment : PlaceInv(a)'
    BY <2>1, <2>5 DEF AttachInv, PlaceInv, Kept, ContactKept, ContactsOf
  <2>7. ASSUME NEW a \in Attachment PROVE CommentInv(Key(a))'
    BY <2>5, NotedKept, <2>1 DEF AttachInv, CommentInv, Count
  <2>8. ASSUME NEW w \in Subject PROVE WriterInv(w)'
    BY <2>1, WritersLeave DEF Writing, Held, AttachInv
  <2>. QED BY <2>2, <2>3, <2>4, <2>6, <2>7, <2>8 DEF AttachInv
<1>2. CASE FileAway
  <2>1. CASE \E t \in Attacher : AttachStart(t)
    BY <2>1, StartAttach
  <2>2. CASE \E t \in Attacher : AttachStep(t)
    <3>1. PICK t \in Attacher : AttachStep(t)
      BY <2>2
    <3>2. CASE AttachNext(t)
      BY <3>2, NextAttach
    <3>3. CASE AttachLookUp(t)
      BY <3>3, LookUpAttach
    <3>4. CASE Dies(t)
      BY <3>4, KilledAttach
    <3>5. CASE AttachNote(t)
      BY <3>5, NoteAttach
    <3>6. CASE AttachContact(t)
      BY <3>6, ContactAttach
    <3>7. CASE AttachLink(t)
      BY <3>7, LinkAttach
    <3>8. CASE AttachMove(t)
      BY <3>8, MoveAttach
    <3>. QED BY <3>1, <3>2, <3>3, <3>4, <3>5, <3>6, <3>7, <3>8 DEF AttachStep
  <2>3. CASE \E t \in Attacher : AttachKilled(t)
    BY <2>3, KilledAttach
  <2>4. CASE \E a \in Attachment : Attach(a)
    BY <2>4, AttachAttach
  <2>5. CASE \E a \in Attachment : EraseContact(Says[a].data)
    BY <2>5, EraseAttach DEF Data
  <2>. QED BY <1>2, <2>1, <2>2, <2>3, <2>4, <2>5 DEF FileAway
<1>3. CASE UNCHANGED vars
  BY <1>1, <1>3 DEF vars
<1>4. CASE Next
  BY <1>1, <1>2, <1>4 DEF Next, webVars
<1>. QED BY <1>3, <1>4

\* The strengthened invariant of the attachments holds of every state of the server.
THEOREM AttachInvAlways ==
  ASSUME IsFiniteSet(Attachment) PROVE Spec => []AttachInv
<1>1. Init => AttachInv
  BY InitAttach DEF Init
<1>2. AttachInv /\ [Next]_vars => AttachInv'
  BY NextAttachInv
<1>. QED BY <1>1, <1>2, PTL DEF Spec

\* A comment is stored once for each file that said it, a URL once, an address
\* once, and what was saved or deferred is linked, except where two processes
\* looked up the same thing, a file was processed again, its report was not there
\* or its reporter deleted his data (pyfaf/ureport.py, save_attachment).
THEOREM AttachmentsKeptAlways ==
  ASSUME IsFiniteSet(Attachment) PROVE Spec => []AttachmentsKept
<1>1. ASSUME AttachInv PROVE AttachmentsKept
  <2>1. ASSUME NEW k \in DOMAIN notes
        PROVE  IF k[1] = "url" THEN notes[k] = 1 \/ k \in doubled
               ELSE \/ \E a \in again : Key(a) = k
                    \/ notes[k] \in Cardinality(Filed(k, {"saved"})) .. Cardinality(Filed(k, {"saved", "incoming"}))
    <3>1. PICK a \in Notable : k = Key(a)
      BY <1>1 DEF AttachInv, AttachTypeOK
    <3>2. a \in Attachment /\ k[1] = Says[a].kind /\ k[1] \in {"comment", "url"} /\ k = About(a)
      BY <3>1 DEF Notable, Key, About
    <3>3. CASE k[1] = "url"
      BY <1>1, <3>2, <2>1, <3>3 DEF AttachInv, Subject, WriterInv
    <3>4. CASE k[1] # "url"
      <4>. SUFFICES ASSUME ~ \E b \in again : Key(b) = k
           PROVE  notes[k] \in Cardinality(Filed(k, {"saved"})) .. Cardinality(Filed(k, {"saved", "incoming"}))
        BY <3>4
      <4>1. notes[k] = Cardinality(Noted(k))
        BY <1>1, <2>1, <3>1, <3>2, <3>4 DEF AttachInv, CommentInv, Count
      <4>2. Filed(k, {"saved"}) \subseteq Noted(k)
        BY DEF Filed, Noted, Toward
      <4>3. ASSUME NEW b \in Noted(k) PROVE filed[b] \in {"saved", "incoming"}
        BY <1>1 DEF Noted, AttachInv, Toward, OnceInv
      <4>4. Noted(k) \subseteq Filed(k, {"saved", "incoming"})
        BY <4>3 DEF Noted, Filed
      <4>5. IsFiniteSet(Filed(k, {"saved", "incoming"})) /\ IsFiniteSet(Noted(k))
        BY FS_Subset DEF Filed, Noted
      <4>6. /\ Cardinality(Filed(k, {"saved"})) <= Cardinality(Noted(k))
            /\ Cardinality(Noted(k)) <= Cardinality(Filed(k, {"saved", "incoming"}))
        BY <4>2, <4>4, <4>5, FS_Subset
      <4>7. /\ Cardinality(Noted(k)) \in Nat /\ Cardinality(Filed(k, {"saved", "incoming"})) \in Nat
            /\ Cardinality(Filed(k, {"saved"})) \in Nat
        BY <4>2, <4>5, FS_Subset, FS_CardinalityType
      <4>. QED BY <4>1, <4>6, <4>7
    <3>. QED BY <3>3, <3>4
  <2>2. ASSUME NEW a \in {b \in Attachment : filed[b] # "none"}
        PROVE  /\ filed[a] = "saved" /\ Says[a].kind \in {"comment", "url"} => Key(a) \in DOMAIN notes
               /\ filed[a] = "saved" /\ Says[a].kind = "email" => a \in excused \/ ContactKept(a)
               /\ filed[a] = "deferred" /\ Says[a].kind \in Allowed => a \in excused \/ ContactKept(a)
               /\ Says[a].kind = "email" => About(a) \in doubled \/ Cardinality(ContactsOf(Says[a].data)) <= 1
    <3>1. PlaceInv(a) /\ WriterInv(About(a))
      BY <1>1 DEF AttachInv, Subject
    <3>2. ASSUME Says[a].kind = "email", About(a) \notin doubled
          PROVE  Cardinality(ContactsOf(Says[a].data)) <= 1
      <4>. DEFINE e == Says[a].data
                  S == ContactsOf(e)
      <4>1. e \in Data /\ About(a) = <<"email", e>>
        BY <3>2 DEF Data, About
      <4>2. \A i, j \in S : i = j
        BY <3>1, <3>2, <4>1 DEF WriterInv
      <4>. HIDE DEF S
      <4>3. S = {} \/ \E i : S = {i}
        BY <4>2
      <4>4. Cardinality(S) \in {0, 1}
        BY <4>3, FS_EmptySet, FS_Singleton
      <4>. QED BY <4>4 DEF S
    <3>3. /\ filed[a] = "saved" => Toward(a, "saved", "to saved")
          /\ filed[a] = "deferred" => Toward(a, "deferred", "to deferred")
      BY DEF Toward
    <3>. QED BY <3>1, <3>2, <3>3 DEF PlaceInv, Kept, Notable
  <2>. QED BY <2>1, <2>2 DEF AttachmentsKept
<1>. QED BY <1>1, AttachInvAlways, PTL

-----------------------------------------------------------------------------
(* Probable fixes: what the choice of one run depends on.                  *)

\* A finite set of numbers has a greatest one: the smallest subset that had none
\* would have one of its elements less.
LEMMA Greatest ==
  ASSUME NEW S, S \subseteq Nat, IsFiniteSet(S), S # {}
  PROVE  Max(S) \in S /\ \A m \in S : m <= Max(S)
<1>. DEFINE Bad == {r \in SUBSET S : r # {} /\ ~ \E n \in r : \A m \in r : m <= n}
            T == {Cardinality(r) : r \in Bad}
<1>1. \A r \in SUBSET S : IsFiniteSet(r) /\ Cardinality(r) \in Nat
  BY FS_Subset, FS_CardinalityType
<1>2. T = {}
  <2>. SUFFICES ASSUME T # {} PROVE FALSE
    OBVIOUS
  <2>1. T \subseteq Nat
    BY <1>1
  <2>2. PICK n \in T : \A m \in T : n <= m
    BY <2>1, Least
  <2>3. PICK r \in Bad : n = Cardinality(r)
    OBVIOUS
  <2>4. PICK y \in r : y \in Nat
    OBVIOUS
  <2>5. Cardinality(r \ {y}) = n - 1 /\ n \in Nat
    BY <1>1, <2>3, FS_RemoveElement
  <2>6. r \ {y} \notin Bad
    <3>1. n - 1 \notin T
      BY <2>2, <2>5
    <3>. QED BY <2>5, <3>1
  <2>7. r \ {y} = {} \/ \E k \in r \ {y} : \A m \in r \ {y} : m <= k
    BY <2>6
  <2>8. CASE r \ {y} = {}
    BY <2>4, <2>8
  <2>9. CASE \E k \in r \ {y} : \A m \in r \ {y} : m <= k
    <3>1. PICK k \in r \ {y} : \A m \in r \ {y} : m <= k
      BY <2>9
    <3>2. k \in Nat /\ r \subseteq Nat
      OBVIOUS
    <3>3. CASE y <= k
      BY <3>1, <3>3
    <3>4. CASE ~(y <= k)
      BY <2>4, <3>1, <3>2, <3>4
    <3>. QED BY <3>3, <3>4
  <2>. QED BY <2>7, <2>8, <2>9
<1>3. \E n \in S : \A m \in S : n >= m
  <2>1. S \notin Bad
    BY <1>2
  <2>2. PICK n \in S : \A m \in S : m <= n
    BY <2>1
  <2>3. \A m \in S : n >= m
    BY <2>2
  <2>. QED BY <2>3
<1>4. Max(S) \in S /\ \A m \in S : Max(S) >= m
  BY <1>3 DEF Max
<1>. QED BY <1>4

LEMMA ImageFinite ==
  ASSUME NEW S, IsFiniteSet(S)
  PROVE  IsFiniteSet({a[1] : a \in S}) /\ IsFiniteSet({a[2] : a \in S})
<1>1. ASSUME NEW n PROVE IsFiniteSet({a[n] : a \in S})
  <2>. DEFINE f == [a \in S |-> a[n]]
              R == {a[n] : a \in S}
  <2>1. f \in Surjection(S, R)
    BY DEF Surjection
  <2>. HIDE DEF f, R
  <2>2. IsFiniteSet(R)
    BY <2>1, FS_Surjection
  <2>. QED BY <2>2 DEF R
<1>. QED BY <1>1

\* At most one build is chosen (mark_probably_fixed.py, run).
LEMMA OneFix ==
  ASSUME NEW q, NEW release, NEW list
  PROVE  FixOf(q, release, list) = {} \/ \E b : FixOf(q, release, list) = {b}
BY DEF FixOf, OldestFix

\* The run goes through the builds of the package that crashed from the newest on
\* while they are newer than what crashed; it ends at the oldest one that is newer
\* than every package affected in any report, unless the packages differ.
LEMMA FixOfRight ==
  ASSUME NEW q, NEW release, NEW S, koji[release] \in Seq(ABuild), IsFiniteSet(S),
         \A r \in ReportsIn(q, release) : Affected(r) \subseteq S,
         \A a \in S : a[2] \in Nat
  PROVE  Right(q, release) = RightFix(q, release)
<1>. DEFINE list == koji[release]
            mine == ReportsIn(q, release)
            all == UNION {Affected(r) : r \in mine}
            names == {a[1] : a \in all}
            good == {i \in DOMAIN list : Fixes(q, release, i)}
<1>1. IsFiniteSet(all) /\ \A a \in all : a[2] \in Nat
  BY FS_Subset
<1>2. IsFiniteSet(names) /\ IsFiniteSet({a[2] : a \in all}) /\ {a[2] : a \in all} \subseteq Nat
  <2>1. {a[2] : a \in all} \subseteq Nat
    BY <1>1
  <2>. HIDE DEF all
  <2>. QED BY <1>1, <2>1, ImageFinite
<1>3. CASE mine = {} \/ \E r \in mine : Affected(r) = {}
  BY <1>3 DEF Fixes, Right, FixOf, RightFix
<1>4. CASE ~(mine = {} \/ \E r \in mine : Affected(r) = {}) /\ Cardinality(names) > 1
  <2>1. PICK x \in names, y \in names : x # y
    <3>. SUFFICES ASSUME \A x, y \in names : x = y PROVE FALSE
      OBVIOUS
    <3>. HIDE DEF names
    <3>1. ASSUME NEW x \in names PROVE names = {x}
      OBVIOUS
    <3>2. Cardinality(names) \in {0, 1}
      BY <3>1, FS_EmptySet, FS_Singleton
    <3>. QED BY <1>4, <3>2
  <2>2. good = {}
    <3>. SUFFICES ASSUME NEW i \in DOMAIN list, Fixes(q, release, i) PROVE FALSE
      OBVIOUS
    <3>1. i \in 1 .. i
      OBVIOUS
    <3>2. \A a \in all : a[1] = list[i][1]
      BY <3>1 DEF Fixes
    <3>. QED BY <2>1, <3>2
  <2>3. Right(q, release) = {}
    BY <1>4 DEF Right, FixOf
  <2>. QED BY <2>2, <2>3 DEF RightFix
<1>5. CASE ~(mine = {} \/ \E r \in mine : Affected(r) = {}) /\ ~(Cardinality(names) > 1)
  <2>1. all # {}
    BY <1>5
  <2>2. PICK name : names = {name}
    <3>1. PICK x \in names : TRUE
      BY <2>1
    <3>2. ASSUME NEW y \in names, y # x PROVE FALSE
      <4>. HIDE DEF names
      <4>1. {x, y} \subseteq names /\ Cardinality({x, y}) = 2
        <5>1. {x, y} = {x} \cup {y} /\ y \notin {x} /\ IsFiniteSet({x}) /\ Cardinality({x}) = 1
          BY <3>2, FS_Singleton
        <5>2. Cardinality({x} \cup {y}) = 1 + 1
          BY <5>1, FS_AddElement
        <5>3. {x, y} \subseteq names
          OBVIOUS
        <5>4. Cardinality({x, y}) = 2
          BY <5>1, <5>2
        <5>. QED BY <5>3, <5>4
      <4>2. Cardinality(names) >= 2 /\ Cardinality(names) \in Nat
        BY <1>2, <4>1, FS_Subset, FS_CardinalityType
      <4>. QED BY <1>5, <4>2
    <3>. HIDE DEF names
    <3>3. names = {x}
      BY <3>1, <3>2
    <3>. QED BY <3>3
  <2>3. (CHOOSE n \in names : TRUE) = name
    BY <2>2
  <2>. DEFINE V == {a[2] : a \in all}
              newest == Max(V)
              named == BuildsNamed(list, name)
              newer == {i \in named : \A j \in named : j <= i => list[j][2] > newest}
  <2>4. newest \in Nat /\ (\A a \in all : a[2] <= newest) /\ newest \in V
    <3>1. V # {} /\ IsFiniteSet(V) /\ V \subseteq Nat
      BY <1>2, <2>1
    <3>. HIDE DEF V
    <3>2. Max(V) \in V /\ \A m \in V : m <= Max(V)
      BY <3>1, Greatest
    <3>. QED BY <3>1, <3>2 DEF V
  <2>5. Right(q, release) = IF newer = {} THEN {} ELSE {list[Max(newer)]}
    BY <1>5, <2>3 DEF Right, FixOf, OldestFix
  <2>. HIDE DEF newest
  <2>6. \A j \in DOMAIN list : list[j][2] \in Nat
    BY DEF ABuild
  <2>7. \A j \in DOMAIN list : list[j][2] > newest <=> \A a \in all : list[j][2] > a[2]
    <3>. SUFFICES ASSUME NEW j \in DOMAIN list
                  PROVE  list[j][2] > newest <=> \A a \in all : list[j][2] > a[2]
      OBVIOUS
    <3>1. PICK a \in all : newest = a[2]
      BY <2>4
    <3>. QED BY <1>1, <2>4, <2>6, <3>1
  <2>8. DOMAIN list = 1 .. Len(list) /\ Len(list) \in Nat
    OBVIOUS
  <2>9. \A a \in all : a[1] = name
    BY <2>2
  <2>10. \A i \in DOMAIN list : Fixes(q, release, i) <=> i \in newer
    <3>. SUFFICES ASSUME NEW i \in DOMAIN list PROVE Fixes(q, release, i) <=> i \in newer
      OBVIOUS
    <3>1. Fixes(q, release, i) <=>
            \A a \in all, j \in 1 .. i : a[1] = list[i][1] /\ (list[j][1] = list[i][1] => list[j][2] > a[2])
      BY <1>5 DEF Fixes
    <3>2. i \in 1 .. i /\ \A j \in 1 .. i : j \in DOMAIN list
      BY <2>8
    <3>3. ASSUME Fixes(q, release, i) PROVE i \in newer
      <4>1. list[i][1] = name
        BY <2>1, <2>9, <3>1, <3>2, <3>3
      <4>2. ASSUME NEW j \in named, j <= i PROVE list[j][2] > newest
        <5>1. j \in DOMAIN list /\ list[j][1] = name
          BY DEF BuildsNamed
        <5>2. j \in 1 .. i
          BY <2>8, <4>2, <5>1
        <5>3. \A a \in all : list[j][2] > a[2]
          BY <3>1, <3>3, <4>1, <5>1, <5>2
        <5>. QED BY <2>7, <5>1, <5>3
      <4>. QED BY <4>1, <4>2 DEF BuildsNamed
    <3>4. ASSUME i \in newer PROVE Fixes(q, release, i)
      <4>1. list[i][1] = name
        BY <3>4 DEF BuildsNamed
      <4>2. ASSUME NEW j \in 1 .. i, list[j][1] = name, NEW a \in all PROVE list[j][2] > a[2]
        BY <3>2, <4>2, <3>4, <2>7 DEF BuildsNamed
      <4>. QED BY <2>9, <3>1, <4>1, <4>2
    <3>. QED BY <3>3, <3>4
  <2>11. good = newer
    BY <2>10 DEF BuildsNamed
  <2>. QED BY <2>5, <2>11 DEF RightFix
<1>. QED BY <1>3, <1>4, <1>5

-----------------------------------------------------------------------------
(* The rows: every step keeps them.                                        *)

LEMMA RangeOf == ASSUME NEW s, NEW i \in DOMAIN s PROVE s[i] \in Range(s)
BY DEF Range

LEMMA SeqOver ==
  ASSUME NEW S, NEW s \in Seq(S)
  PROVE  IsSeq(s) /\ Range(s) \subseteq S
<1>1. DOMAIN s = 1 .. Len(s) /\ Len(s) \in Nat /\ s = [i \in 1 .. Len(s) |-> s[i]]
  OBVIOUS
<1>2. \A i \in 1 .. Len(s) : s[i] \in Range(s) /\ s[i] \in S
  BY <1>1, RangeOf
<1>. DEFINE T == Range(s)
<1>3. T \subseteq S
  BY <1>1, <1>2 DEF Range
<1>4. \A i \in 1 .. Len(s) : s[i] \in T
  BY <1>2
<1>. HIDE DEF T
<1>5. s \in Seq(T)
  BY <1>1, <1>4
<1>. QED BY <1>3, <1>5 DEF T, IsSeq

LEMMA SeqTail ==
  ASSUME NEW s, IsSeq(s), s # <<>>
  PROVE  /\ IsSeq(Tail(s)) /\ Range(Tail(s)) \subseteq Range(s) /\ Head(s) \in Range(s)
<1>. DEFINE S == Range(s)
<1>1. s \in Seq(S)
  BY DEF IsSeq
<1>. HIDE DEF S
<1>2. Tail(s) \in Seq(S) /\ Head(s) \in S
  BY <1>1
<1>3. IsSeq(Tail(s)) /\ Range(Tail(s)) \subseteq S
  BY <1>2, SeqOver
<1>. QED BY <1>2, <1>3 DEF S

LEMMA SeqConcat ==
  ASSUME NEW s, NEW t, IsSeq(s), IsSeq(t)
  PROVE  IsSeq(s \o t) /\ Range(s \o t) = Range(s) \cup Range(t)
<1>. DEFINE S == Range(s) \cup Range(t)
<1>1. s \in Seq(Range(s)) /\ t \in Seq(Range(t))
  BY DEF IsSeq
<1>2. s \in Seq(S) /\ t \in Seq(S)
  <2>. DEFINE A == Range(s)
              B == Range(t)
  <2>1. s \in Seq(A) /\ t \in Seq(B)
    BY <1>1
  <2>. HIDE DEF A, B
  <2>2. s \in Seq(A \cup B) /\ t \in Seq(A \cup B)
    BY <2>1
  <2>. QED BY <2>2 DEF A, B
<1>. HIDE DEF S
<1>3. s \o t \in Seq(S) /\ Len(s \o t) = Len(s) + Len(t) /\ Len(s) \in Nat /\ Len(t) \in Nat
  BY <1>2
<1>4. IsSeq(s \o t) /\ Range(s \o t) \subseteq S
  BY <1>3, SeqOver
<1>5. DOMAIN s = 1 .. Len(s) /\ DOMAIN t = 1 .. Len(t) /\ DOMAIN (s \o t) = 1 .. Len(s \o t)
  BY <1>2, <1>3
<1>6. ASSUME NEW i \in DOMAIN s PROVE s[i] \in Range(s \o t)
  <2>1. i \in DOMAIN (s \o t) /\ (s \o t)[i] = s[i]
    BY <1>2, <1>3, <1>5
  <2>. QED BY <2>1, RangeOf
<1>7. ASSUME NEW i \in DOMAIN t PROVE t[i] \in Range(s \o t)
  <2>1. Len(s) + i \in DOMAIN (s \o t)
    BY <1>3, <1>5
  <2>2. (s \o t)[Len(s) + i] = t[i]
    BY <1>2, <1>3, <1>5, <2>1
  <2>. QED BY <2>1, <2>2, RangeOf
<1>8. S \subseteq Range(s \o t)
  BY <1>6, <1>7 DEF Range, S
<1>. QED BY <1>4, <1>8 DEF S

LEMMA SeqAppend ==
  ASSUME NEW s, NEW e, IsSeq(s)
  PROVE  IsSeq(Append(s, e)) /\ Range(Append(s, e)) = Range(s) \cup {e}
<1>1. <<e>> \in Seq({e}) /\ <<e>>[1] = e /\ 1 \in DOMAIN <<e>>
  OBVIOUS
<1>2. IsSeq(<<e>>) /\ Range(<<e>>) \subseteq {e}
  BY <1>1, SeqOver
<1>3. e \in Range(<<e>>)
  BY <1>1, RangeOf
<1>4. IsSeq(s \o <<e>>) /\ Range(s \o <<e>>) = Range(s) \cup Range(<<e>>)
  BY <1>2, SeqConcat
<1>5. Append(s, e) = s \o <<e>>
  <2>. DEFINE A == Range(s) \cup {e}
  <2>1. s \in Seq(Range(s))
    BY DEF IsSeq
  <2>2. s \in Seq(A) /\ e \in A
    <3>. DEFINE B == Range(s)
    <3>1. s \in Seq(B)
      BY <2>1
    <3>. HIDE DEF B
    <3>2. s \in Seq(B \cup {e})
      BY <3>1
    <3>. QED BY <3>2 DEF B
  <2>. HIDE DEF A
  <2>. QED BY <2>2
<1>. QED BY <1>2, <1>3, <1>4, <1>5

\* The items that are counted name packages that there are.
ProperItems(s) == IsSeq(s) /\ \A e \in Range(s) : Proper(e)
LEMMA ProperConcat ==
  ASSUME NEW s, NEW t, ProperItems(s), ProperItems(t)
  PROVE  ProperItems(s \o t)
BY SeqConcat DEF ProperItems

LEMMA ProperEach ==
  ASSUME NEW n \in Nat, NEW s, s = [i \in 1 .. n |-> s[i]], \A i \in 1 .. n : Proper(s[i])
  PROVE  ProperItems(s)
<1>1. DOMAIN s = 1 .. n
  OBVIOUS
<1>2. ASSUME NEW e \in Range(s) PROVE Proper(e)
  <2>1. PICK i \in DOMAIN s : e = s[i]
    BY DEF Range
  <2>. QED BY <1>1, <2>1
<1>3. s \in Seq(Range(s))
  <2>1. \A i \in 1 .. n : s[i] \in Range(s)
    BY <1>1, RangeOf
  <2>. DEFINE T == Range(s)
  <2>2. \A i \in 1 .. n : s[i] \in T
    BY <2>1
  <2>. HIDE DEF T
  <2>3. s \in Seq(T)
    BY <2>2
  <2>. QED BY <2>3 DEF T
<1>. QED BY <1>2, <1>3 DEF ProperItems, IsSeq

LEMMA ItemsProper ==
  ASSUME NEW u \in UReport
  PROVE  ProperItems(Items(Completed(u)))
<1>. DEFINE v == Completed(u)
            k == v.packages
            d == v.desktop
            pk == [i \in DOMAIN k |-> <<"package", k[i][1], k[i][2]>>]
            none == ""
            ds == [i \in 1 .. Len(d) |-> <<"desktop", d[i], none>>]
<1>1. /\ {"type", "os", "release", "packages", "desktop", "executable", "threads"} \subseteq DOMAIN u
      /\ u.packages \in Seq((DOMAIN BuildOf) \X STRING) /\ u.desktop \in Seq(STRING)
  BY UReportAssumption
<1>2. v.packages = u.packages /\ v.desktop = u.desktop
  BY <1>1 DEF Completed
<1>3. ProperItems(pk)
  <2>. DEFINE P == (DOMAIN BuildOf) \X STRING
  <2>1. k \in Seq(P)
    BY <1>1, <1>2
  <2>2. DOMAIN k = 1 .. Len(k) /\ Len(k) \in Nat
    <3>. HIDE DEF P, k
    <3>. QED BY <2>1
  <2>3. \A i \in 1 .. Len(k) : k[i] \in P
    <3>. HIDE DEF P, k
    <3>. QED BY <2>1
  <2>4. \A i \in 1 .. Len(k) : k[i][1] \in DOMAIN BuildOf
    BY <2>3
  <2>. HIDE DEF k
  <2>5. pk = [i \in 1 .. Len(k) |-> pk[i]] /\ \A i \in 1 .. Len(k) : pk[i] = <<"package", k[i][1], k[i][2]>>
    BY <2>2
  <2>. HIDE DEF pk
  <2>6. \A i \in 1 .. Len(k) : Proper(pk[i])
    BY <2>4, <2>5 DEF Proper
  <2>. QED BY <2>2, <2>5, <2>6, ProperEach
<1>4. ProperItems(ds)
  <2>1. Len(d) \in Nat
    BY <1>1, <1>2
  <2>. HIDE DEF d, none
  <2>2. ds = [i \in 1 .. Len(d) |-> ds[i]] /\ \A i \in 1 .. Len(d) : ds[i] = <<"desktop", d[i], none>>
    OBVIOUS
  <2>. HIDE DEF ds
  <2>3. ASSUME NEW i \in 1 .. Len(d) PROVE Proper(ds[i])
    BY <2>2 DEF Proper
  <2>. QED BY <2>1, <2>2, <2>3, ProperEach
<1>5. ASSUME NEW e, Proper(e) PROVE ProperItems(<<e>>)
  <2>1. <<e>> = [i \in 1 .. 1 |-> <<e>>[i]] /\ <<e>>[1] = e
    OBVIOUS
  <2>2. \A i \in 1 .. 1 : Proper(<<e>>[i])
    BY <1>5, <2>1
  <2>. QED BY <2>1, <2>2, ProperEach
<1>6. ProperItems(<<>>)
  <2>1. <<>> = [i \in 1 .. 0 |-> <<>>[i]]
    OBVIOUS
  <2>2. \A i \in 1 .. 0 : Proper(<<>>[i])
    OBVIOUS
  <2>. QED BY <2>1, <2>2, ProperEach
<1>7. ProperItems(ReleaseItem(v))
  <2>1. Proper(<<"release", v.release, "">>)
    BY DEF Proper
  <2>. HIDE DEF v
  <2>. QED BY <1>5, <2>1 DEF ReleaseItem
<1>8. ProperItems(Executable(v))
  <2>1. ASSUME NEW x PROVE Proper(<<"executable", x, "">>)
    BY DEF Proper
  <2>. HIDE DEF v
  <2>. QED BY <1>5, <1>6, <2>1 DEF Executable
<1>9. ProperItems(IF v.os = "fedora" THEN FedoraItems(v) ELSE CentosItems(v))
  <2>1. FedoraItems(v) = ds \o pk /\ CentosItems(v) = pk
    BY DEF FedoraItems, CentosItems
  <2>. HIDE DEF v, ds, pk
  <2>. QED BY <1>3, <1>4, <2>1, ProperConcat
<1>10. Items(v) = ReleaseItem(v) \o (IF v.os = "fedora" THEN FedoraItems(v) ELSE CentosItems(v)) \o Executable(v)
  <2>. HIDE DEF v
  <2>. QED BY DEF Items
<1>. HIDE DEF v
<1>11. ProperItems(ReleaseItem(v) \o (IF v.os = "fedora" THEN FedoraItems(v) ELSE CentosItems(v)))
  BY <1>7, <1>9, ProperConcat
<1>12. ProperItems(Items(v))
  BY <1>8, <1>10, <1>11, ProperConcat
<1>. QED BY <1>12 DEF v

LEMMA RowsKept ==
  ASSUME RowsInv, UNCHANGED <<rows, saver, session, matcher>>
  PROVE  RowsInv'
BY DEF RowsInv, SaverRows, MatcherRows

LEMMA InitRows == ASSUME Init PROVE RowsInv
<1>1. RowsInit({})
  BY DEF Init
<1>2. DOMAIN rows = {}
  BY <1>1 DEF RowsInit
<1>3. saver = [p \in Saver |-> NoWork] /\ session = [p \in Saver |-> Clean] /\ matcher = [m \in Matcher |-> NoMatch]
  BY <1>1 DEF RowsInit
<1>4. IsFiniteSet({})
  BY FS_EmptySet
<1>5. IsSeq(<<>>) /\ Range(<<>>) = {}
  BY DEF IsSeq, Range
<1>6. ASSUME NEW p \in Saver PROVE SaverRows(p)
  <2>1. saver[p] = NoWork /\ session[p] = Clean
    BY <1>3
  <2>2. DOMAIN saver[p] = SaverFields /\ saver[p].pc # "rows"
    BY <2>1 DEF NoWork, SaverFields
  <2>3. DOMAIN session[p] = SessionFields /\ session[p].held = <<>> /\ session[p].added = <<>>
    BY <2>1 DEF Clean, SessionFields
  <2>4. DOMAIN session[p].held = {}
    BY <2>3
  <2>. QED BY <1>4, <1>5, <2>2, <2>3, <2>4 DEF SaverRows
<1>7. ASSUME NEW m \in Matcher PROVE MatcherRows(m)
  BY <1>3 DEF MatcherRows, NoMatch, MatcherFields
<1>. QED BY <1>2, <1>3, <1>4, <1>6, <1>7 DEF RowsInv

\* A process that keeps its own part right disturbs nobody's.
LEMMA SaverMoves ==
  ASSUME RowsInv, NEW p \in Saver, UNCHANGED <<rows, matcher>>,
         DOMAIN saver' = Saver, DOMAIN session' = Saver,
         \A x \in Saver \ {p} : saver'[x] = saver[x] /\ session'[x] = session[x],
         SaverRows(p)'
  PROVE  RowsInv'
<1>1. ASSUME NEW x \in Saver PROVE SaverRows(x)'
  <2>1. CASE x = p
    BY <2>1
  <2>2. CASE x # p
    BY <2>2 DEF RowsInv, SaverRows
  <2>. QED BY <2>1, <2>2
<1>. QED BY <1>1 DEF RowsInv, MatcherRows

\* A process that ends, or has not begun, claims nothing.
LEMMA Resting ==
  ASSUME NEW p \in Saver, DOMAIN saver'[p] = SaverFields, saver'[p].pc # "rows", session'[p] = Clean
  PROVE  SaverRows(p)'
<1>1. IsSeq(<<>>) /\ Range(<<>>) = {} /\ IsFiniteSet({})
  BY FS_EmptySet DEF IsSeq, Range
<1>2. DOMAIN session'[p] = SessionFields /\ session'[p].held = <<>> /\ session'[p].added = <<>>
  BY DEF Clean, SessionFields
<1>3. DOMAIN session'[p].held = {}
  BY <1>2
<1>. QED BY <1>1, <1>2, <1>3 DEF SaverRows

LEMMA BeginRows ==
  ASSUME RowsInv, NEW p \in Saver, NEW u \in UReport, Begin(p, u)
  PROVE  RowsInv'
<1>. DEFINE full == Completed(u)
<1>1. ~(Valid(full) /\ PackagesValid(full)) \/ HashFails(full) \/ ~(~(Valid(full) /\ PackagesValid(full)) \/ HashFails(full))
  OBVIOUS
<1>2. rows' = rows /\ session' = session
  BY DEF Begin
<1>3. CASE ~(Valid(full) /\ PackagesValid(full))
  BY <1>3, <1>2, RowsKept DEF Begin
<1>4. CASE Valid(full) /\ PackagesValid(full) /\ HashFails(full)
  <2>1. saver' = [saver EXCEPT ![p].pc = "dead"] /\ matcher' = matcher
    BY <1>4 DEF Begin
  <2>2. SaverRows(p)'
    BY <2>1, <1>2 DEF RowsInv, SaverRows, SaverFields
  <2>. QED BY <1>2, <2>1, <2>2, SaverMoves DEF RowsInv
<1>5. CASE Valid(full) /\ PackagesValid(full) /\ ~HashFails(full)
  <2>1. /\ saver' = [NotAlone(p) EXCEPT ![p] =
                         [pc |-> "rows", u |-> {full}, report |-> {Hash(full)}, isNew |-> Hash(full) \notin reports,
                          left |-> Items(full), alone |-> AtWork \ {p} = {}]]
        /\ matcher' = [m \in Matcher |-> [matcher[m] EXCEPT !.alone = FALSE]]
    BY <1>5 DEF Begin
  <2>2. DOMAIN saver' = Saver /\ DOMAIN matcher' = Matcher
    BY <2>1 DEF NotAlone
  <2>3. ASSUME NEW x \in Saver PROVE SaverRows(x)'
    <3>0. SaverRows(x) /\ session'[x] = session[x]
      BY <1>2 DEF RowsInv
    <3>1. CASE x = p
      BY <2>1, <3>1, ItemsProper, <3>0 DEF NotAlone, SaverFields, SaverRows, ProperItems
    <3>2. CASE x # p
      BY <2>1, <3>2, <3>0 DEF NotAlone, SaverRows, SaverFields
    <3>. QED BY <3>1, <3>2
  <2>4. ASSUME NEW m \in Matcher PROVE MatcherRows(m)'
    BY <2>1 DEF RowsInv, MatcherRows, MatcherFields
  <2>. QED BY <1>2, <2>2, <2>3, <2>4 DEF RowsInv
<1>. QED BY <1>3, <1>4, <1>5

LEMMA TableBuilt ==
  ASSUME NEW item, NEW r, Proper(item)
  PROVE  Built(<<Table(item), r, item[2], item[3]>>)
<1>1. Table(item) \in {"known", "unknown"} => item[1] = "package"
  BY DEF Table, Proper
<1>2. <<Table(item), r, item[2], item[3]>>[1] = Table(item) /\ <<Table(item), r, item[2], item[3]>>[3] = item[2]
  OBVIOUS
<1>. QED BY <1>1, <1>2 DEF Built, Proper

LEMMA CountRows ==
  ASSUME RowsInv, NEW p \in Saver, CountItem(p)
  PROVE  RowsInv'
<1>. DEFINE r == Only(saver[p].report)
            item == Head(saver[p].left)
            table == Table(item)
            found == IF saver[p].isNew THEN {} ELSE Rows(r, item, table)
            held == session[p].held
            key == <<table, r, item[2], item[3]>>
<1>1. /\ saver[p].pc = "rows" /\ saver[p].left # <<>>
      /\ saver' = [saver EXCEPT ![p].left = Tail(@)]
      /\ \/ UNCHANGED session
         \/ session' = [session EXCEPT ![p].added = Append(@, <<key, 1>>)]
         \/ \E k \in found :
              session' = [session EXCEPT ![p].held = Put(@, k, (IF k \in DOMAIN held THEN held[k] ELSE rows[k]) + 1)]
      /\ UNCHANGED <<rows, matcher>>
  BY DEF CountItem
<1>2. SaverRows(p) /\ DOMAIN saver = Saver /\ DOMAIN session = Saver
  BY DEF RowsInv
<1>3. IsSeq(saver[p].left) /\ \A e \in Range(saver[p].left) : Proper(e)
  BY <1>1, <1>2 DEF SaverRows
<1>4. /\ IsSeq(Tail(saver[p].left)) /\ Range(Tail(saver[p].left)) \subseteq Range(saver[p].left)
      /\ Proper(item)
  BY <1>1, <1>3, SeqTail
<1>5. /\ DOMAIN saver'[p] = SaverFields /\ saver'[p].left = Tail(saver[p].left)
  BY <1>1, <1>2 DEF SaverRows, SaverFields
<1>6. \A k \in found : k \in DOMAIN rows
  BY DEF Rows
<1>7. Built(key)
  BY <1>4, TableBuilt
<1>. HIDE DEF key, found
<1>8. /\ DOMAIN session'[p] = SessionFields
      /\ IsFiniteSet(DOMAIN session'[p].held) /\ \A k \in DOMAIN session'[p].held : Built(k)
      /\ IsSeq(session'[p].added) /\ \A x \in Range(session'[p].added) : Built(x[1])
  <2>1. CASE UNCHANGED session
    BY <1>2, <2>1 DEF SaverRows
  <2>2. CASE session' = [session EXCEPT ![p].added = Append(@, <<key, 1>>)]
    <3>1. /\ DOMAIN session'[p] = SessionFields /\ session'[p].held = session[p].held
          /\ session'[p].added = Append(session[p].added, <<key, 1>>)
      BY <1>2, <2>2 DEF SaverRows, SessionFields
    <3>2. /\ IsSeq(session'[p].added)
          /\ Range(session'[p].added) = Range(session[p].added) \cup {<<key, 1>>}
      BY <1>2, <3>1, SeqAppend DEF SaverRows
    <3>3. \A x \in Range(session'[p].added) : Built(x[1])
      BY <1>2, <1>7, <3>2 DEF SaverRows
    <3>. QED BY <1>2, <3>1, <3>2, <3>3 DEF SaverRows
  <2>3. CASE \E k \in found :
              session' = [session EXCEPT ![p].held = Put(@, k, (IF k \in DOMAIN held THEN held[k] ELSE rows[k]) + 1)]
    <3>1. PICK k \in found :
            session' = [session EXCEPT ![p].held = Put(@, k, (IF k \in DOMAIN held THEN held[k] ELSE rows[k]) + 1)]
      BY <2>3
    <3>2. /\ DOMAIN session'[p] = SessionFields /\ session'[p].added = session[p].added
          /\ session'[p].held = Put(session[p].held, k, (IF k \in DOMAIN held THEN held[k] ELSE rows[k]) + 1)
      BY <1>2, <3>1 DEF SaverRows, SessionFields
    <3>3. DOMAIN session'[p].held = DOMAIN held \cup {k}
      BY <3>2 DEF Put
    <3>4. IsFiniteSet(DOMAIN held \cup {k}) /\ \A x \in DOMAIN held \cup {k} : Built(x)
      <4>1. IsFiniteSet(DOMAIN held)
        BY <1>2 DEF SaverRows
      <4>2. IsFiniteSet(DOMAIN held \cup {k})
        BY <4>1, FS_AddElement
      <4>3. k \in DOMAIN rows
        BY <1>6
      <4>4. Built(k)
        BY <4>3 DEF RowsInv
      <4>. QED BY <1>2, <4>2, <4>4 DEF SaverRows
    <3>. QED BY <1>2, <3>2, <3>3, <3>4 DEF SaverRows
  <2>. QED BY <1>1, <2>1, <2>2, <2>3
<1>9. SaverRows(p)'
  BY <1>3, <1>4, <1>5, <1>8 DEF SaverRows
<1>10. /\ DOMAIN saver' = Saver /\ DOMAIN session' = Saver
       /\ \A x \in Saver \ {p} : saver'[x] = saver[x] /\ session'[x] = session[x]
  BY <1>1, <1>2
<1>. QED BY <1>1, <1>9, <1>10, SaverMoves

LEMMA StartFramesRows ==
  ASSUME RowsInv, NEW p \in Saver, StartFrames(p)
  PROVE  RowsInv'
<1>1. SaverRows(p) /\ DOMAIN saver = Saver /\ DOMAIN session = Saver
  BY DEF RowsInv
<1>2. UNCHANGED <<rows, matcher>>
  BY DEF StartFrames
<1>3. \/ saver' = [saver EXCEPT ![p] = [NoWork EXCEPT !.pc = "dead"]] /\ session' = [session EXCEPT ![p] = Clean]
      \/ \E pc \in {"flush", "frames"} : \E left : saver' = [saver EXCEPT ![p].pc = pc, ![p].left = left] /\ session' = session
  BY DEF StartFrames
<1>4. CASE saver' = [saver EXCEPT ![p] = [NoWork EXCEPT !.pc = "dead"]] /\ session' = [session EXCEPT ![p] = Clean]
  BY <1>1, <1>4, Resting, <1>2, SaverMoves DEF NoWork, SaverFields
<1>5. CASE \E pc \in {"flush", "frames"} : \E left : saver' = [saver EXCEPT ![p].pc = pc, ![p].left = left] /\ session' = session
  <2>. PICK pc \in {"flush", "frames"} : \E left : saver' = [saver EXCEPT ![p].pc = pc, ![p].left = left] /\ session' = session
    BY <1>5
  <2>1. PICK left : saver' = [saver EXCEPT ![p].pc = pc, ![p].left = left] /\ session' = session
    OBVIOUS
  <2>2. DOMAIN saver'[p] = SaverFields /\ saver'[p].pc # "rows"
    BY <1>1, <2>1 DEF SaverRows, SaverFields
  <2>3. SaverRows(p)'
    BY <1>1, <2>1, <2>2 DEF SaverRows
  <2>. QED BY <1>1, <1>2, <2>1, <2>3, SaverMoves
<1>. QED BY <1>3, <1>4, <1>5

\* Storing a frame adds to what the process holds of frames, and only to that.
SaveOne(p) == JavaSave(p) \/ PythonSave(p) \/ RubySave(p) \/ CoreSave(p) \/ OopsSave(p)
Puts(p, row, order, x, isNew) ==
  session' = [session EXCEPT
    ![p].symbols = IF NewSymbols(p, row) = {} THEN @ ELSE Append(@, Only(NewSymbols(p, row))),
    ![p].sources = IF isNew THEN Append(@, x) ELSE @,
    ![p].threads = Append(@, [thread |-> Head(saver[p].left)[1], order |-> order, row |-> x])]
Gathers(p) ==
  /\ saver[p].pc = "frames" /\ saver' = [saver EXCEPT ![p].left = Tail(@)]
  /\ UNCHANGED <<reports, rows, packages, matcher, counted, overlap, refused, frameVars>>
  /\ \/ session' = session
     \/ \E row, order, x, isNew : Puts(p, row, order, x, isNew)
LEMMA FrameGathers ==
  ASSUME NEW p \in Saver, SaveOne(p)
  PROVE  Gathers(p)
<1>1. CASE JavaSave(p)
  <2>. DEFINE row == JavaRow(Frame(p))
              order == Position(p)
  <2>1. saver[p].pc = "frames"
    BY <1>1 DEF JavaSave, AtFrame
  <2>2. /\ saver' = [saver EXCEPT ![p].left = Tail(@)]
        /\ UNCHANGED <<reports, rows, packages, matcher, counted, overlap, refused, frameVars>>
    BY <1>1, Zenon DEF JavaSave, SaveFrame
  <2>3. SaveFrame(p, row, SameScript, SameScript, order)
    BY <1>1 DEF JavaSave
  <2>. HIDE DEF row, order
  <2>4. \E x, isNew : Puts(p, row, order, x, isNew)
    BY <2>3, Zenon DEF SaveFrame, Puts
  <2>. QED BY <2>1, <2>2, <2>4 DEF Gathers
<1>2. CASE PythonSave(p)
  <2>. DEFINE row == PythonRow(Frame(p))
              order == Position(p)
  <2>1. saver[p].pc = "frames"
    BY <1>2 DEF PythonSave, AtFrame
  <2>2. /\ saver' = [saver EXCEPT ![p].left = Tail(@)]
        /\ UNCHANGED <<reports, rows, packages, matcher, counted, overlap, refused, frameVars>>
    BY <1>2, Zenon DEF PythonSave, SaveFrame
  <2>3. SaveFrame(p, row, SameScript, SameScript, order)
    BY <1>2 DEF PythonSave
  <2>. HIDE DEF row, order
  <2>4. \E x, isNew : Puts(p, row, order, x, isNew)
    BY <2>3 DEF SaveFrame, Puts
  <2>. QED BY <2>1, <2>2, <2>4 DEF Gathers
<1>3. CASE RubySave(p)
  <2>. DEFINE row == RubyRow(Frame(p))
              order == Position(p)
  <2>1. saver[p].pc = "frames"
    BY <1>3 DEF RubySave, AtFrame
  <2>2. /\ saver' = [saver EXCEPT ![p].left = Tail(@)]
        /\ UNCHANGED <<reports, rows, packages, matcher, counted, overlap, refused, frameVars>>
    BY <1>3, Zenon DEF RubySave, SaveFrame
  <2>3. SaveFrame(p, row, SameScript, SameScript, order)
    BY <1>3 DEF RubySave
  <2>. HIDE DEF row, order
  <2>4. \E x, isNew : Puts(p, row, order, x, isNew)
    BY <2>3 DEF SaveFrame, Puts
  <2>. QED BY <2>1, <2>2, <2>4 DEF Gathers
<1>4. CASE CoreSave(p)
  <2>. DEFINE row == CoreRow(Frame(p))
              order == 10 * Position(p)
  <2>1. saver[p].pc = "frames"
    BY <1>4 DEF CoreSave, AtFrame
  <2>2. /\ saver' = [saver EXCEPT ![p].left = Tail(@)]
        /\ UNCHANGED <<reports, rows, packages, matcher, counted, overlap, refused, frameVars>>
    BY <1>4, Zenon DEF CoreSave, SaveFrame
  <2>3. SaveFrame(p, row, SamePlace, SamePlace, order)
    BY <1>4 DEF CoreSave
  <2>. HIDE DEF row, order
  <2>4. \E x, isNew : Puts(p, row, order, x, isNew)
    BY <2>3 DEF SaveFrame, Puts
  <2>. QED BY <2>1, <2>2, <2>4 DEF Gathers
<1>5. CASE OopsSave(p)
  <2>. DEFINE row == OopsRow(Only(saver[p].u), Frame(p))
              order == 10 * Position(p)
  <2>1. saver[p].pc = "frames"
    BY <1>5 DEF OopsSave, AtFrame
  <2>2. /\ saver' = [saver EXCEPT ![p].left = Tail(@)]
        /\ UNCHANGED <<reports, rows, packages, matcher, counted, overlap, refused, frameVars>>
    BY <1>5, Zenon DEF OopsSave, SaveFrame
  <2>3. CASE session' # session
    <3>1. SaveFrame(p, row, SamePlace, SamePlace, order)
      BY <1>5, <2>3 DEF OopsSave
    <3>. HIDE DEF row, order
    <3>2. \E x, isNew : Puts(p, row, order, x, isNew)
      BY <3>1 DEF SaveFrame, Puts
    <3>. QED BY <2>1, <2>2, <3>2 DEF Gathers
  <2>4. CASE session' = session
    BY <2>1, <2>2, <2>4 DEF Gathers
  <2>. QED BY <2>3, <2>4
<1>. QED BY <1>1, <1>2, <1>3, <1>4, <1>5 DEF SaveOne

LEMMA SaveOneRows ==
  ASSUME RowsInv, NEW p \in Saver, SaveOne(p)
  PROVE  RowsInv'
<1>1. Gathers(p)
  BY FrameGathers
<1>2. SaverRows(p) /\ DOMAIN saver = Saver /\ DOMAIN session = Saver
  BY DEF RowsInv
<1>3. saver' = [saver EXCEPT ![p].left = Tail(@)] /\ saver[p].pc = "frames" /\ UNCHANGED <<rows, matcher>>
  BY <1>1 DEF Gathers
<1>4. DOMAIN saver'[p] = SaverFields /\ saver'[p].pc # "rows"
  BY <1>2, <1>3 DEF SaverRows, SaverFields
<1>5. /\ DOMAIN session' = Saver /\ \A x \in Saver \ {p} : session'[x] = session[x]
      /\ DOMAIN session'[p] = SessionFields /\ session'[p].held = session[p].held /\ session'[p].added = session[p].added
  <2>1. CASE session' = session
    BY <1>2, <2>1 DEF SaverRows
  <2>2. CASE \E row, order, x, isNew : Puts(p, row, order, x, isNew)
    <3>1. PICK row, order, x, isNew : Puts(p, row, order, x, isNew)
      BY <2>2
    <3>. QED BY <1>2, <3>1, Zenon DEF SaverRows, SessionFields, Puts
  <2>. QED BY <1>1, <2>1, <2>2 DEF Gathers
<1>6. SaverRows(p)'
  BY <1>2, <1>4, <1>5 DEF SaverRows
<1>. QED BY <1>2, <1>3, <1>5, <1>6, SaverMoves

LEMMA EndFramesRows ==
  ASSUME RowsInv, NEW p \in Saver, EndFrames(p)
  PROVE  RowsInv'
<1>1. SaverRows(p) /\ DOMAIN saver = Saver /\ DOMAIN session = Saver
  BY DEF RowsInv
<1>2. UNCHANGED <<rows, matcher>>
  BY DEF EndFrames
<1>3. CASE saver' = [saver EXCEPT ![p] = [NoWork EXCEPT !.pc = "dead"]] /\ session' = [session EXCEPT ![p] = Clean]
  BY <1>1, <1>3, Resting, <1>2, SaverMoves DEF NoWork, SaverFields
<1>4. CASE saver' = [saver EXCEPT ![p].pc = "flush backtrace"] /\ session' = session
  BY <1>1, <1>4, <1>2, SaverMoves DEF SaverRows, SaverFields
<1>. QED BY <1>3, <1>4 DEF EndFrames

LEMMA FlushRows ==
  ASSUME RowsInv, NEW p \in Saver, Flush(p)
  PROVE  RowsInv'
<1>1. SaverRows(p) /\ DOMAIN saver = Saver /\ DOMAIN session = Saver
  BY DEF RowsInv
<1>2. session' = [session EXCEPT ![p] = Clean] /\ matcher' = matcher
  BY DEF Flush
<1>3. /\ saver' = [saver EXCEPT ![p] = [NoWork EXCEPT !.pc = "dead"]] \/ saver' = [saver EXCEPT ![p] = NoWork]
      /\ rows' = rows \/ rows' = Over(Inserted(session[p].added), Over(session[p].held, rows))
  BY DEF Flush, WriteRows
<1>4. SaverRows(p)'
  BY <1>1, <1>2, <1>3, Resting DEF NoWork, SaverFields
<1>5. IsFiniteSet(DOMAIN rows') /\ \A k \in DOMAIN rows' : Built(k)
  <2>. DEFINE added == session[p].added
              keys == {added[i][1] : i \in DOMAIN added}
              D == keys \cup (DOMAIN session[p].held \cup DOMAIN rows)
  <2>1. rows' = rows \/ DOMAIN rows' = D
    <3>1. DOMAIN Inserted(session[p].added) = keys
      BY DEF Inserted
    <3>. HIDE DEF keys
    <3>. QED BY <1>3, <3>1 DEF Over
  <2>2. IsFiniteSet(keys)
    <3>1. IsSeq(added)
      BY <1>1 DEF SaverRows
    <3>. HIDE DEF added
    <3>2. DOMAIN added = 1 .. Len(added) /\ Len(added) \in Nat
      <4>. DEFINE R == Range(added)
      <4>1. added \in Seq(R)
        BY <3>1 DEF IsSeq
      <4>. HIDE DEF R
      <4>. QED BY <4>1
    <3>3. IsFiniteSet(DOMAIN added)
      BY <3>2, FS_Interval
    <3>. DEFINE f == [i \in DOMAIN added |-> added[i][1]]
    <3>4. f \in Surjection(DOMAIN added, keys)
      BY DEF Surjection
    <3>. HIDE DEF f, keys
    <3>. QED BY <3>3, <3>4, FS_Surjection
  <2>3. ASSUME NEW k \in keys PROVE Built(k)
    <3>1. PICK i \in DOMAIN added : k = added[i][1]
      OBVIOUS
    <3>2. added[i] \in Range(added)
      BY RangeOf
    <3>. QED BY <1>1, <3>1, <3>2 DEF SaverRows
  <2>4. IsFiniteSet(DOMAIN session[p].held) /\ IsFiniteSet(DOMAIN rows)
    BY <1>1 DEF RowsInv, SaverRows
  <2>5. IsFiniteSet(D)
    <3>1. IsFiniteSet(DOMAIN session[p].held \cup DOMAIN rows)
      BY <2>4, FS_Union
    <3>. HIDE DEF keys
    <3>. QED BY <2>2, <3>1, FS_Union
  <2>6. \A k \in DOMAIN session[p].held \cup DOMAIN rows : Built(k)
    BY <1>1 DEF RowsInv, SaverRows
  <2>. HIDE DEF keys
  <2>. QED BY <2>1, <2>3, <2>4, <2>5, <2>6
<1>6. ASSUME NEW x \in Saver PROVE SaverRows(x)'
  <2>1. CASE x # p
    BY <1>1, <1>2, <1>3, <2>1 DEF RowsInv, SaverRows
  <2>. QED BY <1>4, <2>1
<1>7. DOMAIN saver' = Saver /\ DOMAIN session' = Saver
  BY <1>1, <1>2, <1>3
<1>. QED BY <1>2, <1>5, <1>6, <1>7 DEF RowsInv, MatcherRows

LEMMA MatcherMoves ==
  ASSUME RowsInv, NEW m \in Matcher, UNCHANGED <<saver, session>>,
         IsFiniteSet(DOMAIN rows'), \A k \in DOMAIN rows' : Built(k),
         DOMAIN matcher' = Matcher, \A x \in Matcher \ {m} : matcher'[x] = matcher[x],
         MatcherRows(m)'
  PROVE  RowsInv'
<1>1. ASSUME NEW x \in Matcher PROVE MatcherRows(x)'
  <2>1. CASE x # m
    BY <2>1 DEF RowsInv, MatcherRows
  <2>. QED BY <2>1
<1>. QED BY <1>1 DEF RowsInv, SaverRows

LEMMA MatchStartRows ==
  ASSUME RowsInv, NEW m \in Matcher, MatchStart(m)
  PROVE  RowsInv'
<1>. DEFINE pairs == {<<k[3], k>> : k \in {k \in DOMAIN rows : k[1] = "unknown" /\ k[3] \in packages}}
<1>1. \A q \in pairs : q[1] \in DOMAIN BuildOf
  BY DEF RowsInv, Built
<1>2. \E seen, alone :
        matcher' = [x \in Matcher |-> IF x = m THEN [pc |-> "run", pairs |-> pairs, first |-> TRUE,
                                                 seen |-> seen, at |-> {}, alone |-> alone]
                                      ELSE [matcher[x] EXCEPT !.alone = FALSE]]
  BY DEF MatchStart
<1>3. saver' = NotAlone(m) /\ session' = session /\ rows' = rows
  BY DEF MatchStart
<1>. HIDE DEF pairs
<1>4. ASSUME NEW x \in Matcher PROVE MatcherRows(x)'
  <2>1. MatcherRows(x)
    BY DEF RowsInv
  <2>2. CASE x = m
    BY <1>2, <2>2, <1>1 DEF MatcherFields, MatcherRows
  <2>3. CASE x # m
    BY <1>2, <2>3, <2>1 DEF MatcherRows, MatcherFields
  <2>. QED BY <2>2, <2>3
<1>5. ASSUME NEW x \in Saver PROVE SaverRows(x)'
  <2>1. SaverRows(x)
    BY DEF RowsInv
  <2>2. saver'[x] = [saver[x] EXCEPT !.alone = @ /\ (x = m \/ saver[x].pc \in {"idle", "dead"})]
    BY <1>3 DEF NotAlone
  <2>3. DOMAIN saver'[x] = DOMAIN saver[x] /\ saver'[x].pc = saver[x].pc /\ saver'[x].left = saver[x].left
    BY <2>1, <2>2 DEF SaverRows, SaverFields
  <2>. QED BY <1>3, <2>1, <2>3 DEF SaverRows
<1>6. DOMAIN saver' = Saver /\ DOMAIN matcher' = Matcher
  BY <1>2, <1>3 DEF NotAlone
<1>. QED BY <1>3, <1>4, <1>5, <1>6 DEF RowsInv

LEMMA MatchNextRows ==
  ASSUME RowsInv, NEW m \in Matcher, MatchNext(m)
  PROVE  RowsInv'
<1>1. MatcherRows(m) /\ DOMAIN matcher = Matcher /\ IsFiniteSet(DOMAIN rows) /\ \A k \in DOMAIN rows : Built(k)
  BY DEF RowsInv
<1>2. UNCHANGED <<saver, session, rows>> /\ matcher[m].at = {}
  BY DEF MatchNext
<1>3. PICK q \in matcher[m].pairs :
        \/ matcher' = [matcher EXCEPT ![m] = [NoMatch EXCEPT !.pc = "dead"]]
        \/ matcher' = [matcher EXCEPT ![m].pairs = @ \ {q}, ![m].at = {q}, ![m].first = FALSE,
                                      ![m].seen = IF matcher[m].first THEN Over(@, rows) ELSE rows]
  BY Zenon DEF MatchNext
<1>4. MatcherRows(m)'
  <2>1. CASE matcher' = [matcher EXCEPT ![m] = [NoMatch EXCEPT !.pc = "dead"]]
    BY <1>1, <2>1 DEF MatcherRows, NoMatch, MatcherFields
  <2>2. CASE matcher' = [matcher EXCEPT ![m].pairs = @ \ {q}, ![m].at = {q}, ![m].first = FALSE,
                                        ![m].seen = IF matcher[m].first THEN Over(@, rows) ELSE rows]
    BY <1>1, <2>2 DEF MatcherRows, MatcherFields
  <2>. QED BY <1>3, <2>1, <2>2
<1>5. DOMAIN matcher' = Matcher /\ \A x \in Matcher \ {m} : matcher'[x] = matcher[x]
  BY <1>1, <1>3
<1>. QED BY <1>1, <1>2, <1>4, <1>5, MatcherMoves

LEMMA MatchFlushRows ==
  ASSUME RowsInv, NEW m \in Matcher, MatchFlush(m)
  PROVE  RowsInv'
<1>. DEFINE q == Only(matcher[m].at)
            old == matcher[m].seen
            k == <<"known", q[2][2], q[1], q[2][4]>>
            existing == {x \in DOMAIN old : x[1] = "known" /\ x[2] = q[2][2] /\ x[3] = q[1]}
<1>1. MatcherRows(m) /\ DOMAIN matcher = Matcher /\ IsFiniteSet(DOMAIN rows) /\ \A x \in DOMAIN rows : Built(x)
  BY DEF RowsInv
<1>2. UNCHANGED <<saver, session>> /\ matcher[m].at # {}
  BY DEF MatchFlush
<1>3. q[1] \in DOMAIN BuildOf
  <2>1. q \in matcher[m].at
    BY <1>2 DEF Only
  <2>. HIDE DEF q
  <2>. QED BY <1>1, <2>1 DEF MatcherRows
<1>. HIDE DEF q
<1>4. \/ matcher' = [matcher EXCEPT ![m] = [NoMatch EXCEPT !.pc = "dead"]] /\ rows' = rows
      \/ /\ \E x \in IF existing = {} THEN {k} ELSE existing :
              rows' = Put(Without(rows, q[2]), x, Count(old, x) + old[q[2]])
         /\ matcher' = [matcher EXCEPT ![m] = IF @.pairs = {} THEN NoMatch ELSE [@ EXCEPT !.at = {}]]
  BY DEF MatchFlush, q
<1>5. Built(k) /\ \A x \in existing : Built(x)
  BY <1>3 DEF Built
<1>6. IsFiniteSet(DOMAIN rows') /\ \A x \in DOMAIN rows' : Built(x)
  <2>1. CASE rows' = rows
    BY <1>1, <2>1
  <2>2. CASE \E x \in IF existing = {} THEN {k} ELSE existing :
               rows' = Put(Without(rows, q[2]), x, Count(old, x) + old[q[2]])
    <3>. HIDE DEF existing, k
    <3>1. PICK x : rows' = Put(Without(rows, q[2]), x, Count(old, x) + old[q[2]]) /\ Built(x)
      BY <1>5, <2>2
    <3>2. DOMAIN rows' = (DOMAIN rows \ {q[2]}) \cup {x}
      BY <3>1 DEF Put, Without
    <3>3. IsFiniteSet(DOMAIN rows \ {q[2]})
      BY <1>1, FS_RemoveElement
    <3>4. IsFiniteSet((DOMAIN rows \ {q[2]}) \cup {x})
      BY <3>3, FS_AddElement
    <3>. QED BY <1>1, <3>1, <3>2, <3>4
  <2>. QED BY <1>4, <2>1, <2>2
<1>. HIDE DEF k, existing
<1>7. DOMAIN matcher' = Matcher /\ \A x \in Matcher \ {m} : matcher'[x] = matcher[x]
  BY <1>1, <1>4
<1>8. MatcherRows(m)'
  <2>1. \/ matcher'[m] = [NoMatch EXCEPT !.pc = "dead"] \/ matcher'[m] = NoMatch
        \/ matcher'[m] = [matcher[m] EXCEPT !.at = {}]
    BY <1>1, <1>4
  <2>2. CASE matcher'[m] = [NoMatch EXCEPT !.pc = "dead"] \/ matcher'[m] = NoMatch
    BY <2>2 DEF MatcherRows, NoMatch, MatcherFields
  <2>3. CASE matcher'[m] = [matcher[m] EXCEPT !.at = {}]
    BY <1>1, <2>3 DEF MatcherRows, MatcherFields
  <2>. QED BY <2>1, <2>2, <2>3
<1>. QED BY <1>2, <1>6, <1>7, <1>8, MatcherMoves

\* What the web application and save-attachments do leaves the reports alone.
LEMMA ServeKeeps == ASSUME Serve \/ FileAway PROVE UNCHANGED <<serverVars, fixVars>>
<1>1. CASE Serve
  <2>1. ASSUME NEW r \in Request, RequestStep(r) PROVE UNCHANGED <<serverVars, fixVars>>
    BY <2>1, Zenon DEF RequestStep, SaveInvalid, InvalidUnsaved, ReadId, SaveText, FindSystem, CountSystem, LookUp, WriteUReport, Answer
  <2>2. ASSUME NEW r \in Request, NEW b \in Upload, Receive(r, b) PROVE UNCHANGED <<serverVars, fixVars>>
    BY <2>2 DEF Receive
  <2>3. ASSUME NEW c \in Cleaner, CleanerStep(c) PROVE UNCHANGED <<serverVars, fixVars>>
    BY <2>3 DEF CleanerStep, CleanText, CleanRows, CleanKilled
  <2>4. ASSUME NEW c \in Cleaner, NEW old \in BOOLEAN, CleanStart(c, old) PROVE UNCHANGED <<serverVars, fixVars>>
    BY <2>4 DEF CleanStart
  <2>5. Age => UNCHANGED <<serverVars, fixVars>>
    BY DEF Age
  <2>. QED BY <1>1, <2>1, <2>2, <2>3, <2>4, <2>5 DEF Serve
<1>2. CASE FileAway
  <2>1. ASSUME NEW t \in Attacher, AttachStart(t) \/ AttachStep(t) \/ AttachKilled(t)
        PROVE  UNCHANGED laterVars
    BY <2>1, Zenon DEF AttachStart, AttachKilled, AttachStep, AttachNext, AttachLookUp, AttachNote, AttachContact,
                AttachLink, AttachMove, Dies
  <2>2. ASSUME NEW a \in Attachment, Attach(a) \/ EraseContact(Says[a].data)
        PROVE  UNCHANGED laterVars
    BY <2>2 DEF Attach, EraseContact
  <2>. QED BY <1>2, <2>1, <2>2 DEF FileAway, laterVars
<1>. QED BY <1>1, <1>2

LEMMA NextRows ==
  ASSUME RowsInv, [Next]_vars
  PROVE  RowsInv'
<1>1. ASSUME NEW p \in Saver, SaverStep(p) PROVE RowsInv'
  <2>1. CASE FedoraCount(p) \/ CentosCount(p)
    BY <2>1, CountRows DEF FedoraCount, CentosCount
  <2>2. CASE SaveOne(p)
    BY <2>2, SaveOneRows
  <2>. QED BY <1>1, <2>1, <2>2, StartFramesRows, EndFramesRows, FlushRows DEF SaverStep, SaveOne
<1>2. CASE Run
  BY <1>1, <1>2, MatchNextRows, MatchFlushRows DEF Run
<1>3. CASE Incoming
  <2>1. ASSUME NEW p \in Saver, NEW u \in UReport, Begin(p, u) PROVE RowsInv'
    BY <2>1, BeginRows
  <2>2. ASSUME NEW m \in Matcher, MatchStart(m) PROVE RowsInv'
    BY <2>2, MatchStartRows
  <2>3. ASSUME NEW k \in DOMAIN BuildOf \ Foreign, AddPackage(k) PROVE RowsInv'
    BY <2>3, RowsKept DEF AddPackage
  <2>. QED BY <1>3, <2>1, <2>2, <2>3 DEF Incoming
<1>4. CASE UNCHANGED rowVars
  BY <1>4, RowsKept DEF rowVars
<1>5. Mark => UNCHANGED rowVars
  BY Zenon DEF Mark, FixStart, FixStep, FixRelease, FixProblem, FixFlush, AssignProblem, RemoveProblem, NewBuild, serverVars
<1>6. Serve \/ FileAway => UNCHANGED <<serverVars, fixVars>>
  BY ServeKeeps
<1>. QED BY <1>2, <1>3, <1>4, <1>5, <1>6 DEF Next, vars, serverVars

-----------------------------------------------------------------------------
(* The runs: every step keeps what is claimed of them.                     *)

LEMMA BuildsStay ==
  ASSUME NEW b, HasBuild(b), packages \subseteq packages', Count(builds, b) > 0 => Count(builds', b) > 0
  PROVE  HasBuild(b)'
BY DEF HasBuild, Count

\* What is right for a problem depends on the inputs alone.
LEMMA RightStays ==
  ASSUME FixInputs' = FixInputs
  PROVE  \A q, release : Right(q, release)' = Right(q, release)
<1>1. UNCHANGED <<reports, rows, problems, problemOf, koji>>
  BY DEF FixInputs
<1>2. \A r : Affected(r)' = Affected(r)
  BY <1>1 DEF Affected, CrashedKnown, CrashedUnknown
<1>3. \A q, release : ReportsIn(q, release)' = ReportsIn(q, release)
  BY <1>1 DEF ReportsIn, ProblemOf
<1>. SUFFICES ASSUME NEW q, NEW release PROVE Right(q, release)' = Right(q, release)
  OBVIOUS
<1>. DEFINE all == UNION {Affected(r) : r \in ReportsIn(q, release)}
            bare == \E r \in ReportsIn(q, release) : Affected(r) = {}
            chosen == IF ReportsIn(q, release) = {} \/ bare \/ Cardinality({a[1] : a \in all}) > 1 THEN {}
                      ELSE OldestFix(koji[release], CHOOSE n \in {a[1] : a \in all} : TRUE, Max({a[2] : a \in all}))
<1>4. all' = all
  BY <1>2, <1>3
<1>5. bare' = bare
  BY <1>2, <1>3
<1>6. Right(q, release) = chosen
  BY DEF Right, FixOf
<1>7. Right(q, release)' = chosen'
  BY DEF Right, FixOf
<1>8. chosen' = chosen
  <2>1. koji' = koji /\ ReportsIn(q, release)' = ReportsIn(q, release)
    BY <1>1, <1>3
  <2>. HIDE DEF all, bare
  <2>. QED BY <1>4, <1>5, <2>1 DEF OldestFix, BuildsNamed
<1>. HIDE DEF chosen
<1>. QED BY <1>6, <1>7, <1>8

\* Nobody has begun, written or left a release when no run has moved.
LEMMA NobodyMoves ==
  ASSUME Watch, fixer' = fixer, undisturbed \subseteq Fixer
  PROVE  IF FixInputs' # FixInputs THEN undisturbed' = {} /\ settled' = {}
                                   ELSE undisturbed' = undisturbed /\ settled' = settled
<1>1. \A x : ~Wrote(x) /\ ~Starting(x) /\ ~Done(x)
  BY DEF Wrote, Starting, Done
<1>2. UNION {At(x) : x \in {x \in Fixer \ undisturbed : Wrote(x)}} = {}
  BY <1>1
<1>3. UNION {At(x) : x \in {x \in undisturbed : Done(x)}} = {}
  BY <1>1
<1>. QED BY <1>1, <1>2, <1>3 DEF Watch

LEMMA QuietFix ==
  ASSUME FixInv, Watch, fixer' = fixer, builds' = builds, packages \subseteq packages',
         koji' \in [Range(Releases) -> Seq(ABuild)],
         fixes' = fixes \/ FixInputs' # FixInputs
  PROVE  FixInv'
<1>1. FixTypeOK'
  BY DEF FixInv, FixTypeOK
<1>2. \A b : HasBuild(b) => HasBuild(b)'
  BY BuildsStay
<1>3. ASSUME NEW x \in Fixer PROVE PendingInv(x)'
  BY <1>2 DEF FixInv, PendingInv, Current
<1>4. IF FixInputs' # FixInputs THEN undisturbed' = {} /\ settled' = {}
                                ELSE undisturbed' = undisturbed /\ settled' = settled
  BY NobodyMoves DEF FixInv
<1>5. CASE FixInputs' # FixInputs
  BY <1>1, <1>3, <1>4, <1>5 DEF FixInv
<1>6. CASE FixInputs' = FixInputs
  <2>1. \A q, release : Right(q, release)' = Right(q, release)
    BY <1>6, RightStays
  <2>2. UNCHANGED <<fixes, problems, koji>>
    BY <1>6 DEF FixInputs
  <2>3. \A row : Fixed(row) => Fixed(row)'
    BY <2>1, <2>2 DEF Fixed
  <2>4. \A S : Buildable(S) => Buildable(S)'
    BY <1>2 DEF Buildable
  <2>5. ASSUME NEW x \in undisturbed PROVE UndisturbedInv(x)'
    BY <2>1, <2>2, <2>3, <2>4 DEF FixInv, UndisturbedInv, Current, FixRow, Buildable
  <2>6. ASSUME NEW release \in settled PROVE SettledInv(release)'
    BY <2>2, <2>3, <2>4 DEF FixInv, SettledInv, FixRow, Buildable
  <2>. QED BY <1>1, <1>3, <1>4, <1>6, <2>5, <2>6 DEF FixInv
<1>. QED BY <1>5, <1>6

\* What a step of one run does to the runs that nobody disturbed.
LEMMA OneMoves ==
  ASSUME Watch, NEW x \in Fixer, FixInputs' = FixInputs, undisturbed \subseteq Fixer,
         \A y \in Fixer \ {x} : fixer'[y] = fixer[y]
  PROVE  /\ undisturbed' \subseteq Fixer
         /\ \A y \in undisturbed' : y \in undisturbed \/ (y = x /\ Starting(x))
         /\ \A release \in settled' : release \in settled \/ (x \in undisturbed /\ Done(x) /\ release = Current(x))
         /\ x \notin undisturbed /\ Wrote(x) /\ fixer[x].pc = "problem" =>
              /\ Current(x) \notin settled'
              /\ \A y \in undisturbed' \ {x} : fixer[y].pc = "problem" => Current(y) # Current(x)
<1>. DEFINE spoiled == UNION {At(y) : y \in {y \in Fixer \ undisturbed : Wrote(y)}}
            ended == UNION {At(y) : y \in {y \in undisturbed : Done(y)}}
<1>1. /\ undisturbed' = {y \in undisturbed : At(y) \cap spoiled = {}} \cup {y \in Fixer : Starting(y)}
      /\ settled' = (settled \ spoiled) \cup ended
  BY DEF Watch
<1>2. \A y \in Fixer \ {x} : ~Wrote(y) /\ ~Starting(y) /\ ~Done(y)
  BY DEF Wrote, Starting, Done
<1>3. \A release \in ended : x \in undisturbed /\ Done(x) /\ release \in At(x)
  BY <1>2
<1>4. \A y : At(y) \subseteq {Current(y)} /\ (fixer[y].pc = "problem" => At(y) = {Current(y)})
  BY DEF At, Current
<1>5. x \notin undisturbed /\ Wrote(x) => At(x) \subseteq spoiled
  OBVIOUS
<1>. HIDE DEF spoiled, ended
<1>6. ASSUME x \notin undisturbed, Wrote(x), fixer[x].pc = "problem"
      PROVE  /\ Current(x) \notin settled'
             /\ \A y \in undisturbed' \ {x} : fixer[y].pc = "problem" => Current(y) # Current(x)
  <2>1. Current(x) \in spoiled
    BY <1>4, <1>5, <1>6
  <2>2. Current(x) \notin ended
    BY <1>3, <1>6
  <2>3. ASSUME NEW y \in undisturbed' \ {x}, fixer[y].pc = "problem" PROVE Current(y) # Current(x)
    BY <1>1, <1>2, <2>3, <1>4, <2>1
  <2>. QED BY <1>1, <2>1, <2>2, <2>3
<1>7. ASSUME NEW release \in settled' PROVE release \in settled \/ (x \in undisturbed /\ Done(x) /\ release = Current(x))
  BY <1>1, <1>3, <1>4
<1>. QED BY <1>1, <1>2, <1>6, <1>7

\* A step that writes nothing has to be right about the run that makes it only.
LEMMA StepFix ==
  ASSUME FixInv, Watch, NEW x \in Fixer, UNCHANGED <<problems, problemOf, fixes, builds, koji, serverVars>>,
         DOMAIN fixer' = Fixer, \A y \in Fixer \ {x} : fixer'[y] = fixer[y],
         PendingInv(x)', (x \in undisturbed \/ Starting(x)) => UndisturbedInv(x)', ~Done(x)
  PROVE  FixInv'
<1>1. FixInputs' = FixInputs /\ packages' = packages
  BY DEF FixInputs, serverVars, rowVars
<1>2. FixTypeOK'
  BY DEF FixInv, FixTypeOK
<1>3. \A b : HasBuild(b)' <=> HasBuild(b)
  BY <1>1 DEF HasBuild
<1>4. ASSUME NEW y \in Fixer PROVE PendingInv(y)'
  <2>1. CASE y # x
    BY <2>1, <1>3 DEF FixInv, PendingInv, Current
  <2>. QED BY <2>1
<1>5. /\ undisturbed' \subseteq Fixer
      /\ \A y \in undisturbed' : y \in undisturbed \/ (y = x /\ Starting(x))
      /\ settled' \subseteq settled
  BY <1>1, OneMoves DEF FixInv
<1>6. \A q, release : Right(q, release)' = Right(q, release)
  BY <1>1, RightStays
<1>7. \A row : Fixed(row) <=> Fixed(row)'
  BY <1>6 DEF Fixed
<1>8. \A S : Buildable(S) <=> Buildable(S)'
  BY <1>3 DEF Buildable
<1>9. ASSUME NEW y \in undisturbed' PROVE UndisturbedInv(y)'
  <2>1. CASE y # x
    <3>1. UndisturbedInv(y) /\ fixer'[y] = fixer[y]
      BY <1>5, <2>1 DEF FixInv
    <3>. QED BY <1>6, <1>7, <1>8, <3>1 DEF UndisturbedInv, Current, FixRow, Buildable
  <2>. QED BY <1>5, <2>1
<1>10. ASSUME NEW release \in settled' PROVE SettledInv(release)'
  BY <1>5, <1>7, <1>8 DEF FixInv, SettledInv, FixRow, Buildable
<1>. QED BY <1>2, <1>4, <1>5, <1>9, <1>10 DEF FixInv

LEMMA Emptied == DOMAIN <<>> = {} /\ IsSeq(<<>>)
BY DEF IsSeq

LEMMA FixStartFix ==
  ASSUME FixInv, Watch, NEW x \in Fixer, NEW systems, NEW given, NEW auto \in BOOLEAN,
         FixStart(x, systems, given, auto)
  PROVE  FixInv'
<1>. DEFINE run == [NoFixer EXCEPT !.pc = "release", !.auto = auto, !.all = problems, !.tasks = Tasks(systems, given)]
<1>1. /\ fixer[x].pc = "idle" /\ fixer' = [fixer EXCEPT ![x] = run]
      /\ UNCHANGED <<problems, problemOf, fixes, builds, koji, serverVars>>
  BY DEF FixStart
<1>2. DOMAIN fixer = Fixer
  BY DEF FixInv, FixTypeOK
<1>3. /\ DOMAIN run = FixerFields /\ run.pc = "release" /\ run.all = problems
      /\ run.pend = <<>> /\ run.add = <<>>
  BY DEF NoFixer, FixerFields
<1>4. fixer'[x] = run
  BY <1>1, <1>2
<1>. HIDE DEF run
<1>5. PendingInv(x)'
  BY <1>3, <1>4, Emptied DEF PendingInv
<1>6. UndisturbedInv(x)'
  BY <1>1, <1>3, <1>4 DEF UndisturbedInv
<1>7. ~Done(x)
  BY <1>1 DEF Done
<1>8. DOMAIN fixer' = Fixer /\ \A y \in Fixer \ {x} : fixer'[y] = fixer[y]
  BY <1>1, <1>2
<1>. QED BY <1>1, <1>5, <1>6, <1>7, <1>8, StepFix

LEMMA FixReleaseFix ==
  ASSUME FixInv, Watch, NEW x \in Fixer, FixRelease(x)
  PROVE  FixInv'
<1>1. /\ fixer[x].pc = "release"
      /\ \/ fixer' = [fixer EXCEPT ![x] = NoFixer]
         \/ fixer' = [fixer EXCEPT ![x] = [NoFixer EXCEPT !.pc = "dead"]]
         \/ fixer' = [fixer EXCEPT ![x] = [@ EXCEPT !.pc = "problem", !.left = fixer[x].all,
                                                    !.list = ReleasedBuilds(Head(fixer[x].tasks))]]
      /\ UNCHANGED <<problems, problemOf, fixes, builds, koji, serverVars>>
  BY DEF FixRelease
<1>2. DOMAIN fixer = Fixer /\ PendingInv(x)
  BY DEF FixInv, FixTypeOK
<1>3. fixer[x].pend = <<>> /\ DOMAIN fixer[x] = FixerFields
  BY <1>1, <1>2 DEF PendingInv
<1>4. \/ fixer'[x] = NoFixer
      \/ fixer'[x] = [NoFixer EXCEPT !.pc = "dead"]
      \/ fixer'[x] = [fixer[x] EXCEPT !.pc = "problem", !.left = fixer[x].all,
                                      !.list = ReleasedBuilds(Head(fixer[x].tasks))]
  BY <1>1, <1>2
<1>5. \/ /\ DOMAIN fixer'[x] = FixerFields /\ fixer'[x].pc \in {"idle", "dead"}
         /\ fixer'[x].pend = <<>> /\ fixer'[x].add = <<>>
      \/ /\ DOMAIN fixer'[x] = FixerFields /\ fixer'[x].pc = "problem"
         /\ fixer'[x].pend = <<>> /\ fixer'[x].add = fixer[x].add
         /\ fixer'[x].all = fixer[x].all /\ fixer'[x].left = fixer[x].all /\ fixer'[x].tasks = fixer[x].tasks
         /\ fixer'[x].list = koji[Head(fixer[x].tasks)]
  <2>1. CASE fixer'[x] = NoFixer
    BY <2>1 DEF NoFixer, FixerFields
  <2>2. CASE fixer'[x] = [NoFixer EXCEPT !.pc = "dead"]
    BY <2>2 DEF NoFixer, FixerFields
  <2>3. CASE fixer'[x] = [fixer[x] EXCEPT !.pc = "problem", !.left = fixer[x].all,
                                          !.list = ReleasedBuilds(Head(fixer[x].tasks))]
    BY <1>3, <2>3 DEF FixerFields, ReleasedBuilds
  <2>. QED BY <1>4, <2>1, <2>2, <2>3
<1>6. PendingInv(x)'
  BY <1>2, <1>5, Emptied DEF PendingInv
<1>7. ASSUME x \in undisturbed PROVE UndisturbedInv(x)'
  BY <1>7, <1>1, <1>5, Emptied DEF FixInv, UndisturbedInv, Current
<1>8. ~Done(x) /\ ~Starting(x)
  BY <1>1 DEF Done, Starting
<1>9. DOMAIN fixer' = Fixer /\ \A y \in Fixer \ {x} : fixer'[y] = fixer[y]
  BY <1>1, <1>2
<1>. QED BY <1>1, <1>6, <1>7, <1>8, <1>9, StepFix

LEMMA FewInSeq ==
  ASSUME NEW S, S = {} \/ \E b : S = {b}
  PROVE  IsSeq(SetToSeq(S)) /\ S \subseteq Range(SetToSeq(S))
<1>. DEFINE n == Cardinality(S)
            F == {f \in [1 .. n -> S] : IsInjective(f)}
<1>1. n \in Nat /\ F # {}
  <2>1. CASE S = {}
    <3>1. n = 0
      BY <2>1, FS_EmptySet
    <3>. DEFINE f == [i \in 1 .. 0 |-> i]
    <3>2. f \in [1 .. n -> S]
      BY <3>1
    <3>3. IsInjective(f)
      BY DEF IsInjective
    <3>. HIDE DEF f
    <3>4. n \in Nat
      BY <3>1
    <3>5. F # {}
      BY <3>2, <3>3
    <3>. QED BY <3>4, <3>5
  <2>2. CASE \E b : S = {b}
    <3>1. PICK b : S = {b}
      BY <2>2
    <3>2. n = 1
      BY <3>1, FS_Singleton
    <3>. DEFINE f == [i \in 1 .. 1 |-> b]
    <3>3. f \in [1 .. n -> S] /\ IsInjective(f)
      BY <3>1, <3>2 DEF IsInjective
    <3>. QED BY <3>2, <3>3
  <2>. QED BY <2>1, <2>2
<1>2. SetToSeq(S) \in [1 .. n -> S]
  BY <1>1 DEF SetToSeq
<1>3. IsSeq(SetToSeq(S))
  <2>1. SetToSeq(S) \in Seq(S)
    BY <1>1, <1>2
  <2>. QED BY <2>1, SeqOver
<1>4. ASSUME NEW b \in S PROVE b \in Range(SetToSeq(S))
  <2>1. S = {b} /\ n = 1
    BY <1>4, FS_Singleton
  <2>2. 1 \in DOMAIN SetToSeq(S) /\ SetToSeq(S)[1] = b
    BY <1>2, <2>1
  <2>. QED BY <2>2, RangeOf
<1>. QED BY <1>3, <1>4

LEMMA FixProblemFix ==
  ASSUME FixInv, Watch, NEW x \in Fixer, FixProblem(x)
  PROVE  FixInv'
<1>1. DOMAIN fixer = Fixer /\ PendingInv(x) /\ DOMAIN fixer[x] = FixerFields /\ fixer[x].pc = "problem"
  BY DEF FixInv, FixTypeOK, PendingInv, FixProblem
<1>2. UNCHANGED <<problems, problemOf, fixes, builds, koji, serverVars>>
  BY DEF FixProblem
<1>. DEFINE release == Current(x)
            Fix(q) == FixOf(q, release, fixer[x].list)
            Was(q) == IF <<q, release>> \in DOMAIN fixes THEN <<fixes[<<q, release>>]>> ELSE <<>>
            New(q) == {b \in Fix(q) : ~HasBuild(b)}
            Entry1(q) == [was |-> Was(q), fix |-> Fix(q)]
<1>3. \/ fixer' = [fixer EXCEPT ![x] = [NoFixer EXCEPT !.pc = "dead"]]
      \/ \E q \in fixer[x].left :
           fixer' = [fixer EXCEPT ![x] = [fixer[x] EXCEPT !.left = @ \ {q}, !.pend = Put(@, <<q, release>>, Entry1(q)),
                                                   !.add = @ \o SetToSeq(New(q))]]
  BY Zenon DEF FixProblem, Current
<1>4. DOMAIN fixer' = Fixer /\ \A y \in Fixer \ {x} : fixer'[y] = fixer[y]
  BY <1>1, <1>3, Zenon
<1>5. ~Starting(x)
  BY <1>1 DEF Starting
<1>6. CASE fixer' = [fixer EXCEPT ![x] = [NoFixer EXCEPT !.pc = "dead"]]
  <2>1. /\ DOMAIN fixer'[x] = FixerFields /\ fixer'[x].pc = "dead"
        /\ fixer'[x].pend = <<>> /\ fixer'[x].add = <<>>
    BY <1>1, <1>6 DEF NoFixer, FixerFields
  <2>2. PendingInv(x)' /\ UndisturbedInv(x)'
    BY <2>1, Emptied DEF PendingInv, UndisturbedInv
  <2>3. ~Done(x)
    BY <2>1 DEF Done
  <2>. QED BY <1>2, <1>4, <2>2, <2>3, StepFix
<1>7. CASE \E q \in fixer[x].left :
             fixer' = [fixer EXCEPT ![x] = [fixer[x] EXCEPT !.left = @ \ {q}, !.pend = Put(@, <<q, release>>, Entry1(q)),
                                                     !.add = @ \o SetToSeq(New(q))]]
  <2>1. PICK q \in fixer[x].left :
             fixer' = [fixer EXCEPT ![x] = [fixer[x] EXCEPT !.left = @ \ {q}, !.pend = Put(@, <<q, release>>, Entry1(q)),
                                                     !.add = @ \o SetToSeq(New(q))]]
    BY <1>7, Zenon
  <2>. DEFINE row == <<q, release>>
              e == Entry1(q)
              more == SetToSeq(New(q))
  <2>2. e.fix = Fix(q) /\ e.was = Was(q)
    OBVIOUS
  <2>3. IsSeq(more) /\ New(q) \subseteq Range(more)
    <3>1. Fix(q) = {} \/ \E b : Fix(q) = {b}
      BY OneFix
    <3>2. New(q) = {} \/ \E b : New(q) = {b}
      BY <3>1
    <3>. HIDE DEF New
    <3>. QED BY <3>2, FewInSeq
  <2>4. row[1] = q /\ row[2] = release
    OBVIOUS
  <2>. HIDE DEF Entry1, more, e
  <2>5. fixer' = [fixer EXCEPT ![x] = [fixer[x] EXCEPT !.left = @ \ {q}, !.pend = Put(@, row, e), !.add = @ \o more]]
    BY <2>1 DEF more, e
  <2>. HIDE DEF row
  <2>6. /\ DOMAIN fixer'[x] = FixerFields /\ fixer'[x].pc = "problem"
        /\ fixer'[x].left = fixer[x].left \ {q} /\ fixer'[x].pend = Put(fixer[x].pend, row, e)
        /\ fixer'[x].add = fixer[x].add \o more
    BY <1>1, <2>5 DEF FixerFields
  <2>7. /\ fixer'[x].all = fixer[x].all /\ fixer'[x].tasks = fixer[x].tasks /\ fixer'[x].list = fixer[x].list
    BY <1>1, <2>5 DEF FixerFields
  <2>8. /\ DOMAIN fixer'[x].pend = DOMAIN fixer[x].pend \cup {row} /\ fixer'[x].pend[row] = e
        /\ \A k \in DOMAIN fixer[x].pend \ {row} : fixer'[x].pend[k] = fixer[x].pend[k]
    BY <2>6 DEF Put
  <2>9. IsSeq(fixer[x].add \o more) /\ Range(fixer[x].add \o more) = Range(fixer[x].add) \cup Range(more)
    BY <1>1, <2>3, SeqConcat DEF PendingInv
  <2>10. \A b : HasBuild(b)' <=> HasBuild(b)
    BY <1>2 DEF HasBuild, serverVars, rowVars
  <2>11. Current(x)' = Current(x)
    BY <2>7 DEF Current
  <2>12. ASSUME NEW k \in DOMAIN fixer'[x].pend
         PROVE  /\ k = <<k[1], release>>
                /\ \A b \in fixer'[x].pend[k].fix : HasBuild(b) \/ b \in Range(fixer'[x].add)
    <3>1. CASE k = row
      BY <2>3, <2>4, <3>1, <2>2, <2>6, <2>8, <2>9 DEF row
    <3>2. CASE k # row
      BY <2>8, <3>2, <1>1, <2>6, <2>9 DEF PendingInv
    <3>. QED BY <3>1, <3>2
  <2>13. PendingInv(x)'
    BY <2>6, <2>9, <2>10, <2>11, <2>12 DEF PendingInv
  <2>14. ASSUME x \in undisturbed PROVE UndisturbedInv(x)'
    <3>1. UndisturbedInv(x)
      BY <2>14 DEF FixInv
    <3>2. FixInputs' = FixInputs
      BY <1>2 DEF FixInputs, serverVars, rowVars
    <3>3. \A p, r : Right(p, r)' = Right(p, r)
      BY <3>2, RightStays
    <3>4. \A k : Fixed(k)' <=> Fixed(k)
      BY <1>2, <3>3 DEF Fixed
    <3>5. \A S : Buildable(S)' <=> Buildable(S)
      BY <2>10 DEF Buildable
    <3>6. fixer[x].all = problems /\ fixer[x].list = koji[release] /\ fixer[x].left \subseteq problems
      BY <1>1, <3>1 DEF UndisturbedInv
    <3>7. Fix(q) = Right(q, release)
      BY <3>6 DEF Right
    <3>8. e.was = <<e.fix>> => Fixed(row)
      <4>1. ASSUME Was(q) = <<Fix(q)>> PROVE row \in DOMAIN fixes /\ fixes[row] = Fix(q)
        <5>1. row \in DOMAIN fixes
          BY <4>1 DEF row
        <5>2. Was(q) = <<fixes[row]>>
          BY <5>1 DEF row
        <5>3. <<fixes[row]>> = <<Fix(q)>> => fixes[row] = Fix(q)
          OBVIOUS
        <5>. QED BY <4>1, <5>1, <5>2, <5>3
      <4>. QED BY <2>2, <2>4, <3>7, <4>1 DEF Fixed
    <3>9. ASSUME NEW k \in DOMAIN fixer'[x].pend
          PROVE  /\ fixer'[x].pend[k].fix = Right(k[1], k[2])
                 /\ fixer'[x].pend[k].was = <<fixer'[x].pend[k].fix>> => Fixed(k)
      <4>1. CASE k = row
        BY <2>2, <2>4, <2>8, <3>7, <3>8, <4>1
      <4>2. CASE k # row
        BY <2>8, <4>2, <1>1, <3>1 DEF UndisturbedInv
      <4>. QED BY <4>1, <4>2
    <3>10. ASSUME NEW p \in problems
           PROVE  \/ p \in fixer'[x].left \/ FixRow(p, release) \in DOMAIN fixer'[x].pend
                  \/ Fixed(FixRow(p, release)) /\ Buildable(fixes[FixRow(p, release)])
      <4>1. \/ p \in fixer[x].left \/ FixRow(p, release) \in DOMAIN fixer[x].pend
            \/ Fixed(FixRow(p, release)) /\ Buildable(fixes[FixRow(p, release)])
        BY <1>1, <3>1 DEF UndisturbedInv
      <4>2. CASE p = q
        BY <4>2, <2>8 DEF FixRow, row
      <4>3. CASE p # q
        BY <2>6, <2>8, <4>1, <4>3
      <4>. QED BY <4>2, <4>3
    <3>11. UNCHANGED <<problems, fixes, koji>>
      BY <1>2
    <3>12. /\ fixer'[x].all = problems' /\ fixer'[x].list = koji'[Current(x)']
           /\ fixer'[x].left \subseteq problems'
      BY <2>6, <2>7, <2>11, <3>6, <3>11
    <3>13. \A p \in problems' :
             \/ p \in fixer'[x].left
             \/ FixRow(p, Current(x)') \in DOMAIN fixer'[x].pend
             \/ Fixed(FixRow(p, Current(x)))' /\ Buildable(fixes[FixRow(p, Current(x))])'
      BY <2>11, <3>3, <3>11, <2>10, <3>10 DEF Fixed, FixRow, Buildable
    <3>. QED BY <3>3, <3>4, <3>9, <3>12, <3>13 DEF UndisturbedInv
  <2>15. ~Done(x)
    BY <2>6 DEF Done
  <2>. QED BY <1>2, <1>4, <1>5, <2>13, <2>14, <2>15, StepFix
<1>. QED BY <1>3, <1>6, <1>7, Zenon

\* What a run inserts of builds is finite, and what it adds is stored then.
LEMMA AddedBuilds ==
  ASSUME FixInv, NEW x \in Fixer,
         builds' = Over([b \in Range(fixer[x].add) |->
                           Count(builds, b) + Cardinality({i \in DOMAIN fixer[x].add : fixer[x].add[i] = b})], builds)
  PROVE  /\ builds' \in [DOMAIN builds' -> Nat]
         /\ \A b : Count(builds, b) > 0 => Count(builds', b) > 0
         /\ \A b \in Range(fixer[x].add) : Count(builds', b) > 0
<1>. DEFINE add == fixer[x].add
            times(b) == Cardinality({i \in DOMAIN add : add[i] = b})
            new == [b \in Range(add) |-> Count(builds, b) + times(b)]
<1>1. IsSeq(add) /\ builds \in [DOMAIN builds -> Nat]
  BY DEF FixInv, FixTypeOK, PendingInv
<1>2. \A b : Count(builds, b) \in Nat
  BY <1>1 DEF Count
<1>. HIDE DEF add
<1>3. IsFiniteSet(DOMAIN add)
  <2>. DEFINE R == Range(add)
  <2>1. add \in Seq(R)
    BY <1>1 DEF IsSeq
  <2>. HIDE DEF R
  <2>2. DOMAIN add = 1 .. Len(add) /\ Len(add) \in Nat
    BY <2>1
  <2>3. IsFiniteSet(1 .. Len(add))
    BY <2>2, FS_Interval
  <2>. QED BY <2>2, <2>3
<1>4. ASSUME NEW b \in Range(add) PROVE times(b) \in Nat /\ times(b) > 0
  <2>. DEFINE I == {i \in DOMAIN add : add[i] = b}
  <2>1. IsFiniteSet(I)
    BY <1>3, FS_Subset
  <2>2. I # {}
    BY <1>4 DEF Range
  <2>. HIDE DEF I
  <2>3. Cardinality(I) \in Nat /\ Cardinality(I) # 0
    BY <2>1, <2>2, FS_CardinalityType, FS_EmptySet
  <2>. QED BY <2>3 DEF I
<1>. HIDE DEF times
<1>5. builds' = Over(new, builds)
  BY DEF add, times
<1>6. \A b \in Range(add) : new[b] = Count(builds, b) + times(b) /\ new[b] \in Nat /\ new[b] > 0
  BY <1>2, <1>4
<1>7. DOMAIN new = Range(add)
  OBVIOUS
<1>. HIDE DEF new
<1>8. /\ DOMAIN builds' = Range(add) \cup DOMAIN builds
      /\ \A b \in DOMAIN builds' : builds'[b] = IF b \in Range(add) THEN new[b] ELSE builds[b]
      /\ builds' = [b \in DOMAIN builds' |-> builds'[b]]
  BY <1>5, <1>7 DEF Over
<1>9. ASSUME NEW b \in DOMAIN builds' PROVE builds'[b] \in Nat
  BY <1>1, <1>6, <1>8
<1>10. ASSUME NEW b \in Range(add) PROVE Count(builds', b) > 0
  BY <1>6, <1>8 DEF Count
<1>11. ASSUME NEW b, Count(builds, b) > 0 PROVE Count(builds', b) > 0
  <2>1. b \in DOMAIN builds
    BY <1>11 DEF Count
  <2>2. CASE b \notin Range(add)
    BY <1>8, <1>11, <2>1, <2>2 DEF Count
  <2>. QED BY <1>10, <2>2
<1>. QED BY <1>8, <1>9, <1>10, <1>11 DEF add

LEMMA FixFlushFix ==
  ASSUME FixInv, Watch, NEW x \in Fixer, FixFlush(x)
  PROVE  FixInv'
<1>. DEFINE run == fixer[x]
            done == [run EXCEPT !.pend = <<>>, !.add = <<>>, !.expired = TRUE,
                                !.pc = IF run.left = {} THEN "release" ELSE "problem",
                                !.tasks = IF run.left = {} THEN Tail(@) ELSE @]
<1>1. DOMAIN fixer = Fixer /\ PendingInv(x) /\ DOMAIN run = FixerFields /\ run.pc = "problem"
  BY DEF FixInv, FixTypeOK, PendingInv, FixFlush
<1>2. UNCHANGED <<problems, problemOf, koji, serverVars>>
  BY DEF FixFlush
<1>3. ~Starting(x)
  BY <1>1 DEF Starting
<1>4. CASE FixRefused(x)
  <2>1. fixer' = [fixer EXCEPT ![x] = [NoFixer EXCEPT !.pc = "dead"]] /\ UNCHANGED <<fixes, builds>>
    BY <1>4 DEF FixFlush
  <2>2. /\ DOMAIN fixer'[x] = FixerFields /\ fixer'[x].pc = "dead"
        /\ fixer'[x].pend = <<>> /\ fixer'[x].add = <<>>
    BY <1>1, <2>1 DEF NoFixer, FixerFields
  <2>3. PendingInv(x)' /\ UndisturbedInv(x)'
    BY <2>2, Emptied DEF PendingInv, UndisturbedInv
  <2>4. ~Done(x)
    BY <2>2 DEF Done
  <2>5. DOMAIN fixer' = Fixer /\ \A y \in Fixer \ {x} : fixer'[y] = fixer[y]
    BY <1>1, <2>1
  <2>. QED BY <1>2, <2>1, <2>3, <2>4, <2>5, StepFix
<1>5. CASE ~FixRefused(x)
  <2>1. /\ fixes' = Over([row \in Changed(run.pend) |-> run.pend[row].fix], fixes)
        /\ builds' = Over([b \in Range(fixer[x].add) |->
                           Count(builds, b) + Cardinality({i \in DOMAIN fixer[x].add : fixer[x].add[i] = b})], builds)
        /\ fixer' = [fixer EXCEPT ![x] = done]
    BY <1>5 DEF FixFlush
  <2>2. /\ DOMAIN done = FixerFields /\ done.pend = <<>> /\ done.add = <<>>
        /\ done.pc = IF run.left = {} THEN "release" ELSE "problem"
        /\ done.all = run.all /\ done.left = run.left /\ done.list = run.list
        /\ run.left # {} => done.tasks = run.tasks
    BY <1>1 DEF FixerFields
  <2>. HIDE DEF done
  <2>3. DOMAIN fixer' = Fixer /\ fixer'[x] = done /\ \A y \in Fixer \ {x} : fixer'[y] = fixer[y]
    BY <1>1, <2>1
  <2>4. /\ builds' \in [DOMAIN builds' -> Nat]
        /\ \A b : Count(builds, b) > 0 => Count(builds', b) > 0
        /\ \A b \in Range(run.add) : Count(builds', b) > 0
    BY <2>1, AddedBuilds
  <2>5. FixTypeOK'
    BY <1>2, <2>3, <2>4 DEF FixInv, FixTypeOK
  <2>6. (\A b : HasBuild(b) => HasBuild(b)') /\ (\A b \in Range(run.add) : HasBuild(b)')
    <3>1. packages' = packages
      BY <1>2 DEF serverVars, rowVars
    <3>2. \A b : HasBuild(b) => HasBuild(b)'
      BY <2>4, <3>1, BuildsStay
    <3>3. \A b \in Range(run.add) : HasBuild(b)'
      BY <2>4 DEF HasBuild
    <3>. QED BY <3>2, <3>3
  <2>7. ASSUME NEW y \in Fixer PROVE PendingInv(y)'
    <3>1. CASE y = x
      BY <2>2, <2>3, <3>1, Emptied DEF PendingInv
    <3>2. CASE y # x
      BY <2>3, <3>2, <2>6 DEF FixInv, PendingInv, Current
    <3>. QED BY <3>1, <3>2
  <2>8. FixInputs' = FixInputs
    BY <1>2 DEF FixInputs, serverVars, rowVars
  <2>9. /\ undisturbed' \subseteq undisturbed
        /\ undisturbed' \subseteq Fixer
        /\ \A release \in settled' : release \in settled \/ (x \in undisturbed /\ Done(x) /\ release = Current(x))
        /\ x \notin undisturbed /\ Wrote(x) =>
             /\ Current(x) \notin settled'
             /\ \A y \in undisturbed' \ {x} : fixer[y].pc = "problem" => Current(y) # Current(x)
    BY <1>1, <1>3, <2>3, <2>8, OneMoves DEF FixInv
  <2>10. Wrote(x) \/ DOMAIN run.pend = {}
    BY <2>2, <2>3, Emptied DEF Wrote
  <2>11. \A q, release : Right(q, release)' = Right(q, release)
    BY <2>8, RightStays
  <2>12. /\ \A row : row \notin DOMAIN run.pend =>
              (row \in DOMAIN fixes' <=> row \in DOMAIN fixes) /\ (row \in DOMAIN fixes => fixes'[row] = fixes[row])
         /\ \A row \in DOMAIN run.pend :
              IF run.pend[row].was = <<run.pend[row].fix>>
              THEN row \in DOMAIN fixes => row \in DOMAIN fixes' /\ fixes'[row] = fixes[row]
              ELSE row \in DOMAIN fixes' /\ fixes'[row] = run.pend[row].fix
    BY <2>1, Zenon DEF Over, Changed
  <2>13. \A S : Buildable(S) => Buildable(S)'
    BY <2>6 DEF Buildable
  <2>. DEFINE Good(row) == Fixed(row) /\ Buildable(fixes[row])
  <2>14. ASSUME x \in undisturbed, NEW row \in DOMAIN run.pend PROVE Fixed(row)' /\ Buildable(fixes[row])'
    <3>1. UndisturbedInv(x)
      BY <2>14 DEF FixInv
    <3>2. /\ run.pend[row].fix = Right(row[1], row[2])
          /\ run.pend[row].was = <<run.pend[row].fix>> => Fixed(row)
      BY <1>1, <2>14, <3>1 DEF UndisturbedInv
    <3>3. row \in DOMAIN fixes' /\ fixes'[row] = run.pend[row].fix
      BY <2>12, <3>2 DEF Fixed
    <3>4. \A b \in run.pend[row].fix : HasBuild(b)'
      BY <1>1, <2>6 DEF PendingInv
    <3>5. Fixed(row)'
      BY <2>11, <3>2, <3>3 DEF Fixed
    <3>. QED BY <3>3, <3>4, <3>5 DEF Buildable
  <2>15. ASSUME NEW row, row \notin DOMAIN run.pend PROVE /\ Fixed(row) => Fixed(row)'
                                                          /\ Good(row) => Fixed(row)' /\ Buildable(fixes[row])'
    <3>1. Fixed(row) => row \in DOMAIN fixes' /\ fixes'[row] = fixes[row]
      BY <2>12, <2>15 DEF Fixed
    <3>2. Fixed(row) => Fixed(row)'
      BY <2>11, <3>1 DEF Fixed
    <3>3. Fixed(row) /\ Buildable(fixes[row]) => Buildable(fixes[row])'
      BY <2>6, <3>1 DEF Buildable
    <3>. QED BY <3>2, <3>3
  <2>16. \A row \in DOMAIN run.pend : row[2] = Current(x)
    <3>1. ASSUME NEW row \in DOMAIN run.pend PROVE row[2] = Current(x)
      BY <1>1 DEF PendingInv
    <3>. QED BY <3>1
  <2>17. \A q, release : FixRow(q, release)[2] = release
    BY DEF FixRow
  <2>18. ASSUME NEW y \in undisturbed', y # x PROVE UndisturbedInv(y)'
    <3>1. UndisturbedInv(y) /\ fixer'[y] = fixer[y] /\ y \in Fixer
      BY <2>3, <2>9, <2>18 DEF FixInv
    <3>2. PICK c : c = Current(y) /\ c = Current(y)'
      BY <3>1 DEF Current
    <3>3. CASE fixer[y].pc # "problem"
      BY <1>2, <3>1, <3>3 DEF UndisturbedInv
    <3>4. CASE fixer[y].pc = "problem"
      <4>1. ASSUME NEW row, row[2] = c
            PROVE  /\ Fixed(row) => Fixed(row)'
                   /\ Good(row) => Fixed(row)' /\ Buildable(fixes[row])'
        <5>1. CASE row \notin DOMAIN run.pend
          BY <2>15, <5>1
        <5>2. CASE row \in DOMAIN run.pend
          BY <2>9, <2>10, <2>16, <2>18, <3>2, <3>4, <4>1, <5>2, <2>14
        <5>. QED BY <5>1, <5>2
      <4>2. /\ fixer[y].all = problems /\ fixer[y].list = koji[c] /\ fixer[y].left \subseteq problems
            /\ \A q \in problems : \/ q \in fixer[y].left
                                   \/ FixRow(q, c) \in DOMAIN fixer[y].pend
                                   \/ Good(FixRow(q, c))
        BY <3>1, <3>2, <3>4 DEF UndisturbedInv
      <4>3. ASSUME NEW q \in problems
            PROVE  \/ q \in fixer[y].left \/ FixRow(q, c) \in DOMAIN fixer[y].pend
                   \/ Fixed(FixRow(q, c))' /\ Buildable(fixes[FixRow(q, c)])'
        BY <2>17, <4>1, <4>2
      <4>4. ASSUME NEW row \in DOMAIN fixer[y].pend
            PROVE  /\ fixer[y].pend[row].fix = Right(row[1], row[2])'
                   /\ fixer[y].pend[row].was = <<fixer[y].pend[row].fix>> => Fixed(row)'
        <5>1. row[2] = c
          <6>1. PendingInv(y)
            BY <3>1 DEF FixInv
          <6>2. row = <<row[1], c>>
            BY <3>2, <6>1 DEF PendingInv
          <6>. QED BY <6>2
        <5>2. /\ fixer[y].pend[row].fix = Right(row[1], row[2])
              /\ fixer[y].pend[row].was = <<fixer[y].pend[row].fix>> => Fixed(row)
          BY <3>1, <3>4 DEF UndisturbedInv
        <5>. QED BY <2>11, <4>1, <5>1, <5>2
      <4>. QED BY <1>2, <3>1, <3>2, <4>2, <4>3, <4>4 DEF UndisturbedInv
    <3>. QED BY <3>3, <3>4
  <2>19. ASSUME x \in undisturbed PROVE UndisturbedInv(x)'
    <3>1. UndisturbedInv(x)
      BY <2>19 DEF FixInv
    <3>2. PICK c : c = Current(x)
      OBVIOUS
    <3>3. /\ run.all = problems /\ run.list = koji[c] /\ run.left \subseteq problems
          /\ \A q \in problems : \/ q \in run.left \/ FixRow(q, c) \in DOMAIN run.pend \/ Good(FixRow(q, c))
      BY <1>1, <3>1, <3>2 DEF UndisturbedInv
    <3>4. ASSUME NEW q \in problems, q \notin run.left
          PROVE  Fixed(FixRow(q, c))' /\ Buildable(fixes[FixRow(q, c)])'
      BY <2>14, <2>15, <2>19, <3>3, <3>4
    <3>5. CASE run.left = {}
      BY <1>2, <2>2, <2>3, <3>3, <3>5, Emptied DEF UndisturbedInv
    <3>6. CASE run.left # {}
      <4>1. Current(x)' = c
        BY <2>2, <2>3, <3>2, <3>6 DEF Current
      <4>. QED BY <1>2, <2>2, <2>3, <3>3, <3>4, <3>6, <4>1, Emptied DEF UndisturbedInv
    <3>. QED BY <3>5, <3>6
  <2>20. ASSUME NEW release \in settled' PROVE SettledInv(release)'
    <3>1. CASE x \in undisturbed /\ Done(x) /\ release = Current(x)
      <4>1. UndisturbedInv(x) /\ run.left = {}
        BY <2>2, <2>3, <3>1 DEF FixInv, Done
      <4>2. \A q \in problems : FixRow(q, release) \in DOMAIN run.pend \/ Good(FixRow(q, release))
        BY <1>1, <3>1, <4>1 DEF UndisturbedInv
      <4>3. \A q \in problems : Fixed(FixRow(q, release))' /\ Buildable(fixes[FixRow(q, release)])'
        BY <2>14, <2>15, <3>1, <4>2
      <4>. QED BY <1>2, <4>3 DEF SettledInv
    <3>2. CASE release \in settled
      <4>1. \A q \in problems : Good(FixRow(q, release))
        BY <3>2 DEF FixInv, SettledInv
      <4>2. ASSUME NEW q \in problems PROVE Fixed(FixRow(q, release))' /\ Buildable(fixes[FixRow(q, release)])'
        <5>1. CASE FixRow(q, release) \notin DOMAIN run.pend
          BY <2>15, <4>1, <5>1
        <5>2. CASE FixRow(q, release) \in DOMAIN run.pend
          BY <2>16, <2>17, <5>2, <2>9, <2>10, <2>20, <2>14
        <5>. QED BY <5>1, <5>2
      <4>. QED BY <1>2, <4>2 DEF SettledInv
    <3>. QED BY <2>9, <2>20, <3>1, <3>2
  <2>21. ASSUME NEW y \in undisturbed' PROVE UndisturbedInv(y)'
    BY <2>9, <2>18, <2>19
  <2>. QED BY <2>5, <2>7, <2>9, <2>20, <2>21 DEF FixInv
<1>. QED BY <1>4, <1>5

LEMMA InitFix == ASSUME Init PROVE FixInv
<1>1. /\ builds = <<>> /\ koji = [r \in Range(Releases) |-> <<>>] /\ fixer = [x \in Fixer |-> NoFixer]
      /\ undisturbed = {} /\ settled = {}
  BY DEF Init, FixInit
<1>2. FixTypeOK
  <2>1. <<>> \in Seq(ABuild)
    OBVIOUS
  <2>2. koji \in [Range(Releases) -> Seq(ABuild)]
    BY <1>1, <2>1
  <2>3. builds \in [DOMAIN builds -> Nat]
    BY <1>1, Emptied
  <2>. QED BY <1>1, <2>2, <2>3 DEF FixTypeOK
<1>3. ASSUME NEW x \in Fixer PROVE PendingInv(x)
  BY <1>1, Emptied DEF NoFixer, FixerFields, PendingInv
<1>. QED BY <1>1, <1>2, <1>3 DEF FixInv

LEMMA MarkFix == ASSUME FixInv, Mark, Watch PROVE FixInv'
<1>1. ASSUME NEW x \in Fixer, NEW o \in Option, NEW auto \in BOOLEAN, FixStart(x, o[1], o[2], auto) PROVE FixInv'
  BY <1>1, FixStartFix
<1>2. ASSUME NEW x \in Fixer, FixStep(x) PROVE FixInv'
  BY <1>2, FixReleaseFix, FixProblemFix, FixFlushFix DEF FixStep
<1>3. ASSUME NEW q \in Problem, NEW r \in reports, AssignProblem(q, r) PROVE FixInv'
  BY <1>3, QuietFix DEF AssignProblem, serverVars, rowVars, FixInv, FixTypeOK
<1>4. ASSUME NEW q \in Problem, RemoveProblem(q) PROVE FixInv'
  <2>1. UNCHANGED <<builds, koji, fixer, packages>>
    BY <1>4 DEF RemoveProblem, serverVars, rowVars
  <2>2. problems' # problems
    BY <1>4 DEF RemoveProblem
  <2>3. FixInputs' # FixInputs
    BY <2>2 DEF FixInputs
  <2>. QED BY <2>1, <2>3, QuietFix DEF FixInv, FixTypeOK
<1>5. ASSUME NEW b \in NewBuilds, NewBuild(b[1], b[2]) PROVE FixInv'
  <2>1. UNCHANGED <<fixes, builds, fixer, packages>> /\ koji' = [koji EXCEPT ![b[1]] = <<b[2]>> \o @]
    BY <1>5 DEF NewBuild, serverVars, rowVars
  <2>2. b[1] \in Range(Releases) /\ b[2] \in ABuild
    BY NewBuildsAssumption DEF ABuild
  <2>3. koji \in [Range(Releases) -> Seq(ABuild)]
    BY DEF FixInv, FixTypeOK
  <2>4. <<b[2]>> \o koji[b[1]] \in Seq(ABuild)
    <3>. HIDE DEF ABuild
    <3>. QED BY <2>2, <2>3
  <2>5. koji' \in [Range(Releases) -> Seq(ABuild)]
    BY <2>1, <2>3, <2>4
  <2>. QED BY <2>1, <2>5, QuietFix
<1>. QED BY <1>1, <1>2, <1>3, <1>4, <1>5 DEF Mark

LEMMA NextFix == ASSUME FixInv, [Next]_vars PROVE FixInv'
<1>1. koji \in [Range(Releases) -> Seq(ABuild)]
  BY DEF FixInv, FixTypeOK
<1>2. CASE (Run \/ Incoming) /\ UNCHANGED fixVars /\ Watch
  <2>1. UNCHANGED <<fixer, builds, fixes, koji>>
    BY <1>2 DEF fixVars
  <2>2. packages \subseteq packages'
    <3>1. Run => packages' = packages
      <4>1. ASSUME NEW p \in Saver, SaverStep(p) PROVE packages' = packages
        <5>1. CASE SaveOne(p)
          BY <5>1, FrameGathers DEF Gathers
        <5>. QED BY <4>1, <5>1, Zenon DEF SaverStep, SaveOne, FedoraCount, CentosCount, CountItem, StartFrames, EndFrames, Flush
      <4>. QED BY <4>1, Zenon DEF Run, MatchNext, MatchFlush
    <3>2. Incoming => packages \subseteq packages'
      BY DEF Incoming, Begin, MatchStart, AddPackage
    <3>. QED BY <1>2, <3>1, <3>2
  <2>. QED BY <1>1, <1>2, <2>1, <2>2, QuietFix
<1>3. CASE Mark /\ Watch
  BY <1>3, MarkFix
<1>4. CASE UNCHANGED <<serverVars, fixVars, watchVars>>
  <2>1. UNCHANGED <<packages, reports, rows, fixer, builds, fixes, koji, problems, problemOf, undisturbed, settled>>
    BY <1>4 DEF serverVars, rowVars, fixVars, watchVars
  <2>2. Watch
    <3>1. FixInputs' = FixInputs
      BY <2>1 DEF FixInputs
    <3>2. \A x : ~Wrote(x) /\ ~Starting(x) /\ ~Done(x)
      BY <2>1 DEF Wrote, Starting, Done
    <3>3. UNION {At(x) : x \in {x \in Fixer \ undisturbed : Wrote(x)}} = {}
      BY <3>2
    <3>4. UNION {At(x) : x \in {x \in undisturbed : Done(x)}} = {}
      BY <3>2
    <3>. QED BY <2>1, <3>1, <3>2, <3>3, <3>4 DEF Watch
  <2>. QED BY <1>1, <2>1, <2>2, QuietFix
<1>5. Serve \/ FileAway => UNCHANGED <<serverVars, fixVars>>
  BY ServeKeeps
<1>. QED BY <1>2, <1>3, <1>4, <1>5 DEF Next, vars, serverVars, fixVars

\* The rows and the runs keep what is claimed of them in every state of the server.
THEOREM FixInvAlways == Spec => [](RowsInv /\ FixInv)
<1>1. Init => RowsInv /\ FixInv
  BY InitRows, InitFix
<1>2. RowsInv /\ FixInv /\ [Next]_vars => RowsInv' /\ FixInv'
  BY NextRows, NextFix
<1>. QED BY <1>1, <1>2, PTL DEF Spec

\* There are finitely many builds that reports were affected by.
LEMMA AffectedFinite ==
  ASSUME RowsInv
  PROVE  \E S : /\ IsFiniteSet(S) /\ \A r : Affected(r) \subseteq S
                /\ \A a \in S : a[2] \in Nat
<1>. DEFINE K == {k \in DOMAIN rows : k[1] \in {"known", "unknown"}}
            f == [k \in K |-> BuildOf[k[3]]]
            g == [k \in K |-> <<k[2][1], BuildOf[k[3]][2]>>]
            F == {f[k] : k \in K}
            G == {g[k] : k \in K}
<1>1. IsFiniteSet(K) /\ \A k \in K : k[3] \in DOMAIN BuildOf
  BY FS_Subset DEF RowsInv, Built
<1>2. \A k \in K : f[k] = BuildOf[k[3]] /\ g[k] = <<k[2][1], BuildOf[k[3]][2]>>
  OBVIOUS
<1>3. \A k \in K : BuildOf[k[3]] \in STRING \X Nat
  BY <1>1, BuildAssumption
<1>4. \A k \in K : f[k][2] \in Nat /\ g[k][2] \in Nat
  BY <1>2, <1>3
<1>5. \A r : Affected(r) \subseteq F \cup G
  <2>1. ASSUME NEW r, NEW a \in CrashedKnown(r) PROVE a \in F
    <3>1. PICK k \in DOMAIN rows : k[1] = "known" /\ a = BuildOf[k[3]]
      BY <2>1 DEF CrashedKnown
    <3>. QED BY <3>1
  <2>2. ASSUME NEW r, NEW a \in CrashedUnknown(r) PROVE a \in G
    <3>1. PICK k \in DOMAIN rows : k[1] = "unknown" /\ k[2] = r /\ a = <<r[1], BuildOf[k[3]][2]>>
      BY <2>2 DEF CrashedUnknown
    <3>. QED BY <3>1
  <2>. QED BY <2>1, <2>2 DEF Affected
<1>6. f \in Surjection(K, F) /\ g \in Surjection(K, G)
  BY DEF Surjection
<1>. HIDE DEF K, f, g
<1>7. IsFiniteSet(F) /\ IsFiniteSet(G)
  BY <1>1, <1>6, FS_Surjection
<1>8. \A a \in F \cup G : a[2] \in Nat
  BY <1>4
<1>. HIDE DEF F, G
<1>9. IsFiniteSet(F \cup G)
  BY <1>7, FS_Union
<1>. QED BY <1>5, <1>8, <1>9

\* After a run of mark-probably-fixed whose inputs nobody changed, and until they
\* change, each problem has in each release of the run the oldest build that is
\* newer than every package affected, and none where there is no such build,
\* whatever runs, reports, packages and builds there are (mark_probably_fixed.py, run).
THEOREM FixIsRightAlways == Spec => []FixIsRight
<1>1. RowsInv /\ FixInv => FixIsRight
  <2>. SUFFICES ASSUME RowsInv, FixInv, NEW release \in settled \cap Range(Releases), NEW q \in problems
                PROVE  /\ <<q, release>> \in DOMAIN fixes /\ fixes[<<q, release>>] = RightFix(q, release)
                       /\ \A b \in fixes[<<q, release>>] : HasBuild(b)
    BY DEF FixIsRight
  <2>1. PICK S : /\ IsFiniteSet(S) /\ \A r : Affected(r) \subseteq S
                 /\ \A a \in S : a[2] \in Nat
    BY AffectedFinite
  <2>2. koji[release] \in Seq(ABuild)
    BY DEF FixInv, FixTypeOK
  <2>3. Right(q, release) = RightFix(q, release)
    BY <2>1, <2>2, FixOfRight
  <2>4. Fixed(FixRow(q, release)) /\ Buildable(fixes[FixRow(q, release)])
    BY DEF FixInv, SettledInv
  <2>5. FixRow(q, release) = <<q, release>> /\ FixRow(q, release)[1] = q /\ FixRow(q, release)[2] = release
    BY DEF FixRow
  <2>. QED BY <2>3, <2>4, <2>5 DEF Fixed, Buildable
<1>. QED BY <1>1, FixInvAlways, PTL

-----------------------------------------------------------------------------
(* Refused flushes: what a process that is alone at work writes fits.      *)

LEMMA OnlyOne == ASSUME NEW x PROVE Only({x}) = x
BY DEF Only

LEMMA Nothing == DOMAIN <<>> = {} /\ IsSeq(<<>>) /\ NoTwice(<<>>) /\ Range(<<>>) = {}
BY DEF IsSeq, NoTwice, Range

\* An item twice makes the items fewer than the positions.
LEMMA RepeatsFewer ==
  ASSUME NEW u, IsSeq(u.packages), Repeats(u)
  PROVE  Cardinality(Range(u.packages)) < Len(u.packages)
<1>. DEFINE s == u.packages
            n == Len(s)
<1>1. n \in Nat /\ DOMAIN s = 1 .. n
  <2>. DEFINE T == Range(s)
  <2>1. s \in Seq(T)
    BY DEF IsSeq
  <2>. HIDE DEF T, s
  <2>. QED BY <2>1
<1>. HIDE DEF n
<1>2. PICK i \in 1 .. n, j \in 1 .. n : i # j /\ s[i] = s[j]
  BY <1>1 DEF Repeats
<1>. DEFINE D == (1 .. n) \ {j}
            R == Range(s)
            f == [k \in D |-> s[k]]
<1>3. IsFiniteSet(1 .. n) /\ Cardinality(1 .. n) = n
  BY <1>1, FS_Interval
<1>4. IsFiniteSet(D) /\ Cardinality(D) = n - 1
  BY <1>2, <1>3, FS_RemoveElement
<1>5. f \in Surjection(D, R)
  <2>1. \A k \in D : f[k] = s[k] /\ s[k] \in R
    BY <1>1, RangeOf
  <2>2. ASSUME NEW y \in R PROVE \E k \in D : f[k] = y
    <3>1. PICK k \in 1 .. n : s[k] = y
      BY <1>1 DEF Range
    <3>2. CASE k = j
      BY <1>2, <3>1, <3>2
    <3>3. CASE k # j
      BY <3>1, <3>3
    <3>. QED BY <3>2, <3>3
  <2>. HIDE DEF R
  <2>. QED BY <2>1, <2>2 DEF Surjection
<1>. HIDE DEF D, R, f
<1>6. Cardinality(R) <= Cardinality(D) /\ Cardinality(R) \in Nat
  BY <1>4, <1>5, FS_Surjection, FS_CardinalityType
<1>. QED BY <1>1, <1>4, <1>6 DEF R, n

-----------------------------------------------------------------------------
(* The items of a uReport. *)

Differ(s, K) == IsSeq(s) /\ NoTwice(s) /\ \A e \in Range(s) : Triple(e) /\ e[1] \in K

LEMMA DifferConcat ==
  ASSUME NEW s, NEW t, NEW K, NEW L, Differ(s, K), Differ(t, L), K \cap L = {}
  PROVE  Differ(s \o t, K \cup L)
<1>1. IsSeq(s) /\ IsSeq(t) /\ IsSeq(s \o t) /\ Range(s \o t) = Range(s) \cup Range(t)
  BY SeqConcat DEF Differ
<1>2. \A e \in Range(s \o t) : Triple(e) /\ e[1] \in K \cup L
  BY <1>1 DEF Differ
<1>3. /\ DOMAIN s = 1 .. Len(s) /\ Len(s) \in Nat /\ DOMAIN t = 1 .. Len(t) /\ Len(t) \in Nat
      /\ DOMAIN (s \o t) = 1 .. Len(s) + Len(t)
      /\ \A i \in 1 .. Len(s) + Len(t) : (s \o t)[i] = IF i <= Len(s) THEN s[i] ELSE t[i - Len(s)]
  <2>. DEFINE A == Range(s)
              B == Range(t)
  <2>1. s \in Seq(A) /\ t \in Seq(B)
    BY <1>1 DEF IsSeq
  <2>. HIDE DEF A, B
  <2>2. s \in Seq(A \cup B) /\ t \in Seq(A \cup B)
    BY <2>1
  <2>. QED BY <2>2
<1>4. ASSUME NEW i \in DOMAIN (s \o t), NEW j \in DOMAIN (s \o t), i # j, (s \o t)[i] = (s \o t)[j] PROVE FALSE
  <2>1. i \in 1 .. Len(s) + Len(t) /\ j \in 1 .. Len(s) + Len(t)
    BY <1>3
  <2>2. CASE i <= Len(s) /\ j <= Len(s)
    BY <1>3, <1>4, <2>1, <2>2 DEF Differ, NoTwice
  <2>3. CASE ~(i <= Len(s)) /\ ~(j <= Len(s))
    BY <1>3, <1>4, <2>1, <2>3 DEF Differ, NoTwice
  <2>4. ASSUME NEW a \in DOMAIN s, NEW b \in DOMAIN t, s[a] = t[b] PROVE FALSE
    BY RangeOf, <2>4 DEF Differ
  <2>5. CASE i <= Len(s) /\ ~(j <= Len(s))
    BY <1>3, <1>4, <2>1, <2>5, <2>4
  <2>6. CASE ~(i <= Len(s)) /\ j <= Len(s)
    BY <1>3, <1>4, <2>1, <2>6, <2>4
  <2>. QED BY <2>2, <2>3, <2>5, <2>6
<1>5. NoTwice(s \o t)
  BY <1>4 DEF NoTwice
<1>. QED BY <1>1, <1>2, <1>5 DEF Differ

LEMMA DifferEach ==
  ASSUME NEW n \in Nat, NEW s, s = [i \in 1 .. n |-> s[i]], NEW K,
         \A i \in 1 .. n : Triple(s[i]) /\ s[i][1] \in K,
         \A i, j \in 1 .. n : i # j => s[i] # s[j]
  PROVE  Differ(s, K)
<1>1. DOMAIN s = 1 .. n
  OBVIOUS
<1>2. ASSUME NEW e \in Range(s) PROVE Triple(e) /\ e[1] \in K
  <2>1. PICK i \in DOMAIN s : e = s[i]
    BY DEF Range
  <2>. QED BY <1>1, <2>1
<1>3. s \in Seq(Range(s))
  <2>. DEFINE T == Range(s)
  <2>1. \A i \in 1 .. n : s[i] \in T
    BY <1>1, RangeOf
  <2>. HIDE DEF T
  <2>2. s \in Seq(T)
    BY <2>1
  <2>. QED BY <2>2 DEF T
<1>4. NoTwice(s)
  BY <1>1 DEF NoTwice
<1>. QED BY <1>2, <1>3, <1>4 DEF Differ, IsSeq

LEMMA DifferOne ==
  ASSUME NEW e, Triple(e)
  PROVE  Differ(<<e>>, {e[1]})
<1>1. <<e>> = [i \in 1 .. 1 |-> <<e>>[i]] /\ <<e>>[1] = e /\ \A i \in 1 .. 1 : i = 1
  OBVIOUS
<1>2. \A i \in 1 .. 1 : Triple(<<e>>[i]) /\ <<e>>[i][1] \in {e[1]}
  BY <1>1
<1>3. \A i, j \in 1 .. 1 : i # j => <<e>>[i] # <<e>>[j]
  BY <1>1
<1>. QED BY <1>1, <1>2, <1>3, DifferEach

LEMMA DifferMore ==
  ASSUME NEW s, NEW K, NEW L, Differ(s, K), K \subseteq L
  PROVE  Differ(s, L)
BY DEF Differ

LEMMA ItemsDiffer ==
  ASSUME NEW u \in UReport, ~Repeats(Completed(u))
  PROVE  LET s == Items(Completed(u)) IN NoTwice(s) /\ \A e \in Range(s) : Triple(e)
<1>. DEFINE v == Completed(u)
            k == v.packages
            d == v.desktop
            pk == [i \in DOMAIN k |-> <<"package", k[i][1], k[i][2]>>]
            none == ""
            ds == [i \in 1 .. Len(d) |-> <<"desktop", d[i], none>>]
<1>1. /\ {"type", "os", "release", "packages", "desktop", "executable", "threads"} \subseteq DOMAIN u
      /\ u.packages \in Seq((DOMAIN BuildOf) \X STRING) /\ u.desktop \in Seq(STRING) /\ Len(u.desktop) <= 1
  BY UReportAssumption
<1>2. v.packages = u.packages /\ v.desktop = u.desktop
  BY <1>1 DEF Completed
<1>3. Differ(pk, {"package"})
  <2>. DEFINE A == DOMAIN BuildOf
              P == A \X STRING
  <2>1. k \in Seq(P)
    BY <1>1, <1>2
  <2>2. DOMAIN k = 1 .. Len(k) /\ Len(k) \in Nat /\ \A i \in 1 .. Len(k) : k[i] \in P
    <3>. HIDE DEF P, k
    <3>. QED BY <2>1
  <2>3. \A i \in 1 .. Len(k) : k[i] = <<k[i][1], k[i][2]>>
    <3>. HIDE DEF k, A
    <3>. QED BY <2>2
  <2>4. \A i, j \in 1 .. Len(k) : i # j => k[i] # k[j]
    BY <2>2 DEF Repeats
  <2>. HIDE DEF k, P
  <2>5. pk = [i \in 1 .. Len(k) |-> pk[i]] /\ \A i \in 1 .. Len(k) : pk[i] = <<"package", k[i][1], k[i][2]>>
    BY <2>2
  <2>. HIDE DEF pk
  <2>6. \A i \in 1 .. Len(k) : Triple(pk[i]) /\ pk[i][1] \in {"package"}
    BY <2>5 DEF Triple
  <2>7. ASSUME NEW i \in 1 .. Len(k), NEW j \in 1 .. Len(k), pk[i] = pk[j] PROVE i = j
    <3>1. k[i][1] = k[j][1] /\ k[i][2] = k[j][2]
      BY <2>5, <2>7
    <3>. QED BY <2>3, <2>4, <3>1
  <2>. QED BY <2>2, <2>5, <2>6, <2>7, DifferEach
<1>4. Differ(ds, {"desktop"})
  <2>1. Len(d) \in Nat /\ Len(d) <= 1
    BY <1>1, <1>2
  <2>. HIDE DEF d, none
  <2>2. ds = [i \in 1 .. Len(d) |-> ds[i]] /\ \A i \in 1 .. Len(d) : ds[i] = <<"desktop", d[i], none>>
    OBVIOUS
  <2>. HIDE DEF ds
  <2>3. ASSUME NEW i \in 1 .. Len(d) PROVE Triple(ds[i]) /\ ds[i][1] \in {"desktop"}
    BY <2>2 DEF Triple
  <2>4. \A i, j \in 1 .. Len(d) : i = j
    BY <2>1
  <2>5. \A i, j \in 1 .. Len(d) : i # j => ds[i] # ds[j]
    BY <2>4
  <2>. QED BY <2>1, <2>2, <2>3, <2>5, DifferEach
<1>5. ASSUME NEW a, NEW x, NEW y PROVE Differ(<<<<a, x, y>>>>, {a})
  BY DifferOne DEF Triple
<1>6. ASSUME NEW K PROVE Differ(<<>>, K)
  BY DEF IsSeq, Range, Differ, NoTwice
<1>7. Differ(ReleaseItem(v), {"release"})
  <2>. HIDE DEF v
  <2>. QED BY <1>5 DEF ReleaseItem
<1>8. Differ(Executable(v), {"executable"})
  <2>. HIDE DEF v
  <2>. QED BY <1>5, <1>6 DEF Executable
<1>9. Differ(IF v.os = "fedora" THEN FedoraItems(v) ELSE CentosItems(v), {"desktop", "package"})
  <2>1. FedoraItems(v) = ds \o pk /\ CentosItems(v) = pk
    BY DEF FedoraItems, CentosItems
  <2>. HIDE DEF v, ds, pk
  <2>2. {"desktop"} \cup {"package"} = {"desktop", "package"} /\ {"desktop"} \cap {"package"} = {}
    OBVIOUS
  <2>3. Differ(ds \o pk, {"desktop", "package"})
    BY <1>3, <1>4, <2>2, DifferConcat
  <2>4. Differ(pk, {"desktop", "package"})
    BY <1>3, DifferMore
  <2>. QED BY <2>1, <2>3, <2>4
<1>10. Items(v) = ReleaseItem(v) \o (IF v.os = "fedora" THEN FedoraItems(v) ELSE CentosItems(v)) \o Executable(v)
  <2>. HIDE DEF v
  <2>. QED BY DEF Items
<1>. DEFINE system == IF v.os = "fedora" THEN FedoraItems(v) ELSE CentosItems(v)
            K == {"release"} \cup {"desktop", "package"}
<1>. HIDE DEF v
<1>11. Differ(ReleaseItem(v) \o system, K)
  <2>1. {"release"} \cap {"desktop", "package"} = {}
    OBVIOUS
  <2>. HIDE DEF system
  <2>. QED BY <1>7, <1>9, <2>1, DifferConcat DEF system
<1>12. Differ(ReleaseItem(v) \o system \o Executable(v), K \cup {"executable"})
  <2>1. K \cap {"executable"} = {}
    OBVIOUS
  <2>. HIDE DEF system, K
  <2>. QED BY <1>8, <1>11, <2>1, DifferConcat
<1>13. Differ(Items(v), K \cup {"executable"})
  BY <1>10, <1>12
<1>. QED BY <1>13 DEF Differ, v

\* Different items have different rows.
LEMMA KeyOfOne ==
  ASSUME NEW e, NEW f, Proper(e), Proper(f), Triple(e), Triple(f), NEW k, IsOf(k, e), IsOf(k, f)
  PROVE  e = f
<1>1. e[2] = f[2] /\ e[3] = f[3]
  BY DEF IsOf
<1>2. e[1] = f[1]
  BY DEF IsOf, Proper
<1>. QED BY <1>1, <1>2 DEF Triple

LEMMA KeyIsOf ==
  ASSUME NEW e, NEW r
  PROVE  IsOf(<<Table(e), r, e[2], e[3]>>, e)
<1>. DEFINE k == <<Table(e), r, e[2], e[3]>>
<1>1. k[1] = Table(e) /\ k[3] = e[2] /\ k[4] = e[3]
  OBVIOUS
<1>. HIDE DEF k
<1>2. k[1] = e[1] \/ (e[1] = "package" /\ k[1] \in {"known", "unknown"})
  BY <1>1 DEF Table
<1>. QED BY <1>1, <1>2 DEF k, IsOf

-----------------------------------------------------------------------------
(* Every step keeps what is alone alone.                                    *)

\* While somebody works nobody else is alone.
LEMMA NobodyElse ==
  ASSUME SharedInv, NEW y \in AtWork
  PROVE  /\ \A x \in Saver \ {y} : Working(x) => ~saver[x].alone
         /\ \A m \in Matcher \ {y} : matcher[m].pc = "run" => ~matcher[m].alone
<1>1. ASSUME NEW x \in Saver \ {y}, Working(x), saver[x].alone PROVE FALSE
  BY <1>1 DEF SharedInv, AloneInv
<1>2. ASSUME NEW m \in Matcher \ {y}, matcher[m].pc = "run", matcher[m].alone PROVE FALSE
  BY <1>2 DEF SharedInv, RunInv
<1>. QED BY <1>1, <1>2

LEMMA WorkerAtWork ==
  /\ \A p \in Saver : p \in AtWork <=> Working(p)
  /\ \A m \in Matcher : m \in AtWork <=> matcher[m].pc = "run"
  /\ AtWork \subseteq Saver \cup Matcher
BY ProcessAssumption DEF AtWork, Working

LEMMA SaverStays ==
  ASSUME NEW x, SaverInv(x), session'[x] = session[x],
         saver'[x].pc = saver[x].pc, saver'[x].u = saver[x].u, saver'[x].report = saver[x].report,
         saver'[x].left = saver[x].left
  PROVE  SaverInv(x)'
<1>1. Working(x)' = Working(x)
  BY DEF Working
<1>2. CASE Working(x)
  <2>. PICK u : \E r : WorkInv(x, u, r)
    BY <1>2 DEF SaverInv
  <2>1. PICK r : WorkInv(x, u, r)
    OBVIOUS
  <2>2. WorkInv(x, u, r)'
    BY <2>1 DEF WorkInv, Unrepeated
  <2>. QED BY <1>1, <1>2, <2>2 DEF SaverInv
<1>. QED BY <1>1, <1>2 DEF SaverInv

\* A process at work that keeps its own part right disturbs nobody's.
LEMMA SaverShares ==
  ASSUME SharedInv, RowsInv, NEW p \in Saver, Working(p), matcher' = matcher,
         DOMAIN saver' = Saver,
         \A x \in Saver \ {p} : saver'[x] = saver[x] /\ session'[x] = session[x],
         reports \subseteq reports', \A k \in DOMAIN rows' : k[2] \in reports',
         SaverInv(p)', AloneInv(p)', RefusedOnlyIfShared'
  PROVE  SharedInv'
<1>1. p \in AtWork
  BY WorkerAtWork
<1>2. ASSUME NEW x \in Saver PROVE SaverInv(x)' /\ AloneInv(x)'
  <2>1. CASE x = p
    BY <2>1
  <2>2. CASE x # p
    <3>1. saver'[x] = saver[x] /\ session'[x] = session[x] /\ SaverInv(x)
      BY <2>2 DEF SharedInv
    <3>2. Working(x) => ~saver[x].alone
      BY <1>1, <2>2, NobodyElse
    <3>3. SaverInv(x)'
      BY <3>1, SaverStays
    <3>4. AloneInv(x)'
      BY <3>1, <3>2 DEF AloneInv, Working
    <3>. QED BY <3>3, <3>4
  <2>. QED BY <2>1, <2>2
<1>3. ASSUME NEW m \in Matcher PROVE RunInv(m)'
  BY ProcessAssumption, <1>1, NobodyElse DEF SharedInv, RunInv
<1>. QED BY <1>2, <1>3 DEF SharedInv

\* Who is alone and goes on working stays alone.
LEMMA AloneStays ==
  ASSUME RowsInv, NEW p \in Saver, matcher' = matcher, DOMAIN saver' = Saver,
         \A x \in Saver \ {p} : saver'[x] = saver[x], AtWork = {p}, Working(p)'
  PROVE  AtWork' = {p}
<1>1. \A x \in Saver \ {p} : x \notin AtWork'
  <2>. SUFFICES ASSUME NEW x \in Saver \ {p} PROVE x \notin AtWork'
    OBVIOUS
  <2>1. x \notin AtWork /\ saver'[x] = saver[x]
    OBVIOUS
  <2>. QED BY <2>1, ProcessAssumption DEF AtWork
<1>2. \A m \in Matcher : m \notin AtWork'
  <2>. SUFFICES ASSUME NEW m \in Matcher PROVE m \notin AtWork'
    OBVIOUS
  <2>1. m \notin AtWork
    BY ProcessAssumption
  <2>. QED BY <2>1, ProcessAssumption DEF AtWork
<1>3. p \in AtWork' /\ AtWork' \subseteq Saver \cup Matcher
  BY DEF AtWork, Working
<1>. QED BY <1>1, <1>2, <1>3

LEMMA SharedKept ==
  ASSUME SharedInv, UNCHANGED <<reports, rows, saver, session, matcher, refused, symbols, sources>>
  PROVE  SharedInv'
<1>1. AtWork' = AtWork
  BY DEF AtWork
<1>2. ASSUME NEW p \in Saver PROVE SaverInv(p)' /\ AloneInv(p)'
  <2>1. SaverInv(p) /\ AloneInv(p)
    BY DEF SharedInv
  <2>2. SaverInv(p)'
    BY <2>1, SaverStays
  <2>3. AloneInv(p)'
    BY <1>1, <2>1 DEF AloneInv, Working, Stored
  <2>. QED BY <2>2, <2>3
<1>3. \A m \in Matcher : RunInv(m)'
  BY <1>1 DEF SharedInv, RunInv
<1>4. RefusedOnlyIfShared'
  BY DEF SharedInv, RefusedOnlyIfShared
<1>. QED BY <1>2, <1>3, <1>4 DEF SharedInv

\* A process that has ended holds nothing.
LEMMA EndShared ==
  ASSUME SharedInv, RowsInv, NEW p \in Saver, Working(p), matcher' = matcher,
         saver'[p].pc \in {"idle", "dead"}, session'[p] = Clean, DOMAIN saver' = Saver,
         \A x \in Saver \ {p} : saver'[x] = saver[x] /\ session'[x] = session[x],
         reports \subseteq reports', \A k \in DOMAIN rows' : k[2] \in reports', RefusedOnlyIfShared'
  PROVE  SharedInv'
<1>1. ~Working(p)'
  BY DEF Working
<1>2. SaverInv(p)' /\ AloneInv(p)'
  BY <1>1 DEF SaverInv, AloneInv
<1>. QED BY <1>2, SaverShares

LEMMA BeginShared ==
  ASSUME SharedInv, RowsInv, NEW p \in Saver, NEW u \in UReport, Begin(p, u), UNCHANGED frameVars
  PROVE  SharedInv'
<1>. DEFINE full == Completed(u)
<1>2. UNCHANGED <<reports, rows, session, refused, symbols, sources>> /\ saver[p].pc = "idle"
  BY DEF Begin, frameVars
<1>3. CASE ~(Valid(full) /\ PackagesValid(full))
  BY <1>3, <1>2, SharedKept DEF Begin
<1>4. CASE Valid(full) /\ PackagesValid(full) /\ HashFails(full)
  <2>1. saver' = [saver EXCEPT ![p].pc = "dead"] /\ matcher' = matcher
    BY <1>4 DEF Begin
  <2>2. DOMAIN saver = Saver /\ DOMAIN saver[p] = SaverFields
    BY DEF RowsInv, SaverRows
  <2>3. saver'[p].pc = "dead" /\ \A x \in Saver \ {p} : saver'[x] = saver[x]
    BY <2>1, <2>2 DEF SaverFields
  <2>4. AtWork' = AtWork
    BY <1>2, <2>3, <2>1 DEF AtWork
  <2>5. ASSUME NEW x \in Saver PROVE SaverInv(x)' /\ AloneInv(x)'
    <3>0. SaverInv(x) /\ AloneInv(x)
      BY DEF SharedInv
    <3>1. CASE x = p
      BY <1>2, <2>3, <3>1, <3>0 DEF Working, SaverInv, AloneInv
    <3>2. CASE x # p
      <4>1. saver'[x] = saver[x]
        BY <2>3, <3>2
      <4>2. SaverInv(x)'
        BY <1>2, <3>0, <4>1, SaverStays
      <4>3. AloneInv(x)'
        BY <1>2, <2>4, <3>0, <4>1 DEF AloneInv, Working, Stored
      <4>. QED BY <4>2, <4>3
    <3>. QED BY <3>1, <3>2
  <2>6. \A m \in Matcher : RunInv(m)'
    BY <1>2, <2>1, <2>4 DEF SharedInv, RunInv
  <2>. QED BY <1>2, <2>5, <2>6 DEF SharedInv, RefusedOnlyIfShared
<1>5. CASE Valid(full) /\ PackagesValid(full) /\ ~HashFails(full)
  <2>1. /\ saver' = [NotAlone(p) EXCEPT ![p] =
                         [pc |-> "rows", u |-> {full}, report |-> {Hash(full)}, isNew |-> Hash(full) \notin reports,
                          left |-> Items(full), alone |-> AtWork \ {p} = {}]]
        /\ matcher' = [m \in Matcher |-> [matcher[m] EXCEPT !.alone = FALSE]]
    BY <1>5 DEF Begin
  <2>2. ASSUME NEW x \in Saver \ {p}
        PROVE  /\ saver'[x].pc = saver[x].pc /\ saver'[x].u = saver[x].u /\ saver'[x].report = saver[x].report
               /\ saver'[x].left = saver[x].left
               /\ Working(x) => ~saver'[x].alone
    <3>1. saver'[x] = [saver[x] EXCEPT !.alone = @ /\ (x = p \/ saver[x].pc \in {"idle", "dead"})]
      BY <2>1 DEF NotAlone
    <3>2. DOMAIN saver[x] = SaverFields
      BY DEF RowsInv, SaverRows
    <3>3. saver'[x].alone = (saver[x].alone /\ (x = p \/ saver[x].pc \in {"idle", "dead"}))
      BY <3>1, <3>2 DEF SaverFields
    <3>. QED BY <3>1, <3>2, <3>3 DEF SaverFields, Working
  <2>3. ASSUME NEW m \in Matcher
        PROVE  /\ matcher'[m].pc = matcher[m].pc /\ matcher'[m].pairs = matcher[m].pairs
               /\ matcher'[m].at = matcher[m].at /\ ~matcher'[m].alone
    BY <2>1 DEF RowsInv, MatcherRows, MatcherFields
  <2>4. /\ saver'[p].pc = "rows" /\ saver'[p].u = {full} /\ saver'[p].report = {Hash(full)}
        /\ (saver'[p].isNew <=> Hash(full) \notin reports) /\ saver'[p].left = Items(full)
        /\ (saver'[p].alone <=> AtWork \ {p} = {})
    BY <2>1 DEF NotAlone
  <2>5. session'[p] = Clean
    BY <1>2 DEF SharedInv, SaverInv, Working
  <2>. HIDE DEF full
  <2>6. ASSUME NEW x \in Saver PROVE SaverInv(x)' /\ AloneInv(x)'
    <3>1. CASE x = p
      <4>1. session'[x] = Clean /\ Working(x)'
        BY <2>4, <2>5, <3>1 DEF Working
      <4>2. /\ session'[x].added = <<>> /\ session'[x].held = <<>> /\ session'[x].symbols = <<>> /\ session'[x].sources = <<>>
        BY <4>1 DEF Clean
      <4>3. IsSeq(full.packages)
        BY UReportAssumption, SeqOver DEF Completed, full
      <4>4. Repeats(full) \/ Unrepeated(x)'
        <5>1. ASSUME ~Repeats(full) PROVE NoTwice(Items(full)) /\ \A e \in Range(Items(full)) : Triple(e)
          BY <5>1, ItemsDiffer DEF full
        <5>2. DOMAIN session'[x].added = {} /\ Range(session'[x].added) = {}
          BY <4>2, Nothing
        <5>. QED BY <2>4, <3>1, <5>1, <5>2 DEF Unrepeated
      <4>5. WorkInv(x, full, Hash(full))'
        BY <4>2, Nothing, <2>4, <3>1, <4>3, <4>4 DEF WorkInv
      <4>6. SaverInv(x)'
        BY <4>5, <4>1 DEF SaverInv
      <4>7. AloneInv(x)'
        <5>. SUFFICES ASSUME saver'[x].alone PROVE AloneInv(x)'
          BY DEF AloneInv
        <5>1. AtWork' = {x}
          <6>1. \A y \in Saver \ {p} : ~Working(y)'
            <7>. SUFFICES ASSUME NEW y \in Saver \ {p} PROVE ~Working(y)'
              OBVIOUS
            <7>1. y \notin AtWork
              BY <2>4, <3>1
            <7>2. ~Working(y)
              BY <7>1, WorkerAtWork
            <7>. QED BY <2>2, <7>2 DEF Working
          <6>2. \A m \in Matcher : matcher'[m].pc # "run"
            <7>. SUFFICES ASSUME NEW m \in Matcher PROVE matcher'[m].pc # "run"
              OBVIOUS
            <7>1. m \notin AtWork
              BY <2>4, <3>1, ProcessAssumption
            <7>. QED BY <2>3, <7>1, WorkerAtWork
          <6>. QED BY <3>1, <4>1, <6>1, <6>2 DEF AtWork, Working
        <5>2. /\ DOMAIN session'[x].held = {} /\ Range(session'[x].added) = {}
              /\ Range(session'[x].symbols) = {} /\ Range(session'[x].sources) = {}
          BY <4>2, Nothing
        <5>3. saver'[x].isNew => saver'[x].report \cap reports' = {}
          BY <1>2, <2>4, <3>1
        <5>. QED BY <5>1, <5>2, <5>3 DEF AloneInv
      <4>. QED BY <4>6, <4>7
    <3>2. CASE x # p
      <4>0. SaverInv(x)
        BY DEF SharedInv
      <4>1. /\ saver'[x].pc = saver[x].pc /\ saver'[x].u = saver[x].u /\ saver'[x].report = saver[x].report
            /\ saver'[x].left = saver[x].left
            /\ Working(x) => ~saver'[x].alone
        BY <2>2, <3>2
      <4>2. SaverInv(x)'
        BY <1>2, <4>0, <4>1, SaverStays
      <4>3. AloneInv(x)'
        BY <4>1 DEF AloneInv, Working
      <4>. QED BY <4>2, <4>3
    <3>. QED BY <3>1, <3>2
  <2>7. ASSUME NEW m \in Matcher PROVE RunInv(m)'
    BY <1>2, <2>3 DEF SharedInv, RunInv
  <2>. QED BY <1>2, <2>6, <2>7 DEF SharedInv, RefusedOnlyIfShared
<1>. QED BY <1>3, <1>4, <1>5

LEMMA AppendParts ==
  ASSUME NEW s, NEW e, IsSeq(s)
  PROVE  /\ DOMAIN s = 1 .. Len(s) /\ Len(s) \in Nat /\ DOMAIN Append(s, e) = 1 .. Len(s) + 1
         /\ \A i \in 1 .. Len(s) : Append(s, e)[i] = s[i]
         /\ Append(s, e)[Len(s) + 1] = e
<1>. DEFINE A == Range(s)
            B == A \cup {e}
<1>1. s \in Seq(A)
  BY DEF IsSeq
<1>. HIDE DEF A
<1>2. s \in Seq(B) /\ e \in B
  BY <1>1
<1>. HIDE DEF B
<1>. QED BY <1>2

\* What is new may be appended.
LEMMA AppendOnce ==
  ASSUME NEW s, NEW e, IsSeq(s), NoTwice(s), e \notin Range(s)
  PROVE  NoTwice(Append(s, e))
<1>1. /\ DOMAIN s = 1 .. Len(s) /\ Len(s) \in Nat /\ DOMAIN Append(s, e) = 1 .. Len(s) + 1
      /\ \A i \in 1 .. Len(s) : Append(s, e)[i] = s[i]
      /\ Append(s, e)[Len(s) + 1] = e
  BY AppendParts
<1>2. \A i \in 1 .. Len(s) : s[i] # e
  BY <1>1, RangeOf
<1>3. \A i, j \in 1 .. Len(s) : i # j => s[i] # s[j]
  BY <1>1 DEF NoTwice
<1>4. \A i \in 1 .. Len(s) + 1 : i \in 1 .. Len(s) \/ i = Len(s) + 1
  BY <1>1
<1>. QED BY <1>1, <1>2, <1>3, <1>4 DEF NoTwice

LEMMA TailParts ==
  ASSUME NEW s, IsSeq(s), s # <<>>, NoTwice(s)
  PROVE  NoTwice(Tail(s)) /\ Head(s) \notin Range(Tail(s))
<1>. DEFINE A == Range(s)
<1>1. s \in Seq(A)
  BY DEF IsSeq
<1>. HIDE DEF A
<1>2. /\ DOMAIN s = 1 .. Len(s) /\ Len(s) \in Nat /\ Len(s) >= 1 /\ Head(s) = s[1]
      /\ DOMAIN Tail(s) = 1 .. Len(s) - 1
      /\ \A i \in 1 .. Len(s) - 1 : Tail(s)[i] = s[i + 1]
  BY <1>1
<1>3. \A i \in 1 .. Len(s) - 1 : i + 1 \in 1 .. Len(s) /\ i + 1 # 1
  BY <1>2
<1>4. ASSUME NEW i \in 1 .. Len(s) - 1, NEW j \in 1 .. Len(s) - 1, i # j PROVE Tail(s)[i] # Tail(s)[j]
  BY <1>4, <1>2, <1>3 DEF NoTwice
<1>5. 1 \in DOMAIN s
  BY <1>2
<1>6. ASSUME NEW i \in 1 .. Len(s) - 1 PROVE Tail(s)[i] # Head(s)
  BY <1>2, <1>3, <1>5 DEF NoTwice
<1>. QED BY <1>2, <1>4, <1>6 DEF NoTwice, Range

LEMMA CountShared ==
  ASSUME SharedInv, RowsInv, NEW p \in Saver, CountItem(p), UNCHANGED frameVars
  PROVE  SharedInv'
<1>. DEFINE item == Head(saver[p].left)
            table == Table(item)
<1>1. /\ saver[p].pc = "rows" /\ saver[p].left # <<>>
      /\ saver' = [saver EXCEPT ![p].left = Tail(@)]
      /\ UNCHANGED <<reports, rows, matcher, refused, symbols, sources>>
  BY DEF CountItem, frameVars
<1>2. SaverRows(p) /\ DOMAIN saver = Saver /\ DOMAIN session = Saver
  BY DEF RowsInv
<1>3. Working(p) /\ SaverInv(p) /\ AloneInv(p)
  BY <1>1 DEF Working, SharedInv
<1>. PICK u : \E a : WorkInv(p, u, a)
  BY <1>3 DEF SaverInv
<1>4. PICK r : WorkInv(p, u, r)
  OBVIOUS
<1>5. Only(saver[p].report) = r
  BY <1>4, OnlyOne DEF WorkInv
<1>. DEFINE found == IF saver[p].isNew THEN {} ELSE Rows(r, item, table)
            held == session[p].held
            key == <<table, r, item[2], item[3]>>
<1>6. \/ UNCHANGED session
      \/ found = {} /\ session' = [session EXCEPT ![p].added = Append(@, <<key, 1>>)]
      \/ \E k \in found :
           session' = [session EXCEPT ![p].held = Put(@, k, (IF k \in DOMAIN held THEN held[k] ELSE rows[k]) + 1)]
  BY <1>5 DEF CountItem
<1>7. /\ saver'[p].pc = saver[p].pc /\ saver'[p].u = saver[p].u /\ saver'[p].report = saver[p].report
      /\ saver'[p].isNew = saver[p].isNew /\ saver'[p].alone = saver[p].alone
      /\ saver'[p].left = Tail(saver[p].left) /\ DOMAIN saver' = Saver
      /\ \A x \in Saver \ {p} : saver'[x] = saver[x]
  BY <1>1, <1>2 DEF SaverRows, SaverFields
<1>8. /\ IsSeq(saver[p].left) /\ \A e \in Range(saver[p].left) : Proper(e)
      /\ IsSeq(session[p].added)
  BY <1>1, <1>2 DEF SaverRows
<1>9. Range(Tail(saver[p].left)) \subseteq Range(saver[p].left) /\ item \in Range(saver[p].left)
  BY <1>1, <1>8, SeqTail
<1>10. IsOf(key, item) /\ key[2] = r
  BY KeyIsOf
<1>11. found = {} => saver[p].isNew \/ key \notin DOMAIN rows
  BY DEF Rows
<1>12. found \subseteq DOMAIN rows
  BY DEF Rows
<1>. HIDE DEF item, key, found
\* What the step leaves in the session.
<1>13. /\ \A x \in Saver \ {p} : session'[x] = session[x]
       /\ session'[p].symbols = session[p].symbols /\ session'[p].sources = session[p].sources
       /\ \/ session'[p].added = session[p].added
          \/ found = {} /\ session'[p].added = Append(session[p].added, <<key, 1>>)
       /\ DOMAIN session'[p].held \subseteq DOMAIN session[p].held \cup found
  <2>1. CASE UNCHANGED session
    BY <2>1
  <2>2. CASE found = {} /\ session' = [session EXCEPT ![p].added = Append(@, <<key, 1>>)]
    BY <1>2, <2>2 DEF SaverRows, SessionFields
  <2>3. CASE \E k \in found :
           session' = [session EXCEPT ![p].held = Put(@, k, (IF k \in DOMAIN held THEN held[k] ELSE rows[k]) + 1)]
    <3>1. PICK k \in found :
            session' = [session EXCEPT ![p].held = Put(@, k, (IF k \in DOMAIN held THEN held[k] ELSE rows[k]) + 1)]
      BY <2>3
    <3>2. /\ session'[p].added = session[p].added
          /\ session'[p].held = Put(session[p].held, k, (IF k \in DOMAIN held THEN held[k] ELSE rows[k]) + 1)
          /\ session'[p].symbols = session[p].symbols /\ session'[p].sources = session[p].sources
      BY <1>2, <3>1 DEF SaverRows, SessionFields
    <3>3. DOMAIN session'[p].held = DOMAIN session[p].held \cup {k}
      BY <3>2 DEF Put
    <3>. QED BY <3>1, <3>2, <3>3
  <2>. QED BY <1>6, <2>1, <2>2, <2>3
<1>14. Range(session'[p].added) \subseteq Range(session[p].added) \cup {<<key, 1>>} /\ <<key, 1>>[1] = key
  BY <1>8, SeqAppend, <1>13
<1>15. ASSUME Unrepeated(p) PROVE Unrepeated(p)'
  <2>1. /\ NoTwice(saver[p].left) /\ \A e \in Range(saver[p].left) : Triple(e)
        /\ \A x \in Range(session[p].added), e \in Range(saver[p].left) : ~IsOf(x[1], e)
    BY <1>1, <1>15 DEF Unrepeated
  <2>2. NoTwice(Tail(saver[p].left)) /\ item \notin Range(Tail(saver[p].left))
    BY <1>1, <1>8, <2>1, TailParts DEF item
  <2>3. ASSUME NEW x \in Range(session'[p].added), NEW e \in Range(Tail(saver[p].left)) PROVE ~IsOf(x[1], e)
    <3>1. e \in Range(saver[p].left) /\ e # item
      BY <1>9, <2>2
    <3>2. CASE x \in Range(session[p].added)
      BY <2>1, <3>1, <3>2
    <3>3. CASE x[1] = key
      BY <1>8, <1>9, <1>10, <2>1, <3>1, <3>3, KeyOfOne
    <3>. QED BY <1>14, <3>2, <3>3
  <2>4. \A i, j \in DOMAIN session'[p].added : i # j => session'[p].added[i][1] # session'[p].added[j][1]
    <3>1. CASE session'[p].added = session[p].added
      BY <1>15, <3>1 DEF Unrepeated
    <3>2. CASE session'[p].added = Append(session[p].added, <<key, 1>>)
      <4>. DEFINE s == session[p].added
      <4>1. /\ DOMAIN s = 1 .. Len(s) /\ Len(s) \in Nat /\ DOMAIN Append(s, <<key, 1>>) = 1 .. Len(s) + 1
            /\ \A i \in 1 .. Len(s) : Append(s, <<key, 1>>)[i] = s[i]
            /\ Append(s, <<key, 1>>)[Len(s) + 1] = <<key, 1>>
        BY <1>8, AppendParts
      <4>2. \A i \in 1 .. Len(s) : s[i][1] # key
        <5>. SUFFICES ASSUME NEW i \in 1 .. Len(s) PROVE s[i][1] # key
          OBVIOUS
        <5>1. s[i] \in Range(s)
          BY <4>1, RangeOf
        <5>2. ~IsOf(s[i][1], item)
          BY <1>9, <2>1, <5>1
        <5>. QED BY <1>10, <5>2
      <4>3. \A i \in 1 .. Len(s) + 1 : i \in 1 .. Len(s) \/ i = Len(s) + 1
        BY <4>1
      <4>4. \A i, j \in 1 .. Len(s) : i # j => s[i][1] # s[j][1]
        BY <1>15, <4>1 DEF Unrepeated
      <4>. QED BY <1>14, <3>2, <4>1, <4>2, <4>3, <4>4
    <3>. QED BY <1>13, <3>1, <3>2
  <2>5. \A e \in Range(Tail(saver[p].left)) : Triple(e)
    BY <1>9, <2>1
  <2>. QED BY <1>7, <2>2, <2>3, <2>4, <2>5 DEF Unrepeated
<1>16. WorkInv(p, u, r)'
  BY <1>4, <1>10, <1>14, <1>7, <1>13, <1>15 DEF WorkInv
<1>17. SaverInv(p)'
  BY <1>3, <1>7, <1>16 DEF Working, SaverInv
<1>18. AloneInv(p)'
  <2>. SUFFICES ASSUME Working(p)', saver'[p].alone PROVE AloneInv(p)'
    BY DEF AloneInv
  <2>1. /\ AtWork = {p}
        /\ \A x \in Range(session[p].added) : x[1] \notin DOMAIN rows
        /\ DOMAIN session[p].held \subseteq DOMAIN rows
        /\ saver[p].isNew => saver[p].report \cap reports = {}
        /\ Range(session[p].symbols) \cap symbols = {}
        /\ \A x \in Range(session[p].sources) : x.build # {} => Stored(SamePlace, x) = {}
    BY <1>3, <1>7 DEF AloneInv
  <2>2. AtWork' = {p}
    BY <1>1, <1>7, <2>1, AloneStays
  <2>3. \A x \in Range(session'[p].added) : x[1] \notin DOMAIN rows
    <3>1. CASE session'[p].added = session[p].added
      BY <2>1, <3>1
    <3>2. CASE found = {}
      <4>1. saver[p].isNew => key \notin DOMAIN rows
        BY <1>4, <2>1, <1>10 DEF WorkInv, SharedInv
      <4>2. key \notin DOMAIN rows
        BY <1>11, <3>2, <4>1
      <4>. QED BY <1>14, <2>1, <4>2
    <3>. QED BY <1>13, <3>1, <3>2
  <2>4. DOMAIN session'[p].held \subseteq DOMAIN rows
    BY <1>12, <1>13, <2>1
  <2>5. \A x \in Range(session'[p].sources) : x.build # {} => Stored(SamePlace, x)' = {}
    BY <1>1, <1>13, <2>1 DEF Stored
  <2>. QED BY <1>1, <1>7, <1>13, <2>1, <2>2, <2>3, <2>4, <2>5 DEF AloneInv
<1>19. RefusedOnlyIfShared' /\ (\A k \in DOMAIN rows' : k[2] \in reports') /\ reports \subseteq reports'
  BY <1>1 DEF SharedInv, RefusedOnlyIfShared
<1>. QED BY <1>1, <1>3, <1>7, <1>13, <1>17, <1>18, <1>19, SaverShares

LEMMA StartFramesShared ==
  ASSUME SharedInv, RowsInv, NEW p \in Saver, StartFrames(p)
  PROVE  SharedInv'
<1>1. SaverRows(p) /\ DOMAIN saver = Saver /\ DOMAIN session = Saver
  BY DEF RowsInv
<1>2. UNCHANGED <<reports, rows, matcher, refused, symbols, sources>> /\ saver[p].pc = "rows"
  BY DEF StartFrames, frameVars
<1>3. Working(p) /\ SaverInv(p) /\ AloneInv(p)
  BY <1>2 DEF Working, SharedInv
<1>4. RefusedOnlyIfShared' /\ (\A k \in DOMAIN rows' : k[2] \in reports') /\ reports \subseteq reports'
  BY <1>2 DEF SharedInv, RefusedOnlyIfShared
<1>5. \/ saver' = [saver EXCEPT ![p] = [NoWork EXCEPT !.pc = "dead"]] /\ session' = [session EXCEPT ![p] = Clean]
      \/ \E pc \in {"flush", "frames"} : \E left : saver' = [saver EXCEPT ![p].pc = pc, ![p].left = left] /\ session' = session
  BY DEF StartFrames
<1>6. CASE saver' = [saver EXCEPT ![p] = [NoWork EXCEPT !.pc = "dead"]] /\ session' = [session EXCEPT ![p] = Clean]
  BY <1>1, <1>6, <1>2, <1>3, <1>4, EndShared DEF NoWork
<1>7. CASE \E pc \in {"flush", "frames"} : \E left : saver' = [saver EXCEPT ![p].pc = pc, ![p].left = left] /\ session' = session
  <2>. PICK pc \in {"flush", "frames"} : \E left : saver' = [saver EXCEPT ![p].pc = pc, ![p].left = left] /\ session' = session
    BY <1>7
  <2>1. PICK left : saver' = [saver EXCEPT ![p].pc = pc, ![p].left = left] /\ session' = session
    OBVIOUS
  <2>2. /\ saver'[p].pc = pc /\ saver'[p].u = saver[p].u /\ saver'[p].report = saver[p].report
        /\ saver'[p].isNew = saver[p].isNew /\ saver'[p].alone = saver[p].alone /\ DOMAIN saver' = Saver
        /\ \A x \in Saver \ {p} : saver'[x] = saver[x]
    BY <1>1, <2>1 DEF SaverRows, SaverFields
  <2>3. Working(p)'
    BY <2>2 DEF Working
  <2>4. SaverInv(p)'
    <3>. PICK u : \E a : WorkInv(p, u, a)
      BY <1>3 DEF SaverInv
    <3>1. PICK r : WorkInv(p, u, r)
      OBVIOUS
    <3>2. Unrepeated(p) => Unrepeated(p)'
      BY <2>1, <2>2 DEF Unrepeated
    <3>3. WorkInv(p, u, r)'
      BY <2>1, <2>2, <3>1, <3>2 DEF WorkInv
    <3>4. \E a, b : WorkInv(p, a, b)'
      BY <3>3
    <3>. QED BY <2>3, <3>4 DEF SaverInv
  <2>5. AloneInv(p)'
    <3>. SUFFICES ASSUME saver'[p].alone PROVE AloneInv(p)'
      BY DEF AloneInv
    <3>1. AtWork = {p}
      BY <1>3, <2>2 DEF AloneInv
    <3>2. AtWork' = {p}
      BY <1>2, <2>2, <2>3, <3>1, AloneStays
    <3>. QED BY <1>2, <1>3, <2>1, <2>2, <3>2 DEF AloneInv, Stored
  <2>. QED BY <1>2, <1>3, <1>4, <2>1, <2>2, <2>4, <2>5, SaverShares
<1>. QED BY <1>5, <1>6, <1>7

\* A source is added only if it is not there, and where its place identifies it,
\* only if no other is at its place.
Fits(p, row) ==
  \/ row.build = {} /\ \E u \in saver[p].u : u.type \in Scripted
  \/ /\ Stored(SamePlace, row) = {} /\ AddedBefore(p, SamePlace, row) = {}
     /\ \E u \in saver[p].u : u.type \notin Scripted
Adds(p) ==
  \/ session' = session
  \/ \E row, order, x, isNew : Puts(p, row, order, x, isNew) /\ (isNew => x = row /\ Fits(p, row))
LEMMA ScriptAdds ==
  ASSUME NEW p \in Saver, NEW row, NEW order, SaveFrame(p, row, SameScript, SameScript, order),
         row.build = {}, \E u \in saver[p].u : u.type \in Scripted
  PROVE  Adds(p)
<1>1. \E x, isNew : Puts(p, row, order, x, isNew) /\ (isNew => x = row)
  BY Zenon DEF SaveFrame, Puts
<1>. QED BY <1>1 DEF Adds, Fits

LEMMA PlaceAdds ==
  ASSUME NEW p \in Saver, NEW row, NEW order, SaveFrame(p, row, SamePlace, SamePlace, order),
         \E u \in saver[p].u : u.type \notin Scripted
  PROVE  Adds(p)
<1>1. \E x, isNew : Puts(p, row, order, x, isNew) /\
        (isNew => x = row /\ Stored(SamePlace, row) = {} /\ AddedBefore(p, SamePlace, row) = {})
  BY Zenon DEF SaveFrame, Puts
<1>. QED BY <1>1 DEF Adds, Fits

LEMMA FrameAdds ==
  ASSUME NEW p \in Saver, SaveOne(p)
  PROVE  Adds(p)
<1>1. CASE JavaSave(p)
  <2>. DEFINE row == JavaRow(Frame(p))
              order == Position(p)
  <2>1. SaveFrame(p, row, SameScript, SameScript, order) /\ (\E u \in saver[p].u : u.type \in Scripted)
    BY <1>1 DEF JavaSave, AtFrame, Scripted
  <2>2. row.build = {}
    BY DEF JavaRow
  <2>. HIDE DEF row, order
  <2>. QED BY <2>1, <2>2, ScriptAdds
<1>2. CASE PythonSave(p)
  <2>. DEFINE row == PythonRow(Frame(p))
              order == Position(p)
  <2>1. SaveFrame(p, row, SameScript, SameScript, order) /\ (\E u \in saver[p].u : u.type \in Scripted)
    BY <1>2 DEF PythonSave, AtFrame, Scripted
  <2>2. row.build = {}
    BY DEF PythonRow
  <2>. HIDE DEF row, order
  <2>. QED BY <2>1, <2>2, ScriptAdds
<1>3. CASE RubySave(p)
  <2>. DEFINE row == RubyRow(Frame(p))
              order == Position(p)
  <2>1. SaveFrame(p, row, SameScript, SameScript, order) /\ (\E u \in saver[p].u : u.type \in Scripted)
    BY <1>3 DEF RubySave, AtFrame, Scripted
  <2>2. row.build = {}
    BY DEF RubyRow
  <2>. HIDE DEF row, order
  <2>. QED BY <2>1, <2>2, ScriptAdds
<1>4. CASE CoreSave(p)
  <2>. DEFINE row == CoreRow(Frame(p))
              order == 10 * Position(p)
  <2>1. SaveFrame(p, row, SamePlace, SamePlace, order) /\ (\E u \in saver[p].u : u.type \notin Scripted)
    BY <1>4 DEF CoreSave, AtFrame, Scripted
  <2>. HIDE DEF row, order
  <2>. QED BY <2>1, PlaceAdds
<1>5. CASE OopsSave(p)
  <2>. DEFINE row == OopsRow(Only(saver[p].u), Frame(p))
              order == 10 * Position(p)
  <2>1. \E u \in saver[p].u : u.type \notin Scripted
    BY <1>5 DEF OopsSave, AtFrame, Scripted
  <2>2. SaveFrame(p, row, SamePlace, SamePlace, order) \/ session' = session
    BY <1>5 DEF OopsSave
  <2>. HIDE DEF row, order
  <2>. QED BY <2>1, <2>2, PlaceAdds DEF Adds
<1>. QED BY <1>1, <1>2, <1>3, <1>4, <1>5 DEF SaveOne

LEMMA SaveOneShared ==
  ASSUME SharedInv, RowsInv, NEW p \in Saver, SaveOne(p)
  PROVE  SharedInv'
<1>1. SaverRows(p) /\ DOMAIN saver = Saver /\ DOMAIN session = Saver
  BY DEF RowsInv
<1>2. /\ saver[p].pc = "frames" /\ saver' = [saver EXCEPT ![p].left = Tail(@)]
      /\ UNCHANGED <<reports, rows, matcher, refused, symbols, sources>>
  BY FrameGathers DEF Gathers, frameVars
<1>3. Working(p) /\ SaverInv(p) /\ AloneInv(p)
  BY <1>2 DEF Working, SharedInv
<1>4. RefusedOnlyIfShared' /\ (\A k \in DOMAIN rows' : k[2] \in reports') /\ reports \subseteq reports'
  BY <1>2 DEF SharedInv, RefusedOnlyIfShared
<1>. PICK u : \E a : WorkInv(p, u, a)
  BY <1>3 DEF SaverInv
<1>5. PICK r : WorkInv(p, u, r)
  OBVIOUS
<1>6. /\ saver'[p].pc = saver[p].pc /\ saver'[p].u = saver[p].u /\ saver'[p].report = saver[p].report
      /\ saver'[p].isNew = saver[p].isNew /\ saver'[p].alone = saver[p].alone /\ DOMAIN saver' = Saver
      /\ \A x \in Saver \ {p} : saver'[x] = saver[x]
  BY <1>1, <1>2 DEF SaverRows, SaverFields
<1>. DEFINE old == session[p].symbols
            src == session[p].sources
\* What the step leaves in the session.
<1>7. /\ \A x \in Saver \ {p} : session'[x] = session[x]
      /\ session'[p].added = session[p].added /\ session'[p].held = session[p].held
      /\ \/ session'[p].symbols = old
         \/ \E s : s \notin symbols /\ s \notin Range(old) /\ session'[p].symbols = Append(old, s)
      /\ \/ session'[p].sources = src
         \/ \E row : Fits(p, row) /\ session'[p].sources = Append(src, row)
  <2>1. CASE session' = session
    BY <2>1
  <2>2. CASE session' # session
    <3>. PICK row : \E order, x, isNew : Puts(p, row, order, x, isNew) /\ (isNew => x = row /\ Fits(p, row))
      BY <2>2, FrameAdds DEF Adds
    <3>. PICK order : \E x, isNew : Puts(p, row, order, x, isNew) /\ (isNew => x = row /\ Fits(p, row))
      OBVIOUS
    <3>. PICK x : \E isNew : Puts(p, row, order, x, isNew) /\ (isNew => x = row /\ Fits(p, row))
      OBVIOUS
    <3>1. PICK isNew : Puts(p, row, order, x, isNew) /\ (isNew => x = row /\ Fits(p, row))
      OBVIOUS
    <3>. DEFINE new == NewSymbols(p, row)
    <3>2. /\ \A y \in Saver \ {p} : session'[y] = session[y]
          /\ session'[p].added = session[p].added /\ session'[p].held = session[p].held
          /\ session'[p].symbols = IF new = {} THEN old ELSE Append(old, Only(new))
          /\ session'[p].sources = IF isNew THEN Append(src, x) ELSE src
      <4>1. DOMAIN session[p] = SessionFields
        BY <1>1 DEF SaverRows
      <4>2. Puts(p, row, order, x, isNew)
        BY <3>1
      <4>. HIDE DEF new
      <4>. QED BY <1>1, <4>1, <4>2, Zenon DEF Puts, SessionFields, new
    <3>3. new # {} => Only(new) \notin symbols /\ Only(new) \notin Range(old)
      BY DEF Only, NewSymbols
    <3>. HIDE DEF new, old, src
    <3>4. session'[p].symbols = old
          \/ \E s : s \notin symbols /\ s \notin Range(old) /\ session'[p].symbols = Append(old, s)
      BY <3>2, <3>3
    <3>5. session'[p].sources = src \/ \E y : Fits(p, y) /\ session'[p].sources = Append(src, y)
      BY <3>1, <3>2
    <3>. QED BY <3>2, <3>4, <3>5
  <2>. QED BY <2>1, <2>2
<1>8. IsSeq(old) /\ NoTwice(old) /\ IsSeq(src)
  BY <1>5 DEF WorkInv
<1>9. IsSeq(session'[p].symbols) /\ NoTwice(session'[p].symbols)
      /\ \A s \in Range(session'[p].symbols) : s \in Range(old) \/ s \notin symbols
  <2>1. CASE session'[p].symbols = old
    BY <1>8, <2>1
  <2>2. CASE \E s : s \notin symbols /\ s \notin Range(old) /\ session'[p].symbols = Append(old, s)
    <3>1. PICK s : s \notin symbols /\ s \notin Range(old) /\ session'[p].symbols = Append(old, s)
      BY <2>2
    <3>2. IsSeq(Append(old, s)) /\ Range(Append(old, s)) = Range(old) \cup {s} /\ NoTwice(Append(old, s))
      BY <1>8, <3>1, SeqAppend, AppendOnce
    <3>. QED BY <3>1, <3>2
  <2>. QED BY <1>7, <2>1, <2>2
<1>. DEFINE Apart(s) == \A i, j \in DOMAIN s : i # j /\ s[i].build # {} => ~SamePlace(s[i], s[j])
<1>10. /\ IsSeq(session'[p].sources) /\ Apart(session'[p].sources)
       /\ u.type \in Scripted => \A x \in Range(session'[p].sources) : x.build = {}
       /\ \A x \in Range(session'[p].sources) : x \in Range(src) \/ x.build = {} \/ Stored(SamePlace, x) = {}
  <2>0. Apart(src) /\ (u.type \in Scripted => \A x \in Range(src) : x.build = {}) /\ saver[p].u = {u}
    BY <1>5 DEF WorkInv
  <2>1. CASE session'[p].sources = src
    BY <1>8, <2>0, <2>1
  <2>2. CASE \E row : Fits(p, row) /\ session'[p].sources = Append(src, row)
    <3>1. PICK row : Fits(p, row) /\ session'[p].sources = Append(src, row)
      BY <2>2
    <3>. HIDE DEF src
    <3>2. IsSeq(Append(src, row)) /\ Range(Append(src, row)) = Range(src) \cup {row}
      BY <1>8, SeqAppend
    <3>3. \/ row.build = {} /\ u.type \in Scripted
          \/ Stored(SamePlace, row) = {} /\ (\A x \in Range(src) : ~SamePlace(x, row)) /\ u.type \notin Scripted
      BY <2>0, <3>1 DEF Fits, AddedBefore, src
    <3>4. /\ DOMAIN src = 1 .. Len(src) /\ Len(src) \in Nat /\ DOMAIN Append(src, row) = 1 .. Len(src) + 1
          /\ \A i \in 1 .. Len(src) : Append(src, row)[i] = src[i]
          /\ Append(src, row)[Len(src) + 1] = row
      BY <1>8, AppendParts
    <3>5. \A i \in 1 .. Len(src) : src[i] \in Range(src)
      BY <3>4, RangeOf
    <3>6. ASSUME NEW i \in 1 .. Len(src) + 1, NEW j \in 1 .. Len(src) + 1, i # j, Append(src, row)[i].build # {}
          PROVE  ~SamePlace(Append(src, row)[i], Append(src, row)[j])
      <4>1. CASE row.build = {} /\ u.type \in Scripted
        BY <2>0, <3>4, <3>5, <4>1, <3>6
      <4>2. CASE \A x \in Range(src) : ~SamePlace(x, row)
        <5>1. CASE i \in 1 .. Len(src) /\ j \in 1 .. Len(src)
          BY <2>0, <3>4, <3>6, <5>1
        <5>2. CASE i \in 1 .. Len(src) /\ j = Len(src) + 1
          BY <3>4, <3>5, <4>2, <5>2
        <5>3. CASE i = Len(src) + 1 /\ j \in 1 .. Len(src)
          BY <3>5, <4>2, <5>3, <3>4 DEF SamePlace
        <5>4. \A k \in 1 .. Len(src) + 1 : k \in 1 .. Len(src) \/ k = Len(src) + 1
          BY <3>4
        <5>. QED BY <3>6, <5>1, <5>2, <5>3, <5>4
      <4>. QED BY <3>3, <4>1, <4>2
    <3>7. Apart(Append(src, row))
      BY <3>4, <3>6
    <3>. HIDE DEF Apart
    <3>8. u.type \in Scripted => \A x \in Range(src) \cup {row} : x.build = {}
      BY <2>0, <3>3
    <3>9. \A x \in Range(src) \cup {row} : x \in Range(src) \/ x.build = {} \/ Stored(SamePlace, x) = {}
      BY <3>3
    <3>. QED BY <3>1, <3>2, <3>7, <3>8, <3>9
  <2>. HIDE DEF Apart
  <2>. QED BY <1>7, <2>1, <2>2
<1>11. SaverInv(p)'
  <2>1. Working(p)'
    BY <1>3, <1>6 DEF Working
  <2>2. Unrepeated(p) => Unrepeated(p)'
    BY <1>2, <1>6, <1>7 DEF Unrepeated
  <2>3. WorkInv(p, u, r)'
    BY <1>5, <1>6, <1>7, <1>9, <1>10, <2>2 DEF WorkInv
  <2>4. \E a, b : WorkInv(p, a, b)'
    BY <2>3
  <2>. QED BY <2>1, <2>4 DEF SaverInv
<1>. HIDE DEF old, src, Apart
<1>12. AloneInv(p)'
  <2>. SUFFICES ASSUME Working(p)', saver'[p].alone PROVE AloneInv(p)'
    BY DEF AloneInv
  <2>1. /\ AtWork = {p}
        /\ \A x \in Range(session[p].added) : x[1] \notin DOMAIN rows
        /\ DOMAIN session[p].held \subseteq DOMAIN rows
        /\ saver[p].isNew => saver[p].report \cap reports = {}
        /\ Range(old) \cap symbols = {}
        /\ \A x \in Range(src) : x.build # {} => Stored(SamePlace, x) = {}
    BY <1>3, <1>6 DEF AloneInv, old, src
  <2>2. AtWork' = {p}
    BY <1>2, <1>6, <2>1, AloneStays
  <2>3. Range(session'[p].symbols) \cap symbols = {}
    BY <1>9, <2>1
  <2>4. \A x \in Range(session'[p].sources) : x.build # {} => Stored(SamePlace, x)' = {}
    <3>. SUFFICES ASSUME NEW x \in Range(session'[p].sources), x.build # {} PROVE Stored(SamePlace, x)' = {}
      OBVIOUS
    <3>1. Stored(SamePlace, x) = {}
      BY <1>10, <2>1
    <3>. QED BY <1>2, <3>1 DEF Stored
  <2>. QED BY <1>2, <1>6, <1>7, <2>1, <2>2, <2>3, <2>4 DEF AloneInv
<1>. QED BY <1>2, <1>3, <1>4, <1>6, <1>7, <1>11, <1>12, SaverShares

LEMMA EndFramesShared ==
  ASSUME SharedInv, RowsInv, NEW p \in Saver, EndFrames(p)
  PROVE  SharedInv'
<1>1. SaverRows(p) /\ DOMAIN saver = Saver /\ DOMAIN session = Saver
  BY DEF RowsInv
<1>2. UNCHANGED <<reports, rows, matcher, refused, symbols, sources>> /\ saver[p].pc = "frames"
  BY DEF EndFrames, frameVars
<1>3. Working(p) /\ SaverInv(p) /\ AloneInv(p)
  BY <1>2 DEF Working, SharedInv
<1>4. RefusedOnlyIfShared' /\ (\A k \in DOMAIN rows' : k[2] \in reports') /\ reports \subseteq reports'
  BY <1>2 DEF SharedInv, RefusedOnlyIfShared
<1>5. CASE saver' = [saver EXCEPT ![p] = [NoWork EXCEPT !.pc = "dead"]] /\ session' = [session EXCEPT ![p] = Clean]
  BY <1>1, <1>5, <1>2, <1>3, <1>4, EndShared DEF NoWork
<1>6. CASE saver' = [saver EXCEPT ![p].pc = "flush backtrace"] /\ session' = session
  <2>2. /\ saver'[p].pc = "flush backtrace" /\ saver'[p].u = saver[p].u /\ saver'[p].report = saver[p].report
        /\ saver'[p].isNew = saver[p].isNew /\ saver'[p].alone = saver[p].alone /\ DOMAIN saver' = Saver
        /\ \A x \in Saver \ {p} : saver'[x] = saver[x]
    BY <1>1, <1>6 DEF SaverRows, SaverFields
  <2>3. Working(p)'
    BY <2>2 DEF Working
  <2>4. SaverInv(p)'
    <3>. PICK u : \E a : WorkInv(p, u, a)
      BY <1>3 DEF SaverInv
    <3>1. PICK r : WorkInv(p, u, r)
      OBVIOUS
    <3>2. Unrepeated(p) => Unrepeated(p)'
      BY <1>6, <2>2 DEF Unrepeated
    <3>3. WorkInv(p, u, r)'
      BY <1>6, <2>2, <3>1, <3>2, Zenon DEF WorkInv
    <3>4. \E a, b : WorkInv(p, a, b)'
      BY <3>3
    <3>. QED BY <2>3, <3>4 DEF SaverInv
  <2>5. AloneInv(p)'
    <3>. SUFFICES ASSUME saver'[p].alone PROVE AloneInv(p)'
      BY DEF AloneInv
    <3>1. AtWork = {p}
      BY <1>3, <2>2 DEF AloneInv
    <3>2. AtWork' = {p}
      BY <1>2, <2>2, <2>3, <3>1, AloneStays
    <3>. QED BY <1>2, <1>3, <1>6, <2>2, <3>2 DEF AloneInv, Stored
  <2>. QED BY <1>2, <1>3, <1>4, <1>6, <2>2, <2>4, <2>5, SaverShares
<1>. QED BY <1>5, <1>6 DEF EndFrames

\* What a process alone writes is not refused, if its uReport has no package twice.
LEMMA AloneFits ==
  ASSUME SharedInv, RowsInv, NEW p \in Saver, Working(p), saver[p].alone,
         RowsRefused(p) \/ FramesRefused(p)
  PROVE  \E u \in saver[p].u : Cardinality(Range(u.packages)) < Len(u.packages)
<1>1. SaverInv(p) /\ AloneInv(p)
  BY DEF SharedInv
<1>. PICK u : \E a : WorkInv(p, u, a)
  BY <1>1 DEF SaverInv
<1>2. PICK r : WorkInv(p, u, r)
  OBVIOUS
<1>3. Repeats(u)
  <2>. SUFFICES ASSUME ~Repeats(u) PROVE FALSE
    OBVIOUS
  <2>1. Unrepeated(p)
    BY <1>2 DEF WorkInv
  <2>2. ~RowsRefused(p)
    <3>1. \A i, j \in DOMAIN session[p].added : i # j => session[p].added[i][1] # session[p].added[j][1]
      BY <2>1 DEF Unrepeated
    <3>2. \A i \in DOMAIN session[p].added : session[p].added[i][1] \notin DOMAIN rows
      BY <1>1, RangeOf DEF AloneInv
    <3>3. DOMAIN session[p].held \subseteq DOMAIN rows
      BY <1>1 DEF AloneInv
    <3>4. ~(saver[p].isNew /\ saver[p].report \subseteq reports)
      BY <1>1, <1>2 DEF AloneInv, WorkInv
    <3>. QED BY <3>1, <3>2, <3>3, <3>4 DEF RowsRefused
  <2>3. ~FramesRefused(p)
    <3>1. NoTwice(session[p].symbols) /\ Range(session[p].symbols) \cap symbols = {}
      BY <1>1, <1>2 DEF AloneInv, WorkInv
    <3>2. \A i, j \in DOMAIN session[p].sources : i # j /\ session[p].sources[i].build # {} =>
             ~SamePlace(session[p].sources[i], session[p].sources[j])
      BY <1>2 DEF WorkInv
    <3>3. \A i \in DOMAIN session[p].sources :
            session[p].sources[i].build # {} => Stored(SamePlace, session[p].sources[i]) = {}
      <4>. SUFFICES ASSUME NEW i \in DOMAIN session[p].sources, session[p].sources[i].build # {}
                    PROVE  Stored(SamePlace, session[p].sources[i]) = {}
        OBVIOUS
      <4>1. session[p].sources[i] \in Range(session[p].sources)
        BY RangeOf
      <4>. QED BY <1>1, <4>1 DEF AloneInv
    <3>. QED BY <3>1, <3>2, <3>3 DEF FramesRefused, NoTwice
  <2>. QED BY <2>2, <2>3
<1>. QED BY <1>2, <1>3, RepeatsFewer DEF WorkInv

LEMMA FlushShared ==
  ASSUME SharedInv, RowsInv, NEW p \in Saver, Flush(p)
  PROVE  SharedInv'
<1>1. SaverRows(p) /\ DOMAIN saver = Saver /\ DOMAIN session = Saver
  BY DEF RowsInv
<1>2. /\ session' = [session EXCEPT ![p] = Clean] /\ matcher' = matcher
      /\ saver[p].pc \in {"flush", "flush backtrace"}
      /\ saver' = [saver EXCEPT ![p] = [NoWork EXCEPT !.pc = "dead"]] \/ saver' = [saver EXCEPT ![p] = NoWork]
  BY DEF Flush
<1>3. Working(p) /\ SaverInv(p)
  BY <1>2 DEF Working, SharedInv
<1>4. saver'[p].pc \in {"idle", "dead"} /\ session'[p] = Clean /\ DOMAIN saver' = Saver
  <2>1. session'[p] = Clean /\ DOMAIN saver' = Saver
    BY <1>1, <1>2
  <2>2. saver'[p] = [NoWork EXCEPT !.pc = "dead"] \/ saver'[p] = NoWork
    BY <1>1, <1>2
  <2>3. NoWork.pc = "idle" /\ [NoWork EXCEPT !.pc = "dead"].pc = "dead"
    BY DEF NoWork
  <2>4. saver'[p].pc \in {"idle", "dead"}
    BY <2>2, <2>3
  <2>. QED BY <2>1, <2>4
<1>5. \A x \in Saver \ {p} : saver'[x] = saver[x] /\ session'[x] = session[x]
  BY <1>1, <1>2
<1>6. RefusedOnlyIfShared'
  <2>1. \A x \in refused : x[1] => \E u \in x[2] : Cardinality(Range(u.packages)) < Len(u.packages)
    BY DEF SharedInv, RefusedOnlyIfShared
  <2>2. CASE RowsRefused(p) \/ FramesRefused(p)
    <3>1. refused' = refused \cup {<<saver[p].alone, saver[p].u>>}
      BY <2>2 DEF Flush
    <3>2. saver[p].alone => \E u \in saver[p].u : Cardinality(Range(u.packages)) < Len(u.packages)
      BY <1>3, <2>2, AloneFits
    <3>. QED BY <2>1, <3>1, <3>2 DEF RefusedOnlyIfShared
  <2>3. CASE ~(RowsRefused(p) \/ FramesRefused(p))
    BY <2>3, <2>1 DEF Flush, RefusedOnlyIfShared
  <2>. QED BY <2>2, <2>3
<1>7. reports \subseteq reports' /\ \A k \in DOMAIN rows' : k[2] \in reports'
  <2>1. \A k \in DOMAIN rows : k[2] \in reports
    BY DEF SharedInv
  <2>2. CASE RowsRefused(p) \/ FramesRefused(p)
    <3>1. reports' = reports /\ rows' = rows
      BY <2>2 DEF Flush
    <3>. QED BY <2>1, <3>1
  <2>3. CASE ~(RowsRefused(p) \/ FramesRefused(p))
    <3>1. /\ rows' = Over(Inserted(session[p].added), Over(session[p].held, rows))
          /\ reports' = reports \cup saver[p].report
          /\ DOMAIN session[p].held \subseteq DOMAIN rows
      BY <2>3, Zenon DEF Flush, WriteRows, RowsRefused
    <3>. PICK u : \E a : WorkInv(p, u, a)
      BY <1>3 DEF SaverInv
    <3>2. PICK r : WorkInv(p, u, r)
      OBVIOUS
    <3>3. \A i \in DOMAIN session[p].added : session[p].added[i][1][2] = r
      BY <3>2, RangeOf DEF WorkInv
    <3>4. ASSUME NEW k \in DOMAIN rows' PROVE k[2] \in reports'
      <4>1. k \in DOMAIN rows \/ k \in DOMAIN Inserted(session[p].added)
        BY <3>1 DEF Over
      <4>2. k \in DOMAIN Inserted(session[p].added) => k[2] = r
        BY <3>3 DEF Inserted
      <4>3. r \in saver[p].report
        BY <3>2 DEF WorkInv
      <4>. QED BY <2>1, <3>1, <4>1, <4>2, <4>3
    <3>. QED BY <3>1, <3>4
  <2>. QED BY <2>2, <2>3
<1>. QED BY <1>2, <1>3, <1>4, <1>5, <1>6, <1>7, EndShared

-----------------------------------------------------------------------------
(* match-unknown-packages. *)

\* A run that keeps its own part right disturbs nobody's.
LEMMA MatcherShares ==
  ASSUME SharedInv, RowsInv, NEW m \in Matcher, matcher[m].pc = "run",
         UNCHANGED <<reports, saver, session, symbols, sources>>,
         \A x \in Matcher \ {m} : matcher'[x] = matcher[x],
         \A k \in DOMAIN rows' : k[2] \in reports, RunInv(m)', RefusedOnlyIfShared'
  PROVE  SharedInv'
<1>1. m \in AtWork
  BY WorkerAtWork
<1>2. ASSUME NEW x \in Saver PROVE SaverInv(x)' /\ AloneInv(x)'
  <2>1. x # m /\ SaverInv(x)
    BY ProcessAssumption DEF SharedInv
  <2>2. Working(x) => ~saver[x].alone
    BY <1>1, <2>1, NobodyElse
  <2>3. SaverInv(x)'
    BY <2>1, SaverStays
  <2>4. AloneInv(x)'
    BY <2>2 DEF AloneInv, Working
  <2>. QED BY <2>3, <2>4
<1>3. ASSUME NEW x \in Matcher PROVE RunInv(x)'
  <2>1. CASE x # m
    BY <1>1, <2>1, NobodyElse DEF SharedInv, RunInv
  <2>. QED BY <2>1
<1>. QED BY <1>2, <1>3 DEF SharedInv

LEMMA MatchStartShared ==
  ASSUME SharedInv, RowsInv, NEW m \in Matcher, MatchStart(m), UNCHANGED frameVars
  PROVE  SharedInv'
<1>. DEFINE pairs == {<<k[3], k>> : k \in {k \in DOMAIN rows : k[1] = "unknown" /\ k[3] \in packages}}
<1>1. \A q \in pairs : q[2][2] \in reports
  BY DEF SharedInv
<1>2. \E seen :
        matcher' = [x \in Matcher |-> IF x = m THEN [pc |-> "run", pairs |-> pairs, first |-> TRUE,
                                                 seen |-> seen, at |-> {}, alone |-> AtWork = {}]
                                      ELSE [matcher[x] EXCEPT !.alone = FALSE]]
  BY DEF MatchStart
<1>3. UNCHANGED <<reports, rows, session, refused, symbols, sources>> /\ saver' = NotAlone(m)
  BY DEF MatchStart, frameVars
<1>. HIDE DEF pairs
<1>4. ASSUME NEW x \in Saver PROVE SaverInv(x)' /\ AloneInv(x)' /\ (Working(x)' <=> Working(x))
  <2>1. x # m /\ SaverInv(x) /\ DOMAIN saver[x] = SaverFields
    BY ProcessAssumption DEF SharedInv, RowsInv, SaverRows
  <2>2. saver'[x] = [saver[x] EXCEPT !.alone = @ /\ (x = m \/ saver[x].pc \in {"idle", "dead"})]
    BY <1>3 DEF NotAlone
  <2>3. /\ saver'[x].pc = saver[x].pc /\ saver'[x].u = saver[x].u /\ saver'[x].report = saver[x].report
        /\ saver'[x].left = saver[x].left
        /\ saver'[x].alone = (saver[x].alone /\ (x = m \/ saver[x].pc \in {"idle", "dead"}))
    BY <2>1, <2>2 DEF SaverFields
  <2>4. SaverInv(x)'
    BY <1>3, <2>1, <2>3, SaverStays
  <2>5. AloneInv(x)'
    BY <2>1, <2>3 DEF AloneInv, Working
  <2>. QED BY <2>3, <2>4, <2>5 DEF Working
<1>5. ASSUME NEW x \in Matcher PROVE RunInv(x)'
  <2>0. RunInv(x) /\ DOMAIN matcher[x] = MatcherFields
    BY DEF SharedInv, RowsInv, MatcherRows
  <2>1. CASE x = m
    <3>1. /\ matcher'[x].pairs = pairs /\ matcher'[x].at = {} /\ matcher'[x].pc = "run"
          /\ matcher'[x].alone = (AtWork = {})
      BY <1>2, <2>1
    <3>2. AtWork = {} => AtWork' = {x}
      <4>. SUFFICES ASSUME AtWork = {} PROVE AtWork' = {x}
        OBVIOUS
      <4>1. \A y \in Saver : ~Working(y)'
        BY <1>4, WorkerAtWork
      <4>2. \A y \in Matcher \ {x} : matcher'[y].pc # "run"
        <5>. SUFFICES ASSUME NEW y \in Matcher \ {x} PROVE matcher'[y].pc # "run"
          OBVIOUS
        <5>1. matcher'[y] = [matcher[y] EXCEPT !.alone = FALSE] /\ DOMAIN matcher[y] = MatcherFields
          BY <1>2, <2>1 DEF RowsInv, MatcherRows
        <5>2. matcher[y].pc # "run"
          BY WorkerAtWork
        <5>. QED BY <5>1, <5>2 DEF MatcherFields
      <4>. QED BY <3>1, <4>1, <4>2 DEF AtWork, Working
    <3>. QED BY <1>1, <1>3, <3>1, <3>2 DEF RunInv
  <2>2. CASE x # m
    BY <1>2, <2>2, <2>0, <1>3 DEF MatcherFields, RunInv
  <2>. QED BY <2>1, <2>2
<1>. QED BY <1>3, <1>4, <1>5 DEF SharedInv, RefusedOnlyIfShared

LEMMA MatchNextShared ==
  ASSUME SharedInv, RowsInv, NEW m \in Matcher, MatchNext(m), UNCHANGED frameVars
  PROVE  SharedInv'
<1>1. MatcherRows(m) /\ DOMAIN matcher = Matcher /\ RunInv(m)
  BY DEF RowsInv, SharedInv
<1>2. UNCHANGED <<reports, rows, saver, session, refused, symbols, sources>> /\ matcher[m].pc = "run"
  BY DEF MatchNext, frameVars
<1>3. PICK q \in matcher[m].pairs :
        \/ matcher' = [matcher EXCEPT ![m] = [NoMatch EXCEPT !.pc = "dead"]]
        \/ matcher' = [matcher EXCEPT ![m].pairs = @ \ {q}, ![m].at = {q}, ![m].first = FALSE,
                                      ![m].seen = IF matcher[m].first THEN Over(@, rows) ELSE rows]
  BY Zenon DEF MatchNext
<1>4. \A x \in Matcher \ {m} : matcher'[x] = matcher[x]
  BY <1>1, <1>3
<1>5. RunInv(m)'
  <2>1. CASE matcher' = [matcher EXCEPT ![m] = [NoMatch EXCEPT !.pc = "dead"]]
    BY <1>1, <2>1 DEF NoMatch, RunInv
  <2>2. CASE matcher' = [matcher EXCEPT ![m].pairs = @ \ {q}, ![m].at = {q}, ![m].first = FALSE,
                                        ![m].seen = IF matcher[m].first THEN Over(@, rows) ELSE rows]
    <3>1. /\ matcher'[m].pairs = matcher[m].pairs \ {q} /\ matcher'[m].at = {q} /\ matcher'[m].pc = "run"
          /\ matcher'[m].alone = matcher[m].alone
          /\ matcher'[m].seen = IF matcher[m].first THEN Over(matcher[m].seen, rows) ELSE rows
      BY <1>1, <1>2, <2>2 DEF MatcherRows, MatcherFields
    <3>2. DOMAIN rows \subseteq DOMAIN matcher'[m].seen
      BY <3>1 DEF Over
    <3>3. matcher[m].alone => AtWork' = {m}
      <4>. SUFFICES ASSUME matcher[m].alone PROVE AtWork' = {m}
        OBVIOUS
      <4>1. AtWork = {m}
        BY <1>1, <1>2 DEF RunInv
      <4>2. \A x \in Matcher : matcher'[x].pc = matcher[x].pc
        BY <1>2, <1>4, <3>1
      <4>3. {x \in Matcher : matcher'[x].pc = "run"} = {x \in Matcher : matcher[x].pc = "run"}
        BY <4>2
      <4>. QED BY <1>2, <4>1, <4>3 DEF AtWork
    <3>. QED BY <1>1, <1>2, <3>1, <3>2, <3>3 DEF RunInv
  <2>. QED BY <1>3, <2>1, <2>2
<1>6. RefusedOnlyIfShared' /\ \A k \in DOMAIN rows' : k[2] \in reports
  BY <1>2 DEF SharedInv, RefusedOnlyIfShared
<1>. QED BY <1>2, <1>4, <1>5, <1>6, MatcherShares

LEMMA MatchFlushShared ==
  ASSUME SharedInv, RowsInv, NEW m \in Matcher, MatchFlush(m), UNCHANGED frameVars
  PROVE  SharedInv'
<1>. DEFINE q == Only(matcher[m].at)
            old == matcher[m].seen
            k == <<"known", q[2][2], q[1], q[2][4]>>
            existing == {x \in DOMAIN old : x[1] = "known" /\ x[2] = q[2][2] /\ x[3] = q[1]}
<1>1. MatcherRows(m) /\ DOMAIN matcher = Matcher /\ RunInv(m) /\ \A x \in DOMAIN rows : x[2] \in reports
  BY DEF RowsInv, SharedInv
<1>2. UNCHANGED <<reports, saver, session, symbols, sources>> /\ matcher[m].at # {} /\ matcher[m].pc = "run"
  BY <1>1 DEF MatchFlush, frameVars, RunInv
<1>3. q[2][2] \in reports
  <2>1. q \in matcher[m].at
    BY <1>2 DEF Only
  <2>. HIDE DEF q
  <2>. QED BY <1>1, <2>1 DEF RunInv
<1>. HIDE DEF q
<1>4. \/ /\ matcher' = [matcher EXCEPT ![m] = [NoMatch EXCEPT !.pc = "dead"]] /\ rows' = rows
         /\ existing = {} /\ k \in DOMAIN rows /\ refused' = refused \cup {<<matcher[m].alone, {}>>}
      \/ /\ \E x \in IF existing = {} THEN {k} ELSE existing :
              rows' = Put(Without(rows, q[2]), x, Count(old, x) + old[q[2]])
         /\ matcher' = [matcher EXCEPT ![m] = IF @.pairs = {} THEN NoMatch ELSE [@ EXCEPT !.at = {}]]
         /\ refused' = refused
  BY DEF MatchFlush, q
<1>5. k[2] \in reports /\ \A x \in existing : x[2] \in reports
  BY <1>3
<1>6. \A x \in DOMAIN rows' : x[2] \in reports
  <2>1. CASE rows' = rows
    BY <1>1, <2>1
  <2>2. CASE \E x \in IF existing = {} THEN {k} ELSE existing :
               rows' = Put(Without(rows, q[2]), x, Count(old, x) + old[q[2]])
    <3>. HIDE DEF existing, k
    <3>1. PICK x : rows' = Put(Without(rows, q[2]), x, Count(old, x) + old[q[2]]) /\ x[2] \in reports
      BY <1>5, <2>2
    <3>2. DOMAIN rows' = (DOMAIN rows \ {q[2]}) \cup {x}
      BY <3>1 DEF Put, Without
    <3>. QED BY <1>1, <3>1, <3>2
  <2>. QED BY <1>4, <2>1, <2>2
<1>7. RefusedOnlyIfShared'
  <2>1. \A x \in refused : x[1] => \E u \in x[2] : Cardinality(Range(u.packages)) < Len(u.packages)
    BY DEF SharedInv, RefusedOnlyIfShared
  <2>2. existing = {} /\ k \in DOMAIN rows => ~matcher[m].alone
    <3>. SUFFICES ASSUME existing = {}, k \in DOMAIN rows, matcher[m].alone PROVE FALSE
      OBVIOUS
    <3>1. k \in DOMAIN old
      BY <1>1, <1>2 DEF RunInv
    <3>2. k[1] = "known" /\ k[2] = q[2][2] /\ k[3] = q[1]
      OBVIOUS
    <3>. QED BY <3>1, <3>2
  <2>. HIDE DEF k, existing
  <2>. QED BY <1>4, <2>1, <2>2 DEF RefusedOnlyIfShared
<1>. HIDE DEF k, existing
<1>8. \A x \in Matcher \ {m} : matcher'[x] = matcher[x]
  BY <1>1, <1>4
<1>9. RunInv(m)'
  <2>1. \/ matcher'[m] = [NoMatch EXCEPT !.pc = "dead"] \/ matcher'[m] = NoMatch
        \/ matcher'[m] = [matcher[m] EXCEPT !.at = {}] /\ rows' # rows
        \/ matcher'[m] = [matcher[m] EXCEPT !.at = {}]
    BY <1>1, <1>4
  <2>2. CASE matcher'[m] = [NoMatch EXCEPT !.pc = "dead"] \/ matcher'[m] = NoMatch
    BY <2>2 DEF NoMatch, RunInv
  <2>3. CASE matcher'[m] = [matcher[m] EXCEPT !.at = {}]
    <3>1. /\ matcher'[m].at = {} /\ matcher'[m].pairs = matcher[m].pairs /\ matcher'[m].pc = matcher[m].pc
          /\ matcher'[m].alone = matcher[m].alone
      BY <1>1, <2>3 DEF MatcherRows, MatcherFields
    <3>2. matcher[m].alone => AtWork' = {m}
      <4>. SUFFICES ASSUME matcher[m].alone PROVE AtWork' = {m}
        OBVIOUS
      <4>1. AtWork = {m}
        BY <1>1, <1>2 DEF RunInv
      <4>2. \A x \in Matcher : matcher'[x].pc = matcher[x].pc
        BY <1>8, <3>1
      <4>3. {x \in Matcher : matcher'[x].pc = "run"} = {x \in Matcher : matcher[x].pc = "run"}
        BY <4>2
      <4>. QED BY <1>2, <4>1, <4>3 DEF AtWork
    <3>. QED BY <1>1, <1>2, <3>1, <3>2 DEF RunInv
  <2>. QED BY <2>1, <2>2, <2>3
<1>. QED BY <1>2, <1>6, <1>7, <1>8, <1>9, MatcherShares

-----------------------------------------------------------------------------
LEMMA InitShared == ASSUME Init PROVE SharedInv
<1>1. RowsInit({})
  BY DEF Init
<1>2. DOMAIN rows = {} /\ refused = {}
  BY <1>1 DEF RowsInit
<1>3. saver = [p \in Saver |-> NoWork] /\ session = [p \in Saver |-> Clean] /\ matcher = [m \in Matcher |-> NoMatch]
  BY <1>1 DEF RowsInit
<1>4. ASSUME NEW p \in Saver PROVE SaverInv(p) /\ AloneInv(p)
  BY <1>3 DEF NoWork, Working, SaverInv, AloneInv
<1>5. ASSUME NEW m \in Matcher PROVE RunInv(m)
  BY <1>3 DEF NoMatch, RunInv
<1>. QED BY <1>2, <1>4, <1>5 DEF SharedInv, RefusedOnlyIfShared

LEMMA NextShared ==
  ASSUME RowsInv, SharedInv, [Next]_vars
  PROVE  SharedInv'
<1>1. ASSUME NEW p \in Saver, SaverStep(p) PROVE SharedInv'
  <2>1. CASE (FedoraCount(p) \/ CentosCount(p)) /\ UNCHANGED frameVars
    BY <2>1, CountShared DEF FedoraCount, CentosCount
  <2>2. CASE SaveOne(p)
    BY <2>2, SaveOneShared
  <2>. QED BY <1>1, <2>1, <2>2, StartFramesShared, EndFramesShared, FlushShared DEF SaverStep, SaveOne
<1>2. CASE Run
  BY <1>1, <1>2, MatchNextShared, MatchFlushShared DEF Run
<1>3. CASE Incoming
  <2>1. ASSUME NEW p \in Saver, NEW u \in UReport, Begin(p, u), UNCHANGED frameVars PROVE SharedInv'
    BY <2>1, BeginShared
  <2>2. ASSUME NEW m \in Matcher, MatchStart(m), UNCHANGED frameVars PROVE SharedInv'
    BY <2>2, MatchStartShared
  <2>3. ASSUME NEW k \in DOMAIN BuildOf \ Foreign, AddPackage(k), UNCHANGED frameVars PROVE SharedInv'
    BY <2>3, SharedKept DEF AddPackage, frameVars
  <2>. QED BY <1>3, <2>1, <2>2, <2>3 DEF Incoming
<1>4. CASE UNCHANGED <<rowVars, frameVars>>
  BY <1>4, SharedKept DEF rowVars, frameVars
<1>5. Mark => UNCHANGED <<rowVars, frameVars>>
  BY Zenon DEF Mark, FixStart, FixStep, FixRelease, FixProblem, FixFlush, AssignProblem, RemoveProblem, NewBuild, serverVars
<1>6. Serve \/ FileAway => UNCHANGED <<serverVars, fixVars>>
  BY ServeKeeps
<1>. QED BY <1>2, <1>3, <1>4, <1>5, <1>6 DEF Next, vars, serverVars

\* The database refuses what a process alone at work flushes only if a uReport
\* lists a package twice (ureport.py, save_ureport2; match_unknown_packages.py,
\* run).
THEOREM RefusedOnlyIfSharedAlways == Spec => []RefusedOnlyIfShared
<1>1. Init => RowsInv /\ SharedInv
  BY InitRows, InitShared
<1>2. RowsInv /\ SharedInv /\ [Next]_vars => RowsInv' /\ SharedInv'
  BY NextRows, NextShared
<1>3. SharedInv => RefusedOnlyIfShared
  BY DEF SharedInv
<1>. QED BY <1>1, <1>2, <1>3, PTL DEF Spec

-----------------------------------------------------------------------------
(* The counts of items: what is stored of a report that nobody shares adds *)
(* up to what was counted, and what a process is about to write to that    *)
(* and what its uReport lists.                                             *)

OfItem(k, r, what) == k[1] \in Tables(what[1]) /\ k[2] = r /\ k[3] = what[2]
Sum(T, r, what) == Total(T, {k \in DOMAIN T : OfItem(k, r, what)})
IsTable(T) == IsFiniteSet(DOMAIN T) /\ \A k \in DOMAIN T : T[k] \in Nat
Alike(T, U, r) == \A k \in DOMAIN T \cup DOMAIN U : k[2] = r => k \in DOMAIN T /\ k \in DOMAIN U /\ T[k] = U[k]
What(e) == <<e[1], e[2]>>
Countable(what) == what = What(what) /\ what[1] \notin {"known", "unknown"} /\ what[2] \notin Foreign
AddsUp(T, r, what, n) == Sum(T, r, what) = Count(counted, <<r, what>>) + n

\* What the rows are if the flush of a process succeeds, and if it does.
Pending(p) == Over(Inserted(session[p].added), Over(session[p].held, rows))
Fitting(p) ==
  /\ \A i, j \in DOMAIN session[p].added : i # j => session[p].added[i][1] # session[p].added[j][1]
  /\ \A i \in DOMAIN session[p].added : session[p].added[i][1] \notin DOMAIN rows
  /\ DOMAIN session[p].held \subseteq DOMAIN rows
Through(p, u) == IF saver[p].pc = "rows" THEN Len(Items(u)) - Len(saver[p].left) ELSE Len(Items(u))
Dealt(u, n, what) == {i \in DOMAIN Items(u) : i <= n /\ What(Items(u)[i]) = what}
PendInv(p, u, r) ==
  /\ saver[p].u = {u} /\ saver[p].report = {r} /\ ProperItems(Items(u))
  /\ saver[p].pc = "rows" =>
       /\ Len(saver[p].left) <= Len(Items(u))
       /\ \A i \in DOMAIN saver[p].left : saver[p].left[i] = Items(u)[Len(Items(u)) - Len(saver[p].left) + i]
  /\ \A k \in DOMAIN session[p].held : k[2] = r /\ session[p].held[k] \in Nat
  /\ \A i \in DOMAIN session[p].added : session[p].added[i][1][2] = r
  /\ r \notin overlap /\ Fitting(p) =>
       \A what : Countable(what) => AddsUp(Pending(p), r, what, Cardinality(Dealt(u, Through(p, u), what)))

\* What a run has seen of a report that nobody shares is what is stored.
PairOf(q) == q = <<q[2][3], q[2]>> /\ q[2][1] = "unknown"
MatchInv(m) ==
  /\ \A q \in matcher[m].pairs \cup matcher[m].at : PairOf(q) /\ (q[2][2] \notin overlap => q[2] \in DOMAIN rows)
  /\ \A q \in matcher[m].at : matcher[m].at = {q} /\ q \notin matcher[m].pairs /\ q[2] \in DOMAIN matcher[m].seen
  /\ matcher[m].first =>
       /\ matcher[m].at = {} /\ DOMAIN matcher[m].seen = {q[2] : q \in matcher[m].pairs}
       /\ \A k \in DOMAIN matcher[m].seen : k[2] \notin overlap => matcher[m].seen[k] = rows[k]
  /\ IsTable(matcher[m].seen)
  /\ \A q \in matcher[m].at : q[2][2] \notin overlap => Alike(matcher[m].seen, rows, q[2][2])

Apart == \A x, y \in AtWork : x # y => InHand(x) \cap InHand(y) \subseteq overlap
Even == \A r, what : r \notin overlap /\ Countable(what) => AddsUp(rows, r, what, 0)
CountedProper == \A x \in DOMAIN counted : Countable(x[2]) /\ counted[x] \in Nat
CountInv ==
  /\ IsTable(rows) /\ Apart /\ Even
  /\ CountedProper
  /\ \A p \in Saver : Working(p) => \E u, r : PendInv(p, u, r)
  /\ \A m \in Matcher : matcher[m].pc = "run" => MatchInv(m)

LEMMA SumAlike ==
  ASSUME NEW T, IsTable(T), NEW U, NEW r, Alike(T, U, r), NEW what
  PROVE  Sum(U, r, what) = Sum(T, r, what) /\ Sum(T, r, what) \in Nat
<1>. DEFINE S == {k \in DOMAIN T : OfItem(k, r, what)}
<1>1. S = {k \in DOMAIN U : OfItem(k, r, what)} /\ \A k \in S : U[k] = T[k]
  BY DEF Alike, OfItem
<1>2. IsFiniteSet(S) /\ \A k \in S : T[k] \in Nat
  BY FS_Subset DEF IsTable
<1>. HIDE DEF S
<1>3. Total(U, S) = Total(T, S) /\ Total(T, S) \in Nat
  BY <1>1, <1>2, TotalAgrees
<1>. QED BY <1>1, <1>3 DEF Sum, S

LEMMA SumPlus ==
  ASSUME NEW T, IsTable(T), NEW U, NEW x, NEW d \in Nat,
         DOMAIN U = DOMAIN T \cup {x}, U[x] = Count(T, x) + d, \A k \in DOMAIN T \ {x} : U[k] = T[k]
  PROVE  /\ IsTable(U)
         /\ \A r, what : Sum(U, r, what) = Sum(T, r, what) + (IF OfItem(x, r, what) THEN d ELSE 0)
<1>1. Count(T, x) \in Nat
  BY DEF Count, IsTable
<1>2. IsTable(U)
  <2>1. IsFiniteSet(DOMAIN U)
    BY FS_AddElement DEF IsTable
  <2>2. ASSUME NEW k \in DOMAIN U PROVE U[k] \in Nat
    BY <1>1 DEF IsTable
  <2>. QED BY <2>1, <2>2 DEF IsTable
<1>3. ASSUME NEW r, NEW what
      PROVE  Sum(U, r, what) = Sum(T, r, what) + (IF OfItem(x, r, what) THEN d ELSE 0)
  <2>. DEFINE S == {k \in DOMAIN T : OfItem(k, r, what)}
              V == {k \in DOMAIN U : OfItem(k, r, what)}
  <2>1. IsFiniteSet(V) /\ S \subseteq V /\ (\A k \in S : T[k] \in Nat) /\ (\A k \in V : U[k] \in Nat)
    BY <1>2, FS_Subset DEF IsTable
  <2>2. Grown(U, V, T, S, x, d)
    <3>1. ASSUME NEW y \in V, y = x PROVE U[y] = (IF y \in S THEN T[y] ELSE 0) + d
      BY <3>1 DEF Count
    <3>2. ASSUME NEW y \in V, y # x PROVE U[y] = (IF y \in S THEN T[y] ELSE 0) + 0
      BY <3>2 DEF IsTable
    <3>. HIDE DEF S, V
    <3>. QED BY <3>1, <3>2 DEF Grown
  <2>3. x \in V <=> OfItem(x, r, what)
    OBVIOUS
  <2>. HIDE DEF S, V
  <2>4. Total(U, V) = Total(T, S) + (IF x \in V THEN d ELSE 0)
    BY <2>1, <2>2, TotalChanges
  <2>. QED BY <2>3, <2>4 DEF Sum, S, V
<1>. QED BY <1>2, <1>3

LEMMA SumMinus ==
  ASSUME NEW T, IsTable(T), NEW U, NEW x \in DOMAIN T,
         DOMAIN U = DOMAIN T \ {x}, \A k \in DOMAIN U : U[k] = T[k]
  PROVE  /\ IsTable(U)
         /\ \A r, what : Sum(T, r, what) = Sum(U, r, what) + (IF OfItem(x, r, what) THEN T[x] ELSE 0)
<1>1. IsTable(U)
  BY FS_Subset DEF IsTable
<1>2. DOMAIN T = DOMAIN U \cup {x} /\ T[x] \in Nat /\ \A k \in DOMAIN U \ {x} : T[k] = U[k]
  BY DEF IsTable
<1>3. T[x] = Count(U, x) + T[x]
  BY <1>2 DEF Count
<1>. DEFINE d == T[x]
<1>4. d \in Nat /\ T[x] = Count(U, x) + d
  BY <1>2, <1>3
<1>. HIDE DEF d
<1>5. \A r, what : Sum(T, r, what) = Sum(U, r, what) + (IF OfItem(x, r, what) THEN d ELSE 0)
  BY ONLY <1>1, <1>2, <1>4, SumPlus
<1>. QED BY <1>1, <1>5 DEF d

\* What a process has pending is a table, too.
LEMMA PendingTable ==
  ASSUME NEW p \in Saver, SaverRows(p), IsTable(rows), \A k \in DOMAIN session[p].held : session[p].held[k] \in Nat
  PROVE  IsTable(Pending(p))
<1>. DEFINE added == session[p].added
            keys == {added[i][1] : i \in DOMAIN added}
            D == keys \cup (DOMAIN session[p].held \cup DOMAIN rows)
<1>1. DOMAIN Inserted(added) = keys /\ \A k \in keys : Inserted(added)[k] = 1
  BY DEF Inserted
<1>2. IsFiniteSet(keys)
  <2>1. IsSeq(added)
    BY DEF SaverRows
  <2>. HIDE DEF added
  <2>2. DOMAIN added = 1 .. Len(added) /\ Len(added) \in Nat
    <3>. DEFINE R == Range(added)
    <3>1. added \in Seq(R)
      BY <2>1 DEF IsSeq
    <3>. HIDE DEF R
    <3>. QED BY <3>1
  <2>3. IsFiniteSet(DOMAIN added)
    <3>1. 1 \in Int /\ Len(added) \in Int
      BY <2>2
    <3>2. IsFiniteSet(1 .. Len(added))
      BY <3>1, FS_Interval
    <3>. QED BY <2>2, <3>2
  <2>. DEFINE f == [i \in DOMAIN added |-> added[i][1]]
  <2>4. f \in Surjection(DOMAIN added, keys)
    BY DEF Surjection
  <2>. HIDE DEF f, keys
  <2>. QED BY <2>3, <2>4, FS_Surjection
<1>. HIDE DEF keys, added
<1>3. DOMAIN Pending(p) = D
  BY <1>1 DEF Pending, Over, added
<1>4. IsFiniteSet(D)
  BY FS_Union, <1>2 DEF SaverRows, IsTable
<1>5. \A k \in D : Pending(p)[k] \in Nat
  BY <1>1 DEF Pending, Over, IsTable, added
<1>. QED BY <1>3, <1>4, <1>5 DEF IsTable

\* What is stored and counted of a report does not change.
AlikeNow(r) == Alike(rows, rows', r) /\ \A what : Count(counted', <<r, what>>) = Count(counted, <<r, what>>)

LEMMA EvenKept ==
  ASSUME IsTable(rows), Even, overlap \subseteq overlap', \A r : r \notin overlap' => AlikeNow(r)
  PROVE  Even'
<1>. SUFFICES ASSUME NEW r, NEW what, r \notin overlap', Countable(what) PROVE AddsUp(rows, r, what, 0)'
  BY DEF Even, Countable
<1>1. AddsUp(rows, r, what, 0)
  BY DEF Even
<1>2. Sum(rows', r, what) = Sum(rows, r, what)
  BY SumAlike DEF AlikeNow
<1>. QED BY <1>1, <1>2 DEF AddsUp, AlikeNow

LEMMA PendKept ==
  ASSUME NEW p \in Saver, SaverRows(p), IsTable(rows), NEW u, NEW r, PendInv(p, u, r),
         saver'[p].u = saver[p].u, saver'[p].report = saver[p].report,
         saver'[p].pc = "rows" => saver[p].pc = "rows" /\ saver'[p].left = saver[p].left,
         Through(p, u)' = Through(p, u),
         session'[p].held = session[p].held, session'[p].added = session[p].added,
         overlap \subseteq overlap', r \notin overlap' => AlikeNow(r)
  PROVE  PendInv(p, u, r)'
<1>1. /\ saver'[p].u = {u} /\ saver'[p].report = {r} /\ ProperItems(Items(u))
      /\ saver'[p].pc = "rows" =>
           /\ Len(saver'[p].left) <= Len(Items(u))
           /\ \A i \in DOMAIN saver'[p].left : saver'[p].left[i] = Items(u)[Len(Items(u)) - Len(saver'[p].left) + i]
      /\ \A k \in DOMAIN session'[p].held : k[2] = r /\ session'[p].held[k] \in Nat
      /\ \A i \in DOMAIN session'[p].added : session'[p].added[i][1][2] = r
  BY DEF PendInv
<1>2. ASSUME r \notin overlap', Fitting(p)', NEW what, Countable(what)
      PROVE  AddsUp(Pending(p), r, what, Cardinality(Dealt(u, Through(p, u), what)))'
  <2>1. r \notin overlap /\ Alike(rows, rows', r) /\ Count(counted', <<r, what>>) = Count(counted, <<r, what>>)
    BY <1>2 DEF AlikeNow
  <2>2. Fitting(p)
    BY <1>1, <1>2, <2>1 DEF Fitting, Alike
  <2>3. AddsUp(Pending(p), r, what, Cardinality(Dealt(u, Through(p, u), what)))
    BY <1>2, <2>1, <2>2 DEF PendInv
  <2>4. IsTable(Pending(p))
    BY <1>1, PendingTable
  <2>5. Alike(Pending(p), Pending(p)', r)
    BY <2>1 DEF Pending, Over, Alike
  <2>6. Sum(Pending(p)', r, what) = Sum(Pending(p), r, what)
    BY <2>4, <2>5, SumAlike
  <2>. QED BY <2>1, <2>3, <2>6 DEF AddsUp
<1>. QED BY <1>1, <1>2 DEF PendInv, Countable, Dealt

LEMMA MatchKept ==
  ASSUME NEW m \in Matcher, MatchInv(m),
         matcher'[m].pairs = matcher[m].pairs, matcher'[m].at = matcher[m].at,
         matcher'[m].first = matcher[m].first, matcher'[m].seen = matcher[m].seen,
         overlap \subseteq overlap',
         \A q \in matcher[m].pairs \cup matcher[m].at : q[2][2] \notin overlap' => Alike(rows, rows', q[2][2])
  PROVE  MatchInv(m)'
<1>1. ASSUME NEW q \in matcher[m].pairs \cup matcher[m].at
      PROVE  PairOf(q) /\ (q[2][2] \notin overlap' => q[2] \in DOMAIN rows')
  BY DEF MatchInv, Alike
<1>2. ASSUME NEW q \in matcher[m].at, q[2][2] \notin overlap' PROVE Alike(matcher[m].seen, rows', q[2][2])
  BY <1>2 DEF MatchInv, Alike
<1>3. ASSUME matcher[m].first, NEW k \in DOMAIN matcher[m].seen, k[2] \notin overlap'
      PROVE  matcher[m].seen[k] = rows'[k]
  <2>1. PICK q \in matcher[m].pairs : k = q[2]
    BY <1>3 DEF MatchInv
  <2>2. q[2] \in DOMAIN rows /\ Alike(rows, rows', q[2][2]) /\ matcher[m].seen[k] = rows[k]
    BY <1>3, <2>1 DEF MatchInv
  <2>. QED BY <2>1, <2>2 DEF Alike
<1>. QED BY <1>1, <1>2, <1>3 DEF MatchInv

\* The part of a process that the counts depend on does not change.
SaverStill(x) ==
  /\ saver'[x].pc = saver[x].pc /\ saver'[x].u = saver[x].u /\ saver'[x].report = saver[x].report
  /\ saver'[x].left = saver[x].left /\ session'[x] = session[x]
MatcherStill(m) ==
  /\ matcher'[m].pc = matcher[m].pc /\ matcher'[m].pairs = matcher[m].pairs /\ matcher'[m].first = matcher[m].first
  /\ matcher'[m].seen = matcher[m].seen /\ matcher'[m].at = matcher[m].at

LEMMA HandStill ==
  /\ \A x \in Saver : SaverStill(x) => (x \in AtWork' <=> x \in AtWork) /\ InHand(x)' = InHand(x)
  /\ \A m \in Matcher : MatcherStill(m) => (m \in AtWork' <=> m \in AtWork) /\ InHand(m)' = InHand(m)
<1>1. ASSUME NEW x \in Saver, SaverStill(x) PROVE (x \in AtWork' <=> x \in AtWork) /\ InHand(x)' = InHand(x)
  BY <1>1, ProcessAssumption DEF SaverStill, AtWork, InHand
<1>2. ASSUME NEW m \in Matcher, MatcherStill(m) PROVE (m \in AtWork' <=> m \in AtWork) /\ InHand(m)' = InHand(m)
  BY <1>2, ProcessAssumption DEF MatcherStill, AtWork, InHand
<1>. QED BY <1>1, <1>2

\* Whoever is not the one that acts finds its reports as they were.
LEMMA OthersCount ==
  ASSUME CountInv, RowsInv, NEW a, overlap \subseteq overlap',
         \A x \in Saver \ {a} : SaverStill(x), \A m \in Matcher \ {a} : MatcherStill(m),
         \A y \in AtWork \ {a} : \A s \in InHand(y) : s \notin overlap' => AlikeNow(s)
  PROVE  /\ \A x \in Saver \ {a} : Working(x)' => \E u, r : PendInv(x, u, r)'
         /\ \A m \in Matcher \ {a} : matcher'[m].pc = "run" => MatchInv(m)'
<1>1. ASSUME NEW x \in Saver \ {a}, Working(x)' PROVE \E u, r : PendInv(x, u, r)'
  <2>1. SaverStill(x) /\ SaverRows(x) /\ IsTable(rows)
    BY DEF RowsInv, CountInv
  <2>2. Working(x) /\ x \in AtWork
    BY <1>1, <2>1, WorkerAtWork DEF SaverStill, Working
  <2>. PICK u : \E r : PendInv(x, u, r)
    BY <2>2 DEF CountInv
  <2>3. PICK r : PendInv(x, u, r)
    OBVIOUS
  <2>4. InHand(x) = {r}
    BY <2>3 DEF InHand, PendInv
  <2>5. r \notin overlap' => AlikeNow(r)
    BY <2>2, <2>4
  <2>6. Through(x, u)' = Through(x, u)
    BY <2>1 DEF Through, SaverStill
  <2>7. PendInv(x, u, r)'
    BY <2>1, <2>3, <2>5, <2>6, PendKept DEF SaverStill
  <2>. QED BY <2>7
<1>2. ASSUME NEW m \in Matcher \ {a}, matcher'[m].pc = "run" PROVE MatchInv(m)'
  <2>1. MatcherStill(m) /\ MatchInv(m) /\ m \in AtWork
    BY <1>2, WorkerAtWork DEF CountInv, MatcherStill
  <2>2. ASSUME NEW q \in matcher[m].pairs \cup matcher[m].at, q[2][2] \notin overlap'
        PROVE  Alike(rows, rows', q[2][2])
    BY ProcessAssumption, <2>1, <2>2 DEF InHand, AlikeNow
  <2>. QED BY <2>1, <2>2, MatchKept DEF MatcherStill
<1>. QED BY <1>1, <1>2

\* One process at work acts on reports that it has in hand.
LEMMA ActorCounts ==
  ASSUME CountInv, RowsInv, NEW a \in AtWork, overlap' = overlap,
         \A x \in Saver \ {a} : SaverStill(x), \A m \in Matcher \ {a} : MatcherStill(m),
         NEW S, S \subseteq InHand(a), \A s : s \notin S => AlikeNow(s),
         a \in AtWork' => InHand(a)' \subseteq InHand(a),
         IsTable(rows'), CountedProper',
         \A s \in S \ overlap : \A what : Countable(what) => AddsUp(rows, s, what, 0)',
         a \in Saver /\ Working(a)' => \E u, r : PendInv(a, u, r)',
         a \in Matcher /\ matcher'[a].pc = "run" => MatchInv(a)'
  PROVE  CountInv'
<1>1. \A y \in AtWork \ {a} : \A s \in InHand(y) : s \notin overlap' => AlikeNow(s)
  <2>. SUFFICES ASSUME NEW y \in AtWork \ {a}, NEW s \in InHand(y), s \notin overlap' PROVE AlikeNow(s)
    OBVIOUS
  <2>1. InHand(y) \cap InHand(a) \subseteq overlap
    BY DEF CountInv, Apart
  <2>2. s \notin S
    BY <2>1
  <2>. QED BY <2>2
<1>2. /\ \A x \in Saver \ {a} : Working(x)' => \E u, r : PendInv(x, u, r)'
      /\ \A m \in Matcher \ {a} : matcher'[m].pc = "run" => MatchInv(m)'
  BY <1>1, OthersCount
<1>3. Apart'
  <2>1. AtWork' \subseteq AtWork /\ \A x \in AtWork' : InHand(x)' \subseteq InHand(x)
    <3>1. AtWork \subseteq Saver \cup Matcher /\ AtWork' \subseteq Saver \cup Matcher
      BY DEF AtWork
    <3>2. ASSUME NEW x \in AtWork', x # a PROVE x \in AtWork /\ InHand(x)' \subseteq InHand(x)
      BY <3>1, <3>2, HandStill
    <3>. QED BY <3>2
  <2>2. ASSUME NEW x \in AtWork', NEW y \in AtWork', x # y PROVE InHand(x)' \cap InHand(y)' \subseteq overlap'
    BY <2>1, <2>2 DEF CountInv, Apart
  <2>. QED BY <2>2 DEF Apart
<1>4. Even'
  <2>. SUFFICES ASSUME NEW r, NEW what, r \notin overlap', Countable(what) PROVE AddsUp(rows, r, what, 0)'
    BY DEF Even, Countable, What
  <2>1. CASE r \in S
    BY <2>1
  <2>2. CASE r \notin S
    BY <2>2, SumAlike DEF CountInv, Even, AlikeNow, AddsUp
  <2>. QED BY <2>1, <2>2
<1>5. \A p \in Saver : Working(p)' => \E u, r : PendInv(p, u, r)'
  BY <1>2
<1>6. \A m \in Matcher : matcher'[m].pc = "run" => MatchInv(m)'
  BY <1>2
<1>. QED BY <1>3, <1>4, <1>5, <1>6 DEF CountInv, CountedProper

\* A step that writes nothing.
LEMMA QuietCounts ==
  ASSUME CountInv, RowsInv, NEW a \in AtWork, UNCHANGED <<rows, counted, overlap>>,
         \A x \in Saver \ {a} : SaverStill(x), \A m \in Matcher \ {a} : MatcherStill(m),
         a \in AtWork' => InHand(a)' \subseteq InHand(a),
         a \in Saver /\ Working(a)' => \E u, r : PendInv(a, u, r)',
         a \in Matcher /\ matcher'[a].pc = "run" => MatchInv(a)'
  PROVE  CountInv'
<1>1. PICK S : S = {}
  OBVIOUS
<1>2. S \subseteq InHand(a) /\ (\A s : s \notin S => AlikeNow(s)) /\ IsTable(rows') /\ CountedProper'
  BY <1>1 DEF AlikeNow, Alike, CountedProper, CountInv, IsTable
<1>3. \A s \in S \ overlap : \A what : Countable(what) => AddsUp(rows, s, what, 0)'
  BY <1>1
<1>. QED BY <1>2, <1>3, ActorCounts

-----------------------------------------------------------------------------
(* save-reports: one item more is pending, or all of them are written.     *)

\* A row of an item is one of what the item is.
LEMMA RowOfItem ==
  ASSUME NEW item, Proper(item), NEW k, NEW r, k[1] = Table(item), k[2] = r, k[3] = item[2], NEW what, Countable(what)
  PROVE  OfItem(k, r, what) <=> What(item) = what
<1>1. What(item) = what <=> item[1] = what[1] /\ item[2] = what[2]
  BY DEF What, Countable
<1>2. k[1] \in Tables(what[1]) <=> item[1] = what[1]
  BY DEF Table, Tables, Proper, Countable
<1>. QED BY <1>1, <1>2 DEF OfItem

LEMMA DealtMore ==
  ASSUME NEW u, IsSeq(Items(u)), NEW n \in Nat, n + 1 \in DOMAIN Items(u), NEW what
  PROVE  Cardinality(Dealt(u, n + 1, what)) =
           Cardinality(Dealt(u, n, what)) + (IF What(Items(u)[n + 1]) = what THEN 1 ELSE 0)
<1>. DEFINE s == Items(u)
            D == Dealt(u, n, what)
<1>1. DOMAIN s = 1 .. Len(s) /\ Len(s) \in Nat
  <2>. DEFINE R == Range(s)
  <2>1. s \in Seq(R)
    BY DEF IsSeq
  <2>. HIDE DEF R, s
  <2>. QED BY <2>1
<1>2. IsFiniteSet(D) /\ Cardinality(D) \in Nat /\ n + 1 \notin D
  <2>1. IsFiniteSet(1 .. Len(s))
    <3>1. 1 \in Int /\ Len(s) \in Int
      BY <1>1
    <3>. HIDE DEF s
    <3>. QED BY <3>1, FS_Interval
  <2>2. D \subseteq 1 .. Len(s)
    BY <1>1 DEF Dealt
  <2>3. n + 1 \notin D
    BY DEF Dealt
  <2>. QED BY <2>1, <2>2, <2>3, FS_Subset, FS_CardinalityType
<1>3. CASE What(s[n + 1]) = what
  <2>1. Dealt(u, n + 1, what) = D \cup {n + 1}
    BY <1>1, <1>3 DEF Dealt
  <2>. HIDE DEF D
  <2>2. Cardinality(D \cup {n + 1}) = Cardinality(D) + 1
    BY <1>2, FS_AddElement
  <2>. QED BY <1>3, <2>1, <2>2 DEF D
<1>4. CASE What(s[n + 1]) # what
  <2>1. Dealt(u, n + 1, what) = D
    BY <1>1, <1>4 DEF Dealt
  <2>. QED BY <1>2, <1>4, <2>1
<1>. QED BY <1>3, <1>4

\* The items left follow those dealt with.
LEMMA NextItem ==
  ASSUME NEW p \in Saver, SaverRows(p), NEW u, NEW r, PendInv(p, u, r), saver[p].pc = "rows", saver[p].left # <<>>
  PROVE  LET n == Through(p, u) IN
         /\ n \in Nat /\ n + 1 \in DOMAIN Items(u) /\ Head(saver[p].left) = Items(u)[n + 1]
         /\ Len(Tail(saver[p].left)) <= Len(Items(u)) /\ Len(Items(u)) - Len(Tail(saver[p].left)) = n + 1
         /\ \A i \in DOMAIN Tail(saver[p].left) : Tail(saver[p].left)[i] = Items(u)[(n + 1) + i]
<1>. DEFINE s == Items(u)
            t == saver[p].left
<1>1. IsSeq(s) /\ IsSeq(t) /\ t # <<>>
  BY DEF PendInv, ProperItems, SaverRows
<1>2. /\ Len(t) <= Len(s)
      /\ \A i \in DOMAIN t : t[i] = s[Len(s) - Len(t) + i]
      /\ Through(p, u) = Len(s) - Len(t)
  BY DEF PendInv, Through
<1>. HIDE DEF s, t
<1>3. DOMAIN s = 1 .. Len(s) /\ Len(s) \in Nat
  <2>. DEFINE R == Range(s)
  <2>1. s \in Seq(R)
    BY <1>1 DEF IsSeq
  <2>. HIDE DEF R
  <2>. QED BY <2>1
<1>4. /\ DOMAIN t = 1 .. Len(t) /\ Len(t) \in Nat /\ Len(t) >= 1 /\ Head(t) = t[1]
      /\ Len(Tail(t)) = Len(t) - 1 /\ DOMAIN Tail(t) = 1 .. Len(t) - 1
      /\ \A i \in 1 .. Len(t) - 1 : Tail(t)[i] = t[i + 1]
  <2>. DEFINE R == Range(t)
  <2>1. t \in Seq(R)
    BY <1>1 DEF IsSeq
  <2>. HIDE DEF R
  <2>. QED BY <1>1, <2>1
<1>. DEFINE n == Len(s) - Len(t)
<1>5. n \in Nat /\ n + 1 \in DOMAIN s /\ Head(t) = s[n + 1]
  BY <1>2, <1>3, <1>4
<1>6. Len(Tail(t)) <= Len(s) /\ Len(s) - Len(Tail(t)) = n + 1
  <2>. DEFINE l == Len(Tail(t))
  <2>1. l = Len(t) - 1
    BY <1>4
  <2>2. Len(t) <= Len(s) /\ Len(s) \in Nat /\ Len(t) \in Nat
    BY <1>2, <1>3, <1>4
  <2>. HIDE DEF l
  <2>3. l <= Len(s) /\ Len(s) - l = n + 1
    BY <2>1, <2>2
  <2>. QED BY <2>3 DEF l
<1>7. ASSUME NEW i \in DOMAIN Tail(t) PROVE Tail(t)[i] = s[(n + 1) + i]
  <2>1. i \in 1 .. Len(t) - 1 /\ i + 1 \in DOMAIN t
    BY <1>4
  <2>2. Tail(t)[i] = t[i + 1] /\ t[i + 1] = s[n + (i + 1)]
    BY <1>2, <1>4, <2>1
  <2>3. n + (i + 1) = (n + 1) + i
    BY <1>3, <1>4, <2>1
  <2>. QED BY <2>2, <2>3
<1>. QED BY <1>2, <1>5, <1>6, <1>7 DEF s, t

\* One more of an item is pending.
OneMore(p, k) == /\ DOMAIN Pending(p)' = DOMAIN Pending(p) \cup {k} /\ Pending(p)'[k] = Count(Pending(p), k) + 1
                 /\ \A x \in DOMAIN Pending(p) \ {k} : Pending(p)'[x] = Pending(p)[x]

LEMMA AddedOne ==
  ASSUME NEW p \in Saver, SaverRows(p), NEW key, UNCHANGED rows, session'[p].held = session[p].held,
         session'[p].added = Append(session[p].added, <<key, 1>>), Fitting(p)'
  PROVE  Fitting(p) /\ OneMore(p, key)
<1>. DEFINE s == session[p].added
            t == Append(s, <<key, 1>>)
<1>1. /\ DOMAIN s = 1 .. Len(s) /\ Len(s) \in Nat /\ DOMAIN t = 1 .. Len(s) + 1
      /\ \A i \in 1 .. Len(s) : t[i] = s[i]
      /\ t[Len(s) + 1] = <<key, 1>>
  BY AppendParts DEF SaverRows
<1>2. session'[p].added = t
  OBVIOUS
<1>. HIDE DEF t, s
<1>3. <<key, 1>>[1] = key
  OBVIOUS
<1>4. /\ \A i, j \in DOMAIN t : i # j => t[i][1] # t[j][1]
      /\ \A i \in DOMAIN t : t[i][1] \notin DOMAIN rows
      /\ DOMAIN session[p].held \subseteq DOMAIN rows
  BY <1>2 DEF Fitting
<1>5. /\ \A i \in 1 .. Len(s) : i \in DOMAIN t /\ i # Len(s) + 1
      /\ Len(s) + 1 \in DOMAIN t
      /\ \A i \in 1 .. Len(s) + 1 : i \in 1 .. Len(s) \/ i = Len(s) + 1
  BY <1>1
<1>6. Fitting(p)
  BY <1>1, <1>4, <1>5 DEF Fitting, s
<1>7. key \notin DOMAIN rows /\ \A i \in DOMAIN s : s[i][1] # key
  BY <1>1, <1>3, <1>4, <1>5
<1>8. {t[i][1] : i \in DOMAIN t} = {s[i][1] : i \in DOMAIN s} \cup {key}
  <2>1. {t[i][1] : i \in DOMAIN t} \subseteq {s[i][1] : i \in DOMAIN s} \cup {key}
    BY <1>1, <1>3, <1>5
  <2>2. {s[i][1] : i \in DOMAIN s} \subseteq {t[i][1] : i \in DOMAIN t}
    BY <1>1, <1>5
  <2>3. key \in {t[i][1] : i \in DOMAIN t}
    BY <1>1, <1>3, <1>5
  <2>. QED BY <2>1, <2>2, <2>3
<1>. DEFINE A == Inserted(s)
            B == Inserted(t)
            C == Over(session[p].held, rows)
<1>9. DOMAIN B = DOMAIN A \cup {key} /\ (\A x \in DOMAIN A : A[x] = 1) /\ (\A x \in DOMAIN B : B[x] = 1) /\ key \notin DOMAIN A
  BY <1>7, <1>8 DEF Inserted
<1>10. key \notin DOMAIN C
  BY <1>4, <1>7 DEF Over
<1>11. Pending(p) = Over(A, C) /\ Pending(p)' = Over(B, C)
  BY <1>2 DEF Pending, s
<1>. HIDE DEF A, B, C
<1>12. /\ DOMAIN Over(B, C) = DOMAIN Over(A, C) \cup {key} /\ key \notin DOMAIN Over(A, C)
       /\ Over(B, C)[key] = 1 /\ \A x \in DOMAIN Over(A, C) \ {key} : Over(B, C)[x] = Over(A, C)[x]
  BY <1>9, <1>10 DEF Over
<1>13. Over(B, C)[key] = Count(Over(A, C), key) + 1
  BY <1>12 DEF Count
<1>. QED BY <1>6, <1>11, <1>12, <1>13 DEF OneMore

LEMMA HeldOne ==
  ASSUME NEW p \in Saver, NEW k \in DOMAIN rows, UNCHANGED rows, session'[p].added = session[p].added,
         session'[p].held = Put(session[p].held, k, (IF k \in DOMAIN session[p].held THEN session[p].held[k] ELSE rows[k]) + 1),
         Fitting(p)'
  PROVE  Fitting(p) /\ OneMore(p, k)
<1>. DEFINE h == session[p].held
            A == Inserted(session[p].added)
            g == session'[p].held
<1>1. DOMAIN g = DOMAIN h \cup {k} /\ g[k] = (IF k \in DOMAIN h THEN h[k] ELSE rows[k]) + 1 /\ \A x \in DOMAIN h \ {k} : g[x] = h[x]
  BY DEF Put
<1>2. Fitting(p)
  BY <1>1 DEF Fitting
<1>3. k \notin DOMAIN A
  BY DEF Fitting, Inserted
<1>4. Pending(p) = Over(A, Over(h, rows)) /\ Pending(p)' = Over(A, Over(g, rows))
  BY DEF Pending
<1>. HIDE DEF A, h, g
<1>5. /\ DOMAIN Over(g, rows) = DOMAIN Over(h, rows) \cup {k} /\ k \in DOMAIN Over(h, rows)
      /\ Over(g, rows)[k] = Over(h, rows)[k] + 1
      /\ \A x \in DOMAIN Over(h, rows) \ {k} : Over(g, rows)[x] = Over(h, rows)[x]
  BY <1>1 DEF Over
<1>. DEFINE C == Over(h, rows)
            D == Over(g, rows)
<1>6. DOMAIN D = DOMAIN C \cup {k} /\ k \in DOMAIN C /\ D[k] = C[k] + 1 /\ \A x \in DOMAIN C \ {k} : D[x] = C[x]
  BY <1>5
<1>7. Pending(p) = Over(A, C) /\ Pending(p)' = Over(A, D)
  BY <1>4
<1>. HIDE DEF C, D
<1>8. /\ DOMAIN Over(A, D) = DOMAIN Over(A, C) \cup {k} /\ k \in DOMAIN Over(A, C)
      /\ Over(A, D)[k] = Over(A, C)[k] + 1
      /\ \A x \in DOMAIN Over(A, C) \ {k} : Over(A, D)[x] = Over(A, C)[x]
  BY <1>3, <1>6 DEF Over
<1>9. Over(A, D)[k] = Count(Over(A, C), k) + 1
  BY <1>8 DEF Count
<1>. QED BY <1>2, <1>7, <1>8, <1>9 DEF OneMore

LEMMA SeqFinite == ASSUME NEW s, IsSeq(s) PROVE IsFiniteSet(DOMAIN s)
<1>. DEFINE R == Range(s)
<1>1. s \in Seq(R)
  BY DEF IsSeq
<1>. HIDE DEF R
<1>2. DOMAIN s = 1 .. Len(s) /\ 1 \in Int /\ Len(s) \in Int
  BY <1>1
<1>3. IsFiniteSet(1 .. Len(s))
  BY <1>2, FS_Interval
<1>. QED BY <1>2, <1>3

LEMMA CountCounts ==
  ASSUME CountInv, RowsInv, NEW p \in Saver, CountItem(p)
  PROVE  CountInv'
<1>. DEFINE item == Head(saver[p].left)
            table == Table(item)
<1>1. /\ saver[p].pc = "rows" /\ saver[p].left # <<>>
      /\ saver' = [saver EXCEPT ![p].left = Tail(@)]
      /\ UNCHANGED <<rows, matcher, counted, overlap>>
  BY DEF CountItem
<1>2. SaverRows(p) /\ DOMAIN saver = Saver /\ DOMAIN session = Saver
  BY DEF RowsInv
<1>3. Working(p) /\ p \in AtWork
  BY <1>1, WorkerAtWork DEF Working
<1>. PICK u : \E r : PendInv(p, u, r)
  BY <1>3 DEF CountInv
<1>4. PICK r : PendInv(p, u, r)
  OBVIOUS
<1>5. Only(saver[p].report) = r
  BY <1>4, OnlyOne DEF PendInv
<1>. DEFINE found == IF saver[p].isNew THEN {} ELSE Rows(r, item, table)
            held == session[p].held
            key == <<table, r, item[2], item[3]>>
<1>. PICK n : n = Through(p, u)
  OBVIOUS
<1>6. \/ table = "unknown" /\ item[2] \in Foreign /\ UNCHANGED session
      \/ session' = [session EXCEPT ![p].added = Append(@, <<key, 1>>)]
      \/ \E k \in found :
           session' = [session EXCEPT ![p].held = Put(@, k, (IF k \in DOMAIN held THEN held[k] ELSE rows[k]) + 1)]
  BY <1>5 DEF CountItem
<1>7. /\ saver'[p].pc = saver[p].pc /\ saver'[p].u = saver[p].u /\ saver'[p].report = saver[p].report
      /\ saver'[p].left = Tail(saver[p].left) /\ DOMAIN saver' = Saver
      /\ \A x \in Saver \ {p} : saver'[x] = saver[x]
  BY <1>1, <1>2 DEF SaverRows, SaverFields
<1>8. /\ n \in Nat /\ n + 1 \in DOMAIN Items(u) /\ item = Items(u)[n + 1]
      /\ Len(Tail(saver[p].left)) <= Len(Items(u)) /\ Len(Items(u)) - Len(Tail(saver[p].left)) = n + 1
      /\ \A i \in DOMAIN Tail(saver[p].left) : Tail(saver[p].left)[i] = Items(u)[(n + 1) + i]
  BY <1>1, <1>2, <1>4, NextItem
<1>9. Through(p, u)' = n + 1
  BY <1>1, <1>7, <1>8 DEF Through
<1>10. Proper(item) /\ IsSeq(Items(u))
  BY <1>4, <1>8, RangeOf DEF PendInv, ProperItems
<1>11. \A k \in found : k \in DOMAIN rows /\ k[1] = table /\ k[2] = r /\ k[3] = item[2]
  BY DEF Rows
<1>12. key[1] = table /\ key[2] = r /\ key[3] = item[2]
  OBVIOUS
<1>13. IsTable(rows) /\ CountedProper
  BY DEF CountInv
\* What the step leaves in the session.
<1>14. \A x \in Saver \ {p} : session'[x] = session[x]
  BY <1>2, <1>6
<1>. HIDE DEF key, found
<1>15. \/ item[1] = "package" /\ item[2] \in Foreign /\ session'[p] = session[p]
       \/ session'[p].held = held /\ session'[p].added = Append(session[p].added, <<key, 1>>)
       \/ \E k \in found : /\ session'[p].added = session[p].added
                           /\ session'[p].held = Put(held, k, (IF k \in DOMAIN held THEN held[k] ELSE rows[k]) + 1)
  <2>1. CASE table = "unknown" /\ item[2] \in Foreign /\ UNCHANGED session
    BY <1>10, <2>1 DEF Table, Proper
  <2>2. CASE session' = [session EXCEPT ![p].added = Append(@, <<key, 1>>)]
    BY <1>2, <2>2 DEF SaverRows, SessionFields
  <2>3. CASE \E k \in found :
           session' = [session EXCEPT ![p].held = Put(@, k, (IF k \in DOMAIN held THEN held[k] ELSE rows[k]) + 1)]
    <3>1. PICK k \in found :
            session' = [session EXCEPT ![p].held = Put(@, k, (IF k \in DOMAIN held THEN held[k] ELSE rows[k]) + 1)]
      BY <2>3
    <3>2. /\ session'[p].added = session[p].added
          /\ session'[p].held = Put(held, k, (IF k \in DOMAIN held THEN held[k] ELSE rows[k]) + 1)
      BY <1>2, <3>1 DEF SaverRows, SessionFields
    <3>. QED BY <3>1, <3>2
  <2>. QED BY <1>6, <2>1, <2>2, <2>3
<1>16. /\ \A k \in DOMAIN held : k[2] = r /\ held[k] \in Nat
       /\ \A i \in DOMAIN session[p].added : session[p].added[i][1][2] = r
  BY <1>4 DEF PendInv
<1>17. \A k \in DOMAIN session'[p].held : k[2] = r /\ session'[p].held[k] \in Nat
  <2>1. CASE session'[p].held = held
    BY <1>16, <2>1
  <2>2. ASSUME NEW k \in found, session'[p].held = Put(held, k, (IF k \in DOMAIN held THEN held[k] ELSE rows[k]) + 1)
        PROVE  \A x \in DOMAIN session'[p].held : x[2] = r /\ session'[p].held[x] \in Nat
    <3>1. DOMAIN session'[p].held = DOMAIN held \cup {k}
      BY <2>2 DEF Put
    <3>2. session'[p].held[k] \in Nat
      <4>1. (IF k \in DOMAIN held THEN held[k] ELSE rows[k]) \in Nat
        BY <1>11, <1>13, <1>16 DEF IsTable
      <4>. HIDE DEF held
      <4>. QED BY <2>2, <4>1 DEF Put
    <3>3. \A x \in DOMAIN held \ {k} : session'[p].held[x] = held[x]
      BY <2>2 DEF Put
    <3>. HIDE DEF held
    <3>. QED BY <1>11, <1>16, <3>1, <3>2, <3>3
  <2>. QED BY <1>15, <2>1, <2>2
<1>18. \A i \in DOMAIN session'[p].added : session'[p].added[i][1][2] = r
  <2>1. CASE session'[p].added = session[p].added
    BY <1>16, <2>1
  <2>2. CASE session'[p].added = Append(session[p].added, <<key, 1>>)
    <3>. DEFINE s == session[p].added
    <3>1. /\ DOMAIN s = 1 .. Len(s) /\ Len(s) \in Nat /\ DOMAIN Append(s, <<key, 1>>) = 1 .. Len(s) + 1
          /\ \A i \in 1 .. Len(s) : Append(s, <<key, 1>>)[i] = s[i]
          /\ Append(s, <<key, 1>>)[Len(s) + 1] = <<key, 1>>
      BY <1>2, AppendParts DEF SaverRows
    <3>2. \A i \in 1 .. Len(s) + 1 : i \in 1 .. Len(s) \/ i = Len(s) + 1
      BY <3>1
    <3>3. <<key, 1>>[1] = key
      OBVIOUS
    <3>. QED BY <1>12, <1>16, <2>2, <3>1, <3>2, <3>3
  <2>. QED BY <1>15, <2>1, <2>2
<1>19. ASSUME r \notin overlap, Fitting(p)', NEW what, Countable(what)
       PROVE  AddsUp(Pending(p), r, what, Cardinality(Dealt(u, n + 1, what)))'
  <2>1. Cardinality(Dealt(u, n + 1, what)) = Cardinality(Dealt(u, n, what)) + (IF What(item) = what THEN 1 ELSE 0)
    <3>. DEFINE e == item
    <3>1. n \in Nat /\ n + 1 \in DOMAIN Items(u) /\ e = Items(u)[n + 1] /\ IsSeq(Items(u))
      BY <1>8, <1>10
    <3>. HIDE DEF e
    <3>2. Cardinality(Dealt(u, n + 1, what)) = Cardinality(Dealt(u, n, what)) + (IF What(e) = what THEN 1 ELSE 0)
      BY <3>1, DealtMore
    <3>. QED BY <3>2 DEF e
  <2>2. IsTable(Pending(p))
    BY <1>2, <1>13, <1>16, PendingTable
  <2>3. Fitting(p) => AddsUp(Pending(p), r, what, Cardinality(Dealt(u, n, what)))
    BY <1>4, <1>19 DEF PendInv
  <2>4. ASSUME NEW k, Fitting(p), OneMore(p, k), k[1] = table, k[2] = r, k[3] = item[2]
        PROVE  AddsUp(Pending(p), r, what, Cardinality(Dealt(u, n + 1, what)))'
    <3>1. OfItem(k, r, what) <=> What(item) = what
      BY <1>10, <1>19, <2>4, RowOfItem
    <3>. DEFINE T == Pending(p)
                U == Pending(p)'
    <3>2. DOMAIN U = DOMAIN T \cup {k} /\ U[k] = Count(T, k) + 1 /\ \A x \in DOMAIN T \ {k} : U[x] = T[x]
      BY <2>4 DEF OneMore
    <3>. HIDE DEF T, U
    <3>3. \A a, b : Sum(U, a, b) = Sum(T, a, b) + (IF OfItem(k, a, b) THEN 1 ELSE 0)
      <4>1. IsTable(T) /\ 1 \in Nat
        BY <2>2 DEF T
      <4>. QED BY <3>2, <4>1, SumPlus
    <3>4. Sum(U, r, what) = Sum(T, r, what) + (IF What(item) = what THEN 1 ELSE 0)
      BY <3>1, <3>3
    <3>5. Sum(T, r, what) = Count(counted, <<r, what>>) + Cardinality(Dealt(u, n, what))
      BY <2>3, <2>4 DEF AddsUp, T
    <3>6. Count(counted, <<r, what>>) \in Nat /\ Cardinality(Dealt(u, n, what)) \in Nat
      <4>1. IsFiniteSet(Dealt(u, n, what))
        BY <1>10, SeqFinite, FS_Subset DEF Dealt
      <4>. QED BY <1>13, <4>1, FS_CardinalityType DEF Count, CountedProper
    <3>7. Sum(U, r, what) = Count(counted, <<r, what>>) + Cardinality(Dealt(u, n + 1, what))
      <4>. DEFINE c == Count(counted, <<r, what>>)
                  d == Cardinality(Dealt(u, n, what))
                  e == Cardinality(Dealt(u, n + 1, what))
      <4>1. c \in Nat /\ d \in Nat /\ e = d + (IF What(item) = what THEN 1 ELSE 0)
        BY <2>1, <3>6
      <4>2. Sum(U, r, what) = (c + d) + (IF What(item) = what THEN 1 ELSE 0)
        BY <3>4, <3>5
      <4>. HIDE DEF c, d, e, item
      <4>3. Sum(U, r, what) = c + e
        BY <4>1, <4>2
      <4>. QED BY <4>3 DEF c, e
    <3>8. counted' = counted
      BY <1>1
    <3>. QED BY <3>7, <3>8 DEF AddsUp, U
  <2>5. CASE item[1] = "package" /\ item[2] \in Foreign /\ session'[p] = session[p]
    <3>1. What(item) # what
      BY <1>19, <2>5 DEF What, Countable
    <3>2. Fitting(p) /\ Pending(p)' = Pending(p)
      BY <1>1, <1>19, <2>5 DEF Fitting, Pending
    <3>3. Cardinality(Dealt(u, n + 1, what)) = Cardinality(Dealt(u, n, what))
      BY <1>10, SeqFinite, FS_Subset, FS_CardinalityType, <2>1, <3>1 DEF Dealt
    <3>. QED BY <1>1, <2>3, <3>2, <3>3 DEF AddsUp
  <2>6. CASE session'[p].held = held /\ session'[p].added = Append(session[p].added, <<key, 1>>)
    BY <1>1, <1>2, <1>19, <2>6, AddedOne, <1>12, <2>4
  <2>7. ASSUME NEW k \in found, session'[p].added = session[p].added,
               session'[p].held = Put(held, k, (IF k \in DOMAIN held THEN held[k] ELSE rows[k]) + 1)
        PROVE  AddsUp(Pending(p), r, what, Cardinality(Dealt(u, n + 1, what)))'
    BY <1>1, <1>11, <1>19, <2>7, HeldOne, <2>4
  <2>. QED BY <1>15, <2>5, <2>6, <2>7
<1>20. PendInv(p, u, r)'
  <2>1. saver'[p].u = {u} /\ saver'[p].report = {r} /\ ProperItems(Items(u))
    BY <1>4, <1>7 DEF PendInv
  <2>2. /\ Len(saver'[p].left) <= Len(Items(u))
        /\ \A i \in DOMAIN saver'[p].left : saver'[p].left[i] = Items(u)[Len(Items(u)) - Len(saver'[p].left) + i]
    BY <1>7, <1>8
  <2>. QED BY <1>1, <1>9, <1>17, <1>18, <1>19, <2>1, <2>2 DEF PendInv, Countable, What
<1>21. \A x \in Saver \ {p} : SaverStill(x)
  BY <1>7, <1>14 DEF SaverStill
<1>22. \A m \in Matcher \ {p} : MatcherStill(m)
  BY <1>1 DEF MatcherStill
<1>24. InHand(p)' \subseteq InHand(p)
  BY <1>7 DEF InHand
<1>25. (\E a, b : PendInv(p, a, b)') /\ p \notin Matcher
  BY <1>20, ProcessAssumption
<1>. QED BY <1>1, <1>3, <1>21, <1>22, <1>24, <1>25, QuietCounts

\* A process that goes on with what it has pending.
LEMMA GoesOnCounts ==
  ASSUME CountInv, RowsInv, NEW p \in Saver, Working(p), UNCHANGED <<rows, matcher, counted, overlap>>,
         saver'[p].pc \notin {"rows", "idle", "dead"}, saver[p].pc = "rows" => saver[p].left = <<>>,
         saver'[p].u = saver[p].u, saver'[p].report = saver[p].report,
         \A x \in Saver \ {p} : saver'[x] = saver[x] /\ session'[x] = session[x],
         session'[p].held = session[p].held, session'[p].added = session[p].added
  PROVE  CountInv'
<1>1. p \in AtWork /\ SaverRows(p) /\ IsTable(rows) /\ p \notin Matcher
  BY WorkerAtWork, ProcessAssumption DEF RowsInv, CountInv
<1>. PICK u : \E r : PendInv(p, u, r)
  BY DEF CountInv
<1>2. PICK r : PendInv(p, u, r)
  OBVIOUS
<1>3. Through(p, u)' = Through(p, u)
  <2>1. Len(Items(u)) \in Nat
    <3>. DEFINE s == Items(u)
                R == Range(s)
    <3>1. s \in Seq(R)
      BY <1>2 DEF PendInv, ProperItems, IsSeq
    <3>. HIDE DEF R, s
    <3>2. Len(s) \in Nat
      BY <3>1
    <3>. QED BY <3>2 DEF s
  <2>2. Len(<<>>) = 0
    OBVIOUS
  <2>. QED BY <2>1, <2>2 DEF Through
<1>4. AlikeNow(r)
  BY DEF AlikeNow, Alike
<1>5. PendInv(p, u, r)'
  BY <1>1, <1>2, <1>3, <1>4, PendKept
<1>6. \E a, b : PendInv(p, a, b)'
  BY <1>5
<1>7. \A x \in Saver \ {p} : SaverStill(x)
  BY DEF SaverStill
<1>8. \A m \in Matcher \ {p} : MatcherStill(m)
  BY DEF MatcherStill
<1>9. InHand(p)' \subseteq InHand(p)
  BY DEF InHand
<1>. QED BY <1>1, <1>6, <1>7, <1>8, <1>9, QuietCounts

\* A process that gives up has nothing in hand.
LEMMA EndCounts ==
  ASSUME CountInv, RowsInv, NEW p \in Saver, Working(p), UNCHANGED <<rows, matcher, counted, overlap>>,
         saver'[p].pc \in {"idle", "dead"},
         \A x \in Saver \ {p} : saver'[x] = saver[x] /\ session'[x] = session[x]
  PROVE  CountInv'
<1>1. p \in AtWork /\ p \notin Matcher /\ p \notin AtWork' /\ ~Working(p)'
  BY WorkerAtWork, ProcessAssumption DEF AtWork, Working
<1>2. \A x \in Saver \ {p} : SaverStill(x)
  BY DEF SaverStill
<1>3. \A m \in Matcher \ {p} : MatcherStill(m)
  BY DEF MatcherStill
<1>. QED BY <1>1, <1>2, <1>3, QuietCounts

LEMMA StartFramesCounts ==
  ASSUME CountInv, RowsInv, NEW p \in Saver, StartFrames(p)
  PROVE  CountInv'
<1>1. SaverRows(p) /\ DOMAIN saver = Saver /\ DOMAIN session = Saver
  BY DEF RowsInv
<1>2. UNCHANGED <<rows, matcher, counted, overlap>> /\ saver[p].pc = "rows" /\ saver[p].left = <<>>
  BY DEF StartFrames
<1>3. Working(p)
  BY <1>2 DEF Working
<1>5. \/ saver' = [saver EXCEPT ![p] = [NoWork EXCEPT !.pc = "dead"]] /\ session' = [session EXCEPT ![p] = Clean]
      \/ \E pc \in {"flush", "frames"} : \E left : saver' = [saver EXCEPT ![p].pc = pc, ![p].left = left] /\ session' = session
  BY DEF StartFrames
<1>6. CASE saver' = [saver EXCEPT ![p] = [NoWork EXCEPT !.pc = "dead"]] /\ session' = [session EXCEPT ![p] = Clean]
  BY <1>1, <1>6, <1>2, <1>3, EndCounts DEF NoWork
<1>7. CASE \E pc \in {"flush", "frames"} : \E left : saver' = [saver EXCEPT ![p].pc = pc, ![p].left = left] /\ session' = session
  <2>. PICK pc \in {"flush", "frames"} : \E left : saver' = [saver EXCEPT ![p].pc = pc, ![p].left = left] /\ session' = session
    BY <1>7
  <2>1. PICK left : saver' = [saver EXCEPT ![p].pc = pc, ![p].left = left] /\ session' = session
    OBVIOUS
  <2>2. /\ saver'[p].pc = pc /\ saver'[p].u = saver[p].u /\ saver'[p].report = saver[p].report
        /\ \A x \in Saver \ {p} : saver'[x] = saver[x]
    BY <1>1, <2>1 DEF SaverRows, SaverFields
  <2>. QED BY <1>2, <1>3, <2>1, <2>2, GoesOnCounts
<1>. QED BY <1>5, <1>6, <1>7

LEMMA SaveOneCounts ==
  ASSUME CountInv, RowsInv, NEW p \in Saver, SaveOne(p)
  PROVE  CountInv'
<1>1. Gathers(p)
  BY FrameGathers
<1>2. SaverRows(p) /\ DOMAIN saver = Saver /\ DOMAIN session = Saver
  BY DEF RowsInv
<1>3. /\ saver' = [saver EXCEPT ![p].left = Tail(@)] /\ saver[p].pc = "frames"
      /\ UNCHANGED <<rows, matcher, counted, overlap>>
  BY <1>1 DEF Gathers
<1>4. /\ saver'[p].pc = "frames" /\ saver'[p].u = saver[p].u /\ saver'[p].report = saver[p].report
      /\ \A x \in Saver \ {p} : saver'[x] = saver[x]
  BY <1>2, <1>3 DEF SaverRows, SaverFields
<1>5. /\ \A x \in Saver \ {p} : session'[x] = session[x]
      /\ session'[p].held = session[p].held /\ session'[p].added = session[p].added
  <2>1. CASE session' = session
    BY <1>2, <2>1 DEF SaverRows
  <2>2. CASE \E row, order, x, isNew : Puts(p, row, order, x, isNew)
    <3>1. PICK row, order, x, isNew : Puts(p, row, order, x, isNew)
      BY <2>2
    <3>. QED BY <1>2, <3>1, Zenon DEF SaverRows, SessionFields, Puts
  <2>. QED BY <1>1, <2>1, <2>2 DEF Gathers
<1>6. Working(p)
  BY <1>3 DEF Working
<1>. QED BY <1>3, <1>4, <1>5, <1>6, GoesOnCounts

LEMMA EndFramesCounts ==
  ASSUME CountInv, RowsInv, NEW p \in Saver, EndFrames(p)
  PROVE  CountInv'
<1>1. SaverRows(p) /\ DOMAIN saver = Saver /\ DOMAIN session = Saver
  BY DEF RowsInv
<1>2. UNCHANGED <<rows, matcher, counted, overlap>> /\ saver[p].pc = "frames"
  BY DEF EndFrames
<1>3. Working(p)
  BY <1>2 DEF Working
<1>5. CASE saver' = [saver EXCEPT ![p] = [NoWork EXCEPT !.pc = "dead"]] /\ session' = [session EXCEPT ![p] = Clean]
  BY <1>1, <1>5, <1>2, <1>3, EndCounts DEF NoWork
<1>6. CASE saver' = [saver EXCEPT ![p].pc = "flush backtrace"] /\ session' = session
  BY <1>1, <1>6, <1>2, <1>3, GoesOnCounts DEF SaverRows, SaverFields
<1>. QED BY <1>5, <1>6 DEF EndFrames

\* What a flush counts are the items of the uReport, each as often as listed.
CountsWith(u, r) ==
  LET what == {w \in Listed(u) : w[2] \notin Foreign}
  IN Over([x \in {<<r, w>> : w \in what} |-> Count(counted, x) + Times(u, x[2])], counted)

LEMMA ItemsCounted ==
  ASSUME NEW u, NEW r, ProperItems(Items(u)), NEW c, c = CountsWith(u, r), CountedProper
  PROVE  /\ \A what : Countable(what) => Count(c, <<r, what>>) = Count(counted, <<r, what>>) + Times(u, what)
         /\ \A s, what : s # r => Count(c, <<s, what>>) = Count(counted, <<s, what>>)
         /\ \A x \in DOMAIN c : Countable(x[2]) /\ c[x] \in Nat
<1>. DEFINE W == {w \in Listed(u) : w[2] \notin Foreign}
            N == {<<r, w>> : w \in W}
            f == [x \in N |-> Count(counted, x) + Times(u, x[2])]
<1>1. DOMAIN f = N /\ c = Over(f, counted)
  BY DEF CountsWith
<1>2. ASSUME NEW w PROVE f[<<r, w>>] = Count(counted, <<r, w>>) + Times(u, w) \/ w \notin W
  OBVIOUS
<1>3. \A s, w : <<s, w>> \in N <=> s = r /\ w \in W
  OBVIOUS
<1>4. \A x : Count(counted, x) \in Nat
  BY DEF CountedProper, Count
<1>5. \A what : Times(u, what) \in Nat
  <2>. TAKE what
  <2>. DEFINE D == {i \in DOMAIN Items(u) : <<Items(u)[i][1], Items(u)[i][2]>> = what}
  <2>1. IsFiniteSet(DOMAIN Items(u))
    BY SeqFinite DEF ProperItems
  <2>2. IsFiniteSet(D)
    BY <2>1, FS_Subset
  <2>. HIDE DEF D
  <2>3. Cardinality(D) \in Nat
    BY <2>2, FS_CardinalityType
  <2>. QED BY <2>3 DEF D, Times
<1>6. \A what : what \notin Listed(u) => Times(u, what) = 0
  <2>. TAKE what
  <2>. HAVE what \notin Listed(u)
  <2>1. {i \in DOMAIN Items(u) : <<Items(u)[i][1], Items(u)[i][2]>> = what} = {}
    BY DEF Listed
  <2>. QED BY <2>1, FS_EmptySet DEF Times
<1>7. ASSUME NEW w \in W PROVE Countable(w)
  <2>1. PICK i \in DOMAIN Items(u) : w = <<Items(u)[i][1], Items(u)[i][2]>>
    BY DEF Listed
  <2>2. Proper(Items(u)[i])
    BY RangeOf DEF ProperItems
  <2>3. w[1] = Items(u)[i][1] /\ w[2] = Items(u)[i][2]
    BY <2>1
  <2>4. w[1] \notin {"known", "unknown"}
    BY <2>2, <2>3 DEF Proper
  <2>5. What(w) = w
    BY <2>1, <2>3 DEF What
  <2>. QED BY <2>4, <2>5 DEF Countable
<1>. HIDE DEF f, N
<1>8. ASSUME NEW what, Countable(what) PROVE Count(c, <<r, what>>) = Count(counted, <<r, what>>) + Times(u, what)
  <2>1. CASE what \in W
    BY <1>3, <2>1, <1>1, <1>2 DEF Count, Over
  <2>2. CASE what \notin W
    BY <1>3, <1>8, <2>2, <1>1, <1>4, <1>6 DEF Countable, Count, Over
  <2>. QED BY <2>1, <2>2
<1>9. ASSUME NEW s, NEW what, s # r PROVE Count(c, <<s, what>>) = Count(counted, <<s, what>>)
  BY <1>3, <1>9, <1>1 DEF Count, Over
<1>10. ASSUME NEW x \in DOMAIN c PROVE Countable(x[2]) /\ c[x] \in Nat
  <2>1. CASE x \in N
    <3>1. PICK w \in W : x = <<r, w>>
      BY <2>1 DEF N
    <3>2. x[2] = w /\ c[x] = f[<<r, w>>]
      BY <1>1, <2>1, <3>1 DEF Over
    <3>3. f[<<r, w>>] \in Nat
      BY <1>2, <1>4, <1>5
    <3>. QED BY <1>7, <3>2, <3>3
  <2>2. CASE x \notin N
    BY <1>1, <2>2 DEF Over, CountedProper
  <2>. QED BY <2>1, <2>2
<1>. QED BY <1>8, <1>9, <1>10

LEMMA FlushCounts ==
  ASSUME CountInv, RowsInv, NEW p \in Saver, Flush(p)
  PROVE  CountInv'
<1>1. SaverRows(p) /\ DOMAIN saver = Saver /\ DOMAIN session = Saver
  BY DEF RowsInv
<1>2. /\ session' = [session EXCEPT ![p] = Clean] /\ matcher' = matcher /\ overlap' = overlap
      /\ saver[p].pc \in {"flush", "flush backtrace"}
      /\ saver' = [saver EXCEPT ![p] = [NoWork EXCEPT !.pc = "dead"]] \/ saver' = [saver EXCEPT ![p] = NoWork]
  BY DEF Flush
<1>3. \/ rows' = rows /\ counted' = counted
      \/ ~RowsRefused(p) /\ WriteRows(p)
  BY DEF Flush
<1>4. Working(p)
  BY <1>2 DEF Working
<1>5. saver'[p].pc \in {"idle", "dead"} /\ \A x \in Saver \ {p} : saver'[x] = saver[x] /\ session'[x] = session[x]
  <2>1. saver'[p] = [NoWork EXCEPT !.pc = "dead"] \/ saver'[p] = NoWork
    BY <1>1, <1>2
  <2>2. NoWork.pc = "idle" /\ [NoWork EXCEPT !.pc = "dead"].pc = "dead"
    BY DEF NoWork
  <2>3. saver'[p].pc \in {"idle", "dead"}
    BY <2>1, <2>2
  <2>. QED BY <1>1, <1>2, <2>3
<1>6. CASE rows' = rows /\ counted' = counted
  BY <1>2, <1>4, <1>5, <1>6, EndCounts
<1>7. CASE ~RowsRefused(p) /\ WriteRows(p)
  <2>. PICK u : \E r : PendInv(p, u, r)
    BY <1>4 DEF CountInv
  <2>1. PICK r : PendInv(p, u, r)
    OBVIOUS
  <2>2. Only(saver[p].u) = u /\ Only(saver[p].report) = r
    BY <2>1, OnlyOne DEF PendInv
  <2>3. rows' = Pending(p) /\ counted' = CountsWith(u, r)
    BY <1>7, <2>2 DEF WriteRows, Pending, CountsWith
  <2>4. ProperItems(Items(u)) /\ CountedProper /\ IsTable(rows)
    BY <2>1 DEF PendInv, CountInv
  <2>. PICK c : c = counted'
    OBVIOUS
  <2>5. /\ \A what : Countable(what) => Count(c, <<r, what>>) = Count(counted, <<r, what>>) + Times(u, what)
        /\ \A s, what : s # r => Count(c, <<s, what>>) = Count(counted, <<s, what>>)
        /\ \A x \in DOMAIN c : Countable(x[2]) /\ c[x] \in Nat
    BY <2>3, <2>4, ItemsCounted
  <2>6. IsTable(rows')
    BY <1>1, <2>1, <2>3, <2>4, PendingTable DEF PendInv
  <2>7. CountedProper'
    BY <2>5 DEF CountedProper, Countable, What
  <2>8. \A s : s \notin {r} => AlikeNow(s)
    <3>. SUFFICES ASSUME NEW s, s # r PROVE AlikeNow(s)
      OBVIOUS
    <3>1. \A k \in DOMAIN Inserted(session[p].added) : k[2] = r
      BY <2>1 DEF PendInv, Inserted
    <3>2. \A k \in DOMAIN session[p].held : k[2] = r
      BY <2>1 DEF PendInv
    <3>3. Alike(rows, rows', s)
      BY <2>3, <3>1, <3>2 DEF Alike, Pending, Over
    <3>. QED BY <2>5, <3>3 DEF AlikeNow
  <2>9. ASSUME NEW what, Countable(what), r \notin overlap PROVE AddsUp(rows, r, what, 0)'
    <3>1. Fitting(p)
      BY <1>7 DEF RowsRefused, Fitting
    <3>2. Through(p, u) = Len(Items(u))
      BY <1>2 DEF Through
    <3>3. AddsUp(Pending(p), r, what, Cardinality(Dealt(u, Len(Items(u)), what)))
      BY <2>1, <2>9, <3>1, <3>2 DEF PendInv
    <3>4. Dealt(u, Len(Items(u)), what) = {i \in DOMAIN Items(u) : <<Items(u)[i][1], Items(u)[i][2]>> = what}
      <4>. DEFINE s == Items(u)
      <4>1. IsSeq(s)
        BY <2>4 DEF ProperItems
      <4>. HIDE DEF s
      <4>2. \A i \in DOMAIN s : i <= Len(s)
        <5>. DEFINE R == Range(s)
        <5>1. s \in Seq(R)
          BY <4>1 DEF IsSeq
        <5>. HIDE DEF R
        <5>. QED BY <5>1
      <4>. QED BY <4>2 DEF Dealt, What, s
    <3>5. Sum(Pending(p), r, what) = Count(c, <<r, what>>)
      BY <2>5, <2>9, <3>3, <3>4 DEF AddsUp, Times
    <3>6. Count(c, <<r, what>>) \in Nat
      BY <2>5 DEF Count
    <3>7. Sum(rows', r, what) = Count(counted', <<r, what>>) + 0
      BY <2>3, <3>5, <3>6
    <3>. QED BY <3>7 DEF AddsUp
  <2>10. p \in AtWork /\ p \notin Matcher /\ p \notin AtWork' /\ ~Working(p)' /\ {r} \subseteq InHand(p)
    BY <1>4, <1>5, <2>1, WorkerAtWork, ProcessAssumption DEF Working, PendInv, InHand, AtWork
  <2>11. \A x \in Saver \ {p} : SaverStill(x)
    BY <1>5 DEF SaverStill
  <2>12. \A m \in Matcher \ {p} : MatcherStill(m)
    BY <1>2 DEF MatcherStill
  <2>. PICK S : S = {r}
    OBVIOUS
  <2>13. \A s \in S \ overlap : \A what : Countable(what) => AddsUp(rows, s, what, 0)'
    <3>. SUFFICES ASSUME NEW s \in S \ overlap, NEW what, Countable(what) PROVE AddsUp(rows, s, what, 0)'
      BY DEF Countable, What
    <3>. QED BY <2>9
  <2>14. S \subseteq InHand(p) /\ \A s : s \notin S => AlikeNow(s)
    BY <2>8, <2>10
  <2>. QED BY <1>2, <2>6, <2>7, <2>10, <2>11, <2>12, <2>13, <2>14, ActorCounts
<1>. QED BY <1>3, <1>6, <1>7

-----------------------------------------------------------------------------
(* What comes in: whoever else has the reports at hand shares them.        *)
LEMMA ComesIn ==
  ASSUME CountInv, RowsInv, NEW a \in Saver \cup Matcher, a \notin AtWork, UNCHANGED <<rows, counted>>,
         NEW mine, overlap' = overlap \cup Together(a, mine), InHand(a)' \subseteq mine,
         \A x \in Saver \ {a} : SaverStill(x), \A m \in Matcher \ {a} : MatcherStill(m),
         a \in Saver /\ Working(a)' => \E u, r : PendInv(a, u, r)',
         a \in Matcher /\ matcher'[a].pc = "run" => MatchInv(a)'
  PROVE  CountInv'
<1>1. \A r : AlikeNow(r)
  BY DEF AlikeNow, Alike
<1>2. /\ \A x \in Saver \ {a} : Working(x)' => \E u, r : PendInv(x, u, r)'
      /\ \A m \in Matcher \ {a} : matcher'[m].pc = "run" => MatchInv(m)'
  BY <1>1, OthersCount
<1>3. Even'
  BY <1>1, EvenKept DEF CountInv
<1>4. \A x \in (Saver \cup Matcher) \ {a} : (x \in AtWork' <=> x \in AtWork) /\ InHand(x)' = InHand(x)
  BY HandStill
<1>5. AtWork' \subseteq Saver \cup Matcher
  BY DEF AtWork
<1>6. ASSUME NEW x \in AtWork', NEW y \in AtWork', x # y PROVE InHand(x)' \cap InHand(y)' \subseteq overlap'
  <2>1. CASE x # a /\ y # a
    BY <1>4, <1>5, <2>1, <1>6 DEF CountInv, Apart
  <2>2. ASSUME NEW z \in AtWork', z # a PROVE InHand(a)' \cap InHand(z)' \subseteq overlap'
    BY <1>4, <1>5, <2>2 DEF Together
  <2>. QED BY <1>6, <2>1, <2>2
<1>7. Apart'
  BY <1>6 DEF Apart
<1>8. IsTable(rows') /\ CountedProper'
  BY DEF CountInv, IsTable, CountedProper, Countable
<1>9. \A p \in Saver : Working(p)' => \E u, r : PendInv(p, u, r)'
  BY <1>2
<1>10. \A m \in Matcher : matcher'[m].pc = "run" => MatchInv(m)'
  BY <1>2
<1>. QED BY <1>3, <1>7, <1>8, <1>9, <1>10 DEF CountInv

\* Nothing is pending yet.
LEMMA FreshCounts ==
  ASSUME CountInv, NEW p \in Saver, NEW u \in UReport, UNCHANGED <<rows, counted>>, overlap \subseteq overlap', NEW r,
         saver'[p].pc = "rows", saver'[p].u = {Completed(u)}, saver'[p].report = {r},
         saver'[p].left = Items(Completed(u)), session'[p] = Clean
  PROVE  PendInv(p, Completed(u), r)'
<1>. DEFINE full == Completed(u)
            s == Items(full)
<1>1. ProperItems(s)
  BY ItemsProper
<1>2. DOMAIN s = 1 .. Len(s) /\ Len(s) \in Nat
  <2>1. IsSeq(s)
    BY <1>1 DEF ProperItems
  <2>. HIDE DEF s
  <2>. DEFINE R == Range(s)
  <2>2. s \in Seq(R)
    BY <2>1 DEF IsSeq
  <2>. HIDE DEF R
  <2>. QED BY <2>2
<1>3. session'[p].held = <<>> /\ session'[p].added = <<>>
  BY DEF Clean
<1>. HIDE DEF s
<1>4. saver'[p].u = {full} /\ saver'[p].left = s /\ s = Items(full)
  BY DEF s
<1>. HIDE DEF full
<1>5. Len(s) <= Len(s) /\ \A i \in DOMAIN s : s[i] = s[Len(s) - Len(s) + i]
  BY <1>2
<1>6. Through(p, full)' = 0
  BY <1>2, <1>4 DEF Through
<1>7. Alike(rows, Pending(p)', r)
  <2>1. DOMAIN session'[p].added = {} /\ DOMAIN session'[p].held = {}
    BY <1>3
  <2>2. DOMAIN Inserted(session'[p].added) = {}
    BY <2>1 DEF Inserted
  <2>3. DOMAIN Pending(p)' = DOMAIN rows /\ \A k \in DOMAIN rows : Pending(p)'[k] = rows[k]
    BY <2>1, <2>2 DEF Pending, Over
  <2>. QED BY <2>3 DEF Alike
<1>8. ASSUME r \notin overlap', NEW what, Countable(what)
      PROVE  AddsUp(Pending(p), r, what, Cardinality(Dealt(full, Through(p, full), what)))'
  <2>1. AddsUp(rows, r, what, 0)
    BY <1>8 DEF CountInv, Even
  <2>2. Dealt(full, 0, what) = {}
    BY <1>2, <1>4 DEF Dealt
  <2>3. Cardinality(Dealt(full, 0, what)) = 0
    BY <2>2, FS_EmptySet
  <2>4. IsTable(rows)
    BY DEF CountInv
  <2>5. Sum(Pending(p)', r, what) = Sum(rows, r, what)
    BY <1>7, <2>4, SumAlike
  <2>. QED BY <1>6, <2>1, <2>3, <2>5 DEF AddsUp
<1>9. PendInv(p, full, r)'
  <2>1. DOMAIN session'[p].held = {} /\ DOMAIN session'[p].added = {}
    BY <1>3
  <2>. QED BY <1>1, <1>4, <1>5, <1>8, <2>1 DEF PendInv, Countable, What
<1>. QED BY <1>9 DEF full

LEMMA BeginCounts ==
  ASSUME CountInv, RowsInv, SharedInv, NEW p \in Saver, NEW u \in UReport, Begin(p, u)
  PROVE  CountInv'
<1>. DEFINE full == Completed(u)
<1>1. UNCHANGED <<rows, counted, session>> /\ saver[p].pc = "idle"
  BY DEF Begin
<1>2. p \notin AtWork /\ p \notin Matcher /\ session'[p] = Clean
  BY <1>1, WorkerAtWork, ProcessAssumption DEF Working, SharedInv, SaverInv
<1>3. ASSUME UNCHANGED <<matcher, overlap>>, ~Working(p)', \A x \in Saver \ {p} : saver'[x] = saver[x]
      PROVE  CountInv'
  <2>2. \A r : AlikeNow(r)
    BY <1>1 DEF AlikeNow, Alike
  <2>3. /\ \A x \in Saver \ {p} : SaverStill(x)
        /\ \A m \in Matcher \ {p} : MatcherStill(m)
    BY <1>1, <1>3 DEF SaverStill, MatcherStill
  <2>4. /\ \A x \in Saver \ {p} : Working(x)' => \E v, r : PendInv(x, v, r)'
        /\ \A m \in Matcher \ {p} : matcher'[m].pc = "run" => MatchInv(m)'
    BY <1>3, <2>2, <2>3, OthersCount
  <2>5. Even'
    BY <1>3, <2>2, EvenKept DEF CountInv
  <2>6. Apart'
    <3>1. AtWork' \subseteq Saver \cup Matcher /\ p \notin AtWork'
      BY <1>2, <1>3 DEF AtWork, Working
    <3>2. \A x \in (Saver \cup Matcher) \ {p} : (x \in AtWork' <=> x \in AtWork) /\ InHand(x)' = InHand(x)
      BY <2>3, HandStill
    <3>3. ASSUME NEW x \in AtWork', NEW y \in AtWork', x # y PROVE InHand(x)' \cap InHand(y)' \subseteq overlap'
      BY <3>1, <3>2, <3>3, <1>3 DEF CountInv, Apart
    <3>. QED BY <3>3 DEF Apart
  <2>7. IsTable(rows') /\ CountedProper'
    BY <1>1 DEF CountInv, IsTable, CountedProper, Countable
  <2>8. \A x \in Saver : Working(x)' => \E v, r : PendInv(x, v, r)'
    BY <1>3, <2>4
  <2>9. \A m \in Matcher : matcher'[m].pc = "run" => MatchInv(m)'
    BY <1>2, <2>4
  <2>. QED BY <2>5, <2>6, <2>7, <2>8, <2>9 DEF CountInv
<1>4. CASE ~(Valid(full) /\ PackagesValid(full))
  BY <1>4, <1>1, <1>3 DEF Begin, Working
<1>5. CASE Valid(full) /\ PackagesValid(full) /\ HashFails(full)
  <2>1. saver' = [saver EXCEPT ![p].pc = "dead"] /\ UNCHANGED <<matcher, overlap>>
    BY <1>5 DEF Begin
  <2>2. DOMAIN saver = Saver /\ DOMAIN saver[p] = SaverFields
    BY DEF RowsInv, SaverRows
  <2>3. saver'[p].pc = "dead" /\ \A x \in Saver \ {p} : saver'[x] = saver[x]
    BY <2>1, <2>2 DEF SaverFields
  <2>4. ~Working(p)'
    BY <2>3 DEF Working
  <2>. QED BY <1>3, <2>1, <2>3, <2>4
<1>6. CASE Valid(full) /\ PackagesValid(full) /\ ~HashFails(full)
  <2>1. /\ saver' = [NotAlone(p) EXCEPT ![p] =
                         [pc |-> "rows", u |-> {full}, report |-> {Hash(full)}, isNew |-> Hash(full) \notin reports,
                          left |-> Items(full), alone |-> AtWork \ {p} = {}]]
        /\ matcher' = [m \in Matcher |-> [matcher[m] EXCEPT !.alone = FALSE]]
        /\ overlap' = overlap \cup Together(p, {Hash(full)})
    BY <1>6 DEF Begin
  <2>2. \A x \in Saver \ {p} : SaverStill(x)
    <3>. SUFFICES ASSUME NEW x \in Saver \ {p} PROVE SaverStill(x)
      OBVIOUS
    <3>1. saver'[x] = [saver[x] EXCEPT !.alone = @ /\ (x = p \/ saver[x].pc \in {"idle", "dead"})]
      BY <2>1 DEF NotAlone
    <3>2. DOMAIN saver[x] = SaverFields
      BY DEF RowsInv, SaverRows
    <3>. QED BY <1>1, <3>1, <3>2 DEF SaverFields, SaverStill
  <2>3. \A m \in Matcher \ {p} : MatcherStill(m)
    <3>. SUFFICES ASSUME NEW m \in Matcher PROVE MatcherStill(m)
      OBVIOUS
    <3>1. matcher'[m] = [matcher[m] EXCEPT !.alone = FALSE]
      BY <2>1
    <3>2. DOMAIN matcher[m] = MatcherFields
      BY DEF RowsInv, MatcherRows
    <3>. QED BY <3>1, <3>2 DEF MatcherFields, MatcherStill
  <2>4. /\ saver'[p].pc = "rows" /\ saver'[p].u = {full} /\ saver'[p].report = {Hash(full)}
        /\ saver'[p].left = Items(full)
    BY <2>1 DEF NotAlone
  <2>5. InHand(p)' \subseteq {Hash(full)}
    BY <2>4 DEF InHand
  <2>. PICK r : r = Hash(full)
    OBVIOUS
  <2>6. PendInv(p, full, r)'
    BY <1>1, <1>2, <2>1, <2>4, FreshCounts
  <2>7. \E v, s : PendInv(p, v, s)'
    BY <2>6
  <2>. QED BY <1>1, <1>2, <2>1, <2>2, <2>3, <2>5, <2>7, ComesIn
<1>. QED BY <1>4, <1>5, <1>6

-----------------------------------------------------------------------------
(* match-unknown-packages: what is moved stays what it is.                 *)
LEMMA MatchStartCounts ==
  ASSUME CountInv, RowsInv, NEW m \in Matcher, MatchStart(m)
  PROVE  CountInv'
<1>. DEFINE keys == {k \in DOMAIN rows : k[1] = "unknown" /\ k[3] \in packages}
            pairs == {<<k[3], k>> : k \in keys}
            seen == [k \in {q[2] : q \in pairs} |-> rows[k]]
<1>1. UNCHANGED <<rows, counted, session>> /\ matcher[m].pc = "idle" /\ saver' = NotAlone(m)
  BY DEF MatchStart
<1>2. m \notin AtWork /\ m \notin Saver
  BY <1>1, WorkerAtWork, ProcessAssumption
<1>3. matcher' = [x \in Matcher |-> IF x = m THEN [pc |-> "run", pairs |-> pairs, first |-> TRUE,
                                                 seen |-> seen, at |-> {}, alone |-> AtWork = {}]
                                    ELSE [matcher[x] EXCEPT !.alone = FALSE]]
  BY DEF MatchStart
<1>. DEFINE mine == {q[2][2] : q \in pairs}
<1>4. overlap' = overlap \cup Together(m, mine)
  BY DEF MatchStart
<1>5. IsTable(rows)
  BY DEF CountInv
<1>6. \A q \in pairs : PairOf(q) /\ q[2] \in DOMAIN rows
  BY DEF PairOf
<1>7. DOMAIN seen = {q[2] : q \in pairs} /\ \A k \in DOMAIN seen : k \in DOMAIN rows /\ seen[k] = rows[k]
  BY <1>6
<1>8. IsTable(seen)
  <2>1. DOMAIN seen \subseteq DOMAIN rows
    BY <1>7
  <2>. HIDE DEF seen
  <2>2. IsFiniteSet(DOMAIN seen)
    BY <1>5, <2>1, FS_Subset DEF IsTable
  <2>. QED BY <1>5, <1>7, <2>2 DEF IsTable
<1>. HIDE DEF pairs, seen
<1>9. /\ matcher'[m].pc = "run" /\ matcher'[m].pairs = pairs /\ matcher'[m].first = TRUE
      /\ matcher'[m].seen = seen /\ matcher'[m].at = {}
  BY <1>3
<1>10. MatchInv(m)'
  <2>1. \A q \in matcher'[m].pairs \cup matcher'[m].at : PairOf(q) /\ q[2] \in DOMAIN rows'
    BY <1>1, <1>6, <1>9
  <2>2. \A k \in DOMAIN matcher'[m].seen : matcher'[m].seen[k] = rows'[k]
    BY <1>1, <1>7, <1>9
  <2>3. IsTable(matcher'[m].seen) /\ matcher'[m].at = {} /\ DOMAIN matcher'[m].seen = {q[2] : q \in matcher'[m].pairs}
    BY <1>7, <1>8, <1>9
  <2>. QED BY <2>1, <2>2, <2>3 DEF MatchInv
<1>11. InHand(m)' \subseteq mine
  BY <1>2, <1>9 DEF InHand
<1>12. \A x \in Saver \ {m} : SaverStill(x)
  <2>. SUFFICES ASSUME NEW x \in Saver PROVE SaverStill(x)
    OBVIOUS
  <2>1. saver'[x] = [saver[x] EXCEPT !.alone = @ /\ (x = m \/ saver[x].pc \in {"idle", "dead"})]
    BY <1>1 DEF NotAlone
  <2>2. DOMAIN saver[x] = SaverFields
    BY DEF RowsInv, SaverRows
  <2>. QED BY <1>1, <2>1, <2>2 DEF SaverFields, SaverStill
<1>13. \A x \in Matcher \ {m} : MatcherStill(x)
  <2>. SUFFICES ASSUME NEW x \in Matcher \ {m} PROVE MatcherStill(x)
    OBVIOUS
  <2>1. matcher'[x] = [matcher[x] EXCEPT !.alone = FALSE]
    BY <1>3
  <2>2. DOMAIN matcher[x] = MatcherFields
    BY DEF RowsInv, MatcherRows
  <2>. QED BY <2>1, <2>2 DEF MatcherFields, MatcherStill
<1>. HIDE DEF mine
<1>. QED BY <1>1, <1>2, <1>4, <1>10, <1>11, <1>12, <1>13, ComesIn

LEMMA MatchNextCounts ==
  ASSUME CountInv, RowsInv, NEW m \in Matcher, MatchNext(m)
  PROVE  CountInv'
<1>1. MatcherRows(m) /\ DOMAIN matcher = Matcher
  BY DEF RowsInv
<1>2. UNCHANGED <<rows, saver, session, counted, overlap>> /\ matcher[m].pc = "run"
  BY DEF MatchNext
<1>3. PICK q \in matcher[m].pairs :
        \/ matcher' = [matcher EXCEPT ![m] = [NoMatch EXCEPT !.pc = "dead"]]
        \/ /\ matcher[m].first \/ q[2] \in DOMAIN rows
           /\ matcher' = [matcher EXCEPT ![m].pairs = @ \ {q}, ![m].at = {q}, ![m].first = FALSE,
                                         ![m].seen = IF matcher[m].first THEN Over(@, rows) ELSE rows]
  BY Zenon DEF MatchNext
<1>4. \A x \in Matcher \ {m} : MatcherStill(x)
  BY <1>1, <1>3 DEF MatcherStill
<1>5. \A x \in Saver \ {m} : SaverStill(x)
  BY <1>2 DEF SaverStill
<1>6. m \in AtWork /\ m \notin Saver /\ MatchInv(m) /\ IsTable(rows)
  BY <1>2, WorkerAtWork, ProcessAssumption DEF CountInv
<1>7. (m \in AtWork' => InHand(m)' \subseteq InHand(m)) /\ (matcher'[m].pc = "run" => MatchInv(m)')
  <2>1. CASE matcher' = [matcher EXCEPT ![m] = [NoMatch EXCEPT !.pc = "dead"]]
    BY <1>1, <2>1, <1>6 DEF NoMatch, AtWork
  <2>2. CASE /\ matcher[m].first \/ q[2] \in DOMAIN rows
             /\ matcher' = [matcher EXCEPT ![m].pairs = @ \ {q}, ![m].at = {q}, ![m].first = FALSE,
                                           ![m].seen = IF matcher[m].first THEN Over(@, rows) ELSE rows]
    <3>. PICK seen : seen = matcher[m].seen
      OBVIOUS
    <3>1. /\ matcher'[m].pairs = matcher[m].pairs \ {q} /\ matcher'[m].at = {q} /\ matcher'[m].first = FALSE
          /\ matcher'[m].seen = IF matcher[m].first THEN Over(seen, rows) ELSE rows
      BY <1>1, <2>2 DEF MatcherRows, MatcherFields
    <3>2. \A x \in matcher'[m].pairs \cup matcher'[m].at : x \in matcher[m].pairs
      BY <3>1
    <3>3. \A x \in matcher'[m].pairs \cup matcher'[m].at : PairOf(x) /\ (x[2][2] \notin overlap' => x[2] \in DOMAIN rows')
      BY <1>2, <1>6, <3>2 DEF MatchInv
    <3>4. q[2] \in DOMAIN matcher'[m].seen
      <4>1. CASE matcher[m].first
        BY <1>6, <4>1, <3>1 DEF MatchInv, Over
      <4>. QED BY <2>2, <3>1, <4>1
    <3>5. IsTable(matcher'[m].seen)
      <4>1. CASE matcher[m].first
        <5>1. IsTable(seen)
          BY <1>6 DEF MatchInv
        <5>2. IsFiniteSet(DOMAIN seen \cup DOMAIN rows)
          BY <1>6, <5>1, FS_Union DEF IsTable
        <5>3. IsTable(Over(seen, rows))
          BY <1>6, <5>1, <5>2 DEF IsTable, Over
        <5>. QED BY <3>1, <4>1, <5>3
      <4>. QED BY <1>6, <3>1, <4>1
    <3>6. ASSUME q[2][2] \notin overlap PROVE Alike(matcher'[m].seen, rows, q[2][2])
      <4>1. CASE matcher[m].first
        <5>1. \A k \in DOMAIN seen : k[2] = q[2][2] => k \in DOMAIN rows /\ seen[k] = rows[k]
          <6>. SUFFICES ASSUME NEW k \in DOMAIN seen, k[2] = q[2][2] PROVE k \in DOMAIN rows /\ seen[k] = rows[k]
            OBVIOUS
          <6>1. PICK x \in matcher[m].pairs : k = x[2]
            BY <1>6, <4>1 DEF MatchInv
          <6>. QED BY <1>6, <3>6, <4>1, <6>1 DEF MatchInv
        <5>2. Alike(Over(seen, rows), rows, q[2][2])
          BY <5>1 DEF Alike, Over
        <5>. QED BY <3>1, <4>1, <5>2
      <4>2. CASE ~matcher[m].first
        BY <3>1, <4>2 DEF Alike
      <4>. QED BY <4>1, <4>2
    <3>7. MatchInv(m)'
      BY <1>2, <3>1, <3>3, <3>4, <3>5, <3>6 DEF MatchInv
    <3>8. InHand(m)' \subseteq InHand(m)
      BY <1>6, <3>2 DEF InHand
    <3>. QED BY <3>7, <3>8
  <2>. QED BY <1>3, <2>1, <2>2
<1>. QED BY <1>2, <1>4, <1>5, <1>6, <1>7, QuietCounts

\* What is moved from a row to another of the same item.
LEMMA MovedCount ==
  ASSUME NEW T, IsTable(T), NEW y \in DOMAIN T, NEW x, NEW U, NEW r,
         y[1] = "unknown" /\ x[1] = "known" /\ x[2] = y[2] /\ x[3] = y[3],
         U = Put(Without(T, y), x, Count(T, x) + T[y])
  PROVE  IsTable(U) /\ \A s, what : Countable(what) => Sum(U, s, what) = Sum(T, s, what)
<1>. DEFINE V == Without(T, y)
            d == T[y]
<1>1. DOMAIN V = DOMAIN T \ {y} /\ \A k \in DOMAIN V : V[k] = T[k]
  BY DEF Without
<1>2. x # y /\ Count(V, x) = Count(T, x)
  BY <1>1 DEF Count
<1>3. DOMAIN U = DOMAIN V \cup {x} /\ U[x] = Count(V, x) + d /\ \A k \in DOMAIN V \ {x} : U[k] = V[k]
  BY <1>2 DEF Put
<1>4. d \in Nat
  BY DEF IsTable
<1>. HIDE DEF V
<1>5. IsTable(V) /\ \A s, what : Sum(T, s, what) = Sum(V, s, what) + (IF OfItem(y, s, what) THEN d ELSE 0)
  BY <1>1, SumMinus
<1>. HIDE DEF d
<1>6. IsTable(U) /\ \A s, what : Sum(U, s, what) = Sum(V, s, what) + (IF OfItem(x, s, what) THEN d ELSE 0)
  BY ONLY <1>3, <1>4, <1>5, SumPlus
<1>7. ASSUME NEW s, NEW what, Countable(what) PROVE OfItem(x, s, what) <=> OfItem(y, s, what)
  BY <1>7 DEF OfItem, Tables, Countable
<1>. QED BY <1>5, <1>6, <1>7

LEMMA MatchFlushCounts ==
  ASSUME CountInv, RowsInv, SharedInv, NEW m \in Matcher, MatchFlush(m)
  PROVE  CountInv'
<1>1. MatcherRows(m) /\ DOMAIN matcher = Matcher /\ RunInv(m)
  BY DEF RowsInv, SharedInv
<1>2. UNCHANGED <<saver, session, counted, overlap>> /\ matcher[m].at # {} /\ matcher[m].pc = "run"
  BY <1>1 DEF MatchFlush, RunInv
<1>3. m \in AtWork /\ m \notin Saver /\ MatchInv(m) /\ IsTable(rows) /\ CountedProper
  BY <1>2, WorkerAtWork, ProcessAssumption DEF CountInv
<1>. PICK q : q \in matcher[m].at
  BY <1>2
<1>. PICK old : old = matcher[m].seen
  OBVIOUS
<1>. PICK r : r = q[2][2]
  OBVIOUS
<1>4. /\ matcher[m].at = {q} /\ q \notin matcher[m].pairs /\ q[2] \in DOMAIN old /\ PairOf(q)
      /\ IsTable(old) /\ (r \notin overlap => Alike(old, rows, r))
  BY <1>3 DEF MatchInv
<1>5. Only(matcher[m].at) = q
  BY <1>4, OnlyOne
<1>. DEFINE k == <<"known", r, q[1], q[2][4]>>
            existing == {x \in DOMAIN old : x[1] = "known" /\ x[2] = r /\ x[3] = q[1]}
<1>6. \/ matcher' = [matcher EXCEPT ![m] = [NoMatch EXCEPT !.pc = "dead"]] /\ rows' = rows
      \/ /\ \E x \in IF existing = {} THEN {k} ELSE existing :
              rows' = Put(Without(rows, q[2]), x, Count(old, x) + old[q[2]])
         /\ matcher' = [matcher EXCEPT ![m] = IF @.pairs = {} THEN NoMatch ELSE [@ EXCEPT !.at = {}]]
  BY <1>5 DEF MatchFlush
<1>7. \A x \in Matcher \ {m} : MatcherStill(x)
  <2>. HIDE DEF k, existing
  <2>1. \A x \in Matcher \ {m} : matcher'[x] = matcher[x]
    BY <1>1, <1>6
  <2>. QED BY <2>1 DEF MatcherStill
<1>8. \A x \in Saver \ {m} : SaverStill(x)
  BY <1>2 DEF SaverStill
<1>9. CASE matcher' = [matcher EXCEPT ![m] = [NoMatch EXCEPT !.pc = "dead"]] /\ rows' = rows
  BY <1>1, <1>9, <1>3, <1>2, <1>7, <1>8, QuietCounts DEF NoMatch, AtWork
<1>10. ASSUME NEW x, x[1] = "known" /\ x[2] = r /\ x[3] = q[1],
              rows' = Put(Without(rows, q[2]), x, Count(old, x) + old[q[2]]),
              matcher' = [matcher EXCEPT ![m] = IF @.pairs = {} THEN NoMatch ELSE [@ EXCEPT !.at = {}]]
       PROVE  CountInv'
  <2>. HIDE DEF k, existing
  <2>1. q[2][1] = "unknown" /\ q[1] = q[2][3]
    BY <1>4 DEF PairOf
  <2>2. IsTable(rows')
    <3>1. Count(old, x) + old[q[2]] \in Nat
      BY <1>4 DEF IsTable, Count
    <3>2. DOMAIN rows' = (DOMAIN rows \ {q[2]}) \cup {x}
      BY <1>10 DEF Put, Without
    <3>3. IsFiniteSet(DOMAIN rows \ {q[2]})
      BY <1>3, FS_RemoveElement DEF IsTable
    <3>4. IsFiniteSet((DOMAIN rows \ {q[2]}) \cup {x})
      BY <3>3, FS_AddElement
    <3>5. rows'[x] = Count(old, x) + old[q[2]] /\ \A y \in DOMAIN rows \ {q[2], x} : rows'[y] = rows[y]
      BY <1>10 DEF Put, Without
    <3>. QED BY <1>3, <3>1, <3>2, <3>4, <3>5 DEF IsTable
  <2>3. ASSUME NEW s, s # r PROVE AlikeNow(s)
    BY <1>10, <2>3, <1>2 DEF Alike, Put, Without, AlikeNow
  <2>4. ASSUME r \notin overlap, NEW what, Countable(what) PROVE AddsUp(rows, r, what, 0)'
    <3>1. q[2] \in DOMAIN rows /\ old[q[2]] = rows[q[2]] /\ Count(old, x) = Count(rows, x)
      BY <1>4, <1>10, <2>4 DEF Alike, Count
    <3>2. rows' = Put(Without(rows, q[2]), x, Count(rows, x) + rows[q[2]])
      BY <1>10, <3>1
    <3>. PICK y : y = q[2]
      OBVIOUS
    <3>3. /\ y \in DOMAIN rows /\ y[1] = "unknown" /\ x[1] = "known" /\ x[2] = y[2] /\ x[3] = y[3]
          /\ rows' = Put(Without(rows, y), x, Count(rows, x) + rows[y])
      BY <1>10, <2>1, <3>1, <3>2
    <3>. PICK U : U = rows'
      OBVIOUS
    <3>4. U = Put(Without(rows, y), x, Count(rows, x) + rows[y])
      BY <3>3
    <3>5. \A s, w : Countable(w) => Sum(U, s, w) = Sum(rows, s, w)
      BY ONLY <1>3, <3>3, <3>4, MovedCount
    <3>6. AddsUp(rows, r, what, 0)
      BY <2>4 DEF CountInv, Even
    <3>. QED BY <1>2, <2>4, <3>5, <3>6 DEF AddsUp
  <2>5. matcher'[m] = NoMatch \/ matcher'[m] = [matcher[m] EXCEPT !.at = {}]
    BY <1>1, <1>10
  <2>6. (m \in AtWork' => InHand(m)' \subseteq InHand(m)) /\ (matcher'[m].pc = "run" => MatchInv(m)')
    <3>1. CASE matcher'[m] = NoMatch
      BY <3>1, <1>3 DEF NoMatch, AtWork
    <3>2. CASE matcher'[m] = [matcher[m] EXCEPT !.at = {}]
      <4>1. /\ matcher'[m].pairs = matcher[m].pairs /\ matcher'[m].at = {} /\ matcher'[m].first = matcher[m].first
            /\ matcher'[m].seen = old
        BY <1>1, <3>2 DEF MatcherRows, MatcherFields
      <4>2. ASSUME NEW z \in matcher[m].pairs PROVE PairOf(z) /\ (z[2][2] \notin overlap => z[2] \in DOMAIN rows')
        BY <1>3, <1>4, <1>10 DEF MatchInv, PairOf, Put, Without
      <4>3. ~matcher'[m].first
        BY <1>2, <1>3, <4>1 DEF MatchInv
      <4>4. MatchInv(m)'
        BY <1>2, <1>4, <4>1, <4>2, <4>3 DEF MatchInv
      <4>. QED BY <1>3, <4>1, <4>4 DEF InHand
    <3>. QED BY <2>5, <3>1, <3>2
  <2>. PICK S : S = {r}
    OBVIOUS
  <2>7. S \subseteq InHand(m) /\ \A s : s \notin S => AlikeNow(s)
    BY <1>3, <2>3 DEF InHand
  <2>8. \A s \in S \ overlap : \A what : Countable(what) => AddsUp(rows, s, what, 0)'
    <3>. SUFFICES ASSUME NEW s \in S \ overlap, NEW what, Countable(what) PROVE AddsUp(rows, s, what, 0)'
      BY DEF Countable, What
    <3>. QED BY <2>4
  <2>9. CountedProper'
    BY <1>2, <1>3 DEF CountedProper, Countable
  <2>. QED BY <1>2, <1>3, <1>7, <1>8, <2>2, <2>6, <2>7, <2>8, <2>9, ActorCounts
<1>11. k[1] = "known" /\ k[2] = r /\ k[3] = q[1] /\ \A x \in existing : x[1] = "known" /\ x[2] = r /\ x[3] = q[1]
  OBVIOUS
<1>. HIDE DEF k, existing
<1>12. CASE /\ \E x \in IF existing = {} THEN {k} ELSE existing :
                 rows' = Put(Without(rows, q[2]), x, Count(old, x) + old[q[2]])
            /\ matcher' = [matcher EXCEPT ![m] = IF @.pairs = {} THEN NoMatch ELSE [@ EXCEPT !.at = {}]]
  <2>1. PICK x \in IF existing = {} THEN {k} ELSE existing :
          rows' = Put(Without(rows, q[2]), x, Count(old, x) + old[q[2]])
    BY <1>12
  <2>2. x[1] = "known" /\ x[2] = r /\ x[3] = q[1]
    BY <1>11
  <2>. QED BY <1>10, <1>12, <2>1, <2>2
<1>. QED BY <1>6, <1>9, <1>12

-----------------------------------------------------------------------------
LEMMA CountKept ==
  ASSUME CountInv, RowsInv, UNCHANGED <<rows, counted, overlap, saver, session, matcher>>
  PROVE  CountInv'
<1>1. \A r : AlikeNow(r)
  BY DEF AlikeNow, Alike
<1>2. Even'
  BY <1>1, EvenKept DEF CountInv
<1>3. Apart'
  BY DEF AtWork, InHand, CountInv, Apart
<1>4. ASSUME NEW p \in Saver, Working(p)' PROVE \E u, r : PendInv(p, u, r)'
  <2>1. Working(p) /\ SaverRows(p) /\ IsTable(rows)
    BY <1>4 DEF Working, RowsInv, CountInv
  <2>. PICK u : \E r : PendInv(p, u, r)
    BY <2>1 DEF CountInv
  <2>2. PICK r : PendInv(p, u, r)
    OBVIOUS
  <2>3. Through(p, u)' = Through(p, u)
    BY DEF Through
  <2>4. PendInv(p, u, r)'
    BY <1>1, <2>1, <2>2, <2>3, PendKept
  <2>. QED BY <2>4
<1>5. ASSUME NEW m \in Matcher, matcher'[m].pc = "run" PROVE MatchInv(m)'
  BY <1>5, <1>1, MatchKept DEF CountInv, AlikeNow
<1>6. IsTable(rows') /\ CountedProper'
  BY DEF CountInv, IsTable, CountedProper, Countable
<1>. QED BY <1>2, <1>3, <1>4, <1>5, <1>6 DEF CountInv

LEMMA InitCounts == ASSUME Init PROVE CountInv
<1>1. RowsInit({})
  BY DEF Init
<1>2. DOMAIN rows = {} /\ DOMAIN counted = {}
  BY <1>1 DEF RowsInit
<1>3. saver = [p \in Saver |-> NoWork] /\ matcher = [m \in Matcher |-> NoMatch]
  BY <1>1 DEF RowsInit
<1>4. /\ \A p \in Saver : ~Working(p)
      /\ \A m \in Matcher : matcher[m].pc # "run"
  BY <1>3 DEF NoWork, NoMatch, Working
<1>5. AtWork = {}
  BY <1>4, WorkerAtWork
<1>6. IsTable(rows)
  BY <1>2, FS_EmptySet DEF IsTable
<1>7. ASSUME NEW r, NEW what PROVE AddsUp(rows, r, what, 0)
  <2>1. {k \in DOMAIN rows : OfItem(k, r, what)} = {}
    BY <1>2
  <2>2. Sum(rows, r, what) = 0
    BY <2>1, TotalNone DEF Sum
  <2>3. Count(counted, <<r, what>>) = 0
    BY <1>2 DEF Count
  <2>. QED BY <2>2, <2>3 DEF AddsUp
<1>. QED BY <1>2, <1>4, <1>5, <1>6, <1>7 DEF CountInv, Apart, Even, CountedProper

LEMMA NextCounts ==
  ASSUME RowsInv, SharedInv, CountInv, [Next]_vars
  PROVE  CountInv'
<1>1. ASSUME NEW p \in Saver, SaverStep(p) PROVE CountInv'
  <2>1. CASE FedoraCount(p) \/ CentosCount(p)
    BY <2>1, CountCounts DEF FedoraCount, CentosCount
  <2>2. CASE SaveOne(p)
    BY <2>2, SaveOneCounts
  <2>. QED BY <1>1, <2>1, <2>2, StartFramesCounts, EndFramesCounts, FlushCounts DEF SaverStep, SaveOne
<1>2. CASE Run
  BY <1>1, <1>2, MatchNextCounts, MatchFlushCounts DEF Run
<1>3. CASE Incoming
  <2>1. ASSUME NEW p \in Saver, NEW u \in UReport, Begin(p, u) PROVE CountInv'
    BY <2>1, BeginCounts
  <2>2. ASSUME NEW m \in Matcher, MatchStart(m) PROVE CountInv'
    BY <2>2, MatchStartCounts
  <2>3. ASSUME NEW k \in DOMAIN BuildOf \ Foreign, AddPackage(k) PROVE CountInv'
    BY <2>3, CountKept DEF AddPackage
  <2>. QED BY <1>3, <2>1, <2>2, <2>3 DEF Incoming
<1>4. CASE UNCHANGED rowVars
  BY <1>4, CountKept DEF rowVars
<1>5. Mark => UNCHANGED rowVars
  BY Zenon DEF Mark, FixStart, FixStep, FixRelease, FixProblem, FixFlush, AssignProblem, RemoveProblem, NewBuild, serverVars
<1>6. Serve \/ FileAway => UNCHANGED <<serverVars, fixVars>>
  BY ServeKeeps
<1>. QED BY <1>2, <1>3, <1>4, <1>5, <1>6 DEF Next, vars, serverVars

\* However processes that save uReports, packages that become known and runs
\* that match them interleave, the rows of each item of a report that no two of
\* them had in hand add up to the number of times it was listed (fedora.py and
\* centos.py, _save_packages; match_unknown_packages.py, run).
THEOREM CountsKeptAlways == Spec => []CountsKept
<1>1. Init => RowsInv /\ SharedInv /\ CountInv
  BY InitRows, InitShared, InitCounts
<1>2. RowsInv /\ SharedInv /\ CountInv /\ [Next]_vars => RowsInv' /\ SharedInv' /\ CountInv'
  BY NextRows, NextShared, NextCounts
<1>3. CountInv => CountsKept
  <2>. SUFFICES ASSUME CountInv, NEW r \in reports \ overlap, NEW what \in {k[2] : k \in DOMAIN counted}
                PROVE  MapThenSumSet(LAMBDA k : rows[k], RowsOfItem(r, what)) = Count(counted, <<r, what>>)
    BY DEF CountsKept
  <2>1. IsTable(rows) /\ Countable(what) /\ Count(counted, <<r, what>>) \in Nat
    BY DEF CountInv, CountedProper, Count
  <2>2. AddsUp(rows, r, what, 0)
    BY <2>1 DEF CountInv, Even
  <2>. DEFINE S == RowsOfItem(r, what)
  <2>3. S = {k \in DOMAIN rows : OfItem(k, r, what)}
    BY DEF RowsOfItem, OfItem
  <2>4. IsFiniteSet(S) /\ \A k \in S : rows[k] \in Nat
    BY <2>1, <2>3, FS_Subset DEF IsTable
  <2>. HIDE DEF S
  <2>5. MapThenSumSet(LAMBDA k : rows[k], S) = Total(rows, S)
    BY <2>4, TotalOf
  <2>6. Total(rows, S) = Count(counted, <<r, what>>)
    BY <2>1, <2>2, <2>3 DEF AddsUp, Sum
  <2>. QED BY <2>5, <2>6 DEF S
<1>. QED BY <1>1, <1>2, <1>3, PTL DEF Spec

-----------------------------------------------------------------------------
(* The frames of a uReport in the turn in which they are stored.            *)

LEMMA NoTwiceConcat ==
  ASSUME NEW s, NEW t, IsSeq(s), IsSeq(t), NoTwice(s), NoTwice(t), Range(s) \cap Range(t) = {}
  PROVE  NoTwice(s \o t)
<1>1. /\ DOMAIN s = 1 .. Len(s) /\ Len(s) \in Nat /\ DOMAIN t = 1 .. Len(t) /\ Len(t) \in Nat
      /\ DOMAIN (s \o t) = 1 .. Len(s) + Len(t)
      /\ \A i \in 1 .. Len(s) + Len(t) : (s \o t)[i] = IF i <= Len(s) THEN s[i] ELSE t[i - Len(s)]
  <2>. DEFINE A == Range(s)
              B == Range(t)
  <2>1. s \in Seq(A) /\ t \in Seq(B)
    BY DEF IsSeq
  <2>. HIDE DEF A, B
  <2>2. s \in Seq(A \cup B) /\ t \in Seq(A \cup B)
    BY <2>1
  <2>. QED BY <2>2
<1>2. ASSUME NEW a \in DOMAIN s, NEW b \in DOMAIN t, s[a] = t[b] PROVE FALSE
  BY RangeOf, <1>2
<1>3. ASSUME NEW i \in DOMAIN (s \o t), NEW j \in DOMAIN (s \o t), i # j, (s \o t)[i] = (s \o t)[j] PROVE FALSE
  <2>1. i \in 1 .. Len(s) + Len(t) /\ j \in 1 .. Len(s) + Len(t)
    BY <1>1
  <2>2. CASE i <= Len(s) /\ j <= Len(s)
    BY <1>1, <1>3, <2>1, <2>2 DEF NoTwice
  <2>3. CASE ~(i <= Len(s)) /\ ~(j <= Len(s))
    BY <1>1, <1>3, <2>1, <2>3 DEF NoTwice
  <2>4. CASE i <= Len(s) /\ ~(j <= Len(s))
    BY <1>1, <1>3, <2>1, <2>4, <1>2
  <2>5. CASE ~(i <= Len(s)) /\ j <= Len(s)
    BY <1>1, <1>3, <2>1, <2>5, <1>2
  <2>. QED BY <2>2, <2>3, <2>4, <2>5
<1>. QED BY <1>3 DEF NoTwice

\* FlattenSeq puts one sequence behind the other: g[n] is what it has after n.
IsFlat(ss, n, g) == g = [i \in 1 .. n |-> IF i = 1 THEN ss[i] ELSE g[i - 1] \o ss[i]]

LEMMA FlatExists ==
  ASSUME NEW ss, NEW n \in Nat
  PROVE  \E g : IsFlat(ss, n, g)
<1>. DEFINE T == {m \in Nat : ~ \E g : IsFlat(ss, m, g)}
<1>. SUFFICES ASSUME T # {} PROVE FALSE
  OBVIOUS
<1>1. PICK m \in T : \A k \in T : m <= k
  BY Least
<1>2. m # 0
  <2>. DEFINE e == [i \in 1 .. 0 |-> IF i = 1 THEN ss[i] ELSE ss[i - 1] \o ss[i]]
  <2>1. IsFlat(ss, 0, e)
    BY DEF IsFlat
  <2>. HIDE DEF e
  <2>. QED BY <2>1
<1>3. m - 1 \in Nat /\ m - 1 \notin T
  BY <1>1, <1>2
<1>4. PICK g : IsFlat(ss, m - 1, g)
  BY <1>3
<1>. DEFINE h == [i \in 1 .. m |-> IF i = 1 THEN ss[i] ELSE g[i - 1] \o ss[i]]
<1>5. \A i \in 1 .. m - 1 : h[i] = g[i]
  <2>1. \A i \in 1 .. m - 1 : g[i] = IF i = 1 THEN ss[i] ELSE g[i - 1] \o ss[i]
    BY <1>4 DEF IsFlat
  <2>. QED BY <1>3, <2>1
<1>6. \A i \in 1 .. m : i # 1 => h[i - 1] = g[i - 1]
  <2>. HIDE DEF h
  <2>. QED BY <1>3, <1>5
<1>7. h = [i \in 1 .. m |-> IF i = 1 THEN ss[i] ELSE h[i - 1] \o ss[i]]
  BY <1>6
<1>. HIDE DEF h
<1>8. IsFlat(ss, m, h)
  BY <1>7 DEF IsFlat
<1>. QED BY <1>1, <1>8

LEMMA FlatOf ==
  ASSUME NEW ss, Len(ss) \in Nat \ {0}
  PROVE  \E g : IsFlat(ss, Len(ss), g) /\ FlattenSeq(ss) = g[Len(ss)]
<1>. DEFINE R(g) == g = [i \in 1 .. Len(ss) |-> IF i = 1 THEN ss[i] ELSE g[i - 1] \o ss[i]]
            r == CHOOSE g : R(g)
<1>1. FlattenSeq(ss) = r[Len(ss)]
  BY DEF FlattenSeq
<1>2. \E g : IsFlat(ss, Len(ss), g)
  BY FlatExists
<1>3. \A g : R(g) <=> IsFlat(ss, Len(ss), g)
  BY DEF IsFlat
<1>. HIDE DEF R
<1>4. R(r)
  BY <1>2, <1>3
<1>. HIDE DEF r
<1>5. IsFlat(ss, Len(ss), r)
  BY <1>3, <1>4
<1>. QED BY <1>1, <1>5

SomeTurns(u, n) == UNION {{<<t, i>> : i \in DOMAIN u.threads[t].frames} : t \in 1 .. n}

LEMMA SeqIs ==
  ASSUME NEW s, IsSeq(s)
  PROVE  Len(s) \in Nat /\ DOMAIN s = 1 .. Len(s)
<1>. DEFINE T == Range(s)
<1>1. s \in Seq(T)
  BY DEF IsSeq
<1>. HIDE DEF T
<1>. QED BY <1>1

LEMMA SeqMade ==
  ASSUME NEW n \in Nat, NEW s, DOMAIN s = 1 .. n, s = [i \in 1 .. n |-> s[i]]
  PROVE  IsSeq(s) /\ Len(s) = n
<1>. DEFINE T == Range(s)
<1>1. \A i \in 1 .. n : s[i] \in T
  BY RangeOf
<1>. HIDE DEF T
<1>2. s \in Seq(T) /\ Len(s) = n
  BY <1>1
<1>. QED BY <1>2 DEF T, IsSeq

LEMMA TurnsOfThread ==
  ASSUME NEW u, Framed(u), NEW t \in DOMAIN u.threads
  PROVE  LET s == [i \in DOMAIN u.threads[t].frames |-> <<t, i>>] IN
         /\ IsSeq(s) /\ NoTwice(s) /\ Range(s) = {<<t, i>> : i \in DOMAIN u.threads[t].frames}
<1>. DEFINE s == [i \in DOMAIN u.threads[t].frames |-> <<t, i>>]
            n == Len(u.threads[t].frames)
<1>1. DOMAIN u.threads[t].frames = 1 .. n /\ n \in Nat
  BY SeqIs DEF Framed
<1>2. DOMAIN s = 1 .. n /\ s = [i \in 1 .. n |-> s[i]]
  BY <1>1
<1>3. NoTwice(s)
  BY DEF NoTwice
<1>4. Range(s) = {<<t, i>> : i \in DOMAIN u.threads[t].frames}
  BY DEF Range
<1>. HIDE DEF s, n
<1>5. IsSeq(s)
  BY <1>1, <1>2, SeqMade
<1>. QED BY <1>3, <1>4, <1>5 DEF s

LEMMA TurnsOf ==
  ASSUME NEW u, Framed(u)
  PROVE  IsSeq(InTurn(u)) /\ NoTwice(InTurn(u)) /\ Range(InTurn(u)) = Positions(u)
<1>. DEFINE ss == [t \in Threads(u) |-> [i \in DOMAIN u.threads[t].frames |-> <<t, i>>]]
            l == Len(u.threads)
<1>1. l \in Nat /\ Threads(u) = 1 .. l
  BY SeqIs DEF Framed, Threads
<1>2. DOMAIN ss = 1 .. l /\ ss = [t \in 1 .. l |-> ss[t]]
  BY <1>1
<1>3. \A t \in 1 .. l : /\ IsSeq(ss[t]) /\ NoTwice(ss[t])
                        /\ Range(ss[t]) = {<<t, i>> : i \in DOMAIN u.threads[t].frames}
  BY <1>1, TurnsOfThread, ZenonT(40) DEF Threads
<1>4. InTurn(u) = FlattenSeq(ss)
  BY DEF InTurn
<1>5. Positions(u) = SomeTurns(u, l)
  BY <1>1 DEF Positions, SomeTurns
<1>. HIDE DEF ss, l
<1>6. Len(ss) = l
  BY <1>1, <1>2, SeqMade
<1>7. CASE l = 0
  <2>1. FlattenSeq(ss) = ss
    BY <1>6, <1>7 DEF FlattenSeq
  <2>2. DOMAIN ss = {} /\ Positions(u) = {}
    BY <1>2, <1>5, <1>7 DEF SomeTurns
  <2>3. IsSeq(ss) /\ NoTwice(ss) /\ Range(ss) = {}
    BY <1>1, <1>2, <2>2, SeqMade DEF NoTwice, Range
  <2>. QED BY <1>4, <2>1, <2>2, <2>3
<1>8. CASE l # 0
  <2>1. PICK g : IsFlat(ss, l, g) /\ FlattenSeq(ss) = g[l]
    BY <1>1, <1>6, <1>8, FlatOf
  <2>2. \A i \in 1 .. l : g[i] = IF i = 1 THEN ss[i] ELSE g[i - 1] \o ss[i]
    BY <2>1 DEF IsFlat
  <2>. DEFINE Good(n) == IsSeq(g[n]) /\ NoTwice(g[n]) /\ Range(g[n]) = SomeTurns(u, n)
              T == {n \in 1 .. l : ~Good(n)}
  <2>3. T = {}
    <3>. SUFFICES ASSUME T # {} PROVE FALSE
      OBVIOUS
    <3>1. T \subseteq Nat
      BY <1>1
    <3>2. PICK n \in T : \A m \in T : n <= m
      BY <3>1, Least
    <3>3. n \in 1 .. l /\ n \in Nat /\ ~Good(n)
      BY <1>1, <3>2
    <3>4. CASE n = 1
      BY <2>2, <3>3, <3>4, <1>3 DEF SomeTurns
    <3>5. CASE n # 1
      <4>1. n - 1 \in 1 .. l /\ n - 1 \notin T
        BY <1>1, <3>2, <3>3, <3>5
      <4>2. Good(n - 1)
        BY <4>1
      <4>3. g[n] = g[n - 1] \o ss[n]
        BY <2>2, <3>3, <3>5
      <4>4. SomeTurns(u, n) = SomeTurns(u, n - 1) \cup Range(ss[n])
        BY <3>3, <3>5, <1>3 DEF SomeTurns
      <4>5. SomeTurns(u, n - 1) \cap Range(ss[n]) = {}
        <5>1. \A at \in SomeTurns(u, n - 1) : at[1] \in 1 .. n - 1
          BY DEF SomeTurns
        <5>2. \A at \in Range(ss[n]) : at[1] = n
          BY <1>3, <3>3
        <5>3. n \notin 1 .. n - 1
          BY <3>3
        <5>. QED BY <5>1, <5>2, <5>3
      <4>. HIDE DEF T
      <4>6. IsSeq(g[n]) /\ Range(g[n]) = SomeTurns(u, n) /\ NoTwice(g[n])
        BY <1>3, <3>3, <4>2, <4>3, <4>4, <4>5, SeqConcat, NoTwiceConcat
      <4>. QED BY <3>3, <4>6
    <3>. QED BY <3>4, <3>5
  <2>4. Good(l)
    BY <1>1, <1>8, <2>3
  <2>. QED BY <1>4, <1>5, <2>1, <2>4
<1>. QED BY <1>7, <1>8

-----------------------------------------------------------------------------
(* What a uReport that was begun is like.                                   *)

LEMMA PositionOf ==
  ASSUME NEW u, NEW at \in Positions(u)
  PROVE  at[1] \in Threads(u) /\ at[2] \in DOMAIN u.threads[at[1]].frames /\ at = <<at[1], at[2]>>
BY DEF Positions

\* What the assumption says of a frame of a uReport that comes in.
Raw(u, f) ==
  /\ f \in ReportedFrame
  /\ \A m, n \in f.fn : m = n
  /\ f.mark = "special" => u.type \in {"python", "ruby"}
  /\ u.type = "kerneloops" => \A a \in f.at : a < 2 * Half
  /\ u.type = "core" => f.build \cap Versions = {}

LEMMA RawFrames ==
  ASSUME NEW u \in UReport
  PROVE  /\ {"type", "threads", "version"} \subseteq DOMAIN u
         /\ u.type \in Types /\ u.threads \in Seq([crash : BOOLEAN, frames : Seq(ReportedFrame)])
         /\ Framed(u) /\ (u.type \in OneThread => Threads(u) \subseteq {1})
         /\ \A t \in Threads(u) : \A i \in DOMAIN u.threads[t].frames : Raw(u, u.threads[t].frames[i])
<1>1. /\ {"type", "threads", "version"} \subseteq DOMAIN u
      /\ u.type \in Types /\ u.threads \in Seq([crash : BOOLEAN, frames : Seq(ReportedFrame)])
      /\ u.type \in OneThread => Len(u.threads) = 1
  BY FramesAssumption, UReportAssumption DEF Types, OneThread
<1>2. \A t \in Threads(u) : u.threads[t].frames \in Seq(ReportedFrame)
  <2>. DEFINE F == Seq(ReportedFrame)
              T == [crash : BOOLEAN, frames : F]
  <2>1. u.threads \in Seq(T)
    BY <1>1
  <2>2. \A x \in T : x.frames \in F
    OBVIOUS
  <2>. HIDE DEF F, T
  <2>3. \A t \in Threads(u) : u.threads[t] \in T
    BY <2>1 DEF Threads
  <2>4. \A t \in Threads(u) : u.threads[t].frames \in F
    BY <2>2, <2>3
  <2>. QED BY <2>4 DEF F
<1>3. Framed(u)
  BY <1>1, <1>2, SeqOver DEF Framed, Threads
<1>4. ASSUME NEW t \in Threads(u), NEW i \in DOMAIN u.threads[t].frames
      PROVE  Raw(u, u.threads[t].frames[i])
  <2>1. u.threads[t].frames[i] \in ReportedFrame
    BY <1>2
  <2>2. <<t, i>> \in Positions(u) /\ FrameAt(u, <<t, i>>) = u.threads[t].frames[i]
    BY DEF Positions, FrameAt
  <2>. DEFINE f == FrameAt(u, <<t, i>>)
  <2>3. /\ \A m, n \in f.fn : m = n
        /\ f.mark = "special" => u.type \in {"python", "ruby"}
        /\ u.type = "kerneloops" => \A a \in f.at : a < 2 * Half
        /\ u.type = "core" => \A v \in UReport : v.type = "kerneloops" => v.version \notin f.build
    BY <2>2, FramesAssumption
  <2>. HIDE DEF f
  <2>4. u.type = "core" => f.build \cap Versions = {}
    BY <2>3 DEF Versions
  <2>. QED BY <2>1, <2>2, <2>3, <2>4 DEF Raw, f
<1>5. u.type \in OneThread => Threads(u) \subseteq {1}
  BY <1>1 DEF Threads
<1>. QED BY <1>1, <1>3, <1>4, <1>5

\* A uReport whose threads were given other frames, as many as they had.
LEMMA CompletedThreads ==
  ASSUME NEW u, NEW v, NEW c, Framed(u), DOMAIN v.threads = Threads(u),
         v.threads = [t \in Threads(u) |-> v.threads[t]],
         \A t \in Threads(u) : /\ v.threads[t].frames = c[t]
                               /\ DOMAIN c[t] = DOMAIN u.threads[t].frames
                               /\ c[t] = [i \in DOMAIN u.threads[t].frames |-> c[t][i]]
  PROVE  Framed(v) /\ Threads(v) = Threads(u)
<1>1. Len(u.threads) \in Nat /\ Threads(u) = 1 .. Len(u.threads)
  BY SeqIs DEF Framed, Threads
<1>. PICK T : T = v.threads
  OBVIOUS
<1>2. DOMAIN T = 1 .. Len(u.threads) /\ T = [t \in 1 .. Len(u.threads) |-> T[t]]
  BY <1>1
<1>3. IsSeq(T)
  BY <1>1, <1>2, SeqMade
<1>4. ASSUME NEW t \in Threads(u) PROVE IsSeq(c[t])
  <2>1. IsSeq(u.threads[t].frames)
    BY DEF Framed, Threads
  <2>2. DOMAIN c[t] = 1 .. Len(u.threads[t].frames) /\ Len(u.threads[t].frames) \in Nat
    BY <2>1, SeqIs
  <2>3. c[t] = [i \in 1 .. Len(u.threads[t].frames) |-> c[t][i]]
    BY <2>2
  <2>. QED BY <2>2, <2>3, SeqMade
<1>. QED BY <1>3, <1>4 DEF Framed, Threads

LEMMA CoreFrame ==
  ASSUME NEW frames, NEW i \in DOMAIN frames, frames[i] \in ReportedFrame
  PROVE  LET f == CoreCompleted(frames)[i] IN
         /\ f.at = frames[i].at /\ f.mark = frames[i].mark /\ f.build = frames[i].build
         /\ f.fn = frames[i].fn \/ f.fn = {"anonymous function"}
<1>1. \E path, fn : /\ CoreCompleted(frames)[i] = [frames[i] EXCEPT !.path = path, !.fn = fn]
                    /\ fn = frames[i].fn \/ fn = {"anonymous function"}
  BY Zenon DEF CoreCompleted
<1>. QED BY <1>1 DEF ReportedFrame

LEMMA CoreDomain ==
  ASSUME NEW frames
  PROVE  /\ DOMAIN CoreCompleted(frames) = DOMAIN frames
         /\ CoreCompleted(frames) = [i \in DOMAIN frames |-> CoreCompleted(frames)[i]]
BY DEF CoreCompleted

LEMMA OopsFrame ==
  ASSUME NEW frames, NEW i \in DOMAIN frames, frames[i] \in ReportedFrame
  PROVE  LET f == OopsCompleted(frames)[i] IN
         /\ f.at = frames[i].at /\ f.mark = frames[i].mark /\ f.build = frames[i].build
         /\ f.fn = frames[i].fn \/ f.fn = {"_unknown_"}
BY DEF OopsCompleted, Each, ReportedFrame

LEMMA OopsDomain ==
  ASSUME NEW frames
  PROVE  /\ DOMAIN OopsCompleted(frames) = DOMAIN frames
         /\ OopsCompleted(frames) = [i \in DOMAIN frames |-> OopsCompleted(frames)[i]]
BY DEF OopsCompleted, Each

\* What the checks of a problem type ensure of each frame.
LEMMA ValidFrames ==
  ASSUME NEW v, Valid(v), v.type \in Types, v.type \in OneThread => Threads(v) \subseteq {1},
         NEW t \in Threads(v), NEW i \in DOMAIN v.threads[t].frames
  PROVE  /\ v.type # "core" => v.threads[t].frames[i].fn # {}
         /\ v.type = "core" => v.threads[t].frames[i].at # {}
<1>. DEFINE f == v.threads[t].frames[i]
<1>1. CASE v.type = "java"
  BY <1>1 DEF Valid, JavaValid, JavaChecked, Given
<1>2. CASE v.type \in OneThread
  <2>1. t = 1
    BY <1>2
  <2>2. Given(FirstFrames(v), "fn")
    BY <1>2 DEF Valid, OneThread, PythonValid, RubyValid, OopsValid
  <2>3. f.fn # {}
    BY <2>1, <2>2 DEF Given, FirstFrames
  <2>. QED BY <1>2, <2>3 DEF OneThread
<1>3. CASE v.type = "core"
  BY <1>3 DEF Valid, CoreValid, CoreChecked, Given
<1>. QED BY <1>1, <1>2, <1>3 DEF Types, Scripted, OneThread

LEMMA RawReport ==
  ASSUME NEW u \in UReport
  PROVE  /\ {"type", "threads", "version"} \subseteq DOMAIN u /\ Framed(u)
         /\ \A t \in Threads(u) : "frames" \in DOMAIN u.threads[t]
         /\ \A t \in Threads(u) : \A i \in DOMAIN u.threads[t].frames :
              Raw(u, u.threads[t].frames[i]) /\ u.threads[t].frames[i] \in ReportedFrame
<1>1. u.threads \in Seq([crash : BOOLEAN, frames : Seq(ReportedFrame)])
  BY RawFrames
<1>. DEFINE F == Seq(ReportedFrame)
            T == [crash : BOOLEAN, frames : F]
<1>2. u.threads \in Seq(T)
  BY <1>1
<1>3. \A x \in T : "frames" \in DOMAIN x
  OBVIOUS
<1>. HIDE DEF T
<1>4. \A t \in Threads(u) : u.threads[t] \in T
  BY <1>2 DEF Threads
<1>. QED BY <1>3, <1>4, RawFrames DEF Raw

\* Completing a uReport changes names of functions only.
Renames(c, other, u) ==
  \A t \in Threads(u) :
    /\ DOMAIN c[t] = DOMAIN u.threads[t].frames /\ c[t] = [i \in DOMAIN u.threads[t].frames |-> c[t][i]]
    /\ \A i \in DOMAIN u.threads[t].frames :
         LET f == c[t][i]
             g == u.threads[t].frames[i]
         IN /\ f.at = g.at /\ f.mark = g.mark /\ f.build = g.build
            /\ f.fn = g.fn \/ f.fn = {other}
Keeps(u, v) ==
  /\ v.type = u.type /\ v.version = u.version /\ Framed(v) /\ Threads(v) = Threads(u)
  /\ \A t \in Threads(v) : \A i \in DOMAIN v.threads[t].frames : \E g :
       LET f == v.threads[t].frames[i] IN
       /\ Raw(u, g) /\ f.at = g.at /\ f.mark = g.mark /\ f.build = g.build
       /\ f.fn = g.fn \/ \E name : f.fn = {name}
LEMMA CompletedFrames ==
  ASSUME NEW u \in UReport, NEW c, NEW other, NEW v,
         v = [u EXCEPT !.threads = [t \in Threads(u) |-> [u.threads[t] EXCEPT !.frames = c[t]]]],
         Renames(c, other, u)
  PROVE  Keeps(u, v)
<1>1. /\ DOMAIN v.threads = Threads(u) /\ v.threads = [t \in Threads(u) |-> v.threads[t]]
      /\ \A t \in Threads(u) : v.threads[t].frames = c[t]
  <2>. PICK T : T = [t \in Threads(u) |-> [u.threads[t] EXCEPT !.frames = c[t]]]
    OBVIOUS
  <2>1. v.threads = T
    BY RawReport
  <2>2. DOMAIN T = Threads(u) /\ T = [t \in Threads(u) |-> T[t]]
    OBVIOUS
  <2>3. \A t \in Threads(u) : T[t].frames = c[t]
    BY RawReport
  <2>. QED BY <2>1, <2>2, <2>3
<1>2. \A t \in Threads(u) : /\ v.threads[t].frames = c[t]
                            /\ DOMAIN c[t] = DOMAIN u.threads[t].frames
                            /\ c[t] = [i \in DOMAIN u.threads[t].frames |-> c[t][i]]
  BY <1>1 DEF Renames
<1>3. Framed(v) /\ Threads(v) = Threads(u)
  <2>1. Framed(u)
    BY RawReport
  <2>. QED BY ONLY <1>1, <1>2, <2>1, CompletedThreads
<1>4. v.type = u.type /\ v.version = u.version
  BY RawReport
<1>5. ASSUME NEW t \in Threads(v), NEW i \in DOMAIN v.threads[t].frames
      PROVE  \E g : LET f == v.threads[t].frames[i] IN
                    /\ Raw(u, g) /\ f.at = g.at /\ f.mark = g.mark /\ f.build = g.build
                    /\ f.fn = g.fn \/ \E name : f.fn = {name}
  <2>1. /\ t \in Threads(u) /\ i \in DOMAIN u.threads[t].frames /\ v.threads[t].frames[i] = c[t][i]
    BY <1>1, <1>2, <1>3
  <2>. WITNESS u.threads[t].frames[i]
  <2>. QED BY <2>1, RawReport DEF Renames
<1>. QED BY <1>3, <1>4, <1>5 DEF Keeps

LEMMA CompletedRaw ==
  ASSUME NEW u \in UReport
  PROVE  Keeps(u, Completed(u))
<1>. DEFINE v == Completed(u)
<1>1. CASE u.type = "core"
  <2>. PICK c : c = [t \in Threads(u) |-> CoreCompleted(u.threads[t].frames)]
    OBVIOUS
  <2>1. v = [u EXCEPT !.threads = [t \in Threads(u) |-> [u.threads[t] EXCEPT !.frames = c[t]]]]
    BY <1>1 DEF Completed
  <2>2. \A t \in Threads(u) : /\ DOMAIN c[t] = DOMAIN u.threads[t].frames
                              /\ c[t] = [i \in DOMAIN u.threads[t].frames |-> c[t][i]]
    BY CoreDomain
  <2>3. ASSUME NEW t \in Threads(u), NEW i \in DOMAIN u.threads[t].frames
        PROVE  /\ c[t][i].at = u.threads[t].frames[i].at /\ c[t][i].mark = u.threads[t].frames[i].mark
               /\ c[t][i].build = u.threads[t].frames[i].build
               /\ c[t][i].fn = u.threads[t].frames[i].fn \/ c[t][i].fn = {"anonymous function"}
    <3>. PICK s, f : s = u.threads[t].frames /\ f = CoreCompleted(s)[i]
      OBVIOUS
    <3>1. c[t] = CoreCompleted(s) /\ i \in DOMAIN s /\ s[i] \in ReportedFrame /\ f = CoreCompleted(s)[i]
      BY RawReport
    <3>2. /\ f.at = s[i].at /\ f.mark = s[i].mark /\ f.build = s[i].build
          /\ f.fn = s[i].fn \/ f.fn = {"anonymous function"}
      BY ONLY <3>1, CoreFrame, Zenon
    <3>. QED BY <3>1, <3>2
  <2>4. PICK other : other = "anonymous function"
    OBVIOUS
  <2>5. Renames(c, other, u)
    BY <2>2, <2>3, <2>4 DEF Renames
  <2>. QED BY <2>1, <2>5, CompletedFrames, Zenon
<1>2. CASE u.type = "kerneloops"
  <2>. PICK c : c = [t \in Threads(u) |-> OopsCompleted(u.threads[t].frames)]
    OBVIOUS
  <2>1. v = [u EXCEPT !.threads = [t \in Threads(u) |-> [u.threads[t] EXCEPT !.frames = c[t]]]]
    BY <1>2 DEF Completed
  <2>2. \A t \in Threads(u) : /\ DOMAIN c[t] = DOMAIN u.threads[t].frames
                              /\ c[t] = [i \in DOMAIN u.threads[t].frames |-> c[t][i]]
    BY OopsDomain
  <2>3. ASSUME NEW t \in Threads(u), NEW i \in DOMAIN u.threads[t].frames
        PROVE  /\ c[t][i].at = u.threads[t].frames[i].at /\ c[t][i].mark = u.threads[t].frames[i].mark
               /\ c[t][i].build = u.threads[t].frames[i].build
               /\ c[t][i].fn = u.threads[t].frames[i].fn \/ c[t][i].fn = {"_unknown_"}
    <3>. PICK s, f : s = u.threads[t].frames /\ f = OopsCompleted(s)[i]
      OBVIOUS
    <3>1. c[t] = OopsCompleted(s) /\ i \in DOMAIN s /\ s[i] \in ReportedFrame /\ f = OopsCompleted(s)[i]
      BY RawReport
    <3>2. /\ f.at = s[i].at /\ f.mark = s[i].mark /\ f.build = s[i].build
          /\ f.fn = s[i].fn \/ f.fn = {"_unknown_"}
      BY ONLY <3>1, OopsFrame, Zenon
    <3>. QED BY <3>1, <3>2
  <2>4. PICK other : other = "_unknown_"
    OBVIOUS
  <2>5. Renames(c, other, u)
    BY <2>2, <2>3, <2>4 DEF Renames
  <2>. QED BY <2>1, <2>5, CompletedFrames, Zenon
<1>3. CASE u.type \notin {"core", "kerneloops"}
  <2>1. v = u
    BY <1>3 DEF Completed
  <2>2. ASSUME NEW t \in Threads(u), NEW i \in DOMAIN u.threads[t].frames
        PROVE  \E g : LET f == u.threads[t].frames[i] IN
                      /\ Raw(u, g) /\ f.at = g.at /\ f.mark = g.mark /\ f.build = g.build
                      /\ f.fn = g.fn \/ \E name : f.fn = {name}
    <3>. WITNESS u.threads[t].frames[i]
    <3>. QED BY RawReport
  <2>. QED BY <2>1, <2>2, RawReport DEF Keeps
<1>. QED BY <1>1, <1>2, <1>3

LEMMA BegunFormed ==
  ASSUME NEW u \in UReport, Valid(Completed(u))
  PROVE  Formed(Completed(u))
<1>. DEFINE v == Completed(u)
<1>1. Keeps(u, v)
  BY CompletedRaw
<1>2. Valid(v)
  OBVIOUS
<1>. HIDE DEF v
<1>3. u.type \in Types /\ (u.type \in OneThread => Threads(u) \subseteq {1})
  BY RawFrames
<1>4. v.type = "kerneloops" => v.version \in Versions
  BY <1>1 DEF Versions, Keeps
<1>5. ASSUME NEW at \in Positions(v) PROVE FrameOK(v, FrameAt(v, at))
  <2>1. at[1] \in Threads(v) /\ at[2] \in DOMAIN v.threads[at[1]].frames
    BY PositionOf
  <2>. DEFINE f == v.threads[at[1]].frames[at[2]]
  <2>2. f = FrameAt(v, at)
    BY DEF FrameAt
  <2>3. PICK g : /\ Raw(u, g) /\ f.at = g.at /\ f.mark = g.mark /\ f.build = g.build
                 /\ f.fn = g.fn \/ \E name : f.fn = {name}
    BY <1>1, <2>1 DEF Keeps
  <2>4. (v.type # "core" => f.fn # {}) /\ (v.type = "core" => f.at # {})
    BY <1>1, <1>2, <1>3, <2>1, ValidFrames DEF Keeps
  <2>. HIDE DEF f
  <2>5. \A a \in g.at : a \in Nat
    BY <2>3 DEF Raw, ReportedFrame
  <2>6. \A m, n \in f.fn : m = n
    BY <2>3 DEF Raw
  <2>7. FrameOK(v, f)
    BY <1>1, <2>3, <2>4, <2>5, <2>6 DEF FrameOK, Raw, Keeps
  <2>. QED BY <2>2, <2>7
<1>6. Formed(v)
  BY <1>1, <1>3, <1>4, <1>5 DEF Formed, Keeps
<1>. QED BY <1>6 DEF v

-----------------------------------------------------------------------------
(* Reading back what was stored for a frame.                                *)

Backs(x, b, at) == at \in Said(b.of) /\ Formed(b.of) /\ x = RowOf(b.of, FrameAt(b.of, at))

LEMMA SaidOf ==
  ASSUME NEW u, NEW at \in Said(u), Formed(u)
  PROVE  /\ at \in Positions(u) /\ FrameOK(u, FrameAt(u, at)) /\ u.type \in Types
         /\ u.type \in OneThread => at[1] = 1
BY PositionOf DEF Said, Formed

LEMMA FnOne ==
  ASSUME NEW fn, fn # {}, \A m, n \in fn : m = n
  PROVE  {Only(fn)} = fn
<1>1. PICK n : n \in fn
  OBVIOUS
<1>2. fn = {n}
  BY <1>1
<1>. QED BY <1>2, OnlyOf

LEMMA ReadScript ==
  ASSUME NEW u, Formed(u), ~SaveFails(u), NEW at \in Said(u), u.type \in Scripted,
         NEW x, SameScript(x, RowOf(u, FrameAt(u, at)))
  PROVE  ReadsAs(u.type, x, FrameAt(u, at))
<1>. DEFINE f == FrameAt(u, at)
<1>1. /\ at \in Positions(u) /\ FrameOK(u, f) /\ (u.type \in OneThread => at[1] = 1)
  BY SaidOf
<1>2. f.fn # {} /\ {Only(f.fn)} = f.fn /\ (f.mark = "special" => u.type \in {"python", "ruby"})
  BY <1>1, FnOne DEF FrameOK, Scripted
<1>3. CASE u.type = "java"
  <2>1. RowOf(u, f) = JavaRow(f) /\ ReadBack(u.type, x) = JavaRead(x)
    BY <1>3 DEF RowOf, ReadBack
  <2>. HIDE DEF f
  <2>2. x.sym = {<<[fn |-> Only(f.fn), special |-> FALSE], JavaFile(f)>>} /\ x.at = JavaLine(f)
    BY <2>1 DEF JavaRow, SameScript, f
  <2>3. Only(x.sym) = <<[fn |-> Only(f.fn), special |-> FALSE], JavaFile(f)>>
    BY <2>2, OnlyOf
  <2>4. JavaRead(x) = [fn |-> f.fn, special |-> FALSE, at |-> JavaLine(f)]
    <3>1. Only(x.sym)[1].fn = Only(f.fn)
      BY <2>3
    <3>. QED BY <1>2, <2>2, <3>1 DEF JavaRead
  <2>5. f.mark # "special"
    BY <1>2, <1>3
  <2>. QED BY <1>2, <2>1, <2>4, <2>5 DEF ReadsAs, JavaLine, f
<1>4. CASE u.type \in {"python", "ruby"}
  <2>1. RowOf(u, f) = PythonRow(f) /\ ReadBack(u.type, x) = PythonRead(x)
    BY <1>4 DEF RowOf, ReadBack, RubyRow, PythonRow, RubyRead, PythonRead
  <2>2. f.at # {}
    <3>1. Given(FirstFrames(u), "at")
      BY <1>4 DEF SaveFails, PythonFails, RubyFails
    <3>2. at[1] = 1 /\ at[2] \in DOMAIN u.threads[1].frames
      BY <1>1, <1>4, PositionOf DEF OneThread
    <3>. QED BY <3>1, <3>2 DEF Given, FirstFrames, FrameAt
  <2>. HIDE DEF f
  <2>. PICK m : m = (f.mark = "special")
    OBVIOUS
  <2>3. Funcname(f) = [fn |-> Only(f.fn), special |-> m]
    BY Zenon DEF Funcname
  <2>4. x.sym = {<<Funcname(f), LibOf[Only(f.path)]>>} /\ x.at = Only(f.at)
    BY <2>1 DEF PythonRow, SameScript, f
  <2>5. Only(x.sym) = <<[fn |-> Only(f.fn), special |-> m], LibOf[Only(f.path)]>>
    BY <2>3, <2>4, OnlyOf
  <2>6. Only(x.sym)[1].fn = Only(f.fn) /\ Only(x.sym)[1].special = m
    BY ONLY <2>5
  <2>7. ReadBack(u.type, x).at = Only(f.at) /\ ReadBack(u.type, x).fn = f.fn /\ ReadBack(u.type, x).special = m
    <3>1. PythonRead(x) = [fn |-> f.fn, special |-> m, at |-> Only(f.at)]
      BY <1>2, <2>4, <2>6 DEF PythonRead
    <3>. QED BY ONLY <2>1, <3>1
  <2>8. ReadBack(u.type, x).special <=> f.mark = "special"
    BY <2>7, Zenon
  <2>. QED BY <1>2, <2>2, <2>7, <2>8, Zenon DEF ReadsAs, f
<1>. QED BY <1>3, <1>4 DEF Scripted

\* The function that is read back of a source is one that some uReport has at its place.
LEMMA NamesOf ==
  ASSUME NEW x, NEW b \in backtraces, NEW at, Backs(x, b, at)
  PROVE  (IF x.sym = {} THEN {"??"} ELSE {Only(x.sym)[1].fn}) \in ReadNames(x)
<1>1. x.sym \in NamesAt(x)
  BY DEF NamesAt, SamePlace, Backs
<1>. QED BY <1>1 DEF ReadNames

LEMMA OopsNamed ==
  ASSUME NEW x, NEW b, NEW at, Backs(x, b, at), NEW v \in Versions, x.build = {v}
  PROVE  x.sym # {}
<1>. DEFINE u == b.of
            f == FrameAt(u, at)
<1>1. FrameOK(u, f) /\ u.type \in Types /\ x = RowOf(u, f)
  BY SaidOf DEF Backs
<1>. HIDE DEF u, f
<1>2. CASE u.type = "kerneloops"
  BY <1>1, <1>2 DEF RowOf, OopsRow
<1>3. CASE u.type = "core"
  BY <1>1, <1>3 DEF RowOf, CoreRow, FrameOK
<1>4. CASE u.type \in Scripted
  BY <1>1, <1>4 DEF RowOf, JavaRow, PythonRow, RubyRow, Scripted
<1>. QED BY <1>1, <1>2, <1>3, <1>4 DEF Types

LEMMA ReadPlace ==
  ASSUME NEW u, Formed(u), NEW at \in Said(u), u.type \notin Scripted,
         NEW x, SamePlace(x, RowOf(u, FrameAt(u, at))), NEW b \in backtraces, NEW bt, Backs(x, b, bt)
  PROVE  ReadsAs(u.type, x, FrameAt(u, at))
<1>. DEFINE f == FrameAt(u, at)
            name == IF x.sym = {} THEN {"??"} ELSE {Only(x.sym)[1].fn}
<1>1. FrameOK(u, f) /\ u.type \in Types
  BY SaidOf
<1>2. name \in ReadNames(x)
  BY NamesOf
<1>3. f.mark # "special"
  BY <1>1 DEF FrameOK, Scripted
<1>4. CASE u.type = "core"
  <2>. HIDE DEF f
  <2>1. ReadBack(u.type, x) = [fn |-> name, special |-> FALSE, at |-> x.at] /\ x.at = Only(f.at)
    BY <1>4 DEF ReadBack, CoreRead, SamePlace, RowOf, CoreRow, f
  <2>2. f.at # {}
    BY <1>1, <1>4 DEF FrameOK
  <2>. HIDE DEF name
  <2>. QED BY <1>2, <1>3, <2>1, <2>2 DEF ReadsAs, f
<1>5. CASE u.type = "kerneloops"
  <2>. HIDE DEF f
  <2>1. x.at = Signed(Address(f)) /\ x.build = {u.version} /\ u.version \in Versions
    BY <1>5 DEF SamePlace, RowOf, OopsRow, f, Formed
  <2>2. x.sym # {}
    BY <2>1, OopsNamed
  <2>3. name = {Only(x.sym)[1].fn}
    BY <2>2
  <2>4. ReadBack(u.type, x) = [fn |-> name, special |-> FALSE, at |-> IF x.at < 0 THEN x.at + 2 * Half ELSE x.at]
    BY <1>5, <2>3 DEF ReadBack, OopsRead
  <2>5. Address(f) \in Nat /\ Address(f) < 2 * Half /\ Half \in Nat
    BY <1>1, <1>5, FormatAssumption DEF Only, Address, FrameOK
  <2>6. (IF x.at < 0 THEN x.at + 2 * Half ELSE x.at) = Address(f)
    BY <2>1, <2>5 DEF Signed
  <2>. HIDE DEF name
  <2>7. ReadBack(u.type, x) = [fn |-> name, special |-> FALSE, at |-> Address(f)]
    BY <2>4, <2>6
  <2>. QED BY <1>2, <1>3, <2>7 DEF ReadsAs, Address, f
<1>. QED BY <1>1, <1>4, <1>5 DEF Types

LEMMA ReadAny ==
  ASSUME NEW u, Formed(u), ~SaveFails(u), NEW at \in Said(u),
         NEW x, Like(u, x, RowOf(u, FrameAt(u, at))), NEW b \in backtraces, NEW bt, Backs(x, b, bt)
  PROVE  ReadsAs(u.type, x, FrameAt(u, at))
BY ReadScript, ReadPlace DEF Like

-----------------------------------------------------------------------------
(* The invariant of the frames.                                             *)

\* It says what the backtraces read as.
LEMMA FramesRead ==
  ASSUME FramesInv
  PROVE  FramesAsReported
<1>. SUFFICES ASSUME NEW b \in backtraces
              PROVE  /\ \A k \in DOMAIN b.threads : \E at \in Said(b.of) : k \in FiledAs(b, at)
                     /\ \A at \in Said(b.of) : \E k \in DOMAIN b.threads :
                          FiledAs(b, at) = {k} /\ ReadsAs(b.of.type, b.threads[k].row, FrameAt(b.of, at))
  BY DEF FramesAsReported
<1>. PICK u, threads : u = b.of /\ threads = b.threads
  OBVIOUS
<1>1. /\ Formed(u) /\ ~SaveFails(u) /\ StoredAs(u, threads, Said(u))
      /\ \A k \in DOMAIN threads : threads[k].row \in sources
  BY DEF FramesInv, BackInv
<1>2. \A at : \A k \in DOMAIN threads : k \in FiledAs(b, at) <=> EntryOf(u, at, threads[k])
  BY DEF FiledAs, EntryOf
<1>3. \A k \in DOMAIN threads : \E at \in Said(u) : k \in FiledAs(b, at)
  BY <1>1, <1>2 DEF StoredAs
<1>4. ASSUME NEW at \in Said(u)
      PROVE  \E k \in DOMAIN threads : FiledAs(b, at) = {k} /\ ReadsAs(u.type, threads[k].row, FrameAt(u, at))
  <2>1. PICK k \in DOMAIN threads :
          /\ \A j \in DOMAIN threads : EntryOf(u, at, threads[j]) <=> j = k
          /\ Like(u, threads[k].row, RowOf(u, FrameAt(u, at)))
    BY <1>1 DEF StoredAs
  <2>2. FiledAs(b, at) = {k}
    BY <1>2, <2>1 DEF FiledAs
  <2>. PICK x : x = threads[k].row
    OBVIOUS
  <2>3. Witnessed(x)
    BY <1>1 DEF FramesInv
  <2>4. PICK b2 \in backtraces : \E bt \in Said(b2.of) : x = RowOf(b2.of, FrameAt(b2.of, bt))
    BY <2>3 DEF Witnessed
  <2>5. PICK bt \in Said(b2.of) : x = RowOf(b2.of, FrameAt(b2.of, bt))
    BY <2>4
  <2>6. Backs(x, b2, bt)
    BY <2>5 DEF Backs, FramesInv, BackInv
  <2>7. ReadsAs(u.type, x, FrameAt(u, at))
    BY <1>1, <2>1, <2>6, ReadAny
  <2>. QED BY <2>2, <2>7
<1>. QED BY <1>3, <1>4

\* One frame more.
LEMMA EntryOfOne ==
  ASSUME NEW u, Framed(u), u.type \in Types, NEW at \in Positions(u), NEW bt \in Positions(u), NEW e,
         EntryOf(u, at, e), EntryOf(u, bt, e)
  PROVE  at = bt
<1>1. /\ at[1] \in Threads(u) /\ at[2] \in DOMAIN u.threads[at[1]].frames /\ at = <<at[1], at[2]>>
      /\ bt[1] \in Threads(u) /\ bt[2] \in DOMAIN u.threads[bt[1]].frames /\ bt = <<bt[1], bt[2]>>
  BY PositionOf
<1>2. at[2] \in Nat /\ bt[2] \in Nat
  BY <1>1, SeqIs DEF Framed, Threads
<1>3. at[1] = bt[1] /\ Order(u.type, at[2]) = Order(u.type, bt[2])
  BY DEF EntryOf
<1>4. at[2] = bt[2]
  BY <1>2, <1>3 DEF Order
<1>. QED BY <1>1, <1>3, <1>4

LEMMA StoredMore ==
  ASSUME NEW u, Formed(u), NEW threads, NEW done, done \subseteq Positions(u), StoredAs(u, threads, done),
         NEW at \in Positions(u), at \notin done, NEW e, EntryOf(u, at, e), Like(u, e.row, RowOf(u, FrameAt(u, at)))
  PROVE  StoredAs(u, Append(threads, e), done \cup {at})
<1>. PICK n : n = Len(threads)
  OBVIOUS
<1>. PICK more : more = Append(threads, e)
  OBVIOUS
<1>1. /\ DOMAIN threads = 1 .. n /\ n \in Nat /\ DOMAIN more = 1 .. n + 1
      /\ \A i \in 1 .. n : more[i] = threads[i]
      /\ more[n + 1] = e /\ IsSeq(more)
  BY AppendParts, SeqAppend DEF StoredAs
<1>2. Framed(u) /\ u.type \in Types
  BY DEF Formed
<1>3. \A k \in 1 .. n + 1 : k \in 1 .. n \/ k = n + 1
  BY <1>1
<1>4. \A k \in 1 .. n : k \in 1 .. n + 1 /\ k # n + 1
  BY <1>1
<1>5. n + 1 \in 1 .. n + 1
  BY <1>1
<1>6. ASSUME NEW k \in 1 .. n + 1 PROVE \E bt \in done \cup {at} : EntryOf(u, bt, more[k])
  <2>1. CASE k = n + 1
    BY <1>1, <2>1
  <2>2. CASE k \in 1 .. n
    BY <1>1, <2>2 DEF StoredAs
  <2>. QED BY <1>3, <2>1, <2>2
<1>7. ASSUME NEW bt \in done
      PROVE  \E k \in 1 .. n + 1 : /\ \A j \in 1 .. n + 1 : EntryOf(u, bt, more[j]) <=> j = k
                                   /\ Like(u, more[k].row, RowOf(u, FrameAt(u, bt)))
  <2>1. PICK k \in 1 .. n : /\ \A j \in 1 .. n : EntryOf(u, bt, threads[j]) <=> j = k
                            /\ Like(u, threads[k].row, RowOf(u, FrameAt(u, bt)))
    BY <1>1 DEF StoredAs
  <2>2. ~EntryOf(u, bt, e)
    BY <1>2, EntryOfOne
  <2>3. \A j \in 1 .. n + 1 : EntryOf(u, bt, more[j]) <=> j = k
    BY <1>1, <1>3, <1>4, <2>1, <2>2
  <2>4. Like(u, more[k].row, RowOf(u, FrameAt(u, bt)))
    BY <1>1, <2>1
  <2>. QED BY <1>4, <2>3, <2>4
<1>8. /\ \A j \in 1 .. n + 1 : EntryOf(u, at, more[j]) <=> j = n + 1
      /\ Like(u, more[n + 1].row, RowOf(u, FrameAt(u, at)))
  <2>1. ASSUME NEW j \in 1 .. n, EntryOf(u, at, threads[j]) PROVE FALSE
    <3>1. PICK bt \in done : EntryOf(u, bt, threads[j])
      BY <1>1 DEF StoredAs
    <3>2. bt = at
      BY <1>2, <2>1, <3>1, EntryOfOne
    <3>. QED BY <3>2
  <2>2. Like(u, more[n + 1].row, RowOf(u, FrameAt(u, at)))
    BY <1>1
  <2>3. \A j \in 1 .. n + 1 : EntryOf(u, at, more[j]) <=> j = n + 1
    BY <1>1, <1>3, <1>4, <2>1
  <2>. QED BY <2>2, <2>3
<1>9. \A bt \in done \cup {at} : \E k \in 1 .. n + 1 :
        /\ \A j \in 1 .. n + 1 : EntryOf(u, bt, more[j]) <=> j = k
        /\ Like(u, more[k].row, RowOf(u, FrameAt(u, bt)))
  <2>1. \E k \in 1 .. n + 1 : /\ \A j \in 1 .. n + 1 : EntryOf(u, at, more[j]) <=> j = k
                              /\ Like(u, more[k].row, RowOf(u, FrameAt(u, at)))
    <3>. WITNESS n + 1 \in 1 .. n + 1
    <3>. QED BY <1>8
  <2>. QED BY <1>7, <2>1
<1>. QED BY <1>1, <1>6, <1>9 DEF StoredAs

-----------------------------------------------------------------------------
(* Every step keeps it.                                                     *)

LEMMA GatherStays ==
  ASSUME NEW p \in Saver, FrameInv(p), saver'[p].pc = saver[p].pc, saver'[p].u = saver[p].u,
         saver'[p].left = saver[p].left, session'[p] = session[p], sources \subseteq sources'
  PROVE  FrameInv(p)'
<1>1. ASSUME NEW u, GatherInv(p, u) PROVE GatherInv(p, u)'
  BY <1>1 DEF GatherInv
<1>. QED BY <1>1 DEF FrameInv, Working, Gathering

\* What one process does leaves the other processes and what is stored alone.
LEMMA FramesShare ==
  ASSUME FramesInv, NEW p \in Saver, FrameInv(p)', UNCHANGED <<sources, backtraces>>,
         \A x \in Saver \ {p} : /\ saver'[x].pc = saver[x].pc /\ saver'[x].u = saver[x].u
                                /\ saver'[x].left = saver[x].left /\ session'[x] = session[x]
  PROVE  FramesInv'
<1>1. ASSUME NEW x \in Saver PROVE FrameInv(x)'
  <2>1. CASE x = p
    BY <2>1
  <2>2. CASE x # p
    BY <2>2, GatherStays DEF FramesInv
  <2>. QED BY <2>1, <2>2
<1>2. ASSUME NEW b \in backtraces PROVE BackInv(b)'
  BY DEF FramesInv, BackInv
<1>3. ASSUME NEW x \in sources PROVE Witnessed(x)'
  BY DEF FramesInv, Witnessed
<1>. QED BY <1>1, <1>2, <1>3 DEF FramesInv

LEMMA FramesKept ==
  ASSUME FramesInv, UNCHANGED <<session, sources, backtraces>>,
         \A x \in Saver : /\ saver'[x].pc = saver[x].pc /\ saver'[x].u = saver[x].u
                          /\ saver'[x].left = saver[x].left
  PROVE  FramesInv'
<1>1. \A x \in Saver : FrameInv(x)'
  BY GatherStays DEF FramesInv
<1>2. ASSUME NEW b \in backtraces PROVE BackInv(b)'
  BY DEF FramesInv, BackInv
<1>3. ASSUME NEW x \in sources PROVE Witnessed(x)'
  BY DEF FramesInv, Witnessed
<1>. QED BY <1>1, <1>2, <1>3 DEF FramesInv

LEMMA InitFrames == ASSUME Init PROVE FramesInv
<1>1. RowsInit({}) /\ sources = {} /\ backtraces = {}
  BY DEF Init
<1>2. saver = [p \in Saver |-> NoWork] /\ session = [p \in Saver |-> Clean]
  BY <1>1 DEF RowsInit
<1>3. ASSUME NEW p \in Saver PROVE FrameInv(p)
  BY <1>2 DEF NoWork, Clean, FrameInv, Working, Gathering
<1>. QED BY <1>1, <1>3 DEF FramesInv

\* A process that has ended holds no frames.
LEMMA EndFrame ==
  ASSUME NEW p \in Saver, saver'[p].pc \in {"idle", "dead"}, session'[p] = Clean
  PROVE  FrameInv(p)'
<1>1. session'[p].sources = <<>> /\ session'[p].threads = <<>>
  BY DEF Clean
<1>. QED BY <1>1 DEF FrameInv, Working, Gathering

LEMMA BeginFrames ==
  ASSUME FramesInv, RowsInv, NEW p \in Saver, NEW u \in UReport, Begin(p, u), UNCHANGED frameVars
  PROVE  FramesInv'
<1>. DEFINE full == Completed(u)
<1>1. UNCHANGED <<session, sources, backtraces>> /\ saver[p].pc = "idle"
  BY DEF Begin, frameVars
<1>2. FrameInv(p) /\ session[p].sources = <<>> /\ session[p].threads = <<>>
  BY <1>1 DEF FramesInv, FrameInv, Gathering
<1>3. CASE ~(Valid(full) /\ PackagesValid(full))
  BY <1>3, <1>1, FramesKept DEF Begin
<1>4. CASE Valid(full) /\ PackagesValid(full) /\ HashFails(full)
  <2>1. saver' = [saver EXCEPT ![p].pc = "dead"]
    BY <1>4 DEF Begin
  <2>2. DOMAIN saver = Saver /\ DOMAIN saver[p] = SaverFields
    BY DEF RowsInv, SaverRows
  <2>3. saver'[p].pc = "dead" /\ \A x \in Saver \ {p} : saver'[x] = saver[x]
    BY <2>1, <2>2 DEF SaverFields
  <2>4. FrameInv(p)'
    BY <1>1, <1>2, <2>3 DEF FrameInv, Working, Gathering
  <2>. QED BY <1>1, <2>3, <2>4, FramesShare
<1>5. CASE Valid(full) /\ PackagesValid(full) /\ ~HashFails(full)
  <2>1. saver' = [NotAlone(p) EXCEPT ![p] =
                         [pc |-> "rows", u |-> {full}, report |-> {Hash(full)}, isNew |-> Hash(full) \notin reports,
                          left |-> Items(full), alone |-> AtWork \ {p} = {}]]
    BY <1>5 DEF Begin
  <2>2. Formed(full)
    BY <1>5, BegunFormed
  <2>. HIDE DEF full
  <2>3. saver'[p].pc = "rows" /\ saver'[p].u = {full}
    BY <2>1 DEF NotAlone
  <2>4. ASSUME NEW x \in Saver \ {p}
        PROVE  /\ saver'[x].pc = saver[x].pc /\ saver'[x].u = saver[x].u /\ saver'[x].left = saver[x].left
    BY <2>1 DEF NotAlone, RowsInv, SaverRows, SaverFields
  <2>5. FrameInv(p)'
    BY <1>1, <1>2, <2>2, <2>3 DEF FrameInv, Working, Gathering
  <2>. QED BY <1>1, <2>4, <2>5, FramesShare
<1>. QED BY <1>3, <1>4, <1>5

LEMMA CountFrames ==
  ASSUME FramesInv, RowsInv, NEW p \in Saver, CountItem(p), UNCHANGED frameVars
  PROVE  FramesInv'
<1>1. /\ saver[p].pc = "rows" /\ saver' = [saver EXCEPT ![p].left = Tail(@)]
      /\ UNCHANGED <<sources, backtraces>>
      /\ \/ UNCHANGED session
         \/ \E added : session' = [session EXCEPT ![p].added = added]
         \/ \E held : session' = [session EXCEPT ![p].held = held]
  BY DEF CountItem, frameVars
<1>2. SaverRows(p) /\ DOMAIN saver = Saver /\ DOMAIN session = Saver
  BY DEF RowsInv
<1>3. /\ saver'[p].pc = "rows" /\ saver'[p].u = saver[p].u
      /\ \A x \in Saver \ {p} : saver'[x] = saver[x]
  BY <1>1, <1>2 DEF SaverRows, SaverFields
<1>4. /\ session'[p].sources = session[p].sources /\ session'[p].threads = session[p].threads
      /\ \A x \in Saver \ {p} : session'[x] = session[x]
  BY <1>1, <1>2 DEF SaverRows, SessionFields
<1>5. FrameInv(p)'
  BY <1>1, <1>3, <1>4 DEF FramesInv, FrameInv, Working, Gathering
<1>. QED BY <1>1, <1>3, <1>4, <1>5, FramesShare

LEMMA StartFramesFrames ==
  ASSUME FramesInv, RowsInv, NEW p \in Saver, StartFrames(p)
  PROVE  FramesInv'
<1>1. SaverRows(p) /\ DOMAIN saver = Saver /\ DOMAIN session = Saver
  BY DEF RowsInv
<1>2. UNCHANGED <<sources, backtraces>> /\ saver[p].pc = "rows"
  BY DEF StartFrames, frameVars
<1>3. Working(p) /\ FrameInv(p) /\ session[p].sources = <<>> /\ session[p].threads = <<>>
  BY <1>2 DEF Working, FramesInv, FrameInv, Gathering
<1>. PICK u : saver[p].u = {u} /\ Formed(u)
  BY <1>3 DEF FrameInv
<1>4. Only(saver[p].u) = u
  BY OnlyOne
<1>5. \/ saver' = [saver EXCEPT ![p] = [NoWork EXCEPT !.pc = "dead"]] /\ session' = [session EXCEPT ![p] = Clean]
      \/ saver' = [saver EXCEPT ![p].pc = "flush", ![p].left = <<>>] /\ session' = session
      \/ saver' = [saver EXCEPT ![p].pc = "frames", ![p].left = InTurn(u)] /\ session' = session /\ ~SaveFails(u)
  BY <1>4 DEF StartFrames
<1>6. CASE saver' = [saver EXCEPT ![p] = [NoWork EXCEPT !.pc = "dead"]] /\ session' = [session EXCEPT ![p] = Clean]
  <2>1. saver'[p].pc = "dead" /\ session'[p] = Clean
    BY <1>1, <1>6 DEF NoWork
  <2>2. \A x \in Saver \ {p} : saver'[x] = saver[x] /\ session'[x] = session[x]
    BY <1>1, <1>6
  <2>3. FrameInv(p)'
    BY <2>1, EndFrame
  <2>. QED BY <1>2, <2>2, <2>3, FramesShare
<1>7. CASE saver' = [saver EXCEPT ![p].pc = "flush", ![p].left = <<>>] /\ session' = session
  <2>1. saver'[p].pc = "flush" /\ saver'[p].u = saver[p].u /\ \A x \in Saver \ {p} : saver'[x] = saver[x]
    BY <1>1, <1>7 DEF SaverRows, SaverFields
  <2>2. FrameInv(p)'
    BY <1>3, <1>7, <2>1 DEF FrameInv, Working, Gathering
  <2>. QED BY <1>2, <1>7, <2>1, <2>2, FramesShare
<1>8. CASE saver' = [saver EXCEPT ![p].pc = "frames", ![p].left = InTurn(u)] /\ session' = session /\ ~SaveFails(u)
  <2>1. /\ saver'[p].pc = "frames" /\ saver'[p].u = {u} /\ saver'[p].left = InTurn(u)
        /\ \A x \in Saver \ {p} : saver'[x] = saver[x]
    BY <1>1, <1>8 DEF SaverRows, SaverFields
  <2>2. IsSeq(InTurn(u)) /\ NoTwice(InTurn(u)) /\ Range(InTurn(u)) = Positions(u)
    BY TurnsOf DEF Formed
  <2>3. Said(u) \ Range(InTurn(u)) = {}
    BY <2>2 DEF Said
  <2>4. DOMAIN <<>> = {} /\ IsSeq(<<>>) /\ Range(<<>>) = {}
    BY Nothing
  <2>5. StoredAs(u, <<>>, {})
    BY <2>4 DEF StoredAs
  <2>6. GatherInv(p, u)'
    BY <1>3, <1>8, <2>1, <2>2, <2>3, <2>4, <2>5 DEF GatherInv
  <2>7. FrameInv(p)'
    BY <2>1, <2>6 DEF FrameInv, Gathering
  <2>. QED BY <1>2, <1>8, <2>1, <2>7, FramesShare
<1>. QED BY <1>5, <1>6, <1>7, <1>8

LEMMA EndFramesFrames ==
  ASSUME FramesInv, RowsInv, NEW p \in Saver, EndFrames(p)
  PROVE  FramesInv'
<1>1. SaverRows(p) /\ DOMAIN saver = Saver /\ DOMAIN session = Saver
  BY DEF RowsInv
<1>2. UNCHANGED <<sources, backtraces>> /\ saver[p].pc = "frames" /\ saver[p].left = <<>>
  BY DEF EndFrames, frameVars
<1>3. CASE saver' = [saver EXCEPT ![p] = [NoWork EXCEPT !.pc = "dead"]] /\ session' = [session EXCEPT ![p] = Clean]
  <2>1. saver'[p].pc = "dead" /\ session'[p] = Clean
    BY <1>1, <1>3 DEF NoWork
  <2>2. \A x \in Saver \ {p} : saver'[x] = saver[x] /\ session'[x] = session[x]
    BY <1>1, <1>3
  <2>3. FrameInv(p)'
    BY <2>1, EndFrame
  <2>. QED BY <1>2, <2>2, <2>3, FramesShare
<1>4. CASE saver' = [saver EXCEPT ![p].pc = "flush backtrace"] /\ session' = session
  <2>1. /\ saver'[p].pc = "flush backtrace" /\ saver'[p].u = saver[p].u /\ saver'[p].left = saver[p].left
        /\ \A x \in Saver \ {p} : saver'[x] = saver[x]
    BY <1>1, <1>4 DEF SaverRows, SaverFields
  <2>2. FrameInv(p)
    BY DEF FramesInv
  <2>3. ASSUME NEW u \in saver[p].u PROVE GatherInv(p, u)'
    BY <1>2, <2>2, <1>4, <2>1 DEF FrameInv, Gathering, GatherInv
  <2>4. FrameInv(p)'
    BY <1>2, <2>1, <2>2, <2>3 DEF FrameInv, Working, Gathering
  <2>. QED BY <1>2, <1>4, <2>1, <2>4, FramesShare
<1>. QED BY <1>3, <1>4 DEF EndFrames

\* A frame that is stored gets a source that is like it.
Files(p, u, at) ==
  \/ session' = session /\ at \notin Said(u)
  \/ /\ at \in Positions(u) => at \in Said(u)
     /\ \E row, x, isNew :
          /\ row = RowOf(u, FrameAt(u, at)) /\ Puts(p, row, Order(u.type, at[2]), x, isNew) /\ Like(u, x, row)
          /\ IF isNew THEN x = row ELSE x \in sources \cup Range(session[p].sources)

LEMMA ScriptFiles ==
  ASSUME NEW p \in Saver, NEW u, NEW at, NEW row, NEW order, row = RowOf(u, FrameAt(u, at)), order = Order(u.type, at[2]),
         SaveFrame(p, row, SameScript, SameScript, order), u.type \in Scripted
  PROVE  Files(p, u, at)
<1>1. \E x, isNew : /\ Puts(p, row, order, x, isNew) /\ SameScript(x, row)
                    /\ IF isNew THEN x = row ELSE x \in sources \cup Range(session[p].sources)
  <2>1. SameScript(row, row)
    BY DEF SameScript
  <2>2. \A x \in Stored(SameScript, row) : x \in sources /\ SameScript(x, row)
    BY DEF Stored
  <2>3. \A x \in AddedBefore(p, SameScript, row) : x \in Range(session[p].sources) /\ SameScript(x, row)
    BY DEF AddedBefore
  <2>4. \/ \E x \in Stored(SameScript, row) : Puts(p, row, order, x, FALSE)
        \/ \E x \in AddedBefore(p, SameScript, row) : Puts(p, row, order, x, FALSE)
        \/ Puts(p, row, order, row, TRUE)
    BY Zenon DEF SaveFrame, Puts
  <2>. QED BY <2>1, <2>2, <2>3, <2>4
<1>2. at \in Positions(u) => at \in Said(u)
  BY DEF Said, Scripted
<1>3. \A x : SameScript(x, row) => Like(u, x, row)
  BY DEF Like
<1>. QED BY <1>1, <1>2, <1>3 DEF Files

LEMMA PlaceFiles ==
  ASSUME NEW p \in Saver, NEW u, NEW at, NEW row, NEW order, row = RowOf(u, FrameAt(u, at)), order = Order(u.type, at[2]),
         SaveFrame(p, row, SamePlace, SamePlace, order), u.type \notin Scripted,
         u.type # "kerneloops" \/ ~(FrameAt(u, at).fn \subseteq Misparsed)
  PROVE  Files(p, u, at)
<1>1. \E x, isNew : /\ Puts(p, row, order, x, isNew) /\ SamePlace(x, row)
                    /\ IF isNew THEN x = row ELSE x \in sources \cup Range(session[p].sources)
  <2>1. SamePlace(row, row)
    BY DEF SamePlace
  <2>2. \A x \in Stored(SamePlace, row) : x \in sources /\ SamePlace(x, row)
    BY DEF Stored
  <2>3. \A x \in AddedBefore(p, SamePlace, row) : x \in Range(session[p].sources) /\ SamePlace(x, row)
    BY DEF AddedBefore
  <2>4. \/ \E x \in Stored(SamePlace, row) : Puts(p, row, order, x, FALSE)
        \/ \E x \in AddedBefore(p, SamePlace, row) : Puts(p, row, order, x, FALSE)
        \/ Puts(p, row, order, row, TRUE)
    BY Zenon DEF SaveFrame, Puts
  <2>. QED BY <2>1, <2>2, <2>3, <2>4
<1>2. at \in Positions(u) => at \in Said(u)
  BY DEF Said
<1>3. \A x : SamePlace(x, row) => Like(u, x, row)
  BY DEF Like
<1>. QED BY <1>1, <1>2, <1>3 DEF Files

LEMMA FrameFiles ==
  ASSUME NEW p \in Saver, SaveOne(p), NEW u, saver[p].u = {u}
  PROVE  saver[p].left # <<>> /\ Files(p, u, Head(saver[p].left))
<1>. DEFINE at == Head(saver[p].left)
            f == FrameAt(u, at)
<1>1. Only(saver[p].u) = u /\ Frame(p) = f /\ Position(p) = at[2]
  BY OnlyOne DEF Frame, Position
<1>2. ASSUME NEW type, AtFrame(p, type) PROVE u.type = type /\ saver[p].left # <<>>
  BY <1>2 DEF AtFrame
<1>. HIDE DEF at, f
<1>3. CASE JavaSave(p)
  <2>1. u.type = "java" /\ saver[p].left # <<>> /\ SaveFrame(p, JavaRow(f), SameScript, SameScript, at[2])
    BY <1>1, <1>2, <1>3 DEF JavaSave
  <2>2. JavaRow(f) = RowOf(u, FrameAt(u, at)) /\ at[2] = Order(u.type, at[2]) /\ u.type \in Scripted
    BY <2>1 DEF RowOf, Order, Scripted, f
  <2>. QED BY <2>1, <2>2, ScriptFiles DEF at
<1>4. CASE PythonSave(p)
  <2>1. u.type = "python" /\ saver[p].left # <<>> /\ SaveFrame(p, PythonRow(f), SameScript, SameScript, at[2])
    BY <1>1, <1>2, <1>4 DEF PythonSave
  <2>2. PythonRow(f) = RowOf(u, FrameAt(u, at)) /\ at[2] = Order(u.type, at[2]) /\ u.type \in Scripted
    BY <2>1 DEF RowOf, Order, Scripted, f
  <2>. QED BY <2>1, <2>2, ScriptFiles DEF at
<1>5. CASE RubySave(p)
  <2>1. u.type = "ruby" /\ saver[p].left # <<>> /\ SaveFrame(p, RubyRow(f), SameScript, SameScript, at[2])
    BY <1>1, <1>2, <1>5 DEF RubySave
  <2>2. RubyRow(f) = RowOf(u, FrameAt(u, at)) /\ at[2] = Order(u.type, at[2]) /\ u.type \in Scripted
    BY <2>1 DEF RowOf, Order, Scripted, f
  <2>. QED BY <2>1, <2>2, ScriptFiles DEF at
<1>6. CASE CoreSave(p)
  <2>1. u.type = "core" /\ saver[p].left # <<>> /\ SaveFrame(p, CoreRow(f), SamePlace, SamePlace, 10 * at[2])
    BY <1>1, <1>2, <1>6 DEF CoreSave
  <2>2. CoreRow(f) = RowOf(u, FrameAt(u, at)) /\ 10 * at[2] = Order(u.type, at[2]) /\ u.type \notin Scripted
    BY <2>1 DEF RowOf, Order, Scripted, f
  <2>. QED BY <2>1, <2>2, PlaceFiles DEF at
<1>7. CASE OopsSave(p)
  <2>1. /\ u.type = "kerneloops" /\ saver[p].left # <<>>
        /\ \/ f.fn \subseteq Misparsed /\ session' = session
           \/ ~(f.fn \subseteq Misparsed) /\ SaveFrame(p, OopsRow(u, f), SamePlace, SamePlace, 10 * at[2])
    BY <1>1, <1>2, <1>7, Zenon DEF OopsSave
  <2>2. OopsRow(u, f) = RowOf(u, FrameAt(u, at)) /\ 10 * at[2] = Order(u.type, at[2]) /\ u.type \notin Scripted
    BY <2>1 DEF RowOf, Order, Scripted, f
  <2>3. CASE f.fn \subseteq Misparsed /\ session' = session
    BY <2>1, <2>3 DEF Files, Said, f, at
  <2>4. CASE ~(f.fn \subseteq Misparsed) /\ SaveFrame(p, OopsRow(u, f), SamePlace, SamePlace, 10 * at[2])
    BY <2>1, <2>2, <2>4, PlaceFiles DEF at, f
  <2>. QED BY <2>1, <2>3, <2>4
<1>. QED BY <1>3, <1>4, <1>5, <1>6, <1>7 DEF SaveOne

LEMMA HeadAndTail ==
  ASSUME NEW s, IsSeq(s), s # <<>>
  PROVE  Range(s) = Range(Tail(s)) \cup {Head(s)}
<1>. DEFINE A == Range(s)
<1>1. s \in Seq(A)
  BY DEF IsSeq
<1>. HIDE DEF A
<1>2. /\ DOMAIN s = 1 .. Len(s) /\ Len(s) \in Nat /\ Len(s) >= 1 /\ Head(s) = s[1]
      /\ DOMAIN Tail(s) = 1 .. Len(s) - 1
      /\ \A i \in 1 .. Len(s) - 1 : Tail(s)[i] = s[i + 1]
  BY <1>1
<1>3. ASSUME NEW i \in 1 .. Len(s) PROVE s[i] \in Range(Tail(s)) \cup {Head(s)}
  <2>1. CASE i = 1
    BY <1>2, <2>1
  <2>2. CASE i # 1
    <3>1. i - 1 \in 1 .. Len(s) - 1 /\ Tail(s)[i - 1] = s[i]
      BY <1>2, <2>2
    <3>2. Tail(s)[i - 1] \in Range(Tail(s))
      BY <1>2, <3>1, RangeOf
    <3>. QED BY <3>1, <3>2
  <2>. QED BY <2>1, <2>2
<1>4. Range(s) \subseteq Range(Tail(s)) \cup {Head(s)}
  BY <1>2, <1>3 DEF Range
<1>. QED BY <1>4, SeqTail

LEMMA SaveOneFrames ==
  ASSUME FramesInv, RowsInv, NEW p \in Saver, SaveOne(p)
  PROVE  FramesInv'
<1>1. SaverRows(p) /\ DOMAIN saver = Saver /\ DOMAIN session = Saver
  BY DEF RowsInv
<1>2. /\ saver[p].pc = "frames" /\ saver' = [saver EXCEPT ![p].left = Tail(@)]
      /\ UNCHANGED <<sources, backtraces>>
  BY FrameGathers DEF Gathers, frameVars
<1>3. FrameInv(p) /\ Working(p) /\ Gathering(p)
  BY <1>2 DEF FramesInv, Working, Gathering
<1>. PICK u : saver[p].u = {u} /\ Formed(u)
  BY <1>3 DEF FrameInv
<1>4. GatherInv(p, u)
  BY <1>3 DEF FrameInv
<1>. PICK left, threads, old : left = saver[p].left /\ threads = session[p].threads /\ old = session[p].sources
  OBVIOUS
<1>. PICK at : at = Head(left)
  OBVIOUS
<1>5. left # <<>> /\ Files(p, u, at)
  BY FrameFiles
<1>6. /\ saver'[p].pc = "frames" /\ saver'[p].u = {u} /\ saver'[p].left = Tail(left)
      /\ \A x \in Saver \ {p} : saver'[x] = saver[x]
  BY <1>1, <1>2 DEF SaverRows, SaverFields
<1>7. /\ ~SaveFails(u) /\ IsSeq(left) /\ NoTwice(left) /\ Range(left) \subseteq Positions(u)
      /\ StoredAs(u, threads, Said(u) \ Range(left))
      /\ \A k \in DOMAIN threads : threads[k].row \in sources \cup Range(old)
      /\ IsSeq(old) /\ \A x \in Range(old) : \E bt \in Said(u) : x = RowOf(u, FrameAt(u, bt))
  BY <1>4 DEF GatherInv
<1>8. /\ IsSeq(Tail(left)) /\ NoTwice(Tail(left)) /\ Range(Tail(left)) \subseteq Positions(u)
      /\ at \in Range(left) /\ at \in Positions(u) /\ at \notin Range(Tail(left))
      /\ Range(left) = Range(Tail(left)) \cup {at}
  BY <1>5, <1>7, SeqTail, TailParts, HeadAndTail
<1>9. CASE session' = session /\ at \notin Said(u)
  <2>1. Said(u) \ Range(Tail(left)) = Said(u) \ Range(left)
    BY <1>8, <1>9
  <2>2. GatherInv(p, u)'
    BY <1>2, <1>6, <1>7, <1>8, <1>9, <2>1 DEF GatherInv
  <2>3. FrameInv(p)'
    BY <1>6, <2>2 DEF FrameInv, Gathering, Working
  <2>. QED BY <1>2, <1>6, <1>9, <2>3, FramesShare
<1>10. CASE ~(session' = session /\ at \notin Said(u))
  <2>0. at \in Said(u)
    BY <1>5, <1>8, <1>10 DEF Files
  <2>. PICK row, x, isNew :
          /\ row = RowOf(u, FrameAt(u, at)) /\ Puts(p, row, Order(u.type, at[2]), x, isNew) /\ Like(u, x, row)
          /\ IF isNew THEN x = row ELSE x \in sources \cup Range(session[p].sources)
    BY <1>5, <1>10, Zenon DEF Files
  <2>. PICK e : e = [thread |-> at[1], order |-> Order(u.type, at[2]), row |-> x]
    OBVIOUS
  <2>1. /\ \A y \in Saver \ {p} : session'[y] = session[y]
        /\ session'[p].threads = Append(threads, e)
        /\ session'[p].sources = IF isNew THEN Append(old, x) ELSE old
    <3>1. DOMAIN session[p] = SessionFields
      BY <1>1 DEF SaverRows
    <3>. QED BY <1>1, <3>1, Zenon DEF Puts, SessionFields
  <2>2. EntryOf(u, at, e) /\ e.row = x
    BY DEF EntryOf
  <2>3. Said(u) \ Range(Tail(left)) = (Said(u) \ Range(left)) \cup {at}
    BY <1>8, <2>0
  <2>4. Said(u) \ Range(left) \subseteq Positions(u)
    BY DEF Said
  <2>5. at \notin Said(u) \ Range(left)
    BY <1>8
  <2>6. StoredAs(u, Append(threads, e), Said(u) \ Range(Tail(left)))
    BY <1>7, <1>8, <2>2, <2>3, <2>4, <2>5, StoredMore
  <2>7. /\ IsSeq(session'[p].sources)
        /\ Range(session'[p].sources) = IF isNew THEN Range(old) \cup {x} ELSE Range(old)
    <3>1. IsSeq(Append(old, x)) /\ Range(Append(old, x)) = Range(old) \cup {x}
      BY <1>7, SeqAppend
    <3>. QED BY <1>7, <2>1, <3>1
  <2>8. x \in sources \cup Range(session'[p].sources)
    BY <2>7
  <2>9. \A k \in DOMAIN Append(threads, e) : Append(threads, e)[k].row \in sources \cup Range(session'[p].sources)
    <3>1. IsSeq(threads)
      BY <1>7 DEF StoredAs
    <3>2. /\ DOMAIN threads = 1 .. Len(threads) /\ Len(threads) \in Nat /\ DOMAIN Append(threads, e) = 1 .. Len(threads) + 1
          /\ \A i \in 1 .. Len(threads) : Append(threads, e)[i] = threads[i]
          /\ Append(threads, e)[Len(threads) + 1] = e
      BY <3>1, AppendParts
    <3>3. \A k \in 1 .. Len(threads) + 1 : k \in 1 .. Len(threads) \/ k = Len(threads) + 1
      BY <3>2
    <3>4. \A k \in 1 .. Len(threads) : threads[k].row \in sources \cup Range(session'[p].sources)
      BY <1>7, <2>7, <3>2
    <3>. QED BY <2>2, <2>8, <3>2, <3>3, <3>4
  <2>10. \A y \in Range(session'[p].sources) : \E bt \in Said(u) : y = RowOf(u, FrameAt(u, bt))
    BY <1>7, <2>0, <2>7
  <2>11. GatherInv(p, u)'
    BY <1>2, <1>6, <1>7, <1>8, <2>1, <2>6, <2>7, <2>9, <2>10 DEF GatherInv
  <2>12. FrameInv(p)'
    BY <1>6, <2>11 DEF FrameInv, Gathering, Working
  <2>. QED BY <1>2, <1>6, <2>1, <2>12, FramesShare
<1>. QED BY <1>9, <1>10

\* A flush stores the backtrace together with the sources that it names.
LEMMA FlushFrames ==
  ASSUME FramesInv, RowsInv, NEW p \in Saver, Flush(p)
  PROVE  FramesInv'
<1>1. SaverRows(p) /\ DOMAIN saver = Saver /\ DOMAIN session = Saver
  BY DEF RowsInv
<1>2. /\ session' = [session EXCEPT ![p] = Clean] /\ saver[p].pc \in {"flush", "flush backtrace"}
      /\ saver' = [saver EXCEPT ![p] = [NoWork EXCEPT !.pc = "dead"]] \/ saver' = [saver EXCEPT ![p] = NoWork]
  BY DEF Flush
<1>3. saver'[p].pc \in {"idle", "dead"} /\ session'[p] = Clean
  <2>1. saver'[p] = [NoWork EXCEPT !.pc = "dead"] \/ saver'[p] = NoWork
    BY <1>1, <1>2
  <2>2. NoWork.pc = "idle" /\ [NoWork EXCEPT !.pc = "dead"].pc = "dead"
    BY DEF NoWork
  <2>. QED BY <1>1, <1>2, <2>1, <2>2
<1>4. \A x \in Saver \ {p} : saver'[x] = saver[x] /\ session'[x] = session[x]
  BY <1>1, <1>2
<1>5. FrameInv(p)'
  BY <1>3, EndFrame
<1>6. FrameInv(p) /\ Working(p)
  BY <1>2 DEF FramesInv, Working
<1>. PICK u : saver[p].u = {u} /\ Formed(u)
  BY <1>6 DEF FrameInv
<1>. PICK threads, new : threads = session[p].threads /\ new = Range(session[p].sources)
  OBVIOUS
<1>7. \/ UNCHANGED <<sources, backtraces>>
      \/ /\ sources' = sources \cup new
         /\ backtraces' = IF saver[p].pc = "flush" THEN backtraces
                          ELSE backtraces \cup {[report |-> Only(saver[p].report), of |-> u, threads |-> threads]}
  <2>1. Only(saver[p].u) = u
    BY OnlyOne
  <2>. QED BY <2>1, Zenon DEF Flush, WriteFrames, frameVars
<1>8. CASE UNCHANGED <<sources, backtraces>>
  BY <1>4, <1>5, <1>8, FramesShare
<1>9. CASE saver[p].pc = "flush" /\ sources' = sources \cup new /\ backtraces' = backtraces
  BY <1>6, <1>9, Nothing, <1>4, <1>5, FramesShare DEF FrameInv, Gathering
<1>10. CASE /\ saver[p].pc = "flush backtrace" /\ sources' = sources \cup new
            /\ backtraces' = backtraces \cup {[report |-> Only(saver[p].report), of |-> u, threads |-> threads]}
  <2>. PICK b : b = [report |-> Only(saver[p].report), of |-> u, threads |-> threads]
    OBVIOUS
  <2>1. GatherInv(p, u) /\ saver[p].left = <<>>
    BY <1>6, <1>10 DEF FrameInv, Gathering, GatherInv
  <2>2. /\ StoredAs(u, threads, Said(u)) /\ ~SaveFails(u)
        /\ \A k \in DOMAIN threads : threads[k].row \in sources \cup new
        /\ \A x \in new : \E at \in Said(u) : x = RowOf(u, FrameAt(u, at))
    BY <2>1, Nothing DEF GatherInv
  <2>3. b.of = u /\ b.threads = threads
    OBVIOUS
  <2>4. BackInv(b)'
    BY <1>10, <2>2, <2>3 DEF BackInv
  <2>5. ASSUME NEW x \in backtraces PROVE BackInv(x)'
    BY <1>10 DEF FramesInv, BackInv
  <2>6. ASSUME NEW x \in sources PROVE Witnessed(x)'
    BY <1>10 DEF FramesInv, Witnessed
  <2>7. ASSUME NEW x \in new PROVE Witnessed(x)'
    BY <1>10, <2>2, <2>3 DEF Witnessed
  <2>8. ASSUME NEW x \in Saver PROVE FrameInv(x)'
    <3>1. CASE x = p
      BY <1>5, <3>1
    <3>2. CASE x # p
      BY <1>4, <1>10, <3>2, GatherStays DEF FramesInv
    <3>. QED BY <3>1, <3>2
  <2>9. backtraces' = backtraces \cup {b} /\ sources' = sources \cup new
    BY <1>10
  <2>. QED BY <2>4, <2>5, <2>6, <2>7, <2>8, <2>9 DEF FramesInv
<1>. QED BY <1>2, <1>7, <1>8, <1>9, <1>10

LEMMA NextFrames ==
  ASSUME RowsInv, FramesInv, [Next]_vars
  PROVE  FramesInv'
<1>0. ASSUME UNCHANGED <<saver, session, sources, backtraces>> PROVE FramesInv'
  BY <1>0, FramesKept
<1>1. ASSUME NEW p \in Saver, SaverStep(p) PROVE FramesInv'
  <2>1. CASE (FedoraCount(p) \/ CentosCount(p)) /\ UNCHANGED frameVars
    BY <2>1, CountFrames DEF FedoraCount, CentosCount
  <2>2. CASE SaveOne(p)
    BY <2>2, SaveOneFrames
  <2>. QED BY <1>1, <2>1, <2>2, StartFramesFrames, EndFramesFrames, FlushFrames DEF SaverStep, SaveOne
<1>2. CASE Run
  <2>1. ASSUME NEW m \in Matcher, MatchNext(m) \/ MatchFlush(m), UNCHANGED frameVars PROVE FramesInv'
    BY <2>1, <1>0 DEF MatchNext, MatchFlush, frameVars
  <2>. QED BY <1>1, <1>2, <2>1 DEF Run
<1>3. CASE Incoming
  <2>1. ASSUME NEW p \in Saver, NEW u \in UReport, Begin(p, u), UNCHANGED frameVars PROVE FramesInv'
    BY <2>1, BeginFrames
  <2>2. ASSUME NEW m \in Matcher, MatchStart(m), UNCHANGED frameVars PROVE FramesInv'
    <3>1. saver' = NotAlone(m) /\ UNCHANGED <<session, sources, backtraces>>
      BY <2>2 DEF MatchStart, frameVars
    <3>2. ASSUME NEW x \in Saver
          PROVE  /\ saver'[x].pc = saver[x].pc /\ saver'[x].u = saver[x].u /\ saver'[x].left = saver[x].left
      BY <3>1 DEF NotAlone, RowsInv, SaverRows, SaverFields
    <3>. QED BY <3>1, <3>2, FramesKept
  <2>3. ASSUME NEW k \in DOMAIN BuildOf \ Foreign, AddPackage(k), UNCHANGED frameVars PROVE FramesInv'
    BY <2>3, <1>0 DEF AddPackage, frameVars
  <2>. QED BY <1>3, <2>1, <2>2, <2>3 DEF Incoming
<1>4. CASE UNCHANGED <<rowVars, frameVars>>
  BY <1>0, <1>4 DEF rowVars, frameVars
<1>5. Mark => UNCHANGED <<rowVars, frameVars>>
  BY Zenon DEF Mark, FixStart, FixStep, FixRelease, FixProblem, FixFlush, AssignProblem, RemoveProblem, NewBuild, serverVars
<1>6. Serve \/ FileAway => UNCHANGED <<serverVars, fixVars>>
  BY ServeKeeps
<1>. QED BY <1>2, <1>3, <1>4, <1>5, <1>6 DEF Next, vars, serverVars

\* What is read back of a stored backtrace is, position by position, what its
\* uReport said, except that core and kerneloops may read a function that another
\* uReport had at the same place (save_ureport and db_report_to_satyr of all
\* problem types).
THEOREM FramesAsReportedAlways == Spec => []FramesAsReported
<1>1. Init => RowsInv /\ FramesInv
  BY InitRows, InitFrames
<1>2. RowsInv /\ FramesInv /\ [Next]_vars => RowsInv' /\ FramesInv'
  BY NextRows, NextFrames
<1>3. FramesInv => FramesAsReported
  BY FramesRead
<1>. QED BY <1>1, <1>2, <1>3, PTL DEF Spec

-----------------------------------------------------------------------------
(* Beat in the server. *)

\* The server's beat is the beat of Beat: nothing else touches its variables.
THEOREM ServerBeats == Spec => BeatSpec
<1>1. Init => BeatInit
  BY DEF Init
<1>2. [Next]_vars => [BeatNext]_beatVars
  BY DEF Next, webVars, vars
<1>. QED BY <1>1, <1>2, PTL DEF Spec, BeatSpec

\* A task of the server is sent at most once in a period, whatever the rest of it
\* does meanwhile (schedulers.py, DBScheduler).
THEOREM SentOncePerDueByServer == Spec => []SentOncePerDue
BY ServerBeats, SentOncePerDueAlways, PTL

==============================================================================
