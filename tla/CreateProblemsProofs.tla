------------------------ MODULE CreateProblemsProofs ------------------------
(***************************************************************************)
(* Proofs about create-problems: about the runs of CreateProblems, for any *)
(* reports, runs, options and bounds, and about the clustering of          *)
(* ThreadClusters, for any threads, functions and limits.                  *)
(*                                                                         *)
(* Runs.  BaseInv holds at every moment, whoever interferes: what a run    *)
(* holds are reports, problems and clusters that exist or existed, and     *)
(* which parts of its session each stage has emptied.  QuietInv is about   *)
(* the runs nobody disturbed so far.  Such a run without --speedup has     *)
(* loaded the tables as they are (LoadedAll); each of its clusters is      *)
(* still to be given a problem or planned once, for a problem of its own   *)
(* (Planned), and where the problems already were the clusters each one    *)
(* is planned for the problem it has (Kept); its flush therefore leaves    *)
(* the reports merged (Merged).  One with --speedup gives every report it  *)
(* read a problem, has it planned, or has its cluster still before it      *)
(* (Attaching).  A quiet run finds the tables as it left them because any  *)
(* step of another one that writes them ends its quiet (Alone).            *)
(*                                                                         *)
(* Clusters.  ClusterInv says what the merging relies on: thread_map is an *)
(* equivalence (Classes), the thread sets still to visit are classes of it *)
(* (SetsAreClasses) that the growing cluster is disjoint from (SetsApart), *)
(* and the growing cluster is a union of classes (ClusterOfClasses); and   *)
(* all of them are connected, the function being processed linking them    *)
(* with each other (Linked).  That nothing is left apart when the limit    *)
(* cannot be reached rests on UnlimitedInv: every function but the current *)
(* one has its threads in one class.                                       *)
(***************************************************************************)
EXTENDS CreateProblems, ThreadClusters, FiniteSetTheorems, TLAPS

-----------------------------------------------------------------------------
(* The runs.                                                               *)

\* What the actions need of each other at every moment, quiet or not.
Shapes ==
  /\ loaded \in [Run -> SUBSET Report]
  /\ had \in [Run -> [Report -> Nat]]
  /\ dbProblems \in [Run -> SUBSET Nat]
  /\ clusters \in [Run -> SUBSET SUBSET Report]
  /\ plan \in [Run -> SUBSET [reports : SUBSET Report, problem : Nat]]
  /\ seen \in [Run -> [Report -> Nat]]
  /\ toDelete \in [Run -> SUBSET Nat]

Starting == {"idle", "problems", "cluster"}
Ending == {"empty", "delete", "done"}
Writing == {"unassign", "low", "flush", "empty", "delete", "done"}
Merging == {"match", "unassign", "low"}

\* The type of what run x holds.
RunOK(x) ==
  /\ loaded[x] \subseteq known
  /\ had[x] \in [Report -> Maybe(Problem)]
  /\ dbProblems[x] \subseteq Problem
  /\ clusters[x] \subseteq SUBSET loaded[x]
  /\ plan[x] \subseteq [reports : SUBSET loaded[x], problem : Maybe(Problem)]
  /\ seen[x] \in [Report -> Maybe(Problem)]
  /\ toDelete[x] \subseteq Problem

StageOK(x) ==
  /\ pc[x] \in Starting \cup Writing => clusters[x] = {}
  /\ pc[x] \in Starting \cup Ending => plan[x] = {}
  /\ pc[x] \in Merging => "speedup" \notin options[x]
  /\ pc[x] = "attach" => "speedup" \in options[x]
  /\ pc[x] = "low" => "minCount" \in options[x]

Pcs == {"idle", "problems", "cluster", "match", "attach", "unassign",
        "low", "flush", "empty", "delete", "done"}

\* The tables, and what is not about one run.
TablesOK ==
  /\ low \subseteq Rare /\ invalid \subseteq Unreadable /\ known \subseteq Report
  /\ group \in Groupings
  /\ lastId \in Nat
  /\ problems \subseteq Problem
  /\ problemOf \in [Report -> Maybe(problems)]
  /\ pc \in [Run -> Pcs]
  /\ options \in [Run -> CommandLine \cup {{}}]
  /\ quiet \in [Run -> BOOLEAN]
  /\ starts \in Nat /\ changes \in Nat /\ crashes \in Nat
  /\ starts <= MaxStarts /\ changes <= MaxChanges /\ crashes <= MaxCrashes
  /\ \A r \in Report \ known : problemOf[r] = NoProblem

RunsOK ==
  /\ Shapes
  /\ \A y \in Run : RunOK(y) /\ StageOK(y)

BaseInv == TablesOK /\ RunsOK

\* A run without --speedup: the reports that it reads but cannot cluster.
Valid(x) == IF Cardinality(loaded[x]) = 1 THEN {} ELSE loaded[x] \cap invalid
Matching == {"match", "unassign", "low", "flush"}

\* What the run read is what the tables hold, but for what it has written itself.
LoadedAll(x) ==
  /\ loaded[x] = known \ Ignored(options[x])
  /\ pc[x] \in {"problems", "cluster", "match", "unassign"} => 
       \A r \in loaded[x] : problemOf[r] = had[x][r]
  /\ pc[x] \in {"low", "flush"} =>
       \A r \in loaded[x] : problemOf[r] = IF r \in Valid(x) THEN NoProblem ELSE had[x][r]
  /\ pc[x] = "flush" /\ "minCount" \in options[x] => \A r \in low : problemOf[r] = NoProblem
  /\ pc[x] # "problems" => dbProblems[x] = problems
  /\ pc[x] \in Matching => \A r \in loaded[x] : seen[x][r] = had[x][r]

\* Each cluster waits for a problem or is planned once, problems are planned at
\* most once each, and only for clusters that matched one while matching goes on.
Planned(x) ==
  /\ clusters[x] \subseteq Clusters(x)
  /\ \A q \in plan[x] : q.reports \in Clusters(x) \ clusters[x]
  /\ \A c \in Clusters(x) : c \in clusters[x] \/ \E q \in plan[x] : q.reports = c
  /\ \A q, s \in plan[x] : q.reports = s.reports => q = s
  /\ \A q, s \in plan[x] : q.problem = s.problem /\ q.problem # NoProblem => q = s
  /\ pc[x] = "match" => \A q \in plan[x] : q.problem # NoProblem

\* The problems the run found are its clusters already; each is then kept.
Uniform(x) ==
  \A r, s \in UNION Clusters(x) :
    /\ had[x][r] # NoProblem
    /\ had[x][r] = had[x][s] <=> group[r] = group[s]

Kept(x) == Uniform(x) => \A q \in plan[x] : \A r \in q.reports : q.problem = had[x][r]

\* The reports are in order, whatever problems are empty.
Merged(opts) ==
  /\ \A r, s \in Clustered(opts) :
       problemOf[r] = problemOf[s] <=> group[r] = group[s]
  /\ \A r \in known : problemOf[r] # NoProblem <=> r \in Clustered(opts)

NoneEmpty == \A p \in problems : Members(p) # {}

MergeInv(x) ==
  /\ pc[x] \in Matching \cup {"problems", "cluster"} => LoadedAll(x)
  /\ pc[x] \in Matching => Planned(x) /\ Kept(x)
  /\ pc[x] \in {"empty", "delete", "done"} => Merged(options[x])

\* A run with --speedup.
LoadedNew(x) ==
  /\ loaded[x] = Representatives \cup Unassigned(options[x])
  /\ \A r \in loaded[x] : problemOf[r] = had[x][r]

\* Each report that is to be attached has a problem, or is in a cluster not looked
\* at yet, or is planned for an existing problem.
Attaching(x) ==
  /\ \A c \in clusters[x] : \A r \in c : problemOf[r] = had[x][r]
  /\ \A c, d \in clusters[x] : c = d \/ c \cap d = {}
  /\ \A q \in plan[x] : /\ q.problem # NoProblem
                        /\ \A c \in clusters[x] : c \cap q.reports = {}
                        /\ \A r \in q.reports : problemOf[r] = NoProblem /\ seen[x][r] = NoProblem
  /\ \A r \in known \ (Ignored(options[x]) \cup invalid) :
       \/ problemOf[r] # NoProblem
       \/ \E c \in clusters[x] : r \in c
       \/ \E q \in plan[x] : r \in q.reports

Attached(opts) == \A r \in known \ (Ignored(opts) \cup invalid) : problemOf[r] # NoProblem

AttachInv(x) ==
  /\ pc[x] \in {"problems", "cluster"} => LoadedNew(x)
  /\ pc[x] \in {"attach", "flush"} => Attaching(x)
  /\ pc[x] \in {"empty", "delete", "done"} => Attached(options[x])

\* The clean-up that ends both kinds of run.
CleanInv(x) ==
  /\ pc[x] = "delete" => toDelete[x] = {p \in problems : Members(p) = {}}
  /\ pc[x] = "done" => NoneEmpty

QuietOK(x) ==
  /\ pc[x] # "idle"
  /\ CleanInv(x)
  /\ IF "speedup" \in options[x] THEN AttachInv(x) ELSE MergeInv(x)

QuietInv == \A x \in Run : quiet[x] => QuietOK(x)

\* What one run does leaves alone what the others hold.
Untouched(y) ==
  /\ pc'[y] = pc[y] /\ options'[y] = options[y]
  /\ loaded'[y] = loaded[y] /\ had'[y] = had[y] /\ dbProblems'[y] = dbProblems[y]
  /\ clusters'[y] = clusters[y] /\ plan'[y] = plan[y] /\ seen'[y] = seen[y]
  /\ toDelete'[y] = toDelete[y]

Inv == BaseInv /\ QuietInv

LEMMA MatchesAre ==
  ASSUME NEW x \in Run, NEW m \in Matches(x)
  PROVE  /\ m[1] \in clusters[x] /\ m[2] \in dbProblems[x]
         /\ Match(x, m[1], m[2]) > 0 /\ m[2] \notin Used(x)
BY DEF Matches

LEMMA MatchesNone ==
  ASSUME NEW x \in Run, Matches(x) = {}, NEW c \in clusters[x], NEW p \in dbProblems[x]
  PROVE  Match(x, c, p) > 0 => p \in Used(x)
<1> SUFFICES ASSUME Match(x, c, p) > 0, p \notin Used(x)
             PROVE  FALSE
  OBVIOUS
<1>1. <<c, p>> \in Matches(x)
  BY DEF Matches
<1> QED
  BY <1>1

LEMMA BaseType == BaseInv => TypeOK
BY DEF BaseInv, TypeOK, TablesOK, RunsOK, RunOK, Pcs

LEMMA BaseInit == Init => BaseInv
<1> SUFFICES ASSUME Init PROVE BaseInv
  OBVIOUS
<1>1. lastId \in Nat /\ problems = 1 .. lastId
  <2>1. IsFiniteSet({1}) /\ Cardinality({}) = 0 /\ Cardinality({1}) = 1
    BY FS_EmptySet, FS_Singleton
  <2>2. Cardinality({1} \cup {2}) = 2
    BY <2>1, FS_AddElement
  <2>3. {1} \cup {2} = {1, 2}
    OBVIOUS
  <2>4. lastId = Cardinality(problems) /\ problems \in {{}, {1}, {1, 2}}
    BY DEF Init
  <2>5. 1 .. 0 = {} /\ 1 .. 1 = {1} /\ 1 .. 2 = {1, 2}
    OBVIOUS
  <2>6. CASE problems = {}
    BY <2>1, <2>4, <2>5, <2>6
  <2>7. CASE problems = {1}
    <3>1. lastId = 1
      BY <2>1, <2>4, <2>7
    <3> QED
      BY <2>5, <2>7, <3>1
  <2>8. CASE problems = {1, 2}
    <3>1. lastId = 2
      BY <2>2, <2>3, <2>4, <2>8
    <3> QED
      BY <2>5, <2>8, <3>1
  <2> QED
    BY <2>4, <2>6, <2>7, <2>8
<1>2. TablesOK
  <2>1. low \subseteq Rare /\ invalid \subseteq Unreadable /\ known \subseteq Report /\ group \in Groupings
    BY DEF Init
  <2>2. problems \subseteq Problem /\ problemOf \in [Report -> Maybe(problems)]
        /\ \A r \in Report \ known : problemOf[r] = NoProblem
    BY <1>1 DEF Init, Problem
  <2>3. pc \in [Run -> Pcs] /\ options \in [Run -> CommandLine \cup {{}}] /\ quiet \in [Run -> BOOLEAN]
    BY DEF Init, Pcs
  <2>4. /\ starts \in Nat /\ changes \in Nat /\ crashes \in Nat
        /\ starts <= MaxStarts /\ changes <= MaxChanges /\ crashes <= MaxCrashes
    BY ProblemsAssumption DEF Init
  <2> QED
    BY <1>1, <2>1, <2>2, <2>3, <2>4 DEF TablesOK
<1>3. NothingLoaded \in [Report -> Nat]
  BY DEF NothingLoaded, NoProblem
<1>4. NothingLoaded \in [Report -> Maybe(Problem)]
  BY DEF NothingLoaded, NoProblem, Maybe
<1>5. Shapes
  BY <1>3 DEF Init, Shapes
<1>6. ASSUME NEW y \in Run PROVE RunOK(y) /\ StageOK(y)
  BY <1>4 DEF Init, RunOK, StageOK, Starting, Ending, Writing, Merging
<1> QED
  BY <1>2, <1>5, <1>6 DEF BaseInv, RunsOK

\* What a run holds stays good while reports and problems are only added.
LEMMA RunKept ==
  ASSUME BaseInv, NEW y \in Run, known \subseteq known', lastId' \in Nat, lastId <= lastId',
         loaded'[y] = loaded[y], had'[y] = had[y], dbProblems'[y] = dbProblems[y],
         clusters'[y] = clusters[y], plan'[y] = plan[y], seen'[y] = seen[y],
         toDelete'[y] = toDelete[y]
  PROVE  RunOK(y)'
<1>1. RunOK(y) /\ lastId \in Nat
  BY DEF BaseInv, RunsOK, TablesOK
<1>2. Problem \subseteq Problem' /\ Maybe(Problem) \subseteq Maybe(Problem)'
  BY <1>1 DEF Problem, Maybe
<1> QED
  BY <1>1, <1>2 DEF RunOK

LEMMA StageKept ==
  ASSUME BaseInv, NEW y \in Run, pc'[y] = pc[y], clusters'[y] = clusters[y],
         plan'[y] = plan[y], options'[y] = options[y]
  PROVE  StageOK(y)'
BY DEF BaseInv, RunsOK, StageOK, Starting, Ending, Writing, Merging

LEMMA EmptyShapes ==
  /\ NothingLoaded \in [Report -> Nat]
  /\ \A P : NothingLoaded \in [Report -> Maybe(P)]
BY DEF NothingLoaded, NoProblem, Maybe

\* An action that touches no run.
LEMMA OutsideBase ==
  ASSUME BaseInv, UNCHANGED <<dbVars, runVars>>, known \subseteq known', TablesOK'
  PROVE  BaseInv'
<1>1. lastId' = lastId /\ lastId \in Nat
  BY DEF dbVars, BaseInv, TablesOK
<1>2. Shapes'
  BY DEF runVars, BaseInv, RunsOK, Shapes
<1>3. ASSUME NEW y \in Run PROVE RunOK(y)' /\ StageOK(y)'
  BY <1>1, RunKept, StageKept DEF runVars
<1> QED
  BY <1>2, <1>3 DEF BaseInv, RunsOK

LEMMA SaveReportBase ==
  ASSUME BaseInv, NEW r \in Report, SaveReport(r)
  PROVE  BaseInv'
<1>1. TablesOK'
  BY ProblemsAssumption DEF BaseInv, TablesOK, SaveReport, dbVars, runVars, Problem, Maybe
<1> QED
  BY <1>1, OutsideBase DEF SaveReport

LEMMA CountReportBase ==
  ASSUME BaseInv, NEW r \in Report, CountReport(r)
  PROVE  BaseInv'
<1>1. TablesOK'
  BY ProblemsAssumption DEF BaseInv, TablesOK, CountReport, dbVars, runVars, Problem, Maybe
<1> QED
  BY <1>1, OutsideBase DEF CountReport

LEMMA RetraceBase ==
  ASSUME BaseInv, Retrace
  PROVE  BaseInv'
<1>1. TablesOK'
  BY ProblemsAssumption DEF BaseInv, TablesOK, Retrace, dbVars, runVars, Problem, Maybe
<1> QED
  BY <1>1, OutsideBase DEF Retrace

\* An action of run x.
LEMMA RunBase ==
  ASSUME BaseInv, NEW x \in Run, TablesOK', Shapes', UNCHANGED known, lastId <= lastId',
         RunOK(x)', StageOK(x)',
         \A y \in Run \ {x} :
           /\ pc'[y] = pc[y] /\ options'[y] = options[y]
           /\ loaded'[y] = loaded[y] /\ had'[y] = had[y] /\ dbProblems'[y] = dbProblems[y]
           /\ clusters'[y] = clusters[y] /\ plan'[y] = plan[y] /\ seen'[y] = seen[y]
           /\ toDelete'[y] = toDelete[y]
  PROVE  BaseInv'
<1>1. lastId' \in Nat
  BY DEF TablesOK
<1>2. ASSUME NEW y \in Run PROVE RunOK(y)' /\ StageOK(y)'
  BY <1>1, RunKept, StageKept
<1> QED
  BY <1>2 DEF BaseInv, RunsOK

LEMMA LoadReportsBase ==
  ASSUME BaseInv, NEW x \in Run, NEW opts \in CommandLine, LoadReports(x, opts)
  PROVE  BaseInv'
<1>1. TablesOK /\ Shapes /\ RunOK(x) /\ StageOK(x)
  BY DEF BaseInv, RunsOK
<1>2. TablesOK'
  BY <1>1, ProblemsAssumption DEF TablesOK, LoadReports, reportVars, dbVars, Problem, Maybe, Goto, Pcs
<1>3. loaded'[x] \subseteq known /\ loaded'[x] \subseteq Report
  BY <1>1 DEF LoadReports, Representatives, Unassigned, Shapes, TablesOK
<1>4. \A s : Restricted(problemOf, s) \in [Report -> Maybe(Problem)]
  BY <1>1 DEF Restricted, TablesOK, Maybe, NoProblem
<1>5. \A s : Restricted(problemOf, s) \in [Report -> Nat]
  BY <1>4 DEF Maybe, NoProblem, Problem
<1>6. Shapes'
  BY <1>1, <1>3, <1>5 DEF LoadReports, Shapes
<1>7. clusters[x] = {} /\ plan[x] = {}
  BY <1>1 DEF LoadReports, StageOK, Starting, Ending, Writing
<1>8. had'[x] \in [Report -> Maybe(Problem)]
  BY <1>1, <1>4 DEF LoadReports, Shapes
<1>9. RunOK(x)'
  <2>1. UNCHANGED <<known, lastId, dbProblems, clusters, plan, seen, toDelete>>
    BY DEF LoadReports, reportVars, dbVars
  <2> QED
    BY <1>1, <1>3, <1>7, <1>8, <2>1 DEF RunOK, Problem, Maybe
<1>10. StageOK(x)'
  <2>1. pc'[x] = "problems" /\ UNCHANGED <<clusters, plan>>
    BY <1>1 DEF LoadReports, Goto, TablesOK
  <2> QED
    BY <1>7, <2>1 DEF StageOK, Starting, Ending, Writing, Merging
<1>11. \A y \in Run \ {x} : loaded'[y] = loaded[y] /\ had'[y] = had[y] /\ pc'[y] = pc[y] /\ options'[y] = options[y]
  BY <1>1 DEF LoadReports, Goto, Shapes, TablesOK
<1> QED
  BY <1>1, <1>2, <1>6, <1>9, <1>10, <1>11, RunBase DEF LoadReports, reportVars, dbVars, TablesOK

LEMMA LoadProblemsBase ==
  ASSUME BaseInv, NEW x \in Run, LoadProblems(x)
  PROVE  BaseInv'
<1>1. TablesOK /\ Shapes /\ RunOK(x) /\ StageOK(x)
  BY DEF BaseInv, RunsOK
<1>2. UNCHANGED <<known, problemOf, problems, lastId, options, loaded, had, clusters, plan, seen, toDelete>>
  BY DEF LoadProblems, reportVars, dbVars
<1>3. TablesOK'
  BY <1>1, <1>2 DEF TablesOK, LoadProblems, reportVars, boundVars, Problem, Maybe, Goto, Pcs
<1>4. problems \subseteq Problem /\ Problem \subseteq Nat
  BY <1>1 DEF TablesOK, Problem
<1>5. /\ dbProblems'[x] = problems /\ pc[x] = "problems" /\ pc'[x] = "cluster"
      /\ \A y \in Run \ {x} : dbProblems'[y] = dbProblems[y] /\ pc'[y] = pc[y]
  BY <1>1 DEF LoadProblems, Goto, Shapes, TablesOK
<1>6. Shapes'
  BY <1>1, <1>2, <1>4 DEF LoadProblems, Shapes
<1>7. RunOK(x)'
  BY <1>1, <1>2, <1>4, <1>5 DEF RunOK, Problem, Maybe
<1>8. StageOK(x)'
  BY <1>1, <1>2, <1>5 DEF StageOK, Starting, Ending, Writing, Merging
<1> QED
  BY <1>1, <1>2, <1>3, <1>5, <1>6, <1>7, <1>8, RunBase DEF TablesOK

\* A session that is closed holds nothing.
LEMMA StopBase ==
  ASSUME BaseInv, NEW x \in Run, Close(x), TablesOK', UNCHANGED known, lastId <= lastId',
         pc'[x] \in {"idle", "done"},
         \A y \in Run \ {x} : pc'[y] = pc[y] /\ options'[y] = options[y]
  PROVE  BaseInv'
<1>1. TablesOK /\ Shapes
  BY DEF BaseInv, RunsOK
<1>2. /\ loaded'[x] = {} /\ had'[x] = NothingLoaded /\ dbProblems'[x] = {} /\ clusters'[x] = {}
      /\ plan'[x] = {} /\ seen'[x] = NothingLoaded /\ toDelete'[x] = {}
      /\ \A y \in Run \ {x} :
           /\ loaded'[y] = loaded[y] /\ had'[y] = had[y] /\ dbProblems'[y] = dbProblems[y]
           /\ clusters'[y] = clusters[y] /\ plan'[y] = plan[y] /\ seen'[y] = seen[y]
           /\ toDelete'[y] = toDelete[y]
  BY <1>1 DEF Close, Shapes
<1>3. Shapes'
  BY <1>1, EmptyShapes DEF Close, Shapes
<1>4. NothingLoaded \in [Report -> Maybe(Problem')]
  BY EmptyShapes
<1>5. RunOK(x)'
  BY <1>2, <1>4 DEF RunOK
<1>6. StageOK(x)'
  BY <1>2 DEF StageOK, Starting, Ending, Writing, Merging
<1> QED
  BY <1>2, <1>3, <1>5, <1>6, RunBase

LEMMA StoppedBase ==
  ASSUME BaseInv, NEW x \in Run, Stop(x), UNCHANGED <<reportVars, dbVars, starts, changes>>,
         crashes' \in Nat, crashes' <= MaxCrashes
  PROVE  BaseInv' /\ pc'[x] = "idle" /\ ~quiet'[x]
<1>1. TablesOK /\ Shapes
  BY DEF BaseInv, RunsOK
<1>2. pc'[x] = "idle" /\ ~quiet'[x] /\ \A y \in Run \ {x} : pc'[y] = pc[y] /\ options'[y] = options[y]
  BY <1>1 DEF Stop, Goto, TablesOK
<1>3. TablesOK'
  BY <1>1 DEF TablesOK, Stop, Goto, reportVars, dbVars, Problem, Maybe, Pcs
<1> QED
  BY <1>1, <1>2, <1>3, StopBase DEF Stop, reportVars, dbVars, TablesOK

LEMMA CrashBase ==
  ASSUME BaseInv, NEW x \in Run, Crash(x)
  PROVE  BaseInv' /\ ~quiet'[x]
<1>1. TablesOK
  BY DEF BaseInv
<1> QED
  BY <1>1, StoppedBase, ProblemsAssumption DEF Crash, TablesOK

LEMMA ClustersInside == \A x \in Run : Clusters(x) \subseteq SUBSET loaded[x]
BY DEF Clusters

LEMMA ReusedInside ==
  ASSUME NEW x \in Run, NEW c, NEW p \in Reused(x, c)
  PROVE  \E r \in c : p = had[x][r] /\ p # NoProblem /\ c = {t \in loaded[x] : had[x][t] = p}
BY DEF Reused

LEMMA SeenNow ==
  ASSUME BaseInv
  PROVE  /\ \A s : Restricted(problemOf, s) \in [Report -> Maybe(Problem)]
         /\ \A s : Restricted(problemOf, s) \in [Report -> Nat]
<1>1. TablesOK
  BY DEF BaseInv
<1>2. \A s : Restricted(problemOf, s) \in [Report -> Maybe(Problem)]
  BY <1>1 DEF Restricted, TablesOK, Maybe, NoProblem
<1>3. \A s : Restricted(problemOf, s) \in [Report -> Nat]
  BY <1>2 DEF Maybe, NoProblem, Problem
<1> QED
  BY <1>2, <1>3

LEMMA LookUpBase ==
  ASSUME BaseInv, NEW x \in Run, LookUp(x), ~LookupFails(x) \/ ~Stop(x)
  PROVE  BaseInv'
<1>1. TablesOK /\ Shapes /\ RunOK(x) /\ StageOK(x)
  BY DEF BaseInv, RunsOK
<1> DEFINE P == UNION {{[reports |-> c, problem |-> p] : p \in Reused(x, c)} : c \in Clusters(x)}
           C == {c \in Clusters(x) : Reused(x, c) = {}}
<1>2. /\ pc[x] = "cluster" /\ "speedup" \notin options[x]
      /\ plan' = [plan EXCEPT ![x] = P] /\ clusters' = [clusters EXCEPT ![x] = C]
      /\ seen' = [seen EXCEPT ![x] = Restricted(problemOf, loaded[x])] /\ Goto(x, "match")
      /\ UNCHANGED <<options, loaded, had, dbProblems, toDelete, quiet, reportVars, dbVars, boundVars>>
  BY DEF LookUp
<1>3. C \subseteq SUBSET loaded[x] /\ loaded[x] \subseteq Report
  BY <1>1, ClustersInside DEF Shapes
<1>4. P \subseteq [reports : SUBSET loaded[x], problem : Maybe(Problem)]
  <2> SUFFICES ASSUME NEW c \in Clusters(x), NEW p \in Reused(x, c)
               PROVE  c \subseteq loaded[x] /\ p \in Maybe(Problem)
    OBVIOUS
  <2>1. c \subseteq loaded[x] /\ loaded[x] \subseteq Report
    BY <1>3, ClustersInside
  <2>2. PICK r \in c : p = had[x][r]
    BY ReusedInside
  <2> QED
    BY <1>1, <2>1, <2>2 DEF RunOK
<1>5. Maybe(Problem) \subseteq Nat
  BY <1>1 DEF Maybe, Problem, NoProblem
<1>6. P \subseteq [reports : SUBSET Report, problem : Nat]
  BY <1>3, <1>4, <1>5
<1>7. /\ plan'[x] = P /\ clusters'[x] = C /\ seen'[x] = Restricted(problemOf, loaded[x])
      /\ pc'[x] = "match"
      /\ \A y \in Run \ {x} : plan'[y] = plan[y] /\ clusters'[y] = clusters[y] /\ seen'[y] = seen[y] /\ pc'[y] = pc[y]
  BY <1>1, <1>2 DEF Shapes, TablesOK, Goto
<1> HIDE DEF P, C
<1>8. Shapes'
  BY <1>1, <1>2, <1>3, <1>6, SeenNow DEF Shapes
<1>9. TablesOK'
  BY <1>1, <1>2 DEF TablesOK, reportVars, dbVars, boundVars, Problem, Maybe, Goto, Pcs
<1>10. RunOK(x)'
  BY <1>1, <1>2, <1>3, <1>4, <1>7, SeenNow DEF RunOK, dbVars, reportVars, Problem, Maybe
<1>11. StageOK(x)'
  BY <1>2, <1>7 DEF StageOK, Starting, Ending, Writing, Merging
<1> QED
  BY <1>1, <1>2, <1>7, <1>8, <1>9, <1>10, <1>11, RunBase DEF reportVars, dbVars, TablesOK

LEMMA MatchBestBase ==
  ASSUME BaseInv, NEW x \in Run, MatchBest(x)
  PROVE  BaseInv'
<1>1. TablesOK /\ Shapes /\ RunOK(x) /\ StageOK(x)
  BY DEF BaseInv, RunsOK
<1>2. PICK m \in Matches(x) :
        /\ plan' = [plan EXCEPT ![x] = @ \cup {[reports |-> m[1], problem |-> m[2]]}]
        /\ clusters' = [clusters EXCEPT ![x] = @ \ {m[1]}]
  BY DEF MatchBest
<1>3. m[1] \in clusters[x] /\ m[2] \in dbProblems[x]
  BY MatchesAre
<1> DEFINE q == [reports |-> m[1], problem |-> m[2]]
<1>4. q \in [reports : SUBSET loaded[x], problem : Maybe(Problem)]
  BY <1>1, <1>3 DEF RunOK, Maybe
<1>5. q \in [reports : SUBSET Report, problem : Nat]
  BY <1>1, <1>3 DEF Shapes
<1>6. plan' = [plan EXCEPT ![x] = plan[x] \cup {q}]
  BY <1>2
<1>7. /\ pc[x] = "match"
      /\ UNCHANGED <<reportVars, dbVars, pc, options, loaded, had, dbProblems, seen, toDelete, boundVars, quiet>>
  BY DEF MatchBest
<1>8. /\ plan'[x] = plan[x] \cup {q} /\ clusters'[x] = clusters[x] \ {m[1]}
      /\ \A y \in Run \ {x} : plan'[y] = plan[y] /\ clusters'[y] = clusters[y]
  BY <1>1, <1>2, <1>6 DEF Shapes
<1> HIDE DEF q
<1>9. Shapes'
  BY <1>1, <1>2, <1>5, <1>6, <1>7 DEF Shapes
<1>10. TablesOK'
  BY <1>1, <1>7 DEF TablesOK, reportVars, dbVars, boundVars, Problem, Maybe, Pcs
<1>11. RunOK(x)'
  BY <1>1, <1>4, <1>7, <1>8 DEF RunOK, dbVars, reportVars, Problem, Maybe
<1>12. StageOK(x)'
  BY <1>1, <1>7, <1>8 DEF StageOK, Starting, Ending, Writing, Merging
<1> QED
  BY <1>1, <1>7, <1>8, <1>9, <1>10, <1>11, <1>12, RunBase DEF reportVars, dbVars, TablesOK

LEMMA CreateRestBase ==
  ASSUME BaseInv, NEW x \in Run, CreateRest(x)
  PROVE  BaseInv'
<1>1. TablesOK /\ Shapes /\ RunOK(x) /\ StageOK(x)
  BY DEF BaseInv, RunsOK
<1> DEFINE N == {[reports |-> c, problem |-> NoProblem] : c \in clusters[x]}
<1>2. N \subseteq [reports : SUBSET loaded[x], problem : Maybe(Problem)]
  BY <1>1 DEF RunOK, Maybe
<1>3. N \subseteq [reports : SUBSET Report, problem : Nat]
  BY <1>1 DEF Shapes, NoProblem
<1>4. /\ plan' = [plan EXCEPT ![x] = plan[x] \cup N] /\ clusters' = [clusters EXCEPT ![x] = {}]
      /\ pc[x] = "match" /\ Goto(x, "unassign")
      /\ UNCHANGED <<reportVars, dbVars, options, loaded, had, dbProblems, seen, toDelete, boundVars, quiet>>
  BY DEF CreateRest
<1>5. /\ plan'[x] = plan[x] \cup N /\ clusters'[x] = {} /\ pc'[x] = "unassign"
      /\ \A y \in Run \ {x} : plan'[y] = plan[y] /\ clusters'[y] = clusters[y] /\ pc'[y] = pc[y]
  BY <1>1, <1>4 DEF Shapes, TablesOK, Goto
<1> HIDE DEF N
<1>6. Shapes'
  BY <1>1, <1>3, <1>4 DEF Shapes
<1>7. TablesOK'
  BY <1>1, <1>4 DEF TablesOK, reportVars, dbVars, boundVars, Problem, Maybe, Goto, Pcs
<1>8. RunOK(x)'
  BY <1>1, <1>2, <1>4, <1>5 DEF RunOK, dbVars, reportVars, Problem, Maybe
<1>9. StageOK(x)'
  BY <1>1, <1>4, <1>5 DEF StageOK, Starting, Ending, Writing, Merging
<1> QED
  BY <1>1, <1>4, <1>5, <1>6, <1>7, <1>8, <1>9, RunBase DEF reportVars, dbVars, TablesOK

LEMMA UnsetType ==
  ASSUME BaseInv, NEW rs
  PROVE  LET f == [r \in Report |-> IF r \in rs THEN NoProblem ELSE problemOf[r]]
         IN  /\ f \in [Report -> Maybe(problems)]
             /\ \A r \in Report : f[r] = IF r \in rs THEN NoProblem ELSE problemOf[r]
             /\ \A r \in Report \ known : f[r] = NoProblem
BY DEF BaseInv, TablesOK, Maybe, NoProblem

LEMMA UnassignBase ==
  ASSUME BaseInv, NEW x \in Run, Unassign(x)
  PROVE  BaseInv'
<1>1. TablesOK /\ Shapes /\ RunOK(x) /\ StageOK(x)
  BY DEF BaseInv, RunsOK
<1>2. /\ pc[x] = "unassign"
      /\ UNCHANGED <<reportVars, problems, lastId, options, loaded, had, dbProblems,
                     clusters, plan, seen, toDelete, boundVars>>
      /\ Goto(x, IF "minCount" \in options[x] THEN "low" ELSE "flush") /\ Alone(x)
  BY DEF Unassign
<1>3. problemOf' \in [Report -> Maybe(problems)] /\ \A r \in Report \ known : problemOf'[r] = NoProblem
  <2> DEFINE rs == IF Cardinality(loaded[x]) = 1 THEN {}
                   ELSE {r \in loaded[x] \cap invalid : had[x][r] # NoProblem}
  <2>1. problemOf' = [r \in Report |-> IF r \in rs THEN NoProblem ELSE problemOf[r]]
    BY DEF Unassign, Unset
  <2> HIDE DEF rs
  <2> QED
    BY <2>1, UnsetType
<1>4. /\ pc'[x] = IF "minCount" \in options[x] THEN "low" ELSE "flush"
      /\ \A y \in Run \ {x} : pc'[y] = pc[y]
  BY <1>1, <1>2 DEF Goto, TablesOK
<1>5. TablesOK'
  BY <1>1, <1>2, <1>3 DEF TablesOK, reportVars, boundVars, Goto, Alone, Pcs, Problem, Maybe
<1>6. Shapes'
  BY <1>1, <1>2 DEF Shapes
<1>7. RunOK(x)'
  BY <1>1, <1>2 DEF RunOK, reportVars, Problem, Maybe
<1>8. StageOK(x)'
  BY <1>1, <1>2, <1>4 DEF StageOK, Starting, Ending, Writing, Merging
<1> QED
  BY <1>1, <1>2, <1>4, <1>5, <1>6, <1>7, <1>8, RunBase DEF reportVars, TablesOK

LEMMA UnassignLowBase ==
  ASSUME BaseInv, NEW x \in Run, UnassignLow(x)
  PROVE  BaseInv'
<1>1. TablesOK /\ Shapes /\ RunOK(x) /\ StageOK(x)
  BY DEF BaseInv, RunsOK
<1>2. /\ pc[x] = "low"
      /\ UNCHANGED <<reportVars, problems, lastId, options, loaded, had, dbProblems,
                     clusters, plan, seen, toDelete, boundVars>>
      /\ Goto(x, "flush") /\ Alone(x)
  BY DEF UnassignLow
<1>3. problemOf' \in [Report -> Maybe(problems)] /\ \A r \in Report \ known : problemOf'[r] = NoProblem
  BY UnsetType DEF UnassignLow, Unset
<1>4. pc'[x] = "flush" /\ \A y \in Run \ {x} : pc'[y] = pc[y]
  BY <1>1, <1>2 DEF Goto, TablesOK
<1>5. TablesOK'
  BY <1>1, <1>2, <1>3 DEF TablesOK, reportVars, boundVars, Goto, Alone, Pcs, Problem, Maybe
<1>6. Shapes'
  BY <1>1, <1>2 DEF Shapes
<1>7. RunOK(x)'
  BY <1>1, <1>2 DEF RunOK, reportVars, Problem, Maybe
<1>8. StageOK(x)'
  BY <1>1, <1>2, <1>4 DEF StageOK, Starting, Ending, Writing, Merging
<1> QED
  BY <1>1, <1>2, <1>4, <1>5, <1>6, <1>7, <1>8, RunBase DEF reportVars, TablesOK

LEMMA StartAttachingBase ==
  ASSUME BaseInv, NEW x \in Run, StartAttaching(x)
  PROVE  BaseInv'
<1>1. TablesOK /\ Shapes /\ RunOK(x) /\ StageOK(x)
  BY DEF BaseInv, RunsOK
<1>2. /\ pc[x] = "cluster" /\ "speedup" \in options[x] /\ clusters' = [clusters EXCEPT ![x] = Clusters(x)]
      /\ Goto(x, "attach")
      /\ UNCHANGED <<reportVars, dbVars, options, loaded, had, dbProblems, plan, seen, toDelete, boundVars, quiet>>
  BY DEF StartAttaching
<1>3. Clusters(x) \subseteq SUBSET loaded[x] /\ loaded[x] \subseteq Report
  BY <1>1, ClustersInside DEF Shapes
<1>4. /\ clusters'[x] = Clusters(x) /\ pc'[x] = "attach"
      /\ \A y \in Run \ {x} : clusters'[y] = clusters[y] /\ pc'[y] = pc[y]
  BY <1>1, <1>2 DEF Goto, TablesOK, Shapes
<1>5. TablesOK'
  BY <1>1, <1>2 DEF TablesOK, reportVars, dbVars, boundVars, Goto, Pcs, Problem, Maybe
<1>6. Shapes'
  BY <1>1, <1>2, <1>3 DEF Shapes
<1>7. RunOK(x)'
  BY <1>1, <1>2, <1>3, <1>4 DEF RunOK, reportVars, dbVars, Problem, Maybe
<1>8. StageOK(x)'
  BY <1>1, <1>2, <1>4 DEF StageOK, Starting, Ending, Writing, Merging
<1> QED
  BY <1>1, <1>2, <1>4, <1>5, <1>6, <1>7, <1>8, RunBase DEF reportVars, dbVars, TablesOK

LEMMA AttachBase ==
  ASSUME BaseInv, NEW x \in Run, Attach(x)
  PROVE  BaseInv'
<1>1. TablesOK /\ Shapes /\ RunOK(x) /\ StageOK(x)
  BY DEF BaseInv, RunsOK
<1>2. PICK c \in clusters[x] : \E origin \in Assigned(x, c) :
        /\ plan' = [plan EXCEPT ![x] = IF Cardinality(c) = 1 THEN @ ELSE
             @ \cup {[reports |-> c \ Assigned(x, c), problem |-> problemOf[origin]]}]
        /\ seen' = [seen EXCEPT ![x] = [r \in Report |-> IF r \in c THEN problemOf[r] ELSE @[r]]]
        /\ clusters' = [clusters EXCEPT ![x] = @ \ {c}]
  BY DEF Attach
<1>3. PICK origin \in Assigned(x, c) :
        plan' = [plan EXCEPT ![x] = IF Cardinality(c) = 1 THEN @ ELSE
             @ \cup {[reports |-> c \ Assigned(x, c), problem |-> problemOf[origin]]}]
  BY <1>2
<1>4. /\ pc[x] = "attach"
      /\ UNCHANGED <<reportVars, dbVars, pc, options, loaded, had, dbProblems, toDelete, boundVars, quiet>>
  BY DEF Attach
<1>5. c \subseteq loaded[x] /\ loaded[x] \subseteq Report /\ origin \in c
  BY <1>1 DEF RunOK, Shapes, Assigned
<1>6. problemOf \in [Report -> Maybe(Problem)] /\ problemOf \in [Report -> Nat]
  <2>1. Maybe(problems) \subseteq Maybe(Problem) /\ Maybe(Problem) \subseteq Nat
    BY <1>1 DEF TablesOK, Maybe, Problem, NoProblem
  <2> QED
    BY <1>1, <2>1 DEF TablesOK
<1> DEFINE q == [reports |-> c \ Assigned(x, c), problem |-> problemOf[origin]]
           S == [r \in Report |-> IF r \in c THEN problemOf[r] ELSE seen[x][r]]
           P == IF Cardinality(c) = 1 THEN plan[x] ELSE plan[x] \cup {q}
<1>7. q \in [reports : SUBSET loaded[x], problem : Maybe(Problem)]
  BY <1>5, <1>6
<1>8. q \in [reports : SUBSET Report, problem : Nat]
  BY <1>5, <1>6
<1>9. S \in [Report -> Maybe(Problem)] /\ S \in [Report -> Nat]
  BY <1>1, <1>5, <1>6 DEF RunOK, Shapes
<1>10. /\ plan' = [plan EXCEPT ![x] = P] /\ seen' = [seen EXCEPT ![x] = S]
       /\ clusters' = [clusters EXCEPT ![x] = clusters[x] \ {c}]
  BY <1>2, <1>3
<1> HIDE DEF q, S
<1>11. P \subseteq [reports : SUBSET loaded[x], problem : Maybe(Problem)] /\ P \subseteq [reports : SUBSET Report, problem : Nat]
  BY <1>1, <1>7, <1>8 DEF RunOK, Shapes
<1> HIDE DEF P
<1>12. /\ plan'[x] = P /\ seen'[x] = S /\ clusters'[x] = clusters[x] \ {c}
       /\ \A y \in Run \ {x} : plan'[y] = plan[y] /\ seen'[y] = seen[y] /\ clusters'[y] = clusters[y]
  BY <1>1, <1>10 DEF Shapes
<1>13. TablesOK'
  BY <1>1, <1>4 DEF TablesOK, reportVars, dbVars, boundVars, Pcs, Problem, Maybe
<1>14. Shapes'
  BY <1>1, <1>4, <1>9, <1>10, <1>11 DEF Shapes
<1>15. RunOK(x)'
  BY <1>1, <1>4, <1>9, <1>11, <1>12 DEF RunOK, reportVars, dbVars, Problem, Maybe
<1>16. StageOK(x)'
  BY <1>1, <1>4, <1>12 DEF StageOK, Starting, Ending, Writing, Merging
<1> QED
  BY <1>1, <1>4, <1>12, <1>13, <1>14, <1>15, <1>16, RunBase DEF reportVars, dbVars, TablesOK

LEMMA FinishAttachingBase ==
  ASSUME BaseInv, NEW x \in Run, FinishAttaching(x)
  PROVE  BaseInv'
<1>1. TablesOK /\ Shapes /\ RunOK(x) /\ StageOK(x)
  BY DEF BaseInv, RunsOK
<1>2. /\ pc[x] = "attach" /\ clusters[x] = {} /\ Goto(x, "flush")
      /\ UNCHANGED <<reportVars, dbVars, options, loaded, had, dbProblems, clusters, plan, seen, toDelete, boundVars, quiet>>
  BY DEF FinishAttaching
<1>3. pc'[x] = "flush" /\ \A y \in Run \ {x} : pc'[y] = pc[y]
  BY <1>1, <1>2 DEF Goto, TablesOK
<1>4. TablesOK'
  BY <1>1, <1>2 DEF TablesOK, reportVars, dbVars, boundVars, Goto, Pcs, Problem, Maybe
<1>5. Shapes'
  BY <1>1, <1>2 DEF Shapes
<1>6. RunOK(x)'
  BY <1>1, <1>2 DEF RunOK, reportVars, dbVars, Problem, Maybe
<1>7. StageOK(x)'
  BY <1>1, <1>2, <1>3 DEF StageOK, Starting, Ending, Writing, Merging
<1> QED
  BY <1>1, <1>2, <1>3, <1>4, <1>5, <1>6, <1>7, RunBase DEF reportVars, dbVars, TablesOK

LEMMA FindEmptyBase ==
  ASSUME BaseInv, NEW x \in Run, FindEmpty(x)
  PROVE  BaseInv'
<1>1. TablesOK /\ Shapes /\ RunOK(x) /\ StageOK(x)
  BY DEF BaseInv, RunsOK
<1> DEFINE E == {p \in problems : Members(p) = {}}
<1>2. /\ pc[x] = "empty" /\ Goto(x, "delete") /\ toDelete' = [toDelete EXCEPT ![x] = E]
      /\ UNCHANGED <<reportVars, dbVars, options, loaded, had, dbProblems, clusters, plan, seen, boundVars, quiet>>
  BY DEF FindEmpty
<1>3. E \subseteq Problem /\ E \subseteq Nat
  <2>1. E \subseteq problems
    OBVIOUS
  <2>2. problems \subseteq Problem /\ Problem \subseteq Nat
    BY <1>1 DEF TablesOK, Problem
  <2> QED
    BY <2>1, <2>2
<1> HIDE DEF E
<1>4. /\ pc'[x] = "delete" /\ toDelete'[x] = E
      /\ \A y \in Run \ {x} : pc'[y] = pc[y] /\ toDelete'[y] = toDelete[y]
  BY <1>1, <1>2 DEF Goto, TablesOK, Shapes
<1>5. TablesOK'
  BY <1>1, <1>2 DEF TablesOK, reportVars, dbVars, boundVars, Goto, Pcs, Problem, Maybe
<1>6. Shapes'
  BY <1>1, <1>2, <1>3 DEF Shapes
<1>7. RunOK(x)'
  BY <1>1, <1>2, <1>3, <1>4 DEF RunOK, reportVars, dbVars, Problem, Maybe
<1>8. StageOK(x)'
  BY <1>1, <1>2, <1>4 DEF StageOK, Starting, Ending, Writing, Merging
<1> QED
  BY <1>1, <1>2, <1>4, <1>5, <1>6, <1>7, <1>8, RunBase DEF reportVars, dbVars, TablesOK

LEMMA DeleteEmptyBase ==
  ASSUME BaseInv, NEW x \in Run, DeleteEmpty(x)
  PROVE  BaseInv'
<1>1. TablesOK
  BY DEF BaseInv
<1>2. /\ problems' = problems \ toDelete[x] /\ Close(x) /\ Goto(x, "done") /\ Alone(x)
      /\ problemOf' = [r \in Report |-> IF r \in {s \in Report : problemOf[s] \in toDelete[x]} THEN NoProblem ELSE problemOf[r]]
      /\ UNCHANGED <<reportVars, lastId, options, boundVars>>
  BY DEF DeleteEmpty, Unset
<1>3. problemOf' \in [Report -> Maybe(problems')] /\ \A r \in Report \ known : problemOf'[r] = NoProblem
  BY <1>1, <1>2 DEF TablesOK, Maybe, NoProblem
<1>4. pc'[x] = "done" /\ \A y \in Run \ {x} : pc'[y] = pc[y] /\ options'[y] = options[y]
  BY <1>1, <1>2 DEF Goto, TablesOK
<1>5. TablesOK'
  BY <1>1, <1>2, <1>3 DEF TablesOK, reportVars, boundVars, Goto, Alone, Pcs, Problem
<1>6. known' = known /\ lastId <= lastId'
  BY <1>1, <1>2 DEF reportVars, TablesOK
<1> QED
  BY <1>2, <1>4, <1>5, <1>6, StopBase

LEMMA PlanFinite ==
  ASSUME BaseInv, NEW x \in Run
  PROVE  IsFiniteSet(plan[x])
<1>1. plan[x] \subseteq [reports : SUBSET Report, problem : 0 .. lastId] /\ lastId \in Nat
  <2>1. RunOK(x) /\ loaded[x] \subseteq Report /\ lastId \in Nat
    BY DEF BaseInv, RunsOK, Shapes, TablesOK
  <2>2. Maybe(Problem) \subseteq 0 .. lastId
    BY <2>1 DEF Maybe, Problem, NoProblem
  <2> QED
    BY <2>1, <2>2 DEF RunOK
<1> DEFINE T == (SUBSET Report) \X (0 .. lastId)
           g == [q \in plan[x] |-> <<q.reports, q.problem>>]
<1>2. IsFiniteSet(SUBSET Report)
  BY ProblemsAssumption, FS_SUBSET
<1>3. IsFiniteSet(0 .. lastId)
  BY <1>1, FS_Interval
<1>4. IsFiniteSet(T)
  BY <1>2, <1>3, FS_Product
<1>5. g \in [plan[x] -> T]
  BY <1>1
<1>6. \A q, s \in plan[x] : g[q] = g[s] => q = s
  BY <1>1
<1>7. g \in Injection(plan[x], T)
  BY <1>5, <1>6 DEF Injection, IsInjective
<1> QED
  BY <1>4, <1>7, FS_Injection

\* What a flush does to the tables.
FlushedTo(x, r) ==
  \/ \E q \in plan[x] : q.problem = NoProblem /\ r \in q.reports
  \/ \E q \in plan[x] : r \in Updated(x, q)

NewRows(x, more) == {q \in plan[x] : q.problem = NoProblem} \cup more

Numbers(x, more, id) ==
  /\ id \in [NewRows(x, more) -> lastId + 1 .. lastId']
  /\ \A q, s \in NewRows(x, more) : id[q] = id[s] => q = s

Written(x, id) ==
  \A r \in Report :
    \/ \E q \in plan[x] : q.problem = NoProblem /\ r \in q.reports /\ problemOf'[r] = id[q]
    \/ /\ ~\E q \in plan[x] : q.problem = NoProblem /\ r \in q.reports
       /\ \E q \in plan[x] : r \in Updated(x, q) /\ problemOf'[r] = q.problem
    \/ ~FlushedTo(x, r) /\ problemOf'[r] = problemOf[r]

LEMMA WriteEffect ==
  ASSUME BaseInv, NEW x \in Run, NEW more, IsFiniteSet(more), WriteWith(x, more)
  PROVE  /\ lastId' \in Nat /\ lastId <= lastId'
         /\ lastId' = lastId + Cardinality(NewRows(x, more))
         /\ problems' = problems \cup (lastId + 1 .. lastId')
         /\ DOMAIN problemOf' = Report /\ problemOf' = [r \in Report |-> problemOf'[r]]
         /\ \E id : /\ Numbers(x, more, id) /\ Written(x, id)
                    /\ plan' = [plan EXCEPT ![x] =
                         {[reports |-> q.reports, problem |-> id[q]] : q \in more}]
<1> DEFINE new == NewRows(x, more)
<1>1. PICK id \in [new -> lastId + 1 .. lastId + Cardinality(new)] :
        /\ \A q, r \in new : id[q] = id[r] => q = r
        /\ lastId' = lastId + Cardinality(new)
        /\ problems' = problems \cup (lastId + 1 .. lastId + Cardinality(new))
        /\ problemOf' = [r \in Report |->
             IF \E q \in plan[x] : q.problem = NoProblem /\ r \in q.reports
             THEN id[CHOOSE q \in plan[x] : q.problem = NoProblem /\ r \in q.reports]
             ELSE IF \E q \in plan[x] : r \in Updated(x, q)
             THEN (CHOOSE q \in plan[x] : r \in Updated(x, q)).problem
             ELSE problemOf[r]]
        /\ plan' = [plan EXCEPT ![x] =
             {[reports |-> q.reports, problem |-> id[q]] : q \in more}]
  BY DEF WriteWith, NewRows
<1>2. IsFiniteSet(new)
  <2>1. IsFiniteSet({q \in plan[x] : q.problem = NoProblem})
    BY PlanFinite, FS_Subset
  <2> QED
    BY <2>1, FS_Union DEF NewRows
<1>3. Cardinality(new) \in Nat /\ lastId \in Nat
  BY <1>2, FS_CardinalityType DEF BaseInv, TablesOK
<1>4. Numbers(x, more, id)
  BY <1>1 DEF Numbers
<1>5. Written(x, id)
  <2> SUFFICES ASSUME NEW r \in Report
               PROVE  \/ \E q \in plan[x] : q.problem = NoProblem /\ r \in q.reports /\ problemOf'[r] = id[q]
                      \/ /\ ~\E q \in plan[x] : q.problem = NoProblem /\ r \in q.reports
                         /\ \E q \in plan[x] : r \in Updated(x, q) /\ problemOf'[r] = q.problem
                      \/ ~FlushedTo(x, r) /\ problemOf'[r] = problemOf[r]
    BY DEF Written
  <2> DEFINE N(q) == q.problem = NoProblem /\ r \in q.reports
             U(q) == r \in Updated(x, q)
  <2>1. problemOf'[r] = IF \E q \in plan[x] : N(q) THEN id[CHOOSE q \in plan[x] : N(q)]
                        ELSE IF \E q \in plan[x] : U(q) THEN (CHOOSE q \in plan[x] : U(q)).problem
                        ELSE problemOf[r]
    BY <1>1
  <2>2. CASE \E q \in plan[x] : N(q)
    <3>1. PICK q \in plan[x] : q = CHOOSE s \in plan[x] : N(s)
      BY <2>2
    <3>2. N(q)
      BY <2>2, <3>1
    <3>3. problemOf'[r] = id[q]
      BY <2>1, <2>2, <3>1
    <3> QED
      BY <3>2, <3>3
  <2>3. CASE (~\E q \in plan[x] : N(q)) /\ \E q \in plan[x] : U(q)
    <3>1. PICK q \in plan[x] : q = CHOOSE s \in plan[x] : U(s)
      BY <2>3
    <3>2. U(q)
      BY <2>3, <3>1
    <3>3. problemOf'[r] = q.problem
      BY <2>1, <2>3, <3>1
    <3> QED
      BY <2>3, <3>2, <3>3
  <2>4. CASE (~\E q \in plan[x] : N(q)) /\ ~\E q \in plan[x] : U(q)
    BY <2>1, <2>4 DEF FlushedTo
  <2> QED
    BY <2>2, <2>3, <2>4
<1>6. problems' = problems \cup (lastId + 1 .. lastId') /\ lastId' = lastId + Cardinality(new)
  BY <1>1
<1>7. lastId' \in Nat /\ lastId <= lastId'
  BY <1>3, <1>6
<1>8. DOMAIN problemOf' = Report /\ problemOf' = [r \in Report |-> problemOf'[r]]
  BY <1>1
<1>9. \E i : /\ Numbers(x, more, i) /\ Written(x, i)
             /\ plan' = [plan EXCEPT ![x] = {[reports |-> q.reports, problem |-> i[q]] : q \in more}]
  BY <1>1, <1>4, <1>5
<1> QED
  BY <1>6, <1>7, <1>8, <1>9

LEMMA WriteTables ==
  ASSUME BaseInv, NEW x \in Run, NEW more \in SUBSET [reports : SUBSET loaded[x], problem : {NoProblem}],
         IsFiniteSet(more), WriteWith(x, more), ~FlushFails(x)
  PROVE  /\ problems' \subseteq Problem' /\ problemOf' \in [Report -> Maybe(problems')]
         /\ \A r \in Report \ known : problemOf'[r] = NoProblem
         /\ \E P \in SUBSET [reports : SUBSET loaded[x], problem : Problem'] :
              plan' = [plan EXCEPT ![x] = P] /\ (more = {} => P = {})
<1>1. TablesOK /\ Shapes /\ RunOK(x)
  BY DEF BaseInv, RunsOK
<1>2. PICK id : /\ Numbers(x, more, id) /\ Written(x, id)
                /\ plan' = [plan EXCEPT ![x] = {[reports |-> q.reports, problem |-> id[q]] : q \in more}]
  BY WriteEffect
<1>3. /\ lastId \in Nat /\ lastId' \in Nat /\ lastId <= lastId'
      /\ problems' = problems \cup (lastId + 1 .. lastId') /\ problemOf' = [r \in Report |-> problemOf'[r]]
  BY <1>1, WriteEffect DEF TablesOK
<1>4. problems' \subseteq Problem'
  BY <1>1, <1>3 DEF TablesOK, Problem
<1>5. \A q \in NewRows(x, more) : id[q] \in lastId + 1 .. lastId'
  BY <1>2 DEF Numbers
<1>6. ASSUME NEW r \in Report
      PROVE  problemOf'[r] \in Maybe(problems') /\ (r \notin known => problemOf'[r] = NoProblem)
  <2>1. loaded[x] \subseteq known /\ \A q \in plan[x] : q.reports \subseteq loaded[x]
    BY <1>1 DEF RunOK
  <2>2. CASE \E q \in plan[x] : q.problem = NoProblem /\ r \in q.reports /\ problemOf'[r] = id[q]
    <3>1. PICK q \in plan[x] : q.problem = NoProblem /\ r \in q.reports /\ problemOf'[r] = id[q]
      BY <2>2
    <3>2. q \in NewRows(x, more)
      BY <3>1 DEF NewRows
    <3> QED
      BY <1>3, <1>5, <2>1, <3>1, <3>2 DEF Maybe
  <2>3. CASE \E q \in plan[x] : r \in Updated(x, q) /\ problemOf'[r] = q.problem
    <3>1. PICK q \in plan[x] : r \in Updated(x, q) /\ problemOf'[r] = q.problem
      BY <2>3
    <3>2. q.problem \in Maybe(problems) /\ r \in q.reports
      BY <3>1 DEF FlushFails, Updated
    <3> QED
      BY <1>3, <2>1, <3>1, <3>2 DEF Maybe
  <2>4. CASE problemOf'[r] = problemOf[r]
    BY <1>1, <1>3, <2>4 DEF TablesOK, Maybe
  <2> QED
    BY <1>2, <2>2, <2>3, <2>4 DEF Written
<1>7. problemOf' \in [Report -> Maybe(problems')]
  BY <1>3, <1>6
<1> DEFINE P == {[reports |-> q.reports, problem |-> id[q]] : q \in more}
<1>8. P \subseteq [reports : SUBSET loaded[x], problem : Problem']
  <2> SUFFICES ASSUME NEW q \in more
               PROVE  q.reports \subseteq loaded[x] /\ id[q] \in Problem'
    OBVIOUS
  <2>1. q \in NewRows(x, more)
    BY DEF NewRows
  <2>2. id[q] \in lastId + 1 .. lastId'
    BY <1>5, <2>1
  <2> QED
    BY <1>3, <2>2 DEF Problem
<1>9. more = {} => P = {}
  OBVIOUS
<1>10. plan' = [plan EXCEPT ![x] = P]
  BY <1>2
<1> HIDE DEF P
<1> QED
  BY <1>4, <1>6, <1>7, <1>8, <1>9, <1>10

LEMMA FlushBase ==
  ASSUME BaseInv, NEW x \in Run, Flush(x), ~FlushFails(x) \/ ~Stop(x)
  PROVE  BaseInv'
<1>1. TablesOK /\ Shapes /\ RunOK(x) /\ StageOK(x)
  BY DEF BaseInv, RunsOK
<1>2. /\ pc[x] = "flush" /\ ~FlushFails(x) /\ WriteWith(x, {}) /\ Goto(x, "empty") /\ Alone(x)
      /\ loaded' = [loaded EXCEPT ![x] = {}] /\ had' = [had EXCEPT ![x] = NothingLoaded]
      /\ dbProblems' = [dbProblems EXCEPT ![x] = {}] /\ seen' = [seen EXCEPT ![x] = NothingLoaded]
      /\ UNCHANGED <<options, clusters, toDelete, reportVars, boundVars>>
  BY DEF Flush
<1>3. IsFiniteSet({})
  BY FS_EmptySet
<1>4. lastId' \in Nat /\ lastId <= lastId'
  BY <1>2, <1>3, WriteEffect
<1>5. /\ problems' \subseteq Problem' /\ problemOf' \in [Report -> Maybe(problems')]
      /\ \A r \in Report \ known : problemOf'[r] = NoProblem
      /\ plan' = [plan EXCEPT ![x] = {}]
  BY <1>2, <1>3, WriteTables
<1>6. clusters[x] = {}
  BY <1>1, <1>2 DEF StageOK, Writing
<1>7. /\ loaded'[x] = {} /\ had'[x] = NothingLoaded /\ dbProblems'[x] = {} /\ clusters'[x] = {}
      /\ plan'[x] = {} /\ seen'[x] = NothingLoaded /\ toDelete'[x] = toDelete[x] /\ pc'[x] = "empty"
      /\ \A y \in Run \ {x} :
           /\ pc'[y] = pc[y] /\ options'[y] = options[y]
           /\ loaded'[y] = loaded[y] /\ had'[y] = had[y] /\ dbProblems'[y] = dbProblems[y]
           /\ clusters'[y] = clusters[y] /\ plan'[y] = plan[y] /\ seen'[y] = seen[y]
           /\ toDelete'[y] = toDelete[y]
  BY <1>1, <1>2, <1>5, <1>6 DEF Shapes, TablesOK, Goto
<1>8. TablesOK'
  BY <1>1, <1>2, <1>4, <1>5 DEF TablesOK, reportVars, boundVars, Goto, Alone, Pcs
<1>9. Shapes'
  BY <1>1, <1>2, <1>5, EmptyShapes DEF Shapes
<1>10. NothingLoaded \in [Report -> Maybe(Problem')] /\ Problem \subseteq Problem'
  BY <1>1, <1>4, EmptyShapes DEF Problem, TablesOK
<1>11. RunOK(x)'
  BY <1>1, <1>7, <1>10 DEF RunOK
<1>12. StageOK(x)'
  BY <1>7 DEF StageOK, Starting, Ending, Writing, Merging
<1> QED
  BY <1>2, <1>4, <1>7, <1>8, <1>9, <1>11, <1>12, RunBase DEF reportVars

LEMMA AttachToNewBase ==
  ASSUME BaseInv, NEW x \in Run, AttachToNew(x), ~FlushFails(x) \/ ~Stop(x)
  PROVE  BaseInv'
<1>1. TablesOK /\ Shapes /\ RunOK(x) /\ StageOK(x)
  BY DEF BaseInv, RunsOK
<1>2. PICK c \in clusters[x] :
        /\ ~FlushFails(x) /\ WriteWith(x, {[reports |-> c, problem |-> NoProblem]})
        /\ seen' = [seen EXCEPT ![x] = NothingLoaded] /\ clusters' = [clusters EXCEPT ![x] = @ \ {c}]
        /\ Alone(x) /\ UNCHANGED <<pc, options, loaded, had, dbProblems, toDelete>>
  BY DEF AttachToNew
<1>3. pc[x] = "attach" /\ UNCHANGED <<reportVars, boundVars>>
  BY DEF AttachToNew
<1> DEFINE q == [reports |-> c, problem |-> NoProblem]
<1>4. IsFiniteSet({q}) /\ {q} \in SUBSET [reports : SUBSET loaded[x], problem : {NoProblem}]
  <2>1. q \in [reports : SUBSET loaded[x], problem : {NoProblem}]
    BY <1>1 DEF RunOK
  <2> HIDE DEF q
  <2> QED
    BY <2>1, FS_Singleton
<1>5. lastId' \in Nat /\ lastId <= lastId'
  BY <1>2, <1>4, WriteEffect
<1>6. /\ problems' \subseteq Problem' /\ problemOf' \in [Report -> Maybe(problems')]
      /\ \A r \in Report \ known : problemOf'[r] = NoProblem
      /\ \E P \in SUBSET [reports : SUBSET loaded[x], problem : Problem'] : plan' = [plan EXCEPT ![x] = P]
  BY <1>2, <1>4, WriteTables
<1> HIDE DEF q
<1>7. PICK P \in SUBSET [reports : SUBSET loaded[x], problem : Problem'] : plan' = [plan EXCEPT ![x] = P]
  BY <1>6
<1>8. /\ clusters'[x] = clusters[x] \ {c} /\ plan'[x] = P /\ seen'[x] = NothingLoaded
      /\ \A y \in Run \ {x} : clusters'[y] = clusters[y] /\ plan'[y] = plan[y] /\ seen'[y] = seen[y]
  BY <1>1, <1>2, <1>7 DEF Shapes
<1>9. TablesOK'
  BY <1>1, <1>2, <1>3, <1>5, <1>6 DEF TablesOK, reportVars, boundVars, Alone, Pcs
<1>10. Problem \subseteq Problem' /\ Problem' \subseteq Nat
  BY <1>1, <1>5 DEF Problem, TablesOK
<1>11. P \subseteq [reports : SUBSET Report, problem : Nat]
  BY <1>1, <1>10 DEF Shapes
<1>12. Shapes'
  BY <1>1, <1>2, <1>7, <1>11, EmptyShapes DEF Shapes
<1>13. RunOK(x)'
  BY <1>1, <1>2, <1>3, <1>8, <1>10, EmptyShapes DEF RunOK, reportVars, Maybe
<1>14. StageOK(x)'
  BY <1>1, <1>2, <1>3, <1>8 DEF StageOK, Starting, Ending, Writing, Merging
<1> QED
  BY <1>2, <1>3, <1>5, <1>8, <1>9, <1>12, <1>13, <1>14, RunBase DEF reportVars

\* A run fails where it is given a choice to.
LEMMA FailedBase ==
  ASSUME BaseInv, NEW x \in Run, LookUp(x) \/ Flush(x) \/ AttachToNew(x), Stop(x), UNCHANGED dbVars
  PROVE  BaseInv' /\ pc'[x] = "idle" /\ ~quiet'[x]
<1>1. TablesOK
  BY DEF BaseInv
<1>2. UNCHANGED <<reportVars, starts, changes, crashes>>
  BY DEF LookUp, Flush, AttachToNew, boundVars
<1> QED
  BY <1>1, <1>2, StoppedBase DEF TablesOK

\* A step of a run either keeps the session or closes it.
LEMMA StepCases ==
  ASSUME NEW x \in Run, LookUp(x) \/ Flush(x) \/ AttachToNew(x)
  PROVE  \/ Stop(x) /\ UNCHANGED dbVars
         \/ LookUp(x) /\ ~LookupFails(x)
         \/ (Flush(x) \/ AttachToNew(x)) /\ ~FlushFails(x)
BY DEF LookUp, Flush, AttachToNew

LEMMA StepBase ==
  ASSUME BaseInv, NEW x \in Run, Step(x)
  PROVE  BaseInv'
<1>1. CASE LookUp(x)
  BY <1>1, LookUpBase, FailedBase, StepCases DEF LookUp
<1>2. CASE Flush(x)
  BY <1>2, FlushBase, FailedBase, StepCases DEF Flush
<1>3. CASE AttachToNew(x)
  BY <1>3, AttachToNewBase, FailedBase, StepCases DEF AttachToNew
<1> QED
  BY <1>1, <1>2, <1>3, LoadProblemsBase, MatchBestBase, CreateRestBase, UnassignBase,
     UnassignLowBase, StartAttachingBase, AttachBase, FinishAttachingBase, FindEmptyBase,
     DeleteEmptyBase DEF Step

LEMMA BaseNext == BaseInv /\ [Next]_vars => BaseInv'
<1> SUFFICES ASSUME BaseInv, [Next]_vars PROVE BaseInv'
  OBVIOUS
<1>1. CASE UNCHANGED vars
  <2>1. TablesOK' /\ known \subseteq known'
    BY <1>1 DEF BaseInv, TablesOK, vars, reportVars, dbVars, runVars, boundVars, Problem, Maybe
  <2> QED
    BY <1>1, <2>1, OutsideBase DEF vars
<1>2. CASE \E x \in Run : \/ \E opts \in CommandLine : LoadReports(x, opts)
                          \/ Step(x) \/ Crash(x)
  BY <1>2, LoadReportsBase, StepBase, CrashBase
<1> QED
  BY <1>1, <1>2, SaveReportBase, CountReportBase, RetraceBase DEF Next

LEMMA BaseAlways == Spec => []BaseInv
<1>1. Init => BaseInv
  BY BaseInit
<1>2. BaseInv /\ [Next]_vars => BaseInv'
  BY BaseNext
<1> QED
  BY <1>1, <1>2, PTL DEF Spec

\* Whatever runs overlap, are killed or fail, the tables and the sessions keep their
\* types: no report refers to a problem that is gone, and a session holds nothing
\* but reports of the database and problems that were once written.
THEOREM TypeCorrect == Spec => []TypeOK
<1> QED
  BY BaseType, BaseAlways, PTL

LEMMA ClustersKept ==
  ASSUME NEW x \in Run, UNCHANGED <<invalid, group>>, loaded'[x] = loaded[x], had'[x] = had[x]
  PROVE  Clusters(x)' = Clusters(x)
BY DEF Clusters

LEMMA TablesKept ==
  ASSUME NEW x \in Run, UNCHANGED <<reportVars, problemOf, problems>>, options'[x] = options[x]
  PROVE  /\ Merged(options[x])' = Merged(options[x]) /\ Attached(options[x])' = Attached(options[x])
         /\ NoneEmpty' = NoneEmpty
         /\ Ignored(options[x])' = Ignored(options[x])
         /\ Representatives' = Representatives /\ Unassigned(options[x])' = Unassigned(options[x])
         /\ {p \in problems : Members(p) = {}}' = {p \in problems : Members(p) = {}}
<1>1. Ignored(options[x])' = Ignored(options[x])
  BY DEF Ignored, reportVars
<1>2. \A p : Members(p)' = Members(p)
  BY DEF Members, reportVars
<1>3. Clustered(options[x])' = Clustered(options[x])
  BY <1>1 DEF Clustered, reportVars
<1>4. Merged(options[x])' = Merged(options[x])
  BY <1>3 DEF Merged, reportVars
<1>5. Attached(options[x])' = Attached(options[x])
  BY <1>1 DEF Attached, reportVars
<1>6. NoneEmpty' = NoneEmpty
  BY <1>2 DEF NoneEmpty
<1>7. Representatives' = Representatives /\ Unassigned(options[x])' = Unassigned(options[x])
  BY <1>1, <1>2 DEF Representatives, Unassigned, reportVars
<1>8. {p \in problems : Members(p) = {}}' = {p \in problems : Members(p) = {}}
  BY <1>2
<1> QED
  BY <1>1, <1>4, <1>5, <1>6, <1>7, <1>8

LEMMA QuietKept ==
  ASSUME NEW x \in Run, UNCHANGED <<reportVars, problemOf, problems>>, Untouched(x), QuietOK(x)
  PROVE  QuietOK(x)'
<1>1. Clusters(x)' = Clusters(x)
  BY ClustersKept DEF Untouched, reportVars
<1>2. /\ Merged(options[x])' = Merged(options[x]) /\ Attached(options[x])' = Attached(options[x])
      /\ NoneEmpty' = NoneEmpty
      /\ Ignored(options[x])' = Ignored(options[x])
      /\ Representatives' = Representatives /\ Unassigned(options[x])' = Unassigned(options[x])
      /\ {p \in problems : Members(p) = {}}' = {p \in problems : Members(p) = {}}
  BY TablesKept DEF Untouched
<1>3. CleanInv(x)'
  BY <1>2 DEF CleanInv, QuietOK, Untouched
<1>4. LoadedAll(x) => LoadedAll(x)'
  BY <1>2 DEF LoadedAll, Valid, Matching, Untouched, reportVars
<1>5. Planned(x) => Planned(x)'
  BY <1>1 DEF Planned, Untouched
<1>6. Kept(x) => Kept(x)'
  BY <1>1 DEF Kept, Uniform, Untouched, reportVars
<1>7. LoadedNew(x) => LoadedNew(x)'
  BY <1>2 DEF LoadedNew, Untouched
<1>8. Attaching(x) => Attaching(x)'
  BY <1>2 DEF Attaching, Untouched, reportVars
<1>9. MergeInv(x) => MergeInv(x)'
  BY <1>2, <1>4, <1>5, <1>6 DEF MergeInv, Matching, Untouched
<1>10. AttachInv(x) => AttachInv(x)'
  BY <1>2, <1>7, <1>8 DEF AttachInv, Untouched
<1> QED
  BY <1>3, <1>9, <1>10 DEF QuietOK, Untouched

-----------------------------------------------------------------------------
\* The clusters of a run are disjoint: two reports are in the same one exactly
\* if they are similar.
LEMMA ClustersPartition ==
  ASSUME BaseInv, NEW x \in Run
  PROVE  /\ \A c \in Clusters(x) : c # {} /\ c \subseteq loaded[x] /\ c \cap Valid(x) = {}
         /\ \A c, d \in Clusters(x) : \A r \in c : \A s \in d : group[r] = group[s] <=> c = d
         /\ Cardinality(loaded[x]) # 1 => UNION Clusters(x) = loaded[x] \ invalid
<1>1. IsFiniteSet(loaded[x])
  <2>1. loaded[x] \subseteq Report
    BY DEF BaseInv, RunsOK, Shapes
  <2> QED
    BY <2>1, ProblemsAssumption, FS_Subset
<1>2. CASE Cardinality(loaded[x]) = 1
  <2>1. PICK a : loaded[x] = {a}
    BY <1>1, <1>2, FS_Singleton
  <2>2. Clusters(x) \subseteq {{a}}
    BY <1>2, <2>1 DEF Clusters
  <2>3. Valid(x) = {}
    BY <1>2 DEF Valid
  <2> QED
    BY <1>2, <2>1, <2>2, <2>3
<1>3. CASE Cardinality(loaded[x]) # 1
  <2> DEFINE valid == loaded[x] \ invalid
  <2>1. Clusters(x) = {{s \in valid : group[s] = group[r]} : r \in valid}
    BY <1>3 DEF Clusters
  <2>2. Valid(x) = loaded[x] \cap invalid
    BY <1>3 DEF Valid
  <2>3. ASSUME NEW c \in Clusters(x)
        PROVE  c # {} /\ c \subseteq loaded[x] /\ c \cap Valid(x) = {}
    BY <2>1, <2>2
  <2>4. ASSUME NEW c \in Clusters(x), NEW d \in Clusters(x), NEW r \in c, NEW s \in d
        PROVE  group[r] = group[s] <=> c = d
    <3>1. c = {t \in valid : group[t] = group[r]} /\ d = {t \in valid : group[t] = group[s]}
      BY <2>1
    <3> QED
      BY <3>1
  <2>5. UNION Clusters(x) = valid
    BY <2>1
  <2> QED
    BY <1>3, <2>3, <2>4, <2>5
<1> QED
  BY <1>2, <1>3

LEMMA MatchFinds ==
  ASSUME BaseInv, NEW x \in Run, NEW c \in clusters[x], NEW p
  PROVE  /\ Match(x, c, p) \in Nat
         /\ Match(x, c, p) > 0 <=> \E r \in c : seen[x][r] = p
<1> DEFINE s == {r \in c : seen[x][r] = p}
<1>1. c \subseteq Report
  BY DEF BaseInv, RunsOK, Shapes
<1>2. IsFiniteSet(s)
  BY <1>1, ProblemsAssumption, FS_Subset
<1>3. Cardinality(s) \in Nat /\ (Cardinality(s) = 0 <=> s = {})
  BY <1>2, FS_CardinalityType, FS_EmptySet
<1> QED
  BY <1>3 DEF Match

LEMMA RunOthers ==
  ASSUME BaseInv, NEW x \in Run, (\E opts \in CommandLine : LoadReports(x, opts)) \/ Step(x) \/ Crash(x),
         NEW y \in Run \ {x}, quiet'[y]
  PROVE  quiet[y] /\ Untouched(y) /\ UNCHANGED <<reportVars, problemOf, problems>>
<1> USE DEF Untouched, Goto
<1>1. Shapes /\ TablesOK
  BY DEF BaseInv, RunsOK
<1>2. CASE \E opts \in CommandLine : LoadReports(x, opts)
  BY <1>1, <1>2 DEF LoadReports, dbVars, Shapes, TablesOK
<1>3. ASSUME Stop(x) PROVE quiet[y] /\ Untouched(y)
  BY <1>1, <1>3 DEF Stop, Close, Shapes, TablesOK
<1>4. CASE Crash(x)
  BY <1>3, <1>4 DEF Crash, dbVars
<1>5. CASE LoadProblems(x) \/ MatchBest(x) \/ CreateRest(x)
  BY <1>1, <1>5 DEF LoadProblems, MatchBest, CreateRest, dbVars, Shapes, TablesOK
<1>6. CASE StartAttaching(x) \/ Attach(x) \/ FinishAttaching(x) \/ FindEmpty(x)
  BY <1>1, <1>6 DEF StartAttaching, Attach, FinishAttaching, FindEmpty, dbVars, Shapes, TablesOK
<1>7. ~Alone(x)
  BY DEF Alone
<1>8. ~Unassign(x) /\ ~UnassignLow(x) /\ ~DeleteEmpty(x)
  BY <1>7 DEF Unassign, UnassignLow, DeleteEmpty
<1>9. CASE Flush(x) \/ AttachToNew(x)
  <2>1. Stop(x) /\ UNCHANGED <<reportVars, dbVars>>
    BY <1>7, <1>9 DEF Flush, AttachToNew
  <2> QED
    BY <1>3, <2>1 DEF dbVars
<1>10. CASE LookUp(x)
  <2>1. UNCHANGED <<reportVars, dbVars>>
    BY <1>10 DEF LookUp
  <2>2. CASE Stop(x)
    BY <1>3, <2>1, <2>2 DEF dbVars
  <2>3. CASE ~Stop(x)
    BY <1>1, <1>10, <2>3 DEF LookUp, dbVars, Shapes, TablesOK
  <2> QED
    BY <2>2, <2>3
<1> QED
  BY <1>2, <1>4, <1>5, <1>6, <1>8, <1>9, <1>10 DEF Step

-----------------------------------------------------------------------------
\* What a run finds as it left it, when nobody else wrote.
LEMMA LoadReportsQuiet ==
  ASSUME BaseInv, NEW x \in Run, NEW opts \in CommandLine, LoadReports(x, opts)
  PROVE  QuietOK(x)'
<1>1. TablesOK /\ Shapes
  BY DEF BaseInv, RunsOK
<1>2. /\ pc'[x] = "problems" /\ options'[x] = opts
      /\ loaded'[x] = IF "speedup" \in opts THEN Representatives \cup Unassigned(opts)
                      ELSE known \ Ignored(opts)
      /\ had'[x] = Restricted(problemOf, loaded'[x])
      /\ UNCHANGED <<known, low, problemOf>>
  BY <1>1 DEF LoadReports, Goto, Shapes, TablesOK, reportVars, dbVars
<1>3. loaded'[x] \subseteq Report
  BY <1>1, <1>2 DEF Representatives, Unassigned, TablesOK
<1>4. \A r \in loaded'[x] : problemOf'[r] = had'[x][r]
  BY <1>2, <1>3 DEF Restricted
<1>5. CleanInv(x)'
  BY <1>2 DEF CleanInv
<1>6. CASE "speedup" \in opts
  <2>1. \A p : Members(p)' = Members(p)
    BY <1>2 DEF Members
  <2>2. Representatives' = Representatives
    BY <1>2, <2>1 DEF Representatives
  <2>3. Unassigned(options[x])' = Unassigned(opts)
    BY <1>2 DEF Unassigned, Ignored
  <2>4. LoadedNew(x)'
    BY <1>2, <1>4, <1>6, <2>2, <2>3 DEF LoadedNew
  <2> QED
    BY <1>2, <1>5, <1>6, <2>4 DEF QuietOK, AttachInv
<1>7. CASE "speedup" \notin opts
  <2>1. Ignored(options[x])' = Ignored(opts)
    BY <1>2 DEF Ignored
  <2>2. LoadedAll(x)'
    BY <1>2, <1>4, <1>7, <2>1 DEF LoadedAll, Matching
  <2> QED
    BY <1>2, <1>5, <1>7, <2>2 DEF QuietOK, MergeInv, Matching
<1> QED
  BY <1>6, <1>7

LEMMA LoadProblemsQuiet ==
  ASSUME BaseInv, NEW x \in Run, LoadProblems(x), QuietOK(x)
  PROVE  QuietOK(x)'
<1>1. TablesOK /\ Shapes
  BY DEF BaseInv, RunsOK
<1>2. /\ pc[x] = "problems" /\ pc'[x] = "cluster" /\ dbProblems'[x] = problems
      /\ UNCHANGED <<reportVars, problemOf, problems, options, loaded, had>>
  BY <1>1 DEF LoadProblems, Goto, Shapes, TablesOK, dbVars
<1>3. /\ Ignored(options[x])' = Ignored(options[x])
      /\ Representatives' = Representatives /\ Unassigned(options[x])' = Unassigned(options[x])
  BY <1>2, TablesKept
<1>4. CleanInv(x)'
  BY <1>2 DEF CleanInv
<1>5. CASE "speedup" \in options[x]
  <2>1. LoadedNew(x)'
    BY <1>2, <1>3, <1>5 DEF QuietOK, AttachInv, LoadedNew
  <2> QED
    BY <1>2, <1>4, <1>5, <2>1 DEF QuietOK, AttachInv
<1>6. CASE "speedup" \notin options[x]
  <2>1. LoadedAll(x)'
    BY <1>2, <1>3, <1>6 DEF QuietOK, MergeInv, LoadedAll, Matching, reportVars
  <2> QED
    BY <1>2, <1>4, <1>6, <2>1 DEF QuietOK, MergeInv, Matching
<1> QED
  BY <1>5, <1>6

LEMMA LookUpQuiet ==
  ASSUME BaseInv, NEW x \in Run, LookUp(x), ~Stop(x), QuietOK(x)
  PROVE  QuietOK(x)'
<1>1. TablesOK /\ Shapes
  BY DEF BaseInv, RunsOK
<1>2. /\ pc[x] = "cluster" /\ "speedup" \notin options[x] /\ pc'[x] = "match"
      /\ plan'[x] = UNION {{[reports |-> c, problem |-> p] : p \in Reused(x, c)} : c \in Clusters(x)}
      /\ clusters'[x] = {c \in Clusters(x) : Reused(x, c) = {}}
      /\ seen'[x] = Restricted(problemOf, loaded[x])
      /\ UNCHANGED <<options, loaded, had, dbProblems, reportVars, problemOf, problems>>
  BY <1>1 DEF LookUp, Goto, TablesOK, Shapes, dbVars
<1>3. LoadedAll(x)
  BY <1>2 DEF QuietOK, MergeInv
<1>4. loaded[x] \subseteq Report
  BY <1>1 DEF Shapes
<1>5. LoadedAll(x)'
  <2>1. Ignored(options[x])' = Ignored(options[x])
    BY <1>2, TablesKept
  <2>2. \A r \in loaded[x] : seen'[x][r] = problemOf[r]
    BY <1>2, <1>4 DEF Restricted
  <2> QED
    BY <1>2, <1>3, <2>1, <2>2 DEF LoadedAll, Matching, reportVars
<1>6. Clusters(x)' = Clusters(x)
  BY <1>2, ClustersKept DEF reportVars
<1>7. ASSUME NEW q \in plan'[x]
      PROVE  /\ q.reports \in Clusters(x) /\ q.problem \in Reused(x, q.reports)
             /\ q = [reports |-> q.reports, problem |-> q.problem]
             /\ q.problem # NoProblem
             /\ q.reports = {t \in loaded[x] : had[x][t] = q.problem}
  <2>1. PICK c \in Clusters(x) : \E p \in Reused(x, c) : q = [reports |-> c, problem |-> p]
    BY <1>2
  <2>2. PICK p \in Reused(x, c) : q = [reports |-> c, problem |-> p]
    BY <2>1
  <2>3. p # NoProblem /\ c = {t \in loaded[x] : had[x][t] = p}
    BY ReusedInside
  <2> QED
    BY <2>2, <2>3
<1>8. Planned(x)'
  <2>1. clusters'[x] \subseteq Clusters(x)
    BY <1>2
  <2>2. \A q \in plan'[x] : q.reports \in Clusters(x) \ clusters'[x]
    BY <1>2, <1>7
  <2>3. ASSUME NEW c \in Clusters(x)
        PROVE  c \in clusters'[x] \/ \E q \in plan'[x] : q.reports = c
    <3>1. CASE Reused(x, c) = {}
      BY <1>2, <3>1
    <3>2. ASSUME NEW p \in Reused(x, c)
          PROVE  \E q \in plan'[x] : q.reports = c
      <4>1. [reports |-> c, problem |-> p] \in plan'[x]
        BY <1>2
      <4> QED
        BY <4>1
    <3> QED
      BY <3>1, <3>2
  <2>4. ASSUME NEW q \in plan'[x], NEW s \in plan'[x], q.reports = s.reports
        PROVE  q = s
    <3>1. PICK r \in q.reports : q.problem = had[x][r]
      BY <1>7, ReusedInside
    <3>2. s.problem = had[x][r]
      BY <1>7, <2>4, <3>1
    <3> QED
      BY <1>7, <2>4, <3>1, <3>2
  <2>5. ASSUME NEW q \in plan'[x], NEW s \in plan'[x], q.problem = s.problem
        PROVE  q = s
    BY <1>7, <2>5
  <2> QED
    BY <1>2, <1>6, <1>7, <2>1, <2>2, <2>3, <2>4, <2>5 DEF Planned
<1>9. Kept(x)'
  BY <1>2, <1>7 DEF Kept
<1>10. CleanInv(x)'
  BY <1>2 DEF CleanInv
<1> QED
  BY <1>2, <1>5, <1>8, <1>9, <1>10 DEF QuietOK, MergeInv

LEMMA MatchBestQuiet ==
  ASSUME BaseInv, NEW x \in Run, MatchBest(x), QuietOK(x)
  PROVE  QuietOK(x)'
<1>1. TablesOK /\ Shapes /\ RunOK(x) /\ StageOK(x)
  BY DEF BaseInv, RunsOK
<1>2. PICK m \in Matches(x) :
        /\ plan' = [plan EXCEPT ![x] = @ \cup {[reports |-> m[1], problem |-> m[2]]}]
        /\ clusters' = [clusters EXCEPT ![x] = @ \ {m[1]}]
  BY DEF MatchBest
<1> DEFINE c == m[1]
           q == [reports |-> c, problem |-> m[2]]
<1>3. /\ pc[x] = "match" /\ plan'[x] = plan[x] \cup {q} /\ clusters'[x] = clusters[x] \ {c}
      /\ UNCHANGED <<reportVars, problemOf, problems, pc, options, loaded, had, dbProblems, seen, toDelete>>
  BY <1>1, <1>2 DEF MatchBest, Shapes, dbVars
<1>4. "speedup" \notin options[x] /\ LoadedAll(x) /\ Planned(x) /\ Kept(x)
  BY <1>1, <1>3 DEF StageOK, Merging, QuietOK, MergeInv, Matching
<1>5. c \in clusters[x] /\ m[2] \in dbProblems[x] /\ Match(x, c, m[2]) > 0 /\ m[2] \notin Used(x)
  BY MatchesAre
<1>6. m[2] # NoProblem
  BY <1>1, <1>5 DEF RunOK, Problem, NoProblem, TablesOK
<1>7. PICK r \in c : seen[x][r] = m[2]
  BY <1>5, MatchFinds
<1>8. Clusters(x)' = Clusters(x)
  BY <1>3, ClustersKept DEF reportVars
<1>9. LoadedAll(x)'
  <2>1. Ignored(options[x])' = Ignored(options[x])
    BY <1>3, TablesKept
  <2> QED
    BY <1>3, <1>4, <2>1 DEF LoadedAll, Matching, Valid, reportVars
<1>10. c \in Clusters(x) /\ q.reports = c /\ q.problem = m[2]
  BY <1>4, <1>5 DEF Planned
<1>11. ASSUME Uniform(x), NEW s \in c
       PROVE  had[x][s] = m[2]
  <2>1. group[r] = group[s]
    BY <1>7, <1>10, <1>11, ClustersPartition
  <2>2. r \in UNION Clusters(x) /\ s \in UNION Clusters(x)
    BY <1>7, <1>10, <1>11
  <2>3. had[x][r] = had[x][s]
    BY <1>11, <2>1, <2>2 DEF Uniform
  <2>4. r \in loaded[x]
    BY <1>1, <1>5, <1>7 DEF RunOK
  <2>5. seen[x][r] = had[x][r]
    BY <1>3, <1>4, <2>4 DEF LoadedAll, Matching
  <2> QED
    BY <1>7, <2>3, <2>5
<1> HIDE DEF q, c
<1>12. Planned(x)'
  <2>1. clusters'[x] \subseteq Clusters(x) /\ \A s \in plan'[x] : s.reports \in Clusters(x) \ clusters'[x]
    BY <1>3, <1>4, <1>10 DEF Planned
  <2>2. \A d \in Clusters(x) : d \in clusters'[x] \/ \E s \in plan'[x] : s.reports = d
    BY <1>3, <1>4, <1>10 DEF Planned
  <2>3. \A s \in plan[x] : s.reports # c /\ s.problem # m[2]
    BY <1>4, <1>5 DEF Planned, Used
  <2>4. \A t, s \in plan'[x] : t.reports = s.reports => t = s
    BY <1>3, <1>4, <1>10, <2>3 DEF Planned
  <2>5. \A t, s \in plan'[x] : t.problem = s.problem /\ t.problem # NoProblem => t = s
    BY <1>3, <1>4, <1>10, <2>3 DEF Planned
  <2>6. \A s \in plan'[x] : s.problem # NoProblem
    BY <1>3, <1>4, <1>6, <1>10 DEF Planned
  <2> QED
    BY <1>8, <2>1, <2>2, <2>4, <2>5, <2>6 DEF Planned
<1>13. Kept(x)'
  <2>1. Uniform(x)' <=> Uniform(x)
    BY <1>3, <1>8 DEF Uniform, reportVars
  <2>2. ASSUME Uniform(x), NEW s \in plan'[x], NEW t \in s.reports
        PROVE  s.problem = had[x][t]
    <3>1. CASE s = q
      BY <1>10, <1>11, <2>2, <3>1
    <3>2. CASE s \in plan[x]
      BY <1>4, <2>2, <3>2 DEF Kept
    <3> QED
      BY <1>3, <3>1, <3>2
  <2> QED
    BY <1>3, <2>1, <2>2 DEF Kept
<1>14. CleanInv(x)'
  BY <1>3 DEF CleanInv
<1> QED
  BY <1>3, <1>4, <1>9, <1>12, <1>13, <1>14 DEF QuietOK, MergeInv

LEMMA CreateRestQuiet ==
  ASSUME BaseInv, NEW x \in Run, CreateRest(x), QuietOK(x)
  PROVE  QuietOK(x)'
<1>1. TablesOK /\ Shapes /\ RunOK(x) /\ StageOK(x)
  BY DEF BaseInv, RunsOK
<1> DEFINE N == {[reports |-> c, problem |-> NoProblem] : c \in clusters[x]}
<1>2. /\ pc[x] = "match" /\ pc'[x] = "unassign" /\ Matches(x) = {}
      /\ plan'[x] = plan[x] \cup N /\ clusters'[x] = {}
      /\ UNCHANGED <<reportVars, problemOf, problems, options, loaded, had, dbProblems, seen, toDelete>>
  BY <1>1 DEF CreateRest, Goto, TablesOK, Shapes, dbVars
<1>3. "speedup" \notin options[x] /\ LoadedAll(x) /\ Planned(x) /\ Kept(x)
  BY <1>1, <1>2 DEF StageOK, Merging, QuietOK, MergeInv, Matching
<1>4. Clusters(x)' = Clusters(x)
  BY <1>2, ClustersKept DEF reportVars
<1>5. LoadedAll(x)'
  <2>1. Ignored(options[x])' = Ignored(options[x])
    BY <1>2, TablesKept
  <2> QED
    BY <1>2, <1>3, <2>1 DEF LoadedAll, Matching, Valid, reportVars
<1>6. \A q \in N : q.reports \in clusters[x] /\ q.problem = NoProblem /\ q = [reports |-> q.reports, problem |-> NoProblem]
  OBVIOUS
<1>7. \A c \in clusters[x] : \E q \in N : q.reports = c
  <2> TAKE c \in clusters[x]
  <2>1. [reports |-> c, problem |-> NoProblem] \in N
    OBVIOUS
  <2> QED
    BY <2>1
<1> HIDE DEF N
<1>8. Planned(x)'
  <2>1. \A s \in plan'[x] : s.reports \in Clusters(x)
    BY <1>2, <1>3, <1>6 DEF Planned
  <2>2. \A d \in Clusters(x) : \E s \in plan'[x] : s.reports = d
    BY <1>2, <1>3, <1>7 DEF Planned
  <2>3. ASSUME NEW q \in plan'[x], NEW s \in plan'[x], q.reports = s.reports
        PROVE  q = s
    BY <1>2, <1>3, <1>6, <2>3 DEF Planned
  <2>4. ASSUME NEW q \in plan'[x], NEW s \in plan'[x], q.problem = s.problem, q.problem # NoProblem
        PROVE  q = s
    BY <1>2, <1>3, <1>6, <2>4 DEF Planned
  <2> QED
    BY <1>2, <1>4, <2>1, <2>2, <2>3, <2>4 DEF Planned
<1>9. ASSUME Uniform(x)
      PROVE  clusters[x] = {}
  <2> SUFFICES ASSUME NEW c \in clusters[x]
               PROVE  FALSE
    OBVIOUS
  <2>1. c \in Clusters(x)
    BY <1>3 DEF Planned
  <2>2. PICK r \in c : r \in loaded[x]
    BY <2>1, ClustersPartition
  <2>3. seen[x][r] = had[x][r] /\ problemOf[r] = had[x][r] /\ dbProblems[x] = problems
    BY <1>2, <1>3, <2>2 DEF LoadedAll, Matching
  <2>4. had[x][r] # NoProblem
    BY <1>9, <2>1, <2>2 DEF Uniform
  <2>5. r \in Report
    BY <1>1, <2>2 DEF Shapes
  <2>6. had[x][r] \in dbProblems[x]
    BY <1>1, <2>3, <2>4, <2>5 DEF TablesOK, Maybe
  <2>7. Match(x, c, had[x][r]) > 0
    BY <2>2, <2>3, MatchFinds
  <2>8. PICK q \in plan[x] : q.problem = had[x][r]
    BY <1>2, <2>6, <2>7, MatchesNone DEF Used
  <2>9. q.reports \in Clusters(x) \ clusters[x]
    BY <1>3 DEF Planned
  <2>10. PICK s \in q.reports : TRUE
    BY <2>9, ClustersPartition
  <2>11. had[x][s] = had[x][r]
    BY <1>3, <1>9, <2>8, <2>10 DEF Kept
  <2>12. r \in UNION Clusters(x) /\ s \in UNION Clusters(x)
    BY <2>1, <2>2, <2>9, <2>10
  <2>13. group[r] = group[s]
    BY <1>9, <2>11, <2>12 DEF Uniform
  <2>14. c = q.reports
    BY <2>1, <2>2, <2>9, <2>10, <2>13, ClustersPartition
  <2> QED
    BY <2>9, <2>14
<1>10. Kept(x)'
  <2>1. Uniform(x)' <=> Uniform(x)
    BY <1>2, <1>4 DEF Uniform, reportVars
  <2>2. Uniform(x) => plan'[x] = plan[x]
    BY <1>2, <1>6, <1>9
  <2> QED
    BY <1>2, <1>3, <2>1, <2>2 DEF Kept
<1>11. CleanInv(x)'
  BY <1>2 DEF CleanInv
<1> QED
  BY <1>2, <1>3, <1>5, <1>8, <1>10, <1>11 DEF QuietOK, MergeInv, Matching

\* Writing problem_id alone changes neither the plan nor what it is compared with.
LEMMA PlanKept ==
  ASSUME NEW x \in Run, UNCHANGED <<reportVars, loaded, had, clusters, plan>>,
         Planned(x), Kept(x), pc'[x] # "match"
  PROVE  Planned(x)' /\ Kept(x)'
<1>1. Clusters(x)' = Clusters(x)
  BY ClustersKept DEF reportVars
<1>2. Planned(x)'
  BY <1>1 DEF Planned
<1>3. Kept(x)'
  BY <1>1 DEF Kept, Uniform, reportVars
<1> QED
  BY <1>2, <1>3

LEMMA UnassignQuiet ==
  ASSUME BaseInv, NEW x \in Run, Unassign(x), QuietOK(x)
  PROVE  QuietOK(x)'
<1>1. TablesOK /\ Shapes /\ RunOK(x) /\ StageOK(x)
  BY DEF BaseInv, RunsOK
<1>2. /\ pc[x] = "unassign" /\ pc'[x] = (IF "minCount" \in options[x] THEN "low" ELSE "flush")
      /\ UNCHANGED <<reportVars, problems, options, loaded, had, dbProblems, clusters, plan, seen, toDelete>>
  BY <1>1 DEF Unassign, Goto, TablesOK
<1>3. "speedup" \notin options[x] /\ LoadedAll(x) /\ Planned(x) /\ Kept(x)
  BY <1>1, <1>2 DEF StageOK, Merging, QuietOK, MergeInv, Matching
<1>4. \A r \in loaded[x] : problemOf'[r] = IF r \in Valid(x) THEN NoProblem ELSE had[x][r]
  <2> SUFFICES ASSUME NEW r \in loaded[x]
               PROVE  problemOf'[r] = IF r \in Valid(x) THEN NoProblem ELSE had[x][r]
    OBVIOUS
  <2>1. r \in Report /\ problemOf[r] = had[x][r]
    BY <1>1, <1>2, <1>3 DEF Shapes, LoadedAll
  <2>2. CASE Cardinality(loaded[x]) = 1
    BY <2>1, <2>2 DEF Unassign, Unset, Valid
  <2>3. CASE Cardinality(loaded[x]) # 1
    BY <2>1, <2>3 DEF Unassign, Unset, Valid
  <2> QED
    BY <2>2, <2>3
<1>5. LoadedAll(x)'
  <2>1. Ignored(options[x])' = Ignored(options[x])
    BY <1>2 DEF Ignored, reportVars
  <2>2. Valid(x)' = Valid(x)
    BY <1>2 DEF Valid, reportVars
  <2> QED
    BY <1>2, <1>3, <1>4, <2>1, <2>2 DEF LoadedAll, Matching, reportVars
<1>6. Planned(x)' /\ Kept(x)'
  BY <1>2, <1>3, PlanKept
<1>7. CleanInv(x)'
  BY <1>2 DEF CleanInv
<1> QED
  BY <1>2, <1>3, <1>5, <1>6, <1>7 DEF QuietOK, MergeInv, Matching

LEMMA UnassignLowQuiet ==
  ASSUME BaseInv, NEW x \in Run, UnassignLow(x), QuietOK(x)
  PROVE  QuietOK(x)'
<1>1. TablesOK /\ Shapes /\ RunOK(x) /\ StageOK(x)
  BY DEF BaseInv, RunsOK
<1>2. /\ pc[x] = "low" /\ pc'[x] = "flush"
      /\ UNCHANGED <<reportVars, problems, options, loaded, had, dbProblems, clusters, plan, seen, toDelete>>
  BY <1>1 DEF UnassignLow, Goto, TablesOK
<1>3. "speedup" \notin options[x] /\ "minCount" \in options[x] /\ LoadedAll(x) /\ Planned(x) /\ Kept(x)
  BY <1>1, <1>2 DEF StageOK, Merging, QuietOK, MergeInv, Matching
<1>4. low \subseteq Report /\ \A r \in Report : problemOf'[r] = IF r \in low THEN NoProblem ELSE problemOf[r]
  BY <1>1, ProblemsAssumption DEF UnassignLow, Unset, TablesOK
<1>5. \A r \in loaded[x] : r \in Report /\ r \notin low
  BY <1>1, <1>3 DEF Shapes, LoadedAll, Ignored
<1>6. LoadedAll(x)'
  <2>1. Ignored(options[x])' = Ignored(options[x])
    BY <1>2 DEF Ignored, reportVars
  <2>2. Valid(x)' = Valid(x)
    BY <1>2 DEF Valid, reportVars
  <2>3. \A r \in low : problemOf'[r] = NoProblem
    BY <1>4
  <2>4. \A r \in loaded[x] : problemOf'[r] = problemOf[r]
    BY <1>4, <1>5
  <2>5. low' = low /\ known' = known
    BY <1>2 DEF reportVars
  <2> QED
    BY <1>2, <1>3, <2>1, <2>2, <2>3, <2>4, <2>5 DEF LoadedAll, Matching
<1>7. Planned(x)' /\ Kept(x)'
  BY <1>2, <1>3, PlanKept
<1>8. CleanInv(x)'
  BY <1>2 DEF CleanInv
<1> QED
  BY <1>2, <1>3, <1>6, <1>7, <1>8 DEF QuietOK, MergeInv, Matching

\* The problem that the flush gives to each cluster that is planned.
LEMMA PlanWritten ==
  ASSUME BaseInv, NEW x \in Run, pc[x] = "flush", "speedup" \notin options[x], QuietOK(x),
         WriteWith(x, {})
  PROVE  \E f :
           /\ \A q \in plan[x] : \A r \in q.reports : problemOf'[r] = f[q]
           /\ \A q \in plan[x] : f[q] # NoProblem
           /\ \A q, s \in plan[x] : f[q] = f[s] => q = s
           /\ \A r \in Report : (\A q \in plan[x] : r \notin q.reports) => problemOf'[r] = problemOf[r]
           /\ (\A q \in plan[x] : q.problem # NoProblem) => lastId' = lastId
<1>1. TablesOK /\ Shapes /\ RunOK(x) /\ StageOK(x)
  BY DEF BaseInv, RunsOK
<1>2. LoadedAll(x) /\ Planned(x)
  BY DEF QuietOK, MergeInv, Matching
<1>3. IsFiniteSet({}) /\ Cardinality({}) = 0
  BY FS_EmptySet
<1>4. PICK id : Numbers(x, {}, id) /\ Written(x, id)
  BY <1>3, WriteEffect
<1> DEFINE f == [q \in plan[x] |-> IF q.problem = NoProblem THEN id[q] ELSE q.problem]
<1>5. \A q \in plan[x] : f[q] = IF q.problem = NoProblem THEN id[q] ELSE q.problem
  OBVIOUS
<1> HIDE DEF f
<1>6. \A q \in plan[x] : q.problem # NoProblem => q.problem \in 1 .. lastId
  BY <1>1 DEF RunOK, Maybe, Problem
<1>7. \A q \in plan[x] : q.problem = NoProblem => id[q] \in lastId + 1 .. lastId'
  BY <1>4 DEF Numbers, NewRows
<1>8. lastId \in Nat /\ lastId' \in Nat
  BY <1>1, <1>3, WriteEffect DEF TablesOK
<1>9. \A q \in plan[x] : f[q] # NoProblem
  BY <1>5, <1>6, <1>7, <1>8 DEF NoProblem
<1>10. ASSUME NEW q \in plan[x], NEW s \in plan[x], f[q] = f[s]
       PROVE  q = s
  <2>1. CASE q.problem = NoProblem /\ s.problem = NoProblem
    BY <1>4, <1>5, <1>10, <2>1 DEF Numbers, NewRows
  <2>2. CASE q.problem # NoProblem /\ s.problem # NoProblem
    BY <1>2, <1>5, <1>10, <2>2 DEF Planned
  <2>3. CASE ~(q.problem = NoProblem <=> s.problem = NoProblem)
    BY <1>5, <1>6, <1>7, <1>8, <1>10, <2>3
  <2> QED
    BY <2>1, <2>2, <2>3
<1>11. ASSUME NEW q \in plan[x], NEW s \in plan[x], NEW r \in q.reports, r \in s.reports
       PROVE  q = s
  <2>1. q.reports \in Clusters(x) /\ s.reports \in Clusters(x)
    BY <1>2 DEF Planned
  <2>2. q.reports = s.reports
    BY <1>11, <2>1, ClustersPartition
  <2> QED
    BY <1>2, <2>2 DEF Planned
<1>12. ASSUME NEW q \in plan[x], NEW r \in q.reports
       PROVE  problemOf'[r] = f[q]
  <2>1. q.reports \in Clusters(x)
    BY <1>2 DEF Planned
  <2>2. r \in loaded[x] /\ r \notin Valid(x) /\ r \in Report
    BY <1>1, <2>1, ClustersPartition DEF Shapes
  <2>3. CASE \E s \in plan[x] : s.problem = NoProblem /\ r \in s.reports /\ problemOf'[r] = id[s]
    BY <1>5, <1>11, <1>12, <2>3
  <2>4. CASE /\ ~\E s \in plan[x] : s.problem = NoProblem /\ r \in s.reports
             /\ \E s \in plan[x] : r \in Updated(x, s) /\ problemOf'[r] = s.problem
    BY <1>5, <1>11, <1>12, <2>4 DEF Updated
  <2>5. CASE ~FlushedTo(x, r) /\ problemOf'[r] = problemOf[r]
    <3>1. q.problem # NoProblem /\ seen[x][r] = q.problem
      BY <2>5 DEF FlushedTo, Updated
    <3>2. problemOf[r] = had[x][r] /\ seen[x][r] = had[x][r]
      BY <1>2, <2>2 DEF LoadedAll, Matching
    <3> QED
      BY <1>5, <2>5, <3>1, <3>2
  <2> QED
    BY <1>4, <2>2, <2>3, <2>4, <2>5 DEF Written
<1>13. ASSUME NEW r \in Report, \A q \in plan[x] : r \notin q.reports
       PROVE  problemOf'[r] = problemOf[r]
  BY <1>4, <1>13 DEF Written, Updated
<1>14. ASSUME \A q \in plan[x] : q.problem # NoProblem
       PROVE  lastId' = lastId
  <2>1. NewRows(x, {}) = {}
    BY <1>14 DEF NewRows
  <2>2. lastId' = lastId + Cardinality(NewRows(x, {}))
    BY <1>3, WriteEffect
  <2> QED
    BY <1>3, <1>8, <2>1, <2>2
<1> QED
  BY <1>9, <1>10, <1>12, <1>13, <1>14

\* The flush of a run without --speedup puts the reports in order.
LEMMA FlushMerges ==
  ASSUME BaseInv, NEW x \in Run, pc[x] = "flush", "speedup" \notin options[x], QuietOK(x),
         WriteWith(x, {}), UNCHANGED <<reportVars, options>>
  PROVE  Merged(options[x])'
<1>1. TablesOK /\ Shapes /\ RunOK(x)
  BY DEF BaseInv, RunsOK
<1>2. LoadedAll(x) /\ Planned(x)
  BY DEF QuietOK, MergeInv, Matching
<1>3. PICK f :
        /\ \A q \in plan[x] : \A r \in q.reports : problemOf'[r] = f[q]
        /\ \A q \in plan[x] : f[q] # NoProblem
        /\ \A q, s \in plan[x] : f[q] = f[s] => q = s
        /\ \A r \in Report : (\A q \in plan[x] : r \notin q.reports) => problemOf'[r] = problemOf[r]
  BY PlanWritten
<1>4. pc[x] = "flush" /\ clusters[x] = {}
  BY DEF BaseInv, RunsOK, StageOK, Writing
<1>5. /\ \A q \in plan[x] : q.reports \in Clusters(x)
      /\ \A c \in Clusters(x) : \E q \in plan[x] : q.reports = c
      /\ \A q, s \in plan[x] : q.reports = s.reports => q = s
  BY <1>2, <1>4 DEF Planned
<1>6. Clustered(options[x])' = IF Cardinality(loaded[x]) = 1 THEN loaded[x] ELSE loaded[x] \ invalid
  BY <1>2 DEF Clustered, LoadedAll, Ignored, reportVars
<1>7. known' = known /\ group' = group /\ known \subseteq Report
  BY <1>1 DEF reportVars, TablesOK
<1>8. ASSUME NEW r \in known, r \notin loaded[x]
      PROVE  problemOf'[r] = NoProblem
  <2>1. r \in low /\ "minCount" \in options[x]
    BY <1>2, <1>8 DEF LoadedAll, Ignored
  <2>2. problemOf[r] = NoProblem
    BY <1>2, <2>1 DEF LoadedAll
  <2>3. \A q \in plan[x] : r \notin q.reports
    BY <1>5, <1>8, ClustersPartition
  <2> QED
    BY <1>3, <1>7, <2>2, <2>3
<1>9. CASE Cardinality(loaded[x]) = 1
  <2>1. IsFiniteSet(loaded[x])
    BY <1>1, ProblemsAssumption, FS_Subset DEF Shapes
  <2>2. PICK a : loaded[x] = {a}
    BY <1>9, <2>1, FS_Singleton
  <2>3. a \in known
    BY <1>1, <2>2 DEF RunOK
  <2>4. problemOf'[a] # NoProblem
    <3>1. CASE had[x][a] = NoProblem
      <4>1. {a} \in Clusters(x)
        BY <1>9, <2>2, <3>1 DEF Clusters
      <4>2. PICK q \in plan[x] : q.reports = {a}
        BY <1>5, <4>1
      <4> QED
        BY <1>3, <4>2
    <3>2. CASE had[x][a] # NoProblem
      <4>1. Clusters(x) = {}
        BY <1>9, <2>2, <3>2 DEF Clusters
      <4>2. problemOf'[a] = problemOf[a]
        BY <1>3, <1>5, <1>7, <2>3, <4>1
      <4>3. problemOf[a] = had[x][a]
        BY <1>2, <1>4, <1>9, <2>2 DEF LoadedAll, Valid
      <4> QED
        BY <3>2, <4>2, <4>3
    <3> QED
      BY <3>1, <3>2
  <2>5. Clustered(options[x])' = {a}
    BY <1>6, <1>9, <2>2
  <2> QED
    BY <1>7, <1>8, <2>2, <2>4, <2>5 DEF Merged
<1>10. CASE Cardinality(loaded[x]) # 1
  <2>1. UNION Clusters(x) = loaded[x] \ invalid /\ Clustered(options[x])' = loaded[x] \ invalid
    BY <1>6, <1>10, ClustersPartition
  <2>2. ASSUME NEW r \in loaded[x] \ invalid
        PROVE  \E q \in plan[x] : r \in q.reports /\ q.reports \in Clusters(x)
    <3>1. PICK c \in Clusters(x) : r \in c
      BY <2>1
    <3> QED
      BY <1>5, <3>1
  <2>3. ASSUME NEW r \in loaded[x] \ invalid, NEW s \in loaded[x] \ invalid
        PROVE  problemOf'[r] = problemOf'[s] <=> group[r] = group[s]
    <3>1. PICK q \in plan[x] : r \in q.reports /\ q.reports \in Clusters(x)
      BY <2>2
    <3>2. PICK t \in plan[x] : s \in t.reports /\ t.reports \in Clusters(x)
      BY <2>2
    <3>3. problemOf'[r] = f[q] /\ problemOf'[s] = f[t]
      BY <1>3, <3>1, <3>2
    <3>4. q = t <=> f[q] = f[t]
      BY <1>3
    <3>5. q = t <=> q.reports = t.reports
      BY <1>5
    <3>6. group[r] = group[s] <=> q.reports = t.reports
      BY <3>1, <3>2, ClustersPartition
    <3> QED
      BY <3>3, <3>4, <3>5, <3>6
  <2>4. ASSUME NEW r \in loaded[x] \ invalid
        PROVE  problemOf'[r] # NoProblem
    BY <1>3, <2>2
  <2>5. ASSUME NEW r \in loaded[x] \cap invalid
        PROVE  problemOf'[r] = NoProblem
    <3>1. r \in Valid(x)
      BY <1>10 DEF Valid
    <3>2. problemOf[r] = NoProblem
      BY <1>2, <1>4, <3>1 DEF LoadedAll
    <3>3. \A q \in plan[x] : r \notin q.reports
      BY <1>5, <3>1, ClustersPartition
    <3>4. r \in Report
      BY <1>1 DEF Shapes
    <3> QED
      BY <1>3, <3>2, <3>3, <3>4
  <2>6. \A r \in known' : problemOf'[r] # NoProblem <=> r \in Clustered(options[x])'
    BY <1>7, <1>8, <2>1, <2>4, <2>5
  <2>7. \A r, s \in Clustered(options[x])' : problemOf'[r] = problemOf'[s] <=> group'[r] = group'[s]
    BY <1>7, <2>1, <2>3
  <2> QED
    BY <2>6, <2>7 DEF Merged
<1> QED
  BY <1>9, <1>10

\* A flush of a run with --speedup gives every report that is planned a problem.
LEMMA AttachingWritten ==
  ASSUME BaseInv, NEW x \in Run, NEW more, IsFiniteSet(more), WriteWith(x, more), Attaching(x)
  PROVE  /\ \A q \in plan[x] : \A r \in q.reports : problemOf[r] = NoProblem /\ problemOf'[r] # NoProblem
         /\ \A r \in Report : (\A q \in plan[x] : r \notin q.reports) => problemOf'[r] = problemOf[r]
<1>1. RunOK(x) /\ Shapes
  BY DEF BaseInv, RunsOK
<1>2. PICK id : Written(x, id)
  BY WriteEffect
<1>3. \A q \in plan[x] : q.problem # NoProblem /\ q.reports \subseteq Report
  BY <1>1 DEF Attaching, Shapes
<1>4. ASSUME NEW q \in plan[x], NEW r \in q.reports
      PROVE  problemOf[r] = NoProblem /\ problemOf'[r] # NoProblem
  <2>1. seen[x][r] = NoProblem /\ problemOf[r] = NoProblem /\ r \in Report
    BY <1>3 DEF Attaching
  <2>2. r \in Updated(x, q)
    BY <1>3, <2>1 DEF Updated
  <2>3. FlushedTo(x, r) /\ ~\E s \in plan[x] : s.problem = NoProblem /\ r \in s.reports
    BY <1>3, <2>2 DEF FlushedTo
  <2>4. \E s \in plan[x] : r \in Updated(x, s) /\ problemOf'[r] = s.problem
    BY <1>2, <2>1, <2>3 DEF Written
  <2> QED
    BY <1>3, <2>1, <2>4
<1>5. ASSUME NEW r \in Report, \A q \in plan[x] : r \notin q.reports
      PROVE  problemOf'[r] = problemOf[r]
  BY <1>2, <1>5 DEF Written, Updated
<1> QED
  BY <1>4, <1>5

LEMMA FlushQuiet ==
  ASSUME BaseInv, NEW x \in Run, Flush(x), ~Stop(x), QuietOK(x)
  PROVE  QuietOK(x)'
<1>1. TablesOK /\ Shapes /\ RunOK(x) /\ StageOK(x)
  BY DEF BaseInv, RunsOK
<1>2. /\ pc[x] = "flush" /\ pc'[x] = "empty" /\ WriteWith(x, {}) /\ ~FlushFails(x)
      /\ UNCHANGED <<reportVars, options>>
  BY <1>1 DEF Flush, Goto, TablesOK
<1>3. CleanInv(x)'
  BY <1>2 DEF CleanInv
<1>4. CASE "speedup" \in options[x]
  <2>1. Attaching(x) /\ clusters[x] = {}
    BY <1>1, <1>2, <1>4 DEF QuietOK, AttachInv, StageOK, Writing
  <2>2. IsFiniteSet({})
    BY FS_EmptySet
  <2>3. Ignored(options[x])' = Ignored(options[x]) /\ known \subseteq Report
    BY <1>1, <1>2 DEF Ignored, reportVars, TablesOK
  <2>4. ASSUME NEW r \in known \ (Ignored(options[x]) \cup invalid)
        PROVE  problemOf'[r] # NoProblem
    BY <1>2, <2>1, <2>2, <2>3, AttachingWritten DEF Attaching
  <2>5. Attached(options[x])'
    BY <1>2, <2>3, <2>4 DEF Attached, reportVars
  <2> QED
    BY <1>2, <1>3, <1>4, <2>5 DEF QuietOK, AttachInv
<1>5. CASE "speedup" \notin options[x]
  <2>1. Merged(options[x])'
    BY <1>2, <1>5, FlushMerges
  <2> QED
    BY <1>2, <1>3, <1>5, <2>1 DEF QuietOK, MergeInv, Matching
<1> QED
  BY <1>4, <1>5

LEMMA StartAttachingQuiet ==
  ASSUME BaseInv, NEW x \in Run, StartAttaching(x), QuietOK(x)
  PROVE  QuietOK(x)'
<1>1. TablesOK /\ Shapes /\ RunOK(x) /\ StageOK(x)
  BY DEF BaseInv, RunsOK
<1>2. /\ pc[x] = "cluster" /\ "speedup" \in options[x] /\ pc'[x] = "attach" /\ clusters'[x] = Clusters(x)
      /\ UNCHANGED <<reportVars, problemOf, problems, options, loaded, had, dbProblems, plan, seen, toDelete>>
  BY <1>1 DEF StartAttaching, Goto, TablesOK, Shapes, dbVars
<1>3. LoadedNew(x) /\ plan[x] = {}
  BY <1>1, <1>2 DEF QuietOK, AttachInv, StageOK, Starting
<1>4. \A c \in Clusters(x) : \A r \in c : problemOf[r] = had[x][r]
  BY <1>3, ClustersPartition DEF LoadedNew
<1>5. \A c, d \in Clusters(x) : c = d \/ c \cap d = {}
  BY ClustersPartition
<1>6. ASSUME NEW r \in known \ (Ignored(options[x]) \cup invalid), problemOf[r] = NoProblem
      PROVE  \E c \in Clusters(x) : r \in c
  <2>1. r \in loaded[x]
    BY <1>3, <1>6 DEF LoadedNew, Unassigned
  <2>2. CASE Cardinality(loaded[x]) = 1
    <3>1. had[x][r] = NoProblem
      BY <1>3, <1>6, <2>1 DEF LoadedNew
    <3>2. PICK a : loaded[x] = {a}
      <4>1. IsFiniteSet(loaded[x])
        BY <1>1, ProblemsAssumption, FS_Subset DEF Shapes
      <4> QED
        BY <2>2, <4>1, FS_Singleton
    <3>3. Clusters(x) = {{a}}
      BY <2>1, <2>2, <3>1, <3>2 DEF Clusters
    <3> QED
      BY <2>1, <3>2, <3>3
  <2>3. CASE Cardinality(loaded[x]) # 1
    BY <1>6, <2>1, <2>3, ClustersPartition
  <2> QED
    BY <2>2, <2>3
<1>7. Ignored(options[x])' = Ignored(options[x])
  BY <1>2 DEF Ignored, reportVars
<1>8. Attaching(x)'
  BY <1>2, <1>3, <1>4, <1>5, <1>6, <1>7 DEF Attaching, reportVars
<1>9. CleanInv(x)'
  BY <1>2 DEF CleanInv
<1> QED
  BY <1>2, <1>8, <1>9 DEF QuietOK, AttachInv

LEMMA AttachQuiet ==
  ASSUME BaseInv, NEW x \in Run, Attach(x), QuietOK(x)
  PROVE  QuietOK(x)'
<1>1. TablesOK /\ Shapes /\ RunOK(x) /\ StageOK(x)
  BY DEF BaseInv, RunsOK
<1>2. PICK c \in clusters[x] : \E origin \in Assigned(x, c) :
        /\ plan' = [plan EXCEPT ![x] = IF Cardinality(c) = 1 THEN @ ELSE
             @ \cup {[reports |-> c \ Assigned(x, c), problem |-> problemOf[origin]]}]
        /\ seen' = [seen EXCEPT ![x] = [r \in Report |-> IF r \in c THEN problemOf[r] ELSE @[r]]]
        /\ clusters' = [clusters EXCEPT ![x] = @ \ {c}]
  BY DEF Attach
<1>3. PICK origin \in Assigned(x, c) :
        plan' = [plan EXCEPT ![x] = IF Cardinality(c) = 1 THEN @ ELSE
             @ \cup {[reports |-> c \ Assigned(x, c), problem |-> problemOf[origin]]}]
  BY <1>2
<1>4. /\ pc[x] = "attach"
      /\ UNCHANGED <<reportVars, problemOf, problems, pc, options, loaded, had, dbProblems, toDelete>>
  BY DEF Attach, dbVars
<1>5. Attaching(x) /\ "speedup" \in options[x]
  BY <1>1, <1>4 DEF QuietOK, AttachInv, StageOK
<1> DEFINE q == [reports |-> c \ Assigned(x, c), problem |-> problemOf[origin]]
           P == IF Cardinality(c) = 1 THEN plan[x] ELSE plan[x] \cup {q}
<1>6. plan'[x] = P /\ clusters'[x] = clusters[x] \ {c}
  BY <1>1, <1>2, <1>3 DEF Shapes
<1>7. \A r \in Report : seen'[x][r] = IF r \in c THEN problemOf[r] ELSE seen[x][r]
  BY <1>1, <1>2 DEF Shapes
<1>8. c \subseteq Report /\ Assigned(x, c) \subseteq c
  BY <1>1 DEF Shapes, Assigned
<1>9. \A r \in c : problemOf[r] # NoProblem <=> r \in Assigned(x, c)
  BY <1>5 DEF Attaching, Assigned
<1>10. \A d \in clusters'[x] : d \cap c = {}
  BY <1>5, <1>6 DEF Attaching
<1>11. \A s \in plan[x] : s.reports \subseteq Report /\ c \cap s.reports = {}
  BY <1>1, <1>5 DEF Attaching, Shapes
<1>12. q.reports = c \ Assigned(x, c) /\ q.problem # NoProblem
  <2>1. problemOf[origin] # NoProblem
    BY <1>8, <1>9
  <2> QED
    BY <2>1
<1> HIDE DEF q
<1>13. plan'[x] \subseteq plan[x] \cup {q}
  BY <1>6
<1>14. ASSUME NEW s \in plan'[x]
       PROVE  /\ s.problem # NoProblem
              /\ \A d \in clusters'[x] : d \cap s.reports = {}
              /\ \A r \in s.reports : problemOf[r] = NoProblem /\ seen'[x][r] = NoProblem
  <2>1. CASE s \in plan[x]
    BY <1>5, <1>6, <1>7, <1>11, <2>1 DEF Attaching
  <2>2. CASE s = q
    BY <1>7, <1>8, <1>9, <1>10, <1>12, <2>2
  <2> QED
    BY <1>13, <2>1, <2>2
<1>15. ASSUME NEW r \in known \ (Ignored(options[x]) \cup invalid)
       PROVE  \/ problemOf[r] # NoProblem
              \/ \E d \in clusters'[x] : r \in d
              \/ \E s \in plan'[x] : r \in s.reports
  <2>1. CASE r \notin c
    BY <1>5, <1>6, <2>1 DEF Attaching
  <2>2. CASE r \in c /\ r \notin Assigned(x, c)
    <3>1. Cardinality(c) # 1
      <4>1. IsFiniteSet(c)
        BY <1>8, ProblemsAssumption, FS_Subset
      <4>2. origin \in c /\ origin # r
        BY <1>8, <2>2
      <4> QED
        BY <2>2, <4>1, <4>2, FS_Singleton
    <3>2. q \in plan'[x]
      BY <1>6, <3>1
    <3> QED
      BY <1>12, <2>2, <3>2
  <2> QED
    BY <1>9, <2>1, <2>2
<1>16. Ignored(options[x])' = Ignored(options[x])
  BY <1>4 DEF Ignored, reportVars
<1>17. \A d \in clusters'[x] : d \in clusters[x]
  BY <1>6
<1> HIDE DEF P
<1>18. Attaching(x)'
  BY <1>4, <1>5, <1>14, <1>15, <1>16, <1>17 DEF Attaching, reportVars
<1>19. CleanInv(x)'
  BY <1>4 DEF CleanInv
<1> QED
  BY <1>4, <1>5, <1>18, <1>19 DEF QuietOK, AttachInv

LEMMA AttachToNewQuiet ==
  ASSUME BaseInv, NEW x \in Run, AttachToNew(x), ~Stop(x), QuietOK(x)
  PROVE  QuietOK(x)'
<1>1. TablesOK /\ Shapes /\ RunOK(x) /\ StageOK(x)
  BY DEF BaseInv, RunsOK
<1>2. PICK c \in clusters[x] :
        /\ Assigned(x, c) = {}
        /\ WriteWith(x, {[reports |-> c, problem |-> NoProblem]})
        /\ seen' = [seen EXCEPT ![x] = NothingLoaded] /\ clusters' = [clusters EXCEPT ![x] = @ \ {c}]
        /\ UNCHANGED <<pc, options, loaded, had, dbProblems, toDelete>>
  BY DEF AttachToNew
<1>3. pc[x] = "attach" /\ UNCHANGED reportVars
  BY DEF AttachToNew
<1>4. Attaching(x) /\ "speedup" \in options[x]
  BY <1>1, <1>3 DEF QuietOK, AttachInv, StageOK
<1> DEFINE q == [reports |-> c, problem |-> NoProblem]
<1>5. IsFiniteSet({q})
  BY FS_Singleton
<1>6. /\ \A s \in plan[x] : \A r \in s.reports : problemOf[r] = NoProblem /\ problemOf'[r] # NoProblem
      /\ \A r \in Report : (\A s \in plan[x] : r \notin s.reports) => problemOf'[r] = problemOf[r]
  BY <1>2, <1>4, <1>5, AttachingWritten
<1>7. PICK id : /\ Numbers(x, {q}, id)
                /\ plan' = [plan EXCEPT ![x] = {[reports |-> s.reports, problem |-> id[s]] : s \in {q}}]
  BY <1>2, <1>5, WriteEffect
<1>8. q \in NewRows(x, {q}) /\ lastId \in Nat
  BY <1>1 DEF NewRows, TablesOK
<1>9. id[q] # NoProblem
  <2> HIDE DEF q
  <2>1. id[q] \in lastId + 1 .. lastId' /\ lastId' \in Nat
    BY <1>2, <1>5, <1>7, <1>8, WriteEffect DEF Numbers, q
  <2> QED
    BY <1>8, <2>1 DEF NoProblem
<1>10. plan'[x] = {[reports |-> c, problem |-> id[q]]}
  BY <1>1, <1>7 DEF Shapes
<1>11. clusters'[x] = clusters[x] \ {c} /\ seen'[x] = NothingLoaded
  BY <1>1, <1>2 DEF Shapes
<1>12. \A s \in plan'[x] : s.reports = c /\ s.problem # NoProblem
  BY <1>9, <1>10
<1>13. \E s \in plan'[x] : s.reports = c
  BY <1>10
<1> HIDE DEF q
<1>14. \A d \in clusters[x] : d \subseteq Report /\ \A r \in d : problemOf'[r] = problemOf[r]
  BY <1>1, <1>4, <1>6 DEF Attaching, Shapes
<1>15. \A r \in c : problemOf'[r] = NoProblem /\ seen'[x][r] = NoProblem
  <2> SUFFICES ASSUME NEW r \in c
               PROVE  problemOf'[r] = NoProblem /\ seen'[x][r] = NoProblem
    OBVIOUS
  <2>1. problemOf'[r] = problemOf[r] /\ r \in Report /\ problemOf[r] = had[x][r]
    BY <1>4, <1>14 DEF Attaching
  <2>2. problemOf[r] = NoProblem
    BY <1>2, <2>1 DEF Assigned
  <2> QED
    BY <1>11, <2>1, <2>2 DEF NothingLoaded
<1>16. ASSUME NEW s \in plan'[x]
       PROVE  /\ s.problem # NoProblem
              /\ \A d \in clusters'[x] : d \cap s.reports = {}
              /\ \A r \in s.reports : problemOf'[r] = NoProblem /\ seen'[x][r] = NoProblem
  <2>1. s.reports = c /\ s.problem # NoProblem
    BY <1>12
  <2>2. \A d \in clusters'[x] : d \cap c = {}
    BY <1>4, <1>11 DEF Attaching
  <2> QED
    BY <1>15, <2>1, <2>2
<1>17. ASSUME NEW r \in known \ (Ignored(options[x]) \cup invalid)
       PROVE  \/ problemOf'[r] # NoProblem
              \/ \E d \in clusters'[x] : r \in d
              \/ \E s \in plan'[x] : r \in s.reports
  <2>1. r \in Report
    BY <1>1 DEF TablesOK
  <2>2. CASE \E s \in plan[x] : r \in s.reports
    BY <1>6, <2>2
  <2>3. CASE \A s \in plan[x] : r \notin s.reports
    <3>1. problemOf'[r] = problemOf[r]
      BY <1>6, <2>1, <2>3
    <3>2. problemOf[r] # NoProblem \/ \E d \in clusters[x] : r \in d
      BY <1>4, <2>3 DEF Attaching
    <3> QED
      BY <1>11, <1>13, <3>1, <3>2
  <2> QED
    BY <2>2, <2>3
<1>18. Ignored(options[x])' = Ignored(options[x])
  BY <1>2, <1>3 DEF Ignored, reportVars
<1>19. \A d \in clusters'[x] : d \in clusters[x] /\ \A r \in d : problemOf'[r] = had'[x][r]
  BY <1>2, <1>4, <1>11, <1>14 DEF Attaching
<1>20. \A d, e \in clusters'[x] : d = e \/ d \cap e = {}
  BY <1>4, <1>11 DEF Attaching
<1>21. Attaching(x)'
  BY <1>3, <1>16, <1>17, <1>18, <1>19, <1>20 DEF Attaching, reportVars
<1>22. CleanInv(x)'
  BY <1>2, <1>3 DEF CleanInv
<1> QED
  BY <1>2, <1>3, <1>4, <1>21, <1>22 DEF QuietOK, AttachInv

LEMMA FinishAttachingQuiet ==
  ASSUME BaseInv, NEW x \in Run, FinishAttaching(x), QuietOK(x)
  PROVE  QuietOK(x)'
<1>1. TablesOK /\ Shapes /\ RunOK(x) /\ StageOK(x)
  BY DEF BaseInv, RunsOK
<1>2. /\ pc[x] = "attach" /\ pc'[x] = "flush"
      /\ UNCHANGED <<reportVars, problemOf, problems, options, loaded, had, dbProblems, clusters, plan, seen, toDelete>>
  BY <1>1 DEF FinishAttaching, Goto, TablesOK, dbVars
<1>3. Attaching(x) /\ "speedup" \in options[x]
  BY <1>1, <1>2 DEF QuietOK, AttachInv, StageOK
<1>4. Ignored(options[x])' = Ignored(options[x])
  BY <1>2 DEF Ignored, reportVars
<1>5. Attaching(x)'
  BY <1>2, <1>3, <1>4 DEF Attaching, reportVars
<1>6. CleanInv(x)'
  BY <1>2 DEF CleanInv
<1> QED
  BY <1>2, <1>3, <1>5, <1>6 DEF QuietOK, AttachInv

LEMMA FindEmptyQuiet ==
  ASSUME BaseInv, NEW x \in Run, FindEmpty(x), QuietOK(x)
  PROVE  QuietOK(x)'
<1>1. TablesOK /\ Shapes
  BY DEF BaseInv, RunsOK
<1>2. /\ pc[x] = "empty" /\ pc'[x] = "delete" /\ toDelete'[x] = {p \in problems : Members(p) = {}}
      /\ UNCHANGED <<reportVars, problemOf, problems, options>>
  BY <1>1 DEF FindEmpty, Goto, TablesOK, Shapes, dbVars
<1>3. /\ Merged(options[x])' = Merged(options[x]) /\ Attached(options[x])' = Attached(options[x])
      /\ {p \in problems : Members(p) = {}}' = {p \in problems : Members(p) = {}}
  BY <1>2, TablesKept
<1>4. CleanInv(x)'
  BY <1>2, <1>3 DEF CleanInv
<1> QED
  BY <1>2, <1>3, <1>4 DEF QuietOK, AttachInv, MergeInv, Matching

\* Deleting the empty problems takes no report out of a problem.
LEMMA DeleteEmptyKeeps ==
  ASSUME BaseInv, NEW x \in Run, DeleteEmpty(x), QuietOK(x)
  PROVE  /\ \A r \in Report : problemOf'[r] = problemOf[r]
         /\ problems' = {p \in problems : Members(p) # {}}
<1>1. TablesOK
  BY DEF BaseInv
<1>2. pc[x] = "delete" /\ toDelete[x] = {p \in problems : Members(p) = {}}
  BY DEF DeleteEmpty, QuietOK, CleanInv
<1>3. ASSUME NEW r \in Report
      PROVE  problemOf'[r] = problemOf[r]
  <2>1. problemOf'[r] = IF problemOf[r] \in toDelete[x] THEN NoProblem ELSE problemOf[r]
    BY DEF DeleteEmpty, Unset
  <2>2. CASE r \in known
    <3>1. r \in Members(problemOf[r])
      BY <2>2 DEF Members
    <3>2. problemOf[r] \notin toDelete[x]
      BY <1>2, <3>1
    <3> QED
      BY <2>1, <3>2
  <2>3. CASE r \notin known
    BY <1>1, <2>1, <2>3 DEF TablesOK
  <2> QED
    BY <2>2, <2>3
<1>4. problems' = problems \ toDelete[x]
  BY DEF DeleteEmpty
<1> QED
  BY <1>2, <1>3, <1>4

LEMMA DeleteEmptyQuiet ==
  ASSUME BaseInv, NEW x \in Run, DeleteEmpty(x), QuietOK(x)
  PROVE  QuietOK(x)'
<1>1. TablesOK
  BY DEF BaseInv
<1>2. pc[x] = "delete" /\ pc'[x] = "done" /\ UNCHANGED <<reportVars, options>>
  BY <1>1 DEF DeleteEmpty, Goto, TablesOK
<1>3. /\ \A r \in Report : problemOf'[r] = problemOf[r]
      /\ problems' = {p \in problems : Members(p) # {}}
  BY DeleteEmptyKeeps
<1>4. known \subseteq Report
  BY <1>1 DEF TablesOK
<1>5. \A p : Members(p)' = Members(p)
  BY <1>2, <1>3, <1>4 DEF Members, reportVars
<1>6. NoneEmpty'
  BY <1>3, <1>5 DEF NoneEmpty
<1>7. Ignored(options[x])' = Ignored(options[x])
  BY <1>2 DEF Ignored, reportVars
<1>8. Clustered(options[x])' = Clustered(options[x]) /\ Clustered(options[x]) \subseteq known
  BY <1>2, <1>7 DEF Clustered, reportVars
<1>9. Merged(options[x]) => Merged(options[x])'
  BY <1>2, <1>3, <1>4, <1>8 DEF Merged, reportVars
<1>10. Attached(options[x]) => Attached(options[x])'
  BY <1>2, <1>3, <1>4, <1>7 DEF Attached, reportVars
<1>11. CleanInv(x)'
  BY <1>2, <1>6 DEF CleanInv
<1> QED
  BY <1>2, <1>9, <1>10, <1>11 DEF QuietOK, AttachInv, MergeInv, Matching

LEMMA StepQuiet ==
  ASSUME BaseInv, NEW x \in Run, Step(x), quiet'[x], quiet[x] => QuietOK(x)
  PROVE  QuietOK(x)' /\ quiet[x]
<1>1. TablesOK
  BY DEF BaseInv
<1>2. ~Stop(x)
  BY <1>1 DEF Stop, TablesOK
<1>3. quiet[x]
  BY <1>2 DEF Step, LoadProblems, LookUp, MatchBest, CreateRest, Unassign, UnassignLow, Flush,
              StartAttaching, Attach, AttachToNew, FinishAttaching, FindEmpty, DeleteEmpty, Alone
<1> QED
  BY <1>2, <1>3, LoadProblemsQuiet, LookUpQuiet, MatchBestQuiet, CreateRestQuiet, UnassignQuiet,
     UnassignLowQuiet, FlushQuiet, StartAttachingQuiet, AttachQuiet, AttachToNewQuiet,
     FinishAttachingQuiet, FindEmptyQuiet, DeleteEmptyQuiet DEF Step

LEMMA QuietNext == Inv /\ [Next]_vars => Inv'
<1> SUFFICES ASSUME Inv, [Next]_vars PROVE Inv'
  OBVIOUS
<1>1. BaseInv /\ BaseInv'
  BY BaseNext DEF Inv
<1> SUFFICES ASSUME NEW y \in Run, quiet'[y] PROVE QuietOK(y)'
  BY <1>1 DEF Inv, QuietInv
<1>2. quiet[y] => QuietOK(y)
  BY DEF Inv, QuietInv
<1>3. CASE UNCHANGED vars
  BY <1>2, <1>3, QuietKept DEF vars, runVars, dbVars, Untouched
<1>4. CASE (\E r \in Report : SaveReport(r) \/ CountReport(r)) \/ Retrace
  BY <1>4 DEF SaveReport, CountReport, Retrace
<1>5. ASSUME NEW x \in Run, (\E opts \in CommandLine : LoadReports(x, opts)) \/ Step(x) \/ Crash(x)
      PROVE  QuietOK(y)'
  <2>1. CASE y # x
    BY <1>1, <1>2, <1>5, <2>1, RunOthers, QuietKept
  <2>2. CASE y = x
    <3>1. ~Crash(x)
      BY <1>1, <2>2, CrashBase
    <3> QED
      BY <1>1, <1>2, <1>5, <2>2, <3>1, LoadReportsQuiet, StepQuiet
  <2> QED
    BY <2>1, <2>2
<1> QED
  BY <1>3, <1>4, <1>5 DEF Next

LEMMA InvAlways == Spec => []Inv
<1>1. Init => Inv
  BY BaseInit DEF Inv, QuietInv, Init
<1>2. Inv /\ [Next]_vars => Inv'
  BY QuietNext
<1> QED
  BY <1>1, <1>2, PTL DEF Spec

\* A run without --speedup that nobody disturbs puts in order whatever it finds:
\* reports share a problem exactly if they are similar, those that do not count
\* are in none, and no problem is empty.
THEOREM TidyAfterRunAlways == Spec => []TidyAfterRun
<1>1. Inv => TidyAfterRun
  BY DEF Inv, QuietInv, QuietOK, CleanInv, MergeInv, Merged, NoneEmpty, TidyAfterRun, Tidy
<1> QED
  BY <1>1, InvAlways, PTL

\* A --speedup run that nobody disturbs leaves no report it read without a problem,
\* and no problem empty.
THEOREM AttachedAfterRunAlways == Spec => []AttachedAfterRun
<1>1. Inv => AttachedAfterRun
  BY DEF Inv, QuietInv, QuietOK, CleanInv, AttachInv, Attached, NoneEmpty, AttachedAfterRun
<1> QED
  BY <1>1, InvAlways, PTL

-----------------------------------------------------------------------------
\* A step of another run, or of the environment, that leaves a run undisturbed
\* writes nothing, and neither do the steps of the run itself up to its writes.
LEMMA QuietSteps ==
  ASSUME Inv, [Next]_vars, NEW x \in Run, quiet[x], quiet'[x]
  PROVE  \/ UNCHANGED <<problemOf, problems>>
         \/ Unassign(x) \/ UnassignLow(x) \/ DeleteEmpty(x)
         \/ (Flush(x) \/ AttachToNew(x)) /\ ~Stop(x)
<1>1. BaseInv
  BY DEF Inv
<1>2. CASE UNCHANGED vars
  BY <1>2 DEF vars, dbVars
<1>3. CASE (\E r \in Report : SaveReport(r) \/ CountReport(r)) \/ Retrace
  BY <1>3 DEF SaveReport, CountReport, Retrace, dbVars
<1>4. ASSUME NEW y \in Run, (\E opts \in CommandLine : LoadReports(y, opts)) \/ Step(y) \/ Crash(y), y # x
      PROVE  UNCHANGED <<problemOf, problems>>
  BY <1>1, <1>4, RunOthers
<1>5. ~Crash(x) /\ ~Stop(x)
  BY <1>1, CrashBase DEF BaseInv, TablesOK, Stop
<1>6. CASE \E opts \in CommandLine : LoadReports(x, opts)
  BY <1>6 DEF LoadReports, dbVars
<1>7. CASE Step(x)
  BY <1>5, <1>7 DEF Step, LoadProblems, LookUp, MatchBest, CreateRest, StartAttaching, Attach,
                    FinishAttaching, FindEmpty, dbVars
<1> QED
  BY <1>2, <1>3, <1>4, <1>5, <1>6, <1>7 DEF Next

LEMMA AttachOnlyStep ==
  ASSUME Inv, [Next]_vars, NEW x \in Run, quiet[x], quiet'[x], "speedup" \in options[x],
         NEW r \in Report
  PROVE  problemOf[r] \in {NoProblem, problemOf'[r]}
<1>1. BaseInv /\ QuietOK(x) /\ StageOK(x)
  BY DEF Inv, QuietInv, BaseInv, RunsOK
<1>2. ~Unassign(x) /\ ~UnassignLow(x)
  BY <1>1 DEF Unassign, UnassignLow, StageOK, Merging
<1>3. CASE DeleteEmpty(x)
  BY <1>1, <1>3, DeleteEmptyKeeps
<1>4. CASE Flush(x) /\ ~Stop(x)
  <2>1. WriteWith(x, {}) /\ Attaching(x)
    BY <1>1, <1>4 DEF Flush, QuietOK, AttachInv
  <2>2. IsFiniteSet({})
    BY FS_EmptySet
  <2> QED
    BY <1>1, <2>1, <2>2, AttachingWritten
<1>5. CASE AttachToNew(x) /\ ~Stop(x)
  <2>1. PICK c \in clusters[x] : WriteWith(x, {[reports |-> c, problem |-> NoProblem]})
    BY <1>5 DEF AttachToNew
  <2>2. Attaching(x)
    BY <1>1, <1>5 DEF AttachToNew, QuietOK, AttachInv
  <2>3. IsFiniteSet({[reports |-> c, problem |-> NoProblem]})
    BY FS_Singleton
  <2> QED
    BY <1>1, <2>1, <2>2, <2>3, AttachingWritten
<1> QED
  BY <1>2, <1>3, <1>4, <1>5, QuietSteps

\* A --speedup run that nobody disturbs moves no report out of its problem.
THEOREM AttachOnlyAlways == Spec => AttachOnly
<1>1. Inv /\ [Next]_vars =>
        [\A x \in Run : quiet[x] /\ quiet'[x] /\ "speedup" \in options[x]
           => \A r \in Report : problemOf[r] \in {NoProblem, problemOf'[r]}]_vars
  BY AttachOnlyStep
<1> QED
  BY <1>1, InvAlways, PTL DEF Spec, AttachOnly

\* What is in order is flushed as it is.
LEMMA FlushStable ==
  ASSUME BaseInv, NEW x \in Run, pc[x] = "flush", "speedup" \notin options[x], QuietOK(x),
         WriteWith(x, {}), Tidy(options[x])
  PROVE  problems' = problems /\ \A r \in Report : problemOf'[r] = problemOf[r]
<1>1. TablesOK /\ Shapes /\ RunOK(x)
  BY DEF BaseInv, RunsOK
<1>2. LoadedAll(x) /\ Planned(x) /\ Kept(x)
  BY DEF QuietOK, MergeInv, Matching
<1>3. Clustered(options[x]) = IF Cardinality(loaded[x]) = 1 THEN loaded[x] ELSE loaded[x] \ invalid
  BY <1>2 DEF Clustered, LoadedAll
<1>4. ASSUME NEW r \in UNION Clusters(x)
      PROVE  r \in Clustered(options[x]) /\ r \in loaded[x] /\ problemOf[r] = had[x][r]
             /\ seen[x][r] = had[x][r]
  <2>1. r \in loaded[x] /\ r \notin Valid(x)
    BY ClustersPartition
  <2>2. r \in Clustered(options[x])
    BY <1>3, <2>1 DEF Valid
  <2> QED
    BY <1>2, <2>1, <2>2 DEF LoadedAll, Matching
<1>5. ASSUME NEW r \in UNION Clusters(x), NEW s \in UNION Clusters(x)
      PROVE  /\ had[x][r] # NoProblem
             /\ had[x][r] = had[x][s] <=> group[r] = group[s]
  <2>1. r \in known
    BY <1>1, <1>4 DEF RunOK
  <2> QED
    BY <1>4, <2>1 DEF Tidy
<1>6. Uniform(x)
  BY <1>5 DEF Uniform
<1>7. ASSUME NEW q \in plan[x]
      PROVE  q.problem # NoProblem /\ Updated(x, q) = {}
  <2>1. q.reports \in Clusters(x)
    BY <1>2 DEF Planned
  <2>2. \A r \in q.reports : r \in UNION Clusters(x)
    BY <2>1
  <2>3. \A r \in q.reports : q.problem = had[x][r]
    BY <1>2, <1>6 DEF Kept
  <2>4. PICK r \in q.reports : TRUE
    BY <2>1, ClustersPartition
  <2>5. had[x][r] # NoProblem
    BY <1>5, <2>2, <2>4
  <2>6. q.problem # NoProblem
    BY <2>3, <2>4, <2>5
  <2>7. \A s \in q.reports : seen[x][s] = q.problem
    BY <1>4, <2>2, <2>3
  <2> QED
    BY <2>6, <2>7 DEF Updated
<1>8. IsFiniteSet({}) /\ Cardinality({}) = 0
  BY FS_EmptySet
<1>9. PICK id : Written(x, id)
  BY <1>8, WriteEffect
<1>10. ASSUME NEW r \in Report
       PROVE  problemOf'[r] = problemOf[r]
  BY <1>7, <1>9 DEF Written
<1>11. NewRows(x, {}) = {}
  BY <1>7 DEF NewRows
<1>12. lastId' = lastId /\ problems' = problems \cup (lastId + 1 .. lastId') /\ lastId \in Nat
  <2>1. /\ lastId' = lastId + Cardinality(NewRows(x, {}))
        /\ problems' = problems \cup (lastId + 1 .. lastId')
    BY <1>8, WriteEffect
  <2> QED
    BY <1>1, <1>8, <1>11, <2>1 DEF TablesOK
<1>13. lastId + 1 .. lastId' = {}
  BY <1>12
<1> QED
  BY <1>10, <1>12, <1>13

LEMMA StableStep ==
  ASSUME Inv, [Next]_vars, NEW x \in Run, quiet[x], quiet'[x], "speedup" \notin options[x],
         Tidy(options[x])
  PROVE  UNCHANGED <<problemOf, problems>>
<1>1. BaseInv /\ QuietOK(x) /\ StageOK(x) /\ Shapes /\ TablesOK /\ TablesOK'
  BY BaseNext DEF Inv, QuietInv, BaseInv, RunsOK
<1>2. SUFFICES ASSUME \/ Unassign(x) \/ UnassignLow(x) \/ DeleteEmpty(x)
                      \/ (Flush(x) \/ AttachToNew(x)) /\ ~Stop(x)
               PROVE  problems' = problems /\ \A r \in Report : problemOf'[r] = problemOf[r]
  <2>1. problemOf = [r \in Report |-> problemOf[r]] /\ problemOf' = [r \in Report |-> problemOf'[r]]
    BY <1>1 DEF TablesOK
  <2>2. CASE /\ problems' = problems
             /\ \A r \in Report : problemOf'[r] = problemOf[r]
    BY <2>1, <2>2
  <2> QED
    BY <2>2, QuietSteps
<1>3. CASE Unassign(x)
  <2>1. LoadedAll(x)
    BY <1>1, <1>3 DEF Unassign, QuietOK, MergeInv, Matching
  <2>2. ASSUME NEW r \in loaded[x] \cap invalid, Cardinality(loaded[x]) # 1
        PROVE  problemOf[r] = NoProblem
    <3>1. r \in known /\ r \notin Clustered(options[x])
      BY <2>1, <2>2 DEF LoadedAll, Clustered
    <3> QED
      BY <3>1 DEF Tidy
  <2>3. ASSUME NEW r \in Report
        PROVE  problemOf'[r] = problemOf[r]
    <3>1. CASE Cardinality(loaded[x]) = 1
      BY <1>3, <3>1 DEF Unassign, Unset
    <3>2. CASE Cardinality(loaded[x]) # 1
      BY <1>3, <2>2, <3>2 DEF Unassign, Unset
    <3> QED
      BY <3>1, <3>2
  <2> QED
    BY <1>3, <2>3 DEF Unassign
<1>4. CASE UnassignLow(x)
  <2>1. "minCount" \in options[x]
    BY <1>1, <1>4 DEF UnassignLow, StageOK
  <2>2. ASSUME NEW r \in Report, r \in low
        PROVE  problemOf[r] = NoProblem
    <3>1. r \notin Clustered(options[x])
      BY <2>1, <2>2 DEF Clustered, Ignored
    <3> QED
      BY <1>1, <3>1 DEF Tidy, TablesOK
  <2>3. \A r \in Report : problemOf'[r] = problemOf[r]
    BY <1>4, <2>2 DEF UnassignLow, Unset
  <2> QED
    BY <1>4, <2>3 DEF UnassignLow
<1>5. CASE DeleteEmpty(x)
  BY <1>1, <1>5, DeleteEmptyKeeps DEF Tidy
<1>6. CASE Flush(x) /\ ~Stop(x)
  BY <1>1, <1>6, FlushStable DEF Flush
<1>7. ~AttachToNew(x)
  BY <1>1 DEF AttachToNew, StageOK
<1> QED
  BY <1>2, <1>3, <1>4, <1>5, <1>6, <1>7

\* A run without --speedup that nobody disturbs and that finds everything in order
\* changes neither the problems nor the problem of any report.
THEOREM StableWhenTidyAlways == Spec => StableWhenTidy
<1>1. Inv /\ [Next]_vars =>
        [\A x \in Run : quiet[x] /\ quiet'[x] /\ "speedup" \notin options[x] /\ Tidy(options[x])
           => UNCHANGED <<problemOf, problems>>]_vars
  BY StableStep
<1> QED
  BY <1>1, InvAlways, PTL DEF Spec, StableWhenTidy

-----------------------------------------------------------------------------
(* The clustering of backtraces.                                           *)

Classes == OneClusterPerThread

SetsAreClasses == \A s \in sets : s # {} /\ \A t \in s : map[t] = s

SetsApart == \A s \in sets : s \cap cluster = {}

ClusterOfClasses ==
  \A t \in cluster : map[t] # {} /\ map[t] \subseteq cluster

ClassInv == Classes /\ SetsAreClasses /\ SetsApart /\ ClusterOfClasses

ClusterInv == ClusterTypeOK /\ ClassInv /\ ClustersFit

LEMMA ClusterInitInv == ClusterInit => ClusterInv
<1> SUFFICES ASSUME ClusterInit PROVE ClusterInv
  OBVIOUS
<1>1. ClusterTypeOK
  BY DEF ClusterInit, ClusterTypeOK
<1>2. ClassInv
  BY DEF ClusterInit, ClassInv, Classes, OneClusterPerThread, SetsAreClasses,
         SetsApart, ClusterOfClasses
<1>3. Cardinality({}) = 0
  BY FS_EmptySet
<1>4. max \in Nat
  BY ClusterAssumption DEF ClusterInit
<1>5. ClustersFit
  BY <1>3, <1>4 DEF ClusterInit, ClustersFit
<1> QED
  BY <1>1, <1>2, <1>5 DEF ClusterInv

\* Taking up a function: its new threads form one more class.
LEMMA NextFunctionInv ==
  ASSUME ClusterInv, NEW f \in Func, NextFunction(f)
  PROVE  ClusterInv'
<1> DEFINE D == Accepted(f)
<1>1. ClusterTypeOK
  BY DEF ClusterInv
<1>2. D \subseteq Thread /\ D \subseteq calls[f] /\ \A t \in D : map[t] = {}
  BY <1>1 DEF Accepted, Detached, ClusterTypeOK
<1>3. map' = [t \in Thread |-> IF t \in D THEN D ELSE map[t]]
  BY DEF NextFunction
<1>4. calls[f] \subseteq Thread
  BY <1>1 DEF ClusterTypeOK
<1>5. sets' = {map'[t] : t \in calls[f]} \ {{}} /\ cluster' = {}
  BY DEF NextFunction
<1>6. D \in SUBSET Thread
  BY <1>2
<1>7. fresh' \subseteq Thread /\ funcs' \subseteq funcs
      /\ phase' = "merge" /\ UNCHANGED <<calls, max, threads, processed, returned>>
  BY <1>1, <1>2 DEF NextFunction, ClusterTypeOK, inputVars, resultVars
<1> HIDE DEF D
<1>8. map' \in [Thread -> SUBSET Thread]
  BY <1>1, <1>3, <1>6 DEF ClusterTypeOK
<1>9. ClusterTypeOK'
  <2>1. sets' \subseteq SUBSET Thread
    BY <1>4, <1>5, <1>8
  <2> QED
    BY <1>1, <1>5, <1>7, <1>8, <2>1 DEF ClusterTypeOK
<1>10. \A t \in Thread : map'[t] = IF t \in D THEN D ELSE map[t]
  BY <1>3
<1>11. \A t, u \in Thread : u \in map'[t] => map'[u] = map'[t] /\ t \in map'[t]
  <2> SUFFICES ASSUME NEW t \in Thread, NEW u \in Thread, u \in map'[t]
               PROVE  map'[u] = map'[t] /\ t \in map'[t]
    OBVIOUS
  <2>1. CASE t \in D
    BY <2>1, <1>10
  <2>2. CASE t \notin D
    <3>1. map'[t] = map[t] /\ u \in map[t]
      BY <2>2, <1>10
    <3>2. map[u] = map[t] /\ t \in map[t]
      BY <3>1 DEF ClusterInv, ClassInv, Classes, OneClusterPerThread
    <3>3. u \notin D
      BY <3>1, <3>2, <1>2
    <3> QED
      BY <3>1, <3>2, <3>3, <1>10
  <2> QED
    BY <2>1, <2>2
<1>12. Classes'
  BY <1>11, <1>8 DEF Classes, OneClusterPerThread
<1>13. SetsAreClasses'
  BY <1>4, <1>5, <1>8, <1>11 DEF SetsAreClasses
<1>14. SetsApart' /\ ClusterOfClasses'
  BY <1>5 DEF SetsApart, ClusterOfClasses
<1>15. ClustersFit'
  <2>1. Cardinality({}) = 0 /\ max \in Nat
    BY FS_EmptySet, <1>1, ClusterAssumption DEF ClusterTypeOK
  <2>2. Cardinality(D) <= max
    BY <2>1 DEF D, Accepted
  <2>3. \A t \in Thread : Cardinality(map[t]) <= max
    BY DEF ClusterInv, ClustersFit
  <2> QED
    BY <2>1, <2>2, <2>3, <1>5, <1>7, <1>10 DEF ClustersFit
<1> QED
  BY <1>9, <1>12, <1>13, <1>14, <1>15 DEF ClusterInv, ClassInv

\* Writing the cluster back keeps the map an equivalence and the sets that are
\* still to visit classes of it.
LEMMA SaveClusterInv ==
  ASSUME ClusterInv, SaveCluster
  PROVE  /\ map' \in [Thread -> SUBSET Thread]
         /\ fresh' \subseteq Thread
         /\ \A t, u \in Thread :
              u \in map'[t] => map'[u] = map'[t] /\ t \in map'[t]
         /\ \A s \in sets : \A t \in s : map'[t] = s
         /\ \A t \in cluster : map'[t] = cluster
         /\ \A t \in Thread : Cardinality(map'[t]) <= max
<1>1. ClusterTypeOK
  BY DEF ClusterInv
<1>2. map' = [t \in Thread |-> IF t \in cluster THEN cluster ELSE map[t]]
  BY DEF SaveCluster
<1>3. cluster \in SUBSET Thread /\ map \in [Thread -> SUBSET Thread]
      /\ fresh \subseteq Thread /\ sets \subseteq SUBSET Thread
  BY <1>1 DEF ClusterTypeOK
<1>4. map' \in [Thread -> SUBSET Thread] /\ fresh' \subseteq Thread
  BY <1>2, <1>3 DEF SaveCluster
<1>5. \A t \in Thread : map'[t] = IF t \in cluster THEN cluster ELSE map[t]
  BY <1>2
<1>6. ASSUME NEW t \in Thread, NEW u \in Thread, u \in map'[t]
      PROVE  map'[u] = map'[t] /\ t \in map'[t]
  <2>1. CASE t \in cluster
    BY <2>1, <1>5, <1>6
  <2>2. CASE t \notin cluster
    <3>1. map'[t] = map[t] /\ u \in map[t]
      BY <2>2, <1>5, <1>6
    <3>2. map[u] = map[t] /\ t \in map[t]
      BY <3>1 DEF ClusterInv, ClassInv, Classes, OneClusterPerThread
    <3>3. u \notin cluster
      BY <3>2, <2>2 DEF ClusterInv, ClassInv, ClusterOfClasses
    <3> QED
      BY <3>1, <3>2, <3>3, <1>5
  <2> QED
    BY <2>1, <2>2
<1>7. \A s \in sets : \A t \in s : map'[t] = s
  BY <1>3, <1>5 DEF ClusterInv, ClassInv, SetsAreClasses, SetsApart
<1>8. \A t \in Thread : Cardinality(map'[t]) <= max
  BY <1>5 DEF ClusterInv, ClustersFit
<1>9. \A t \in cluster : map'[t] = cluster
  BY <1>3, <1>5
<1> QED
  BY <1>4, <1>6, <1>7, <1>8, <1>9

LEMMA MergeSetInv ==
  ASSUME ClusterInv, NEW s \in sets, MergeSet(s)
  PROVE  ClusterInv'
<1>1. ClusterTypeOK /\ s \in SUBSET Thread
  BY DEF ClusterInv, ClusterTypeOK
<1>2. UNCHANGED <<calls, max, phase, funcs, threads, processed, returned>>
  BY DEF MergeSet, inputVars, resultVars
<1>3. max \in Nat /\ Cardinality({}) = 0
  BY FS_EmptySet, <1>1, ClusterAssumption DEF ClusterTypeOK
<1>4. CASE Cardinality(s) > max
  <2>1. sets' = {} /\ UNCHANGED <<map, fresh, cluster>>
    BY <1>4 DEF MergeSet
  <2> QED
    BY <2>1, <1>1, <1>2
    DEF ClusterInv, ClusterTypeOK, ClassInv, Classes, OneClusterPerThread, SetsAreClasses,
        SetsApart, ClusterOfClasses, ClustersFit
<1>5. CASE Cardinality(s) <= max /\ Cardinality(s \cup cluster) > max
  <2>1. sets' = sets \ {s} /\ SaveCluster /\ cluster' = {}
    <3>1. ~(Cardinality(s) > max)
      BY <1>5, <1>3, <1>1, FS_CardinalityType, FS_Subset, ClusterAssumption
    <3> QED
      BY <3>1, <1>5 DEF MergeSet
  <2>2. ClusterTypeOK'
    BY <2>1, <1>1, <1>2, SaveClusterInv DEF ClusterTypeOK
  <2>3. Classes'
    BY <2>1, <2>2, SaveClusterInv DEF Classes, OneClusterPerThread, ClusterTypeOK
  <2>4. SetsAreClasses'
    BY <2>1, SaveClusterInv DEF SetsAreClasses, ClusterInv, ClassInv
  <2>5. SetsApart' /\ ClusterOfClasses'
    BY <2>1 DEF SetsApart, ClusterOfClasses
  <2>6. ClustersFit'
    BY <2>1, <1>2, <1>3, SaveClusterInv DEF ClustersFit
  <2> QED
    BY <2>2, <2>3, <2>4, <2>5, <2>6 DEF ClusterInv, ClassInv
<1>6. CASE Cardinality(s) <= max /\ Cardinality(s \cup cluster) <= max
  <2>1. sets' = sets \ {s} /\ cluster' = s \cup cluster /\ UNCHANGED <<map, fresh>>
    <3>1. IsFiniteSet(s) /\ IsFiniteSet(s \cup cluster)
      BY <1>1, FS_Subset, ClusterAssumption DEF ClusterTypeOK
    <3>2. Cardinality(s) \in Nat /\ Cardinality(s \cup cluster) \in Nat
      BY <3>1, FS_CardinalityType
    <3>3. ~(Cardinality(s) > max) /\ ~(Cardinality(s \cup cluster) > max)
      BY <3>2, <1>6, <1>3
    <3> QED
      BY <3>3 DEF MergeSet
  <2>2. ClusterTypeOK'
    BY <2>1, <1>1, <1>2 DEF ClusterTypeOK
  <2>3. Classes' /\ SetsAreClasses'
    BY <2>1 DEF ClusterInv, ClassInv, Classes, OneClusterPerThread, SetsAreClasses
  <2>4. SetsApart'
    <3> SUFFICES ASSUME NEW r \in sets, r # s
                 PROVE  r \cap (s \cup cluster) = {}
      BY <2>1 DEF SetsApart
    <3>1. r \cap s = {}
      BY DEF ClusterInv, ClassInv, SetsAreClasses
    <3> QED
      BY <3>1 DEF ClusterInv, ClassInv, SetsApart
  <2>5. ClusterOfClasses'
    BY <2>1 DEF ClusterInv, ClassInv, ClusterOfClasses, SetsAreClasses
  <2>6. ClustersFit'
    BY <2>1, <1>2, <1>6 DEF ClusterInv, ClustersFit
  <2> QED
    BY <2>2, <2>3, <2>4, <2>5, <2>6 DEF ClusterInv, ClassInv
<1>7. Cardinality(s) \in Nat /\ Cardinality(s \cup cluster) \in Nat
  BY <1>1, FS_Subset, FS_CardinalityType, ClusterAssumption DEF ClusterTypeOK
<1> QED
  BY <1>3, <1>4, <1>5, <1>6, <1>7

LEMMA FinishFunctionInv ==
  ASSUME ClusterInv, FinishFunction
  PROVE  ClusterInv'
<1>1. sets = {} /\ SaveCluster /\ phase' = "function"
      /\ UNCHANGED <<calls, max, funcs, sets, cluster, threads, processed, returned>>
  BY DEF FinishFunction, inputVars, resultVars
<1>2. ClusterTypeOK'
  BY <1>1, SaveClusterInv DEF ClusterTypeOK, ClusterInv
<1>3. Classes'
  BY <1>1, <1>2, SaveClusterInv DEF Classes, OneClusterPerThread, ClusterTypeOK
<1>4. SetsAreClasses' /\ SetsApart'
  BY <1>1 DEF SetsAreClasses, SetsApart
<1>5. ClusterOfClasses'
  BY <1>1, SaveClusterInv DEF ClusterOfClasses
<1>6. ClustersFit'
  BY <1>1, SaveClusterInv DEF ClustersFit, ClusterInv
<1> QED
  BY <1>2, <1>3, <1>4, <1>5, <1>6 DEF ClusterInv, ClassInv

\* Collecting the result leaves the map alone.
LEMMA CollectingInv ==
  ASSUME ClusterInv, StartCollecting \/ (\E t \in Thread : Collect(t)) \/ Return
  PROVE  ClusterInv'
<1>1. UNCHANGED <<calls, max, funcs, map, fresh, sets, cluster>>
  BY DEF StartCollecting, Collect, Return, inputVars, mergeVars
<1>2. ClusterTypeOK'
  <2>1. CASE StartCollecting
    BY <2>1, <1>1 DEF StartCollecting, ClusterInv, ClusterTypeOK
  <2>2. CASE \E t \in Thread : Collect(t)
    <3> PICK t \in Thread : Collect(t)
      BY <2>2
    <3>1. map[t] \in SUBSET Thread /\ returned[map[t]] + 1 \in Nat
      BY DEF ClusterInv, ClusterTypeOK
    <3>2. processed' \subseteq SUBSET Thread
      BY <3>1 DEF Collect, ClusterInv, ClusterTypeOK
    <3>3. returned' \in [SUBSET Thread -> Nat]
      BY <3>1 DEF Collect, ClusterInv, ClusterTypeOK
    <3>4. threads' \subseteq Thread /\ phase' = phase
      BY DEF Collect, ClusterInv, ClusterTypeOK
    <3> QED
      BY <1>1, <3>2, <3>3, <3>4 DEF ClusterInv, ClusterTypeOK
  <2>3. CASE Return
    BY <2>3, <1>1 DEF Return, ClusterInv, ClusterTypeOK, resultVars
  <2> QED
    BY <2>1, <2>2, <2>3
<1>3. ClassInv' /\ ClustersFit'
  BY <1>1 DEF ClusterInv, ClassInv, Classes, OneClusterPerThread, SetsAreClasses,
              SetsApart, ClusterOfClasses, ClustersFit
<1> QED
  BY <1>2, <1>3 DEF ClusterInv

LEMMA ClusterNextInv == ClusterInv /\ [ClusterNext]_clusterVars => ClusterInv'
<1> SUFFICES ASSUME ClusterInv, [ClusterNext]_clusterVars PROVE ClusterInv'
  OBVIOUS
<1>1. ASSUME NEW f \in Func, NextFunction(f) PROVE ClusterInv'
  BY <1>1, NextFunctionInv
<1>2. ASSUME NEW s \in sets, MergeSet(s) PROVE ClusterInv'
  BY <1>2, MergeSetInv
<1>3. CASE FinishFunction
  BY <1>3, FinishFunctionInv
<1>4. CASE StartCollecting \/ (\E t \in Thread : Collect(t)) \/ Return
  BY <1>4, CollectingInv
<1>5. CASE UNCHANGED clusterVars
  BY <1>5 DEF clusterVars, inputVars, mergeVars, resultVars, ClusterInv, ClusterTypeOK, ClassInv,
              Classes, OneClusterPerThread, SetsAreClasses, SetsApart,
              ClusterOfClasses, ClustersFit
<1> QED
  BY <1>1, <1>2, <1>3, <1>4, <1>5 DEF ClusterNext

LEMMA ClusterInvAlways == ClusterSpec => []ClusterInv
  BY ClusterInitInv, ClusterNextInv, PTL DEF ClusterSpec

\* The variables keep their types, whatever the threads and the limit.
THEOREM ClusterTypeCorrect == ClusterSpec => []ClusterTypeOK
<1>1. ClusterInv => ClusterTypeOK
  BY DEF ClusterInv
<1> QED
  BY <1>1, ClusterInvAlways, PTL

\* thread_map never puts a thread into two clusters.
THEOREM OneClusterPerThreadAlways == ClusterSpec => []OneClusterPerThread
<1>1. ClusterInv => OneClusterPerThread
  BY DEF ClusterInv, ClassInv, Classes
<1> QED
  BY <1>1, ClusterInvAlways, PTL

\* No cluster outgrows max_cluster_size.
THEOREM ClustersFitAlways == ClusterSpec => []ClustersFit
<1>1. ClusterInv => ClustersFit
  BY DEF ClusterInv
<1> QED
  BY <1>1, ClusterInvAlways, PTL
-----------------------------------------------------------------------------
(* Connectedness.  The calls are a parameter here: they never change, and  *)
(* the facts about them are facts about a constant.                        *)

ConnectedBy(k, c) ==
  \A s \in (SUBSET c) \ {{}, c} :
    \E t \in s : \E u \in c : u \notin s /\ \E f \in Func : {t, u} \subseteq k[f]

\* While a function is processed, it appears in the cluster and in all sets that
\* may still join it.
Linked ==
  sets # {} => \E f \in Func : /\ cluster # {} => cluster \cap calls[f] # {}
                              /\ \A s \in sets : s \cap calls[f] # {}

ConnInv ==
  /\ \A t \in Thread : ConnectedBy(calls, map[t])
  /\ ConnectedBy(calls, cluster)
  /\ Linked

LEMMA ConnectedEmpty == ASSUME NEW k PROVE ConnectedBy(k, {})
  BY DEF ConnectedBy

\* Threads that all call one function are connected.
LEMMA ConnectedCallers ==
  ASSUME NEW k, NEW f \in Func, NEW c, c \subseteq k[f]
  PROVE  ConnectedBy(k, c)
<1> SUFFICES ASSUME NEW s \in (SUBSET c) \ {{}, c}
             PROVE  \E t \in s : \E u \in c :
                      u \notin s /\ \E g \in Func : {t, u} \subseteq k[g]
  BY DEF ConnectedBy
<1>1. PICK t \in s : TRUE
  OBVIOUS
<1>2. PICK u \in c : u \notin s
  OBVIOUS
<1>3. {t, u} \subseteq k[f]
  OBVIOUS
<1> QED
  BY <1>2, <1>3

\* Two connected sets of threads that call a common function are one.
LEMMA ConnectedUnion ==
  ASSUME NEW k, NEW a, NEW b, NEW f \in Func,
         ConnectedBy(k, a), ConnectedBy(k, b),
         a \cap k[f] # {}, b \cap k[f] # {}
  PROVE  ConnectedBy(k, a \cup b)
<1> SUFFICES ASSUME NEW s, s \subseteq a \cup b, s # {}, s # a \cup b
             PROVE  \E t \in s : \E u \in a \cup b :
                      u \notin s /\ \E g \in Func : {t, u} \subseteq k[g]
  BY DEF ConnectedBy
<1>1. CASE s \cap a # {} /\ s \cap a # a
  <2>1. s \cap a \in (SUBSET a) \ {{}, a}
    BY <1>1
  <2>2. PICK t \in s \cap a :
          \E u \in a : u \notin s \cap a /\ \E g \in Func : {t, u} \subseteq k[g]
    BY <2>1 DEF ConnectedBy
  <2>3. PICK u \in a : u \notin s \cap a /\ \E g \in Func : {t, u} \subseteq k[g]
    BY <2>2
  <2>4. t \in s /\ u \in a \cup b /\ u \notin s
    BY <2>3
  <2> QED
    BY <2>3, <2>4
<1>2. CASE s \cap b # {} /\ s \cap b # b
  <2>1. s \cap b \in (SUBSET b) \ {{}, b}
    BY <1>2
  <2>2. PICK t \in s \cap b :
          \E u \in b : u \notin s \cap b /\ \E g \in Func : {t, u} \subseteq k[g]
    BY <2>1 DEF ConnectedBy
  <2>3. PICK u \in b : u \notin s \cap b /\ \E g \in Func : {t, u} \subseteq k[g]
    BY <2>2
  <2>4. t \in s /\ u \in a \cup b /\ u \notin s
    BY <2>3
  <2> QED
    BY <2>3, <2>4
<1>3. CASE s \cap a \in {{}, a} /\ s \cap b \in {{}, b}
  <2>1. PICK x \in a : x \in k[f]
    OBVIOUS
  <2>2. PICK y \in b : y \in k[f]
    OBVIOUS
  <2>3. CASE x \in s
    <3>1. a \subseteq s
      BY <1>3, <2>3
    <3>2. y \notin s
      BY <1>3, <3>1
    <3>3. {x, y} \subseteq k[f] /\ y \in a \cup b
      BY <2>1, <2>2
    <3> QED
      BY <2>3, <3>2, <3>3
  <2>4. CASE x \notin s
    <3>1. s \cap a = {}
      BY <1>3, <2>4
    <3>2. b \subseteq s
      BY <1>3, <3>1
    <3>3. {y, x} \subseteq k[f] /\ x \in a \cup b /\ y \in s
      BY <2>1, <2>2, <3>2
    <3> QED
      BY <2>4, <3>3
  <2> QED
    BY <2>3, <2>4
<1> QED
  BY <1>1, <1>2, <1>3

LEMMA InitConn == ClusterInit => ConnInv
  BY ConnectedEmpty DEF ClusterInit, ConnInv, Linked

LEMMA NextFunctionConn ==
  ASSUME ClusterInv, ConnInv, NEW f \in Func, NextFunction(f)
  PROVE  ConnInv'
<1> DEFINE D == Accepted(f)
<1>1. D \subseteq calls[f]
  BY DEF Accepted, Detached
<1>2. calls' = calls /\ cluster' = {}
      /\ map' = [t \in Thread |-> IF t \in D THEN D ELSE map[t]]
      /\ sets' = {map'[t] : t \in calls[f]} \ {{}}
  BY DEF NextFunction, inputVars
<1>3. ConnectedBy(calls, D)
  BY <1>1, ConnectedCallers
<1> HIDE DEF D
<1>4. ASSUME NEW t \in Thread PROVE ConnectedBy(calls', map'[t])
  BY <1>2, <1>3 DEF ConnInv
<1>5. \A s \in sets' : s \cap calls[f] # {}
  <2> SUFFICES ASSUME NEW t \in calls[f], map'[t] # {}
               PROVE  map'[t] \cap calls[f] # {}
    BY <1>2
  <2>1. ClusterInv' /\ t \in Thread
    BY NextFunctionInv DEF ClusterInv, ClusterTypeOK
  <2>2. t \in map'[t]
    BY <2>1 DEF ClusterInv, ClassInv, Classes, OneClusterPerThread, ClusterTypeOK
  <2> QED
    BY <2>2
<1> QED
  BY <1>2, <1>4, <1>5, ConnectedEmpty DEF ConnInv, Linked

\* Every set written back is the cluster.
LEMMA SaveClusterConn ==
  ASSUME ConnInv, SaveCluster, UNCHANGED calls, NEW t \in Thread
  PROVE  ConnectedBy(calls', map'[t])
  BY DEF ConnInv, SaveCluster

LEMMA MergeSetConn ==
  ASSUME ClusterInv, ConnInv, NEW s \in sets, MergeSet(s)
  PROVE  ConnInv'
<1>1. calls' = calls /\ sets' \subseteq sets
  BY DEF MergeSet, inputVars
<1>2. PICK f \in Func : /\ cluster # {} => cluster \cap calls[f] # {}
                        /\ \A r \in sets : r \cap calls[f] # {}
  BY DEF ConnInv, Linked
<1>3. CASE cluster' = cluster /\ map' = map
  BY <1>1, <1>3 DEF ConnInv, Linked
<1>4. CASE SaveCluster /\ cluster' = {}
  <2>1. \A t \in Thread : ConnectedBy(calls', map'[t])
    BY <1>1, <1>4, SaveClusterConn
  <2> QED
    BY <1>1, <1>2, <1>4, <2>1, ConnectedEmpty DEF ConnInv, Linked
<1>5. CASE cluster' = s \cup cluster /\ map' = map
  <2>1. ConnectedBy(calls, s)
    <3>1. PICK t \in s : t \in Thread /\ map[t] = s
      BY DEF ClusterInv, ClassInv, SetsAreClasses, ClusterTypeOK
    <3> QED
      BY <3>1 DEF ConnInv
  <2>2. ConnectedBy(calls, s \cup cluster)
    <3>1. CASE cluster = {}
      <4>1. s \cup cluster = s
        BY <3>1
      <4> QED
        BY <2>1, <4>1
    <3>2. CASE cluster # {}
      BY <1>2, <2>1, <3>2, ConnectedUnion DEF ConnInv
    <3> QED
      BY <3>1, <3>2
  <2>3. cluster' \cap calls[f] # {}
    BY <1>2, <1>5
  <2>4. \A t \in Thread : ConnectedBy(calls', map'[t])
    BY <1>1, <1>5 DEF ConnInv
  <2> QED
    BY <1>1, <1>2, <1>5, <2>2, <2>3, <2>4 DEF ConnInv, Linked
<1> QED
  BY <1>3, <1>4, <1>5 DEF MergeSet

LEMMA NextConn == ClusterInv /\ ConnInv /\ [ClusterNext]_clusterVars => ConnInv'
<1> SUFFICES ASSUME ClusterInv, ConnInv, [ClusterNext]_clusterVars PROVE ConnInv'
  OBVIOUS
<1>1. ASSUME NEW f \in Func, NextFunction(f) PROVE ConnInv'
  BY <1>1, NextFunctionConn
<1>2. ASSUME NEW s \in sets, MergeSet(s) PROVE ConnInv'
  BY <1>2, MergeSetConn
<1>3. CASE FinishFunction
  <2>1. calls' = calls /\ cluster' = cluster /\ sets' = {} /\ SaveCluster
    BY <1>3 DEF FinishFunction, inputVars
  <2> QED
    BY <2>1, SaveClusterConn DEF ConnInv, Linked
<1>4. CASE StartCollecting \/ (\E t \in Thread : Collect(t)) \/ Return
  BY <1>4 DEF StartCollecting, Collect, Return, inputVars, mergeVars, ConnInv,
              Linked
<1>5. CASE UNCHANGED clusterVars
  BY <1>5 DEF clusterVars, inputVars, mergeVars, ConnInv, Linked
<1> QED
  BY <1>1, <1>2, <1>3, <1>4, <1>5 DEF ClusterNext

\* A cluster only ever holds threads that a chain of shared functions links.
THEOREM ClustersConnectedAlways == ClusterSpec => []ClustersConnected
<1>1. ConnInv => ClustersConnected
  <2> SUFFICES ASSUME ConnInv, NEW t \in Thread PROVE Connected(map[t])
    BY DEF ClustersConnected
  <2>1. ConnectedBy(calls, map[t])
    BY DEF ConnInv
  <2> QED
    BY <2>1 DEF ConnectedBy, Connected, Share
<1>2. ClusterSpec => []ConnInv
  BY InitConn, NextConn, ClusterInvAlways, PTL DEF ClusterSpec
<1> QED
  BY <1>1, <1>2, PTL

-----------------------------------------------------------------------------
(* Completeness of the result when the limit cannot be reached.            *)

Unlimited == max >= Cardinality(Thread)

\* The merging for f has taken place, or f takes no part in it.
Joined(f) == \A t, u \in calls[f] : map[t] # {} /\ map[u] = map[t]

Settled(f) == f \notin funcs /\ Cardinality(calls[f]) > 1 => Joined(f)

\* What remains to be merged for f is in a set that is still to be visited or
\* in the cluster that grows.
Underway(f) ==
  \A t \in calls[f] : map[t] # {} /\ (map[t] \in sets \/ t \in cluster)

MergedInv ==
  IF phase = "merge"
  THEN \E f \in Func : Underway(f) /\ \A g \in Func \ {f} : Settled(g)
  ELSE \A f \in Func : Settled(f)

\* Every cluster whose thread was collected is returned.
CollectInv ==
  /\ \A c \in processed : returned[c] > 0
  /\ phase \in {"collect", "done"} =>
       /\ funcs = {}
       /\ \A t \in Thread \ threads :
            Cardinality(map[t]) > 1 => returned[map[t]] > 0
  /\ phase = "done" => threads = {}

UnlimitedInv == Unlimited => MergedInv /\ CollectInv

\* Nothing exceeds a limit that is at least the number of threads.
LEMMA WithinLimit ==
  ASSUME ClusterInv, Unlimited, NEW c \in SUBSET Thread
  PROVE  ~(Cardinality(c) > max)
<1>1. IsFiniteSet(c) /\ Cardinality(c) <= Cardinality(Thread)
  BY FS_Subset, ClusterAssumption
<1>2. Cardinality(c) \in Nat /\ Cardinality(Thread) \in Nat /\ max \in Nat
  BY <1>1, FS_CardinalityType, ClusterAssumption DEF ClusterInv, ClusterTypeOK
<1> QED
  BY <1>1, <1>2 DEF Unlimited

LEMMA NextFunctionMerged ==
  ASSUME ClusterInv, Unlimited, MergedInv, NEW f \in Func, NextFunction(f)
  PROVE  MergedInv'
<1> DEFINE D == Detached(f)
<1>1. /\ calls \in [Func -> SUBSET Thread] /\ map \in [Thread -> SUBSET Thread]
      /\ D \in SUBSET Thread
  BY DEF ClusterInv, ClusterTypeOK, Detached
<1>2. Accepted(f) = D
  <2>1. ~(Cardinality(D) > max)
    BY <1>1, WithinLimit
  <2>2. Cardinality(D) \in Nat /\ max \in Nat
    BY <1>1, FS_Subset, FS_CardinalityType, ClusterAssumption DEF ClusterInv, ClusterTypeOK
  <2> QED
    BY <2>1, <2>2 DEF Accepted
<1>3. /\ map' = [t \in Thread |-> IF t \in D THEN D ELSE map[t]]
      /\ sets' = {map'[t] : t \in calls[f]} \ {{}}
      /\ funcs' = funcs \ {f} /\ phase' = "merge" /\ calls' = calls
  BY <1>2 DEF NextFunction, inputVars
<1>4. \A t \in Thread : map'[t] = IF t \in D THEN D ELSE map[t]
  BY <1>3
<1>5. \A t \in calls[f] : t \in D \/ map[t] # {}
  BY <1>1 DEF Detached
<1>6. \A t \in D : map[t] = {}
  BY DEF Detached
<1> HIDE DEF D
<1>7. Underway(f)'
  <2> SUFFICES ASSUME NEW t \in calls[f] PROVE map'[t] # {} /\ map'[t] \in sets'
    BY <1>3 DEF Underway
  <2>1. t \in Thread
    BY <1>1
  <2>2. map'[t] # {}
    BY <2>1, <1>4, <1>5
  <2> QED
    BY <2>2, <1>3
<1>8. ASSUME NEW g \in Func \ {f} PROVE Settled(g)'
  <2> SUFFICES ASSUME g \notin funcs, Cardinality(calls[g]) > 1,
                      NEW t \in calls[g], NEW u \in calls[g]
               PROVE  map'[t] # {} /\ map'[u] = map'[t]
    BY <1>3 DEF Settled, Joined
  <2>1. phase = "function"
    BY DEF NextFunction
  <2>2. Joined(g)
    BY <2>1 DEF MergedInv, Settled
  <2>3. map[t] # {} /\ map[u] = map[t] /\ t \in Thread /\ u \in Thread
    BY <2>2, <1>1 DEF Joined
  <2> QED
    BY <2>3, <1>4, <1>6
<1> QED
  BY <1>3, <1>7, <1>8 DEF MergedInv

LEMMA MergeSetMerged ==
  ASSUME ClusterInv, Unlimited, MergedInv, NEW s \in sets, MergeSet(s)
  PROVE  MergedInv'
<1>1. s \in SUBSET Thread /\ cluster \in SUBSET Thread
      /\ calls \in [Func -> SUBSET Thread]
  BY DEF ClusterInv, ClusterTypeOK
<1>2. ~(Cardinality(s) > max) /\ ~(Cardinality(s \cup cluster) > max)
  BY <1>1, WithinLimit
<1>3. /\ sets' = sets \ {s} /\ cluster' = s \cup cluster /\ map' = map
      /\ phase' = phase /\ phase = "merge" /\ funcs' = funcs /\ calls' = calls
  BY <1>2 DEF MergeSet, inputVars
<1>4. PICK f \in Func : Underway(f) /\ \A g \in Func \ {f} : Settled(g)
  BY <1>3 DEF MergedInv
<1>5. Underway(f)'
  <2> SUFFICES ASSUME NEW t \in calls[f]
               PROVE  map[t] # {} /\ (map[t] \in sets' \/ t \in cluster')
    BY <1>3 DEF Underway
  <2>1. map[t] # {} /\ (map[t] \in sets \/ t \in cluster)
    BY <1>4 DEF Underway
  <2>2. ASSUME map[t] = s PROVE t \in s
    BY <2>1, <2>2, <1>1 DEF ClusterInv, ClassInv, Classes, OneClusterPerThread
  <2> QED
    BY <2>1, <2>2, <1>3
<1>6. \A g \in Func \ {f} : Settled(g)'
  BY <1>3, <1>4 DEF Settled, Joined
<1> QED
  BY <1>3, <1>5, <1>6 DEF MergedInv

LEMMA FinishFunctionMerged ==
  ASSUME ClusterInv, MergedInv, FinishFunction
  PROVE  MergedInv'
<1>1. /\ phase = "merge" /\ sets = {} /\ phase' = "function"
      /\ map' = [t \in Thread |-> IF t \in cluster THEN cluster ELSE map[t]]
      /\ funcs' = funcs /\ calls' = calls
  BY DEF FinishFunction, SaveCluster, inputVars
<1>2. PICK f \in Func : Underway(f) /\ \A g \in Func \ {f} : Settled(g)
  BY <1>1 DEF MergedInv
<1>3. calls \in [Func -> SUBSET Thread] /\ map \in [Thread -> SUBSET Thread]
  BY DEF ClusterInv, ClusterTypeOK
<1>4. \A t \in Thread : map'[t] = IF t \in cluster THEN cluster ELSE map[t]
  BY <1>1
<1>5. Settled(f)'
  <2> SUFFICES ASSUME NEW t \in calls[f], NEW u \in calls[f]
               PROVE  map'[t] # {} /\ map'[u] = map'[t]
    BY <1>1 DEF Settled, Joined
  <2>1. t \in cluster /\ u \in cluster /\ t \in Thread /\ u \in Thread
    BY <1>1, <1>2, <1>3 DEF Underway
  <2> QED
    BY <2>1, <1>4
<1>6. ASSUME NEW g \in Func \ {f} PROVE Settled(g)'
  <2> SUFFICES ASSUME g \notin funcs, Cardinality(calls[g]) > 1,
                      NEW t \in calls[g], NEW u \in calls[g]
               PROVE  map'[t] # {} /\ map'[u] = map'[t]
    BY <1>1 DEF Settled, Joined
  <2>1. Joined(g)
    BY <1>2 DEF Settled
  <2>2. map[t] # {} /\ map[u] = map[t] /\ t \in Thread /\ u \in Thread
    BY <2>1, <1>3 DEF Joined
  <2>3. t \in map[t] /\ u \in map[u]
    BY <2>2, <1>3 DEF ClusterInv, ClassInv, Classes, OneClusterPerThread
  <2>4. t \in cluster <=> u \in cluster
    BY <2>2, <2>3 DEF ClusterInv, ClassInv, ClusterOfClasses
  <2> QED
    BY <2>2, <2>4, <1>4
<1> QED
  BY <1>1, <1>5, <1>6 DEF MergedInv

LEMMA CollectCollects ==
  ASSUME ClusterInv, CollectInv, NEW t \in Thread, Collect(t)
  PROVE  CollectInv'
<1>1. /\ phase = "collect" /\ phase' = phase /\ funcs' = funcs /\ map' = map
      /\ threads' = threads \ {t}
  BY DEF Collect, mergeVars
<1>2. map[t] \in SUBSET Thread /\ returned \in [SUBSET Thread -> Nat]
      /\ processed \subseteq SUBSET Thread /\ map \in [Thread -> SUBSET Thread]
  BY DEF ClusterInv, ClusterTypeOK
<1>3. /\ \A c \in processed : returned[c] > 0
      /\ funcs = {}
      /\ \A u \in Thread \ threads :
           Cardinality(map[u]) > 1 => returned[map[u]] > 0
  BY <1>1 DEF CollectInv
<1>4. CASE Collected(t) \/ Cardinality(map[t]) < 2
  <2>1. processed' = processed /\ returned' = returned
    BY <1>4 DEF Collect
  <2>2. IsFiniteSet(map[t]) /\ Cardinality(map[t]) \in Nat
    BY <1>2, FS_Subset, FS_CardinalityType, ClusterAssumption
  <2>3. Cardinality(map[t]) > 1 => returned[map[t]] > 0
    BY <2>2, <1>3, <1>4 DEF Collected
  <2> QED
    BY <2>1, <2>3, <1>1, <1>3 DEF CollectInv
<1>5. CASE ~(Collected(t) \/ Cardinality(map[t]) < 2)
  <2>1. /\ processed' = processed \cup {map[t]}
        /\ returned' = [returned EXCEPT ![map[t]] = returned[map[t]] + 1]
    BY <1>5 DEF Collect
  <2>2. returned'[map[t]] > 0
        /\ \A c \in SUBSET Thread : returned[c] > 0 => returned'[c] > 0
    BY <2>1, <1>2
  <2>3. \A c \in processed' : returned'[c] > 0
    BY <2>1, <2>2, <1>2, <1>3
  <2>4. \A u \in Thread \ threads' :
           Cardinality(map'[u]) > 1 => returned'[map'[u]] > 0
    BY <2>2, <1>1, <1>2, <1>3
  <2> QED
    BY <2>3, <2>4, <1>1, <1>3 DEF CollectInv
<1> QED
  BY <1>4, <1>5

LEMMA NextUnlimited ==
  ClusterInv /\ UnlimitedInv /\ [ClusterNext]_clusterVars => UnlimitedInv'
<1> SUFFICES ASSUME ClusterInv, UnlimitedInv, [ClusterNext]_clusterVars, Unlimited'
             PROVE  MergedInv' /\ CollectInv'
  BY DEF UnlimitedInv
<1>1. max' = max
  BY DEF ClusterNext, NextFunction, MergeSet, FinishFunction, StartCollecting, Collect,
         Return, clusterVars, inputVars
<1>2. Unlimited /\ MergedInv /\ CollectInv
  BY <1>1 DEF UnlimitedInv, Unlimited
<1>3. ASSUME NEW f \in Func, NextFunction(f) PROVE MergedInv' /\ CollectInv'
  <2>1. phase' = "merge" /\ UNCHANGED resultVars
    BY <1>3 DEF NextFunction
  <2> QED
    BY <2>1, <1>2, <1>3, NextFunctionMerged DEF CollectInv, resultVars
<1>4. ASSUME NEW s \in sets, MergeSet(s) PROVE MergedInv' /\ CollectInv'
  <2>1. phase = "merge" /\ phase' = phase /\ UNCHANGED resultVars
    BY <1>4 DEF MergeSet
  <2> QED
    BY <2>1, <1>2, <1>4, MergeSetMerged DEF CollectInv, resultVars
<1>5. CASE FinishFunction
  <2>1. phase' = "function" /\ UNCHANGED resultVars
    BY <1>5 DEF FinishFunction
  <2> QED
    BY <2>1, <1>2, <1>5, FinishFunctionMerged DEF CollectInv, resultVars
<1>6. CASE StartCollecting
  <2>1. /\ phase = "function" /\ phase' = "collect" /\ funcs = {} /\ funcs' = funcs
        /\ threads' = {t \in Thread : map[t] # {}}
        /\ UNCHANGED <<calls, map, processed, returned>>
    BY <1>6 DEF StartCollecting, inputVars, mergeVars
  <2>2. MergedInv'
    BY <2>1, <1>2 DEF MergedInv, Settled, Joined
  <2>3. Cardinality({}) = 0
    BY FS_EmptySet
  <2>4. ASSUME NEW t \in Thread, t \notin threads'
        PROVE  ~(Cardinality(map'[t]) > 1)
    <3>1. map'[t] = {}
      BY <2>1, <2>4
    <3>2. Cardinality(map'[t]) = 0
      BY <2>3, <3>1
    <3> QED
      BY <3>2
  <2> QED
    BY <2>1, <2>2, <2>4, <1>2 DEF CollectInv
<1>7. ASSUME NEW t \in Thread, Collect(t) PROVE MergedInv' /\ CollectInv'
  <2>1. phase = "collect" /\ phase' = phase /\ UNCHANGED <<calls, funcs, map>>
    BY <1>7 DEF Collect, inputVars, mergeVars
  <2>2. MergedInv'
    BY <2>1, <1>2 DEF MergedInv, Settled, Joined
  <2> QED
    BY <2>2, <1>2, <1>7, CollectCollects
<1>8. CASE Return
  <2>1. /\ phase = "collect" /\ phase' = "done" /\ threads = {}
        /\ UNCHANGED <<calls, funcs, map, threads, processed, returned>>
    BY <1>8 DEF Return, inputVars, mergeVars, resultVars
  <2>2. MergedInv'
    BY <2>1, <1>2 DEF MergedInv, Settled, Joined
  <2> QED
    BY <2>1, <2>2, <1>2 DEF CollectInv
<1>9. CASE UNCHANGED clusterVars
  BY <1>9, <1>2 DEF clusterVars, inputVars, mergeVars, resultVars, MergedInv, Underway,
                    Settled, Joined, CollectInv
<1> QED
  BY <1>3, <1>4, <1>5, <1>6, <1>7, <1>8, <1>9 DEF ClusterNext

\* When the limit cannot be reached, threads with a function in common are in the
\* same returned cluster, whatever the order of functions and thread sets was.
THEOREM ComponentsWhenUnlimitedAlways == ClusterSpec => []ComponentsWhenUnlimited
<1>1. ClusterInit => UnlimitedInv
  BY DEF ClusterInit, UnlimitedInv, MergedInv, Settled, CollectInv
<1>2. ClusterInv /\ UnlimitedInv => ComponentsWhenUnlimited
  <2> SUFFICES ASSUME ClusterInv, UnlimitedInv, phase = "done",
                      max >= Cardinality(Thread),
                      NEW t \in Thread, NEW u \in Thread, t # u,
                      NEW f \in Func, {t, u} \subseteq calls[f]
               PROVE  \E c \in Returned : {t, u} \subseteq c
    BY DEF ComponentsWhenUnlimited, Share
  <2>1. MergedInv /\ CollectInv
    BY DEF UnlimitedInv, Unlimited
  <2>2. calls[f] \in SUBSET Thread /\ map[t] \in SUBSET Thread
        /\ map[u] \in SUBSET Thread
    BY DEF ClusterInv, ClusterTypeOK
  <2>3. \A c \in SUBSET Thread : {t, u} \subseteq c => Cardinality(c) > 1
    <3> SUFFICES ASSUME NEW c \in SUBSET Thread, {t, u} \subseteq c
                 PROVE  Cardinality(c) > 1
      OBVIOUS
    <3>1. IsFiniteSet(c)
      BY FS_Subset, ClusterAssumption
    <3>2. IsFiniteSet({t, u}) /\ Cardinality({t, u}) <= Cardinality(c)
      BY <3>1, FS_Subset
    <3>3. Cardinality({t}) = 1 /\ IsFiniteSet({t})
      BY FS_Singleton
    <3>4. Cardinality({t} \cup {u}) = Cardinality({t}) + 1
      BY <3>3, FS_AddElement
    <3>5. {t} \cup {u} = {t, u}
      OBVIOUS
    <3> QED
      BY <3>1, <3>2, <3>3, <3>4, <3>5, FS_CardinalityType
  <2>4. Joined(f)
    BY <2>1, <2>2, <2>3 DEF MergedInv, Settled, CollectInv
  <2>5. map[t] # {} /\ map[u] = map[t]
    BY <2>4 DEF Joined
  <2>6. t \in map[t] /\ u \in map[t]
    BY <2>2, <2>5 DEF ClusterInv, ClassInv, Classes, OneClusterPerThread
  <2>7. returned[map[t]] > 0
    BY <2>1, <2>2, <2>3, <2>6 DEF CollectInv
  <2> QED
    BY <2>2, <2>6, <2>7 DEF Returned
<1>3. ClusterSpec => []UnlimitedInv
  BY <1>1, ClusterInvAlways, NextUnlimited, PTL DEF ClusterSpec
<1> QED
  BY <1>2, <1>3, ClusterInvAlways, PTL
=============================================================================
