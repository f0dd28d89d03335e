---------------------------- MODULE CreateProblems ----------------------------
(***************************************************************************)
(* The create-problems action (pyfaf/actions/create_problems.py) on the    *)
(* reports of one problem type: it groups reports with similar backtraces  *)
(* into problems, keeping the problems that exist where it can.  Cron      *)
(* starts it with no options; people start it beside that, with            *)
(* --report-min-count or --speedup, and nothing keeps the runs apart.      *)
(*                                                                         *)
(* Every query and every flush is a transaction of its own (the session is *)
(* autocommitting), so another run, or save-reports and the retracing that *)
(* change what is clustered, may come between any two of them.             *)
(*                                                                         *)
(* The comparison of backtraces (ThreadClusters, then satyr's distances)   *)
(* is an equivalence that the environment chooses and changes.  Components *)
(* and occurrence dates of problems are left out.                          *)
(***************************************************************************)
EXTENDS Naturals, FiniteSets

CONSTANTS
  Report,      \* report ids
  Run,         \* create-problems processes
  Unreadable,  \* reports whose backtrace satyr may fail to read
  Rare,        \* reports that may have fewer occurrences than --report-min-count
  CommandLine, \* the options runs are started with, subsets of Option
  MaxStarts,   \* bound: runs started
  MaxChanges,  \* bound: changes of the clustering, and reports saved
  MaxCrashes   \* bound: runs killed

ASSUME ProblemsAssumption ==
  /\ IsFiniteSet(Report) /\ Report \subseteq Nat
  /\ Unreadable \subseteq Report /\ Rare \subseteq Report
  /\ CommandLine \subseteq SUBSET {"speedup", "minCount"}
  /\ {MaxStarts, MaxChanges, MaxCrashes} \subseteq Nat

VARIABLES
  known,      \* reports in the database
  low,        \* those with fewer occurrences than --report-min-count
  invalid,    \* those whose backtrace satyr cannot read
  group,      \* the cluster of each report, named by its least report
  problemOf,  \* Report.problem_id
  problems,   \* rows of Problem
  lastId,     \* the sequence of Problem.id
  pc,
  options,    \* the command line of each run
  loaded,     \* db_reports
  had,        \* their problem_id when they were loaded
  dbProblems, \* the problems it loaded
  clusters,   \* clusters for which no problem is chosen yet
  plan,       \* the session: [reports, problem] still to be flushed
  seen,       \* problem_id of the reports as it is known to the session
  toDelete,   \* empty_problems
  starts, changes, crashes,
  quiet       \* history: nobody else wrote anything since the run began

dbVars == <<problemOf, problems, lastId>>
reportVars == <<known, low, invalid, group>>
runVars == <<pc, options, loaded, had, dbProblems, clusters, plan, seen, toDelete>>
boundVars == <<starts, changes, crashes>>
vars == <<reportVars, dbVars, runVars, boundVars, quiet>>

NoProblem == 0   \* problem_id NULL, and the id of a Problem not yet flushed
Problem == 1 .. lastId
Maybe(s) == s \cup {NoProblem}
Members(p) == {r \in known : problemOf[r] = p}
Groupings ==
  {g \in [Report -> Report] : \A r \in Report : g[r] <= r /\ g[g[r]] = g[r]}

TypeOK ==
  /\ low \subseteq Rare /\ invalid \subseteq Unreadable /\ known \subseteq Report
  /\ group \in Groupings
  /\ lastId \in Nat
  /\ problems \subseteq Problem
  /\ problemOf \in [Report -> Maybe(problems)]
  /\ pc \in [Run -> {"idle", "problems", "cluster", "match", "attach", "unassign",
                     "low", "flush", "empty", "delete", "done"}]
  /\ options \in [Run -> CommandLine \cup {{}}]
  /\ \A x \in Run : /\ loaded[x] \subseteq known
                    /\ had[x] \in [Report -> Maybe(Problem)]
                    /\ dbProblems[x] \subseteq Problem
                    /\ clusters[x] \subseteq SUBSET loaded[x]
                    /\ plan[x] \subseteq [reports : SUBSET loaded[x], problem : Maybe(Problem)]
                    /\ seen[x] \in [Report -> Maybe(Problem)]
                    /\ toDelete[x] \subseteq Problem
  /\ quiet \in [Run -> BOOLEAN]
  /\ starts <= MaxStarts /\ changes <= MaxChanges /\ crashes <= MaxCrashes

NothingLoaded == [r \in Report |-> NoProblem]
Restricted(f, rs) == [r \in Report |-> IF r \in rs THEN f[r] ELSE NoProblem]

\* Any number of reports, in problems left by earlier runs under other
\* clusterings; a run killed before it cleaned up has left a problem empty.
Init ==
  /\ known \in SUBSET Report
  /\ low \in SUBSET Rare
  /\ invalid \in SUBSET Unreadable
  /\ group \in Groupings
  /\ problems \in {{}, {1}, {1, 2}}
  /\ lastId = Cardinality(problems)
  /\ problemOf \in {f \in [Report -> Maybe(problems)] :
                      \A r \in Report : r \notin known => f[r] = NoProblem}
  /\ pc = [x \in Run |-> "idle"]
  /\ options = [x \in Run |-> {}]
  /\ loaded = [x \in Run |-> {}]
  /\ had = [x \in Run |-> NothingLoaded]
  /\ dbProblems = [x \in Run |-> {}]
  /\ clusters = [x \in Run |-> {}]
  /\ plan = [x \in Run |-> {}]
  /\ seen = [x \in Run |-> NothingLoaded]
  /\ toDelete = [x \in Run |-> {}]
  /\ starts = 0 /\ changes = 0 /\ crashes = 0
  /\ quiet = [x \in Run |-> FALSE]

Goto(x, step) == pc' = [pc EXCEPT ![x] = step]

Alone(x) == quiet' = [y \in Run |-> quiet[y] /\ y = x]

-----------------------------------------------------------------------------
(* Environment.                                                            *)

\* save-reports stores a new report, without a problem.
SaveReport(r) ==
  /\ r \notin known /\ changes < MaxChanges
  /\ known' = known \cup {r}
  /\ changes' = changes + 1
  /\ quiet' = [x \in Run |-> FALSE]
  /\ UNCHANGED <<low, invalid, group, dbVars, runVars, starts, crashes>>

\* save-reports counts a report once more, which takes it over the limit.
CountReport(r) ==
  /\ r \in known \cap low /\ changes < MaxChanges
  /\ low' = low \ {r}
  /\ changes' = changes + 1
  /\ quiet' = [x \in Run |-> FALSE]
  /\ UNCHANGED <<known, invalid, group, dbVars, runVars, starts, crashes>>

\* Retracing finds function names, and other reports become similar.
Retrace ==
  /\ changes < MaxChanges
  /\ group' \in Groupings \ {group}
  /\ changes' = changes + 1
  /\ quiet' = [x \in Run |-> FALSE]
  /\ UNCHANGED <<known, low, invalid, dbVars, runVars, starts, crashes>>

\* The session is closed.
Close(x) ==
  /\ loaded' = [loaded EXCEPT ![x] = {}]
  /\ had' = [had EXCEPT ![x] = NothingLoaded]
  /\ dbProblems' = [dbProblems EXCEPT ![x] = {}]
  /\ clusters' = [clusters EXCEPT ![x] = {}]
  /\ plan' = [plan EXCEPT ![x] = {}]
  /\ seen' = [seen EXCEPT ![x] = NothingLoaded]
  /\ toDelete' = [toDelete EXCEPT ![x] = {}]

\* A run fails or is killed.
Stop(x) ==
  /\ Goto(x, "idle")
  /\ Close(x)
  /\ options' = [options EXCEPT ![x] = {}]
  /\ quiet' = [quiet EXCEPT ![x] = FALSE]

-----------------------------------------------------------------------------
(* Loading.                                                                *)

Ignored(opts) == IF "minCount" \in opts THEN low ELSE {}

\* get_reports_for_problems: one report stands for each problem.
Representatives ==
  {r \in known : /\ problemOf[r] # NoProblem
                 /\ \A s \in Members(problemOf[r]) : r <= s}

\* get_unassigned_reports
Unassigned(opts) == {r \in known \ Ignored(opts) : problemOf[r] = NoProblem}

LoadReports(x, opts) ==
  /\ pc[x] \in {"idle", "done"} /\ starts < MaxStarts
  /\ starts' = starts + 1
  /\ options' = [options EXCEPT ![x] = opts]
  /\ loaded' = [loaded EXCEPT ![x] =
       IF "speedup" \in opts THEN Representatives \cup Unassigned(opts)
       ELSE known \ Ignored(opts)]
  /\ had' = [had EXCEPT ![x] = Restricted(problemOf, loaded'[x])]
  /\ quiet' = [quiet EXCEPT ![x] = TRUE]
  /\ Goto(x, "problems")
  /\ UNCHANGED <<reportVars, dbVars, dbProblems, clusters, plan, seen, toDelete,
                 changes, crashes>>

LoadProblems(x) ==
  /\ pc[x] = "problems"
  /\ dbProblems' = [dbProblems EXCEPT ![x] = problems]
  /\ Goto(x, "cluster")
  /\ UNCHANGED <<reportVars, dbVars, options, loaded, had, clusters, plan, seen,
                 toDelete, boundVars, quiet>>

-----------------------------------------------------------------------------
(* Clustering, and the first of the three phases of _iter_problems.        *)

\* A report that is alone is not clustered, and not even read.
Clusters(x) ==
  LET valid == loaded[x] \ invalid
      alone == {r \in loaded[x] : had[x][r] = NoProblem}
  IN  IF Cardinality(loaded[x]) = 1
      THEN IF alone = {} THEN {} ELSE {alone}
      ELSE {{s \in valid : group[s] = group[r]} : r \in valid}

\* reuse_problems: the problem that had exactly the loaded reports in c.
Reused(x, c) ==
  {had[x][r] : r \in {s \in c : /\ had[x][s] # NoProblem
                                /\ c = {t \in loaded[x] : had[x][t] = had[x][s]}}}

\* Reading an expired object whose row is gone raises, and so does using a
\* problem that is not in problems_dict.
LookupFails(x) ==
  /\ Cardinality(loaded[x]) > 1
  /\ \E c \in Clusters(x) :
       IF Reused(x, c) = {} THEN ~(dbProblems[x] \subseteq problems)
       ELSE ~(Reused(x, c) \subseteq dbProblems[x] \cap problems)

\* Mutant: a cluster that is a problem already gets a new one.
LookUpNothing(x) ==
  /\ pc[x] = "cluster" /\ "speedup" \notin options[x]
  /\ plan' = [plan EXCEPT ![x] =
       {[reports |-> c, problem |-> NoProblem] : c \in Clusters(x)}]
  /\ seen' = [seen EXCEPT ![x] = Restricted(problemOf, loaded[x])]
  /\ Goto(x, "match")
  /\ UNCHANGED <<reportVars, dbVars, options, loaded, had, dbProblems, clusters,
                 toDelete, boundVars, quiet>>

\* Clusters that are problems already keep them; what the session knows of the
\* reports is read again.
LookUp(x) ==
  /\ pc[x] = "cluster" /\ "speedup" \notin options[x]
  /\ \/ LookupFails(x) /\ Stop(x)
     \/ /\ ~LookupFails(x)
        /\ plan' = [plan EXCEPT ![x] =
             UNION {{[reports |-> c, problem |-> p] : p \in Reused(x, c)} :
                      c \in Clusters(x)}]
        /\ clusters' = [clusters EXCEPT ![x] = {c \in Clusters(x) : Reused(x, c) = {}}]
        /\ seen' = [seen EXCEPT ![x] = Restricted(problemOf, loaded[x])]
        /\ Goto(x, "match")
        /\ UNCHANGED <<options, loaded, had, dbProblems, toDelete, quiet>>
  /\ UNCHANGED <<reportVars, dbVars, boundVars>>

-----------------------------------------------------------------------------
(* The second and the third phase.                                         *)

Match(x, c, p) == Cardinality({r \in c : seen[x][r] = p})

Used(x) == {q.problem : q \in plan[x]}

\* Mutant: a problem may be matched to two clusters.
MatchesWithUsed(x) ==
  {m \in clusters[x] \X dbProblems[x] : Match(x, m[1], m[2]) > 0}

Matches(x) ==
  {m \in clusters[x] \X dbProblems[x] :
     Match(x, m[1], m[2]) > 0 /\ m[2] \notin Used(x)}

\* The match with the highest share of the cluster's reports goes first.
MatchBest(x) ==
  /\ pc[x] = "match"
  /\ \E m \in Matches(x) :
       /\ \A n \in Matches(x) :
            Match(x, n[1], n[2]) * Cardinality(m[1])
              <= Match(x, m[1], m[2]) * Cardinality(n[1])
       /\ plan' = [plan EXCEPT ![x] = @ \cup {[reports |-> m[1], problem |-> m[2]]}]
       /\ clusters' = [clusters EXCEPT ![x] = @ \ {m[1]}]
  /\ UNCHANGED <<reportVars, dbVars, pc, options, loaded, had, dbProblems, seen,
                 toDelete, boundVars, quiet>>

\* What is left becomes new problems.
CreateRest(x) ==
  /\ pc[x] = "match" /\ Matches(x) = {}
  /\ plan' = [plan EXCEPT ![x] =
       @ \cup {[reports |-> c, problem |-> NoProblem] : c \in clusters[x]}]
  /\ clusters' = [clusters EXCEPT ![x] = {}]
  /\ Goto(x, "unassign")
  /\ UNCHANGED <<reportVars, dbVars, options, loaded, had, dbProblems, seen,
                 toDelete, boundVars, quiet>>

-----------------------------------------------------------------------------
(* Writing.                                                                *)

Unset(rs) == problemOf' = [r \in Report |-> IF r \in rs THEN NoProblem ELSE problemOf[r]]

\* Mutant: reports that cannot be clustered stay in their problems.
UnassignNothing(x) ==
  /\ pc[x] = "unassign"
  /\ Goto(x, IF "minCount" \in options[x] THEN "low" ELSE "flush")
  /\ Alone(x)
  /\ UNCHANGED <<reportVars, dbVars, options, loaded, had, dbProblems, clusters,
                 plan, seen, toDelete, boundVars>>

\* unassign_reports, for reports that had a problem when they were loaded.  It
\* is written at once, ahead of the flush.
Unassign(x) ==
  /\ pc[x] = "unassign"
  /\ Unset(IF Cardinality(loaded[x]) = 1 THEN {}
           ELSE {r \in loaded[x] \cap invalid : had[x][r] # NoProblem})
  /\ Goto(x, IF "minCount" \in options[x] THEN "low" ELSE "flush")
  /\ Alone(x)
  /\ UNCHANGED <<reportVars, problems, lastId, options, loaded, had, dbProblems,
                 clusters, plan, seen, toDelete, boundVars>>

\* remove_problem_from_low_count_reports_by_type
UnassignLow(x) ==
  /\ pc[x] = "low"
  /\ Unset(low)
  /\ Goto(x, "flush")
  /\ Alone(x)
  /\ UNCHANGED <<reportVars, problems, lastId, options, loaded, had, dbProblems,
                 clusters, plan, seen, toDelete, boundVars>>

\* Only a changed problem_id is written.
Updated(x, q) == {r \in q.reports : seen[x][r] # q.problem}

\* A report is to refer to a problem that another run has deleted.
FlushFails(x) ==
  \E q \in plan[x] : /\ q.problem \notin Maybe(problems)
                     /\ Updated(x, q) # {}

\* The session is written: rows for the new problems and for some more, in
\* any order, and the reports.
WriteWith(x, more) ==
  LET new == {q \in plan[x] : q.problem = NoProblem} \cup more
      ids == lastId + 1 .. lastId + Cardinality(new)
  IN  \E id \in [new -> ids] :
        /\ \A q, r \in new : id[q] = id[r] => q = r
        /\ lastId' = lastId + Cardinality(new)
        /\ problems' = problems \cup ids
        /\ problemOf' = [r \in Report |->
             IF \E q \in plan[x] : q.problem = NoProblem /\ r \in q.reports
             THEN id[CHOOSE q \in plan[x] : q.problem = NoProblem /\ r \in q.reports]
             ELSE IF \E q \in plan[x] : r \in Updated(x, q)
             THEN (CHOOSE q \in plan[x] : r \in Updated(x, q)).problem
             ELSE problemOf[r]]
        /\ plan' = [plan EXCEPT ![x] =
             {[reports |-> q.reports, problem |-> id[q]] : q \in more}]

Flush(x) ==
  /\ pc[x] = "flush"
  /\ \/ FlushFails(x) /\ Stop(x) /\ UNCHANGED dbVars
     \/ /\ ~FlushFails(x)
        /\ WriteWith(x, {})
        /\ Goto(x, "empty")
        /\ Alone(x)
        /\ loaded' = [loaded EXCEPT ![x] = {}]
        /\ had' = [had EXCEPT ![x] = NothingLoaded]
        /\ dbProblems' = [dbProblems EXCEPT ![x] = {}]
        /\ seen' = [seen EXCEPT ![x] = NothingLoaded]
        /\ UNCHANGED <<options, clusters, toDelete>>
  /\ UNCHANGED <<reportVars, boundVars>>

-----------------------------------------------------------------------------
(* --speedup: only new reports are given a problem.                        *)

StartAttaching(x) ==
  /\ pc[x] = "cluster" /\ "speedup" \in options[x]
  /\ clusters' = [clusters EXCEPT ![x] = Clusters(x)]
  /\ Goto(x, "attach")
  /\ UNCHANGED <<reportVars, dbVars, options, loaded, had, dbProblems, plan, seen,
                 toDelete, boundVars, quiet>>

\* problem_id is read again, unless there was only one report.
Assigned(x, c) ==
  {r \in c : (IF Cardinality(loaded[x]) = 1 THEN had[x] ELSE problemOf)[r] # NoProblem}

\* Mutant: the reports that stand for their problems are moved as well.
AttachAll(x) ==
  /\ pc[x] = "attach"
  /\ \E c \in clusters[x] :
       /\ Assigned(x, c) # {}
       /\ \E origin \in Assigned(x, c) :
            plan' = [plan EXCEPT ![x] =
              @ \cup {[reports |-> c, problem |-> problemOf[origin]]}]
       /\ seen' = [seen EXCEPT ![x] = [r \in Report |->
                     IF r \in c THEN problemOf[r] ELSE @[r]]]
       /\ clusters' = [clusters EXCEPT ![x] = @ \ {c}]
  /\ UNCHANGED <<reportVars, dbVars, pc, options, loaded, had, dbProblems,
                 toDelete, boundVars, quiet>>

\* New reports join the problem of a report in their cluster, and if there is
\* more than one, nothing says which.
Attach(x) ==
  /\ pc[x] = "attach"
  /\ \E c \in clusters[x] :
       /\ Assigned(x, c) # {}
       /\ \E origin \in Assigned(x, c) :
            plan' = [plan EXCEPT ![x] = IF Cardinality(c) = 1 THEN @ ELSE
              @ \cup {[reports |-> c \ Assigned(x, c), problem |-> problemOf[origin]]}]
       /\ seen' = [seen EXCEPT ![x] = [r \in Report |->
                     IF r \in c THEN problemOf[r] ELSE @[r]]]
       /\ clusters' = [clusters EXCEPT ![x] = @ \ {c}]
  /\ UNCHANGED <<reportVars, dbVars, pc, options, loaded, had, dbProblems,
                 toDelete, boundVars, quiet>>

\* Mutant: a new report that is like no other one is passed over.
AttachCompany(x) ==
  /\ pc[x] = "attach"
  /\ \E c \in clusters[x] :
       /\ Assigned(x, c) = {}
       /\ \/ FlushFails(x) /\ Stop(x) /\ UNCHANGED dbVars
          \/ /\ ~FlushFails(x)
             /\ WriteWith(x, IF Cardinality(c) = 1 THEN {}
                             ELSE {[reports |-> c, problem |-> NoProblem]})
             /\ seen' = [seen EXCEPT ![x] = NothingLoaded]
             /\ clusters' = [clusters EXCEPT ![x] = @ \ {c}]
             /\ Alone(x)
             /\ UNCHANGED <<pc, options, loaded, had, dbProblems, toDelete>>
  /\ UNCHANGED <<reportVars, boundVars>>

\* A cluster of new reports becomes a problem.  The flush that gives it an id
\* writes everything before it, and the reports stay in the session.
AttachToNew(x) ==
  /\ pc[x] = "attach"
  /\ \E c \in clusters[x] :
       /\ Assigned(x, c) = {}
       /\ \/ FlushFails(x) /\ Stop(x) /\ UNCHANGED dbVars
          \/ /\ ~FlushFails(x)
             /\ WriteWith(x, {[reports |-> c, problem |-> NoProblem]})
             /\ seen' = [seen EXCEPT ![x] = NothingLoaded]
             /\ clusters' = [clusters EXCEPT ![x] = @ \ {c}]
             /\ Alone(x)
             /\ UNCHANGED <<pc, options, loaded, had, dbProblems, toDelete>>
  /\ UNCHANGED <<reportVars, boundVars>>

FinishAttaching(x) ==
  /\ pc[x] = "attach" /\ clusters[x] = {}
  /\ Goto(x, "flush")
  /\ UNCHANGED <<reportVars, dbVars, options, loaded, had, dbProblems, clusters,
                 plan, seen, toDelete, boundVars, quiet>>

-----------------------------------------------------------------------------
(* _remove_empty_problems                                                  *)

FindEmpty(x) ==
  /\ pc[x] = "empty"
  /\ toDelete' = [toDelete EXCEPT ![x] = {p \in problems : Members(p) = {}}]
  /\ Goto(x, "delete")
  /\ UNCHANGED <<reportVars, dbVars, options, loaded, had, dbProblems, clusters,
                 plan, seen, boundVars, quiet>>

\* The flush that deletes a problem detaches the reports it finds in it by then.
DeleteEmpty(x) ==
  /\ pc[x] = "delete"
  /\ problems' = problems \ toDelete[x]
  /\ Unset({r \in Report : problemOf[r] \in toDelete[x]})
  /\ Close(x)
  /\ Goto(x, "done")
  /\ Alone(x)
  /\ UNCHANGED <<reportVars, lastId, options, boundVars>>

\* The run is killed.
Crash(x) ==
  /\ pc[x] \notin {"idle", "done"} /\ crashes < MaxCrashes
  /\ crashes' = crashes + 1
  /\ Stop(x)
  /\ UNCHANGED <<reportVars, dbVars, starts, changes>>

Step(x) == \/ LoadProblems(x) \/ LookUp(x) \/ MatchBest(x) \/ CreateRest(x)
           \/ Unassign(x) \/ UnassignLow(x) \/ Flush(x)
           \/ StartAttaching(x) \/ Attach(x) \/ AttachToNew(x) \/ FinishAttaching(x)
           \/ FindEmpty(x) \/ DeleteEmpty(x)

Next == \/ \E r \in Report : SaveReport(r) \/ CountReport(r)
        \/ Retrace
        \/ \E x \in Run : \/ \E opts \in CommandLine : LoadReports(x, opts)
                          \/ Step(x) \/ Crash(x)

Spec == Init /\ [][Next]_vars

-----------------------------------------------------------------------------
(* Properties.                                                             *)

\* The reports that a run with these options would cluster now.
Clustered(opts) ==
  LET candidates == known \ Ignored(opts)
  IN  IF Cardinality(candidates) = 1 THEN candidates ELSE candidates \ invalid

\* Reports are in one problem exactly if they are similar, reports that do not
\* count are in none, and no problem is empty.
Tidy(opts) ==
  /\ \A r, s \in Clustered(opts) :
       problemOf[r] = problemOf[s] <=> group[r] = group[s]
  /\ \A r \in known : problemOf[r] # NoProblem <=> r \in Clustered(opts)
  /\ \A p \in problems : Members(p) # {}

\* Whatever overlapping runs, killed runs and changes of the reports left behind,
\* one run that is left undisturbed puts all of it in order.
TidyAfterRun ==
  \A x \in Run : pc[x] = "done" /\ quiet[x] /\ "speedup" \notin options[x]
                   => Tidy(options[x])

\* The same for --speedup, which need not merge or split what it finds: every
\* report it read is in a problem, and no problem is empty.
AttachedAfterRun ==
  \A x \in Run : pc[x] = "done" /\ quiet[x] /\ "speedup" \in options[x]
                   => /\ \A r \in known \ (Ignored(options[x]) \cup invalid) : problemOf[r] # NoProblem
                      /\ \A p \in problems : Members(p) # {}

\* When everything is in order, running again moves no report: problems keep
\* their ids, which is what links to them rely on.
StableWhenTidy ==
  [][\A x \in Run : quiet[x] /\ quiet'[x] /\ "speedup" \notin options[x]
                    /\ Tidy(options[x])
                      => UNCHANGED <<problemOf, problems>>]_vars

\* "Only attach new reports to existing problems": a report that has a problem
\* keeps it.
AttachOnly ==
  [][\A x \in Run : quiet[x] /\ quiet'[x] /\ "speedup" \in options[x]
       => \A r \in Report : problemOf[r] \in {NoProblem, problemOf'[r]}]_vars
=============================================================================
