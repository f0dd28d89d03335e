------------------------------ MODULE ProbableFix ------------------------------
(***************************************************************************)
(* mark-probably-fixed: for each release, each problem gets the oldest     *)
(* build that is newer than every affected package of its reports          *)
(* (actions/mark_probably_fixed.py), while uReports are saved, packages    *)
(* become known and problems come and go.                                  *)
(***************************************************************************)
EXTENDS Backtraces

CONSTANTS
  Problem, Fixer,
  Releases,  \* the releases in the order of system and version
  OpsysOf,   \* their systems
  Eol,       \* those that are not maintained any more
  BuildOf    \* of each package the name and the version of its build

ASSUME BuildAssumption == BuildOf \in [DOMAIN BuildOf -> STRING \X Nat]

VARIABLES
  problems,   \* the problems stored
  problemOf,  \* the problem of a report, if it has one
  fixes,      \* rows: the probable fix of a problem in a release
  builds,     \* how many rows there are of each build
  koji,       \* what each release got and has been out for long enough, the newest first
  fixer       \* each run of mark-probably-fixed

fixVars == <<problems, problemOf, fixes, builds, koji, fixer>>
serverVars == <<rowVars, frameVars>>

NoFixer == [pc |-> "idle", auto |-> FALSE, tasks |-> <<>>, all |-> {}, left |-> {}, list |-> <<>>,
            pend |-> <<>>, add |-> <<>>, expired |-> FALSE]
\* No run has taken place yet.
FixInit ==
  /\ fixes = <<>> /\ builds = <<>>
  /\ koji = [r \in Range(Releases) |-> <<>>] /\ fixer = [x \in Fixer |-> NoFixer]

\* Without systems all maintained releases, with one its releases or those given,
\* with several all of theirs.
Tasks(systems, given) ==
  LET chosen == IF systems = {} THEN Range(Releases) \ Eol
                ELSE IF Cardinality(systems) = 1 /\ given # {} THEN {r \in given : OpsysOf[r] \in systems}
                ELSE {r \in Range(Releases) : OpsysOf[r] \in systems}
  IN SelectSeq(Releases, LAMBDA r : r \in chosen)

FixStart(x, systems, given, auto) ==
  /\ fixer[x].pc = "idle"
  /\ fixer' = [fixer EXCEPT ![x] = [NoFixer EXCEPT !.pc = "release", !.auto = auto, !.all = problems, !.tasks = Tasks(systems, given)]]
  /\ UNCHANGED <<problems, problemOf, fixes, builds, koji, serverVars>>

\* What koji has tagged for the release and its updates; only Fedora has a koji.
ReleasedBuilds(r) == koji[r]
FixRelease(x) ==
  /\ fixer[x].pc = "release"
  /\ fixer' = [fixer EXCEPT ![x] =
       IF @.tasks = <<>> THEN NoFixer
       ELSE IF OpsysOf[Head(@.tasks)] # "fedora" THEN [NoFixer EXCEPT !.pc = "dead"]
       ELSE [@ EXCEPT !.pc = "problem", !.left = fixer[x].all, !.list = ReleasedBuilds(Head(fixer[x].tasks))]]
  /\ UNCHANGED <<problems, problemOf, fixes, builds, koji, serverVars>>

-----------------------------------------------------------------------------
(* One problem. *)
ProblemOf(r) == IF r \in DOMAIN problemOf THEN problemOf[r] ELSE {}
ReportsIn(q, release) == {r \in reports : q \in ProblemOf(r) /\ <<"release", r, release, "">> \in DOMAIN rows}
CrashedKnown(r) == {BuildOf[k[3]] : k \in {k \in DOMAIN rows : k[1] = "known" /\ k[2] = r /\ k[4] = "CRASHED"}}
\* A package that is not known is taken to be of the component of the report.
CrashedUnknown(r) == {<<r[1], BuildOf[k[3]][2]>> : k \in {k \in DOMAIN rows : k[1] = "unknown" /\ k[2] = r /\ k[4] = "CRASHED"}}
Affected(r) == CrashedKnown(r) \cup CrashedUnknown(r)

BuildsNamed(list, name) == {i \in DOMAIN list : list[i][1] = name}
\* Mutant: the first build that is newer is taken, however old the others are.
NewestFix(list, name, newest) ==
  LET mine == BuildsNamed(list, name)
  IN IF mine # {} /\ list[Min(mine)][2] > newest THEN {list[Min(mine)]} ELSE {}
\* The builds of a package from the newest one on are newer than what crashed.
OldestFix(list, name, newest) ==
  LET mine == BuildsNamed(list, name)
      newer == {i \in mine : \A j \in mine : j <= i => list[j][2] > newest}
  IN IF newer = {} THEN {} ELSE {list[Max(newer)]}
FixOf(q, release, list) ==
  LET mine == ReportsIn(q, release)
      all == UNION {Affected(r) : r \in mine}
      name == CHOOSE n \in {a[1] : a \in all} : TRUE
  IN IF mine = {} \/ (\E r \in mine : Affected(r) = {}) \/ Cardinality({a[1] : a \in all}) > 1 THEN {}
     ELSE OldestFix(list, name, Max({a[2] : a \in all}))

HasBuild(b) == Count(builds, b) > 0 \/ \E k \in packages : BuildOf[k] = b

\* The first look at a problem that is gone ends the run, unless nothing was
\* flushed since the problems were read.  A worker flushes with each query.
Flushing(x) == fixer[x].left = {} \/ (fixer[x].auto /\ fixer[x].pend # <<>>)
FixProblem(x) ==
  /\ fixer[x].pc = "problem" /\ ~Flushing(x)
  /\ \E q \in fixer[x].left :
       LET run == fixer[x]
           release == Head(run.tasks)
           fix == FixOf(q, release, run.list)
           row == <<q, release>>
           was == IF row \in DOMAIN fixes THEN <<fixes[row]>> ELSE <<>>
           new == {b \in fix : ~HasBuild(b)}
       IN fixer' = [fixer EXCEPT ![x] =
            IF run.expired /\ q \notin problems THEN [NoFixer EXCEPT !.pc = "dead"]
            ELSE [run EXCEPT !.left = @ \ {q}, !.pend = Put(@, row, [was |-> was, fix |-> fix]),
                             !.add = @ \o SetToSeq(new)]]
  /\ UNCHANGED <<problems, problemOf, fixes, builds, koji, serverVars>>

\* Rows that another run inserted meanwhile, and problems that are gone.
FixRefused(x) ==
  \E row \in DOMAIN fixer[x].pend :
    LET p == fixer[x].pend[row] IN
    IF p.was = <<>> THEN row \in DOMAIN fixes \/ row[1] \notin problems
                    ELSE row \notin DOMAIN fixes /\ p.was # <<p.fix>>

Changed(pend) == {row \in DOMAIN pend : pend[row].was # <<pend[row].fix>>}
FixFlush(x) ==
  LET run == fixer[x] IN
  /\ run.pc = "problem" /\ Flushing(x)
  /\ IF FixRefused(x)
     THEN fixer' = [fixer EXCEPT ![x] = [NoFixer EXCEPT !.pc = "dead"]] /\ UNCHANGED <<fixes, builds>>
     ELSE /\ fixes' = Over([row \in Changed(run.pend) |-> run.pend[row].fix], fixes)
          /\ builds' = Over([b \in Range(run.add) |-> Count(builds, b) + Cardinality({i \in DOMAIN run.add : run.add[i] = b})], builds)
          /\ fixer' = [fixer EXCEPT ![x] =
               [run EXCEPT !.pend = <<>>, !.add = <<>>, !.expired = TRUE,
                           !.pc = IF run.left = {} THEN "release" ELSE "problem",
                           !.tasks = IF run.left = {} THEN Tail(@) ELSE @]]
  /\ UNCHANGED <<problems, problemOf, koji, serverVars>>

-----------------------------------------------------------------------------
(* What create-problems and koji do meanwhile. *)
AssignProblem(q, r) ==
  /\ r \in reports /\ problems' = problems \cup {q} /\ problemOf' = Put(problemOf, r, {q})
  /\ UNCHANGED <<fixes, builds, koji, fixer, serverVars>>
\* An empty problem is deleted, and with it its rows.
RemoveProblem(q) ==
  /\ q \in problems /\ \A r \in DOMAIN problemOf : q \notin problemOf[r]
  /\ problems' = problems \ {q}
  /\ fixes' = [row \in {row \in DOMAIN fixes : row[1] # q} |-> fixes[row]]
  /\ UNCHANGED <<problemOf, builds, koji, fixer, serverVars>>
NewBuild(r, b) ==
  /\ OpsysOf[r] = "fedora" /\ koji' = [koji EXCEPT ![r] = <<b>> \o @]
  /\ UNCHANGED <<problems, problemOf, fixes, builds, fixer, serverVars>>

\* What the choice of a fix depends on.
FixInputs == <<reports, rows, problems, problemOf, koji>>
\* The i-th build of a release fixes a problem if it and all later builds of the
\* package are newer than what any of its reports has crashed with.
Fixes(q, release, i) ==
  LET b == koji[release][i] IN
  /\ ReportsIn(q, release) # {}
  /\ \A r \in ReportsIn(q, release) :
       /\ Affected(r) # {}
       /\ \A a \in Affected(r), j \in 1 .. i :
            a[1] = b[1] /\ (koji[release][j][1] = b[1] => koji[release][j][2] > a[2])
RightFix(q, release) ==
  LET good == {i \in DOMAIN koji[release] : Fixes(q, release, i)}
  IN IF good = {} THEN {} ELSE {koji[release][Max(good)]}
FixStep(x) == FixRelease(x) \/ FixProblem(x) \/ FixFlush(x)
==============================================================================
