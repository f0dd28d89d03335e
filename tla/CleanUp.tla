------------------------------- MODULE CleanUp -------------------------------
(***************************************************************************)
(* cleanup-packages, cleanup-unassigned --force and releasedel: they pick   *)
(* builds by their links, delete the files of their packages, and rows     *)
(* (actions/cleanup_packages.py, cleanup_unassigned.py, releasedel.py).    *)
(***************************************************************************)
EXTENDS PackageRepo

CONSTANT Cleaner

VARIABLE clean  \* what each run is doing

ASSUME CleanAssumption == Cleaner \subseteq Process

Rest == [pc |-> "done", op |-> "none", target |-> {}, todo |-> {}, build |-> {}, files |-> {}]

CleanRun ==
  [pc : {"done", "dead", "unlink", "builds", "files", "rows", "build", "repos", "reports", "release"},
   op : {"none", "packages", "unassigned", "releasedel"}, target : SUBSET (Release \cup Arch),
   todo : SUBSET (1..lastId), build : SUBSET (1..lastId), files : SUBSET (1..lastId)]
CleanTypeOK == clean \in [Cleaner -> CleanRun]

CleanInit == clean = [c \in Cleaner |-> Rest]

Cleaning == {c \in Cleaner : clean[c].pc \notin {"done", "dead"}}

Turns(c, run) == clean' = [clean EXCEPT ![c] = run]
CGo(c, pc) ==
  Turns(c, IF pc \in {"done", "dead"} THEN [Rest EXCEPT !.pc = pc] ELSE [clean[c] EXCEPT !.pc = pc])
CleanDies(c) == CGo(c, "dead") /\ DieOf(c, "database")

CleanStart(c, busy, op, target, chosen, pc) ==
  /\ clean[c].pc \in {"done", "dead"}
  /\ Turns(c, [Rest EXCEPT !.pc = pc, !.op = op, !.target = target, !.todo = chosen])
  /\ Begin(c, busy)
  /\ UNCHANGED <<systemVars, packageVars>>

\* The builds of a release and of no other, or of an architecture.
CleanupPackages(c, busy) ==
  \/ \E r \in releases : CleanStart(c, busy, "packages", {r}, BuildsOnlyOf(r), "builds")
  \/ \E a \in archs : CleanStart(c, busy, "packages", {a}, BuildsOnlyOn(a), "builds")
CleanupUnassigned(c, busy) == CleanStart(c, busy, "unassigned", {}, Unassigned, "builds")
ReleaseDelete(c, busy) ==
  \E r \in releases : CleanStart(c, busy, "releasedel", {r}, BuildsOnlyOf(r), "unlink")

Pointing(c) == {l \in links : l[2] \in clean[c].target \/ l[3] \in clean[c].target}

\* releasedel deletes the links before the files, cleanup-packages after them.
Unlink(c) ==
  /\ clean[c].pc = "unlink"
  /\ links' = links \ Pointing(c)
  /\ CGo(c, IF clean[c].op = "releasedel" THEN "builds" ELSE "done")
  /\ UNCHANGED <<systemVars, builds, buildComponents, packages, provides, whole, part, orphans, lastId, processVars>>

AfterBuilds(op) ==
  CASE op = "packages" -> "unlink" [] op = "unassigned" -> "done" [] OTHER -> "repos"

NextBuild(c) ==
  /\ clean[c].pc = "builds"
  /\ IF clean[c].todo = {} THEN CGo(c, AfterBuilds(clean[c].op))
     ELSE \E b \in clean[c].todo :
            Turns(c, [clean[c] EXCEPT !.todo = @ \ {b}, !.build = {b}, !.files = PackagesOf(b), !.pc = "files"])
  /\ UNCHANGED <<systemVars, packageVars, processVars>>

\* delete_package; cleanup-unassigned deletes the dependencies with the file.
DeletePackage(c) ==
  /\ clean[c].pc = "files"
  /\ IF clean[c].files = {}
     THEN /\ CGo(c, IF clean[c].op = "unassigned" THEN "rows" ELSE "builds")
          /\ UNCHANGED <<provides, whole, part>>
     ELSE \E id \in clean[c].files :
            /\ DeletePackageFile(id)
            /\ provides' = IF clean[c].op = "unassigned" THEN provides \ {id} ELSE provides
            /\ Turns(c, [clean[c] EXCEPT !.files = @ \ {id}])
  /\ UNCHANGED <<systemVars, builds, links, buildComponents, packages, orphans, lastId, processVars>>

\* All packages that the build has by now; rows of others that refer to them
\* make the database refuse.
PurgePackages(c) ==
  LET rows == UNION {PackagesOf(b) : b \in clean[c].build} IN
  /\ clean[c].pc = "rows"
  /\ IF rows \cap provides = {}
     THEN packages' = {k \in packages : k.id \notin rows} /\ CGo(c, "build") /\ UNCHANGED processVars
     ELSE CleanDies(c) /\ UNCHANGED packages
  /\ UNCHANGED <<systemVars, builds, links, buildComponents, provides, whole, part, orphans, lastId>>

PurgeBuild(c) ==
  LET b == clean[c].build IN
  /\ clean[c].pc = "build"
  /\ buildComponents' = {k \in buildComponents : k[1] \notin b}
  /\ IF (\E l \in links : l[1] \in b) \/ (\E k \in packages : k.build \in b)
     THEN CleanDies(c) /\ UNCHANGED builds
     ELSE builds' = {x \in builds : x.id \notin b} /\ CGo(c, "builds") /\ UNCHANGED processVars
  /\ UNCHANGED <<systemVars, links, packages, provides, whole, part, orphans, lastId>>

\* releasedel: a repository goes even if other releases use it.
DeleteRepos(c) ==
  /\ clean[c].pc = "repos"
  /\ LET ids == {x[1] : x \in {y \in assigned : y[2] \in clean[c].target}} IN
       /\ repos' = {r \in repos : r[1] \notin ids}
       /\ urls' = {u \in urls : u[1] \notin ids}
       /\ assigned' = {x \in assigned : x[1] \notin ids}
  /\ CGo(c, "reports")
  /\ UNCHANGED <<inUse, archs, opsys, releases, active, components, people, permissions, packageVars, processVars>>

\* Mutant: the reports are left.
KeepReports(c) ==
  clean[c].pc = "reports" /\ CGo(c, "release") /\ UNCHANGED <<systemVars, packageVars, processVars>>
DeleteReports(c) ==
  /\ clean[c].pc = "reports"
  /\ inUse' = inUse \ clean[c].target
  /\ CGo(c, "release")
  /\ UNCHANGED <<archs, opsys, releases, active, components, people, permissions, repos, urls, assigned,
                 packageVars, processVars>>

\* The components of the release go first; nothing may refer to it.
DeleteRelease(c) ==
  LET t == clean[c].target IN
  /\ clean[c].pc = "release"
  /\ components' = {k \in components : k[1] \notin t}
  /\ IF inUse \cap t # {} \/ Pointing(c) # {} \/ (\E x \in assigned : x[2] \in t)
     THEN CleanDies(c) /\ UNCHANGED <<releases, active>>
     ELSE /\ releases' = releases \ t /\ active' = active \ t
          /\ CGo(c, "done") /\ UNCHANGED processVars
  /\ UNCHANGED <<inUse, archs, opsys, people, permissions, repos, urls, assigned, packageVars>>

CleanKill(c) ==
  /\ c \in Cleaning /\ CGo(c, "dead")
  /\ UNCHANGED <<systemVars, packageVars, processVars>>

CleanStep(c) ==
  \/ Unlink(c) \/ NextBuild(c) \/ DeletePackage(c) \/ PurgePackages(c) \/ PurgeBuild(c)
  \/ DeleteRepos(c) \/ DeleteReports(c) \/ DeleteRelease(c) \/ CleanKill(c)
CleanBegin(c, busy) ==
  CleanupPackages(c, busy) \/ CleanupUnassigned(c, busy) \/ ReleaseDelete(c, busy)

\* save-reports stores a report of a release; whoever is busy is disturbed.
ReportOfRelease(busy) ==
  /\ \E r \in releases : inUse' = inUse \cup {r}
  /\ alone' = [p \in Process |-> alone[p] /\ p \notin busy]
  /\ overlap' = (overlap \/ busy # {})
  /\ UNCHANGED <<clean, archs, opsys, releases, active, components, people, permissions, repos, urls, assigned,
                 packageVars, dead>>
==============================================================================
