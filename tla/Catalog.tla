------------------------------- MODULE Catalog -------------------------------
(***************************************************************************)
(* reposync, the clean-up actions and the administration of systems and    *)
(* repositories over one database and one directory of package files.      *)
(***************************************************************************)
EXTENDS RepoSync, CleanUp, Registry

CONSTANT MaxStarts  \* bound: how many processes are started

VARIABLE starts

ASSUME ProcessAssumption ==
  /\ MaxStarts \in Nat
  /\ Syncer \cap (Cleaner \cup Admin) = {} /\ Cleaner \cap Admin = {}

vars == <<systemVars, packageVars, processVars, syncVars, clean, admin, starts>>

Busy == Syncing \cup Cleaning \cup Administering

TypeOK == RepoTypeOK /\ SyncTypeOK /\ CleanTypeOK /\ AdminTypeOK /\ starts \in 0..MaxStarts

\* What administrators have defined before.
Prepared == RepoTypeOK /\ KeysHold /\ \A r, s \in repos : r[2] = s[2] => r = s

Init ==
  /\ SyncInit /\ CleanInit /\ AdminInit /\ starts = 0
  /\ links = {} /\ builds = {} /\ packages = {} /\ buildComponents = {} /\ provides = {}
  /\ whole = {} /\ part = {} /\ orphans = {} /\ inUse = {}
  /\ alone = [p \in Process |-> TRUE] /\ overlap = FALSE /\ dead = [p \in Process |-> "no"]
  /\ Prepared

Start(p) ==
  /\ starts < MaxStarts /\ starts' = starts + 1
  /\ \/ p \in Syncer /\ SyncStart(p, Busy) /\ UNCHANGED <<clean, admin>>
     \/ p \in Cleaner /\ CleanBegin(p, Busy) /\ UNCHANGED <<syncVars, admin>>
     \/ p \in Admin /\ AdminBegin(p, Busy) /\ UNCHANGED <<syncVars, clean>>

Step ==
  /\ \/ \E p \in Syncer : SyncStep(p) /\ UNCHANGED <<clean, admin>>
     \/ CacheExpires /\ UNCHANGED <<clean, admin>>
     \/ \E c \in Cleaner : CleanStep(c) /\ UNCHANGED <<syncVars, admin>>
     \/ ReportOfRelease(Busy) /\ UNCHANGED <<syncVars, admin>>
     \/ \E a \in Admin : Flush(a) /\ UNCHANGED <<syncVars, clean>>
  /\ UNCHANGED starts

Next == Step \/ \E p \in Process : Start(p)
Spec == Init /\ [][Next]_vars

-----------------------------------------------------------------------------
\* A run that nothing overlaps leaves what it listed complete: when it is done
\* with a repository, each package that it did not fail to fetch has a row of a
\* build that is linked to a release with the version, and the row has a whole
\* file, unless an earlier transfer was broken off half-way (reposync.py, run).
\* So the next calm run repairs what overlapping ones, kills and clean-ups
\* leave.
CalmSyncComplete ==
  \A p \in Syncer :
    sync[p].pc = "repo" /\ alone[p] /\ sync[p].opts \cap {"noDownload", "noStore"} = {} =>
      \A x \in sync[p].seen : x[1] \notin sync[p].failed =>
        \E k \in packages :
          /\ k.pkg = x[1] /\ k.id \in whole \cup part
          /\ x[2][2] # NoSystem => LinkSeen(k.build, x[2][2], x[2][3], x[2][4])

\* A process that had the database for itself is not refused by it, but for
\* three known causes: a system that still has components or repositories, a
\* repository file without gpgcheck, a build assigned on two grounds.
CalmRunsSurvive ==
  \A p \in Process : dead[p] = "database" /\ alone[p] =>
    p \in Admin /\ admin[p].op \in {"opsysdel", "repoimport", "assignRelease"}

\* While processes have never overlapped, what is looked up before it is added
\* is there once (repoadd.py, repomod.py, reposync.py, run).
NoDuplicatesUnlessOverlap ==
  ~overlap =>
    /\ \A r, s \in repos : r[2] = s[2] => r = s
    /\ \A b, c \in builds : b.nvr = c.nvr => b = c
    /\ \A k, l \in packages : k.pkg = l.pkg => k = l

\* While processes have never overlapped, a file in the directory has its row,
\* unless the row was deleted after a failed download (reposync.py, run,
\* cleanup_unassigned.py, run).
FilesHaveRows == ~overlap => whole \cup part \subseteq PackageIds \cup orphans

\* A clean-up that nothing overlaps deletes no file of a build that another
\* release, or another architecture, still has (queries.py,
\* get_builds_by_opsysrelease_id, get_builds_by_arch_id).
KeepsShared ==
  [][\A id \in (whole \cup part) \ (whole' \cup part'), c \in Cleaner :
       clean[c].pc = "files" /\ alone[c] =>
         \A k \in packages, l \in links :
           k.id = id /\ l[1] = k.build => l \in Pointing(c)]_vars
==============================================================================
