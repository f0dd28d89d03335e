------------------------------ MODULE SpeedupSave ------------------------------
(***************************************************************************)
(* save-reports --speedup (pyfaf/actions/save_reports.py,                  *)
(* _save_reports_speedup): meant to be started while an older run is still *)
(* at work.  Each run leaves a lock file in incoming and takes only files  *)
(* modified after the newest older lock was made and before itself began;  *)
(* files with the same contents are stored as one uReport with a count.    *)
(*                                                                         *)
(* A Saver is one run here, with a lock of its own, and is started at most *)
(* once.  Time is counted in ticks, TicksPerSec to a second, because the   *)
(* code compares some times exactly and some after int().  All ticks are   *)
(* of one day, so the date that takes part in the digest is the same.      *)
(***************************************************************************)
EXTENDS UReportStore, FiniteSetsExt

CONSTANTS
  File,         \* names of uReport files, as numbers in sort order
  Offered,      \* the uReports clients may send, a subset of UReport
  TicksPerSec,  \* resolution of the clock
  MaxTime,      \* bound: ticks
  MaxStops,     \* bound: runs ended by a signal
  Calm          \* TRUE when no two runs begin in the same second, a run has its
                \* lock in the second it began, and a file is written in a tick

ASSUME SpeedupAssumption ==
  /\ File \subseteq Nat
  /\ Offered \subseteq UReport
  /\ TicksPerSec \in Nat \ {0}
  /\ MaxTime \in Nat \ {0} /\ MaxStops \in Nat
  /\ Calm \in BOOLEAN

VARIABLES
  clock,        \* the time
  dir, mtime, ureport, complete,  \* the files
  lock,         \* change time of the lock file of each run, 0 without one
  pc, now,      \* the next step of each run and when it began
  seen,         \* locks it has listed and not examined
  newest,       \* newest_older_ctime
  todo,         \* report_filenames it has not loaded yet
  batch,        \* files it has loaded and not moved
  group,        \* of these, the files of the unique uReport in work
  report,       \* its db_report
  stopped,      \* how each run was ended from outside, if it was
  commits       \* history: how many times a file was counted

fileVars == <<dir, mtime, ureport, complete>>
workVars == <<todo, batch, group, report>>
runVars == <<pc, now, seen, newest, workVars>>
vars == <<storeVars, clock, fileVars, lock, runVars, stopped, commits>>

Sec(t) == t \div TicksPerSec

Step == {"new", "lock", "list", "locks", "files", "load", "next", "opsys",
         "stat", "release", "details", "flush", "postflush", "keep", "defer",
         "attach", "done"}

TypeOK ==
  /\ StoreTypeOK
  /\ clock \in 1..MaxTime
  /\ dir \in [File -> {"none", "incoming", "saved", "deferred"}]
  /\ mtime \in [File -> 0..MaxTime]
  /\ ureport \in [File -> Offered]
  /\ complete \in SUBSET File
  /\ lock \in [Saver -> 0..MaxTime]
  /\ pc \in [Saver -> Step]
  /\ now \in [Saver -> 0..MaxTime]
  /\ seen \in [Saver -> SUBSET Saver]
  /\ newest \in [Saver -> 0..MaxTime]
  /\ \A v \in {todo, batch, group} : v \in [Saver -> SUBSET File]
  /\ \A p \in Saver : group[p] \subseteq batch[p]
  /\ report \in [Saver -> ReportId \cup {NoReport}]
  /\ stopped \in [Saver -> {"no", "term", "kill"}]
  /\ commits \in [File -> Nat]

Init ==
  /\ StoreInit
  /\ clock = 1
  /\ dir = [f \in File |-> "none"]
  /\ mtime = [f \in File |-> 0]
  /\ ureport \in [File -> Offered]
  /\ complete = {}
  /\ lock = [p \in Saver |-> 0]
  /\ pc = [p \in Saver |-> "new"]
  /\ now = [p \in Saver |-> 0]
  /\ seen = [p \in Saver |-> {}]
  /\ newest = [p \in Saver |-> 0]
  /\ todo = [p \in Saver |-> {}]
  /\ batch = [p \in Saver |-> {}]
  /\ group = [p \in Saver |-> {}]
  /\ report = [p \in Saver |-> NoReport]
  /\ stopped = [p \in Saver |-> "no"]
  /\ commits = [f \in File |-> 0]

Goto(p, step) == pc' = [pc EXCEPT ![p] = step]

\* The run is over, and its session and all it knew is gone.
Drop(p) ==
  /\ Goto(p, "done")
  /\ Forget(p)
  /\ seen' = [seen EXCEPT ![p] = {}]
  /\ newest' = [newest EXCEPT ![p] = 0]
  /\ todo' = [todo EXCEPT ![p] = {}]
  /\ batch' = [batch EXCEPT ![p] = {}]
  /\ group' = [group EXCEPT ![p] = {}]
  /\ report' = [report EXCEPT ![p] = NoReport]
  /\ UNCHANGED <<oops, unknownOpsys, clock, fileVars, now, commits>>

Leave(p) == Drop(p) /\ UNCHANGED <<hashOf, tally, traced>>

\* The lock is removed first: at the normal end, by the handler of SIGTERM, and
\* by the except clause of run() when an exception ends the run.
Unlock(p) ==
  /\ lock' = [lock EXCEPT ![p] = 0]
  /\ Leave(p)

-----------------------------------------------------------------------------
(* Time and clients.                                                       *)

Tick ==
  /\ clock < MaxTime
  /\ Calm => /\ \A f \in File : dir[f] # "none" => f \in complete
             /\ Sec(clock) # Sec(clock + 1) => \A p \in Saver : pc[p] # "lock"
  /\ clock' = clock + 1
  /\ UNCHANGED <<storeVars, fileVars, lock, runVars, stopped, commits>>

Submit(f) ==
  /\ dir[f] = "none"
  /\ dir' = [dir EXCEPT ![f] = "incoming"]
  /\ mtime' = [mtime EXCEPT ![f] = clock]
  /\ UNCHANGED <<storeVars, clock, ureport, complete, lock, runVars, stopped,
                 commits>>

FinishWriting(f) ==
  /\ dir[f] # "none" /\ f \notin complete
  /\ complete' = complete \cup {f}
  /\ mtime' = [mtime EXCEPT ![f] = clock]
  /\ UNCHANGED <<storeVars, clock, dir, ureport, lock, runVars, stopped, commits>>

-----------------------------------------------------------------------------
(* Choosing the files.                                                     *)

Begin(p) ==
  /\ pc[p] = "new"
  /\ Calm => \A q \in Saver : pc[q] = "new" \/ Sec(now[q]) < Sec(clock)
  /\ now' = [now EXCEPT ![p] = clock]
  /\ Goto(p, "lock")
  /\ UNCHANGED <<storeVars, clock, fileVars, lock, seen, newest, workVars,
                 stopped, commits>>

\* os.utime sets the lock's modification time back to now; its change time,
\* which is what the runs look at, is the time of the call.
CreateLock(p) ==
  /\ pc[p] = "lock"
  /\ lock' = [lock EXCEPT ![p] = clock]
  /\ Goto(p, "list")
  /\ UNCHANGED <<storeVars, clock, fileVars, now, seen, newest, workVars,
                 stopped, commits>>

\* Its own lock is listed too, but cannot make a difference.
ListLocks(p) ==
  /\ pc[p] = "list"
  /\ seen' = [seen EXCEPT ![p] = {q \in Saver \ {p} : lock[q] > 0}]
  /\ Goto(p, "locks")
  /\ UNCHANGED <<storeVars, clock, fileVars, lock, now, newest, workVars,
                 stopped, commits>>

\* Mutant: the time of an older lock is not taken down.
ExamineNewerLock(p) ==
  /\ pc[p] = "locks"
  /\ \E q \in seen[p] :
       \/ /\ (lock[q] = 0 \/ Sec(lock[q]) > Sec(now[p]))
          /\ Unlock(p) /\ UNCHANGED stopped
       \/ /\ lock[q] > 0 /\ Sec(lock[q]) <= Sec(now[p])
          /\ seen' = [seen EXCEPT ![p] = @ \ {q}]
          /\ UNCHANGED <<storeVars, clock, fileVars, lock, pc, now, newest,
                         workVars, stopped, commits>>

\* os.stat of a listed lock, which raises when the lock is gone by now.
ExamineLock(p) ==
  /\ pc[p] = "locks"
  /\ \E q \in seen[p] :
       \/ /\ (lock[q] = 0 \/ Sec(lock[q]) > Sec(now[p]))
          /\ Unlock(p) /\ UNCHANGED stopped
       \/ /\ lock[q] > 0 /\ Sec(lock[q]) <= Sec(now[p])
          /\ seen' = [seen EXCEPT ![p] = @ \ {q}]
          /\ newest' = [newest EXCEPT ![p] =
               IF Sec(lock[q]) < Sec(now[p]) THEN Max({@, lock[q]}) ELSE @]
          /\ UNCHANGED <<storeVars, clock, fileVars, lock, pc, now, workVars,
                         stopped, commits>>

\* Mutant: files from before the older lock are taken as well.
ChosenAll(p) == {f \in File : dir[f] = "incoming" /\ mtime[f] <= now[p]}

Chosen(p) ==
  {f \in File : dir[f] = "incoming" /\ newest[p] < mtime[f] /\ mtime[f] <= now[p]}

ListFiles(p) ==
  /\ pc[p] = "locks" /\ seen[p] = {}
  /\ todo' = [todo EXCEPT ![p] = Chosen(p)]
  /\ Goto(p, "load")
  /\ UNCHANGED <<storeVars, clock, fileVars, lock, now, seen, newest, batch,
                 group, report, stopped, commits>>

-----------------------------------------------------------------------------
(* Storing them.                                                           *)

Rename(f, target) ==
  dir' = [dir EXCEPT ![f] = IF @ = "incoming" THEN target ELSE @]

\* Read the next file; what cannot be parsed goes to deferred at once.
LoadFile(p) ==
  /\ pc[p] = "load"
  /\ \E f \in todo[p] :
       /\ \A g \in todo[p] : f <= g
       /\ todo' = [todo EXCEPT ![p] = @ \ {f}]
       /\ \/ /\ dir[f] = "incoming" /\ f \in complete
             /\ batch' = [batch EXCEPT ![p] = @ \cup {f}]
             /\ UNCHANGED dir
          \/ /\ dir[f] # "incoming" \/ f \notin complete
             /\ Rename(f, "deferred")
             /\ UNCHANGED batch
  /\ UNCHANGED <<storeVars, clock, mtime, ureport, complete, lock, pc, now,
                 seen, newest, group, report, stopped, commits>>

\* Validate the next unique uReport: the one whose first file has the least
\* name, with all files of the same contents.
NextGroup(p) ==
  /\ \/ pc[p] = "load" /\ todo[p] = {}
     \/ pc[p] = "next"
  /\ \E f \in batch[p] :
       /\ \A g \in batch[p] : f <= g
       /\ group' = [group EXCEPT ![p] =
                      {g \in batch[p] : ureport[g] = ureport[f]}]
       /\ \/ ureport[f].verdict = "invalid" /\ Goto(p, "defer")
          \/ ureport[f].verdict = "unknownOs" /\ Goto(p, "opsys")
          \/ ureport[f].verdict \notin {"invalid", "unknownOs"} /\ Goto(p, "stat")
  /\ UNCHANGED <<storeVars, clock, fileVars, lock, now, seen, newest, todo,
                 batch, report, stopped, commits>>

Content(p) == ureport[CHOOSE f \in group[p] : TRUE]

Count(p) == Cardinality(group[p])

RecordOpsys(p) ==
  /\ pc[p] = "opsys"
  /\ \/ /\ Flush(p)
        /\ unknownOpsys' = unknownOpsys + 1
        /\ Goto(p, "defer")
        /\ UNCHANGED <<oops, addLob, clock, fileVars, lock, now, seen, newest,
                       workVars, stopped, commits>>
     \/ ~FlushSucceeds(p) /\ Unlock(p) /\ UNCHANGED stopped

\* The start of save_ureport2 with count = len(filenames), see SaveReports.
LookUp(p) ==
  LET u == Content(p)
  IN  /\ pc[p] = "stat"
      /\ \/ u.verdict = "unsafe" /\ Unlock(p) /\ UNCHANGED stopped
         \/ /\ \/ u.verdict = "noRelease"
               \/ u.verdict = "noComponent" /\ Committed(u.hash) = {}
            /\ Goto(p, "defer")
            /\ UNCHANGED <<storeVars, clock, fileVars, lock, now, seen, newest,
                           workVars, stopped, commits>>
         \/ /\ u.verdict \notin {"unsafe", "noRelease"}
            /\ \E i \in ReportId : /\ FindReport(p, u, i)
                                   /\ report' = [report EXCEPT ![p] = i]
            /\ Goto(p, "release")
            /\ UNCHANGED <<hashOf, tally, traced, oops, unknownOpsys, addLob,
                           clock, fileVars, lock, now, seen, newest, todo,
                           batch, group, stopped, commits>>

SaveRelease(p) ==
  /\ pc[p] = "release"
  /\ CountRelease(p, Content(p), report[p], Count(p))
  /\ Goto(p, IF Content(p).verdict = "noArch" THEN "defer" ELSE "details")
  /\ UNCHANGED <<hashOf, tally, traced, oops, unknownOpsys, addLob, clock,
                 fileVars, lock, now, seen, newest, workVars, stopped, commits>>

SaveDetails(p) ==
  /\ pc[p] = "details"
  /\ CountDetails(p, Content(p), report[p], Count(p))
  /\ Goto(p, "flush")
  /\ UNCHANGED <<hashOf, tally, traced, oops, unknownOpsys, clock, fileVars,
                 lock, now, seen, newest, workVars, stopped, commits>>

Commit(p) ==
  /\ pc[p] = "flush"
  /\ \/ /\ Flush(p)
        /\ commits' = [f \in File |-> IF f \in group[p] THEN commits[f] + 1
                                      ELSE commits[f]]
        /\ Goto(p, IF Content(p).hash \in KernelHash /\ addLob[p] # NoLob
                   THEN "postflush" ELSE "keep")
        /\ UNCHANGED <<oops, unknownOpsys, addLob, clock, fileVars, lock, now,
                       seen, newest, workVars, stopped>>
     \/ ~FlushSucceeds(p) /\ Unlock(p) /\ UNCHANGED stopped

PostFlush(p) ==
  /\ pc[p] = "postflush"
  /\ SaveLob(p)
  /\ Goto(p, IF LobAccepted(p) THEN "keep" ELSE "defer")
  /\ UNCHANGED <<hashOf, tally, traced, unknownOpsys, session, clock, fileVars,
                 lock, now, seen, newest, workVars, stopped, commits>>

\* The files of a group are renamed one after the other.
Move(p, step, target) ==
  /\ pc[p] = step
  /\ \E f \in group[p] :
       /\ \A g \in group[p] : f <= g
       /\ Rename(f, target)
       /\ batch' = [batch EXCEPT ![p] = @ \ {f}]
       /\ group' = [group EXCEPT ![p] = @ \ {f}]
  /\ Goto(p, IF group'[p] = {} THEN "next" ELSE step)
  /\ report' = [report EXCEPT ![p] = NoReport]
  /\ UNCHANGED <<storeVars, clock, mtime, ureport, complete, lock, now, seen,
                 newest, todo, stopped, commits>>

MoveToSaved(p) == Move(p, "keep", "saved")
MoveToDeferred(p) == Move(p, "defer", "deferred")

\* Everything is moved: the lock is removed, and run() turns to the attachments.
Finish(p) ==
  /\ \/ pc[p] = "load" /\ todo[p] = {}
     \/ pc[p] = "next"
  /\ batch[p] = {}
  /\ lock' = [lock EXCEPT ![p] = 0]
  /\ Goto(p, "attach")
  /\ UNCHANGED <<storeVars, clock, fileVars, now, seen, newest, workVars, stopped,
                 commits>>

\* _save_attachments, see SaveReports: it may flush what is left in the session.
SaveAttachments(p) ==
  /\ pc[p] = "attach"
  /\ Flush(p) \/ UNCHANGED <<hashOf, tally, traced>>
  /\ Drop(p)
  /\ UNCHANGED <<lock, stopped>>

-----------------------------------------------------------------------------
Stop(p, signal) ==
  /\ pc[p] \notin {"new", "done"}
  /\ Cardinality({q \in Saver : stopped[q] # "no"}) < MaxStops
  /\ stopped' = [stopped EXCEPT ![p] = signal]

\* SIGTERM and Ctrl-C: the handler is installed once there is a lock.
Terminate(p) == Stop(p, "term") /\ pc[p] # "lock" /\ Unlock(p)

\* SIGKILL, or the machine goes down: the lock stays.
Kill(p) == Stop(p, "kill") /\ Leave(p) /\ UNCHANGED lock

Next ==
  \/ Tick
  \/ \E f \in File : Submit(f) \/ FinishWriting(f)
  \/ \E p \in Saver :
       \/ Begin(p) \/ CreateLock(p) \/ ListLocks(p) \/ ExamineLock(p)
       \/ ListFiles(p) \/ LoadFile(p) \/ NextGroup(p) \/ RecordOpsys(p)
       \/ LookUp(p) \/ SaveRelease(p) \/ SaveDetails(p) \/ Commit(p)
       \/ PostFlush(p) \/ MoveToSaved(p) \/ MoveToDeferred(p) \/ Finish(p)
       \/ SaveAttachments(p) \/ Terminate(p) \/ Kill(p)

Spec == Init /\ [][Next]_vars

-----------------------------------------------------------------------------
(* Properties.                                                             *)

Mine(p) == todo[p] \cup batch[p]

\* A new run works beside an older one because they never share a file.
DisjointBatches ==
  \A p, q \in Saver : p # q => Mine(p) \cap Mine(q) = {}

\* Only a run that was stopped between a flush and the renames lets a file be
\* counted again.
CountedOncePerStop ==
  \A f \in File : commits[f] <= 1 + Cardinality({p \in Saver : stopped[p] # "no"})

=============================================================================
