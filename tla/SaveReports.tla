------------------------------ MODULE SaveReports ------------------------------
(***************************************************************************)
(* The save-reports action without --speedup (pyfaf/actions/               *)
(* save_reports.py, _save_reports): each process lists the incoming        *)
(* directory once and works through the list in name order, storing each   *)
(* uReport with ureport.save and moving its file to saved or deferred.     *)
(*                                                                         *)
(* Files are put into incoming by the web application and by pull-reports, *)
(* in place: they are visible before they are complete.  A process is      *)
(* started from cron or by hand at any moment, beside others still         *)
(* running, and may be killed between any two steps.                       *)
(***************************************************************************)
EXTENDS UReportStore, FiniteSetsExt

CONSTANTS
  File,         \* names of uReport files, as numbers in sort order
  NoFile,       \* "no file"
  Offered,      \* the uReports clients may send, a subset of UReport
  MaxCrashes    \* bound: processes killed

ASSUME SaveAssumption ==
  /\ File \subseteq Nat
  /\ NoFile \notin File
  /\ Offered \subseteq UReport
  /\ MaxCrashes \in Nat

VARIABLES
  dir,          \* the spool directory each file is in
  ureport,      \* what the file says
  complete,     \* files whose writer has finished
  pc,           \* the next step of each process
  todo,         \* file names it listed and has not opened yet
  cur,          \* the file it is working on
  report,       \* its db_report
  crashes,      \* processes killed so far
  commits       \* history: how many times a file was counted in Report.count

spoolVars == <<dir, ureport, complete>>
procVars == <<pc, todo, cur, report>>
vars == <<storeVars, spoolVars, procVars, crashes, commits>>

Dir == {"none", "incoming", "saved", "deferred"}
Step == {"idle", "pick", "opsys", "stat", "release", "details", "flush",
         "postflush", "keep", "defer", "attach", "dead"}

TypeOK ==
  /\ StoreTypeOK
  /\ dir \in [File -> Dir]
  /\ ureport \in [File -> UReport]
  /\ complete \in SUBSET File
  /\ pc \in [Saver -> Step]
  /\ todo \in [Saver -> SUBSET File]
  /\ cur \in [Saver -> File \cup {NoFile}]
  /\ report \in [Saver -> ReportId \cup {NoReport}]
  /\ crashes \in Nat
  /\ commits \in [File -> Nat]

\* The uReport of every file is fixed from the start; a client decides only
\* when to send it.
Init ==
  /\ StoreInit
  /\ dir = [f \in File |-> "none"]
  /\ ureport \in [File -> Offered]
  /\ complete = {}
  /\ pc = [p \in Saver |-> "idle"]
  /\ todo = [p \in Saver |-> {}]
  /\ cur = [p \in Saver |-> NoFile]
  /\ report = [p \in Saver |-> NoReport]
  /\ crashes = 0
  /\ commits = [f \in File |-> 0]

Incoming == {f \in File : dir[f] = "incoming"}

Goto(p, step) == pc' = [pc EXCEPT ![p] = step]

\* The process ends, whatever the reason.
End(p, step) ==
  /\ Goto(p, step)
  /\ Forget(p)
  /\ todo' = [todo EXCEPT ![p] = {}]
  /\ cur' = [cur EXCEPT ![p] = NoFile]
  /\ report' = [report EXCEPT ![p] = NoReport]

\* An exception other than FafError is caught by nobody.
Die(p) == /\ End(p, "dead")
          /\ UNCHANGED <<hashOf, tally, traced, oops, unknownOpsys>>

-----------------------------------------------------------------------------
(* Clients.                                                                *)

\* The file is opened for writing under its final name.
Submit(f) ==
  /\ dir[f] = "none"
  /\ dir' = [dir EXCEPT ![f] = "incoming"]
  /\ UNCHANGED <<storeVars, ureport, complete, procVars, crashes, commits>>

\* The last byte is written; a rename meanwhile does not disturb the writer.
FinishWriting(f) ==
  /\ dir[f] # "none" /\ f \notin complete
  /\ complete' = complete \cup {f}
  /\ UNCHANGED <<storeVars, dir, ureport, procVars, crashes, commits>>

-----------------------------------------------------------------------------
(* The save-reports process.                                               *)

\* A process starts and lists the incoming directory.
Start(p) ==
  /\ pc[p] \in {"idle", "dead"}
  /\ Goto(p, "pick")
  /\ todo' = [todo EXCEPT ![p] = Incoming]
  /\ UNCHANGED <<storeVars, spoolVars, cur, report, crashes, commits>>

\* Open, parse and validate the next file.  A file that another process has
\* moved away, and one that is not complete, cannot be loaded.
Load(p) ==
  /\ pc[p] = "pick"
  /\ \E f \in todo[p] :
       LET loads == dir[f] = "incoming" /\ f \in complete
       IN  /\ \A g \in todo[p] : f <= g
           /\ cur' = [cur EXCEPT ![p] = f]
           /\ todo' = [todo EXCEPT ![p] = @ \ {f}]
           /\ \/ (~loads \/ ureport[f].verdict = "invalid") /\ Goto(p, "defer")
              \/ loads /\ ureport[f].verdict = "unknownOs" /\ Goto(p, "opsys")
              \/ /\ loads /\ ureport[f].verdict \notin {"invalid", "unknownOs"}
                 /\ Goto(p, "stat")
  /\ UNCHANGED <<storeVars, spoolVars, report, crashes, commits>>

\* _save_unknown_opsys: count the operating system and flush the session, with
\* everything else that is in it.
RecordOpsys(p) ==
  /\ pc[p] = "opsys"
  /\ \/ /\ Flush(p)
        /\ unknownOpsys' = unknownOpsys + 1
        /\ Goto(p, "defer")
        /\ UNCHANGED <<oops, addLob, todo, cur, report>>
     \/ ~FlushSucceeds(p) /\ Die(p)
  /\ UNCHANGED <<spoolVars, crashes, commits>>

\* getmtime, which raises OSError when another process has moved the file, and
\* the start of save_ureport2: the release, the hash, the report.
LookUp(p) ==
  LET f == cur[p]
      u == ureport[f]
  IN  /\ pc[p] = "stat"
      /\ \/ (dir[f] # "incoming" \/ u.verdict = "unsafe") /\ Die(p)
         \/ /\ dir[f] = "incoming"
            /\ \/ u.verdict = "noRelease"
               \/ u.verdict = "noComponent" /\ Committed(u.hash) = {}
            /\ Goto(p, "defer")
            /\ UNCHANGED <<storeVars, todo, cur, report>>
         \/ /\ dir[f] = "incoming" /\ u.verdict \notin {"unsafe", "noRelease"}
            /\ \E i \in ReportId : /\ FindReport(p, u, i)
                                   /\ report' = [report EXCEPT ![p] = i]
            /\ Goto(p, "release")
            /\ UNCHANGED <<hashOf, tally, traced, oops, unknownOpsys, addLob,
                           todo, cur>>
      /\ UNCHANGED <<spoolVars, crashes, commits>>

\* The count of the release goes up before the architecture is checked.  What
\* the session holds by then stays there when the save is given up.
SaveRelease(p) ==
  /\ pc[p] = "release"
  /\ CountRelease(p, ureport[cur[p]], report[p], 1)
  /\ Goto(p, IF ureport[cur[p]].verdict = "noArch" THEN "defer" ELSE "details")
  /\ UNCHANGED <<hashOf, tally, traced, oops, unknownOpsys, addLob,
                 todo, cur, report, spoolVars, crashes, commits>>

\* Mutant: the session is not flushed before the file is moved.
SaveDetailsUnflushed(p) ==
  /\ pc[p] = "details"
  /\ CountDetails(p, ureport[cur[p]], report[p], 1)
  /\ Goto(p, "keep")
  /\ UNCHANGED <<hashOf, tally, traced, oops, unknownOpsys,
                 todo, cur, report, spoolVars, crashes, commits>>

SaveDetails(p) ==
  /\ pc[p] = "details"
  /\ CountDetails(p, ureport[cur[p]], report[p], 1)
  /\ Goto(p, "flush")
  /\ UNCHANGED <<hashOf, tally, traced, oops, unknownOpsys,
                 todo, cur, report, spoolVars, crashes, commits>>

\* Mutant: save_ureport_post_flush is not called.
CommitOnly(p) ==
  /\ pc[p] = "flush"
  /\ \/ /\ Flush(p)
        /\ commits' = [commits EXCEPT ![cur[p]] = @ + 1]
        /\ Goto(p, "keep")
        /\ UNCHANGED <<oops, unknownOpsys, addLob, todo, cur, report>>
     \/ ~FlushSucceeds(p) /\ Die(p) /\ UNCHANGED commits
  /\ UNCHANGED <<spoolVars, crashes>>

\* db.session.flush() at the end of save_ureport2.
Commit(p) ==
  /\ pc[p] = "flush"
  /\ \/ /\ Flush(p)
        /\ commits' = [commits EXCEPT ![cur[p]] = @ + 1]
        /\ Goto(p, IF ureport[cur[p]].hash \in KernelHash
                      /\ addLob[p] # NoLob
                   THEN "postflush" ELSE "keep")
        /\ UNCHANGED <<oops, unknownOpsys, addLob, todo, cur, report>>
     \/ ~FlushSucceeds(p) /\ Die(p) /\ UNCHANGED commits
  /\ UNCHANGED <<spoolVars, crashes>>

\* save_ureport_post_flush; its FafError defers the file like any other.
PostFlush(p) ==
  /\ pc[p] = "postflush"
  /\ SaveLob(p)
  /\ Goto(p, IF LobAccepted(p) THEN "keep" ELSE "defer")
  /\ UNCHANGED <<hashOf, tally, traced, unknownOpsys, session,
                 todo, cur, report, spoolVars, crashes, commits>>

\* Mutant: a saved file is left where it is.
MoveNothing(p, step, target) ==
  /\ pc[p] = step
  /\ Goto(p, "pick")
  /\ cur' = [cur EXCEPT ![p] = NoFile]
  /\ report' = [report EXCEPT ![p] = NoReport]
  /\ UNCHANGED <<storeVars, spoolVars, todo, crashes, commits>>

\* _move_report_to_saved and _move_report_to_deferred: a rename that fails
\* because the file is gone is only logged.
MoveTo(p, step, target) ==
  /\ pc[p] = step
  /\ dir' = [dir EXCEPT ![cur[p]] = IF @ = "incoming" THEN target ELSE @]
  /\ Goto(p, "pick")
  /\ cur' = [cur EXCEPT ![p] = NoFile]
  /\ report' = [report EXCEPT ![p] = NoReport]
  /\ UNCHANGED <<storeVars, ureport, complete, todo, crashes, commits>>

MoveToSaved(p) == MoveTo(p, "keep", "saved")
MoveToDeferred(p) == MoveTo(p, "defer", "deferred")

\* The list is done; run() turns to the attachments, in the same session.
Finish(p) ==
  /\ pc[p] = "pick" /\ todo[p] = {}
  /\ Goto(p, "attach")
  /\ UNCHANGED <<storeVars, todo, cur, report, spoolVars, crashes, commits>>

\* _save_attachments: the first attachment that is stored flushes what the saves
\* that were given up have left in the session.  It is lost when there is none,
\* and when that flush fails, whether save_attachment turns the error into a
\* FafError or it ends the run.
SaveAttachments(p) ==
  /\ pc[p] = "attach"
  /\ Flush(p) \/ UNCHANGED <<hashOf, tally, traced>>
  /\ End(p, "idle")
  /\ UNCHANGED <<oops, unknownOpsys, spoolVars, crashes, commits>>

\* The process is killed, or the machine goes down.
Crash(p) ==
  /\ pc[p] \notin {"idle", "dead"}
  /\ crashes < MaxCrashes
  /\ crashes' = crashes + 1
  /\ End(p, "idle")
  /\ UNCHANGED <<hashOf, tally, traced, oops, unknownOpsys, spoolVars, commits>>

SaveFile(p) == \/ Load(p) \/ RecordOpsys(p) \/ LookUp(p) \/ SaveRelease(p)
               \/ SaveDetails(p) \/ Commit(p) \/ PostFlush(p)
               \/ MoveToSaved(p) \/ MoveToDeferred(p) \/ Finish(p)
               \/ SaveAttachments(p)

Next == \/ \E f \in File : Submit(f) \/ FinishWriting(f)
        \/ \E p \in Saver : Start(p) \/ SaveFile(p) \/ Crash(p)

Spec == Init /\ [][Next]_vars

\* Cron starts the action again and again, a started process is scheduled, and
\* a writer finishes its file.  Nothing makes a client send one.
Fairness == /\ \A p \in Saver : WF_vars(Start(p)) /\ WF_vars(SaveFile(p))
            /\ \A f \in File : WF_vars(FinishWriting(f))

FairSpec == Spec /\ Fairness

-----------------------------------------------------------------------------
(* Properties.                                                             *)

\* A file is in saved only after its uReport was counted and flushed: the
\* rename never gets ahead of the database.
SavedWasCounted == \A f \in File : dir[f] = "saved" => commits[f] > 0

\* A file that was deferred has not been counted as an occurrence of a report.
DeferredNotCounted == \A f \in File : dir[f] = "deferred" => commits[f] = 0

\* The flush and the rename are not one step, so a killed process may leave
\* behind a counted file that the next one counts again; but only a kill can.
CountedOncePerCrash == \A f \in File : commits[f] <= 1 + crashes

\* Report.count, added up over the reports that share a hash, is the number of
\* times files with that hash were counted.
ReportCountExact ==
  \A h \in Hash :
    MapThenSumSet(LAMBDA i : tally[ReportCounter(i)], Committed(h))
      = MapThenSumSet(LAMBDA f : commits[f], {f \in File : ureport[f].hash = h})

\* uReports are deduplicated by hash: one Report for each.
OneReportPerHash == \A h \in Hash : Cardinality(Committed(h)) <= 1

\* The action, whatever its processes, sessions and tables do, implements Intake
\* while runs do not overlap: files are counted before they are kept, refused
\* ones are not counted, none comes back, and only a kill between the flush and
\* the rename lets one be counted again (_save_reports, save_ureport2).
Promised == INSTANCE Intake WITH place <- dir, counted <- commits, mishaps <- crashes
ImplementsIntake == Promised!Spec

\* Unless a process was killed, a kernel report whose save is over has its oops.
OopsStored ==
  \A i \in traced :
    hashOf[i] \in KernelHash /\ crashes = 0
      => \/ oops[i] = "stored"
         \/ \E p \in Saver : pc[p] = "postflush" /\ addLob[p].report = i

\* No file stays in incoming for ever: its writer finishes, and a run takes it.
EveryFileIsProcessed ==
  \A f \in File : (dir[f] = "incoming") ~> (dir[f] # "incoming")
=============================================================================
