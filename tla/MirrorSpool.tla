----------------------------- MODULE MirrorSpool -----------------------------
(***************************************************************************)
(* pull-reports, save-reports and archive-reports over one spool: what is  *)
(* pulled from the masters or uploaded, stored, and put into archives.     *)
(***************************************************************************)
EXTENDS PullReports, ArchiveReports

vars == <<spoolVars, pullVars, archiveVars>>

TypeOK == SpoolTypeOK /\ PullTypeOK /\ ArchiveTypeOK /\ AtDay

Init == SpoolInit /\ PullInit /\ ArchiveInit

Pull == \E p \in Puller : \/ PullQuietly(p) /\ UNCHANGED spoolVars
                          \/ WriteReport(p)
Change == \E r \in Report : (Publish(r) \/ Withdraw(r)) /\ UNCHANGED spoolVars
Store == \E f \in File : UploadFile(f) \/ SaveFile(f)

Next ==
  \/ (Pull \/ Change) /\ UNCHANGED archiveVars
  \/ Store /\ UNCHANGED <<pullVars, archiveVars>>
  \/ ((\E a \in Archiver : Archive(a)) \/ CleanTmp) /\ UNCHANGED pullVars

Spec == Init /\ [][Next]_vars

-----------------------------------------------------------------------------
InSpool(f) == \E d \in Dir : In(d, f)
Archived(f) == \E d \in Day : f \in archive[<<PartOf(f), d>>]

\* Every file that was ever written into incoming is in the spool or in an
\* archive, whatever processes are killed between two steps and however they
\* overlap; the one thing that loses files is a failing tar
\* (archive_reports.py, _tar_xz: nothing is unlinked before the archive that
\* has it is in place, and what an archive had, the next one has).  A file is
\* its name here: one that was cut short counts as one.
NothingLost == \A f \in received : InSpool(f) \/ Archived(f) \/ f \in damaged

\* A report that pull-reports will not ask for any more has been written, to
\* its end: its text is in a file of its own name or of a random one
\* (pull_reports.py, run: known.add after the write, _save_known after the
\* downloads, the fallback to random names).
KnownIsKept ==
  \A r \in knownFile : r \in whole \/ \E u \in Uuid \cap whole : says[u] = r

\* A report is pulled a second time only after a pull was killed, found
\* the master's list unreadable, or ran beside another pull, or after an
\* exception that came between its own download and known.add, once for each
\* time.  An exception costs no other report a second download: those before
\* it are saved by the finally clause, those after it were not fetched
\* (pull_reports.py, run: new_reports, known and the finally clause).
PulledAgainOnlyAfterMishap == \A r \in Report : pulls[r] <= 1 + pullMishaps + dropped[r]

\* The days a process is through with in the part it is at.
DaysDone(a) ==
  options[a].dates \ (dates[a] \cup IF archPc[a] \in {"mkdir"} \cup Inside THEN {day[a]} ELSE {})

\* A report that was downloaded again may have taken the place of the first,
\* with another date.
PulledAgain(f) == f \in Report /\ pulls[f] > 1

\* When a process is through with a day, every file it listed for the day is
\* in that day's archive, where people look for it; unless the file was
\* downloaded again and an overlapping run archived it under its new date
\* (archive_reports.py, _archive_reports, _archive_attachments).
DoneDaysArchived ==
  \A a \in Archiver : archPc[a] \in {"date", "mkdir"} \cup Inside =>
    \A d \in DaysDone(a) : \A f \in NamesOf(pathsOf[a][d]) :
      \/ f \in archive[<<part[a], d>>] \cup damaged
      \/ PulledAgain(f) /\ Archived(f)

\* "merge - do not overwrite already archived data"
\* (archive_reports.py:114): what is in an archive stays in it.
ArchivesMerge == [][\A k \in Part \X Day : archive[k] \subseteq archive'[k]]_archive
==============================================================================
