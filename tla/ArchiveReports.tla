---------------------------- MODULE ArchiveReports ----------------------------
(***************************************************************************)
(* The archive-reports action (pyfaf/actions/archive_reports.py): it moves *)
(* what is in saved and deferred into one archive per day, merging it with *)
(* the archive that is there.  All runs work in the same temporary         *)
(* directory, whose existence keeps them apart.                            *)
(*                                                                         *)
(* tar may fail, for want of space say.  safe_popen (pyfaf/utils/proc.py)  *)
(* then logs the failure and returns None, which nobody looks at.          *)
(***************************************************************************)
EXTENDS Spool

CONSTANTS
  Archiver,         \* archive-reports processes
  NoArchiver,       \* the temporary directory does not exist
  CommandLine,      \* the options people give; no --date is every day
  MaxArchiveMishaps \* bound: kills, failures of tar, starts beside another run

Part == {"reports", "attachments"}

ASSUME ArchiveAssumption ==
  /\ NoArchiver \notin Archiver
  /\ CommandLine \subseteq [parts : SUBSET Part, dates : SUBSET Day, unlink : BOOLEAN]
  /\ MaxArchiveMishaps \in Nat

VARIABLES
  archive,     \* the files in the archive of each part and day
  tmpDir,      \* who made the temporary directory
  archPc, options,
  part,        \* what the process is archiving
  listed,      \* the paths it listed
  pathsOf,     \* archive_map: its paths of each day
  dates,       \* the days still to be archived
  day,         \* the day it is at
  untar,       \* the files it took out of the existing archive
  tarred,      \* the archive it wrote beside it, as a set of one, or {}
  unlinkPaths, \* the paths still to be unlinked
  archiveMishaps, \* how often something came in the way
  damaged      \* history: files that a failing tar left out

taskVars == <<options, part, listed, pathsOf, dates, day>>
tarVars == <<untar, tarred, unlinkPaths>>
archiveVars == <<archive, tmpDir, archPc, taskVars, tarVars, archiveMishaps, damaged>>

Path == {"saved", "deferred"} \X File
Present(path) == In(path[1], path[2])
NamesOf(paths) == {path[2] : path \in paths}
NoOptions == [parts |-> {}, dates |-> {}, unlink |-> FALSE]
Inside == {"untar", "tar", "rename", "unlink", "rmtree"}

ArchiveTypeOK ==
  /\ archive \in [Part \X Day -> SUBSET File]
  /\ tmpDir \in Archiver \cup {NoArchiver}
  /\ archPc \in [Archiver -> {"idle", "list", "stat", "date", "mkdir"} \cup Inside]
  /\ options \in [Archiver -> CommandLine \cup {NoOptions}]
  /\ part \in [Archiver -> Part]
  /\ listed \in [Archiver -> SUBSET Path]
  /\ pathsOf \in [Archiver -> [Day -> SUBSET Path]]
  /\ dates \in [Archiver -> SUBSET Day]
  /\ day \in [Archiver -> Day \cup {Absent}]
  /\ untar \in [Archiver -> SUBSET File]
  /\ tarred \in [Archiver -> SUBSET SUBSET File]
  /\ unlinkPaths \in [Archiver -> SUBSET Path]
  /\ archiveMishaps \in Nat
  /\ damaged \in SUBSET File

\* The days of processes that are at one.
AtDay == \A a \in Archiver : archPc[a] \in {"mkdir"} \cup Inside => day[a] \in Day

ArchiveInit ==
  /\ archive = [k \in Part \X Day |-> {}]
  /\ tmpDir = NoArchiver
  /\ archPc = [a \in Archiver |-> "idle"]
  /\ options = [a \in Archiver |-> NoOptions]
  /\ part = [a \in Archiver |-> "reports"]
  /\ listed = [a \in Archiver |-> {}]
  /\ pathsOf = [a \in Archiver |-> [d \in Day |-> {}]]
  /\ dates = [a \in Archiver |-> {}]
  /\ day = [a \in Archiver |-> Absent]
  /\ untar = [a \in Archiver |-> {}]
  /\ tarred = [a \in Archiver |-> {}]
  /\ unlinkPaths = [a \in Archiver |-> {}]
  /\ archiveMishaps = 0
  /\ damaged = {}

ArchiveGoto(a, step) == archPc' = [archPc EXCEPT ![a] = step]

ArchiveMishap == /\ archiveMishaps < MaxArchiveMishaps
                 /\ archiveMishaps' = archiveMishaps + 1

\* Mutant: attachments go into the archives of reports.
TargetOfReports(a) == <<"reports", day[a]>>

\* The archive of this part and day.
Target(a) == <<part[a], day[a]>>

\* What a process forgets when it leaves the temporary directory.
ForgetTar(a) ==
  /\ untar' = [untar EXCEPT ![a] = {}]
  /\ tarred' = [tarred EXCEPT ![a] = {}]
  /\ unlinkPaths' = [unlinkPaths EXCEPT ![a] = {}]

\* The process ends, whatever the reason; a temporary directory stays.
ArchiveEnd(a) ==
  /\ ArchiveGoto(a, "idle")
  /\ options' = [options EXCEPT ![a] = NoOptions]
  /\ part' = [part EXCEPT ![a] = "reports"]
  /\ listed' = [listed EXCEPT ![a] = {}]
  /\ pathsOf' = [pathsOf EXCEPT ![a] = [d \in Day |-> {}]]
  /\ dates' = [dates EXCEPT ![a] = {}]
  /\ day' = [day EXCEPT ![a] = Absent]
  /\ ForgetTar(a)

\* An exception other than FafError is caught by nobody.
ArchiveDie(a) ==
  ArchiveEnd(a) /\ UNCHANGED <<spoolVars, archive, tmpDir, archiveMishaps, damaged>>

\* Part p is done, or given up after a FafError.
AfterPart(a, p) ==
  IF p = "reports" /\ "attachments" \in options[a].parts
  THEN /\ ArchiveGoto(a, "list")
       /\ part' = [part EXCEPT ![a] = "attachments"]
       /\ listed' = [listed EXCEPT ![a] = {}]
       /\ pathsOf' = [pathsOf EXCEPT ![a] = [d \in Day |-> {}]]
       /\ dates' = [dates EXCEPT ![a] = {}]
       /\ day' = [day EXCEPT ![a] = Absent]
       /\ UNCHANGED <<options, tarVars>>
  ELSE ArchiveEnd(a)

ArchiveStart(a) ==
  /\ archPc[a] = "idle"
  /\ IF \E b \in Archiver : archPc[b] # "idle" THEN ArchiveMishap ELSE UNCHANGED archiveMishaps
  /\ \E o \in CommandLine :
       /\ o.parts # {}
       /\ options' = [options EXCEPT ![a] = o]
       /\ part' = [part EXCEPT ![a] = IF "reports" \in o.parts THEN "reports" ELSE "attachments"]
  /\ ArchiveGoto(a, "list")
  /\ UNCHANGED <<spoolVars, archive, tmpDir, listed, pathsOf, dates, day, tarVars, damaged>>

ListPaths(a) ==
  /\ archPc[a] = "list"
  /\ listed' = [listed EXCEPT ![a] =
                  {path \in Path : Present(path) /\ PartOf(path[2]) = part[a]}]
  /\ ArchiveGoto(a, "stat")
  /\ UNCHANGED <<spoolVars, archive, tmpDir, options, part, pathsOf, dates, day, tarVars,
                 archiveMishaps, damaged>>

\* _create_archive_map: getmtime fails on a path that is gone.
StatPaths(a) ==
  /\ archPc[a] = "stat"
  /\ \/ /\ \A path \in listed[a] : Present(path)
        /\ pathsOf' = [pathsOf EXCEPT ![a] =
             [d \in Day |-> {path \in listed[a] : place[path[1]][path[2]] = d}]]
        /\ dates' = [dates EXCEPT ![a] = options[a].dates]
        /\ ArchiveGoto(a, "date")
        /\ UNCHANGED <<spoolVars, archive, tmpDir, options, part, listed, day, tarVars,
                       archiveMishaps, damaged>>
     \/ /\ \E path \in listed[a] : ~Present(path)
        /\ ArchiveDie(a)

\* The next day in order for which there is anything.
PickDate(a) ==
  /\ archPc[a] = "date"
  /\ LET left == {d \in dates[a] : pathsOf[a][d] # {}}
     IN  IF left = {} THEN AfterPart(a, part[a])
         ELSE \E d \in left :
                /\ \A e \in left : d <= e
                /\ day' = [day EXCEPT ![a] = d]
                /\ dates' = [dates EXCEPT ![a] = left \ {d}]
                /\ ArchiveGoto(a, "mkdir")
                /\ UNCHANGED <<options, part, listed, pathsOf, tarVars>>
  /\ UNCHANGED <<spoolVars, archive, tmpDir, archiveMishaps, damaged>>

\* makedirs: FafError if the directory exists.
MakeTmpDir(a) ==
  /\ archPc[a] = "mkdir"
  /\ \/ /\ tmpDir = NoArchiver
        /\ tmpDir' = a
        /\ ArchiveGoto(a, "untar")
        /\ UNCHANGED <<taskVars, tarVars>>
     \/ /\ tmpDir # NoArchiver
        /\ AfterPart(a, part[a])
        /\ UNCHANGED tmpDir
  /\ UNCHANGED <<spoolVars, archive, archiveMishaps, damaged>>

\* Take the files out of the existing archive; a failing tar takes out some.
Untar(a) ==
  /\ archPc[a] = "untar"
  /\ \E files \in SUBSET archive[Target(a)] :
       /\ IF files = archive[Target(a)] THEN UNCHANGED <<archiveMishaps, damaged>>
          ELSE ArchiveMishap /\ damaged' = damaged \cup (archive[Target(a)] \ files)
       /\ untar' = [untar EXCEPT ![a] = files]
  /\ ArchiveGoto(a, "tar")
  /\ UNCHANGED <<spoolVars, archive, tmpDir, taskVars, tarred, unlinkPaths>>

\* The names of its paths that are there, and of those that are gone.
Live(a) == NamesOf({path \in pathsOf[a][day[a]] : Present(path)})
MayBeDead(a) == NamesOf({path \in pathsOf[a][day[a]] : ~Present(path)}) \ untar[a]

\* Mutant: new files take the place of what was archived.
LinkedNew(a, dead) == Live(a) \ dead

\* The names tar finds in the temporary directory: linked from the old archive
\* first, then new ones.  A link to a path that is gone is dead, and of two
\* paths of one name either may be the one that was linked.
Linked(a, dead) == untar[a] \cup (Live(a) \ dead)

\* Write the new archive; a failing tar writes a part of it, or nothing.
Tar(a) ==
  /\ archPc[a] = "tar"
  /\ \E dead \in SUBSET MayBeDead(a) :
       \/ /\ tarred' = [tarred EXCEPT ![a] = {Linked(a, dead)}]
          /\ UNCHANGED <<archiveMishaps, damaged>>
       \/ \E files \in (SUBSET Linked(a, dead)) \ {Linked(a, dead)} :
            /\ ArchiveMishap
            /\ \E written \in {{files}, {}} : tarred' = [tarred EXCEPT ![a] = written]
            /\ damaged' = damaged \cup (Linked(a, dead) \ files)
  /\ ArchiveGoto(a, "rename")
  /\ UNCHANGED <<spoolVars, archive, tmpDir, taskVars, untar, unlinkPaths>>

\* rename over the existing archive; it fails if tar wrote nothing.
RenameArchive(a) ==
  /\ archPc[a] = "rename"
  /\ \/ /\ tarred[a] # {}
        /\ archive' = [archive EXCEPT ![Target(a)] = UNION tarred[a]]
        /\ unlinkPaths' = [unlinkPaths EXCEPT ![a] =
                             IF options[a].unlink THEN pathsOf[a][day[a]] ELSE {}]
        /\ ArchiveGoto(a, "unlink")
        /\ UNCHANGED <<spoolVars, tmpDir, taskVars, untar, tarred, archiveMishaps, damaged>>
     \/ /\ tarred[a] = {}
        /\ ArchiveDie(a)

\* Unlink the paths one by one; one that is gone ends the process.
UnlinkPath(a) ==
  /\ archPc[a] = "unlink"
  /\ \/ \E path \in unlinkPaths[a] :
          \/ /\ Present(path)
             /\ RemoveFrom(path[1], path[2])
             /\ unlinkPaths' = [unlinkPaths EXCEPT ![a] = @ \ {path}]
             /\ UNCHANGED <<says, received, archive, tmpDir, archPc, taskVars, untar,
                            tarred, archiveMishaps, damaged>>
          \/ ~Present(path) /\ ArchiveDie(a)
     \/ /\ unlinkPaths[a] = {}
        /\ ArchiveGoto(a, "rmtree")
        /\ UNCHANGED <<spoolVars, archive, tmpDir, taskVars, tarVars, archiveMishaps, damaged>>

RemoveTmpDir(a) ==
  /\ archPc[a] = "rmtree"
  /\ tmpDir' = NoArchiver
  /\ ForgetTar(a)
  /\ ArchiveGoto(a, "date")
  /\ UNCHANGED <<spoolVars, archive, taskVars, archiveMishaps, damaged>>

KillArchive(a) ==
  /\ archPc[a] # "idle"
  /\ ArchiveMishap
  /\ ArchiveEnd(a)
  /\ UNCHANGED <<spoolVars, archive, tmpDir, damaged>>

\* A temporary directory that a process left is removed, by a reboot say.
CleanTmp ==
  /\ tmpDir # NoArchiver /\ archPc[tmpDir] \notin Inside
  /\ tmpDir' = NoArchiver
  /\ UNCHANGED <<spoolVars, archive, archPc, taskVars, tarVars, archiveMishaps, damaged>>

Archive(a) ==
  \/ ArchiveStart(a) \/ ListPaths(a) \/ StatPaths(a) \/ PickDate(a) \/ MakeTmpDir(a)
  \/ Untar(a) \/ Tar(a) \/ RenameArchive(a) \/ UnlinkPath(a) \/ RemoveTmpDir(a)
  \/ KillArchive(a)
==============================================================================
