--------------------------- MODULE MirrorSpoolProofs ---------------------------
(***************************************************************************)
(* Proofs about MirrorSpool: the type invariant; that no file is lost;     *)
(* that what pull-reports takes for known was written, and is downloaded   *)
(* again only after a mishap; and that a day that is done is in its        *)
(* archive.                                                                *)
(***************************************************************************)
EXTENDS MirrorSpool, FiniteSetTheorems, TLAPS

USE SpoolAssumption, PullAssumption, ArchiveAssumption

-----------------------------------------------------------------------------
(* The spool.                                                              *)

\* A file is put into a directory, with a date, or taken out of it.
LEMMA PlaceType ==
  ASSUME SpoolTypeOK, NEW d \in Dir, NEW f \in File, NEW x \in Day \cup {Absent}
  PROVE  [place EXCEPT ![d] = [@ EXCEPT ![f] = x]] \in [Dir -> [File -> Day \cup {Absent}]]
  BY DEF SpoolTypeOK

\* The types of the spool, under every step.
LEMMA SpoolTypeStep ==
  ASSUME TypeOK, [Next]_vars
  PROVE  SpoolTypeOK'
<1>. USE DEF TypeOK
<1>1. ASSUME NEW f \in File, Write(f) PROVE place' \in [Dir -> [File -> Day \cup {Absent}]] /\ received' \in SUBSET File
  BY <1>1, PlaceType DEF Write, SpoolTypeOK, Dir
<1>2. ASSUME NEW f \in File, SaveFile(f) PROVE SpoolTypeOK'
  BY <1>2 DEF SaveFile, MoveTo, SpoolTypeOK, Dir
<1>3. ASSUME NEW f \in File, UploadFile(f) PROVE SpoolTypeOK'
  BY <1>1, <1>3 DEF UploadFile, SpoolTypeOK
<1>4. ASSUME NEW p \in Puller, WriteReport(p) PROVE SpoolTypeOK'
  <2>. PICK r \in newReports[p] :
       \/ Write(r) /\ UNCHANGED says
       \/ \E u \in Uuid : Write(u) /\ says' = [says EXCEPT ![u] = r]
    BY <1>4 DEF WriteReport, OpenFile
  <2>. r \in Report
    BY DEF PullTypeOK
  <2>2. CASE Write(r) /\ UNCHANGED says
    BY <1>1, <2>2 DEF SpoolTypeOK, File
  <2>3. CASE \E u \in Uuid : Write(u) /\ says' = [says EXCEPT ![u] = r]
    BY <1>1, <2>3 DEF SpoolTypeOK, File
  <2>. QED
    BY <2>2, <2>3
<1>5. ASSUME NEW a \in Archiver, Archive(a) PROVE SpoolTypeOK'
  <2>1. CASE UNCHANGED spoolVars
    BY <2>1 DEF spoolVars, SpoolTypeOK
  <2>2. CASE UnlinkPath(a)
    <3>1. CASE UNCHANGED spoolVars
      BY <2>1, <3>1
    <3>2. CASE \E path \in unlinkPaths[a] : RemoveFrom(path[1], path[2]) /\ UNCHANGED <<says, received>>
      <4>. PICK path \in unlinkPaths[a] : RemoveFrom(path[1], path[2]) /\ UNCHANGED <<says, received>>
        BY <3>2
      <4>. path[1] \in Dir /\ path[2] \in File
        BY DEF ArchiveTypeOK, Path, Dir
      <4>. QED
        BY PlaceType DEF RemoveFrom, SpoolTypeOK
    <3>. QED
      BY <2>2, <3>1, <3>2 DEF UnlinkPath, ArchiveDie
  <2>. QED
    BY <1>5, <2>1, <2>2 DEF Archive, ArchiveStart, ListPaths, StatPaths, PickDate, MakeTmpDir,
         Untar, Tar, RenameArchive, RemoveTmpDir, KillArchive, ArchiveDie
<1>6. CASE UNCHANGED vars
  BY <1>6 DEF vars, spoolVars, SpoolTypeOK
<1>. QED
  BY <1>2, <1>3, <1>4, <1>5, <1>6 DEF Next, Pull, Change, Store, CleanTmp, spoolVars, SpoolTypeOK

-----------------------------------------------------------------------------
(* The pull-reports processes.                                             *)

\* The types of the pulling processes, under every step.
LEMMA PullTypeStep ==
  ASSUME TypeOK, [Next]_vars
  PROVE  PullTypeOK'
<1>. USE DEF TypeOK
<1>. USE DEF pullHistory, Pulling, InHandPc
<1>1. CASE UNCHANGED pullVars
  BY <1>1 DEF pullVars, pullerVars, PullTypeOK
<1>2. ASSUME NEW p \in Puller, NEW m \in Master, PullStart(p, m) PROVE PullTypeOK'
  <2>. pullMishaps' \in Nat
    BY <1>2 DEF PullStart, PullMishap, PullTypeOK
  <2>. /\ pullPc' \in [Puller -> {"idle", "list", "save"} \cup Pulling]
       /\ master' \in [Puller -> Master \cup {NoMaster}]
       /\ full' \in [Puller -> SUBSET Report] /\ known' \in [Puller -> SUBSET Report]
    BY <1>2 DEF PullStart, PullGoto, PullTypeOK
  <2>. QED
    BY <1>2 DEF PullStart, PullTypeOK
<1>3. ASSUME NEW p \in Puller, ListReports(p) PROVE PullTypeOK'
  <2>. PICK reports \in {available \cap Own(master[p]), {}} :
         /\ pullMishaps' \in {pullMishaps, pullMishaps + 1}
         /\ known' = [known EXCEPT ![p] = StillKnown(p, reports)]
         /\ newReports' = [newReports EXCEPT ![p] = NewReports(p, reports)]
         /\ pullPc' = [pullPc EXCEPT ![p] = "save"] \/ pullPc' = [pullPc EXCEPT ![p] = "get"]
    BY <1>3 DEF ListReports, PullMishap, PullGoto
  <2>. reports \subseteq Report /\ StillKnown(p, reports) \subseteq Report
       /\ NewReports(p, reports) \subseteq Report
    BY DEF PullTypeOK, Own, StillKnown, NewReports
  <2>. QED
    BY <1>3 DEF ListReports, PullTypeOK
<1>4. ASSUME NEW p \in Puller, GetReport(p) \/ RememberReport(p) PROVE PullTypeOK'
  <2>. PICK r \in newReports[p] :
         /\ newReports' \in {newReports, [newReports EXCEPT ![p] = newReports[p] \ {r}]}
         /\ \E pc \in {"save", "get", "write"} : pullPc' = [pullPc EXCEPT ![p] = pc]
         /\ known' \in {known, [known EXCEPT ![p] = known[p] \cup {r}]}
         /\ pulls' \in {pulls, [pulls EXCEPT ![r] = pulls[r] + 1]}
         /\ UNCHANGED <<available, knownFile, master, full, pullMishaps, dropped, whole>>
    BY <1>4 DEF GetReport, RememberReport, NextReport, PullGoto
  <2>. r \in Report
    BY DEF PullTypeOK
  <2>. QED
    BY DEF PullTypeOK
<1>5. ASSUME NEW p \in Puller, Interrupt(p) PROVE PullTypeOK'
  BY <1>5 DEF Interrupt, PullGoto, PullTypeOK
<1>10. ASSUME NEW p \in Puller, WriteReport(p) PROVE PullTypeOK'
  <2>. PICK f \in Report \cup Uuid :
         /\ whole' \in {whole, whole \cup {f}}
         /\ \E pc \in {"remember", "cut"} : pullPc' = [pullPc EXCEPT ![p] = pc]
    BY <1>10 DEF WriteReport, PullGoto
  <2>. QED
    BY <1>10 DEF WriteReport, PullTypeOK
<1>6. ASSUME NEW p \in Puller, SaveKnown(p) PROVE PullTypeOK'
  BY <1>6 DEF SaveKnown, Pickled, PullEnd, PullGoto, PullTypeOK
<1>7. ASSUME NEW p \in Puller, KillPull(p) PROVE PullTypeOK'
  BY <1>7 DEF KillPull, PullMishap, PullEnd, PullGoto, PullTypeOK
<1>8. ASSUME NEW r \in Report, Publish(r) \/ Withdraw(r) PROVE PullTypeOK'
  BY <1>8 DEF Publish, Withdraw, pullerVars, PullTypeOK
<1>. QED
  BY <1>1, <1>2, <1>3, <1>4, <1>5, <1>6, <1>7, <1>8, <1>10
  DEF Next, Pull, PullQuietly, Change, vars
-----------------------------------------------------------------------------
(* The archive-reports processes.                                          *)

\* The locals of a process that ends, or goes on to the next part.
LEMMA ArchiveEndType ==
  ASSUME ArchiveTypeOK, NEW a \in Archiver, ArchiveEnd(a) \/ AfterPart(a, part[a])
  PROVE  /\ archPc' \in [Archiver -> {"idle", "list", "stat", "date", "mkdir"} \cup Inside]
         /\ options' \in [Archiver -> CommandLine \cup {NoOptions}]
         /\ part' \in [Archiver -> Part]
         /\ listed' \in [Archiver -> SUBSET Path]
         /\ pathsOf' \in [Archiver -> [Day -> SUBSET Path]]
         /\ dates' \in [Archiver -> SUBSET Day]
         /\ day' \in [Archiver -> Day \cup {Absent}]
         /\ untar' \in [Archiver -> SUBSET File]
         /\ tarred' \in [Archiver -> SUBSET SUBSET File]
         /\ unlinkPaths' \in [Archiver -> SUBSET Path]
<1>. DEFINE none == [d \in Day |-> {}]
<1>. none \in [Day -> SUBSET Path]
  OBVIOUS
<1>3. ArchiveEnd(a) => pathsOf' = [pathsOf EXCEPT ![a] = none]
  BY DEF ArchiveEnd
<1>4. AfterPart(a, part[a]) /\ ~ArchiveEnd(a) => pathsOf' = [pathsOf EXCEPT ![a] = none]
  BY DEF AfterPart
<1>. HIDE DEF none
<1>1. CASE ArchiveEnd(a)
  <2>1. pathsOf' \in [Archiver -> [Day -> SUBSET Path]]
    BY <1>1, <1>3 DEF ArchiveTypeOK
  <2>2. options' \in [Archiver -> CommandLine \cup {NoOptions}]
    BY <1>1 DEF ArchiveEnd, ArchiveTypeOK
  <2>. QED
    BY <1>1, <2>1, <2>2 DEF ArchiveEnd, ForgetTar, ArchiveGoto, ArchiveTypeOK, Part, Inside
<1>2. CASE AfterPart(a, part[a]) /\ ~ArchiveEnd(a)
  <2>1. pathsOf' \in [Archiver -> [Day -> SUBSET Path]]
    BY <1>2, <1>4 DEF ArchiveTypeOK
  <2>. QED
    BY <1>2, <2>1 DEF AfterPart, ArchiveGoto, tarVars, ArchiveTypeOK, Part, Inside
<1>. QED
  BY <1>1, <1>2

\* The paths of the day a process is at, and the names of those present.
LEMMA PathsOfDay ==
  ASSUME TypeOK, NEW a \in Archiver, archPc[a] \in {"mkdir"} \cup Inside
  PROVE  /\ day[a] \in Day /\ Target(a) \in Part \X Day
         /\ pathsOf[a][day[a]] \in SUBSET Path
         /\ Live(a) \in SUBSET File
<1>1. day[a] \in Day
  BY DEF TypeOK, AtDay
<1>2. pathsOf[a][day[a]] \in SUBSET Path
  <2>. pathsOf[a] \in [Day -> SUBSET Path]
    BY DEF TypeOK, ArchiveTypeOK
  <2>. QED
    BY <1>1
<1>3. ASSUME NEW f \in Live(a) PROVE f \in File
  <2>. PICK path \in pathsOf[a][day[a]] : f = path[2]
    BY <1>3 DEF Live, NamesOf
  <2>. QED
    BY <1>2 DEF Path
<1>4. Target(a) \in Part \X Day
  BY <1>1 DEF Target, TypeOK, ArchiveTypeOK
<1>. QED
  BY <1>1, <1>2, <1>3, <1>4

\* The types of the archiving processes, under every step.
LEMMA ArchiveTypeStep ==
  ASSUME TypeOK, [Next]_vars
  PROVE  ArchiveTypeOK'
<1>. USE DEF TypeOK
<1>1. CASE UNCHANGED archiveVars
  BY <1>1 DEF archiveVars, taskVars, tarVars, ArchiveTypeOK
<1>2. CASE CleanTmp
  BY <1>2 DEF CleanTmp, taskVars, tarVars, ArchiveTypeOK
<1>3. ASSUME NEW a \in Archiver, ArchiveDie(a) PROVE ArchiveTypeOK'
  BY <1>3, ArchiveEndType DEF ArchiveDie, ArchiveTypeOK
<1>4. ASSUME NEW a \in Archiver, KillArchive(a) PROVE ArchiveTypeOK'
  <2>. archiveMishaps' \in Nat
    BY <1>4 DEF KillArchive, ArchiveMishap, ArchiveTypeOK
  <2>. QED
    BY <1>4, ArchiveEndType DEF KillArchive, ArchiveTypeOK
<1>5. ASSUME NEW a \in Archiver, ArchiveStart(a) PROVE ArchiveTypeOK'
  <2>. archiveMishaps' \in Nat
    BY <1>5 DEF ArchiveStart, ArchiveMishap, ArchiveTypeOK
  <2>. options' \in [Archiver -> CommandLine \cup {NoOptions}] /\ part' \in [Archiver -> Part]
    BY <1>5 DEF ArchiveStart, ArchiveTypeOK, Part
  <2>. QED
    BY <1>5 DEF ArchiveStart, ArchiveGoto, tarVars, ArchiveTypeOK
<1>6. ASSUME NEW a \in Archiver, ListPaths(a) PROVE ArchiveTypeOK'
  BY <1>6 DEF ListPaths, ArchiveGoto, tarVars, ArchiveTypeOK
<1>7. ASSUME NEW a \in Archiver, StatPaths(a) PROVE ArchiveTypeOK'
  <2>1. CASE ArchiveDie(a)
    BY <1>3, <2>1
  <2>2. CASE ~ArchiveDie(a)
    <3>. DEFINE map == [d \in Day |-> {path \in listed[a] : place[path[1]][path[2]] = d}]
    <3>1. map \in [Day -> SUBSET Path]
      BY DEF ArchiveTypeOK
    <3>2. pathsOf' = [pathsOf EXCEPT ![a] = map]
      BY <1>7, <2>2 DEF StatPaths
    <3>3. options[a].dates \in SUBSET Day
      BY DEF ArchiveTypeOK, NoOptions
    <3>. HIDE DEF map
    <3>. QED
      BY <1>7, <2>2, <3>1, <3>2, <3>3 DEF StatPaths, ArchiveGoto, tarVars, ArchiveTypeOK
  <2>. QED
    BY <2>1, <2>2
<1>8. ASSUME NEW a \in Archiver, PickDate(a) PROVE ArchiveTypeOK'
  <2>1. CASE AfterPart(a, part[a])
    BY <1>8, <2>1, ArchiveEndType DEF PickDate, ArchiveTypeOK
  <2>2. CASE ~AfterPart(a, part[a])
    <3>. PICK d \in dates[a] :
           /\ day' = [day EXCEPT ![a] = d]
           /\ dates' = [dates EXCEPT ![a] = {e \in dates[a] : pathsOf[a][e] # {}} \ {d}]
           /\ ArchiveGoto(a, "mkdir")
           /\ UNCHANGED <<options, part, listed, pathsOf, tarVars>>
      BY <1>8, <2>2 DEF PickDate
    <3>. QED
      BY <1>8 DEF PickDate, ArchiveGoto, tarVars, ArchiveTypeOK
  <2>. QED
    BY <2>1, <2>2
<1>9. ASSUME NEW a \in Archiver, MakeTmpDir(a) PROVE ArchiveTypeOK'
  <2>1. CASE AfterPart(a, part[a]) /\ UNCHANGED tmpDir
    BY <1>9, <2>1, ArchiveEndType DEF MakeTmpDir, ArchiveTypeOK
  <2>2. CASE ~(AfterPart(a, part[a]) /\ UNCHANGED tmpDir)
    BY <1>9, <2>2 DEF MakeTmpDir, ArchiveGoto, taskVars, tarVars, Inside, ArchiveTypeOK
  <2>. QED
    BY <2>1, <2>2
<1>10. ASSUME NEW a \in Archiver, Untar(a) PROVE ArchiveTypeOK'
  <2>. PICK files \in SUBSET archive[Target(a)] :
         /\ \/ UNCHANGED <<archiveMishaps, damaged>>
            \/ ArchiveMishap /\ damaged' = damaged \cup (archive[Target(a)] \ files)
         /\ untar' = [untar EXCEPT ![a] = files]
    BY <1>10 DEF Untar
  <2>. Target(a) \in Part \X Day
    BY <1>10, PathsOfDay DEF Untar, Inside
  <2>. archive[Target(a)] \in SUBSET File
    BY DEF ArchiveTypeOK
  <2>. archiveMishaps' \in Nat
    BY DEF ArchiveMishap, ArchiveTypeOK
  <2>. QED
    BY <1>10 DEF Untar, ArchiveGoto, taskVars, Inside, ArchiveTypeOK
<1>11. ASSUME NEW a \in Archiver, Tar(a) PROVE ArchiveTypeOK'
  <2>. PICK dead \in SUBSET MayBeDead(a) :
       \/ /\ tarred' = [tarred EXCEPT ![a] = {Linked(a, dead)}]
          /\ UNCHANGED <<archiveMishaps, damaged>>
       \/ \E files \in (SUBSET Linked(a, dead)) \ {Linked(a, dead)} :
            /\ ArchiveMishap
            /\ \E written \in {{files}, {}} : tarred' = [tarred EXCEPT ![a] = written]
            /\ damaged' = damaged \cup (Linked(a, dead) \ files)
    BY <1>11 DEF Tar
  <2>. Linked(a, dead) \in SUBSET File
    <3>. Live(a) \in SUBSET File /\ untar[a] \in SUBSET File
      BY <1>11, PathsOfDay DEF Tar, Inside, ArchiveTypeOK
    <3>. QED
      BY DEF Linked
  <2>. archiveMishaps' \in Nat
    BY DEF ArchiveMishap, ArchiveTypeOK
  <2>. tarred' \in [Archiver -> SUBSET SUBSET File]
    <3>. HIDE DEF Linked
    <3>1. PICK written \in SUBSET SUBSET File : tarred' = [tarred EXCEPT ![a] = written]
      <4>1. CASE tarred' = [tarred EXCEPT ![a] = {Linked(a, dead)}]
        BY <4>1
      <4>2. CASE \E files \in (SUBSET Linked(a, dead)) \ {Linked(a, dead)} :
                   \E written \in {{files}, {}} : tarred' = [tarred EXCEPT ![a] = written]
        BY <4>2
      <4>. QED BY <4>1, <4>2
    <3>2. tarred \in [Archiver -> SUBSET SUBSET File]
      BY DEF ArchiveTypeOK
    <3>. QED BY <3>1, <3>2
  <2>. damaged' \in SUBSET File
    BY DEF ArchiveTypeOK
  <2>. HIDE DEF Linked
  <2>. QED
    BY <1>11 DEF Tar, ArchiveGoto, taskVars, Inside, ArchiveTypeOK
<1>12. ASSUME NEW a \in Archiver, RenameArchive(a) PROVE ArchiveTypeOK'
  <2>1. CASE ArchiveDie(a)
    BY <1>3, <2>1
  <2>2. CASE ~ArchiveDie(a)
    <3>. archive' = [archive EXCEPT ![Target(a)] = UNION tarred[a]]
      BY <1>12, <2>2 DEF RenameArchive
    <3>. UNION tarred[a] \in SUBSET File
      BY DEF ArchiveTypeOK
    <3>. archive' \in [Part \X Day -> SUBSET File]
      BY DEF ArchiveTypeOK
    <3>. unlinkPaths' \in [Archiver -> SUBSET Path]
      <4>. pathsOf[a][day[a]] \in SUBSET Path
        BY <1>12, PathsOfDay DEF RenameArchive, Inside
      <4>. QED
        BY <1>12, <2>2 DEF RenameArchive, ArchiveTypeOK
    <3>. QED
      BY <1>12, <2>2 DEF RenameArchive, ArchiveGoto, taskVars, Inside, ArchiveTypeOK
  <2>. QED
    BY <2>1, <2>2
<1>13. ASSUME NEW a \in Archiver, UnlinkPath(a) PROVE ArchiveTypeOK'
  <2>1. CASE ArchiveDie(a)
    BY <1>3, <2>1
  <2>2. CASE ~ArchiveDie(a)
    <3>. unlinkPaths' \in [Archiver -> SUBSET Path]
      <4>. \/ UNCHANGED unlinkPaths
           \/ \E path \in unlinkPaths[a] :
                unlinkPaths' = [unlinkPaths EXCEPT ![a] = unlinkPaths[a] \ {path}]
        BY <1>13, <2>2 DEF UnlinkPath, tarVars
      <4>. unlinkPaths \in [Archiver -> SUBSET Path]
        BY DEF ArchiveTypeOK
      <4>. QED
        OBVIOUS
    <3>. QED
      BY <1>13, <2>2 DEF UnlinkPath, ArchiveGoto, taskVars, tarVars, Inside, ArchiveTypeOK
  <2>. QED
    BY <2>1, <2>2
<1>14. ASSUME NEW a \in Archiver, RemoveTmpDir(a) PROVE ArchiveTypeOK'
  BY <1>14 DEF RemoveTmpDir, ForgetTar, ArchiveGoto, taskVars, Inside, ArchiveTypeOK
<1>15. ASSUME NEW a \in Archiver, Archive(a) PROVE ArchiveTypeOK'
  BY <1>4, <1>5, <1>6, <1>7, <1>8, <1>9, <1>10, <1>11, <1>12, <1>13, <1>14, <1>15 DEF Archive
<1>. QED
  BY <1>1, <1>2, <1>15 DEF Next, vars

\* A step of one process leaves what the others know alone.
LEMMA OthersStay ==
  ASSUME ArchiveTypeOK, NEW a \in Archiver, Archive(a), NEW b \in Archiver, a # b
  PROVE  UNCHANGED <<archPc[b], options[b], listed[b], part[b], pathsOf[b], dates[b], day[b],
                     untar[b], tarred[b], unlinkPaths[b]>>
<1>. USE DEF ArchiveTypeOK
<1>1. CASE ArchiveEnd(a) \/ AfterPart(a, part[a])
  BY <1>1 DEF ArchiveEnd, AfterPart, ForgetTar, ArchiveGoto, tarVars
<1>2. CASE ArchiveStart(a) \/ ListPaths(a)
  BY <1>2 DEF ArchiveStart, ListPaths, ArchiveGoto, tarVars
<1>3. CASE StatPaths(a) \/ KillArchive(a)
  BY <1>1, <1>3 DEF StatPaths, KillArchive, ArchiveDie, ArchiveGoto, tarVars
<1>4. CASE PickDate(a)
  BY <1>1, <1>4 DEF PickDate, ArchiveGoto, tarVars
<1>5. CASE MakeTmpDir(a)
  BY <1>1, <1>5 DEF MakeTmpDir, ArchiveGoto, taskVars, tarVars
<1>6. CASE Untar(a)
  BY <1>6 DEF Untar, ArchiveGoto, taskVars
<1>7. CASE Tar(a)
  BY <1>7 DEF Tar, ArchiveGoto, taskVars
<1>8. CASE RenameArchive(a)
  BY <1>1, <1>8 DEF RenameArchive, ArchiveDie, ArchiveGoto, taskVars
<1>9. CASE UnlinkPath(a)
  BY <1>1, <1>9 DEF UnlinkPath, ArchiveDie, ArchiveGoto, taskVars, tarVars
<1>10. CASE RemoveTmpDir(a)
  BY <1>10 DEF RemoveTmpDir, ForgetTar, ArchiveGoto, taskVars
<1>. QED
  BY <1>2, <1>3, <1>4, <1>5, <1>6, <1>7, <1>8, <1>9, <1>10 DEF Archive

\* A process in the temporary directory is at a day.
LEMMA AtDayStep ==
  ASSUME TypeOK, [Next]_vars
  PROVE  AtDay'
<1>. USE DEF TypeOK, Inside
<1>1. CASE UNCHANGED <<archPc, day>>
  BY <1>1 DEF AtDay
<1>2. ASSUME NEW b \in Archiver, Archive(b), archPc'[b] \in {"mkdir"} \cup Inside
      PROVE  day'[b] \in Day
  <2>1. CASE archPc[b] \in {"mkdir"} \cup Inside /\ day'[b] = day[b]
    BY <2>1 DEF AtDay
  <2>2. CASE PickDate(b)
    BY <1>2, <2>2 DEF PickDate, AfterPart, ArchiveEnd, ArchiveGoto, ArchiveTypeOK, AtDay
  <2>3. CASE MakeTmpDir(b)
    BY <1>2, <2>1, <2>3 DEF MakeTmpDir, AfterPart, ArchiveEnd, ArchiveGoto, ArchiveTypeOK, taskVars
  <2>4. CASE Untar(b) \/ Tar(b)
    BY <2>1, <2>4 DEF Untar, Tar, taskVars
  <2>5. CASE RenameArchive(b) \/ UnlinkPath(b)
    BY <1>2, <2>1, <2>5 DEF RenameArchive, UnlinkPath, ArchiveDie, ArchiveEnd, ArchiveGoto,
       ArchiveTypeOK, taskVars
  <2>6. CASE RemoveTmpDir(b) \/ ArchiveStart(b) \/ ListPaths(b) \/ StatPaths(b) \/ KillArchive(b)
    BY <1>2, <2>6 DEF RemoveTmpDir, ArchiveStart, ListPaths, StatPaths, KillArchive, ArchiveDie,
       ArchiveEnd, ArchiveGoto, ArchiveTypeOK
  <2>. QED
    BY <1>2, <2>2, <2>3, <2>4, <2>5, <2>6 DEF Archive
<1>3. CASE \E a \in Archiver : Archive(a)
  BY <1>2, <1>3, OthersStay DEF AtDay
<1>. QED
  BY <1>1, <1>3 DEF Next, CleanTmp, taskVars, archiveVars, vars

\* Every variable has its type, and a process that archives is at a day
\* (MirrorSpool as a whole).
THEOREM TypeCorrect == Spec => []TypeOK
<1>1. Init => TypeOK
  BY DEF Init, SpoolInit, PullInit, ArchiveInit, TypeOK, SpoolTypeOK, PullTypeOK,
         ArchiveTypeOK, AtDay, Dir, Part, Inside
<1>2. TypeOK /\ [Next]_vars => TypeOK'
  BY SpoolTypeStep, PullTypeStep, ArchiveTypeStep, AtDayStep DEF TypeOK
<1>. QED
  BY <1>1, <1>2, PTL DEF Spec

-----------------------------------------------------------------------------
(* No file is lost.  A file may leave saved or deferred once it is kept,   *)
(* which it then stays; what a process has listed is still there or kept,  *)
(* and the one process in the temporary directory has, from step to step,  *)
(* all that the old archive had and all that it is going to unlink.        *)

Kept(f) == Archived(f) \/ f \in damaged

Owned == \A a \in Archiver : archPc[a] \in Inside => tmpDir = a

ListedFit ==
  \A a \in Archiver : \A path \in listed[a] :
    PartOf(path[2]) = part[a] /\ (Present(path) \/ Kept(path[2]))

PathsListed == \A a \in Archiver : \A d \in Day : pathsOf[a][d] \subseteq listed[a]

Fresh ==
  \A a \in Archiver : archPc[a] \in {"idle", "list"} =>
    listed[a] = {} /\ \A d \in Day : pathsOf[a][d] = {}

Merged ==
  \A a \in Archiver : archPc[a] = "tar" => archive[Target(a)] \subseteq untar[a] \cup damaged

Written ==
  \A a \in Archiver : archPc[a] = "rename" => \A files \in tarred[a] :
    /\ tarred[a] = {files}
    /\ archive[Target(a)] \subseteq files \cup damaged
    /\ \A path \in pathsOf[a][day[a]] : path[2] \in files \/ Kept(path[2])

Unlinkable ==
  \A a \in Archiver : archPc[a] = "unlink" => \A path \in unlinkPaths[a] : Kept(path[2])

IInv == /\ TypeOK /\ Owned /\ ListedFit /\ PathsListed /\ Fresh /\ Merged /\ Written
        /\ Unlinkable /\ NothingLost

\* Only a rename changes archives.
LEMMA ArchivesChange ==
  ASSUME [Next]_vars
  PROVE  \/ UNCHANGED archive
         \/ \E a \in Archiver : RenameArchive(a) /\ ~UNCHANGED archive
  BY DEF Next, vars, archiveVars, CleanTmp, Archive, ArchiveStart, ListPaths, StatPaths,
     PickDate, MakeTmpDir, Untar, Tar, RenameArchive, UnlinkPath, RemoveTmpDir, KillArchive,
     ArchiveDie

\* What failing tars left out is not forgotten.
LEMMA DamageStays ==
  ASSUME [Next]_vars
  PROVE  damaged \subseteq damaged'
  BY DEF Next, vars, archiveVars, CleanTmp, Archive, ArchiveStart, ListPaths, StatPaths,
     PickDate, MakeTmpDir, Untar, Tar, RenameArchive, UnlinkPath, RemoveTmpDir, KillArchive,
     ArchiveDie

\* A file that is kept stays so.
LEMMA KeptStays ==
  ASSUME IInv, [Next]_vars, NEW f \in File, Kept(f)
  PROVE  Kept(f)'
<1>1. CASE f \in damaged
  BY <1>1, DamageStays DEF Kept
<1>2. CASE Archived(f)
  <2>1. CASE UNCHANGED archive
    BY <1>2, <2>1 DEF Kept, Archived
  <2>2. ASSUME NEW a \in Archiver, RenameArchive(a), ~UNCHANGED archive PROVE Kept(f)'
    <3>1. archPc[a] = "rename" /\ tarred[a] # {}
          /\ archive' = [archive EXCEPT ![Target(a)] = UNION tarred[a]]
      BY <2>2 DEF RenameArchive, ArchiveDie
    <3>. PICK files \in tarred[a] : tarred[a] = {files} /\ archive[Target(a)] \subseteq files \cup damaged
      BY <3>1 DEF IInv, Written
    <3>2. Target(a) \in Part \X Day
      BY <3>1, PathsOfDay DEF IInv, Inside
    <3>. PICK d \in Day : f \in archive[<<PartOf(f), d>>]
      BY <1>2 DEF Archived
    <3>3. <<PartOf(f), d>> \in Part \X Day
      BY DEF PartOf, Part
    <3>4. CASE Target(a) = <<PartOf(f), d>>
      <4>. f \in files \/ f \in damaged
        BY <3>4
      <4>. archive'[<<PartOf(f), d>>] = files
        BY <3>1, <3>2, <3>4 DEF IInv, TypeOK, ArchiveTypeOK
      <4>. QED
        BY DamageStays DEF Kept, Archived
    <3>5. CASE Target(a) # <<PartOf(f), d>>
      <4>. f \in archive'[<<PartOf(f), d>>]
        BY <3>1, <3>3, <3>5 DEF IInv, TypeOK, ArchiveTypeOK
      <4>. QED
        BY DEF Kept, Archived
    <3>. QED
      BY <3>4, <3>5
  <2>. QED
    BY <2>1, <2>2, ArchivesChange
<1>. QED
  BY <1>1, <1>2 DEF Kept

\* A path that is not there any more was of a file that is kept.
LEMMA PresentStays ==
  ASSUME IInv, [Next]_vars, NEW path \in Path, Present(path)
  PROVE  Present(path)' \/ Kept(path[2])'
<1>. path[1] \in Dir /\ path[1] # "incoming" /\ path[2] \in File
  BY DEF Path, Dir
<1>0. CASE UNCHANGED place
  BY <1>0 DEF Present, In
<1>1. ASSUME NEW f \in File, Write(f) PROVE Present(path)'
  BY <1>1 DEF Write, Present, In, IInv, TypeOK, SpoolTypeOK, Dir
<1>2. ASSUME NEW f \in File, SaveFile(f) PROVE Present(path)'
  BY <1>2 DEF SaveFile, MoveTo, Present, In, IInv, TypeOK, SpoolTypeOK, Dir
<1>3. ASSUME NEW a \in Archiver, NEW gone \in unlinkPaths[a], archPc[a] = "unlink",
             RemoveFrom(gone[1], gone[2])
      PROVE  Present(path)' \/ Kept(path[2])'
  <2>. gone \in Path
    BY DEF IInv, TypeOK, ArchiveTypeOK
  <2>1. CASE gone[1] = path[1] /\ gone[2] = path[2]
    <3>. Kept(path[2])
      BY <1>3, <2>1 DEF IInv, Unlinkable
    <3>. QED
      BY KeptStays
  <2>2. CASE gone[1] # path[1] \/ gone[2] # path[2]
    BY <1>3, <2>2 DEF RemoveFrom, Present, In, IInv, TypeOK, SpoolTypeOK, Path, Dir
  <2>. QED
    BY <2>1, <2>2
<1>4. ASSUME NEW p \in Puller, WriteReport(p) PROVE \E f \in File : Write(f)
  BY <1>4 DEF WriteReport, OpenFile, File
<1>5. ASSUME NEW a \in Archiver, Archive(a), ~UNCHANGED place
      PROVE  archPc[a] = "unlink" /\ \E gone \in unlinkPaths[a] : RemoveFrom(gone[1], gone[2])
  BY <1>5 DEF Archive, ArchiveStart, ListPaths, StatPaths, PickDate, MakeTmpDir, Untar, Tar,
     RenameArchive, UnlinkPath, RemoveTmpDir, KillArchive, ArchiveDie, spoolVars
<1>. QED
  BY <1>0, <1>1, <1>2, <1>3, <1>4, <1>5
  DEF Next, Pull, Change, Store, UploadFile, CleanTmp, vars, spoolVars

\* At most one process is in the temporary directory.
LEMMA OwnedStep ==
  ASSUME IInv, [Next]_vars
  PROVE  Owned'
<1>. USE DEF IInv, Inside
<1>1. CASE UNCHANGED <<archPc, tmpDir>>
  BY <1>1 DEF Owned
<1>2. CASE CleanTmp
  BY <1>2 DEF CleanTmp, Owned, TypeOK, ArchiveTypeOK
<1>3. ASSUME NEW a \in Archiver, Archive(a), NEW b \in Archiver, archPc'[b] \in Inside
      PROVE  tmpDir' = b
  <2>1. CASE UNCHANGED tmpDir /\ (b # a \/ archPc[a] \in Inside)
    <3>. b # a => archPc'[b] = archPc[b]
      BY <1>3, OthersStay DEF TypeOK
    <3>. QED
      BY <1>3, <2>1 DEF Owned
  <2>2. CASE MakeTmpDir(a)
    BY <1>3, <2>2 DEF MakeTmpDir, AfterPart, ArchiveEnd, ArchiveGoto, Owned, TypeOK, ArchiveTypeOK
  <2>3. CASE RemoveTmpDir(a)
    BY <1>3, <2>3 DEF RemoveTmpDir, ArchiveGoto, Owned, TypeOK, ArchiveTypeOK
  <2>4. CASE ArchiveStart(a) \/ ListPaths(a) \/ StatPaths(a) \/ PickDate(a)
    BY <1>3, <2>1, <2>4 DEF ArchiveStart, ListPaths, StatPaths, PickDate, ArchiveDie, AfterPart,
       ArchiveEnd, ArchiveGoto, TypeOK, ArchiveTypeOK
  <2>5. CASE Untar(a) \/ Tar(a) \/ RenameArchive(a) \/ UnlinkPath(a)
    BY <1>3, <2>1, <2>5 DEF Untar, Tar, RenameArchive, UnlinkPath, ArchiveDie
  <2>6. CASE KillArchive(a)
    BY <1>3, <2>1, <2>6 DEF KillArchive, ArchiveEnd, ArchiveGoto, TypeOK, ArchiveTypeOK
  <2>. QED
    BY <1>3, <2>2, <2>3, <2>4, <2>5, <2>6 DEF Archive
<1>. QED
  BY <1>1, <1>2, <1>3 DEF Next, vars, archiveVars, Owned

\* What becomes of the list and the map of a process.
LEMMA ListsChange ==
  ASSUME IInv, [Next]_vars, NEW b \in Archiver
  PROVE  \/ UNCHANGED <<listed[b], part[b], pathsOf[b]>> /\ archPc'[b] \notin {"idle", "list"}
         \/ listed'[b] = {} /\ \A d \in Day : pathsOf'[b][d] = {}
         \/ /\ UNCHANGED <<place, part[b], pathsOf[b]>> /\ archPc'[b] = "stat"
            /\ \A d \in Day : pathsOf[b][d] = {}
            /\ listed'[b] = {path \in Path : Present(path) /\ PartOf(path[2]) = part[b]}
         \/ /\ UNCHANGED <<place, listed[b], part[b]>> /\ archPc'[b] = "date"
            /\ \A d \in Day : pathsOf'[b][d] = {path \in listed[b] : place[path[1]][path[2]] = d}
<1>. USE DEF IInv, TypeOK, ArchiveTypeOK
<1>1. CASE UNCHANGED <<archPc, listed, part, pathsOf>>
  BY <1>1 DEF Fresh
<1>2. ASSUME NEW a \in Archiver, Archive(a), a # b
      PROVE  UNCHANGED <<listed[b], part[b], pathsOf[b], archPc[b]>>
  BY <1>2, OthersStay
<1>3. CASE ArchiveEnd(b) \/ AfterPart(b, part[b])
  BY <1>3 DEF ArchiveEnd, AfterPart
<1>4. CASE ArchiveStart(b)
  <2>. archPc[b] = "idle" /\ UNCHANGED <<listed, pathsOf>>
    BY <1>4 DEF ArchiveStart
  <2>. QED
    BY DEF Fresh
<1>5. CASE ListPaths(b)
  BY <1>5 DEF ListPaths, ArchiveGoto, Fresh, spoolVars
<1>6. CASE StatPaths(b) /\ ~ArchiveEnd(b)
  BY <1>6 DEF StatPaths, ArchiveDie, ArchiveGoto, spoolVars
<1>7. CASE /\ ~ArchiveEnd(b) /\ ~AfterPart(b, part[b])
           /\ \/ PickDate(b) \/ MakeTmpDir(b) \/ Untar(b) \/ Tar(b) \/ RenameArchive(b)
              \/ UnlinkPath(b) \/ RemoveTmpDir(b)
  <2>. UNCHANGED <<listed, part, pathsOf>>
    BY <1>7 DEF PickDate, MakeTmpDir, Untar, Tar, RenameArchive, UnlinkPath, RemoveTmpDir,
       ArchiveDie, taskVars
  <2>. \/ archPc'[b] = archPc[b] /\ archPc[b] = "unlink"
       \/ archPc'[b] \in {"mkdir", "untar", "tar", "rename", "unlink", "rmtree", "date"}
    BY <1>7 DEF PickDate, MakeTmpDir, Untar, Tar, RenameArchive, UnlinkPath, RemoveTmpDir,
       ArchiveDie, ArchiveGoto
  <2>. QED
    OBVIOUS
<1>8. CASE KillArchive(b) \/ ArchiveEnd(b)
  BY <1>3, <1>8 DEF KillArchive
<1>9. CASE Archive(b)
  BY <1>3, <1>4, <1>5, <1>6, <1>7, <1>8, <1>9 DEF Archive
<1>10. CASE \E a \in Archiver : Archive(a)
  BY <1>2, <1>9, <1>10 DEF Fresh
<1>. QED
  BY <1>1, <1>10 DEF Next, CleanTmp, vars, archiveVars, taskVars

\* What a process has listed is still there, or kept.
LEMMA ListsStep ==
  ASSUME IInv, [Next]_vars
  PROVE  ListedFit' /\ PathsListed' /\ Fresh'
<1>. SUFFICES ASSUME NEW b \in Archiver
              PROVE  /\ \A path \in listed'[b] :
                          PartOf(path[2]) = part'[b] /\ (Present(path)' \/ Kept(path[2])')
                     /\ \A d \in Day : pathsOf'[b][d] \subseteq listed'[b]
                     /\ archPc'[b] \in {"idle", "list"} =>
                          listed'[b] = {} /\ \A d \in Day : pathsOf'[b][d] = {}
  BY DEF ListedFit, PathsListed, Fresh
<1>1. ASSUME NEW path \in listed[b] PROVE Present(path)' \/ Kept(path[2])'
  <2>. path \in Path /\ path[2] \in File
    BY DEF IInv, TypeOK, ArchiveTypeOK, Path
  <2>. Present(path) \/ Kept(path[2])
    BY DEF IInv, ListedFit
  <2>. QED
    BY PresentStays, KeptStays
<1>2. CASE UNCHANGED <<listed[b], part[b], pathsOf[b]>> /\ archPc'[b] \notin {"idle", "list"}
  BY <1>1, <1>2 DEF IInv, ListedFit, PathsListed
<1>3. CASE listed'[b] = {} /\ \A d \in Day : pathsOf'[b][d] = {}
  BY <1>3
<1>4. CASE /\ UNCHANGED <<place, part[b], pathsOf[b]>> /\ archPc'[b] = "stat"
           /\ \A d \in Day : pathsOf[b][d] = {}
           /\ listed'[b] = {path \in Path : Present(path) /\ PartOf(path[2]) = part[b]}
  BY <1>4 DEF Present, In
<1>5. CASE /\ UNCHANGED <<place, listed[b], part[b]>> /\ archPc'[b] = "date"
           /\ \A d \in Day : pathsOf'[b][d] = {path \in listed[b] : place[path[1]][path[2]] = d}
  BY <1>1, <1>5 DEF IInv, ListedFit
<1>. QED
  BY <1>2, <1>3, <1>4, <1>5, ListsChange

\* The steps from one stage in the temporary directory to the next.
LEMMA InsideStep ==
  ASSUME IInv, [Next]_vars
  PROVE  Merged' /\ Written' /\ Unlinkable'
<1>. SUFFICES ASSUME NEW b \in Archiver
     PROVE  /\ archPc'[b] = "tar" => archive'[Target(b)'] \subseteq untar'[b] \cup damaged'
            /\ archPc'[b] = "rename" => \A files \in tarred'[b] :
                 /\ tarred'[b] = {files}
                 /\ archive'[Target(b)'] \subseteq files \cup damaged'
                 /\ \A path \in pathsOf'[b][day'[b]] : path[2] \in files \/ Kept(path[2])'
            /\ archPc'[b] = "unlink" => \A path \in unlinkPaths'[b] : Kept(path[2])'
  BY DEF Merged, Written, Unlinkable
<1>. USE DEF IInv, TypeOK, ArchiveTypeOK
<1>1. ASSUME NEW f \in File, Kept(f) PROVE Kept(f)'
  BY <1>1, KeptStays
<1>2. \A path \in Path : path[2] \in File
  BY DEF Path
<1>3. CASE UNCHANGED <<archPc[b], part[b], pathsOf[b], day[b], untar[b], tarred[b], unlinkPaths[b]>>
  <2>1. CASE archPc[b] \in Inside
    <3>1. UNCHANGED archive[Target(b)]
      <4>1. CASE UNCHANGED archive
        BY <1>3, <4>1 DEF Target
      <4>2. ASSUME NEW a \in Archiver, RenameArchive(a), ~UNCHANGED archive PROVE FALSE
        <5>. archPc[a] = "rename" /\ archPc'[a] # "rename"
          BY <4>2 DEF RenameArchive, ArchiveDie, ArchiveEnd, ArchiveGoto
        <5>. QED
          BY <1>3, <2>1 DEF Owned, Inside
      <4>. QED
        BY <4>1, <4>2, ArchivesChange
    <3>2. archPc[b] \in {"tar", "rename"} => pathsOf[b][day[b]] \in SUBSET Path
      BY PathsOfDay DEF Inside
    <3>. QED
      BY <1>1, <1>2, <1>3, <3>1, <3>2, DamageStays DEF Merged, Written, Unlinkable
  <2>2. CASE archPc[b] \notin Inside
    BY <1>3, <2>2 DEF Inside
  <2>. QED
    BY <2>1, <2>2
<1>4. CASE Untar(b)
  <2>. archPc'[b] = "tar" /\ UNCHANGED archive[Target(b)]
    BY <1>4 DEF Untar, ArchiveGoto, taskVars, Target
  <2>. archive[Target(b)] \subseteq untar'[b] \cup damaged'
    BY <1>4 DEF Untar
  <2>. QED
    OBVIOUS
<1>5. CASE Tar(b)
  <2>1. archPc'[b] = "rename"
        /\ UNCHANGED <<archive[Target(b)], pathsOf[b], day[b], place>>
    BY <1>5 DEF Tar, ArchiveGoto, taskVars, spoolVars, Target
  <2>2. PICK dead \in SUBSET MayBeDead(b) :
       \/ /\ tarred' = [tarred EXCEPT ![b] = {Linked(b, dead)}]
          /\ UNCHANGED <<archiveMishaps, damaged>>
       \/ \E files \in (SUBSET Linked(b, dead)) \ {Linked(b, dead)} :
            /\ ArchiveMishap
            /\ \E written \in {{files}, {}} : tarred' = [tarred EXCEPT ![b] = written]
            /\ damaged' = damaged \cup (Linked(b, dead) \ files)
    BY <1>5 DEF Tar
  <2>3. ASSUME NEW files \in tarred'[b]
        PROVE  tarred'[b] = {files} /\ Linked(b, dead) \subseteq files \cup damaged'
    BY <2>2
  <2>4. archive[Target(b)] \subseteq Linked(b, dead) \cup damaged
    BY <1>5 DEF Tar, Merged, Linked
  <2>5. pathsOf[b][day[b]] \in SUBSET Path /\ day[b] \in Day
    BY <1>5, PathsOfDay DEF Tar, Inside
  <2>6. ASSUME NEW path \in pathsOf[b][day[b]] PROVE path[2] \in Linked(b, dead) \/ Kept(path[2])
    <3>1. PartOf(path[2]) = part[b] /\ (Present(path) \/ Kept(path[2]))
      BY <2>5 DEF ListedFit, PathsListed
    <3>2. CASE Present(path) /\ path[2] \notin dead
      BY <3>2 DEF Linked, Live, NamesOf
    <3>3. CASE path[2] \in dead
      <4>. DEFINE gone == {q \in pathsOf[b][day[b]] : ~Present(q)}
      <4>1. path[2] \in NamesOf(gone)
        BY <3>3 DEF MayBeDead
      <4>. PICK other \in gone : other[2] = path[2]
        BY <4>1 DEF NamesOf
      <4>. other \in listed[b]
        BY <2>5 DEF PathsListed
      <4>. Kept(other[2])
        BY DEF ListedFit
      <4>. QED
        OBVIOUS
    <3>. QED
      BY <3>1, <3>2, <3>3
  <2>. HIDE DEF Linked, MayBeDead
  <2>7. ASSUME NEW files \in tarred'[b], NEW path \in pathsOf'[b][day'[b]]
        PROVE  path[2] \in files \/ Kept(path[2])'
    <3>1. path \in pathsOf[b][day[b]] /\ path[2] \in File
      BY <1>2, <2>1, <2>5
    <3>2. CASE Kept(path[2])
      BY <1>1, <3>1, <3>2
    <3>3. CASE path[2] \in Linked(b, dead)
      BY <2>3, <3>3 DEF Kept
    <3>. QED
      BY <2>6, <3>1, <3>2, <3>3
  <2>. QED
    BY <2>1, <2>3, <2>4, <2>7, DamageStays
<1>6. CASE RenameArchive(b)
  <2>1. CASE archPc'[b] # "unlink"
    BY <1>6, <2>1 DEF RenameArchive, ArchiveGoto, ArchiveDie, ArchiveEnd
  <2>2. CASE archPc'[b] = "unlink"
    <3>1. /\ archPc[b] = "rename" /\ tarred[b] # {}
          /\ archive' = [archive EXCEPT ![Target(b)] = UNION tarred[b]]
          /\ unlinkPaths'[b] \subseteq pathsOf[b][day[b]]
      BY <1>6, <2>2 DEF RenameArchive, ArchiveDie, ArchiveEnd, ArchiveGoto
    <3>2. PICK files \in tarred[b] :
            /\ tarred[b] = {files}
            /\ \A path \in pathsOf[b][day[b]] : path[2] \in files \/ Kept(path[2])
      BY <3>1 DEF Written
    <3>3. day[b] \in Day /\ Target(b) \in Part \X Day /\ pathsOf[b][day[b]] \in SUBSET Path
      BY <3>1, PathsOfDay DEF Inside
    <3>4. archive'[Target(b)] = files
      BY <3>1, <3>2, <3>3
    <3>5. ASSUME NEW path \in pathsOf[b][day[b]] PROVE Kept(path[2])'
      <4>1. CASE Kept(path[2])
        BY <1>1, <1>2, <3>3, <4>1
      <4>2. CASE path[2] \in files
        <5>. PartOf(path[2]) = part[b]
          BY <3>3 DEF ListedFit, PathsListed
        <5>. QED
          <6>. path[2] \in archive'[<<PartOf(path[2]), day[b]>>]
            BY <3>4, <4>2 DEF Target
          <6>. QED
            BY <3>3 DEF Kept, Archived
      <4>. QED
        BY <3>2, <4>1, <4>2
    <3>. QED
      BY <2>2, <3>1, <3>5
  <2>. QED
    BY <2>1, <2>2
<1>7. CASE UnlinkPath(b)
  <2>. archPc'[b] = "unlink" => archPc[b] = "unlink" /\ unlinkPaths'[b] \subseteq unlinkPaths[b]
    BY <1>7 DEF UnlinkPath, ArchiveGoto, ArchiveDie, ArchiveEnd
  <2>. archPc'[b] \notin {"tar", "rename"}
    BY <1>7 DEF UnlinkPath, ArchiveGoto, ArchiveDie, ArchiveEnd
  <2>. QED
    BY <1>1, <1>2 DEF Unlinkable
<1>8. CASE archPc'[b] \notin {"tar", "rename", "unlink"}
  BY <1>8
<1>9. ASSUME NEW a \in Archiver, Archive(a), a # b
      PROVE  UNCHANGED <<archPc[b], part[b], pathsOf[b], day[b], untar[b], tarred[b], unlinkPaths[b]>>
  BY <1>9, OthersStay
<1>10. CASE ArchiveStart(b) \/ ListPaths(b) \/ StatPaths(b) \/ PickDate(b) \/ MakeTmpDir(b)
            \/ RemoveTmpDir(b) \/ KillArchive(b)
  BY <1>8, <1>10 DEF ArchiveStart, ListPaths, StatPaths, PickDate, MakeTmpDir,
     RemoveTmpDir, KillArchive, ArchiveDie, AfterPart, ArchiveEnd, ArchiveGoto
<1>11. CASE \E a \in Archiver : Archive(a)
  BY <1>3, <1>4, <1>5, <1>6, <1>7, <1>9, <1>10, <1>11 DEF Archive
<1>12. CASE ~\E a \in Archiver : Archive(a)
  BY <1>3, <1>12 DEF Next, CleanTmp, vars, archiveVars, taskVars, tarVars
<1>. QED
  BY <1>11, <1>12

\* A file leaves the spool only when it is kept.
LEMMA NothingLostStep ==
  ASSUME IInv, [Next]_vars
  PROVE  NothingLost'
<1>. SUFFICES ASSUME NEW f \in received', f \notin damaged', ~Archived(f)'
              PROVE  InSpool(f)'
  BY DEF NothingLost
<1>. USE DEF IInv, TypeOK
<1>1. f \in File /\ ~Kept(f)
  BY SpoolTypeStep, KeptStays DEF SpoolTypeOK, Kept
<1>2. CASE f \in received
  <2>1. InSpool(f)
    BY <1>1, <1>2 DEF NothingLost, Kept
  <2>. PICK d \in Dir : In(d, f)
    BY <2>1 DEF InSpool
  <2>2. CASE d # "incoming"
    <3>. <<d, f>> \in Path /\ Present(<<d, f>>)
      BY <1>1, <2>2 DEF Path, Dir, Present
    <3>. Present(<<d, f>>)'
      BY PresentStays DEF Kept
    <3>. QED
      BY DEF Present, InSpool
  <2>3. CASE d = "incoming"
    <3>1. CASE UNCHANGED place
      BY <2>1, <3>1 DEF InSpool, In
    <3>2. ASSUME NEW g \in File, Write(g) PROVE InSpool(f)'
      BY <1>1, <2>3, <3>2 DEF Write, InSpool, In, SpoolTypeOK, Dir, Absent
    <3>3. ASSUME NEW g \in File, SaveFile(g) PROVE InSpool(f)'
      BY <1>1, <2>3, <3>3 DEF SaveFile, MoveTo, InSpool, In, SpoolTypeOK, Dir
    <3>4. ASSUME NEW path \in Path, RemoveFrom(path[1], path[2]) PROVE InSpool(f)'
      BY <1>1, <2>3, <3>4 DEF RemoveFrom, Path, InSpool, In, SpoolTypeOK, Dir
    <3>5. ASSUME NEW p \in Puller, WriteReport(p) PROVE \E g \in File : Write(g)
      BY <3>5 DEF WriteReport, OpenFile, File
    <3>6. ASSUME NEW a \in Archiver, Archive(a), ~UNCHANGED place
          PROVE  \E path \in Path : RemoveFrom(path[1], path[2])
      BY <3>6 DEF Archive, ArchiveStart, ListPaths, StatPaths, PickDate, MakeTmpDir, Untar, Tar,
         RenameArchive, UnlinkPath, RemoveTmpDir, KillArchive, ArchiveDie, spoolVars, ArchiveTypeOK
    <3>. QED
      BY <3>1, <3>2, <3>3, <3>4, <3>5, <3>6
      DEF Next, Pull, Change, Store, UploadFile, CleanTmp, vars, spoolVars
  <2>. QED
    BY <2>2, <2>3
<1>3. CASE f \notin received
  <2>1. ASSUME NEW g \in File, Write(g) PROVE InSpool(f)'
    BY <1>3, <2>1 DEF Write, InSpool, In, SpoolTypeOK, Dir, SpoolAssumption, Absent
  <2>2. \E g \in File : Write(g)
    BY <1>3 DEF Next, Pull, PullQuietly, Change, Store, UploadFile, SaveFile, WriteReport, OpenFile,
       CleanTmp, vars, spoolVars, File, Archive, ArchiveStart, ListPaths, StatPaths, PickDate,
       MakeTmpDir, Untar, Tar, RenameArchive, UnlinkPath, RemoveTmpDir, KillArchive, ArchiveDie
  <2>. QED
    BY <2>1, <2>2
<1>. QED
  BY <1>2, <1>3

\* Every file that was ever received is in the spool, in an archive, or was
\* left out by a failing tar (pyfaf/actions/archive_reports.py, _tar_xz).
THEOREM NothingLostAlways == Spec => []NothingLost
<1>1. Init => IInv
  BY DEF Init, SpoolInit, PullInit, ArchiveInit, IInv, TypeOK, SpoolTypeOK, PullTypeOK,
         ArchiveTypeOK, AtDay, Dir, Part, Inside, Owned, ListedFit, PathsListed, Fresh, Merged,
         Written, Unlinkable, NothingLost
<1>2. IInv /\ [Next]_vars => IInv'
  <2>. SUFFICES ASSUME IInv, [Next]_vars PROVE IInv'
    OBVIOUS
  <2>1. TypeOK'
    BY SpoolTypeStep, PullTypeStep, ArchiveTypeStep, AtDayStep DEF IInv, TypeOK
  <2>. QED
    BY <2>1, OwnedStep, ListsStep, InsideStep, NothingLostStep DEF IInv
<1>3. IInv => NothingLost
  BY DEF IInv
<1>. QED
  BY <1>1, <1>2, <1>3, PTL DEF Spec

-----------------------------------------------------------------------------
(* What is known was written.  Known reports come from pull.pickle or from *)
(* a download of this run, so the claim is about every process's memory,   *)
(* and about the report that it has written and will remember next.        *)

Has(r) == r \in whole \/ \E u \in Uuid \cap whole : says[u] = r

KInv == /\ TypeOK
        /\ \A u \in Uuid \cap whole : says[u] # Nothing
        /\ \A r \in knownFile : Has(r)
        /\ \A p \in Puller : \A r \in full[p] \cup known[p] : Has(r)
        /\ \A p \in Puller : \A r \in Report : pullPc[p] = "remember" /\ Current(p, r) => Has(r)

\* A file that was written to its end stays what it is: its name is not given
\* again.
LEMMA HasStays ==
  ASSUME TypeOK, \A u \in Uuid \cap whole : says[u] # Nothing, [Next]_vars
  PROVE  /\ \A u \in Uuid \cap whole' : says'[u] # Nothing
         /\ \A r \in Report : Has(r) => Has(r)'
<1>. \A r \in Report : r # Nothing
  BY SpoolAssumption DEF Nothing
<1>1. CASE UNCHANGED <<says, whole>>
  BY <1>1 DEF Has
<1>2. ASSUME NEW p \in Puller, WriteReport(p)
      PROVE  /\ \A u \in Uuid \cap whole' : says'[u] # Nothing
             /\ \A r \in Report : Has(r) => Has(r)'
  <2>. PICK s \in newReports[p], f \in Report \cup Uuid :
         OpenFile(s, f) /\ (whole' = whole \cup {f} \/ UNCHANGED whole)
    BY <1>2 DEF WriteReport
  <2>. s \in Report
    BY DEF TypeOK, PullTypeOK
  <2>. Uuid \cap Report = {}
    BY SpoolAssumption
  <2>. whole \subseteq whole' /\ whole' \subseteq whole \cup {f}
    OBVIOUS
  <2>1. CASE f = s /\ UNCHANGED says
    BY <2>1 DEF Has
  <2>2. CASE f \in Uuid /\ says[f] = Nothing /\ says' = [says EXCEPT ![f] = s]
    <3>. f \notin whole
      BY <2>2
    <3>. \A u \in Uuid : says'[u] = IF u = f THEN s ELSE says[u]
      BY <2>2 DEF TypeOK, SpoolTypeOK
    <3>. QED
      BY DEF Has
  <2>. QED
    BY <2>1, <2>2 DEF OpenFile
<1>3. ASSUME NEW f \in File, UploadFile(f) \/ SaveFile(f) PROVE UNCHANGED says
  BY <1>3 DEF UploadFile, SaveFile
<1>4. ASSUME NEW a \in Archiver, Archive(a) PROVE UNCHANGED <<says, received>>
  BY <1>4 DEF Archive, ArchiveStart, ListPaths, StatPaths, PickDate, MakeTmpDir, Untar, Tar,
     RenameArchive, UnlinkPath, RemoveTmpDir, KillArchive, ArchiveDie, spoolVars
<1>5. ASSUME NEW p \in Puller, PullQuietly(p) PROVE UNCHANGED whole
  BY <1>5 DEF PullQuietly, PullStart, ListReports, GetReport, RememberReport, Interrupt, SaveKnown,
     KillPull, pullHistory
<1>. QED
  BY <1>1, <1>2, <1>3, <1>4, <1>5
  DEF Next, Pull, Change, Publish, Withdraw, Store, CleanTmp, vars, spoolVars, pullVars, pullHistory

\* What is taken for known was written, in the file and in memory.
LEMMA KnownStep ==
  ASSUME KInv, [Next]_vars
  PROVE  KInv'
<1>. USE DEF KInv, pullHistory
<1>0. TypeOK'
  BY SpoolTypeStep, PullTypeStep, ArchiveTypeStep, AtDayStep DEF TypeOK
<1>. knownFile \subseteq Report /\ \A p \in Puller : full[p] \cup known[p] \subseteq Report
  BY DEF TypeOK, PullTypeOK
<1>1. /\ \A r \in Report : Has(r) => Has(r)'
      /\ \A u \in Uuid \cap whole' : says'[u] # Nothing
  BY HasStays
<1>2. CASE UNCHANGED <<knownFile, full, known, pullPc, newReports>>
  BY <1>0, <1>1, <1>2 DEF Current
<1>. DEFINE Grown == /\ knownFile' \subseteq Report /\ \A r \in knownFile' : Has(r)'
                     /\ \A q \in Puller : \A r \in full'[q] \cup known'[q] : Has(r)'
            Still(q) == pullPc'[q] = pullPc[q] /\ newReports'[q] = newReports[q]
<1>3. ASSUME Grown, \A q \in Puller : pullPc'[q] = "remember" => Still(q)
      PROVE  KInv'
  BY <1>0, <1>1, <1>3 DEF Current
<1>4. ASSUME NEW p \in Puller, NEW m \in Master, PullStart(p, m) PROVE KInv'
  <2>1. knownFile' = knownFile
        /\ \A q \in Puller : full'[q] \subseteq full[q] \cup knownFile
                             /\ known'[q] \subseteq known[q] \cup knownFile
    BY <1>4 DEF PullStart, TypeOK, PullTypeOK
  <2>2. Grown
    BY <1>1, <2>1
  <2>3. \A q \in Puller : pullPc'[q] = "remember" => Still(q)
    BY <1>4 DEF PullStart, PullGoto, TypeOK, PullTypeOK
  <2>. QED
    BY <1>3, <2>2, <2>3
<1>5. ASSUME NEW p \in Puller, ListReports(p) PROVE KInv'
  <2>1. knownFile' = knownFile /\ full' = full
        /\ \A q \in Puller : known'[q] \subseteq known[q]
    BY <1>5 DEF ListReports, StillKnown, TypeOK, PullTypeOK
  <2>2. Grown
    BY <1>1, <2>1
  <2>3. \A q \in Puller : pullPc'[q] = "remember" => Still(q)
    BY <1>5 DEF ListReports, PullGoto, TypeOK, PullTypeOK
  <2>. QED
    BY <1>3, <2>2, <2>3
<1>6. ASSUME NEW p \in Puller, GetReport(p) \/ Interrupt(p) PROVE KInv'
  <2>1. knownFile' = knownFile /\ full' = full /\ known' = known
    BY <1>6 DEF GetReport, Interrupt
  <2>2. Grown
    BY <1>1, <2>1
  <2>3. \A q \in Puller : pullPc'[q] = "remember" => Still(q)
    BY <1>6 DEF GetReport, Interrupt, NextReport, PullGoto, TypeOK, PullTypeOK
  <2>. QED
    BY <1>3, <2>2, <2>3
<1>7. ASSUME NEW p \in Puller, RememberReport(p) PROVE KInv'
  <2>. PICK r \in newReports[p] :
         Current(p, r) /\ known' = [known EXCEPT ![p] = known[p] \cup {r}] /\ NextReport(p, r)
    BY <1>7 DEF RememberReport
  <2>1. knownFile' = knownFile /\ full' = full /\ r \in Report /\ Has(r)
    BY <1>7 DEF RememberReport, TypeOK, PullTypeOK
  <2>2. Grown
    <3>. \A q \in Puller : known'[q] \subseteq known[q] \cup {r}
      BY DEF TypeOK, PullTypeOK
    <3>. QED
      BY <1>1, <2>1
  <2>3. \A q \in Puller : pullPc'[q] = "remember" => Still(q)
    BY DEF NextReport, PullGoto, TypeOK, PullTypeOK
  <2>. QED
    BY <1>3, <2>2, <2>3
<1>8. ASSUME NEW p \in Puller, WriteReport(p) PROVE KInv'
  <2>. PICK r \in newReports[p], f \in Report \cup Uuid :
         /\ Current(p, r) /\ OpenFile(r, f)
         /\ \/ whole' = whole \cup {f}
            \/ pullPc' = [pullPc EXCEPT ![p] = "cut"]
    BY <1>8 DEF WriteReport, PullGoto
  <2>1. /\ UNCHANGED <<knownFile, full, known, newReports>>
        /\ \A q \in Puller \ {p} : pullPc'[q] = pullPc[q]
    BY <1>8 DEF WriteReport, PullGoto, TypeOK, PullTypeOK
  <2>2. r \in Report
    BY DEF TypeOK, PullTypeOK
  <2>3. ASSUME NEW s \in Report, pullPc'[p] = "remember", Current(p, s) PROVE Has(s)'
    <3>1. s = r
      BY <2>2, <2>3, SpoolAssumption DEF Current
    <3>2. whole' = whole \cup {f}
      BY <2>3 DEF TypeOK, PullTypeOK
    <3>3. f = r \/ (f \in Uuid /\ says'[f] = r)
      BY DEF OpenFile, TypeOK, SpoolTypeOK
    <3>. QED
      BY <3>1, <3>2, <3>3 DEF Has
  <2>4. \A q \in Puller : \A s \in Report : pullPc'[q] = "remember" /\ Current(q, s)' => Has(s)'
    BY <1>1, <2>1, <2>3 DEF Current
  <2>. QED
    BY <1>0, <1>1, <2>1, <2>4
<1>9. ASSUME NEW p \in Puller, PullEnd(p)
      PROVE  \A q \in Puller : /\ full'[q] \subseteq full[q] /\ known'[q] \subseteq known[q]
                               /\ pullPc'[q] = "remember" => Still(q)
  BY <1>9 DEF PullEnd, PullGoto, TypeOK, PullTypeOK
<1>10. ASSUME NEW p \in Puller, SaveKnown(p) \/ KillPull(p) PROVE KInv'
  <2>1. PullEnd(p) /\ knownFile' \subseteq knownFile \cup full[p] \cup known[p]
    BY <1>10 DEF SaveKnown, KillPull, Pickled
  <2>2. Grown
    BY <1>1, <1>9, <2>1
  <2>. QED
    BY <1>3, <1>9, <2>1, <2>2
<1>. QED
  BY <1>2, <1>4, <1>5, <1>6, <1>7, <1>8, <1>10
  DEF Next, Pull, PullQuietly, Change, Publish, Withdraw, vars, pullVars, pullerVars

\* A report that pull-reports takes for known was written into incoming
\* (pyfaf/actions/pull_reports.py, run).
THEOREM KnownIsKeptAlways == Spec => []KnownIsKept
<1>1. Init => KInv
  BY DEF Init, SpoolInit, PullInit, ArchiveInit, KInv, TypeOK, SpoolTypeOK, PullTypeOK,
         ArchiveTypeOK, AtDay, Dir, Part, Inside
<1>2. KInv /\ [Next]_vars => KInv'
  BY KnownStep
<1>3. KInv => KnownIsKept
  BY DEF KInv, KnownIsKept, Has
<1>. QED
  BY <1>1, <1>2, <1>3, PTL DEF Spec
-----------------------------------------------------------------------------
(* A second download needs a mishap.  For each report the downloads that   *)
(* were made, those that running processes still ask for, and one more if  *)
(* it is in nobody's memory, are together at most one more than what came  *)
(* in the way: the mishaps, and the exceptions with the report in hand.    *)

\* What a process holds in memory of its own master and of the others, and in
\* hand.
Holds(p, r) ==
  InHand(p, r) \/ IF MasterOf[r] = master[p] THEN r \in known[p] ELSE r \in full[p]

\* A process that may still download a report.
Asks(p, r) ==
  \/ pullPc[p] = "list" /\ MasterOf[r] = master[p] /\ r \notin known[p]
  \/ pullPc[p] \in Pulling /\ r \in newReports[p] /\ ~InHand(p, r)

\* A process that will leave it out of pull.pickle, even so.
Lacks(p, r) == pullPc[p] # "idle" /\ ~Asks(p, r) /\ ~Holds(p, r)

Asking(r) == {p \in Puller : Asks(p, r)}

\* It may be missing from pull.pickle once all have ended.
Missed(r) ==
  \/ \E p \in Puller : Lacks(p, r)
  \/ r \notin knownFile /\ \A p \in Puller : pullPc[p] = "idle"

\* It is listed, or may yet be.
Listable(r) == r \in available \/ pulls[r] = 0

Owed(r) == pulls[r] + Cardinality(Asking(r)) + (IF Missed(r) THEN 1 ELSE 0)

\* What came in the way of remembering it.
Excused(r) == pullMishaps + dropped[r]

\* What is in memory or in hand was downloaded; new reports are of the own master.
Pulled ==
  /\ \A r \in knownFile : pulls[r] > 0
  /\ \A p \in Puller : \A r \in full[p] \cup known[p] : pulls[r] > 0
  /\ \A p \in Puller : newReports[p] \subseteq Own(master[p])
  /\ \A p \in Puller : pullPc[p] \notin Pulling => newReports[p] = {}
  /\ \A p \in Puller, r \in Report : InHand(p, r) => pulls[r] > 0

Paid ==
  \A r \in Report :
    /\ IsFiniteSet(Asking(r))
    /\ pulls[r] <= 1 + Excused(r)
    /\ Listable(r) => Owed(r) <= 1 + Excused(r)

MInv == TypeOK /\ Pulled /\ Paid

\* A step of one process, seen by the others.
Aside(p) ==
  \A q \in Puller \ {p} : UNCHANGED <<pullPc[q], master[q], full[q], known[q], newReports[q]>>

\* A process changes its own locals only (pull_reports.py, run).
LEMMA OthersAside ==
  ASSUME TypeOK, NEW p \in Puller, PullQuietly(p) \/ WriteReport(p)
  PROVE  Aside(p)
<1>. USE DEF TypeOK, PullTypeOK, Aside, PullGoto
<1>1. ASSUME NEW m \in Master, PullStart(p, m) PROVE Aside(p)
  BY <1>1 DEF PullStart
<1>2. CASE ListReports(p)
  BY <1>2 DEF ListReports
<1>3. CASE GetReport(p) \/ RememberReport(p) \/ WriteReport(p)
  BY <1>3 DEF GetReport, RememberReport, WriteReport, NextReport
<1>4. CASE Interrupt(p)
  BY <1>4 DEF Interrupt
<1>5. CASE SaveKnown(p) \/ KillPull(p)
  BY <1>5 DEF SaveKnown, KillPull, PullEnd
<1>. QED
  BY <1>1, <1>2, <1>3, <1>4, <1>5 DEF PullQuietly

\* So at most one process changes what it asks for.
LEMMA AskingChanges ==
  ASSUME NEW p \in Puller, Aside(p), NEW r \in Report, IsFiniteSet(Asking(r))
  PROVE  /\ IsFiniteSet(Asking(r)') /\ Cardinality(Asking(r)) \in Nat /\ Cardinality(Asking(r)') \in Nat
         /\ (Asks(p, r)' <=> Asks(p, r)) => Cardinality(Asking(r)') = Cardinality(Asking(r))
         /\ Asks(p, r)' /\ ~Asks(p, r) => Cardinality(Asking(r)') = Cardinality(Asking(r)) + 1
         /\ ~Asks(p, r)' /\ Asks(p, r) => Cardinality(Asking(r)') = Cardinality(Asking(r)) - 1
<1>1. ASSUME NEW q \in Puller \ {p} PROVE Asks(q, r)' <=> Asks(q, r)
  BY DEF Aside, Asks, InHand, Current
<1>2. CASE Asks(p, r)' <=> Asks(p, r)
  <2>. Asking(r)' = Asking(r)
    BY <1>1, <1>2 DEF Asking
  <2>. QED
    BY <1>2, FS_CardinalityType
<1>3. CASE Asks(p, r)' /\ ~Asks(p, r)
  <2>. Asking(r)' = Asking(r) \cup {p} /\ p \notin Asking(r)
    BY <1>1, <1>3 DEF Asking
  <2>. QED
    BY <1>3, FS_AddElement, FS_CardinalityType
<1>4. CASE ~Asks(p, r)' /\ Asks(p, r)
  <2>. Asking(r)' = Asking(r) \ {p} /\ p \in Asking(r)
    BY <1>1, <1>4 DEF Asking
  <2>. QED
    BY <1>4, FS_RemoveElement, FS_CardinalityType
<1>. QED
  BY <1>2, <1>3, <1>4

\* What the others lack does not change either.
LEMMA OthersLack ==
  ASSUME NEW p \in Puller, Aside(p), NEW r \in Report
  PROVE  \A q \in Puller \ {p} : /\ Lacks(q, r)' <=> Lacks(q, r)
                                /\ pullPc'[q] = pullPc[q]
  BY DEF Aside, Lacks, Asks, Holds, InHand, Current

\* What is owed for a report, when a running process goes on.
LEMMA OwedGoesOn ==
  ASSUME TypeOK, TypeOK', NEW p \in Puller, Aside(p), NEW r \in Report, IsFiniteSet(Asking(r)),
         pullPc[p] # "idle", pullPc'[p] # "idle"
  PROVE  /\ (Asks(p, r)' => Asks(p, r)) /\ (Lacks(p, r)' => Lacks(p, r)) /\ pulls'[r] = pulls[r]
              => Owed(r)' <= Owed(r)
         /\ Asks(p, r) /\ ~Asks(p, r)' /\ pulls'[r] = pulls[r] => Owed(r)' <= Owed(r)
         /\ Asks(p, r) /\ ~Asks(p, r)' /\ ~Lacks(p, r)' /\ pulls'[r] = pulls[r] + 1
              => Owed(r)' <= Owed(r)
         /\ (Asks(p, r)' => Asks(p, r)) /\ pulls'[r] = pulls[r] => Owed(r)' <= Owed(r) + 1
<1>1. (Lacks(p, r)' => Lacks(p, r)) => (Missed(r)' => Missed(r))
  BY OthersLack DEF Missed
<1>2. pulls[r] \in Nat
  BY DEF TypeOK, PullTypeOK
<1>. DEFINE n == Cardinality(Asking(r))
<1>3. /\ n \in Nat /\ n' \in Nat /\ ((Asks(p, r)' <=> Asks(p, r)) => n' = n)
      /\ (~Asks(p, r)' /\ Asks(p, r) => n' = n - 1)
  BY AskingChanges
<1>4. /\ Owed(r) = pulls[r] + n + (IF Missed(r) THEN 1 ELSE 0)
      /\ Owed(r)' = pulls'[r] + n' + (IF Missed(r)' THEN 1 ELSE 0)
  BY DEF Owed
<1>. HIDE DEF n
<1>. QED
  BY <1>1, <1>2, <1>3, <1>4

\* When a process starts, beside another or alone.
LEMMA OwedStart ==
  ASSUME MInv, TypeOK', NEW p \in Puller, NEW m \in Master, PullStart(p, m), NEW r \in Report
  PROVE  /\ Owed(r)' <= Owed(r) + 1
         /\ (\A q \in Puller : pullPc[q] = "idle") => Owed(r)' <= Owed(r)
<1>. USE DEF MInv, pullHistory, Pulling, InHandPc, InHand
<1>1. Aside(p) /\ IsFiniteSet(Asking(r)) /\ pulls[r] \in Nat /\ pulls' = pulls
  BY OthersAside DEF PullQuietly, Paid, TypeOK, PullTypeOK, PullStart
<1>2. /\ pullPc[p] = "idle" /\ pullPc'[p] = "list" /\ master'[p] = m /\ knownFile' = knownFile
      /\ full'[p] = knownFile /\ known'[p] = knownFile \cap Own(m)
  BY DEF PullStart, PullGoto, TypeOK, PullTypeOK
<1>3. ~Asks(p, r) /\ ~Lacks(p, r)
  BY <1>2 DEF Asks, Lacks
<1>4. Asks(p, r)' \/ Lacks(p, r)' <=> r \notin knownFile
  BY <1>2 DEF Asks, Lacks, Holds, Own
<1>5. ~(Asks(p, r)' /\ Lacks(p, r)')
  BY DEF Lacks
<1>6. Missed(r)' => Missed(r) \/ Lacks(p, r)'
  BY <1>1, <1>2, OthersLack DEF Missed
<1>7. ASSUME \A q \in Puller : pullPc[q] = "idle" PROVE Missed(r) <=> r \notin knownFile
  BY <1>7 DEF Missed, Lacks
<1>8. ASSUME \A q \in Puller : pullPc[q] = "idle" PROVE Missed(r)' <=> Lacks(p, r)'
  BY <1>1, <1>2, <1>8, OthersLack DEF Missed, Lacks
<1>. DEFINE n == Cardinality(Asking(r))
<1>9. n \in Nat /\ n' = IF Asks(p, r)' THEN n + 1 ELSE n
  BY <1>1, <1>3, AskingChanges
<1>10. /\ Owed(r) = pulls[r] + n + (IF Missed(r) THEN 1 ELSE 0)
       /\ Owed(r)' = pulls[r] + n' + (IF Missed(r)' THEN 1 ELSE 0)
  BY <1>1 DEF Owed
<1>. HIDE DEF n
<1>. QED
  BY <1>1, <1>4, <1>5, <1>6, <1>7, <1>8, <1>9, <1>10

\* When a process ends: what it has saved, the others can but take back.
LEMMA OwedEnd ==
  ASSUME MInv, TypeOK', NEW p \in Puller, SaveKnown(p) \/ KillPull(p), NEW r \in Report
  PROVE  /\ Owed(r)' <= Owed(r) + 1
         /\ SaveKnown(p) => Owed(r)' <= Owed(r)
<1>. USE DEF MInv, pullHistory, Pulling, InHandPc, InHand
<1>1. Aside(p) /\ IsFiniteSet(Asking(r)) /\ pulls[r] \in Nat /\ pulls' = pulls
  BY OthersAside DEF PullQuietly, Paid, TypeOK, PullTypeOK, SaveKnown, KillPull
<1>2. pullPc[p] # "idle" /\ pullPc'[p] = "idle"
  BY DEF SaveKnown, KillPull, PullEnd, PullGoto, TypeOK, PullTypeOK
<1>3. ~Asks(p, r)' /\ ~Lacks(p, r)'
  BY <1>2 DEF Asks, Lacks
<1>4. ASSUME SaveKnown(p) PROVE Missed(r)' => Missed(r)
  <2>1. ~Asks(p, r)
    BY <1>4 DEF SaveKnown, Asks
  <2>2. r \notin knownFile' => ~Holds(p, r)
    BY <1>4 DEF SaveKnown, Pickled, Holds, Own
  <2>. QED
    BY <1>1, <1>2, <1>3, <2>1, <2>2, OthersLack DEF Missed, Lacks
<1>. DEFINE n == Cardinality(Asking(r))
<1>5. n \in Nat /\ n' \in Nat /\ n' <= n
  BY <1>1, <1>3, AskingChanges
<1>6. /\ Owed(r) = pulls[r] + n + (IF Missed(r) THEN 1 ELSE 0)
      /\ Owed(r)' = pulls[r] + n' + (IF Missed(r)' THEN 1 ELSE 0)
  BY <1>1 DEF Owed
<1>. HIDE DEF n
<1>. QED
  BY <1>1, <1>4, <1>5, <1>6

\* What is known comes from the file of the known or from a download.
LEMMA PulledStep ==
  ASSUME MInv, [Next]_vars
  PROVE  Pulled'
<1>. USE DEF MInv, TypeOK, PullTypeOK, PullGoto, pullHistory, Pulling, InHandPc
<1>1. \A r \in Report : pulls[r] > 0 => pulls'[r] > 0
  <2>1. ASSUME NEW p \in Puller, GetReport(p) PROVE \A r \in Report : pulls[r] > 0 => pulls'[r] > 0
    <3>. PICK s \in newReports[p] : UNCHANGED pulls \/ pulls' = [pulls EXCEPT ![s] = pulls[s] + 1]
      BY <2>1 DEF GetReport
    <3>. s \in Report
      OBVIOUS
    <3>. QED
      OBVIOUS
  <2>. QED
    BY <2>1 DEF Next, Pull, PullQuietly, Change, PullStart, ListReports, RememberReport, WriteReport,
       Interrupt, SaveKnown, KillPull, Publish, Withdraw, vars, pullVars
<1>. knownFile \subseteq Report /\ \A p \in Puller : full[p] \cup known[p] \subseteq Report
  OBVIOUS
<1>2. CASE UNCHANGED <<knownFile, pullerVars>>
  BY <1>1, <1>2 DEF Pulled, pullerVars, InHand, Current
<1>11. ASSUME NEW p \in Puller, pullPc'[p] \notin InHandPc,
              \A q \in Puller \ {p} : pullPc'[q] = pullPc[q] /\ newReports'[q] = newReports[q]
       PROVE  \A q \in Puller, r \in Report : InHand(q, r)' => pulls'[r] > 0
  BY <1>1, <1>11 DEF Pulled, InHand, Current
<1>3. ASSUME NEW p \in Puller, NEW m \in Master, PullStart(p, m) PROVE Pulled'
  <2>1. /\ knownFile' = knownFile /\ newReports' = newReports /\ pulls' = pulls
        /\ \A q \in Puller : full'[q] \subseteq full[q] \cup knownFile
                             /\ known'[q] \subseteq known[q] \cup knownFile
        /\ \A q \in Puller : q # p => master'[q] = master[q] /\ pullPc'[q] = pullPc[q]
    BY <1>3 DEF PullStart
  <2>2. newReports[p] = {} /\ pullPc'[p] = "list"
    BY <1>3 DEF PullStart, Pulled
  <2>. QED
    BY <1>11, <2>1, <2>2 DEF Pulled
<1>4. ASSUME NEW p \in Puller, ListReports(p) PROVE Pulled'
  <2>. PICK reports \in {available \cap Own(master[p]), {}} :
         /\ known' = [known EXCEPT ![p] = known[p] \cap reports]
         /\ newReports' = [newReports EXCEPT ![p] = reports \ known[p]]
         /\ pullPc' = [pullPc EXCEPT ![p] = IF reports \ known[p] = {} THEN "save" ELSE "get"]
    BY <1>4 DEF ListReports, StillKnown, NewReports
  <2>1. knownFile' = knownFile /\ full' = full /\ pulls' = pulls /\ master' = master
    BY <1>4 DEF ListReports
  <2>2. \A q \in Puller : /\ known'[q] \subseteq known[q]
                          /\ newReports'[q] \subseteq newReports[q] \cup Own(master[q])
                          /\ pullPc'[q] \notin Pulling => newReports'[q] = {}
    BY DEF Pulled
  <2>3. pullPc'[p] \notin InHandPc
        /\ \A q \in Puller \ {p} : pullPc'[q] = pullPc[q] /\ newReports'[q] = newReports[q]
    OBVIOUS
  <2>. QED
    BY <1>11, <2>1, <2>2, <2>3 DEF Pulled
<1>5. ASSUME NEW p \in Puller, GetReport(p) PROVE Pulled'
  <2>. PICK r \in newReports[p] :
       /\ Current(p, r)
       /\ \/ NextReport(p, r) /\ UNCHANGED pulls
          \/ /\ pulls' = [pulls EXCEPT ![r] = pulls[r] + 1]
             /\ pullPc' = [pullPc EXCEPT ![p] = "write"]
             /\ UNCHANGED newReports
    BY <1>5 DEF GetReport
  <2>1. UNCHANGED <<knownFile, full, master, known>> /\ r \in Report /\ pullPc[p] = "get"
    BY <1>5 DEF GetReport
  <2>2. CASE NextReport(p, r)
    <3>1. \A q \in Puller : /\ newReports'[q] \subseteq newReports[q]
                            /\ pullPc'[q] \notin Pulling => newReports'[q] = {}
      BY <2>1, <2>2 DEF Pulled, NextReport
    <3>2. pullPc'[p] \notin InHandPc
          /\ \A q \in Puller \ {p} : pullPc'[q] = pullPc[q] /\ newReports'[q] = newReports[q]
      BY <2>2 DEF NextReport
    <3>. QED
      BY <1>1, <1>11, <2>1, <3>1, <3>2 DEF Pulled
  <2>3. CASE /\ pulls' = [pulls EXCEPT ![r] = pulls[r] + 1]
             /\ pullPc' = [pullPc EXCEPT ![p] = "write"]
             /\ UNCHANGED newReports
    <3>1. \A q \in Puller : pullPc'[q] \notin Pulling => newReports'[q] = {}
      BY <2>1, <2>3 DEF Pulled
    <3>2. ASSUME NEW s \in Report, Current(p, s)' PROVE pulls'[s] > 0
      <4>. s = r
        BY <2>1, <2>3, <3>2, SpoolAssumption DEF Current
      <4>. QED
        BY <2>1, <2>3
    <3>3. \A q \in Puller, s \in Report : InHand(q, s)' => pulls'[s] > 0
      BY <1>1, <2>3, <3>2 DEF Pulled, InHand, Current
    <3>. QED
      BY <1>1, <2>1, <2>3, <3>1, <3>3 DEF Pulled
  <2>. QED
    BY <2>2, <2>3
<1>12. ASSUME NEW p \in Puller, RememberReport(p) PROVE Pulled'
  <2>. PICK r \in newReports[p] :
       Current(p, r) /\ known' = [known EXCEPT ![p] = known[p] \cup {r}] /\ NextReport(p, r)
    BY <1>12 DEF RememberReport
  <2>1. UNCHANGED <<knownFile, full, master, pulls>> /\ r \in Report /\ pullPc[p] = "remember"
    BY <1>12 DEF RememberReport
  <2>2. \A q \in Puller : /\ newReports'[q] \subseteq newReports[q]
                          /\ pullPc'[q] \notin Pulling => newReports'[q] = {}
    BY <2>1 DEF Pulled, NextReport
  <2>3. pullPc'[p] \notin InHandPc
        /\ \A q \in Puller \ {p} : pullPc'[q] = pullPc[q] /\ newReports'[q] = newReports[q]
    BY DEF NextReport
  <2>4. pulls[r] > 0
    BY <2>1 DEF Pulled, InHand
  <2>5. \A q \in Puller : \A s \in known'[q] : s \in known[q] \/ pulls'[s] > 0
    BY <2>1, <2>4
  <2>. QED
    BY <1>11, <2>1, <2>2, <2>3, <2>5 DEF Pulled
<1>13. ASSUME NEW p \in Puller, WriteReport(p) PROVE Pulled'
  <2>1. UNCHANGED <<knownFile, full, master, known, newReports, pulls>>
    BY <1>13 DEF WriteReport
  <2>2. \A q \in Puller : /\ pullPc'[q] \in Pulling <=> pullPc[q] \in Pulling
                          /\ pullPc'[q] \in InHandPc <=> pullPc[q] \in InHandPc
    BY <1>13 DEF WriteReport
  <2>. QED
    BY <2>1, <2>2 DEF Pulled, InHand, Current
<1>6. ASSUME NEW p \in Puller, Interrupt(p) PROVE Pulled'
  <2>1. pullPc'[p] \notin InHandPc
        /\ \A q \in Puller \ {p} : pullPc'[q] = pullPc[q] /\ newReports'[q] = newReports[q]
    BY <1>6 DEF Interrupt
  <2>. QED
    BY <1>6, <1>11, <2>1 DEF Interrupt, Pulled
<1>7. ASSUME NEW p \in Puller, PullEnd(p)
      PROVE  \A q \in Puller :
               /\ full'[q] \subseteq full[q] /\ known'[q] \subseteq known[q]
               /\ \/ newReports'[q] = {}
                  \/ newReports'[q] = newReports[q] /\ master'[q] = master[q] /\ pullPc'[q] = pullPc[q]
  BY <1>7 DEF PullEnd
<1>14. ASSUME NEW p \in Puller, PullEnd(p)
       PROVE  \A q \in Puller, r \in Report : InHand(q, r)' => pulls'[r] > 0
  BY <1>11, <1>14 DEF PullEnd
<1>8. ASSUME NEW p \in Puller, SaveKnown(p) PROVE Pulled'
  <2>1. pulls' = pulls /\ knownFile' \subseteq full[p] \cup known[p] /\ PullEnd(p)
    BY <1>8 DEF SaveKnown, Pickled
  <2>. QED
    BY <1>7, <1>14, <2>1 DEF Pulled
<1>9. ASSUME NEW p \in Puller, KillPull(p) PROVE Pulled'
  <2>1. pulls' = pulls /\ knownFile' = knownFile /\ PullEnd(p)
    BY <1>9 DEF KillPull
  <2>. QED
    BY <1>7, <1>14, <2>1 DEF Pulled
<1>. QED
  BY <1>2, <1>3, <1>4, <1>5, <1>6, <1>8, <1>9, <1>12, <1>13
  DEF Next, Pull, PullQuietly, Change, Publish, Withdraw, vars, pullVars

\* A process that has its master's list asks for what is new to it, and knows
\* the rest.
LEMMA OwedList ==
  ASSUME MInv, TypeOK', NEW p \in Puller, ListReports(p), NEW r \in Report, Listable(r)
  PROVE  /\ pullMishaps' = pullMishaps => Owed(r)' <= Owed(r)
         /\ pullMishaps' = pullMishaps + 1 => Owed(r)' <= Owed(r) + 1
<1>. USE DEF MInv, pullHistory, Pulling, InHandPc, InHand
<1>1. /\ Aside(p) /\ IsFiniteSet(Asking(r)) /\ pullPc[p] # "idle" /\ pullPc'[p] # "idle"
      /\ pulls' = pulls /\ pullMishaps \in Nat
  BY OthersAside DEF PullQuietly, Paid, TypeOK, PullTypeOK, ListReports, PullGoto
<1>. PICK reports \in {available \cap Own(master[p]), {}} :
       /\ reports = {} /\ available \cap Own(master[p]) # {} => pullMishaps' = pullMishaps + 1
       /\ known'[p] = known[p] \cap reports
       /\ newReports'[p] = reports \ known[p]
       /\ pullPc'[p] = IF reports \ known[p] = {} THEN "save" ELSE "get"
       /\ master' = master /\ full' = full /\ pullPc[p] = "list"
  BY DEF ListReports, PullMishap, PullGoto, StillKnown, NewReports, TypeOK, PullTypeOK
<1>2. Asks(p, r)' <=> r \in reports \ known[p]
  BY DEF Asks
<1>3. Asks(p, r) <=> MasterOf[r] = master[p] /\ r \notin known[p]
  BY DEF Asks
<1>4. CASE reports = available \cap Own(master[p])
  <2>. SUFFICES Owed(r)' <= Owed(r)
    <3>1. Owed(r) \in Int /\ Owed(r)' \in Int
      <4>. Cardinality(Asking(r)) \in Nat /\ Cardinality(Asking(r)') \in Nat
        BY <1>1, AskingChanges
      <4>. pulls[r] \in Nat
        BY DEF TypeOK, PullTypeOK
      <4>. QED
        BY <1>1 DEF Owed
    <3>. QED
      BY <3>1
  <2>1. CASE Asks(p, r) /\ r \notin available
    BY <1>1, <1>2, <1>4, <2>1, OwedGoesOn
  <2>2. CASE Asks(p, r) /\ r \in available
    <3>. Asks(p, r)'
      BY <1>2, <1>3, <1>4, <2>2 DEF Own
    <3>. ~Lacks(p, r)'
      BY DEF Lacks
    <3>. QED
      BY <1>1, <2>2, OwedGoesOn
  <2>3. CASE ~Asks(p, r)
    <3>1. ~Asks(p, r)'
      BY <1>2, <1>3, <1>4, <2>3 DEF Own
    <3>2. Holds(p, r) => Holds(p, r)'
      <4>1. r \in known[p] => r \in available
        BY DEF Pulled, Listable, TypeOK, PullTypeOK
      <4>. QED
        BY <1>4, <4>1 DEF Holds, Own
    <3>3. Lacks(p, r)' => Lacks(p, r)
      BY <1>1, <2>3, <3>1, <3>2 DEF Lacks
    <3>. QED
      BY <1>1, <3>1, <3>3, OwedGoesOn
  <2>. QED
    BY <2>1, <2>2, <2>3
<1>5. CASE reports = {} /\ available \cap Own(master[p]) # {}
  BY <1>1, <1>2, <1>5, OwedGoesOn
<1>. QED
  BY <1>4, <1>5

\* Of the new reports one is in hand at a time.
LEMMA OneInHand ==
  ASSUME TypeOK, NEW p \in Puller, NEW r \in newReports[p], NEW s \in newReports[p], Current(p, s)
  PROVE  Current(p, r) <=> r = s
  BY SpoolAssumption DEF Current, TypeOK, PullTypeOK

\* A download pays what was asked for, and a failing one leaves it to another
\* time.
LEMMA OwedGet ==
  ASSUME MInv, TypeOK', NEW p \in Puller, GetReport(p), NEW r \in Report
  PROVE  Owed(r)' <= Owed(r)
<1>. USE DEF MInv, Pulling, InHandPc
<1>1. /\ Aside(p) /\ IsFiniteSet(Asking(r)) /\ pullPc[p] = "get"
      /\ UNCHANGED <<known, full, master>>
  BY OthersAside DEF PullQuietly, Paid, GetReport
<1>2. (Asks(p, r) <=> r \in newReports[p]) /\ ~InHand(p, r)
  BY <1>1 DEF Asks, InHand
<1>. PICK s \in newReports[p] :
       /\ Current(p, s)
       /\ \/ NextReport(p, s) /\ UNCHANGED pulls
          \/ /\ pulls' = [pulls EXCEPT ![s] = pulls[s] + 1]
             /\ pullPc' = [pullPc EXCEPT ![p] = "write"]
             /\ UNCHANGED newReports
  BY DEF GetReport, PullGoto
<1>3. CASE NextReport(p, s) /\ UNCHANGED pulls
  <2>1. pullPc'[p] \in {"get", "save"} /\ newReports'[p] = newReports[p] \ {s}
        /\ (newReports[p] \ {s} # {} => pullPc'[p] = "get")
    BY <1>3 DEF NextReport, PullGoto, TypeOK, PullTypeOK
  <2>2. (Asks(p, r)' <=> r \in newReports[p] \ {s}) /\ ~InHand(p, r)'
    BY <2>1 DEF Asks, InHand
  <2>3. CASE r = s
    BY <1>1, <1>2, <1>3, <2>1, <2>2, <2>3, OwedGoesOn
  <2>4. CASE r # s
    <3>1. Asks(p, r)' <=> Asks(p, r)
      BY <1>2, <2>2, <2>4
    <3>2. Lacks(p, r)' => Lacks(p, r)
      BY <1>1, <1>2, <2>2, <3>1 DEF Lacks, Holds
    <3>. QED
      BY <1>1, <1>3, <2>1, <3>1, <3>2, OwedGoesOn
  <2>. QED
    BY <2>3, <2>4
<1>4. CASE /\ pulls' = [pulls EXCEPT ![s] = pulls[s] + 1]
           /\ pullPc' = [pullPc EXCEPT ![p] = "write"]
           /\ UNCHANGED newReports
  <2>1. pullPc'[p] = "write" /\ s \in Report
    BY <1>4 DEF TypeOK, PullTypeOK
  <2>2. \A q \in Report : InHand(p, q)' <=> q = s
    <3>. \A q \in Report : InHand(p, q)' <=> Current(p, q)
      BY <1>4, <2>1 DEF InHand, Current
    <3>. QED
      BY <2>1, OneInHand DEF Current
  <2>3. Asks(p, r)' <=> r \in newReports[p] /\ r # s
    BY <1>4, <2>1, <2>2 DEF Asks
  <2>4. CASE r = s
    <3>. pulls'[r] = pulls[r] + 1
      BY <1>4, <2>4 DEF TypeOK, PullTypeOK
    <3>. ~Lacks(p, r)'
      BY <2>2, <2>4 DEF Lacks, Holds
    <3>. QED
      BY <1>1, <1>2, <2>1, <2>3, <2>4, OwedGoesOn
  <2>5. CASE r # s
    <3>1. (Asks(p, r)' <=> Asks(p, r)) /\ pulls'[r] = pulls[r]
      BY <1>2, <1>4, <2>1, <2>3, <2>5 DEF TypeOK, PullTypeOK
    <3>2. Lacks(p, r)' => Lacks(p, r)
      BY <1>1, <1>2, <2>2, <2>5, <3>1 DEF Lacks, Holds
    <3>. QED
      BY <1>1, <2>1, <3>1, <3>2, OwedGoesOn
  <2>. QED
    BY <2>4, <2>5
<1>. QED
  BY <1>3, <1>4

\* Writing changes nothing of it, and what was in hand is then known.
LEMMA OwedKeep ==
  ASSUME MInv, TypeOK', NEW p \in Puller, WriteReport(p) \/ RememberReport(p), NEW r \in Report
  PROVE  Owed(r)' <= Owed(r)
<1>. USE DEF MInv, Pulling, InHandPc, pullHistory
<1>1. /\ Aside(p) /\ IsFiniteSet(Asking(r)) /\ pullPc[p] \in {"write", "remember"}
      /\ UNCHANGED <<full, master, pulls>>
  BY OthersAside DEF PullQuietly, Paid, WriteReport, RememberReport
<1>2. CASE WriteReport(p)
  <2>1. UNCHANGED <<known, newReports>> /\ pullPc'[p] \in {"remember", "cut"}
    BY <1>2 DEF WriteReport, PullGoto, TypeOK, PullTypeOK
  <2>2. InHand(p, r)' <=> InHand(p, r)
    BY <1>1, <2>1 DEF InHand, Current
  <2>3. Asks(p, r)' <=> Asks(p, r)
    BY <1>1, <2>1, <2>2 DEF Asks
  <2>4. Lacks(p, r)' => Lacks(p, r)
    BY <1>1, <2>1, <2>2, <2>3 DEF Lacks, Holds
  <2>. QED
    BY <1>1, <2>1, <2>3, <2>4, OwedGoesOn
<1>3. CASE RememberReport(p)
  <2>. PICK s \in newReports[p] :
         Current(p, s) /\ known' = [known EXCEPT ![p] = known[p] \cup {s}] /\ NextReport(p, s)
    BY <1>3 DEF RememberReport
  <2>1. /\ pullPc'[p] \in {"get", "save"} /\ newReports'[p] = newReports[p] \ {s}
        /\ (newReports[p] \ {s} # {} => pullPc'[p] = "get")
        /\ known'[p] = known[p] \cup {s}
    BY DEF NextReport, PullGoto, TypeOK, PullTypeOK
  <2>2. s \in Report /\ MasterOf[s] = master[p]
    BY DEF Pulled, Own, TypeOK, PullTypeOK
  <2>3. InHand(p, r) <=> r = s
    <3>. InHand(p, r) <=> Current(p, r)
      BY <1>1 DEF InHand
    <3>. QED
      BY OneInHand DEF Current
  <2>4. ~InHand(p, r)' /\ (Asks(p, r)' <=> r \in newReports[p] /\ r # s)
    BY <2>1 DEF Asks, InHand
  <2>5. Asks(p, r) <=> r \in newReports[p] /\ r # s
    BY <1>1, <2>3 DEF Asks
  <2>6. Holds(p, r) => Holds(p, r)'
    BY <1>1, <2>1, <2>2, <2>3 DEF Holds
  <2>7. Lacks(p, r)' => Lacks(p, r)
    BY <1>1, <2>4, <2>5, <2>6 DEF Lacks
  <2>. QED
    BY <1>1, <2>1, <2>4, <2>5, <2>7, OwedGoesOn
<1>. QED
  BY <1>2, <1>3

\* An exception costs the report in hand one more download, and no other.
LEMMA OwedInterrupt ==
  ASSUME MInv, TypeOK', NEW p \in Puller, Interrupt(p), NEW r \in Report
  PROVE  /\ pullMishaps' = pullMishaps
         /\ \/ dropped'[r] = dropped[r] /\ Owed(r)' <= Owed(r)
            \/ dropped'[r] = dropped[r] + 1 /\ Owed(r)' <= Owed(r) + 1
<1>. USE DEF MInv, Pulling, InHandPc
<1>1. /\ Aside(p) /\ IsFiniteSet(Asking(r)) /\ pullPc[p] \in Pulling /\ pullPc'[p] = "save"
      /\ UNCHANGED <<full, master, known, pulls, pullMishaps>>
      /\ dropped'[r] = IF InHand(p, r) THEN dropped[r] + 1 ELSE dropped[r]
  BY OthersAside DEF PullQuietly, Paid, Interrupt, PullGoto, TypeOK, PullTypeOK
<1>2. ~Asks(p, r)' /\ ~InHand(p, r)'
  BY <1>1 DEF Asks, InHand
<1>3. CASE InHand(p, r)
  BY <1>1, <1>2, <1>3, OwedGoesOn
<1>4. CASE ~InHand(p, r)
  <2>1. ~Asks(p, r) => (Lacks(p, r)' => Lacks(p, r))
    BY <1>1, <1>2, <1>4 DEF Lacks, Holds
  <2>. QED
    BY <1>1, <1>2, <1>4, <2>1, OwedGoesOn
<1>. QED
  BY <1>3, <1>4

\* What is owed grows only with a mishap, or with an exception for the report.
LEMMA OwedStep ==
  ASSUME MInv, TypeOK', [Next]_vars, NEW r \in Report, Listable(r)
  PROVE  /\ IsFiniteSet(Asking(r)')
         /\ \/ Excused(r)' = Excused(r) /\ Owed(r)' <= Owed(r)
            \/ Excused(r)' = Excused(r) + 1 /\ Owed(r)' <= Owed(r) + 1
<1>. USE DEF MInv
<1>. DEFINE Fair == \/ Excused(r)' = Excused(r) /\ Owed(r)' <= Owed(r)
                    \/ Excused(r)' = Excused(r) + 1 /\ Owed(r)' <= Owed(r) + 1
<1>1. IsFiniteSet(Asking(r)) /\ pullMishaps \in Nat /\ dropped[r] \in Nat
  BY DEF Paid, TypeOK, PullTypeOK
<1>2. Owed(r) \in Int
  <2>1. Cardinality(Asking(r)) \in Nat
    BY <1>1, FS_CardinalityType
  <2>. QED
    BY <2>1 DEF Owed, TypeOK, PullTypeOK
<1>3. CASE UNCHANGED <<knownFile, pullerVars, pullMishaps, pullHistory>>
  <2>1. Asking(r)' = Asking(r)
    BY <1>3 DEF Asking, Asks, InHand, Current, pullerVars
  <2>2. Missed(r)' = Missed(r)
    BY <1>3 DEF Missed, Lacks, Asks, Holds, InHand, Current, pullerVars
  <2>. QED
    BY <1>1, <1>2, <1>3, <2>1, <2>2 DEF Owed, Excused, pullHistory
<1>4. ASSUME NEW p \in Puller, PullQuietly(p) \/ WriteReport(p)
      PROVE  IsFiniteSet(Asking(r)') /\ Owed(r)' \in Int
  <2>1. IsFiniteSet(Asking(r)') /\ Cardinality(Asking(r)') \in Nat
    BY <1>1, <1>4, OthersAside, AskingChanges
  <2>. QED
    BY <2>1 DEF Owed, TypeOK, PullTypeOK
<1>5. ASSUME NEW p \in Puller, NEW m \in Master, PullStart(p, m) PROVE Fair
  <2>1. \/ pullMishaps' = pullMishaps /\ \A q \in Puller : pullPc[q] = "idle"
        \/ pullMishaps' = pullMishaps + 1
    BY <1>5 DEF PullStart, PullMishap
  <2>2. dropped' = dropped
    BY <1>5 DEF PullStart, pullHistory
  <2>. QED
    BY <1>1, <1>5, <2>1, <2>2, OwedStart DEF Excused
<1>6. ASSUME NEW p \in Puller, ListReports(p) PROVE Fair
  <2>1. pullMishaps' = pullMishaps \/ pullMishaps' = pullMishaps + 1
    BY <1>6 DEF ListReports, PullMishap
  <2>2. dropped' = dropped
    BY <1>6 DEF ListReports, pullHistory
  <2>. QED
    BY <1>1, <1>6, <2>1, <2>2, OwedList DEF Excused
<1>7. ASSUME NEW p \in Puller, GetReport(p) \/ WriteReport(p) \/ RememberReport(p) PROVE Fair
  <2>1. UNCHANGED <<pullMishaps, dropped>>
    BY <1>7 DEF GetReport, WriteReport, RememberReport, pullHistory
  <2>. QED
    BY <1>7, <2>1, OwedGet, OwedKeep DEF Excused
<1>11. ASSUME NEW p \in Puller, Interrupt(p) PROVE Fair
  BY <1>1, <1>11, OwedInterrupt DEF Excused
<1>8. ASSUME NEW p \in Puller, SaveKnown(p) PROVE Fair
  BY <1>8, OwedEnd DEF SaveKnown, Excused, pullHistory
<1>9. ASSUME NEW p \in Puller, KillPull(p) PROVE Fair
  <2>. pullMishaps' = pullMishaps + 1 /\ dropped' = dropped
    BY <1>9 DEF KillPull, PullMishap, pullHistory
  <2>. QED
    BY <1>1, <1>9, OwedEnd DEF Excused
<1>. HIDE DEF Fair
<1>10. CASE \E p \in Puller : PullQuietly(p) \/ WriteReport(p)
  <2>. IsFiniteSet(Asking(r)') /\ Fair
    BY <1>4, <1>5, <1>6, <1>7, <1>8, <1>9, <1>10, <1>11 DEF PullQuietly
  <2>. QED
    BY DEF Fair
<1>. QED
  BY <1>3, <1>10 DEF Next, Pull, Change, Publish, Withdraw, vars, pullVars

\* So downloads and what is owed stay within what is excused.
LEMMA PaidStep ==
  ASSUME MInv, TypeOK', [Next]_vars
  PROVE  Paid'
<1>. SUFFICES ASSUME NEW r \in Report
              PROVE  /\ IsFiniteSet(Asking(r)')
                     /\ pulls'[r] <= 1 + Excused(r)'
                     /\ Listable(r)' => Owed(r)' <= 1 + Excused(r)'
  BY DEF Paid
<1>. USE DEF MInv, pullHistory
<1>1. /\ IsFiniteSet(Asking(r)) /\ pulls[r] \in Nat /\ pulls'[r] \in Nat
      /\ Excused(r) \in Nat /\ Excused(r)' \in Nat /\ pulls[r] <= 1 + Excused(r)
      /\ (Listable(r) => Owed(r) <= 1 + Excused(r))
  BY DEF Paid, Excused, TypeOK, PullTypeOK
<1>2. Cardinality(Asking(r)) \in Nat /\ Owed(r) \in Int
  BY <1>1, FS_CardinalityType DEF Owed
<1>3. Listable(r)' => Listable(r)
  <2>1. ASSUME NEW p \in Puller, GetReport(p) PROVE available' = available /\ (pulls'[r] = 0 => pulls[r] = 0)
    <3>. PICK s \in newReports[p] : UNCHANGED pulls \/ pulls' = [pulls EXCEPT ![s] = pulls[s] + 1]
      BY <2>1 DEF GetReport
    <3>. s \in Report
      BY DEF TypeOK, PullTypeOK
    <3>. QED
      BY <2>1 DEF GetReport, TypeOK, PullTypeOK
  <2>2. ASSUME NEW s \in Report, Publish(s) \/ Withdraw(s)
        PROVE  pulls' = pulls /\ (r \in available' /\ r \notin available => pulls[r] = 0)
    BY <2>2 DEF Publish, Withdraw
  <2>3. ASSUME NEW p \in Puller, PullQuietly(p) PROVE available' = available /\ (pulls'[r] = 0 => pulls[r] = 0)
    BY <2>1, <2>3 DEF PullQuietly, PullStart, ListReports, RememberReport, Interrupt, SaveKnown, KillPull
  <2>4. ASSUME NEW p \in Puller, WriteReport(p) PROVE UNCHANGED <<available, pulls>>
    BY <2>4 DEF WriteReport
  <2>. QED
    BY <2>2, <2>3, <2>4 DEF Next, Pull, Change, Listable, vars, pullVars
<1>4. ASSUME ~Listable(r) PROVE IsFiniteSet(Asking(r)')
  <2>1. ASSUME NEW p \in Puller, PullQuietly(p) \/ WriteReport(p) PROVE IsFiniteSet(Asking(r)')
    BY <1>1, <2>1, OthersAside, AskingChanges
  <2>2. CASE UNCHANGED pullerVars
    <3>. Asking(r)' = Asking(r)
      BY <2>2 DEF Asking, Asks, InHand, Current, pullerVars
    <3>. QED
      BY <1>1
  <2>. QED
    BY <2>1, <2>2 DEF Next, Pull, Change, Publish, Withdraw, vars, pullVars
<1>5. IsFiniteSet(Asking(r)')
  BY <1>4, OwedStep
<1>6. Excused(r) <= Excused(r)'
  <2>. USE DEF TypeOK, PullTypeOK
  <2>1. ASSUME NEW p \in Puller, Interrupt(p) PROVE pullMishaps' = pullMishaps /\ dropped[r] <= dropped'[r]
    BY <2>1 DEF Interrupt
  <2>2. UNCHANGED <<pullMishaps, dropped>> \/ (PullMishap /\ UNCHANGED dropped)
        \/ \E p \in Puller : Interrupt(p)
    BY DEF Next, Pull, PullQuietly, Change, PullStart, ListReports, GetReport, RememberReport,
       WriteReport, SaveKnown, KillPull, Publish, Withdraw, vars, pullVars
  <2>. QED
    BY <2>1, <2>2 DEF Excused, PullMishap
<1>7. Cardinality(Asking(r)') \in Nat
  BY <1>5, FS_CardinalityType
<1>8. pulls'[r] <= Owed(r)' /\ Owed(r)' \in Int
  BY <1>1, <1>7 DEF Owed
<1>9. Listable(r) => Owed(r)' <= 1 + Excused(r)'
  BY <1>1, <1>2, <1>8, OwedStep
<1>10. pulls'[r] = pulls[r] \/ Listable(r)
  <2>1. ASSUME NEW p \in Puller, GetReport(p) PROVE pulls'[r] = pulls[r] \/ r \in available
    <3>. PICK s \in newReports[p] :
           UNCHANGED pulls \/ (s \in available /\ pulls' = [pulls EXCEPT ![s] = pulls[s] + 1])
      BY <2>1 DEF GetReport
    <3>. QED
      BY DEF TypeOK, PullTypeOK
  <2>2. CASE UNCHANGED pulls
    BY <2>2
  <2>. QED
    BY <2>1, <2>2 DEF Next, Pull, PullQuietly, Change, PullStart, ListReports, RememberReport,
       WriteReport, Interrupt, SaveKnown, KillPull, Publish, Withdraw, Listable, vars, pullVars
<1>. QED
  BY <1>1, <1>3, <1>5, <1>6, <1>8, <1>9, <1>10

\* A report is downloaded again only after a mishap, or an exception that came
\* between its own download and known.add, once for each
\* (pyfaf/actions/pull_reports.py, run).
THEOREM PulledAgainAlways == Spec => []PulledAgainOnlyAfterMishap
<1>1. Init => MInv
  <2>. SUFFICES ASSUME Init PROVE MInv
    OBVIOUS
  <2>1. TypeOK
    BY DEF Init, SpoolInit, PullInit, ArchiveInit, TypeOK, SpoolTypeOK, PullTypeOK,
           ArchiveTypeOK, AtDay, Dir, Part, Inside
  <2>2. Pulled
    BY DEF Init, PullInit, Pulled, InHand, InHandPc
  <2>3. ASSUME NEW r \in Report
        PROVE  IsFiniteSet(Asking(r)) /\ pulls[r] <= 1 + Excused(r) /\ Owed(r) <= 1 + Excused(r)
    <3>1. Asking(r) = {}
      BY DEF Init, PullInit, Asking, Asks, Pulling, InHandPc
    <3>. QED
      BY <3>1, FS_EmptySet DEF Init, PullInit, Owed, Excused
  <2>. QED
    BY <2>1, <2>2, <2>3 DEF MInv, Paid
<1>2. MInv /\ [Next]_vars => MInv'
  <2>. SUFFICES ASSUME MInv, [Next]_vars PROVE MInv'
    OBVIOUS
  <2>1. TypeOK'
    BY SpoolTypeStep, PullTypeStep, ArchiveTypeStep, AtDayStep DEF MInv, TypeOK
  <2>. QED
    BY <2>1, PulledStep, PaidStep DEF MInv
<1>3. MInv => PulledAgainOnlyAfterMishap
  <2>. SUFFICES ASSUME MInv, NEW r \in Report PROVE pulls[r] <= 1 + pullMishaps + dropped[r]
    BY DEF PulledAgainOnlyAfterMishap
  <2>. QED
    BY DEF MInv, Paid, Excused, TypeOK, PullTypeOK
<1>. QED
  BY <1>1, <1>2, <1>3, PTL DEF Spec

-----------------------------------------------------------------------------
(* A day that is done is in its archive.  A file that was downloaded but   *)
(* once has one date for as long as it is in saved or deferred, so that    *)
(* whoever unlinks it has put it into the archive of that day; all that    *)
(* the other processes see of it is that it is gone.                       *)

KeptOn(f, p, d) == f \in archive[<<p, d>>] \cup damaged

\* A process has fetched r and is about to write it.
Writing(p, r) == pullPc[p] = "write" /\ Current(p, r)

Once ==
  /\ \A f \in File \ received : \A d \in Dir : ~In(d, f)
  /\ \A r \in Report : r \in received => pulls[r] > 0
  /\ \A u \in Uuid : u \in received => says[u] # Nothing
  /\ \A p \in Puller, r \in Report : Writing(p, r) =>
       pulls[r] > 0 /\ (r \in received => pulls[r] > 1)
  /\ \A p, q \in Puller, r \in Report : p # q /\ Writing(p, r) /\ Writing(q, r) => pulls[r] > 1

Settled ==
  \A f \in File : ~PulledAgain(f) /\ In("incoming", f) => ~In("saved", f) /\ ~In("deferred", f)

ListedOnce ==
  \A a \in Archiver : \A path \in listed[a] : ~PulledAgain(path[2]) =>
    path[2] \in received /\ ~In("incoming", path[2])

Dated ==
  \A a \in Archiver, d \in Day : \A path \in pathsOf[a][d] : ~PulledAgain(path[2]) =>
    IF Present(path) THEN place[path[1]][path[2]] = d ELSE KeptOn(path[2], part[a], d)

\* What a process leaves of a path it is through with.
Filed(path, p, d) == Kept(path[2]) /\ (~PulledAgain(path[2]) => KeptOn(path[2], p, d))

WrittenDay ==
  \A a \in Archiver : archPc[a] = "rename" =>
    \A files \in tarred[a] : \A path \in pathsOf[a][day[a]] :
      ~PulledAgain(path[2]) => path[2] \in files \cup damaged

LinkedDay ==
  \A a \in Archiver : archPc[a] \in {"unlink", "rmtree"} =>
    /\ unlinkPaths[a] \subseteq pathsOf[a][day[a]]
    /\ \A path \in pathsOf[a][day[a]] : Filed(path, part[a], day[a])

Working == {"date", "mkdir"} \cup Inside

DaysFiled ==
  \A a \in Archiver : archPc[a] \in Working =>
    \A d \in DaysDone(a) : \A path \in pathsOf[a][d] : Filed(path, part[a], d)

DInv == /\ IInv /\ Once /\ Settled /\ ListedOnce /\ Dated /\ WrittenDay /\ LinkedDay /\ DaysFiled

\* What becomes of one file in the directories: it is written anew, stored, or
\* unlinked by a process that had it on its list.
LEMMA PlaceChanges ==
  ASSUME DInv, [Next]_vars, NEW f \in File
  PROVE  \/ /\ \A d \in Dir : place'[d][f] = place[d][f]
            /\ f \in received' <=> f \in received
         \/ /\ f \in received' /\ place'["saved"][f] = place["saved"][f]
            /\ place'["deferred"][f] = place["deferred"][f]
            /\ \/ f \in Upload \ received
               \/ f \in Report /\ pulls[f] > 0 /\ (f \in received => pulls[f] > 1)
               \/ f \in Uuid \ received /\ says'[f] # Nothing
         \/ /\ f \in received' <=> f \in received
            /\ In("incoming", f) /\ place'["incoming"][f] = Absent
         \/ /\ f \in received' <=> f \in received
            /\ \E a \in Archiver : archPc[a] = "unlink" /\ \E path \in unlinkPaths[a] :
                 /\ path[2] = f /\ Present(path) /\ place'[path[1]][f] = Absent
                 /\ \A d \in Dir \ {path[1]} : place'[d][f] = place[d][f]
<1>. USE DEF DInv, IInv, TypeOK, SpoolTypeOK
<1>. DEFINE Same == /\ \A d \in Dir : place'[d][f] = place[d][f]
                    /\ f \in received' <=> f \in received
<1>1. ASSUME NEW g \in File, Write(g)
      PROVE  IF f = g THEN /\ f \in received' /\ place'["saved"][f] = place["saved"][f]
                           /\ place'["deferred"][f] = place["deferred"][f]
             ELSE Same
  BY <1>1 DEF Write, Dir
<1>2. ASSUME NEW g \in File, UploadFile(g) PROVE Same \/ (f = g /\ g \in Upload \ received)
  BY <1>1, <1>2 DEF UploadFile
<1>3. ASSUME NEW g \in File, SaveFile(g)
      PROVE  \/ Same
             \/ (f \in received' <=> f \in received) /\ In("incoming", f) /\ place'["incoming"][f] = Absent
  <2>1. received' = received
    BY <1>3 DEF SaveFile
  <2>2. CASE f = g
    BY <1>3, <2>1, <2>2 DEF SaveFile, MoveTo, Dir
  <2>3. CASE f # g
    BY <1>3, <2>1, <2>3 DEF SaveFile, MoveTo, Dir
  <2>. QED
    BY <2>2, <2>3
<1>4. ASSUME NEW p \in Puller, WriteReport(p)
      PROVE  \/ Same
             \/ /\ Write(f)
                /\ \/ f \in Report /\ pulls[f] > 0 /\ (f \in received => pulls[f] > 1)
                   \/ f \in Uuid \ received /\ says'[f] # Nothing
  <2>. PICK r \in newReports[p] :
       /\ Writing(p, r)
       /\ \/ Write(r)
          \/ \E u \in Uuid : says[u] = Nothing /\ Write(u) /\ says' = [says EXCEPT ![u] = r]
    BY <1>4 DEF WriteReport, OpenFile, Writing
  <2>. r \in Report
    BY DEF PullTypeOK
  <2>2. CASE Write(r)
    <3>1. CASE f = r
      BY <2>2, <3>1 DEF Once
    <3>2. CASE f # r
      <4>. r \in File
        BY DEF File
      <4>. QED
        BY <1>1, <2>2, <3>2
    <3>. QED
      BY <3>1, <3>2
  <2>3. ASSUME NEW u \in Uuid, says[u] = Nothing, Write(u), says' = [says EXCEPT ![u] = r]
        PROVE  Same \/ (Write(f) /\ f \in Uuid \ received /\ says'[f] # Nothing)
    <3>1. u \in File /\ u \notin received
      BY <2>3 DEF File, Once
    <3>2. says'[u] = r /\ r # Nothing
      BY <2>3, SpoolAssumption DEF Nothing
    <3>3. CASE f = u
      BY <2>3, <3>1, <3>2, <3>3
    <3>4. CASE f # u
      BY <1>1, <2>3, <3>1, <3>4
    <3>. QED
      BY <3>3, <3>4
  <2>. QED
    BY <2>2, <2>3
<1>5. ASSUME NEW a \in Archiver, Archive(a)
      PROVE  \/ Same
             \/ /\ f \in received' <=> f \in received
                /\ archPc[a] = "unlink"
                /\ \E path \in unlinkPaths[a] :
                     /\ path[2] = f /\ Present(path) /\ place'[path[1]][f] = Absent
                     /\ \A d \in Dir \ {path[1]} : place'[d][f] = place[d][f]
  <2>1. CASE UNCHANGED spoolVars
    BY <2>1 DEF spoolVars
  <2>2. CASE UnlinkPath(a) /\ ~UNCHANGED spoolVars
    <3>. PICK path \in unlinkPaths[a] :
           Present(path) /\ RemoveFrom(path[1], path[2]) /\ UNCHANGED <<says, received>>
      BY <2>2 DEF UnlinkPath, ArchiveDie
    <3>1. archPc[a] = "unlink"
      BY <2>2 DEF UnlinkPath
    <3>2. path[1] \in Dir /\ path[2] \in File
      BY DEF ArchiveTypeOK, Path, Dir
    <3>3. CASE path[2] = f
      <4>. /\ place'[path[1]][f] = Absent
           /\ \A d \in Dir \ {path[1]} : place'[d][f] = place[d][f]
        BY <3>2, <3>3 DEF RemoveFrom
      <4>. QED
        BY <3>1, <3>3
    <3>4. CASE path[2] # f
      BY <3>2, <3>4 DEF RemoveFrom
    <3>. QED
      BY <3>3, <3>4
  <2>. QED
    BY <1>5, <2>1, <2>2 DEF Archive, ArchiveStart, ListPaths, StatPaths, PickDate, MakeTmpDir, Untar,
       Tar, RenameArchive, RemoveTmpDir, KillArchive, ArchiveDie
<1>6. ASSUME UNCHANGED spoolVars PROVE Same
  BY <1>6 DEF spoolVars
<1>. HIDE DEF Same
<1>7. \/ Same
      \/ Write(f) /\ \/ f \in Report /\ pulls[f] > 0 /\ (f \in received => pulls[f] > 1)
                     \/ f \in Uuid \ received /\ says'[f] # Nothing
      \/ UploadFile(f) /\ f \in Upload \ received
      \/ (f \in received' <=> f \in received) /\ In("incoming", f) /\ place'["incoming"][f] = Absent
      \/ /\ f \in received' <=> f \in received
         /\ \E a \in Archiver : archPc[a] = "unlink" /\ \E path \in unlinkPaths[a] :
              /\ path[2] = f /\ Present(path) /\ place'[path[1]][f] = Absent
              /\ \A d \in Dir \ {path[1]} : place'[d][f] = place[d][f]
  <2>1. Same \/ UNCHANGED spoolVars
        \/ (\E g \in File : UploadFile(g)) \/ (\E g \in File : SaveFile(g))
        \/ (\E p \in Puller : WriteReport(p)) \/ (\E a \in Archiver : Archive(a))
    BY DEF Next, Pull, Change, Store, CleanTmp, vars
  <2>. QED
    BY <1>2, <1>3, <1>4, <1>5, <1>6, <2>1
<1>8. ASSUME Write(f) PROVE /\ f \in received' /\ place'["saved"][f] = place["saved"][f]
                            /\ place'["deferred"][f] = place["deferred"][f]
  BY <1>1, <1>8
<1>9. ASSUME UploadFile(f) PROVE Write(f)
  BY <1>9 DEF UploadFile
<1>. USE DEF Same
<1>. QED
  BY <1>7, <1>8, <1>9

\* Downloads are not taken back.
LEMMA PullsGrow ==
  ASSUME TypeOK, TypeOK', [Next]_vars, NEW r \in Report
  PROVE  pulls[r] \in Nat /\ pulls'[r] \in Nat /\ pulls[r] <= pulls'[r]
<1>1. pulls \in [Report -> Nat] /\ pulls[r] \in Nat /\ pulls'[r] \in Nat
  BY DEF TypeOK, PullTypeOK
<1>2. ASSUME NEW p \in Puller, GetReport(p) PROVE pulls[r] <= pulls'[r]
  <2>. PICK s \in newReports[p] : UNCHANGED pulls \/ pulls' = [pulls EXCEPT ![s] = pulls[s] + 1]
    BY <1>2 DEF GetReport
  <2>1. CASE UNCHANGED pulls
    BY <1>1, <2>1
  <2>2. CASE pulls' = [pulls EXCEPT ![s] = pulls[s] + 1]
    <3>1. CASE r = s
      BY <1>1, <2>2, <3>1
    <3>2. CASE r # s
      BY <1>1, <2>2, <3>2
    <3>. QED
      BY <3>1, <3>2
  <2>. QED
    BY <2>1, <2>2
<1>3. CASE UNCHANGED pulls
  BY <1>1, <1>3
<1>4. UNCHANGED pulls \/ \E p \in Puller : GetReport(p)
  BY DEF Next, Pull, PullQuietly, Change, PullStart, ListReports, RememberReport, WriteReport,
     Interrupt, SaveKnown, KillPull, Publish, Withdraw, vars, pullVars, pullHistory
<1>. QED
  BY <1>1, <1>2, <1>3, <1>4

LEMMA AgainStays ==
  ASSUME TypeOK, TypeOK', [Next]_vars, NEW f, PulledAgain(f)
  PROVE  PulledAgain(f)'
<1>1. f \in Report /\ pulls[f] > 1
  BY DEF PulledAgain
<1>2. pulls'[f] > 1
  BY <1>1, PullsGrow
<1>. QED
  BY <1>1, <1>2 DEF PulledAgain

\* A file that was downloaded but once is written but once.
LEMMA WrittenOnce ==
  ASSUME DInv, TypeOK', [Next]_vars, NEW f \in File, ~PulledAgain(f)', f \in received
  PROVE  /\ f \in received'
         /\ \/ \A d \in Dir : place'[d][f] = place[d][f]
            \/ In("incoming", f) /\ place'["incoming"][f] = Absent
            \/ \E a \in Archiver : archPc[a] = "unlink" /\ \E path \in unlinkPaths[a] :
                 /\ path[2] = f /\ Present(path) /\ place'[path[1]][f] = Absent
                 /\ \A d \in Dir \ {path[1]} : place'[d][f] = place[d][f]
<1>1. f \in Report => pulls[f] > 0 /\ pulls'[f] <= 1 /\ pulls[f] \in Nat
  BY DEF DInv, IInv, TypeOK, PullTypeOK, Once, PulledAgain
<1>2. ~(f \in Report /\ pulls[f] > 1)
  BY <1>1, AgainStays DEF DInv, IInv, PulledAgain
<1>. QED
  BY <1>2, PlaceChanges

\* Who is about to write a report that is there, or that another is about to
\* write, has downloaded it again.
LEMMA WritingStep ==
  ASSUME DInv, TypeOK', [Next]_vars
  PROVE  /\ \A p \in Puller, r \in Report : Writing(p, r)' =>
              pulls'[r] > 0 /\ (r \in received' => pulls'[r] > 1)
         /\ \A p, q \in Puller, r \in Report : p # q /\ Writing(p, r)' /\ Writing(q, r)' => pulls'[r] > 1
<1>. USE DEF DInv, IInv, TypeOK, PullTypeOK
<1>. DEFINE Kept1(S) == \A p \in S, r \in Report : Writing(p, r)' => Writing(p, r)
<1>0. \A r \in Report : pulls[r] \in Nat /\ pulls'[r] \in Nat /\ pulls[r] <= pulls'[r]
  BY PullsGrow
<1>1. ASSUME Kept1(Puller), received' \cap Report \subseteq received
      PROVE  /\ \A p \in Puller, r \in Report : Writing(p, r)' =>
                  pulls'[r] > 0 /\ (r \in received' => pulls'[r] > 1)
             /\ \A p, q \in Puller, r \in Report : p # q /\ Writing(p, r)' /\ Writing(q, r)' => pulls'[r] > 1
  BY <1>0, <1>1 DEF Once
<1>2. ASSUME NEW p \in Puller, GetReport(p), UNCHANGED spoolVars
      PROVE  /\ \A q \in Puller, r \in Report : Writing(q, r)' =>
                  pulls'[r] > 0 /\ (r \in received' => pulls'[r] > 1)
             /\ \A q, o \in Puller, r \in Report : q # o /\ Writing(q, r)' /\ Writing(o, r)' => pulls'[r] > 1
  <2>. PICK s \in newReports[p] :
       /\ Current(p, s)
       /\ \/ NextReport(p, s)
          \/ /\ pulls' = [pulls EXCEPT ![s] = pulls[s] + 1]
             /\ pullPc' = [pullPc EXCEPT ![p] = "write"]
             /\ UNCHANGED newReports
    BY <1>2 DEF GetReport, PullGoto
  <2>1. UNCHANGED <<place, says, received>>
    BY <1>2 DEF spoolVars
  <2>2. Kept1(Puller \ {p})
    BY DEF Writing, Current, NextReport, PullGoto
  <2>3. CASE NextReport(p, s)
    <3>. Kept1(Puller)
      BY <2>2, <2>3 DEF Writing, NextReport, PullGoto
    <3>. QED
      BY <1>1, <2>1
  <2>4. CASE /\ pulls' = [pulls EXCEPT ![s] = pulls[s] + 1]
             /\ pullPc' = [pullPc EXCEPT ![p] = "write"]
             /\ UNCHANGED newReports
    <3>1. s \in Report /\ pulls'[s] = pulls[s] + 1
      BY <2>4
    <3>2. ASSUME NEW r \in Report, Writing(p, r)' PROVE r = s
      <4>. r \in newReports[p] /\ Current(p, r)
        BY <2>4, <3>2 DEF Writing, Current
      <4>. QED
        BY OneInHand
    <3>3. ASSUME NEW q \in Puller \ {p}, NEW r \in Report, Writing(q, r)'
          PROVE  pulls[r] > 0 /\ (r \in received => pulls[r] > 1)
      BY <2>2, <3>3 DEF Once
    <3>4. s \in received => pulls[s] > 0
      BY <3>1 DEF Once
    <3>5. \A q \in Puller, r \in Report : Writing(q, r)' =>
             pulls'[r] > 0 /\ (r \in received' => pulls'[r] > 1)
      BY <1>0, <2>1, <3>1, <3>2, <3>3, <3>4
    <3>6. ASSUME NEW q \in Puller \ {p}, NEW o \in Puller, NEW r \in Report,
                 q # o, Writing(q, r)', Writing(o, r)'
          PROVE  pulls'[r] > 1
      <4>1. CASE o = p
        BY <1>0, <3>1, <3>2, <3>3, <3>6, <4>1
      <4>2. CASE o # p
        BY <1>0, <2>2, <3>6, <4>2 DEF Once
      <4>. QED
        BY <4>1, <4>2
    <3>. QED
      BY <3>5, <3>6
  <2>. QED
    BY <2>3, <2>4
<1>3. ASSUME NEW p \in Puller, WriteReport(p)
      PROVE  /\ \A q \in Puller, r \in Report : Writing(q, r)' =>
                  pulls'[r] > 0 /\ (r \in received' => pulls'[r] > 1)
             /\ \A q, o \in Puller, r \in Report : q # o /\ Writing(q, r)' /\ Writing(o, r)' => pulls'[r] > 1
  <2>. PICK s \in newReports[p], f \in Report \cup Uuid : Current(p, s) /\ OpenFile(s, f)
    BY <1>3 DEF WriteReport
  <2>1. s \in Report /\ Writing(p, s) /\ ~\E r \in Report : Writing(p, r)'
    BY <1>3 DEF WriteReport, Writing, PullGoto
  <2>2. Kept1(Puller)
    BY <1>3 DEF WriteReport, Writing, Current, PullGoto
  <2>3. received' \cap Report \subseteq received \cup {s}
    BY SpoolAssumption DEF OpenFile, Write
  <2>4. ASSUME NEW q \in Puller, NEW r \in Report, Writing(q, r)'
        PROVE  pulls'[r] > 0 /\ (r \in received' => pulls'[r] > 1)
    <3>1. q # p /\ Writing(q, r) /\ pulls[r] > 0 /\ (r \in received => pulls[r] > 1)
      BY <2>1, <2>2, <2>4 DEF Once
    <3>2. r = s => pulls[r] > 1
      BY <2>1, <3>1 DEF Once
    <3>. QED
      BY <1>0, <2>3, <3>1, <3>2
  <2>5. \A q, o \in Puller, r \in Report : q # o /\ Writing(q, r)' /\ Writing(o, r)' => pulls'[r] > 1
    BY <1>0, <2>2 DEF Once
  <2>. QED
    BY <2>4, <2>5
<1>4. ASSUME NEW p \in Puller, PullQuietly(p), ~GetReport(p) PROVE Kept1(Puller)
  <2>1. ASSUME NEW m \in Master, PullStart(p, m) PROVE Kept1(Puller)
    BY <2>1 DEF PullStart, Writing, Current, PullGoto
  <2>2. CASE ListReports(p)
    BY <2>2 DEF ListReports, Writing, Current, PullGoto
  <2>3. CASE RememberReport(p)
    BY <2>3 DEF RememberReport, NextReport, Writing, Current, PullGoto
  <2>4. CASE Interrupt(p)
    BY <2>4 DEF Interrupt, Writing, Current, PullGoto
  <2>5. CASE SaveKnown(p) \/ KillPull(p)
    BY <2>5 DEF SaveKnown, KillPull, PullEnd, Writing, Current, PullGoto
  <2>. QED
    BY <1>4, <2>1, <2>2, <2>3, <2>4, <2>5 DEF PullQuietly
<1>6. ASSUME NEW f \in File, UploadFile(f) \/ SaveFile(f) PROVE received' \cap Report \subseteq received
  BY <1>6, SpoolAssumption DEF UploadFile, SaveFile, Write
<1>7. ASSUME NEW a \in Archiver, Archive(a) PROVE received' = received
  BY <1>7 DEF Archive, ArchiveStart, ListPaths, StatPaths, PickDate, MakeTmpDir, Untar, Tar,
     RenameArchive, UnlinkPath, RemoveTmpDir, KillArchive, ArchiveDie, spoolVars
<1>8. CASE UNCHANGED <<pullPc, newReports>> /\ received' \cap Report \subseteq received
  <2>. Kept1(Puller)
    BY <1>8 DEF Writing, Current
  <2>. QED
    BY <1>1, <1>8
<1>9. ASSUME NEW p \in Puller, PullQuietly(p), ~GetReport(p), received' = received
      PROVE  /\ \A q \in Puller, r \in Report : Writing(q, r)' =>
                  pulls'[r] > 0 /\ (r \in received' => pulls'[r] > 1)
             /\ \A q, o \in Puller, r \in Report : q # o /\ Writing(q, r)' /\ Writing(o, r)' => pulls'[r] > 1
  BY <1>1, <1>4, <1>9
<1>10. \/ \E p \in Puller : (GetReport(p) /\ UNCHANGED spoolVars) \/ WriteReport(p)
       \/ \E p \in Puller : PullQuietly(p) /\ ~GetReport(p) /\ received' = received
       \/ UNCHANGED <<pullPc, newReports>> /\ received' \cap Report \subseteq received
  BY <1>6, <1>7
  DEF Next, Pull, Change, Publish, Withdraw, Store, CleanTmp, vars, spoolVars, pullVars, pullerVars
<1>. QED
  BY <1>2, <1>3, <1>8, <1>9, <1>10

\* Names are given once; a report's own name, once for each download.
LEMMA OnceStep ==
  ASSUME DInv, TypeOK', [Next]_vars
  PROVE  Once'
<1>. USE DEF DInv, IInv, TypeOK
<1>1. ASSUME NEW f \in File, f \notin received', NEW d \in Dir PROVE ~In(d, f)'
  <2>1. f \notin received
    BY <1>1, PlaceChanges
  <2>2. \A e \in Dir : place[e][f] = Absent
    BY <2>1 DEF Once, In
  <2>3. ASSUME NEW a \in Archiver, NEW path \in unlinkPaths[a], path[2] = f PROVE ~Present(path)
    <3>. path \in Path
      BY DEF ArchiveTypeOK
    <3>. path[1] \in Dir
      BY DEF Path, Dir
    <3>. QED
      BY <2>2, <2>3 DEF Present, In
  <2>4. ~In("incoming", f)
    BY <2>2 DEF In, Dir
  <2>5. \A e \in Dir : place'[e][f] = place[e][f]
    BY <1>1, <2>3, <2>4, PlaceChanges
  <2>. QED
    BY <2>2, <2>5 DEF In
<1>2. ASSUME NEW r \in Report, r \in received' PROVE pulls'[r] > 0
  <2>1. r \in File /\ pulls[r] \in Nat /\ pulls'[r] \in Nat /\ r \notin Upload /\ r \notin Uuid
    BY SpoolAssumption DEF File, PullTypeOK
  <2>2. CASE r \in received
    <3>. pulls[r] > 0
      BY <2>2 DEF Once
    <3>. QED
      BY PullsGrow
  <2>3. CASE r \notin received
    <3>. pulls[r] > 0
      BY <1>2, <2>1, <2>3, PlaceChanges
    <3>. QED
      BY PullsGrow
  <2>. QED
    BY <2>2, <2>3
<1>3. ASSUME NEW u \in Uuid, u \in received' PROVE says'[u] # Nothing
  <2>1. u \in File /\ u \notin Report /\ u \notin Upload
    BY SpoolAssumption DEF File
  <2>2. CASE u \in received
    <3>1. says[u] # Nothing
      BY <2>2 DEF Once
    <3>2. ASSUME NEW p \in Puller, WriteReport(p) PROVE says'[u] = says[u]
      <4>. PICK r \in newReports[p] :
             UNCHANGED says \/ \E v \in Uuid : says[v] = Nothing /\ says' = [says EXCEPT ![v] = r]
        BY <3>2 DEF WriteReport, OpenFile
      <4>. QED
        BY <3>1 DEF SpoolTypeOK
    <3>3. ASSUME NEW a \in Archiver, Archive(a) PROVE says' = says
      BY <3>3 DEF Archive, ArchiveStart, ListPaths, StatPaths, PickDate, MakeTmpDir, Untar, Tar,
         RenameArchive, UnlinkPath, RemoveTmpDir, KillArchive, ArchiveDie, spoolVars
    <3>. QED
      BY <3>1, <3>2, <3>3 DEF Next, Pull, Change, Store, UploadFile, SaveFile, CleanTmp, vars, spoolVars
  <2>3. CASE u \notin received
    BY <1>3, <2>1, <2>3, PlaceChanges
  <2>. QED
    BY <2>2, <2>3
<1>4. /\ \A p \in Puller, r \in Report : Writing(p, r)' =>
           pulls'[r] > 0 /\ (r \in received' => pulls'[r] > 1)
      /\ \A p, q \in Puller, r \in Report : p # q /\ Writing(p, r)' /\ Writing(q, r)' => pulls'[r] > 1
  BY WritingStep
<1>. QED
  BY <1>1, <1>2, <1>3, <1>4 DEF Once

\* What is in the archive of a day stays there, and in every archive of it.
LEMMA KeptOnStays ==
  ASSUME DInv, [Next]_vars, NEW f \in File, NEW p \in Part, NEW d \in Day, KeptOn(f, p, d)
  PROVE  KeptOn(f, p, d)'
<1>. USE DEF DInv, IInv
<1>1. CASE f \in damaged
  BY <1>1, DamageStays DEF KeptOn
<1>2. CASE UNCHANGED archive
  BY <1>2, DamageStays DEF KeptOn
<1>3. ASSUME NEW a \in Archiver, RenameArchive(a), ~UNCHANGED archive, f \in archive[<<p, d>>]
      PROVE  KeptOn(f, p, d)'
  <2>1. archPc[a] = "rename" /\ tarred[a] # {}
        /\ archive' = [archive EXCEPT ![Target(a)] = UNION tarred[a]]
    BY <1>3 DEF RenameArchive, ArchiveDie
  <2>. PICK files \in tarred[a] : tarred[a] = {files} /\ archive[Target(a)] \subseteq files \cup damaged
    BY <2>1 DEF Written
  <2>2. Target(a) \in Part \X Day /\ <<p, d>> \in Part \X Day
    BY <2>1, PathsOfDay DEF Inside
  <2>3. archive'[<<p, d>>] = IF Target(a) = <<p, d>> THEN files ELSE archive[<<p, d>>]
    <3>. PICK k \in Part \X Day : k = Target(a)
      BY <2>2
    <3>. UNION tarred[a] = files
      OBVIOUS
    <3>. archive' = [archive EXCEPT ![k] = files]
      BY <2>1
    <3>. archive \in [Part \X Day -> SUBSET File]
      BY DEF TypeOK, ArchiveTypeOK
    <3>. QED
      BY <2>2
  <2>. QED
    BY <1>3, <2>3, DamageStays DEF KeptOn
<1>. QED
  BY <1>1, <1>2, <1>3, ArchivesChange DEF KeptOn

\* What is filed stays filed.
LEMMA FiledStays ==
  ASSUME DInv, TypeOK', [Next]_vars, NEW path \in Path, NEW p \in Part, NEW d \in Day,
         Filed(path, p, d)
  PROVE  Filed(path, p, d)'
<1>. path[2] \in File
  BY DEF Path
<1>1. Kept(path[2])'
  BY KeptStays DEF DInv, Filed
<1>2. ASSUME ~PulledAgain(path[2])' PROVE KeptOn(path[2], p, d)'
  <2>. ~PulledAgain(path[2])
    BY <1>2, AgainStays DEF DInv, IInv
  <2>. QED
    BY KeptOnStays DEF Filed
<1>. QED
  BY <1>1, <1>2 DEF Filed

\* A file is in incoming or stored, not both, unless it came twice.
LEMMA SettledStep ==
  ASSUME DInv, TypeOK', [Next]_vars
  PROVE  Settled'
<1>. SUFFICES ASSUME NEW f \in File, ~PulledAgain(f)', In("incoming", f)'
              PROVE  ~In("saved", f)' /\ ~In("deferred", f)'
  BY DEF Settled
<1>1. ~PulledAgain(f)
  BY AgainStays DEF DInv, IInv
<1>2. CASE f \in received
  <2>1. \/ \A d \in Dir : place'[d][f] = place[d][f]
        \/ \E a \in Archiver : archPc[a] = "unlink" /\ \E path \in unlinkPaths[a] :
             /\ path[2] = f /\ Present(path) /\ place'[path[1]][f] = Absent
             /\ \A d \in Dir \ {path[1]} : place'[d][f] = place[d][f]
    BY <1>2, WrittenOnce DEF In
  <2>2. \A d \in Dir : place'[d][f] \in {place[d][f], Absent}
    BY <2>1
  <2>3. In("incoming", f)
    BY <2>2 DEF In, Dir
  <2>. QED
    BY <1>1, <2>2, <2>3 DEF DInv, Settled, In, Dir
<1>3. CASE f \notin received
  <2>1. ~In("saved", f) /\ ~In("deferred", f) /\ ~In("incoming", f)
    BY <1>3 DEF DInv, Once, Dir
  <2>2. \/ \A d \in Dir : place'[d][f] = place[d][f]
        \/ place'["saved"][f] = place["saved"][f] /\ place'["deferred"][f] = place["deferred"][f]
        \/ \E a \in Archiver : \E path \in unlinkPaths[a] :
             /\ path[2] = f /\ \A d \in Dir \ {path[1]} : place'[d][f] = place[d][f]
             /\ place'[path[1]][f] = Absent
    BY <2>1, PlaceChanges
  <2>3. place'["saved"][f] \in {place["saved"][f], Absent} /\ place'["deferred"][f] \in {place["deferred"][f], Absent}
    BY <2>2 DEF Dir
  <2>. QED
    BY <2>1, <2>3 DEF In
<1>. QED
  BY <1>2, <1>3

\* What a process listed is out of incoming for good.
LEMMA ListedOnceStep ==
  ASSUME DInv, TypeOK', [Next]_vars
  PROVE  ListedOnce'
<1>. SUFFICES ASSUME NEW b \in Archiver, NEW path \in listed'[b], ~PulledAgain(path[2])'
              PROVE  path[2] \in received' /\ ~In("incoming", path[2])'
  BY DEF ListedOnce
<1>. USE DEF DInv, IInv
<1>1. path \in Path /\ path[2] \in File /\ path[1] \in {"saved", "deferred"}
  BY DEF TypeOK, ArchiveTypeOK, Path
<1>2. ~PulledAgain(path[2])
  BY AgainStays
<1>. PICK f \in File : f = path[2]
  BY <1>1
<1>3. f \in received /\ ~In("incoming", f)
  <2>1. CASE listed'[b] = listed[b]
    BY <1>2, <2>1 DEF ListedOnce
  <2>2. CASE listed'[b] = {q \in Path : Present(q) /\ PartOf(q[2]) = part[b]}
    <3>1. In(path[1], f)
      BY <2>2 DEF Present
    <3>2. ~In("incoming", f)
      BY <1>1, <1>2, <3>1 DEF Settled
    <3>. QED
      BY <1>1, <3>1, <3>2 DEF Once, Dir
  <2>. QED
    BY <2>1, <2>2, ListsChange
<1>4. f \in received' /\ place'["incoming"][f] \in {place["incoming"][f], Absent}
  <2>1. ~PulledAgain(f)'
    OBVIOUS
  <2>. QED
    BY <1>3, <2>1, WrittenOnce DEF Dir
<1>. QED
  BY <1>3, <1>4 DEF In

\* A path keeps its date while it is there, and its file is in the archive of
\* the date once it is gone.
LEMMA DatedStep ==
  ASSUME DInv, TypeOK', [Next]_vars
  PROVE  Dated'
<1>. SUFFICES ASSUME NEW b \in Archiver, NEW d \in Day, NEW path \in pathsOf'[b][d],
                     ~PulledAgain(path[2])'
              PROVE  \/ place'[path[1]][path[2]] = d
                     \/ ~Present(path)' /\ KeptOn(path[2], part[b], d)'
  <2>1. \A d \in Day : d # Absent
    BY DEF Absent
  <2>. QED
    BY <2>1, Zenon DEF Dated, Present, In
<1>. USE DEF DInv, IInv
<1>1. CASE UNCHANGED <<listed[b], part[b], pathsOf[b]>>
  <2>1. /\ path \in listed[b] /\ path \in Path /\ path[2] \in File /\ part[b] \in Part
        /\ path[1] \in Dir \ {"incoming"}
    <3>1. path \in pathsOf[b][d] /\ pathsOf[b][d] \subseteq listed[b]
      BY <1>1 DEF PathsListed
    <3>2. path \in Path
      BY <3>1 DEF TypeOK, ArchiveTypeOK
    <3>. QED
      BY <3>1, <3>2 DEF TypeOK, ArchiveTypeOK, Path, Dir
  <2>. PICK f \in File, p \in Part : f = path[2] /\ p = part[b] /\ p = part'[b]
    BY <1>1, <2>1
  <2>2. ~PulledAgain(f) /\ ~PulledAgain(f)'
    BY AgainStays
  <2>3. f \in received /\ ~In("incoming", f)
    BY <2>1, <2>2 DEF ListedOnce
  <2>4. IF Present(path) THEN place[path[1]][f] = d ELSE KeptOn(f, p, d)
    <3>1. path \in pathsOf[b][d]
      BY <1>1
    <3>2. IF Present(path) THEN place[path[1]][path[2]] = d ELSE KeptOn(path[2], part[b], d)
      BY <2>2, <3>1 DEF Dated
    <3>. QED
      BY <3>2
  <2>5. CASE ~Present(path) /\ KeptOn(f, p, d) /\ place'[path[1]][f] = place[path[1]][f]
    <3>. KeptOn(f, p, d)'
      BY <2>5, KeptOnStays
    <3>. KeptOn(f, part[b], d)'
      BY DEF KeptOn
    <3>. QED
      BY <2>5 DEF Present, In
  <2>6. CASE place[path[1]][f] = d /\ place'[path[1]][f] = place[path[1]][f]
    BY <2>6
  <2>7. ASSUME NEW a \in Archiver, archPc[a] = "unlink", path \in unlinkPaths[a],
               Present(path), place'[path[1]][f] = Absent
        PROVE  ~Present(path)' /\ KeptOn(f, part[b], d)'
    <3>1. day[a] \in Day /\ path \in pathsOf[a][day[a]]
      BY <2>7 DEF TypeOK, AtDay, Inside, LinkedDay
    <3>2. place[path[1]][f] = day[a] /\ place[path[1]][f] = d
      BY <2>2, <2>4, <2>7, <3>1 DEF Dated
    <3>3. path \in listed[a]
      BY <3>1 DEF PathsListed
    <3>4. part[a] = p
      BY <2>1, <3>3 DEF ListedFit
    <3>5. Filed(path, part[a], day[a])
      BY <2>7, <3>1 DEF LinkedDay
    <3>6. KeptOn(f, p, d)
      BY <2>2, <3>2, <3>4, <3>5 DEF Filed
    <3>7. KeptOn(f, p, d)'
      BY <3>6, KeptOnStays
    <3>8. KeptOn(f, part[b], d)'
      BY <3>7 DEF KeptOn
    <3>. QED
      BY <2>7, <3>8 DEF Present, In
  <2>8. \/ place'[path[1]][f] = place[path[1]][f]
        \/ \E a \in Archiver : archPc[a] = "unlink" /\ path \in unlinkPaths[a]
             /\ Present(path) /\ place'[path[1]][f] = Absent
    <3>1. ASSUME NEW a \in Archiver, archPc[a] = "unlink", NEW q \in unlinkPaths[a], q[2] = f,
                 Present(q), place'[q[1]][f] = Absent,
                 \A e \in Dir \ {q[1]} : place'[e][f] = place[e][f]
          PROVE  \/ place'[path[1]][f] = place[path[1]][f]
                 \/ path \in unlinkPaths[a] /\ Present(path) /\ place'[path[1]][f] = Absent
      <4>1. q \in Path
        BY DEF TypeOK, ArchiveTypeOK
      <4>2. q[1] = path[1] => q = path
        BY <2>1, <3>1, <4>1 DEF Path
      <4>. QED
        BY <2>1, <3>1, <4>2
    <3>2. ~In("incoming", f) /\ path[1] \in Dir
      BY <2>1, <2>3
    <3>. QED
      BY <2>2, <2>3, <3>1, <3>2, WrittenOnce
  <2>. QED
    BY <2>4, <2>5, <2>6, <2>7, <2>8
<1>2. CASE \A e \in Day : pathsOf'[b][e] = {}
  BY <1>2
<1>3. CASE UNCHANGED <<place, part[b], pathsOf[b]>> /\ \A e \in Day : pathsOf[b][e] = {}
  BY <1>3
<1>4. CASE /\ UNCHANGED <<place, listed[b], part[b]>>
           /\ \A e \in Day : pathsOf'[b][e] = {q \in listed[b] : place[q[1]][q[2]] = e}
  BY <1>4
<1>. QED
  BY <1>1, <1>2, <1>3, <1>4, ListsChange

\* A step of a process, seen from another and from itself.
LEMMA OwnStep ==
  ASSUME DInv, [Next]_vars, NEW b \in Archiver
  PROVE  \/ UNCHANGED <<archPc[b], options[b], part[b], pathsOf[b], dates[b], day[b], tarred[b],
                        unlinkPaths[b]>>
         \/ Archive(b)
<1>1. CASE UNCHANGED <<archPc, taskVars, tarVars>>
  BY <1>1 DEF taskVars, tarVars
<1>2. ASSUME NEW a \in Archiver, Archive(a), a # b
      PROVE  UNCHANGED <<archPc[b], options[b], part[b], pathsOf[b], dates[b], day[b], tarred[b],
                         unlinkPaths[b]>>
  BY <1>2, OthersStay DEF DInv, IInv, TypeOK
<1>3. CASE \E a \in Archiver : Archive(a)
  BY <1>2, <1>3
<1>. QED
  BY <1>1, <1>3 DEF Next, CleanTmp, vars, archiveVars

\* The new archive of a day has all that the old one had and that is linked
\* (archive_reports.py, _tar_xz).
LEMMA WrittenDayStep ==
  ASSUME DInv, TypeOK', [Next]_vars
  PROVE  WrittenDay'
<1>. SUFFICES ASSUME NEW b \in Archiver, archPc'[b] = "rename", NEW files \in tarred'[b],
                     NEW path \in pathsOf'[b][day'[b]], ~PulledAgain(path[2])'
              PROVE  path[2] \in files \cup damaged'
  BY DEF WrittenDay
<1>. USE DEF DInv, IInv
<1>1. ~PulledAgain(path[2])
  BY AgainStays
<1>2. CASE UNCHANGED <<archPc[b], pathsOf[b], day[b], tarred[b]>>
  <2>. path[2] \in files \cup damaged
    BY <1>1, <1>2 DEF WrittenDay
  <2>. QED
    BY DamageStays
<1>3. CASE Tar(b)
  <2>1. /\ archPc[b] = "tar" /\ day'[b] = day[b] /\ path \in pathsOf[b][day[b]]
    BY <1>3 DEF Tar, taskVars
  <2>2. PICK dead \in SUBSET MayBeDead(b) : Linked(b, dead) \subseteq files \cup damaged'
    <3>. PICK dead \in SUBSET MayBeDead(b) :
         \/ tarred' = [tarred EXCEPT ![b] = {Linked(b, dead)}]
         \/ \E some \in (SUBSET Linked(b, dead)) \ {Linked(b, dead)} :
              /\ \E written \in {{some}, {}} : tarred' = [tarred EXCEPT ![b] = written]
              /\ damaged' = damaged \cup (Linked(b, dead) \ some)
      BY <1>3 DEF Tar
    <3>. tarred \in [Archiver -> SUBSET SUBSET File]
      BY DEF TypeOK, ArchiveTypeOK
    <3>. HIDE DEF Linked
    <3>. QED
      OBVIOUS
  <2>3. day[b] \in Day /\ pathsOf[b][day[b]] \in SUBSET Path
    BY <2>1, PathsOfDay DEF Inside
  <2>4. ASSUME NEW q \in pathsOf[b][day[b]], ~Present(q), q[2] = path[2]
        PROVE  path[2] \in untar[b] \cup damaged
    <3>1. KeptOn(path[2], part[b], day[b])
      BY <1>1, <2>3, <2>4 DEF Dated
    <3>2. archive[Target(b)] \subseteq untar[b] \cup damaged
      BY <2>1 DEF Merged
    <3>. QED
      BY <3>1, <3>2 DEF KeptOn, Target
  <2>5. CASE ~Present(path) \/ path[2] \in dead
    <3>1. path[2] \in dead => path[2] \in NamesOf({q \in pathsOf[b][day[b]] : ~Present(q)})
      BY DEF MayBeDead
    <3>2. \E q \in pathsOf[b][day[b]] : ~Present(q) /\ q[2] = path[2]
      BY <2>1, <2>5, <3>1 DEF NamesOf
    <3>3. path[2] \in untar[b] \cup damaged
      BY <2>4, <3>2
    <3>. QED
      BY <2>2, <3>3, DamageStays DEF Linked
  <2>6. CASE Present(path) /\ path[2] \notin dead
    <3>. path[2] \in Live(b)
      BY <2>1, <2>6 DEF Live, NamesOf
    <3>. QED
      BY <2>2, <2>6 DEF Linked
  <2>. QED
    BY <2>5, <2>6
<1>4. CASE Archive(b) /\ ~Tar(b)
  BY <1>4 DEF Archive, ArchiveStart, ListPaths, StatPaths, PickDate, MakeTmpDir, Untar,
     RenameArchive, UnlinkPath, RemoveTmpDir, KillArchive, ArchiveDie, AfterPart, ArchiveEnd,
     ArchiveGoto, TypeOK, ArchiveTypeOK
<1>. QED
  BY <1>2, <1>3, <1>4, OwnStep

\* So does what a process has filed of a day.
LEMMA FiledGoesOn ==
  ASSUME DInv, TypeOK', [Next]_vars, NEW b \in Archiver, part'[b] = part[b], NEW d \in Day,
         NEW path \in pathsOf[b][d], Filed(path, part[b], d)
  PROVE  Filed(path, part[b], d)'
<1>. PICK p \in Part : p = part[b] /\ p = part'[b]
  BY DEF DInv, IInv, TypeOK, ArchiveTypeOK
<1>1. path \in Path
  BY DEF DInv, IInv, TypeOK, ArchiveTypeOK
<1>2. Filed(path, p, d)'
  BY <1>1, FiledStays
<1>. QED
  BY <1>2 DEF Filed, KeptOn

\* After the rename the archive of the day has the paths of the day.
LEMMA LinkedDayStep ==
  ASSUME DInv, TypeOK', [Next]_vars
  PROVE  LinkedDay'
<1>. SUFFICES ASSUME NEW b \in Archiver, archPc'[b] \in {"unlink", "rmtree"}
              PROVE  /\ unlinkPaths'[b] \subseteq pathsOf'[b][day'[b]]
                     /\ \A path \in pathsOf'[b][day'[b]] : Filed(path, part[b], day[b])'
  BY DEF LinkedDay
<1>. USE DEF DInv, IInv
<1>1. CASE /\ UNCHANGED <<part[b], pathsOf[b], day[b]>> /\ unlinkPaths'[b] \subseteq unlinkPaths[b]
           /\ archPc[b] \in {"unlink", "rmtree"}
  <2>. PICK d \in Day : d = day[b] /\ d = day'[b]
    BY <1>1 DEF TypeOK, AtDay, Inside
  <2>1. unlinkPaths[b] \subseteq pathsOf[b][d] /\ \A path \in pathsOf[b][d] : Filed(path, part[b], d)
    BY <1>1 DEF LinkedDay
  <2>2. ASSUME NEW path \in pathsOf[b][d] PROVE Filed(path, part[b], day[b])'
    <3>. Filed(path, part[b], d)'
      BY <1>1, <2>1, <2>2, FiledGoesOn
    <3>. QED
      BY DEF Filed, KeptOn
  <2>. QED
    BY <1>1, <2>1, <2>2
<1>2. CASE UnlinkPath(b)
  <2>. archPc[b] = "unlink" /\ UNCHANGED <<part[b], pathsOf[b], day[b]>>
       /\ unlinkPaths'[b] \subseteq unlinkPaths[b]
    BY <1>2 DEF UnlinkPath, ArchiveDie, ArchiveEnd, ArchiveGoto, taskVars, tarVars, TypeOK, ArchiveTypeOK
  <2>. QED
    BY <1>1
<1>3. CASE RenameArchive(b)
  <2>1. /\ archPc[b] = "rename" /\ tarred[b] # {}
        /\ archive' = [archive EXCEPT ![Target(b)] = UNION tarred[b]]
        /\ unlinkPaths'[b] \subseteq pathsOf[b][day[b]]
        /\ UNCHANGED <<part, pathsOf, day>>
    BY <1>3 DEF RenameArchive, ArchiveDie, ArchiveEnd, ArchiveGoto, taskVars, TypeOK, ArchiveTypeOK
  <2>. PICK d \in Day, p \in Part : d = day[b] /\ d = day'[b] /\ p = part[b] /\ p = part'[b]
    BY <2>1 DEF TypeOK, ArchiveTypeOK, AtDay, Inside
  <2>2. PICK files \in tarred[b] :
          tarred[b] = {files} /\ \A path \in pathsOf[b][d] : path[2] \in files \/ Kept(path[2])
    BY <2>1 DEF Written
  <2>3. archive'[<<p, d>>] = files
    <3>. UNION tarred[b] = files
      BY <2>2
    <3>. archive \in [Part \X Day -> SUBSET File] /\ Target(b) = <<p, d>>
      BY DEF TypeOK, ArchiveTypeOK, Target
    <3>. QED
      BY <2>1
  <2>4. ASSUME NEW path \in pathsOf[b][d] PROVE Filed(path, p, d)'
    <3>1. path \in Path /\ path[2] \in File /\ PartOf(path[2]) = p
      <4>. path \in Path /\ path \in listed[b]
        BY DEF TypeOK, ArchiveTypeOK, PathsListed
      <4>. QED
        BY DEF ListedFit, Path
    <3>. PICK f \in File : f = path[2]
      BY <3>1
    <3>2. Kept(f)'
      <4>1. CASE Kept(f)
        BY <4>1, KeptStays
      <4>2. CASE f \in files
        <5>. f \in archive'[<<PartOf(f), d>>]
          BY <2>3, <3>1, <4>2
        <5>. QED
          BY DEF Kept, Archived
      <4>. QED
        BY <2>2, <4>1, <4>2
    <3>3. ASSUME ~PulledAgain(f)' PROVE KeptOn(f, p, d)'
      <4>1. ~PulledAgain(f)
        BY <3>3, AgainStays
      <4>2. f \in files \cup damaged
        BY <2>1, <2>2, <4>1 DEF WrittenDay
      <4>. QED
        BY <2>3, <4>2, DamageStays DEF KeptOn
    <3>. QED
      BY <3>2, <3>3 DEF Filed
  <2>5. ASSUME NEW path \in pathsOf[b][d] PROVE Filed(path, part[b], day[b])'
    BY <2>4, <2>5 DEF Filed, KeptOn
  <2>. QED
    BY <2>1, <2>5
<1>4. CASE Archive(b) /\ ~UnlinkPath(b) /\ ~RenameArchive(b)
  BY <1>4 DEF Archive, ArchiveStart, ListPaths, StatPaths, PickDate, MakeTmpDir, Untar,
     Tar, RemoveTmpDir, KillArchive, ArchiveDie, AfterPart, ArchiveEnd,
     ArchiveGoto, TypeOK, ArchiveTypeOK
<1>. QED
  BY <1>1, <1>2, <1>3, <1>4, OwnStep

\* And so for every day that a process has been through.
LEMMA DaysFiledStep ==
  ASSUME DInv, TypeOK', [Next]_vars
  PROVE  DaysFiled'
<1>. SUFFICES ASSUME NEW b \in Archiver, archPc'[b] \in Working, NEW d \in DaysDone(b)',
                     NEW path \in pathsOf'[b][d]
              PROVE  Filed(path, part[b], d)'
  BY DEF DaysFiled
<1>. USE DEF DInv, IInv
<1>1. d \in Day /\ d \in options'[b].dates \ dates'[b] /\ (archPc'[b] # "date" => d # day'[b])
  <2>1. d \in options'[b].dates \ (dates'[b] \cup IF archPc'[b] \in {"mkdir"} \cup Inside THEN {day'[b]} ELSE {})
    BY DEF DaysDone
  <2>2. options'[b].dates \subseteq Day
    <3>1. options'[b] \in CommandLine \cup {NoOptions}
      BY DEF TypeOK, ArchiveTypeOK
    <3>2. \A o \in CommandLine \cup {NoOptions} : o.dates \subseteq Day
      BY DEF NoOptions
    <3>. QED
      BY <3>1, <3>2
  <2>3. archPc'[b] # "date" => archPc'[b] \in {"mkdir"} \cup Inside
    BY DEF Working
  <2>. QED
    BY <2>1, <2>2, <2>3
<1>2. ASSUME archPc[b] \in Working, options'[b] = options[b], part'[b] = part[b],
             pathsOf'[b] = pathsOf[b], d \notin dates[b], archPc[b] # "date" => d # day[b]
      PROVE  Filed(path, part[b], d)'
  <2>1. d \in DaysDone(b) /\ path \in pathsOf[b][d]
    BY <1>1, <1>2 DEF DaysDone, Inside
  <2>2. Filed(path, part[b], d)
    BY <1>2, <2>1 DEF DaysFiled
  <2>. QED
    BY <1>1, <1>2, <2>1, <2>2, FiledGoesOn
<1>3. CASE UNCHANGED <<archPc[b], options[b], part[b], pathsOf[b], dates[b], day[b]>>
  BY <1>1, <1>2, <1>3
<1>4. CASE ArchiveStart(b) \/ ListPaths(b) \/ KillArchive(b)
  BY <1>4 DEF ArchiveStart, ListPaths, KillArchive, ArchiveEnd, ArchiveGoto, Working, Inside,
     TypeOK, ArchiveTypeOK
<1>5. CASE StatPaths(b)
  <2>. dates'[b] = options[b].dates /\ options'[b] = options[b]
    BY <1>5 DEF StatPaths, ArchiveDie, ArchiveEnd, ArchiveGoto, Working, Inside, TypeOK, ArchiveTypeOK
  <2>. QED
    BY <1>1
<1>6. CASE PickDate(b)
  <2>1. /\ archPc[b] = "date" /\ archPc'[b] = "mkdir"
        /\ UNCHANGED <<options[b], part[b], pathsOf[b]>>
        /\ \E e \in dates[b] : day'[b] = e /\ dates'[b] = {x \in dates[b] : pathsOf[b][x] # {}} \ {e}
    <3>1. ~AfterPart(b, part[b])
      BY <1>6 DEF AfterPart, ArchiveEnd, ArchiveGoto, Working, Inside, TypeOK, ArchiveTypeOK
    <3>2. PICK e \in {x \in dates[b] : pathsOf[b][x] # {}} :
            /\ day' = [day EXCEPT ![b] = e]
            /\ dates' = [dates EXCEPT ![b] = {x \in dates[b] : pathsOf[b][x] # {}} \ {e}]
            /\ ArchiveGoto(b, "mkdir")
            /\ UNCHANGED <<options, part, listed, pathsOf, tarVars>>
      BY <1>6, <3>1 DEF PickDate
    <3>3. archPc[b] = "date"
      BY <1>6 DEF PickDate
    <3>. QED
      BY <3>2, <3>3 DEF ArchiveGoto, TypeOK, ArchiveTypeOK
  <2>2. pathsOf[b][d] # {}
    BY <2>1
  <2>3. d \notin dates[b]
    BY <1>1, <2>1, <2>2
  <2>. QED
    BY <1>2, <2>1, <2>3 DEF Working
<1>7. CASE MakeTmpDir(b)
  <2>1. archPc[b] = "mkdir" /\ archPc'[b] = "untar"
    BY <1>7 DEF MakeTmpDir, AfterPart, ArchiveEnd, ArchiveGoto, Working, Inside, TypeOK, ArchiveTypeOK
  <2>2. UNCHANGED <<options[b], part[b], pathsOf[b], dates[b], day[b]>>
    BY <1>7, <2>1 DEF MakeTmpDir, AfterPart, ArchiveEnd, ArchiveGoto, taskVars, TypeOK, ArchiveTypeOK
  <2>. QED
    BY <1>1, <1>2, <2>1, <2>2 DEF Working
<1>8. CASE Untar(b) \/ Tar(b) \/ RenameArchive(b) \/ UnlinkPath(b)
  <2>1. archPc[b] \in Inside /\ archPc'[b] # "date"
        /\ UNCHANGED <<options[b], part[b], pathsOf[b], dates[b], day[b]>>
    BY <1>8 DEF Untar, Tar, RenameArchive, UnlinkPath, ArchiveDie, ArchiveEnd, ArchiveGoto, taskVars,
       Working, Inside, TypeOK, ArchiveTypeOK
  <2>. QED
    BY <1>1, <1>2, <2>1 DEF Working
<1>9. CASE RemoveTmpDir(b)
  <2>1. archPc[b] = "rmtree" /\ UNCHANGED <<options[b], part[b], pathsOf[b], dates[b], day[b]>>
    BY <1>9 DEF RemoveTmpDir, taskVars
  <2>2. CASE d = day[b]
    <3>1. path \in pathsOf[b][d]
      BY <2>1
    <3>2. Filed(path, part[b], d)
      BY <2>1, <2>2, <3>1 DEF LinkedDay
    <3>. QED
      BY <1>1, <2>1, <3>1, <3>2, FiledGoesOn
  <2>3. CASE d # day[b]
    BY <1>1, <1>2, <2>1, <2>3 DEF Working, Inside
  <2>. QED
    BY <2>2, <2>3
<1>10. CASE Archive(b)
  BY <1>4, <1>5, <1>6, <1>7, <1>8, <1>9, <1>10 DEF Archive
<1>. QED
  BY <1>3, <1>10, OwnStep

\* Every file listed for a day that a process is through with is in the
\* archive of that day, unless it was downloaded again; then it is in one of
\* them (pyfaf/actions/archive_reports.py, _archive_reports).
THEOREM DoneDaysArchivedAlways == Spec => []DoneDaysArchived
<1>1. Init => DInv
  <2>1. Init => IInv
    BY DEF Init, SpoolInit, PullInit, ArchiveInit, IInv, TypeOK, SpoolTypeOK, PullTypeOK,
           ArchiveTypeOK, AtDay, Dir, Part, Inside, Owned, ListedFit, PathsListed, Fresh, Merged,
           Written, Unlinkable, NothingLost
  <2>2. Init => Once /\ Settled
    BY DEF Init, SpoolInit, PullInit, Once, Writing, Settled, In, Dir
  <2>3. Init => ListedOnce /\ Dated /\ WrittenDay /\ LinkedDay /\ DaysFiled
    BY DEF Init, ArchiveInit, ListedOnce, Dated, WrittenDay, LinkedDay, DaysFiled, Working, Inside
  <2>. QED
    BY <2>1, <2>2, <2>3 DEF DInv
<1>2. DInv /\ [Next]_vars => DInv'
  <2>. SUFFICES ASSUME DInv, [Next]_vars PROVE DInv'
    OBVIOUS
  <2>1. TypeOK'
    BY SpoolTypeStep, PullTypeStep, ArchiveTypeStep, AtDayStep DEF DInv, IInv, TypeOK
  <2>2. IInv'
    BY <2>1, OwnedStep, ListsStep, InsideStep, NothingLostStep DEF DInv, IInv
  <2>. QED
    BY <2>1, <2>2, OnceStep, SettledStep, ListedOnceStep, DatedStep, WrittenDayStep, LinkedDayStep,
       DaysFiledStep DEF DInv
<1>3. DInv => DoneDaysArchived
  <2>. SUFFICES ASSUME DInv, NEW a \in Archiver, archPc[a] \in Working, NEW d \in DaysDone(a),
                       NEW path \in pathsOf[a][d]
                PROVE  \/ path[2] \in archive[<<part[a], d>>] \cup damaged
                       \/ PulledAgain(path[2]) /\ Archived(path[2])
    BY DEF DoneDaysArchived, Working, NamesOf
  <2>. Filed(path, part[a], d)
    BY DEF DInv, DaysFiled
  <2>. QED
    BY DEF Filed, Kept, KeptOn
<1>. QED
  BY <1>1, <1>2, <1>3, PTL DEF Spec
==============================================================================
