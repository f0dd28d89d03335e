----------------------------- MODULE MCMirrorSpool -----------------------------
(***************************************************************************)
(* MirrorSpool for TLC.  All processes and files together are too many:    *)
(* each history is cast with some of them, chosen at the start.            *)
(***************************************************************************)
EXTENDS MirrorSpool, TLC

CONSTANTS p1, p2, a1, a2, m1, m2, u1, up, att

VARIABLE cast

MCReport == {1, 2}
MCUuid == {u1}
MCUpload == {up, att}
MCAttachment == {att}
MCDay == {1, 2}
MCPuller == {p1, p2}
MCArchiver == {a1, a2}
MCMaster == {m1, m2}
MCMasterOf == [r \in MCReport |-> IF r = 1 THEN m1 ELSE m2]

\* Processes of one kind differ by their names only.
Alike == {p @@ a : p \in Permutations(MCPuller), a \in Permutations(MCArchiver)}

BothParts == {"reports", "attachments"}
MCCommandLine == UNION {{[parts |-> ps, dates |-> MCDay, unlink |-> TRUE],
                         [parts |-> ps, dates |-> {1}, unlink |-> FALSE]} : ps \in {BothParts, {"reports"}}}

\* Two pulls of different masters, whose loops may break off; such a pull and
\* archives, with a second copy of a report; a pull and overlapping archives of
\* two days, with mishaps; archives of both parts that overlap.
Casts == {
  [files |-> {1, 2}, days |-> {1}, processes |-> {p1, p2}, parts |-> {"reports"},
   pull |-> 1, copies |-> 2, broken |-> TRUE, archive |-> 0],
  [files |-> {1, u1}, days |-> {1}, processes |-> {p1, a1}, parts |-> {"reports"},
   pull |-> 1, copies |-> 2, broken |-> TRUE, archive |-> 0],
  [files |-> {1}, days |-> {1, 2}, processes |-> {p1, a1, a2}, parts |-> {"reports"},
   pull |-> 1, copies |-> 2, broken |-> FALSE, archive |-> 1],
  [files |-> {up, att}, days |-> {1}, processes |-> {a1, a2}, parts |-> BothParts,
   pull |-> 0, copies |-> 0, broken |-> FALSE, archive |-> 2],
  [files |-> {up, att}, days |-> {1, 2}, processes |-> {a1, a2}, parts |-> BothParts,
   pull |-> 0, copies |-> 0, broken |-> FALSE, archive |-> 1]}

MCInit == Init /\ cast \in Casts

InCast ==
  /\ available \cup received \subseteq cast.files
  /\ \A f \in cast.files : place["incoming"][f] \in cast.days \cup {Absent}
  /\ \A p \in Puller \ cast.processes : pullPc[p] = "idle"
  /\ \A a \in Archiver \ cast.processes : archPc[a] = "idle"
  /\ \A a \in Archiver : archPc[a] = "idle" \/ options[a].parts = cast.parts
  /\ pullMishaps <= cast.pull /\ archiveMishaps <= cast.archive
  /\ \A r \in Report : pulls[r] <= cast.copies
  /\ cast.broken \/ \A r \in Report : dropped[r] = 0
  /\ cast.broken \/ \A p \in Puller : pullPc[p] # "cut"

\* Beside two archivers the lists of the masters only grow.
MCNext ==
  /\ Next /\ UNCHANGED cast /\ InCast'
  /\ IF a2 \in cast.processes THEN available \subseteq available' ELSE TRUE

MCSpec == MCInit /\ [][MCNext]_<<vars, cast>>
==============================================================================
