-------------------------------- MODULE Spool --------------------------------
(***************************************************************************)
(* The spool directories of FAF, reports/ and attachments/, each with its  *)
(* incoming, saved and deferred, as the web application, pull-reports,     *)
(* save-reports and archive-reports share them.                            *)
(*                                                                         *)
(* A file is its name: names of uploads are fresh, and a pulled report     *)
(* keeps the name it has at the master, so equal names mean equal texts,   *)
(* unless writing one of them was cut short.                               *)
(* The same name may be in several directories at a time.  What            *)
(* save-reports does with a file before it moves it is in SaveReports;     *)
(* files are whole here (those still being written are there, too).        *)
(***************************************************************************)
EXTENDS Naturals, FiniteSets

CONSTANTS
  Report,     \* ids of reports at the masters, in sort order
  Uuid,       \* random names for pulled files
  Upload,     \* names of uploaded files
  Attachment, \* those that are attachments
  Day         \* dates of modification, in sort order

ASSUME SpoolAssumption ==
  /\ Report \subseteq Nat \ {0} /\ Day \subseteq Nat \ {0}
  /\ Uuid \cap Report = {} /\ (Uuid \cup Report) \cap Upload = {}
  /\ Attachment \subseteq Upload

VARIABLES
  place,    \* the date of each file in each directory
  says,     \* the report in each file of a random name
  received  \* history: files that were ever written into incoming

spoolVars == <<place, says, received>>

File == Report \cup Uuid \cup Upload
Dir == {"incoming", "saved", "deferred"}
Absent == 0
Nothing == 0   \* says of a random name that is not used yet

PartOf(f) == IF f \in Attachment THEN "attachments" ELSE "reports"

SpoolTypeOK ==
  /\ place \in [Dir -> [File -> Day \cup {Absent}]]
  /\ says \in [Uuid -> Report \cup {Nothing}]
  /\ received \in SUBSET File

SpoolInit ==
  /\ place = [d \in Dir |-> [f \in File |-> Absent]]
  /\ says = [u \in Uuid |-> Nothing]
  /\ received = {}

In(d, f) == place[d][f] # Absent

\* Write f into incoming, on any day.
Write(f) ==
  /\ \E today \in Day : place' = [place EXCEPT !["incoming"] = [@ EXCEPT ![f] = today]]
  /\ received' = received \cup {f}

\* A client uploads a report (reports.new) or an attachment (reports.attach)
\* under a fresh name.
UploadFile(f) ==
  /\ f \in Upload \ received
  /\ Write(f)
  /\ UNCHANGED says

\* rename() replaces the file of this name, and keeps the date.
MoveTo(f, d) ==
  place' = [place EXCEPT !["incoming"] = [@ EXCEPT ![f] = Absent],
                         ![d] = [@ EXCEPT ![f] = place["incoming"][f]]]

\* save-reports stores or refuses a file, and moves it out of incoming.
SaveFile(f) ==
  /\ In("incoming", f)
  /\ \E d \in {"saved", "deferred"} : MoveTo(f, d)
  /\ UNCHANGED <<says, received>>

\* The file of this name is removed from directory d.
RemoveFrom(d, f) == place' = [place EXCEPT ![d] = [@ EXCEPT ![f] = Absent]]
==============================================================================
