--------------------------------- MODULE Inbox ---------------------------------
(***************************************************************************)
(* What the web application does with an uploaded uReport (reports.py,     *)
(* new): it is checked, looked up and written for save-reports, or kept as *)
(* an invalid uReport, which delete-invalid-ureports removes; systems that *)
(* nobody knows are counted.                                               *)
(*                                                                         *)
(* An upload is [form, u, long]: whether it is no JSON, a number or null   *)
(* (scalar), a list or a string (list), or a dictionary, its uReport, and  *)
(* whether it is longer than a lob may be.                                 *)
(***************************************************************************)
EXTENDS ProbableFix

CONSTANTS
  Request, Cleaner,
  Upload,      \* what clients upload
  Systems,     \* systems with a plugin
  KnownTypes,  \* ureport.known
  BugsOf,      \* bugs of reports: [report, release, private]
  Major,       \* of each release its major version
  Dotted       \* releases that have a minor version

VARIABLES
  invalids,   \* the invalid uReports stored, by the request that sent them: new or old
  texts,      \* those whose text is on disk
  strangers,  \* rows of unknown systems: <<system, request>> -> count
  incoming,   \* the uReports written for save-reports
  request, cleaner,
  crossed,    \* requests that met a deletion
  crowded     \* systems that two requests counted at once

inboxVars == <<invalids, texts, strangers, incoming, request, cleaner, crossed, crowded>>

NoRequest == [pc |-> "idle", body |-> {}, seen |-> {}, known |-> FALSE, status |-> 0]
NoCleaner == [pc |-> "idle", todo |-> {}, old |-> FALSE]
InboxInit ==
  /\ invalids = <<>> /\ texts = {} /\ strangers = <<>> /\ incoming = {} /\ crossed = {} /\ crowded = {}
  /\ request = [r \in Request |-> NoRequest] /\ cleaner = [c \in Cleaner |-> NoCleaner]

Body(r) == Only(request[r].body)
Active == {r \in Request : request[r].pc \notin {"idle", "done"}}
Cleaning == {c \in Cleaner : cleaner[c].pc # "idle"}
To(r, pc) == request' = [request EXCEPT ![r].pc = pc]
Answered(r, status) == request' = [request EXCEPT ![r].pc = "done", ![r].status = status]

-----------------------------------------------------------------------------
(* A request. *)
Accepted(u) == u.os \in Systems /\ Valid(Completed(u)) /\ PackagesValid(u)
Refused(b) == b.form # "dict" \/ ~Accepted(b.u)
Stranger(b) == b.form = "dict" /\ b.u.os \notin Systems

\* The handler of the failed check looks for keys in what it has, which a scalar
\* makes fail, too; a list or a string has none of them.
Receive(r, b) ==
  /\ request[r].pc = "idle"
  /\ request' = [request EXCEPT ![r] = [NoRequest EXCEPT !.body = {b},
       !.pc = IF b.form = "scalar" THEN "done" ELSE IF Refused(b) THEN "invalid"
              ELSE IF b.long THEN "done" ELSE "look up",
       !.status = IF b.form = "scalar" THEN 500 ELSE IF ~Refused(b) /\ b.long THEN 413 ELSE 0]]
  /\ crossed' = IF Cleaning = {} THEN crossed ELSE crossed \cup {r}
  /\ UNCHANGED <<invalids, texts, strangers, incoming, cleaner, crowded, serverVars, fixVars>>

\* The row is committed before its text is written.  What goes wrong is logged.
SaveInvalid(r) ==
  /\ request[r].pc = "invalid"
  /\ invalids' = Put(invalids, r, "new") /\ To(r, "text")
  /\ UNCHANGED <<texts, strangers, incoming, cleaner, crossed, crowded, serverVars, fixVars>>
AfterInvalid(r) == IF Stranger(Body(r)) THEN To(r, "system") ELSE Answered(r, 400)
InvalidUnsaved(r) ==
  /\ request[r].pc = "invalid" /\ AfterInvalid(r)
  /\ UNCHANGED <<invalids, texts, strangers, incoming, cleaner, crossed, crowded, serverVars, fixVars>>
\* The id of the row is read again after the commit.
ReadId(r) ==
  /\ request[r].pc = "text"
  /\ IF r \in DOMAIN invalids THEN To(r, "write") ELSE AfterInvalid(r)
  /\ UNCHANGED <<invalids, texts, strangers, incoming, cleaner, crossed, crowded, serverVars, fixVars>>
\* A text that is too long is refused when its file has been made already.
SaveText(r) ==
  /\ request[r].pc = "write" /\ texts' = texts \cup {r} /\ AfterInvalid(r)
  /\ UNCHANGED <<invalids, strangers, incoming, cleaner, crossed, crowded, serverVars, fixVars>>

RowsOfSystem(os) == {k \in DOMAIN strangers : k[1] = os}
FindSystem(r) ==
  LET os == Body(r).u.os
      peers == {q \in Active \ {r} : request[q].pc = "count" /\ Body(q).u.os = os}
  IN
  /\ request[r].pc = "system"
  /\ \E seen \in IF RowsOfSystem(os) = {} THEN {{}} ELSE {{<<k, strangers[k]>>} : k \in RowsOfSystem(os)} :
       request' = [request EXCEPT ![r].pc = "count", ![r].seen = seen]
  /\ crowded' = crowded \cup IF peers = {} THEN {} ELSE {os}
  /\ UNCHANGED <<invalids, texts, strangers, incoming, cleaner, crossed, serverVars, fixVars>>
CountSystem(r) ==
  /\ request[r].pc = "count"
  /\ strangers' = IF request[r].seen = {} THEN Put(strangers, <<Body(r).u.os, r>>, 1)
                  ELSE [strangers EXCEPT ![Only(request[r].seen)[1]] = Only(request[r].seen)[2] + 1]
  /\ Answered(r, 400)
  /\ UNCHANGED <<invalids, texts, incoming, cleaner, crossed, crowded, serverVars, fixVars>>

\* Whether the uReport is known, by what the configuration takes for known.
IsKnown(u) ==
  LET full == Completed(u)
      bugs == {b \in BugsOf : b.report = Hash(full)}
  IN
  /\ ~HashFails(full) /\ Hash(full) \in reports
  /\ KnownTypes \subseteq {"EQUAL_UREPORT_EXISTS", "BUG_OS_MINOR_VERSION", "BUG_OS_MAJOR_VERSION"}
  /\ IF "EQUAL_UREPORT_EXISTS" \in KnownTypes THEN <<"release", Hash(full), u.release, "">> \in DOMAIN rows
     ELSE \/ "BUG_OS_MINOR_VERSION" \in KnownTypes /\ \E b \in bugs : b.release = u.release
          \/ "BUG_OS_MAJOR_VERSION" \in KnownTypes /\ \E b \in bugs : b.release \in Dotted /\ Major[b.release] = Major[u.release]
          \/ KnownTypes = {} /\ \E b \in bugs : b.release = u.release /\ ~b.private
LookUp(r) ==
  /\ request[r].pc = "look up"
  /\ \/ Answered(r, 503)
     \/ request' = [request EXCEPT ![r].pc = "file", ![r].known = IsKnown(Body(r).u)]
  /\ UNCHANGED <<invalids, texts, strangers, incoming, cleaner, crossed, crowded, serverVars, fixVars>>
WriteUReport(r) ==
  /\ request[r].pc = "file" /\ incoming' = incoming \cup {r} /\ To(r, "answer")
  /\ UNCHANGED <<invalids, texts, strangers, cleaner, crossed, crowded, serverVars, fixVars>>
\* Solutions and bugs are looked up after the uReport has been written.
Answer(r) ==
  /\ request[r].pc = "answer" /\ \E status \in {202, 503} : Answered(r, status)
  /\ UNCHANGED <<invalids, texts, strangers, incoming, cleaner, crossed, crowded, serverVars, fixVars>>

RequestStep(r) ==
  \/ SaveInvalid(r) \/ InvalidUnsaved(r) \/ ReadId(r) \/ SaveText(r) \/ FindSystem(r) \/ CountSystem(r)
  \/ LookUp(r) \/ WriteUReport(r) \/ Answer(r)

-----------------------------------------------------------------------------
(* delete-invalid-ureports, with an age or without. *)
Matching(old) == {r \in DOMAIN invalids : old => invalids[r] = "old"}
CleanStart(c, old) ==
  /\ cleaner[c].pc = "idle"
  /\ cleaner' = [cleaner EXCEPT ![c] = [pc |-> "texts", todo |-> Matching(old), old |-> old]]
  /\ crossed' = crossed \cup Active
  /\ UNCHANGED <<invalids, texts, strangers, incoming, request, crowded, serverVars, fixVars>>
\* Mutant: the rows are deleted and their texts are not.
KeepText(c) ==
  /\ cleaner[c].pc = "texts" /\ texts' = texts
  /\ \E r \in cleaner[c].todo : cleaner' = [cleaner EXCEPT ![c].todo = @ \ {r}]
  /\ UNCHANGED <<invalids, strangers, incoming, request, crossed, crowded, serverVars, fixVars>>
CleanText(c) ==
  /\ cleaner[c].pc = "texts"
  /\ \E r \in cleaner[c].todo : texts' = texts \ {r} /\ cleaner' = [cleaner EXCEPT ![c].todo = @ \ {r}]
  /\ UNCHANGED <<invalids, strangers, incoming, request, crossed, crowded, serverVars, fixVars>>
\* The query is run again to delete what it finds now.
CleanRows(c) ==
  /\ cleaner[c].pc = "texts" /\ cleaner[c].todo = {}
  /\ invalids' = [r \in DOMAIN invalids \ Matching(cleaner[c].old) |-> invalids[r]]
  /\ cleaner' = [cleaner EXCEPT ![c] = NoCleaner]
  /\ UNCHANGED <<texts, strangers, incoming, request, crossed, crowded, serverVars, fixVars>>
CleanKilled(c) ==
  /\ cleaner[c].pc = "texts" /\ cleaner' = [cleaner EXCEPT ![c] = NoCleaner]
  /\ crossed' = crossed \cup DOMAIN invalids
  /\ UNCHANGED <<invalids, texts, strangers, incoming, request, crowded, serverVars, fixVars>>
CleanerStep(c) == CleanText(c) \/ CleanRows(c) \/ CleanKilled(c)
\* Time passes between the runs of the action.
Age ==
  /\ Cleaning = {} /\ invalids' = [r \in DOMAIN invalids |-> "old"]
  /\ UNCHANGED <<texts, strangers, incoming, request, cleaner, crossed, crowded, serverVars, fixVars>>

-----------------------------------------------------------------------------
(* Invariants of texts and rows, and of the counts of unknown systems.     *)

Names == {b.u.os : b \in Upload}
RequestPc == {"idle", "done", "invalid", "text", "write", "system", "count",
              "look up", "file", "answer"}
ARequest == [pc : RequestPc, body : SUBSET Upload,
             seen : SUBSET ((Names \X Request) \X Nat), known : BOOLEAN,
             status : Nat]
ACleaner == [pc : {"idle", "texts"}, todo : SUBSET Request, old : BOOLEAN]

InboxTypeOK ==
  /\ DOMAIN invalids \subseteq Request
  /\ texts \subseteq Request
  /\ strangers \in [DOMAIN strangers -> Nat]
  /\ DOMAIN strangers \subseteq Names \X Request
  /\ incoming \subseteq Request
  /\ request \in [Request -> ARequest]
  /\ cleaner \in [Cleaner -> ACleaner]
  /\ crossed \subseteq Request
  /\ crowded \subseteq Names

\* What a request is about does not change while it is at work, and only one
\* that was refused for its system counts it.
BodyInv ==
  \A r \in Request :
    /\ request[r].pc # "idle" => \E b \in Upload : request[r].body = {b}
    /\ request[r].pc \in {"system", "count"} => Stranger(Body(r))
    /\ request[r].pc \in {"look up", "file", "answer"} => ~Stranger(Body(r))

Meets(c, r) == cleaner[c].pc = "texts" /\ r \in Matching(cleaner[c].old)

\* An answered request: its row has its text, unless a deletion is at work that
\* deletes the row once it has deleted the text.
Settled(r) ==
  /\ r \in texts => r \in DOMAIN invalids
  /\ r \in DOMAIN invalids => r \in texts \/ \E c \in Cleaner : Meets(c, r)
  /\ \A c \in Cleaner :
       /\ Meets(c, r) => r \in cleaner[c].todo \/ r \notin texts
       /\ cleaner[c].pc = "texts" /\ r \in cleaner[c].todo /\ r \in DOMAIN invalids
            => Meets(c, r)

TextInv(r) ==
  /\ request[r].pc \in {"idle", "invalid", "look up", "file", "answer"}
       => r \notin DOMAIN invalids /\ r \notin texts
  /\ r \notin crossed =>
       /\ request[r].pc \in {"text", "write"} => r \in DOMAIN invalids /\ r \notin texts
       /\ request[r].pc \in {"system", "count"} => (r \in texts <=> r \in DOMAIN invalids)
       /\ request[r].pc \notin {"idle", "done"} => Cleaning = {}
       /\ request[r].pc = "done" => Settled(r)

Counting(r, os) == request[r].pc = "count" /\ Body(r).u.os = os
Tallied(os) == {r \in Request : request[r].pc = "done" /\ Stranger(Body(r)) /\ Body(r).u.os = os}

\* What a request about to count a system has read is a row of that system.
SeenInv ==
  \A r \in Request :
    request[r].pc = "count" /\ request[r].seen # {} =>
      \E x \in request[r].seen :
        request[r].seen = {x} /\ x[1] \in RowsOfSystem(Body(r).u.os)

\* Unless two requests counted it at once, a system has one row at most, which is
\* what the one that counts it has read.
SystemInv(os) ==
  /\ \A k, l \in RowsOfSystem(os) : k = l
  /\ RowsOfSystem(os) = {} => Tallied(os) = {}
  /\ \A k \in RowsOfSystem(os) : strangers[k] = Cardinality(Tallied(os))
  /\ \A r, q \in Request : Counting(r, os) /\ Counting(q, os) => r = q
  /\ \A r \in Request :
       Counting(r, os) =>
         request[r].seen = {<<k, strangers[k]>> : k \in RowsOfSystem(os)}

InboxInv ==
  /\ InboxTypeOK /\ BodyInv /\ SeenInv
  /\ \A r \in Request : TextInv(r)
  /\ \A os \in Names \ crowded : SystemInv(os)
==============================================================================
