---------------------------- MODULE SymbolTransfer ----------------------------
(***************************************************************************)
(* retrace-remote: a client asks a server for the symbols of its sources,  *)
(* in batches; the server answers from its database and notes the sources  *)
(* that it does not know, to be retraced (actions/retrace_remote.py,       *)
(* webfaf/blueprints/symbol_transfer.py).                                  *)
(***************************************************************************)
EXTENDS SymbolStore, Sequences, FiniteSets, SequencesExt

CONSTANTS Remote,      \* runs of retrace-remote
          BatchSizes,  \* --batch
          Keys         \* whether the client has the key of the server

ASSUME TransferAssumption == IsFiniteSet(Source)

VARIABLES remote, served  \* served: <<source, symbol>> that the server has answered

transferVars == <<remote, served>>

NotAsking == [pc |-> "done", types |-> {}, size |-> 1, key |-> FALSE, total |-> 0, rows |-> <<>>, taken |-> 0,
              batch |-> <<>>, answers |-> <<>>, sent |-> {}, pending |-> Clean]

TransferInit == remote = [r \in Remote |-> NotAsking] /\ served = {}

TransferTypeOK ==
  /\ served \subseteq Source \X Symbol
  /\ \A r \in Remote : /\ remote[r].pc \in {"done", "type", "list", "take", "post", "receive", "store"}
                       /\ Range(remote[r].batch) \subseteq Range(remote[r].rows)

Asking == {r \in Remote : remote[r].pc # "done"}

RemoteStart(r, busy) ==
  /\ remote[r].pc = "done"
  /\ \E types \in SUBSET Type, n \in BatchSizes, key \in Keys :
       /\ types # {}
       /\ remote' = [remote EXCEPT ![r] = [NotAsking EXCEPT !.pc = "type", !.types = types, !.size = n,
                                                            !.key = key]]
  /\ overlap' = IF busy THEN overlap \cup {Client} ELSE overlap
  /\ UNCHANGED <<served, db, files, failed, late>>

\* The sources are counted, and later listed by the same query.
NextType(r) ==
  /\ remote[r].pc = "type"
  /\ IF remote[r].types = {} THEN remote' = [remote EXCEPT ![r] = NotAsking]
     ELSE \E t \in remote[r].types :
            remote' = [remote EXCEPT ![r].pc = IF Needs(Client, t) = {} THEN "type" ELSE "list",
                                     ![r].types = IF Needs(Client, t) = {} THEN @ \ {t} ELSE @,
                                     ![r].total = Cardinality(Needs(Client, t)),
                                     ![r].rows = <<>>, ![r].sent = {}]
  /\ UNCHANGED <<served, storeVars>>

ListSources(r) ==
  /\ remote[r].pc = "list"
  /\ \E t \in remote[r].types, rows \in SetToSeqs(Needs(Client, "core")) \cup SetToSeqs(Needs(Client, "kerneloops")) :
       /\ Range(rows) = Needs(Client, t)
       /\ remote' = [remote EXCEPT ![r].pc = "take", ![r].types = @ \ {t}, ![r].rows = rows, ![r].taken = 0]
  /\ UNCHANGED <<served, storeVars>>

\* Mutant: only full batches are sent.
FullOnly(r, i) == Len(remote[r].batch) + 1 >= remote[r].size
Full(r, i) == Len(remote[r].batch) + 1 >= remote[r].size \/ i = remote[r].total

Take(r) ==
  LET i == remote[r].taken + 1 IN
  /\ remote[r].pc = "take"
  /\ \/ /\ i > Len(remote[r].rows)
        /\ remote' = [remote EXCEPT ![r].pc = "type", ![r].batch = <<>>]
     \/ /\ i <= Len(remote[r].rows)
        /\ remote' = [remote EXCEPT ![r].taken = i, ![r].batch = Append(@, remote[r].rows[i]),
             ![r].pc = IF Full(r, i) THEN "post" ELSE "take",
             ![r].sent = IF Full(r, i) THEN @ \cup Range(remote[r].batch) \cup {remote[r].rows[i]} ELSE @]
  /\ UNCHANGED <<served, storeVars>>

DropBatch(r) ==
  remote' = [remote EXCEPT ![r].pc = "take", ![r].batch = <<>>, ![r].answers = <<>>]

Answer(r, answer) == remote' = [remote EXCEPT ![r].answers = Append(@, answer)]

\* The server answers the next item, with nothing but an error if it has no row
\* or no line for it; a row without a symbol makes the request fail.
Serve(r) ==
  LET k == remote[r].batch[Len(remote[r].answers) + 1]
      row == db[Server].row[k]
  IN
  /\ remote[r].pc = "post" /\ Len(remote[r].answers) < Len(remote[r].batch)
  /\ IF ~row.known /\ remote[r].key
     THEN /\ db' = [db EXCEPT ![Server].row[k].known = TRUE,
                              ![Server].frames = @ \cup {<<k, Dummy>>}]
          /\ Answer(r, {}) /\ UNCHANGED served
     ELSE /\ UNCHANGED db
          /\ \/ ~row.line /\ Answer(r, {}) /\ UNCHANGED served
             \/ row.line /\ row.sym = {} /\ DropBatch(r) /\ UNCHANGED served
             \/ row.line /\ row.sym # {} /\ Answer(r, row.sym)
                         /\ served' = served \cup ({k} \X row.sym)
  /\ UNCHANGED <<files, failed, overlap, late>>

\* The request fails, or two requests create the same row.
RequestFails(r) ==
  /\ remote[r].pc = "post" /\ DropBatch(r)
  /\ UNCHANGED <<served, storeVars>>

Answered(r) ==
  /\ remote[r].pc = "post" /\ Len(remote[r].answers) = Len(remote[r].batch)
  /\ remote' = [remote EXCEPT ![r].pc = "receive"]
  /\ UNCHANGED <<served, storeVars>>

\* Mutant: the answers without errors, one after the other.
PairsCompact(r) ==
  LET good == SelectSeq(remote[r].answers, LAMBDA a : a # {}) IN
  {<<remote[r].batch[i], good[i]>> : i \in DOMAIN good}
Pairs(r) == {<<remote[r].batch[i], remote[r].answers[i]>> : i \in {j \in DOMAIN remote[r].batch : remote[r].answers[j] # {}}}

\* What was answered is assigned to the rows of the batch; symbols are looked
\* up by name and path.
Receive(r) ==
  LET symbols == UNION {x[2] : x \in Pairs(r)} IN
  /\ remote[r].pc = "receive"
  /\ remote' = [remote EXCEPT ![r].pc = "store",
       ![r].pending = [Clean EXCEPT !.new = {r} \X (symbols \ db[Client].symbols),
                                    !.sym = UNION {{x[1]} \X x[2] : x \in Pairs(r)},
                                    !.line = {x[1] : x \in Pairs(r)}]]
  /\ UNCHANGED <<served, storeVars>>

\* A refused flush ends the run.
Store(r) ==
  /\ remote[r].pc = "store"
  /\ Flush(Client, remote[r].pending)
  /\ \/ /\ Conflict(Client, remote[r].pending)
        /\ remote' = [remote EXCEPT ![r] = NotAsking]
     \/ /\ ~Conflict(Client, remote[r].pending)
        /\ remote' = [remote EXCEPT ![r].pc = "take", ![r].batch = <<>>, ![r].answers = <<>>, ![r].pending = Clean]
  /\ UNCHANGED <<served, files, overlap, late>>

RemoteStep(r) ==
  \/ NextType(r) \/ ListSources(r) \/ Take(r) \/ Serve(r) \/ RequestFails(r)
  \/ Answered(r) \/ Receive(r) \/ Store(r)
==============================================================================
