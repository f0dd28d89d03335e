------------------------------ MODULE Retracing ------------------------------
(***************************************************************************)
(* A server that retraces, a client that asks it, and the save-reports and *)
(* reposync of both.                                                       *)
(***************************************************************************)
EXTENDS RetracePool, SymbolTransfer

vars == <<storeVars, poolVars, transferVars>>

Init == StoreInit /\ PoolInit /\ TransferInit

AskingAt(s) == IF s = Client THEN Asking ELSE {}
Busy(s) == Active(s) # {} \/ Unflushed(s) # {} \/ AskingAt(s) # {}

Start ==
  \/ \E p \in Pool : RetraceStart(p) /\ UNCHANGED transferVars
  \/ \E r \in Remote : RemoteStart(r, Busy(Client)) /\ UNCHANGED poolVars
Outside ==
  /\ \/ \E s \in Site, k \in Source, x \in Report : SaveCore(s, k, x, Busy(s)) \/ SaveKerneloops(s, k, x, Busy(s))
     \/ AddPackage \/ DeletePackage
  /\ UNCHANGED <<poolVars, transferVars>>
Run ==
  \/ \E w \in Worker : Submit(w, AskingAt(SiteOf[PoolOf[w]])) /\ UNCHANGED transferVars
  \/ \E w \in Worker : WorkerStep(w) /\ UNCHANGED transferVars
  \/ \E p \in Pool : (PoolEnd(p) \/ PoolKill(p)) /\ UNCHANGED transferVars
  \/ \E r \in Remote : RemoteStep(r) /\ UNCHANGED poolVars

Next == Start \/ Outside \/ Run
Spec == Init /\ [][Next]_vars

TypeOK == StoreTypeOK /\ PoolTypeOK /\ TransferTypeOK

-----------------------------------------------------------------------------
\* However the flushes of tasks interleave with the work of others, and
\* whatever is killed, a source that has its line number has its symbol, so
\* that symbol_transfer can answer, and on the server the frames it had by then
\* have their inlined frames; only a refused flush, which throws away half of
\* what another task has done, breaks this (core.py, retrace; retrace.py,
\* _future_done_callback).
WholeUnlessFlushFailed ==
  \A s \in Site \ failed, k \in Source :
    db[s].row[k].line =>
      /\ db[s].row[k].sym # {}
      /\ s = Server /\ InlinedAs[k] # {} =>
           \A x \in FramesOf(s, k) : x \in db[s].inlined \/ <<s, x[1], x[2]>> \in late

\* A flush is refused only if two tasks, or a task and another process, were
\* active at once, or a task began on what a failed one had left: within a task
\* the symbols are made once (core.py, retrace, new_symbols; retrace_remote.py,
\* run, new_db_symbols).
SoloNeverFails == failed \subseteq overlap

\* The client has only symbols that the server gave for the same source
\* (retrace_remote.py, run, where answers are matched by their position).
OnlyServedSymbols ==
  \A k \in Source : db[Client].row[k].line => {k} \X db[Client].row[k].sym \subseteq served

\* Unless the sources that need it changed between their count and their list,
\* every one of them is in a batch that was sent (retrace_remote.py, run).
AsksForAll ==
  \A r \in Remote : remote[r].pc = "type" /\ Len(remote[r].rows) = remote[r].total =>
    Range(remote[r].rows) \subseteq remote[r].sent
==============================================================================
