----------------------------- MODULE RetracePool -----------------------------
(***************************************************************************)
(* retrace: a pool of threads that share one session works through tasks,  *)
(* one for each debuginfo package (actions/retrace.py, retrace.py, retrace *)
(* of problemtypes/core.py and problemtypes/kerneloops.py).  The callback  *)
(* of a task that ended flushes what all tasks have pending.               *)
(***************************************************************************)
EXTENDS SymbolStore

CONSTANTS Pool, Worker, PoolOf, SiteOf,
          MaxFails  \* values of --max-fail-count, Unlimited for -1

VARIABLES pool,    \* each run: the tasks left, the sources found
          work,    \* each thread: its task, the sources left, the source it is at
          session  \* what is pending in the session of each run

poolVars == <<pool, work, session>>

Unlimited == 99
Idle == [pc |-> "idle", pkg |-> {}, left |-> {}, at |-> {}]
NoRun == [pc |-> "done", tasks |-> {}, chosen |-> {}]

ASSUME PoolAssumption ==
  /\ PoolOf \in [Worker -> Pool] /\ SiteOf \in [Pool -> Site] /\ MaxFails \subseteq Nat

PoolTypeOK ==
  /\ \A p \in Pool : pool[p].pc \in {"done", "run"} /\ pool[p].tasks \subseteq Debuginfo
  /\ \A w \in Worker : /\ work[w].pc \in {"idle", "unpack", "next", "inline", "symbol", "line"}
                       /\ work[w].left \cup work[w].at \subseteq Source

PoolInit ==
  /\ pool = [p \in Pool |-> NoRun] /\ work = [w \in Worker |-> Idle]
  /\ session = [p \in Pool |-> Clean]

WorkersOf(p) == {w \in Worker : PoolOf[w] = p}
Active(s) == {w \in Worker : SiteOf[PoolOf[w]] = s /\ work[w].pc # "idle"}
Unflushed(s) == {p \in Pool : SiteOf[p] = s /\ session[p] # Clean}

\* The debuginfo and the binary of a library, the debuginfo of a kernel.
CorePackages(k) ==
  {d \in {PackageOf[k]} : {d} \X {"debug", "binary"} \subseteq files}
KernelPackages(k) == {d \in {PackageOf[k]} : <<d, "debug">> \in files}
TasksOf(chosen) ==
  UNION {IF TypeOf[k] = "core" THEN CorePackages(k) ELSE KernelPackages(k) : k \in chosen}

\* The first problem type that has something to retrace is the only one: the
\* loop over the types returns from its body.
RetraceStart(p) ==
  LET s == SiteOf[p] IN
  /\ pool[p].pc = "done"
  /\ \E type \in Type, limit \in MaxFails :
       LET chosen == {k \in Needs(s, type) : limit = Unlimited \/ db[s].row[k].fails <= limit} IN
       /\ chosen # {}
       /\ pool' = [pool EXCEPT ![p] = [pc |-> "run", chosen |-> chosen,
                                       tasks |-> TasksOf(chosen)]]
  /\ UNCHANGED <<work, session, storeVars>>

\* A thread of the executor gets the next task.
Submit(w, others) ==
  LET p == PoolOf[w] IN
  /\ pool[p].pc = "run" /\ work[w].pc = "idle"
  /\ \E d \in pool[p].tasks :
       /\ pool' = [pool EXCEPT ![p].tasks = @ \ {d}]
       /\ work' = [work EXCEPT ![w].pc = "unpack", ![w].pkg = {d}]
  /\ overlap' = IF Active(SiteOf[p]) \cup Unflushed(SiteOf[p]) \cup others = {} THEN overlap
                 ELSE overlap \cup {SiteOf[p]}
  /\ UNCHANGED <<session, db, files, failed, late>>

\* A file that is gone, or an offset map that another run stores, ends the
\* task with an exception, which is logged: nothing is flushed.
Unpack(w) ==
  /\ work[w].pc = "unpack"
  /\ \/ work' = [work EXCEPT ![w].pc = "next",
                             ![w].left = {k \in pool[PoolOf[w]].chosen : PackageOf[k] \in work[w].pkg}]
     \/ work' = [work EXCEPT ![w] = Idle]
  /\ UNCHANGED <<pool, session, storeVars>>

Failed(w, k) ==
  LET p == PoolOf[w] IN
  /\ work' = [work EXCEPT ![w].left = @ \ {k}]
  /\ session' = [session EXCEPT ![p].fails = @ \cup {<<k, db[SiteOf[p]].row[k].fails + 1>>}]
Found(w, k) ==
  /\ work' = [work EXCEPT ![w].left = @ \ {k}, ![w].at = {k},
                          ![w].pc = IF InlinedAs[k] = {} THEN "symbol" ELSE "inline"]
  /\ UNCHANGED session

\* eu-unstrip and eu-addr2line for the next source, or a failure to count.
ResolveCore(w) ==
  /\ work[w].pc = "next"
  /\ \E k \in work[w].left : TypeOf[k] = "core" /\ (Failed(w, k) \/ Found(w, k))
  /\ UNCHANGED <<pool, storeVars>>
\* For the kernel other errors than those of faf itself end the task; what it
\* has assigned stays in the session.
ResolveKernel(w) ==
  /\ work[w].pc = "next"
  /\ \E k \in work[w].left :
       /\ TypeOf[k] = "kerneloops"
       /\ \/ Failed(w, k) \/ Found(w, k)
          \/ work' = [work EXCEPT ![w] = Idle] /\ UNCHANGED session
  /\ UNCHANGED <<pool, storeVars>>

At(w) == CHOOSE k \in work[w].at : TRUE

\* Mutant: the line number comes before the symbol.
LineBeforeSymbol(pc) == CASE pc = "inline" -> "line" [] pc = "line" -> "symbol" [] OTHER -> "next"
\* The order of the assignments; a flush may fall between them.
StepAfter(pc) == CASE pc = "inline" -> "symbol" [] pc = "symbol" -> "line" [] OTHER -> "next"
Advance(w) ==
  LET pc == StepAfter(work[w].pc) IN
  work' = [work EXCEPT ![w].pc = pc, ![w].at = IF pc = "next" THEN {} ELSE @]

\* Mutant: new_symbols is not looked into.
NewEach(w, symbols) == {<<<<work[w].pkg, At(w)>>, y>> : y \in symbols \ db[SiteOf[PoolOf[w]]].symbols}
\* Symbols that the database lacks are made once in a task; one that a failed
\* flush threw out of the session gets back into it when it is assigned.
New(w, symbols) == {<<work[w].pkg, y>> : y \in symbols \ db[SiteOf[PoolOf[w]]].symbols}

\* Every frame gets a frame of the inlined function above it, unless it has.
Inline(w) ==
  LET p == PoolOf[w]
      s == SiteOf[p]
  IN
  /\ work[w].pc = "inline"
  /\ session' = [session EXCEPT ![p].new = @ \cup New(w, InlinedAs[At(w)]),
                                ![p].frames = @ \cup (FramesOf(s, At(w)) \ db[s].inlined)]
  /\ Advance(w) /\ UNCHANGED <<pool, storeVars>>

AssignSymbol(q, w) ==
  [q EXCEPT !.new = @ \cup New(w, {FoundAs[At(w)]}),
            !.sym = {x \in @ : x[1] # At(w)} \cup {<<At(w), FoundAs[At(w)]>>}]
AssignLine(q, w) == [q EXCEPT !.line = @ \cup {At(w)}]

SetSymbol(w) ==
  /\ work[w].pc = "symbol"
  /\ session' = [session EXCEPT ![PoolOf[w]] = AssignSymbol(session[PoolOf[w]], w)]
  /\ Advance(w) /\ UNCHANGED <<pool, storeVars>>
SetLine(w) ==
  /\ work[w].pc = "line"
  /\ session' = [session EXCEPT ![PoolOf[w]] = AssignLine(session[PoolOf[w]], w)]
  /\ Advance(w) /\ UNCHANGED <<pool, storeVars>>

\* The task ends, and its callback flushes; a flush that fails throws away
\* what is pending and is logged.
FinishTask(w) ==
  LET p == PoolOf[w] IN
  /\ work[w].pc = "next" /\ work[w].left = {}
  /\ Flush(SiteOf[p], session[p])
  /\ session' = [session EXCEPT ![p] = Clean]
  /\ work' = [work EXCEPT ![w] = Idle]
  /\ UNCHANGED <<pool, files, overlap, late>>

\* All is done, or the run is killed: what is pending is lost.
PoolEnd(p) ==
  /\ pool[p].pc = "run"
  /\ pool[p].tasks = {} /\ \A w \in WorkersOf(p) : work[w].pc = "idle"
  /\ pool' = [pool EXCEPT ![p] = NoRun] /\ session' = [session EXCEPT ![p] = Clean]
  /\ UNCHANGED <<work, storeVars>>
PoolKill(p) ==
  /\ pool[p].pc = "run"
  /\ pool' = [pool EXCEPT ![p] = NoRun] /\ session' = [session EXCEPT ![p] = Clean]
  /\ work' = [w \in Worker |-> IF PoolOf[w] = p THEN Idle ELSE work[w]]
  /\ UNCHANGED storeVars

WorkerStep(w) ==
  \/ Unpack(w) \/ ResolveCore(w) \/ ResolveKernel(w) \/ Inline(w) \/ SetSymbol(w) \/ SetLine(w) \/ FinishTask(w)
==============================================================================
