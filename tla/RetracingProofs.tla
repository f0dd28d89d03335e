---------------------------- MODULE RetracingProofs ----------------------------
(***************************************************************************)
(* That retracing stores sources whole, that a flush is refused only under *)
(* overlap, and that a client gets the answers to its own questions, for   *)
(* any sources, packages, threads and runs.                                *)
(***************************************************************************)
EXTENDS Retracing, FiniteSetTheorems, TLAPS

Frame == Source \X (Report \cup {Dummy})
Row == [known : BOOLEAN, sym : SUBSET Symbol, line : BOOLEAN, fails : Nat]
Tables == [row : [Source -> Row], symbols : SUBSET Symbol, frames : SUBSET Frame, inlined : SUBSET Frame]
Pending == [new : SUBSET (((SUBSET Debuginfo) \cup Remote) \X Symbol), sym : SUBSET (Source \X Symbol),
            line : SUBSET Source, fails : SUBSET (Source \X Nat), frames : SUBSET Frame]
Task == [pc : {"idle", "unpack", "next", "inline", "symbol", "line"}, pkg : SUBSET Debuginfo,
         left : SUBSET Source, at : SUBSET Source]
Run1 == [pc : {"done", "run"}, tasks : SUBSET Debuginfo, chosen : SUBSET Source]
Asker == [pc : {"done", "type", "list", "take", "post", "receive", "store"}, types : SUBSET Type,
          size : BatchSizes \cup {1}, key : Keys \cup {FALSE}, total : Nat, rows : Seq(Source), taken : Nat,
          batch : Seq(Source), answers : Seq(SUBSET Symbol), sent : SUBSET Source, pending : Pending]

\* The shapes of the variables.
StoreShape == db \in [Site -> Tables] /\ failed \subseteq Site /\ overlap \subseteq Site
Placed(w) == work[w].pc \in {"inline", "symbol", "line"} => \E k \in Source : work[w].at = {k}
PoolShape ==
  /\ pool \in [Pool -> Run1] /\ work \in [Worker -> Task] /\ session \in [Pool -> Pending]
  /\ \A w \in Worker : Placed(w)
Paired(r) ==
  /\ remote[r].pc \in {"done", "type", "list", "take"} => remote[r].answers = <<>>
  /\ remote[r].pc = "post" => Len(remote[r].answers) <= Len(remote[r].batch)
  /\ remote[r].pc = "receive" => Len(remote[r].answers) = Len(remote[r].batch)
AskerShape == remote \in [Remote -> Asker] /\ \A r \in Remote : Paired(r)
Shape == StoreShape /\ PoolShape /\ AskerShape

\* A session with nothing pending has the shape of one.
LEMMA CleanPending == Clean \in Pending
  BY DEF Clean, Pending

\* The shapes hold at the start.
LEMMA InitShape == ASSUME Init PROVE Shape
<1>1. StoreShape
  <2>1. NoRow \in Row
    BY DEF NoRow, Row
  <2>2. Empty \in Tables
    BY <2>1 DEF Empty, Tables
  <2> QED BY <2>2 DEF Init, StoreInit, StoreShape
<1>2. PoolShape
  BY CleanPending DEF Init, PoolInit, PoolShape, NoRun, Run1, Idle, Task, Placed
<1>3. AskerShape
  BY CleanPending DEF Init, TransferInit, AskerShape, NotAsking, Asker, Paired
<1> QED BY <1>1, <1>2, <1>3 DEF Shape

-----------------------------------------------------------------------------
\* What a saved backtrace changes (kerneloops.py, core.py, save_ureport).
LEMMA SaveEffect ==
  ASSUME StoreShape, NEW s \in Site, NEW k \in Source, NEW x \in Report, NEW busy \in BOOLEAN,
         SaveBacktrace(s, k, x, busy)
  PROVE  /\ StoreShape'
         /\ \A t \in Site \ {s} : db'[t] = db[t]
         /\ db'[s].inlined = db[s].inlined /\ db'[s].frames = db[s].frames \cup {<<k, x>>}
         /\ db'[s].symbols = db[s].symbols \cup NamedAs[k]
         /\ \A j \in Source : j # k \/ db[s].row[j].known => db'[s].row[j] = db[s].row[j]
         /\ db'[s].row[k].known
         /\ ~db[s].row[k].known => ~db'[s].row[k].line /\ db'[s].row[k].sym = NamedAs[k]
         /\ failed' = failed /\ overlap' = IF busy THEN overlap \cup {s} ELSE overlap
         /\ late' = IF busy \/ db[s].row[k].line THEN late \cup {<<s, k, x>>} ELSE late
<1> DEFINE row == IF db[s].row[k].known THEN db[s].row[k] ELSE [NoRow EXCEPT !.known = TRUE, !.sym = NamedAs[k]]
           new == [db[s] EXCEPT !.row = [@ EXCEPT ![k] = row], !.symbols = @ \cup NamedAs[k],
                                !.frames = @ \cup {<<k, x>>}]
<1>1. db[s] \in Tables /\ db \in [Site -> Tables]
  BY DEF StoreShape
<1>2. row \in Row /\ NamedAs[k] \subseteq Symbol
  BY <1>1, StoreAssumption DEF Tables, Row, NoRow
<1>3. new \in Tables
  <2>1. <<k, x>> \in Frame /\ db[s].symbols \cup NamedAs[k] \subseteq Symbol
    BY <1>1, <1>2 DEF Tables, Frame
  <2>2. [db[s].row EXCEPT ![k] = row] \in [Source -> Row]
    BY <1>1, <1>2 DEF Tables
  <2> HIDE DEF row
  <2> QED BY <1>1, <2>1, <2>2 DEF Tables
<1>4. db' = [db EXCEPT ![s] = new]
  BY <1>1 DEF SaveBacktrace, Tables
<1>5. /\ new.row = [db[s].row EXCEPT ![k] = row] /\ new.inlined = db[s].inlined
      /\ new.symbols = db[s].symbols \cup NamedAs[k] /\ new.frames = db[s].frames \cup {<<k, x>>}
  BY <1>1 DEF Tables
<1>6. db'[s] = new /\ \A t \in Site \ {s} : db'[t] = db[t]
  BY <1>1, <1>4
<1>7. /\ \A j \in Source : j # k \/ db[s].row[j].known => db'[s].row[j] = db[s].row[j]
      /\ db'[s].row[k] = row
  BY <1>1, <1>5, <1>6 DEF Tables
<1>8. row.known /\ (~db[s].row[k].known => ~row.line /\ row.sym = NamedAs[k])
  BY DEF NoRow
<1>9. StoreShape'
  BY <1>1, <1>3, <1>4 DEF StoreShape, SaveBacktrace
<1> HIDE DEF row, new
<1> QED BY <1>5, <1>6, <1>7, <1>8, <1>9 DEF SaveBacktrace

\* What a flush changes (storage/__init__.py, _flush_session): either nothing,
\* or all that is pending is in the tables.
LEMMA FlushEffect ==
  ASSUME StoreShape, NEW s \in Site, NEW q \in Pending, Flush(s, q)
  PROVE  /\ db' \in [Site -> Tables] /\ failed' \subseteq Site
         /\ Conflict(s, q) => db' = db /\ failed' = failed \cup {s}
         /\ ~Conflict(s, q) =>
              /\ failed' = failed
              /\ \A t \in Site \ {s} : db'[t] = db[t]
              /\ db'[s].symbols = db[s].symbols \cup {x[2] : x \in q.new}
              /\ db'[s].frames = db[s].frames /\ db'[s].inlined = db[s].inlined \cup q.frames
              /\ \A k \in Source :
                   /\ db'[s].row[k].known = db[s].row[k].known
                   /\ db'[s].row[k].line = (db[s].row[k].line \/ k \in q.line)
                   /\ (\A x \in q.sym : x[1] # k) => db'[s].row[k].sym = db[s].row[k].sym
                   /\ (\E x \in q.sym : x[1] = k) => \E y \in Symbol : <<k, y>> \in q.sym /\ db'[s].row[k].sym = {y}
<1>1. db[s] \in Tables /\ db \in [Site -> Tables]
  BY DEF StoreShape
<1>2. CASE Conflict(s, q)
  BY <1>2 DEF Flush, StoreShape
<1>3. CASE ~Conflict(s, q)
  <2> DEFINE named(k) == IF \E x \in q.sym : x[1] = k THEN {(CHOOSE x \in q.sym : x[1] = k)[2]} ELSE db[s].row[k].sym
             counted(k) == IF \E x \in q.fails : x[1] = k THEN (CHOOSE x \in q.fails : x[1] = k)[2]
                           ELSE db[s].row[k].fails
             row(k) == [db[s].row[k] EXCEPT !.sym = named(k), !.line = @ \/ k \in q.line, !.fails = counted(k)]
             new == [db[s] EXCEPT !.symbols = @ \cup {x[2] : x \in q.new}, !.inlined = @ \cup q.frames,
                                  !.row = [k \in Source |-> row(k)]]
  <2>1. failed' = failed /\ db' = [db EXCEPT ![s] = Written(@, q)]
    BY <1>3 DEF Flush
  <2>2. Written(db[s], q) = new
    <3>1. \A k \in Source : WrittenRow(db[s].row[k], k, q) = row(k)
      BY DEF WrittenRow
    <3> HIDE DEF row
    <3> QED BY <3>1 DEF Written
  <2>3. ASSUME NEW k \in Source
        PROVE  /\ row(k) \in Row /\ row(k).known = db[s].row[k].known
               /\ row(k).line = (db[s].row[k].line \/ k \in q.line)
               /\ (\A x \in q.sym : x[1] # k) => row(k).sym = db[s].row[k].sym
               /\ (\E x \in q.sym : x[1] = k) => \E y \in Symbol : <<k, y>> \in q.sym /\ row(k).sym = {y}
    <3>1. db[s].row[k] \in Row
      BY <1>1 DEF Tables
    <3>2. counted(k) \in Nat
      <4>1. CASE \E x \in q.fails : x[1] = k
        <5>1. PICK x \in q.fails : x = (CHOOSE z \in q.fails : z[1] = k)
          BY <4>1
        <5> QED BY <4>1, <5>1 DEF Pending
      <4> QED BY <3>1, <4>1 DEF Row
    <3>3. CASE \E x \in q.sym : x[1] = k
      <4>1. PICK x \in q.sym : x = (CHOOSE z \in q.sym : z[1] = k) /\ x[1] = k
        BY <3>3
      <4>2. named(k) = {x[2]}
        BY <3>3, <4>1
      <4>3. x[2] \in Symbol /\ x = <<k, x[2]>>
        BY <4>1 DEF Pending
      <4> HIDE DEF named, counted
      <4> QED BY <3>1, <3>2, <3>3, <4>1, <4>2, <4>3 DEF Row
    <3>4. CASE ~\E x \in q.sym : x[1] = k
      <4>1. named(k) = db[s].row[k].sym
        BY <3>4
      <4> HIDE DEF named, counted
      <4> QED BY <3>1, <3>2, <3>4, <4>1 DEF Row
    <3> QED BY <3>3, <3>4
  <2> HIDE DEF row
  <2>4. /\ new.row = [k \in Source |-> row(k)] /\ new.frames = db[s].frames
        /\ new.symbols = db[s].symbols \cup {x[2] : x \in q.new} /\ new.inlined = db[s].inlined \cup q.frames
    BY <1>1 DEF Tables
  <2>5. new \in Tables
    <3>1. {x[2] : x \in q.new} \subseteq Symbol /\ q.frames \subseteq Frame
      BY DEF Pending
    <3> QED BY <1>1, <2>3, <3>1 DEF Tables
  <2> HIDE DEF new
  <2>6. db'[s] = new /\ (\A t \in Site \ {s} : db'[t] = db[t]) /\ db' \in [Site -> Tables]
    BY <1>1, <2>1, <2>2, <2>5
  <2>7. \A k \in Source : db'[s].row[k] = row(k)
    BY <2>4, <2>6
  <2> QED BY <1>3, <2>1, <2>3, <2>4, <2>6, <2>7 DEF StoreShape
<1> QED BY <1>2, <1>3

\* A symbol that is assigned is there after the flush.
LEMMA FlushSym ==
  ASSUME StoreShape, NEW s \in Site, NEW q \in Pending, Flush(s, q), ~Conflict(s, q),
         NEW k \in Source, \E x \in q.sym : x[1] = k
  PROVE  db'[s].row[k].sym # {}
<1>1. \A j \in Source :
        /\ db'[s].row[j].known = db[s].row[j].known
        /\ db'[s].row[j].line = (db[s].row[j].line \/ j \in q.line)
        /\ (\A x \in q.sym : x[1] # j) => db'[s].row[j].sym = db[s].row[j].sym
        /\ (\E x \in q.sym : x[1] = j) => \E y \in Symbol : <<j, y>> \in q.sym /\ db'[s].row[j].sym = {y}
  BY FlushEffect, Zenon
<1>2. PICK y \in Symbol : <<k, y>> \in q.sym /\ db'[s].row[k].sym = {y}
  BY <1>1, Zenon
<1> QED BY <1>2

\* What an answer of the server changes (symbol_transfer.py, process_symbol).
LEMMA ServeEffect ==
  ASSUME Shape, NEW r \in Remote, Serve(r)
  PROVE  \E k \in Source :
           /\ k = remote[r].batch[Len(remote[r].answers) + 1] /\ Len(remote[r].answers) + 1 \in DOMAIN remote[r].batch
           /\ Len(remote[r].answers) < Len(remote[r].batch)
           /\ db' \in [Site -> Tables] /\ \A t \in Site \ {Server} : db'[t] = db[t]
           /\ db'[Server].symbols = db[Server].symbols /\ db'[Server].inlined = db[Server].inlined
           /\ db[Server].frames \subseteq db'[Server].frames
           /\ db'[Server].frames \subseteq db[Server].frames \cup {<<k, Dummy>>}
           /\ db'[Server].frames # db[Server].frames => ~db[Server].row[k].known /\ db'[Server].row[k].known
           /\ \A j \in Source : /\ db'[Server].row[j].sym = db[Server].row[j].sym
                                /\ db'[Server].row[j].line = db[Server].row[j].line
                                /\ db[Server].row[j].known => db'[Server].row[j].known
<1> DEFINE k == remote[r].batch[Len(remote[r].answers) + 1]
           d == db[Server]
           row == [d.row EXCEPT ![k] = [d.row[k] EXCEPT !.known = TRUE]]
           new == [d EXCEPT !.row = row, !.frames = d.frames \cup {<<k, Dummy>>}]
<1> HIDE DEF row, new
<1>1. remote[r] \in Asker /\ Len(remote[r].answers) < Len(remote[r].batch) /\ d \in Tables /\ db \in [Site -> Tables]
      /\ Server \in Site
  BY DEF Serve, Shape, AskerShape, StoreShape, Site
<1>2. k \in Source /\ Len(remote[r].answers) + 1 \in DOMAIN remote[r].batch
  <2>1. remote[r].answers \in Seq(SUBSET Symbol) /\ remote[r].batch \in Seq(Source)
    BY <1>1 DEF Asker
  <2> QED BY <1>1, <2>1
<1> HIDE DEF k
<1>3. CASE db' = db
  <2> SUFFICES k \in Source /\ Len(remote[r].answers) + 1 \in DOMAIN remote[r].batch
               /\ Len(remote[r].answers) < Len(remote[r].batch)
    BY <1>1, <1>3 DEF k
  <2> QED BY <1>1, <1>2
<1>4. CASE db' = [db EXCEPT ![Server].row[k].known = TRUE, ![Server].frames = @ \cup {<<k, Dummy>>}] /\ ~d.row[k].known
  <2>1. db' = [db EXCEPT ![Server] = new]
    BY <1>1, <1>2, <1>4 DEF Tables, Row, new, row
  <2>2. [d.row[k] EXCEPT !.known = TRUE] \in Row /\ <<k, Dummy>> \in Frame
    <3>1. d.row[k] \in Row
      BY <1>1, <1>2 DEF Tables
    <3>2. [d.row[k] EXCEPT !.known = TRUE] \in Row
      BY <3>1 DEF Row
    <3> QED BY <1>2, <3>2 DEF Frame
  <2>3. row \in [Source -> Row]
    BY <1>1, <1>2, <2>2 DEF Tables, row
  <2>4. new \in Tables
    BY <1>1, <2>2, <2>3 DEF Tables, new
  <2>5. /\ new.row = row /\ new.symbols = d.symbols
        /\ new.inlined = d.inlined /\ new.frames = d.frames \cup {<<k, Dummy>>}
    BY <1>1 DEF Tables, new
  <2>6. \A j \in Source : /\ row[j].sym = d.row[j].sym /\ row[j].line = d.row[j].line
                          /\ d.row[j].known => row[j].known
    BY <1>1, <1>2 DEF Tables, Row, row
  <2>8. row[k].known
    BY <1>1, <1>2 DEF Tables, Row, row
  <2>7. db'[Server] = new /\ db' \in [Site -> Tables] /\ \A t \in Site \ {Server} : db'[t] = db[t]
    BY <1>1, <2>1, <2>4
  <2> QED BY <1>1, <1>2, <1>4, <2>5, <2>6, <2>7, <2>8 DEF k
<1> QED BY <1>1, <1>3, <1>4 DEF Serve, k

-----------------------------------------------------------------------------
\* The symbols that a task makes have the shape of pending ones.
LEMMA NewType == ASSUME Shape, NEW w \in Worker, NEW symbols \in SUBSET Symbol
                 PROVE  New(w, symbols) \subseteq ((SUBSET Debuginfo) \cup Remote) \X Symbol
  BY DEF New, Shape, PoolShape, Task

\* A thread that assigns is at one source.
LEMMA AtIs == ASSUME Shape, NEW w \in Worker, work[w].pc \in {"inline", "symbol", "line"}
              PROVE  At(w) \in Source /\ work[w].at = {At(w)}
<1>1. PICK k \in Source : work[w].at = {k}
  BY DEF Shape, PoolShape, Placed
<1> QED BY <1>1 DEF At

\* A worker goes on (core.py, retrace).
LEMMA AdvanceShape ==
  ASSUME Shape, NEW w \in Worker, Advance(w), work[w].pc \in {"inline", "symbol", "line"}
  PROVE  /\ work' \in [Worker -> Task] /\ \A v \in Worker : Placed(v)'
         /\ \A v \in Worker \ {w} : work'[v] = work[v]
         /\ work'[w].pc = StepAfter(work[w].pc) /\ work'[w].pkg = work[w].pkg /\ work'[w].left = work[w].left
         /\ work'[w].at = IF work'[w].pc = "next" THEN {} ELSE work[w].at
<1> DEFINE pc == StepAfter(work[w].pc)
           new == [work[w] EXCEPT !.pc = pc, !.at = IF pc = "next" THEN {} ELSE work[w].at]
<1>1. work \in [Worker -> Task] /\ (\A v \in Worker : Placed(v)) /\ work[w] \in Task
  BY DEF Shape, PoolShape
<1>2. pc \in {"next", "symbol", "line"}
  BY DEF StepAfter
<1>3. new \in Task /\ new.pc = pc /\ new.pkg = work[w].pkg /\ new.left = work[w].left
      /\ new.at = IF pc = "next" THEN {} ELSE work[w].at
  BY <1>1, <1>2 DEF Task
<1>4. work' = [work EXCEPT ![w] = new]
  BY <1>1 DEF Advance, Task
<1> HIDE DEF pc, new
<1>5. work' \in [Worker -> Task] /\ work'[w] = new /\ \A v \in Worker \ {w} : work'[v] = work[v]
  BY <1>1, <1>3, <1>4
<1>6. ASSUME NEW v \in Worker PROVE Placed(v)'
  BY <1>1, <1>2, <1>3, <1>5, <1>6 DEF Placed
<1> QED BY <1>3, <1>5, <1>6 DEF pc

\* Each thread belongs to a run of a site.
LEMMA PoolOfWorker == ASSUME NEW w \in Worker PROVE PoolOf[w] \in Pool /\ SiteOf[PoolOf[w]] \in Site
  BY PoolAssumption

\* The steps of a worker and what they change (retrace.py, core.py,
\* kerneloops.py).
Others(w) == \A v \in Worker \ {w} : work'[v] = work[v]
OtherPools(w) == \A p \in Pool \ {PoolOf[w]} : session'[p] = session[p]

\* A task is unpacked, or ends with an exception (retrace.py, _unpack_task_pkg).
LEMMA UnpackEffect ==
  ASSUME Shape, NEW w \in Worker, Unpack(w)
  PROVE  /\ PoolShape' /\ Others(w) /\ UNCHANGED <<pool, session, storeVars>>
         /\ \/ work'[w] = Idle
            \/ /\ work'[w].pc = "next" /\ work'[w].pkg = work[w].pkg /\ work'[w].at = work[w].at
               /\ work'[w].left \subseteq pool[PoolOf[w]].chosen
<1> DEFINE left == {k \in pool[PoolOf[w]].chosen : PackageOf[k] \in work[w].pkg}
           next == [work[w] EXCEPT !.pc = "next", !.left = left]
<1>1. work \in [Worker -> Task] /\ work[w] \in Task /\ (\A v \in Worker : Placed(v)) /\ pool[PoolOf[w]] \in Run1
  BY PoolOfWorker DEF Shape, PoolShape
<1>2. left \subseteq pool[PoolOf[w]].chosen /\ left \subseteq Source
  BY <1>1 DEF Run1
<1> HIDE DEF left
<1>3. next \in Task /\ next.pc = "next" /\ next.pkg = work[w].pkg /\ next.left = left /\ next.at = work[w].at
  BY <1>1, <1>2 DEF Task
<1>4. Idle \in Task
  BY DEF Idle, Task
<1>5. work' = [work EXCEPT ![w] = next] \/ work' = [work EXCEPT ![w] = Idle]
  BY <1>1 DEF Unpack, left, Task
<1> HIDE DEF next
<1>6. work' \in [Worker -> Task] /\ Others(w) /\ (work'[w] = next \/ work'[w] = Idle)
  BY <1>1, <1>3, <1>4, <1>5 DEF Others
<1>7. \A v \in Worker : Placed(v)'
  BY <1>1, <1>3, <1>6 DEF Placed, Idle, Others
<1> QED BY <1>2, <1>3, <1>6, <1>7 DEF Unpack, Shape, PoolShape, storeVars

\* A failure is counted (retrace.py, get_base_address).
LEMMA FailedEffect ==
  ASSUME Shape, NEW w \in Worker, NEW k \in work[w].left, Failed(w, k), pool' = pool
  PROVE  LET p == PoolOf[w] IN
         /\ PoolShape' /\ Others(w) /\ OtherPools(w)
         /\ work'[w].pc = work[w].pc /\ work'[w].pkg = work[w].pkg /\ work'[w].left \subseteq work[w].left
         /\ work'[w].at = work[w].at
         /\ session'[p].new = session[p].new /\ session'[p].sym = session[p].sym
         /\ session'[p].line = session[p].line /\ session'[p].frames = session[p].frames
<1> DEFINE p == PoolOf[w]
           task == [work[w] EXCEPT !.left = @ \ {k}]
           fails == session[p].fails \cup {<<k, db[SiteOf[p]].row[k].fails + 1>>}
           q == [session[p] EXCEPT !.fails = fails]
<1>1. /\ work \in [Worker -> Task] /\ work[w] \in Task /\ (\A v \in Worker : Placed(v)) /\ p \in Pool
      /\ session \in [Pool -> Pending] /\ session[p] \in Pending /\ k \in Source
  BY PoolOfWorker DEF Shape, PoolShape, Task
<1>2. fails \subseteq Source \X Nat
  <2>1. db[SiteOf[p]] \in Tables
    BY PoolOfWorker DEF Shape, StoreShape
  <2>2. db[SiteOf[p]].row[k] \in Row
    BY <1>1, <2>1 DEF Tables
  <2> QED BY <1>1, <2>2 DEF Row, Pending
<1>3. /\ task \in Task /\ task.pc = work[w].pc /\ task.pkg = work[w].pkg /\ task.left \subseteq work[w].left
      /\ task.at = work[w].at
  BY <1>1 DEF Task
<1>4. work' = [work EXCEPT ![w] = task] /\ session' = [session EXCEPT ![p] = q]
  BY <1>1 DEF Failed, Task, Pending
<1> HIDE DEF fails, task
<1>5. /\ q \in Pending /\ q.new = session[p].new /\ q.sym = session[p].sym
      /\ q.line = session[p].line /\ q.frames = session[p].frames
  BY <1>1, <1>2 DEF Pending
<1> HIDE DEF q
<1>6. work' \in [Worker -> Task] /\ Others(w) /\ work'[w] = task
  BY <1>1, <1>3, <1>4 DEF Others
<1>7. session' \in [Pool -> Pending] /\ OtherPools(w) /\ session'[p] = q
  BY <1>1, <1>4, <1>5 DEF OtherPools
<1>8. \A v \in Worker : Placed(v)'
  BY <1>1, <1>3, <1>6 DEF Placed, Others
<1> QED BY <1>3, <1>5, <1>6, <1>7, <1>8 DEF Shape, PoolShape

\* A source is found, and the thread is at it (retrace.py, addr2line).
LEMMA FoundEffect ==
  ASSUME Shape, NEW w \in Worker, NEW k \in work[w].left, Found(w, k), pool' = pool
  PROVE  /\ PoolShape' /\ Others(w) /\ session' = session
         /\ work'[w].pc = (IF InlinedAs[k] = {} THEN "symbol" ELSE "inline") /\ work'[w].pkg = work[w].pkg
         /\ work'[w].left \subseteq work[w].left /\ work'[w].at = {k} /\ k \in Source
<1> DEFINE pc == IF InlinedAs[k] = {} THEN "symbol" ELSE "inline"
           task == [work[w] EXCEPT !.left = @ \ {k}, !.at = {k}, !.pc = pc]
<1>1. work \in [Worker -> Task] /\ work[w] \in Task /\ (\A v \in Worker : Placed(v)) /\ k \in Source
  BY DEF Shape, PoolShape, Task
<1>2. /\ task \in Task /\ task.pc = pc /\ task.pkg = work[w].pkg /\ task.left \subseteq work[w].left
      /\ task.at = {k}
  BY <1>1 DEF Task
<1>3. work' = [work EXCEPT ![w] = task]
  BY <1>1 DEF Found, Task
<1> HIDE DEF task
<1>4. work' \in [Worker -> Task] /\ Others(w) /\ work'[w] = task
  BY <1>1, <1>2, <1>3 DEF Others
<1>5. \A v \in Worker : Placed(v)'
  BY <1>1, <1>2, <1>4 DEF Placed, Others
<1> QED BY <1>1, <1>2, <1>4, <1>5 DEF Shape, PoolShape, Found

\* What assigning changes in the session of a worker.
LEMMA SessionEffect ==
  ASSUME Shape, NEW w \in Worker, Inline(w) \/ SetSymbol(w) \/ SetLine(w)
  PROVE  LET p == PoolOf[w] IN
         /\ PoolShape' /\ Others(w) /\ OtherPools(w) /\ UNCHANGED <<pool, storeVars>>
         /\ work'[w].pc = StepAfter(work[w].pc) /\ work'[w].pkg = work[w].pkg /\ work'[w].left = work[w].left
         /\ work'[w].at = IF work'[w].pc = "next" THEN {} ELSE work[w].at
         /\ \/ /\ Inline(w) /\ session'[p].new = session[p].new \cup New(w, InlinedAs[At(w)])
               /\ session'[p].frames = session[p].frames \cup (FramesOf(SiteOf[p], At(w)) \ db[SiteOf[p]].inlined)
               /\ session'[p].sym = session[p].sym /\ session'[p].line = session[p].line
            \/ /\ SetSymbol(w) /\ session'[p].new = session[p].new \cup New(w, {FoundAs[At(w)]})
               /\ session'[p].sym = {x \in session[p].sym : x[1] # At(w)} \cup {<<At(w), FoundAs[At(w)]>>}
               /\ session'[p].line = session[p].line /\ session'[p].frames = session[p].frames
            \/ /\ SetLine(w) /\ session'[p].new = session[p].new /\ session'[p].sym = session[p].sym
               /\ session'[p].line = session[p].line \cup {At(w)} /\ session'[p].frames = session[p].frames
<1> DEFINE p == PoolOf[w]
           s == SiteOf[p]
           inlined == [session[p] EXCEPT !.new = @ \cup New(w, InlinedAs[At(w)]),
                                         !.frames = @ \cup (FramesOf(s, At(w)) \ db[s].inlined)]
           named == [session[p] EXCEPT !.new = @ \cup New(w, {FoundAs[At(w)]}),
                                       !.sym = {x \in @ : x[1] # At(w)} \cup {<<At(w), FoundAs[At(w)]>>}]
           lined == [session[p] EXCEPT !.line = @ \cup {At(w)}]
<1>1. /\ session \in [Pool -> Pending] /\ session[p] \in Pending /\ p \in Pool /\ s \in Site /\ db[s] \in Tables
      /\ At(w) \in Source /\ work[w].pc \in {"inline", "symbol", "line"}
  BY PoolOfWorker, AtIs DEF Shape, PoolShape, StoreShape, Inline, SetSymbol, SetLine
<1>2. /\ New(w, InlinedAs[At(w)]) \subseteq ((SUBSET Debuginfo) \cup Remote) \X Symbol
      /\ New(w, {FoundAs[At(w)]}) \subseteq ((SUBSET Debuginfo) \cup Remote) \X Symbol
      /\ <<At(w), FoundAs[At(w)]>> \in Source \X Symbol /\ FramesOf(s, At(w)) \subseteq Frame
  BY <1>1, NewType, StoreAssumption DEF FramesOf, Tables
<1>3. /\ Advance(w) /\ UNCHANGED <<pool, storeVars>>
      /\ \/ Inline(w) /\ session' = [session EXCEPT ![p] = inlined]
         \/ SetSymbol(w) /\ session' = [session EXCEPT ![p] = named]
         \/ SetLine(w) /\ session' = [session EXCEPT ![p] = lined]
  BY <1>1 DEF Inline, SetSymbol, SetLine, AssignSymbol, AssignLine, Pending
<1>4. /\ inlined \in Pending /\ inlined.new = session[p].new \cup New(w, InlinedAs[At(w)])
      /\ inlined.frames = session[p].frames \cup (FramesOf(s, At(w)) \ db[s].inlined)
      /\ inlined.sym = session[p].sym /\ inlined.line = session[p].line
  BY <1>1, <1>2 DEF Pending
<1>5. /\ named \in Pending /\ named.new = session[p].new \cup New(w, {FoundAs[At(w)]})
      /\ named.sym = {x \in session[p].sym : x[1] # At(w)} \cup {<<At(w), FoundAs[At(w)]>>}
      /\ named.line = session[p].line /\ named.frames = session[p].frames
  BY <1>1, <1>2 DEF Pending
<1>6. /\ lined \in Pending /\ lined.new = session[p].new /\ lined.sym = session[p].sym
      /\ lined.line = session[p].line \cup {At(w)} /\ lined.frames = session[p].frames
  BY <1>1 DEF Pending
<1> HIDE DEF inlined, named, lined
<1>7. /\ session' \in [Pool -> Pending] /\ OtherPools(w)
      /\ (Inline(w) /\ session'[p] = inlined) \/ (SetSymbol(w) /\ session'[p] = named) \/ (SetLine(w) /\ session'[p] = lined)
  BY <1>1, <1>3, <1>4, <1>5, <1>6 DEF OtherPools
<1>8. PoolShape'
  BY <1>1, <1>3, <1>7, AdvanceShape DEF Shape, PoolShape
<1>9. /\ work'[w].pc = StepAfter(work[w].pc) /\ work'[w].pkg = work[w].pkg /\ work'[w].left = work[w].left
      /\ work'[w].at = (IF work'[w].pc = "next" THEN {} ELSE work[w].at) /\ Others(w)
  BY <1>1, <1>3, AdvanceShape DEF Others
<1>10. CASE Inline(w) /\ session'[p] = inlined
  BY <1>3, <1>4, <1>7, <1>8, <1>9, <1>10
<1>11. CASE SetSymbol(w) /\ session'[p] = named
  BY <1>3, <1>5, <1>7, <1>8, <1>9, <1>11
<1>12. CASE SetLine(w) /\ session'[p] = lined
  BY <1>3, <1>6, <1>7, <1>8, <1>9, <1>12
<1> QED BY <1>7, <1>10, <1>11, <1>12

\* A task ends with a flush of the session (retrace.py, _future_done_callback).
LEMMA FinishEffect ==
  ASSUME Shape, NEW w \in Worker, FinishTask(w)
  PROVE  /\ StoreShape' /\ PoolShape' /\ Others(w) /\ OtherPools(w) /\ session'[PoolOf[w]] = Clean /\ work'[w] = Idle
         /\ Flush(SiteOf[PoolOf[w]], session[PoolOf[w]]) /\ session[PoolOf[w]] \in Pending
<1>1. /\ work \in [Worker -> Task] /\ (\A v \in Worker : Placed(v)) /\ PoolOf[w] \in Pool /\ SiteOf[PoolOf[w]] \in Site
      /\ session \in [Pool -> Pending] /\ session[PoolOf[w]] \in Pending /\ StoreShape
  BY PoolOfWorker DEF Shape, PoolShape
<1>2. StoreShape'
  BY <1>1, FlushEffect DEF FinishTask, StoreShape
<1>3. Idle \in Task /\ Idle.pc = "idle"
  BY DEF Idle, Task
<1>4. work' \in [Worker -> Task] /\ Others(w) /\ work'[w] = Idle
  BY <1>1, <1>3 DEF FinishTask, Others
<1>5. session' \in [Pool -> Pending] /\ OtherPools(w) /\ session'[PoolOf[w]] = Clean
  BY <1>1, CleanPending DEF FinishTask, OtherPools
<1>6. \A v \in Worker : Placed(v)'
  BY <1>1, <1>3, <1>4 DEF Placed, Others
<1> QED BY <1>1, <1>2, <1>4, <1>5, <1>6 DEF FinishTask, Shape, PoolShape

\* The steps of threads keep the shapes.
LEMMA WorkerShape ==
  ASSUME Shape, NEW w \in Worker, WorkerStep(w)
  PROVE  StoreShape' /\ PoolShape'
<1>1. StoreShape' \/ FinishTask(w)
  <2>1. UNCHANGED storeVars \/ FinishTask(w)
    BY DEF WorkerStep, Unpack, ResolveCore, ResolveKernel, Inline, SetSymbol, SetLine
  <2> QED BY <2>1 DEF storeVars, Shape, StoreShape
<1>2. ASSUME ResolveKernel(w), work' = [work EXCEPT ![w] = Idle], UNCHANGED session PROVE PoolShape'
  <2>1. Idle \in Task /\ Idle.pc = "idle"
    BY DEF Idle, Task
  <2>2. work' \in [Worker -> Task] /\ \A v \in Worker : work'[v] = Idle \/ work'[v] = work[v]
    BY <1>2, <2>1 DEF Shape, PoolShape
  <2>3. pool' = pool /\ session' = session
    BY <1>2 DEF ResolveKernel
  <2>4. ASSUME NEW v \in Worker PROVE Placed(v)'
    <3>1. Placed(v)
      BY DEF Shape, PoolShape
    <3> QED BY <2>1, <2>2, <3>1 DEF Placed
  <2> QED BY <2>2, <2>3, <2>4 DEF Shape, PoolShape
<1>3. ASSUME NEW k \in work[w].left, Failed(w, k) \/ Found(w, k), pool' = pool PROVE PoolShape'
  BY <1>3, FailedEffect, FoundEffect
<1>4. ASSUME ResolveCore(w) \/ ResolveKernel(w) PROVE PoolShape'
  BY <1>2, <1>3, <1>4 DEF ResolveCore, ResolveKernel
<1>5. PoolShape'
  BY <1>4, UnpackEffect, SessionEffect, FinishEffect DEF WorkerStep
<1> QED BY <1>1, <1>5, FinishEffect

-----------------------------------------------------------------------------
\* The sources of a type, listed in any order (retrace_remote.py, run).
LEMMA ListedType ==
  ASSUME NEW S \in SUBSET Source, NEW rows \in SetToSeqs(S)
  PROVE  rows \in Seq(Source) /\ \A i \in DOMAIN rows : rows[i] \in S
<1>1. Cardinality(S) \in Nat
  BY TransferAssumption, FS_Subset, FS_CardinalityType
<1>2. rows \in [1..Cardinality(S) -> S]
  BY DEF SetToSeqs
<1> QED BY <1>1, <1>2

\* The sources to retrace are finitely many.
LEMMA NeedsType == ASSUME NEW s \in Site, NEW t \in Type
                   PROVE  Needs(s, t) \subseteq Source /\ Cardinality(Needs(s, t)) \in Nat
<1>1. Needs(s, t) \subseteq Source
  BY DEF Needs, NeedsCore, NeedsKernel
<1> QED BY <1>1, TransferAssumption, FS_Subset, FS_CardinalityType

\* The empty sequence is a sequence of sources and one of answers.
LEMMA NothingSent == <<>> \in Seq(Source) /\ <<>> \in Seq(SUBSET Symbol)
  OBVIOUS

\* Other requests stay as they are, and one changes as its step says.
OtherRuns(r) == \A o \in Remote \ {r} : remote'[o] = remote[o]

\* Replacing the state of one run of retrace-remote keeps the shapes.
LEMMA AskerChange ==
  ASSUME AskerShape, NEW r \in Remote, NEW x \in Asker, remote' = [remote EXCEPT ![r] = x],
         x.pc \in {"done", "type", "list", "take"} => x.answers = <<>>,
         x.pc = "post" => Len(x.answers) <= Len(x.batch),
         x.pc = "receive" => Len(x.answers) = Len(x.batch)
  PROVE  AskerShape' /\ OtherRuns(r) /\ remote'[r] = x
  BY DEF AskerShape, Paired, OtherRuns

\* A run of retrace-remote starts with nothing pending (retrace_remote.py, run).
LEMMA StartEffect ==
  ASSUME AskerShape, NEW r \in Remote, NEW busy \in BOOLEAN, RemoteStart(r, busy)
  PROVE  /\ AskerShape' /\ OtherRuns(r) /\ remote'[r].pc = "type" /\ remote'[r].rows = <<>> /\ remote'[r].batch = <<>>
         /\ remote'[r].answers = <<>> /\ remote'[r].pending = Clean
<1>1. PICK types \in SUBSET Type, n \in BatchSizes, key \in Keys :
        remote' = [remote EXCEPT ![r] = [NotAsking EXCEPT !.pc = "type", !.types = types, !.size = n, !.key = key]]
  BY DEF RemoteStart
<1> DEFINE x == [NotAsking EXCEPT !.pc = "type", !.types = types, !.size = n, !.key = key]
<1>2. /\ x \in Asker /\ x.pc = "type" /\ x.rows = <<>> /\ x.batch = <<>> /\ x.answers = <<>> /\ x.pending = Clean
  <2>1. NotAsking \in Asker
    BY CleanPending DEF NotAsking, Asker
  <2>2. /\ NotAsking.rows = <<>> /\ NotAsking.batch = <<>> /\ NotAsking.answers = <<>> /\ NotAsking.pending = Clean
    BY DEF NotAsking
  <2>3. /\ x.pc = "type" /\ x.rows = <<>> /\ x.batch = <<>> /\ x.answers = <<>> /\ x.pending = Clean
    BY <2>1, <2>2 DEF Asker
  <2>4. x \in Asker
    BY <2>1 DEF Asker
  <2> QED BY <2>3, <2>4
<1> HIDE DEF x
<1>3. remote' = [remote EXCEPT ![r] = x]
  BY <1>1 DEF x
<1> QED BY <1>2, <1>3, AskerChange

\* A run goes to the next problem type, or ends.
LEMMA NextTypeEffect ==
  ASSUME AskerShape, NEW r \in Remote, NextType(r)
  PROVE  /\ AskerShape' /\ OtherRuns(r) /\ remote'[r].pc \in {"done", "type", "list"} /\ remote'[r].rows = <<>>
         /\ remote'[r].answers = <<>>
         /\ \/ remote'[r] = NotAsking
            \/ /\ remote'[r].pc # "done" /\ remote'[r].batch = remote[r].batch
               /\ remote'[r].pending = remote[r].pending
<1>0. remote[r] \in Asker /\ remote \in [Remote -> Asker] /\ remote[r].pc = "type" /\ remote[r].answers = <<>>
  BY DEF AskerShape, NextType, Paired
<1>1. CASE remote[r].types = {}
  <2>1. NotAsking \in Asker /\ NotAsking.pc = "done" /\ NotAsking.answers = <<>> /\ NotAsking.rows = <<>>
    BY CleanPending DEF NotAsking, Asker
  <2>2. remote' = [remote EXCEPT ![r] = NotAsking]
    BY <1>1 DEF NextType
  <2> QED BY <2>1, <2>2, AskerChange
<1>2. CASE remote[r].types # {}
  <2>1. PICK t \in remote[r].types :
          remote' = [remote EXCEPT ![r].pc = IF Needs(Client, t) = {} THEN "type" ELSE "list",
                                   ![r].types = IF Needs(Client, t) = {} THEN @ \ {t} ELSE @,
                                   ![r].total = Cardinality(Needs(Client, t)),
                                   ![r].rows = <<>>, ![r].sent = {}]
    BY <1>2 DEF NextType
  <2> DEFINE pc == IF Needs(Client, t) = {} THEN "type" ELSE "list"
             types == IF Needs(Client, t) = {} THEN remote[r].types \ {t} ELSE remote[r].types
             total == Cardinality(Needs(Client, t))
             x == [remote[r] EXCEPT !.pc = pc, !.types = types, !.total = total, !.rows = <<>>, !.sent = {}]
  <2>2. total \in Nat /\ pc \in {"type", "list"} /\ types \in SUBSET Type /\ <<>> \in Seq(Source)
    BY <1>0, NeedsType DEF Asker, Site
  <2> HIDE DEF pc, types, total
  <2>3. /\ x \in Asker /\ x.pc \in {"type", "list"} /\ x.rows = <<>> /\ x.answers = <<>>
        /\ x.batch = remote[r].batch /\ x.pending = remote[r].pending
    BY <1>0, <2>2 DEF Asker
  <2>4. remote' = [remote EXCEPT ![r] = x]
    BY <1>0, <2>1 DEF pc, types, total, Asker
  <2> HIDE DEF x
  <2> QED BY <2>3, <2>4, AskerChange
<1> QED BY <1>1, <1>2

\* A run lists sources that have frames.
LEMMA ListEffect ==
  ASSUME AskerShape, NEW r \in Remote, ListSources(r)
  PROVE  /\ AskerShape' /\ OtherRuns(r) /\ remote'[r].pc = "take" /\ remote'[r].taken = 0
         /\ remote'[r].batch = remote[r].batch /\ remote'[r].pending = remote[r].pending
         /\ remote'[r].answers = remote[r].answers /\ remote[r].pc = "list"
         /\ \A i \in DOMAIN remote'[r].rows : FramesOf(Client, remote'[r].rows[i]) # {}
<1>0. remote[r] \in Asker /\ remote \in [Remote -> Asker] /\ remote[r].pc = "list" /\ remote[r].answers = <<>>
  BY DEF AskerShape, ListSources, Paired
<1>1. PICK t \in remote[r].types, rows \in SetToSeqs(Needs(Client, "core")) \cup SetToSeqs(Needs(Client, "kerneloops")) :
        remote' = [remote EXCEPT ![r].pc = "take", ![r].types = @ \ {t}, ![r].rows = rows, ![r].taken = 0]
  BY DEF ListSources
<1>2. rows \in Seq(Source) /\ \A i \in DOMAIN rows : FramesOf(Client, rows[i]) # {}
  <2>1. PICK type \in Type : rows \in SetToSeqs(Needs(Client, type))
    BY DEF Type
  <2>2. rows \in Seq(Source) /\ \A i \in DOMAIN rows : rows[i] \in Needs(Client, type)
    BY <2>1, ListedType, NeedsType DEF Site
  <2> QED BY <2>2 DEF Needs, NeedsCore, NeedsKernel
<1> DEFINE x == [remote[r] EXCEPT !.pc = "take", !.types = @ \ {t}, !.rows = rows, !.taken = 0]
<1>3. /\ x \in Asker /\ x.pc = "take" /\ x.taken = 0 /\ x.batch = remote[r].batch /\ x.answers = remote[r].answers
      /\ x.pending = remote[r].pending /\ x.rows = rows
  BY <1>0, <1>2 DEF Asker
<1>4. remote' = [remote EXCEPT ![r] = x]
  BY <1>0, <1>1 DEF Asker
<1> HIDE DEF x
<1> QED BY <1>0, <1>2, <1>3, <1>4, AskerChange

\* A run takes the next source into its batch, and sends the batch if it is full.
LEMMA TakeEffect ==
  ASSUME AskerShape, NEW r \in Remote, Take(r)
  PROVE  LET i == remote[r].taken + 1 IN
         /\ AskerShape' /\ OtherRuns(r) /\ remote[r].pc = "take" /\ remote'[r].pending = remote[r].pending
         /\ remote[r].answers = <<>> /\ remote'[r].answers = <<>>
         /\ remote'[r].rows = remote[r].rows /\ remote'[r].total = remote[r].total
         /\ \/ /\ i > Len(remote[r].rows) /\ remote'[r].pc = "type" /\ remote'[r].batch = <<>>
               /\ remote'[r].taken = remote[r].taken /\ remote'[r].sent = remote[r].sent
            \/ /\ i \in DOMAIN remote[r].rows /\ remote'[r].taken = i
               /\ remote'[r].batch = Append(remote[r].batch, remote[r].rows[i])
               /\ \/ /\ Full(r, i) /\ remote'[r].pc = "post"
                     /\ remote'[r].sent = remote[r].sent \cup Range(remote[r].batch) \cup {remote[r].rows[i]}
                  \/ ~Full(r, i) /\ remote'[r].pc = "take" /\ remote'[r].sent = remote[r].sent
<1> DEFINE i == remote[r].taken + 1
<1>0. remote[r] \in Asker /\ remote \in [Remote -> Asker] /\ remote[r].pc = "take" /\ remote[r].answers = <<>>
  BY DEF AskerShape, Take, Paired
<1>1. CASE i > Len(remote[r].rows)
  <2> DEFINE x == [remote[r] EXCEPT !.pc = "type", !.batch = <<>>]
  <2>0. ~(i <= Len(remote[r].rows))
    BY <1>0, <1>1 DEF Asker
  <2>1. remote' = [remote EXCEPT ![r] = x]
    <3>1. remote' = [remote EXCEPT ![r].pc = "type", ![r].batch = <<>>]
      BY <2>0 DEF Take
    <3> QED BY <1>0, <3>1 DEF Asker
  <2>2. /\ x.pc = "type" /\ x.batch = <<>> /\ x.taken = remote[r].taken /\ x.sent = remote[r].sent
        /\ x.answers = <<>> /\ x.pending = remote[r].pending /\ x.rows = remote[r].rows /\ x.total = remote[r].total
    BY <1>0 DEF Asker
  <2>4. x \in Asker
    BY <1>0, NothingSent DEF Asker
  <2> HIDE DEF x
  <2>3. AskerShape' /\ OtherRuns(r) /\ remote'[r] = x
    BY <2>1, <2>2, <2>4, AskerChange
  <2> QED BY <1>0, <1>1, <2>2, <2>3
<1>2. CASE i <= Len(remote[r].rows)
  <2> DEFINE full == Full(r, i)
             pc == IF full THEN "post" ELSE "take"
             sent == IF full THEN remote[r].sent \cup Range(remote[r].batch) \cup {remote[r].rows[i]} ELSE remote[r].sent
             batch == Append(remote[r].batch, remote[r].rows[i])
             x == [remote[r] EXCEPT !.taken = i, !.batch = batch, !.pc = pc, !.sent = sent]
  <2>1. remote' = [remote EXCEPT ![r] = x]
    BY <1>0, <1>2 DEF Take, Asker
  <2>2. i \in DOMAIN remote[r].rows /\ remote[r].rows[i] \in Source /\ i \in Nat
    BY <1>0, <1>2 DEF Asker
  <2>3. batch \in Seq(Source) /\ Range(remote[r].batch) \subseteq Source
    BY <1>0, <2>2 DEF Asker, Range
  <2>4. sent \subseteq Source /\ pc \in {"post", "take"}
    BY <1>0, <2>2, <2>3 DEF Asker
  <2> HIDE DEF full, pc, sent, batch, i
  <2>5. /\ x \in Asker /\ x.pc = pc /\ x.batch = batch /\ x.taken = i /\ x.sent = sent
        /\ x.answers = <<>> /\ x.pending = remote[r].pending /\ x.rows = remote[r].rows /\ x.total = remote[r].total
    BY <1>0, <2>2, <2>3, <2>4 DEF Asker
  <2> HIDE DEF x
  <2>6. Len(x.answers) <= Len(x.batch)
    BY <2>3, <2>5
  <2>7. AskerShape' /\ OtherRuns(r) /\ remote'[r] = x
    BY <2>1, <2>4, <2>5, <2>6, AskerChange
  <2>8. CASE full
    BY <1>0, <2>2, <2>5, <2>7, <2>8 DEF pc, sent, batch, full, i
  <2>9. CASE ~full
    BY <1>0, <2>2, <2>5, <2>7, <2>9 DEF pc, sent, batch, full, i
  <2> QED BY <2>8, <2>9
<1>3. i \in Nat /\ Len(remote[r].rows) \in Nat
  BY <1>0 DEF Asker
<1> QED BY <1>1, <1>2, <1>3

\* A batch is given up.
LEMMA DropEffect ==
  ASSUME AskerShape, NEW r \in Remote, DropBatch(r)
  PROVE  /\ AskerShape' /\ OtherRuns(r) /\ remote'[r].pc = "take" /\ remote'[r].batch = <<>> /\ remote'[r].answers = <<>>
         /\ remote'[r].pending = remote[r].pending /\ remote'[r].rows = remote[r].rows
         /\ remote'[r].total = remote[r].total /\ remote'[r].taken = remote[r].taken /\ remote'[r].sent = remote[r].sent
<1> DEFINE x == [remote[r] EXCEPT !.pc = "take", !.batch = <<>>, !.answers = <<>>]
<1>0. remote[r] \in Asker /\ remote \in [Remote -> Asker]
  BY DEF AskerShape
<1>1. remote' = [remote EXCEPT ![r] = x]
  BY <1>0 DEF DropBatch, Asker
<1>2. /\ x.pc = "take" /\ x.batch = <<>> /\ x.answers = <<>> /\ x.pending = remote[r].pending
      /\ x.rows = remote[r].rows /\ x.total = remote[r].total /\ x.taken = remote[r].taken /\ x.sent = remote[r].sent
  BY <1>0 DEF Asker
<1>3. x \in Asker
  BY <1>0, NothingSent DEF Asker
<1> HIDE DEF x
<1> QED BY <1>1, <1>2, <1>3, AskerChange

\* An answer is appended.
LEMMA AnswerEffect ==
  ASSUME AskerShape, NEW r \in Remote, NEW answer \in SUBSET Symbol, Answer(r, answer), remote[r].pc = "post",
         Len(remote[r].answers) < Len(remote[r].batch)
  PROVE  /\ AskerShape' /\ OtherRuns(r) /\ remote'[r].pc = "post" /\ remote'[r].batch = remote[r].batch
         /\ remote'[r].answers = Append(remote[r].answers, answer)
         /\ remote'[r].pending = remote[r].pending /\ remote'[r].rows = remote[r].rows
         /\ remote'[r].total = remote[r].total /\ remote'[r].taken = remote[r].taken /\ remote'[r].sent = remote[r].sent
<1> DEFINE answers == Append(remote[r].answers, answer)
           x == [remote[r] EXCEPT !.answers = answers]
<1>0. remote[r] \in Asker /\ remote \in [Remote -> Asker]
  BY DEF AskerShape
<1>1. remote' = [remote EXCEPT ![r] = x]
  BY <1>0 DEF Answer, Asker
<1>2. answers \in Seq(SUBSET Symbol) /\ Len(answers) <= Len(remote[r].batch)
  BY <1>0 DEF Asker
<1> HIDE DEF answers
<1>3. /\ x \in Asker /\ x.pc = "post" /\ x.batch = remote[r].batch /\ x.answers = answers /\ x.pending = remote[r].pending
      /\ x.rows = remote[r].rows /\ x.total = remote[r].total /\ x.taken = remote[r].taken /\ x.sent = remote[r].sent
  BY <1>0, <1>2 DEF Asker
<1> HIDE DEF x
<1>4. AskerShape' /\ OtherRuns(r) /\ remote'[r] = x
  BY <1>1, <1>2, <1>3, AskerChange
<1> QED BY <1>3, <1>4 DEF answers

\* The server answers with nothing, with the symbol that it has, or fails.
LEMMA ServeAnswers ==
  ASSUME Shape, NEW r \in Remote, Serve(r)
  PROVE  /\ remote[r].pc = "post" /\ Len(remote[r].answers) < Len(remote[r].batch)
         /\ \/ DropBatch(r) /\ served' = served
            \/ \E answer \in SUBSET Symbol :
                 /\ Answer(r, answer)
                 /\ served' = served \cup ({remote[r].batch[Len(remote[r].answers) + 1]} \X answer)
<1> DEFINE k == remote[r].batch[Len(remote[r].answers) + 1]
<1>1. PICK j \in Source : j = k
  BY ServeEffect
<1>2. db[Server].row[k].sym \subseteq Symbol
  <2>1. db[Server].row[j] \in Row
    BY DEF Shape, StoreShape, Tables, Site
  <2> QED BY <1>1, <2>1 DEF Row
<1>3. remote[r].pc = "post" /\ Len(remote[r].answers) < Len(remote[r].batch)
  BY DEF Serve
<1>4. \/ Answer(r, {}) /\ served' = served
      \/ Answer(r, db[Server].row[k].sym) /\ served' = served \cup ({k} \X db[Server].row[k].sym)
      \/ DropBatch(r) /\ served' = served
  BY DEF Serve
<1>5. served = served \cup ({k} \X {})
  OBVIOUS
<1> QED BY <1>2, <1>3, <1>4, <1>5

\* All of a batch is answered.
LEMMA AnsweredEffect ==
  ASSUME AskerShape, NEW r \in Remote, Answered(r)
  PROVE  /\ AskerShape' /\ OtherRuns(r) /\ remote[r].pc = "post" /\ remote'[r].pc = "receive"
         /\ remote'[r].batch = remote[r].batch /\ remote'[r].answers = remote[r].answers
         /\ remote'[r].pending = remote[r].pending /\ remote'[r].rows = remote[r].rows
         /\ remote'[r].total = remote[r].total /\ remote'[r].taken = remote[r].taken /\ remote'[r].sent = remote[r].sent
<1> DEFINE x == [remote[r] EXCEPT !.pc = "receive"]
<1>0. remote[r] \in Asker /\ remote \in [Remote -> Asker]
  BY DEF AskerShape
<1>1. remote' = [remote EXCEPT ![r] = x] /\ remote[r].pc = "post" /\ Len(remote[r].answers) = Len(remote[r].batch)
  BY <1>0 DEF Answered, Asker
<1>2. /\ x \in Asker /\ x.pc = "receive" /\ x.batch = remote[r].batch /\ x.answers = remote[r].answers
      /\ x.pending = remote[r].pending
      /\ x.rows = remote[r].rows /\ x.total = remote[r].total /\ x.taken = remote[r].taken /\ x.sent = remote[r].sent
  BY <1>0 DEF Asker
<1> HIDE DEF x
<1> QED BY <1>1, <1>2, AskerChange

\* Answers are paired with the batch and become pending.
LEMMA ReceiveEffect ==
  ASSUME AskerShape, NEW r \in Remote, Receive(r)
  PROVE  LET q == remote'[r].pending IN
         /\ AskerShape' /\ OtherRuns(r) /\ remote[r].pc = "receive" /\ remote'[r].pc = "store"
         /\ remote'[r].batch = remote[r].batch /\ remote'[r].answers = remote[r].answers
         /\ remote'[r].rows = remote[r].rows /\ remote'[r].total = remote[r].total
         /\ remote'[r].taken = remote[r].taken /\ remote'[r].sent = remote[r].sent
         /\ q.new = {r} \X ((UNION {x[2] : x \in Pairs(r)}) \ db[Client].symbols)
         /\ q.sym = UNION {{x[1]} \X x[2] : x \in Pairs(r)}
         /\ q.line = {x[1] : x \in Pairs(r)} /\ q.frames = {}
         /\ Pairs(r) \subseteq Source \X SUBSET Symbol /\ \A x \in Pairs(r) : x[2] # {}
<1> DEFINE new == {r} \X ((UNION {x[2] : x \in Pairs(r)}) \ db[Client].symbols)
           sym == UNION {{x[1]} \X x[2] : x \in Pairs(r)}
           line == {x[1] : x \in Pairs(r)}
           q == [Clean EXCEPT !.new = new, !.sym = sym, !.line = line]
           task == [remote[r] EXCEPT !.pc = "store", !.pending = q]
<1>0. /\ remote[r] \in Asker /\ remote \in [Remote -> Asker] /\ remote[r].pc = "receive"
      /\ Len(remote[r].answers) = Len(remote[r].batch)
  BY DEF AskerShape, Receive, Paired
<1>1. Pairs(r) \subseteq Source \X SUBSET Symbol /\ \A x \in Pairs(r) : x[2] # {}
  <2>1. remote[r].batch \in Seq(Source) /\ remote[r].answers \in Seq(SUBSET Symbol)
    BY <1>0 DEF Asker
  <2>2. ASSUME NEW x \in Pairs(r) PROVE x \in Source \X SUBSET Symbol /\ x[2] # {}
    <3>1. PICK i \in DOMAIN remote[r].batch : remote[r].answers[i] # {} /\ x = <<remote[r].batch[i], remote[r].answers[i]>>
      BY <2>2 DEF Pairs
    <3>2. i \in DOMAIN remote[r].answers
      BY <1>0, <2>1
    <3>3. remote[r].batch[i] \in Source /\ remote[r].answers[i] \in SUBSET Symbol
      BY <2>1, <3>2
    <3> QED BY <3>1, <3>3
  <2> QED BY <2>2
<1>2. remote' = [remote EXCEPT ![r] = task]
  <2>1. remote' = [remote EXCEPT ![r].pc = "store", ![r].pending = q]
    BY DEF Receive
  <2> HIDE DEF q
  <2> QED BY <1>0, <2>1 DEF Asker
<1>3. new \subseteq ((SUBSET Debuginfo) \cup Remote) \X Symbol /\ sym \subseteq Source \X Symbol /\ line \subseteq Source
  <2>1. UNION {x[2] : x \in Pairs(r)} \subseteq Symbol
    BY <1>1
  <2>2. \A x \in Pairs(r) : {x[1]} \X x[2] \subseteq Source \X Symbol
    BY <1>1
  <2> QED BY <1>1, <2>1, <2>2
<1> HIDE DEF new, sym, line
<1>4. q \in Pending /\ q.new = new /\ q.sym = sym /\ q.line = line /\ q.frames = {}
  BY <1>3 DEF Clean, Pending
<1> HIDE DEF q
<1>5. /\ task \in Asker /\ task.pc = "store" /\ task.pending = q /\ task.batch = remote[r].batch
      /\ task.answers = remote[r].answers /\ task.rows = remote[r].rows /\ task.total = remote[r].total
      /\ task.taken = remote[r].taken /\ task.sent = remote[r].sent
  BY <1>0, <1>4 DEF Asker
<1> HIDE DEF task
<1>6. AskerShape' /\ OtherRuns(r) /\ remote'[r] = task
  BY <1>2, <1>5, AskerChange
<1> QED BY <1>0, <1>1, <1>4, <1>5, <1>6 DEF new, sym, line

\* A run flushes what is pending, or ends.
LEMMA StoreEffect ==
  ASSUME Shape, NEW r \in Remote, Store(r)
  PROVE  /\ StoreShape' /\ AskerShape' /\ OtherRuns(r) /\ remote[r].pc = "store"
         /\ remote[r].pending \in Pending /\ Flush(Client, remote[r].pending)
         /\ \/ remote'[r] = NotAsking
            \/ /\ remote'[r].pc = "take" /\ remote'[r].batch = <<>> /\ remote'[r].answers = <<>>
               /\ remote'[r].pending = Clean /\ remote'[r].rows = remote[r].rows
               /\ remote'[r].total = remote[r].total /\ remote'[r].taken = remote[r].taken
               /\ remote'[r].sent = remote[r].sent
<1> DEFINE x == [remote[r] EXCEPT !.pc = "take", !.batch = <<>>, !.answers = <<>>, !.pending = Clean]
<1>0. /\ remote[r] \in Asker /\ remote \in [Remote -> Asker] /\ AskerShape /\ StoreShape /\ Client \in Site
      /\ remote[r].pending \in Pending
  BY DEF Shape, AskerShape, Site, Asker
<1>1. Flush(Client, remote[r].pending) /\ remote[r].pc = "store" /\ overlap' = overlap
  BY DEF Store
<1>2. remote' = [remote EXCEPT ![r] = x] \/ remote' = [remote EXCEPT ![r] = NotAsking]
  BY <1>0 DEF Store, Asker
<1>3. StoreShape'
  BY <1>0, <1>1, FlushEffect DEF StoreShape
<1>4. /\ x.pc = "take" /\ x.batch = <<>> /\ x.answers = <<>> /\ x.pending = Clean
      /\ x.rows = remote[r].rows /\ x.total = remote[r].total /\ x.taken = remote[r].taken /\ x.sent = remote[r].sent
  BY <1>0 DEF Asker
<1>7. x \in Asker
  BY <1>0, CleanPending, NothingSent DEF Asker
<1>5. NotAsking \in Asker /\ NotAsking.pc = "done" /\ NotAsking.answers = <<>>
  BY CleanPending DEF NotAsking, Asker
<1> HIDE DEF x
<1>6. AskerShape' /\ OtherRuns(r) /\ (remote'[r] = x \/ remote'[r] = NotAsking)
  BY <1>0, <1>2, <1>4, <1>5, <1>7, AskerChange
<1> QED BY <1>0, <1>1, <1>3, <1>4, <1>6

-----------------------------------------------------------------------------
\* A run of retrace chooses sources that have frames (retrace.py, run).
LEMMA StartRunEffect ==
  ASSUME Shape, NEW p \in Pool, RetraceStart(p)
  PROVE  /\ PoolShape' /\ UNCHANGED <<work, session, storeVars>>
         /\ \A o \in Pool \ {p} : pool'[o] = pool[o]
         /\ \A k \in pool'[p].chosen : FramesOf(SiteOf[p], k) # {}
<1> DEFINE s == SiteOf[p]
<1>1. PICK type \in Type, limit \in MaxFails :
        LET chosen == {k \in Needs(s, type) : limit = Unlimited \/ db[s].row[k].fails <= limit} IN
        pool' = [pool EXCEPT ![p] = [pc |-> "run", chosen |-> chosen, tasks |-> TasksOf(chosen)]]
  BY DEF RetraceStart
<1> DEFINE chosen == {k \in Needs(s, type) : limit = Unlimited \/ db[s].row[k].fails <= limit}
           run == [pc |-> "run", chosen |-> chosen, tasks |-> TasksOf(chosen)]
<1>2. chosen \subseteq Source /\ \A k \in chosen : FramesOf(s, k) # {}
  BY DEF Needs, NeedsCore, NeedsKernel
<1>3. TasksOf(chosen) \subseteq Debuginfo
  <2>1. \A k \in chosen : CorePackages(k) \subseteq Debuginfo /\ KernelPackages(k) \subseteq Debuginfo
    BY <1>2, StoreAssumption DEF CorePackages, KernelPackages
  <2> HIDE DEF chosen
  <2> QED BY <2>1 DEF TasksOf
<1>4. pool' = [pool EXCEPT ![p] = run]
  BY <1>1
<1> HIDE DEF chosen
<1>5. run \in Run1 /\ run.chosen = chosen
  BY <1>2, <1>3 DEF Run1
<1> HIDE DEF run
<1>6. pool \in [Pool -> Run1]
  BY DEF Shape, PoolShape
<1>7. pool' \in [Pool -> Run1] /\ pool'[p] = run /\ \A o \in Pool \ {p} : pool'[o] = pool[o]
  BY <1>4, <1>5, <1>6
<1>8. UNCHANGED <<work, session, storeVars>>
  BY DEF RetraceStart
<1>9. PoolShape'
  BY <1>7, <1>8 DEF Shape, PoolShape, Placed
<1> QED BY <1>2, <1>5, <1>7, <1>8, <1>9

\* A thread gets a task.
LEMMA SubmitEffect ==
  ASSUME Shape, NEW w \in Worker, NEW others, Submit(w, others)
  PROVE  /\ PoolShape' /\ Others(w) /\ UNCHANGED <<session, db, files, failed, late>>
         /\ \A p \in Pool : pool'[p].chosen = pool[p].chosen
         /\ work[w].pc = "idle" /\ work'[w].pc = "unpack" /\ work'[w].left = work[w].left /\ work'[w].at = work[w].at
<1> DEFINE p == PoolOf[w]
<1>1. PICK d \in pool[p].tasks : /\ pool' = [pool EXCEPT ![p].tasks = @ \ {d}]
                                /\ work' = [work EXCEPT ![w].pc = "unpack", ![w].pkg = {d}]
  BY DEF Submit
<1>2. /\ pool \in [Pool -> Run1] /\ work \in [Worker -> Task] /\ p \in Pool /\ pool[p] \in Run1 /\ work[w] \in Task
      /\ (\A v \in Worker : Placed(v)) /\ work[w].pc = "idle"
  BY PoolOfWorker DEF Shape, PoolShape, Submit
<1> DEFINE run == [pool[p] EXCEPT !.tasks = @ \ {d}]
           task == [work[w] EXCEPT !.pc = "unpack", !.pkg = {d}]
<1>3. pool' = [pool EXCEPT ![p] = run] /\ work' = [work EXCEPT ![w] = task]
  BY <1>1, <1>2 DEF Run1, Task
<1>4. run \in Run1 /\ run.chosen = pool[p].chosen
  BY <1>2 DEF Run1
<1>5. d \in Debuginfo
  BY <1>1, <1>2 DEF Run1
<1>6. task \in Task /\ task.pc = "unpack" /\ task.left = work[w].left /\ task.at = work[w].at
  BY <1>2, <1>5 DEF Task
<1> HIDE DEF run, task
<1>7. pool' \in [Pool -> Run1] /\ \A o \in Pool : pool'[o].chosen = pool[o].chosen
  BY <1>2, <1>3, <1>4
<1>8. work' \in [Worker -> Task] /\ Others(w) /\ work'[w] = task
  BY <1>2, <1>3, <1>6 DEF Others
<1>9. ASSUME NEW v \in Worker PROVE Placed(v)'
  BY <1>2, <1>6, <1>8 DEF Placed, Others
<1>10. UNCHANGED <<session, db, files, failed, late>>
  BY DEF Submit
<1> QED BY <1>2, <1>6, <1>7, <1>8, <1>9, <1>10 DEF Shape, PoolShape

\* A run ends or is killed: its threads are idle and nothing is pending.
LEMMA EndEffect ==
  ASSUME Shape, NEW p \in Pool, PoolEnd(p) \/ PoolKill(p)
  PROVE  /\ PoolShape' /\ UNCHANGED storeVars /\ session'[p] = Clean
         /\ \A o \in Pool \ {p} : session'[o] = session[o] /\ pool'[o] = pool[o]
         /\ pool'[p] = NoRun
         /\ \A w \in Worker : IF PoolOf[w] = p THEN work'[w].pc = "idle" ELSE work'[w] = work[w]
         /\ \A w \in Worker : work'[w] = work[w] \/ work'[w] = Idle
<1>1. /\ pool \in [Pool -> Run1] /\ work \in [Worker -> Task] /\ session \in [Pool -> Pending]
      /\ \A v \in Worker : Placed(v)
  BY DEF Shape, PoolShape
<1>2. NoRun \in Run1 /\ Idle \in Task /\ Idle.pc = "idle"
  BY DEF NoRun, Run1, Idle, Task
<1>3. /\ pool' = [pool EXCEPT ![p] = NoRun] /\ session' = [session EXCEPT ![p] = Clean] /\ UNCHANGED storeVars
  BY DEF PoolEnd, PoolKill
<1>4. /\ pool' \in [Pool -> Run1] /\ session' \in [Pool -> Pending] /\ pool'[p] = NoRun /\ session'[p] = Clean
      /\ \A o \in Pool \ {p} : session'[o] = session[o] /\ pool'[o] = pool[o]
  BY <1>1, <1>2, <1>3, CleanPending
<1>5. CASE PoolEnd(p)
  <2>1. work' = work /\ \A w \in Worker : PoolOf[w] = p => work[w].pc = "idle"
    BY <1>5 DEF PoolEnd, WorkersOf
  <2>2. PoolShape'
    BY <1>1, <1>4, <2>1 DEF PoolShape, Placed
  <2> QED BY <1>3, <1>4, <2>1, <2>2
<1>6. CASE PoolKill(p)
  <2>1. work' = [w \in Worker |-> IF PoolOf[w] = p THEN Idle ELSE work[w]]
    BY <1>6 DEF PoolKill
  <2>2. work' \in [Worker -> Task]
    BY <1>1, <1>2, <2>1
  <2>3. ASSUME NEW v \in Worker PROVE Placed(v)'
    BY <1>1, <1>2, <2>1 DEF Placed
  <2>4. PoolShape'
    BY <1>4, <2>2, <2>3 DEF PoolShape
  <2> QED BY <1>2, <1>3, <1>4, <2>1, <2>4
<1> QED BY <1>5, <1>6

\* Each step of a run of retrace-remote keeps the shapes.
LEMMA RemoteShape ==
  ASSUME Shape, NEW r \in Remote, RemoteStep(r)
  PROVE  StoreShape' /\ AskerShape'
<1> USE DEF Shape
<1>1. ASSUME Serve(r) PROVE StoreShape' /\ AskerShape'
  <2>1. db' \in [Site -> Tables] /\ UNCHANGED <<failed, overlap>>
    BY <1>1, ServeEffect DEF Serve
  <2>2. AskerShape'
    BY <1>1, ServeAnswers, AnswerEffect, DropEffect
  <2> QED BY <2>1, <2>2 DEF StoreShape
<1>2. ASSUME UNCHANGED storeVars PROVE StoreShape'
  BY <1>2 DEF storeVars, StoreShape
<1>3. ASSUME RequestFails(r) PROVE AskerShape'
  BY <1>3, DropEffect DEF RequestFails
<1>4. ASSUME NextType(r) \/ ListSources(r) \/ Take(r) \/ Answered(r) \/ Receive(r) PROVE AskerShape'
  BY <1>4, NextTypeEffect, ListEffect, TakeEffect, AnsweredEffect, ReceiveEffect
<1>5. UNCHANGED storeVars \/ Serve(r) \/ Store(r)
  BY DEF RemoteStep, NextType, ListSources, Take, RequestFails, Answered, Receive
<1> HIDE DEF Shape
<1> QED BY <1>1, <1>2, <1>3, <1>4, <1>5, StoreEffect DEF RemoteStep

\* Every step keeps the shapes.
LEMMA ShapeStep == ASSUME Shape, [Next]_vars PROVE Shape'
<1> SUFFICES ASSUME Next \/ UNCHANGED vars PROVE Shape'
  OBVIOUS
<1>0. StoreShape /\ PoolShape /\ AskerShape
  BY DEF Shape
<1>1. ASSUME UNCHANGED transferVars PROVE AskerShape'
  BY <1>0, <1>1 DEF transferVars, AskerShape, Paired
<1>2. ASSUME UNCHANGED poolVars PROVE PoolShape'
  BY <1>0, <1>2 DEF poolVars, PoolShape, Placed
<1>3. ASSUME UNCHANGED storeVars PROVE StoreShape'
  BY <1>0, <1>3 DEF storeVars, StoreShape
<1>4. ASSUME NEW s \in Site, UNCHANGED db, UNCHANGED failed, overlap' = overlap \/ overlap' = overlap \cup {s}
      PROVE  StoreShape'
  BY <1>0, <1>4 DEF StoreShape
<1>5. \A s \in Site : Busy(s) \in BOOLEAN
  BY DEF Busy
<1>6. ASSUME NEW p \in Pool, RetraceStart(p) \/ PoolEnd(p) \/ PoolKill(p), UNCHANGED transferVars PROVE Shape'
  BY <1>1, <1>3, <1>6, StartRunEffect, EndEffect DEF Shape
<1>7. ASSUME NEW r \in Remote, RemoteStart(r, Busy(Client)), UNCHANGED poolVars PROVE Shape'
  <2>1. Client \in Site
    BY DEF Site
  <2>2. StoreShape'
    BY <1>4, <1>7, <2>1 DEF RemoteStart
  <2> QED BY <1>0, <1>2, <1>5, <1>7, <2>1, <2>2, StartEffect DEF Shape
<1>8. ASSUME Outside PROVE Shape'
  <2>1. ASSUME NEW s \in Site, NEW k \in Source, NEW x \in Report, SaveBacktrace(s, k, x, Busy(s)) PROVE StoreShape'
    BY <1>0, <1>5, <2>1, SaveEffect
  <2>2. ASSUME AddPackage \/ DeletePackage PROVE StoreShape'
    BY <1>0, <2>2 DEF AddPackage, DeletePackage, StoreShape
  <2> QED BY <1>1, <1>2, <1>8, <2>1, <2>2 DEF Outside, SaveCore, SaveKerneloops, Shape
<1>9. ASSUME NEW w \in Worker, Submit(w, AskingAt(SiteOf[PoolOf[w]])), UNCHANGED transferVars PROVE Shape'
  <2>1. StoreShape'
    BY <1>4, <1>9, PoolOfWorker DEF Submit
  <2> QED BY <1>1, <1>9, <2>1, SubmitEffect DEF Shape
<1>10. ASSUME NEW w \in Worker, WorkerStep(w), UNCHANGED transferVars PROVE Shape'
  BY <1>1, <1>10, WorkerShape DEF Shape
<1>11. ASSUME NEW r \in Remote, RemoteStep(r), UNCHANGED poolVars PROVE Shape'
  BY <1>2, <1>11, RemoteShape DEF Shape
<1>12. ASSUME UNCHANGED vars PROVE Shape'
  BY <1>1, <1>2, <1>3, <1>12 DEF vars, Shape
<1> QED BY <1>6, <1>7, <1>8, <1>9, <1>10, <1>11, <1>12 DEF Next, Start, Run

-----------------------------------------------------------------------------
(* Every source that needs it is asked for. *)

Asked(r) ==
  /\ remote[r].pc \in {"take", "post", "receive", "store"} =>
       /\ remote[r].taken <= Len(remote[r].rows)
       /\ \A i \in 1..remote[r].taken :
            remote[r].rows[i] \in remote[r].sent \cup (IF remote[r].pc = "take" THEN Range(remote[r].batch) ELSE {})
  /\ remote[r].pc = "take" /\ remote[r].batch # <<>> => remote[r].taken # remote[r].total
  /\ remote[r].pc = "type" /\ Len(remote[r].rows) = remote[r].total => Range(remote[r].rows) \subseteq remote[r].sent
  /\ remote[r].pc \in {"type", "list"} => remote[r].batch = <<>>

\* Asked is kept by steps that leave the run alone.
LEMMA AskedSame == ASSUME NEW r \in Remote, Asked(r), remote'[r] = remote[r] PROVE Asked(r)'
  BY DEF Asked, Range

\* A batch is sent before the next source is taken, and the last one however
\* small it is (retrace_remote.py, run).
LEMMA AskedTake == ASSUME Shape, NEW r \in Remote, Asked(r), Take(r) PROVE Asked(r)'
<1> DEFINE i == remote[r].taken + 1
           rows == remote[r].rows
           batch == remote[r].batch
<1>0. /\ rows \in Seq(Source) /\ batch \in Seq(Source) /\ remote[r].taken \in Nat /\ remote[r].pc = "take" /\ AskerShape
      /\ remote[r].total \in Nat
  BY DEF Shape, AskerShape, Asker, Take
<1>1. /\ remote[r].taken <= Len(rows)
      /\ \A j \in 1..remote[r].taken : rows[j] \in remote[r].sent \cup Range(batch)
      /\ batch # <<>> => remote[r].taken # remote[r].total
  BY <1>0 DEF Asked
<1>2. remote'[r].rows = rows /\ remote'[r].total = remote[r].total
  BY <1>0, TakeEffect
<1>3. CASE i > Len(rows) /\ remote'[r].pc = "type" /\ remote'[r].batch = <<>> /\ remote'[r].taken = remote[r].taken
           /\ remote'[r].sent = remote[r].sent
  <2>1. remote[r].taken = Len(rows)
    BY <1>0, <1>1, <1>3
  <2>2. ASSUME Len(rows) = remote[r].total PROVE Range(rows) \subseteq remote[r].sent
    <3>1. batch = <<>>
      BY <1>1, <2>1, <2>2
    <3>2. Range(batch) = {}
      BY <3>1 DEF Range
    <3>3. \A j \in DOMAIN rows : rows[j] \in remote[r].sent
      BY <1>0, <1>1, <2>1, <3>2
    <3> QED BY <3>3 DEF Range
  <2> QED BY <1>2, <1>3, <2>2 DEF Asked
<1>4. CASE /\ i \in DOMAIN rows /\ remote'[r].taken = i /\ remote'[r].batch = Append(batch, rows[i])
           /\ Full(r, i) /\ remote'[r].pc = "post"
           /\ remote'[r].sent = remote[r].sent \cup Range(batch) \cup {rows[i]}
  <2>1. i <= Len(rows) /\ \A j \in 1..i : rows[j] \in remote'[r].sent
    BY <1>0, <1>1, <1>4
  <2> QED BY <1>2, <1>4, <2>1 DEF Asked
<1>5. CASE /\ i \in DOMAIN rows /\ remote'[r].taken = i /\ remote'[r].batch = Append(batch, rows[i])
           /\ ~Full(r, i) /\ remote'[r].pc = "take" /\ remote'[r].sent = remote[r].sent
  <2>1. Range(batch) \cup {rows[i]} \subseteq Range(remote'[r].batch)
    <3>1. rows[i] \in Source
      BY <1>0, <1>5
    <3>2. /\ DOMAIN Append(batch, rows[i]) = 1..(Len(batch) + 1) /\ Len(batch) \in Nat
          /\ Append(batch, rows[i])[Len(batch) + 1] = rows[i]
          /\ \A j \in DOMAIN batch : Append(batch, rows[i])[j] = batch[j] /\ j \in 1..(Len(batch) + 1)
      BY <1>0, <3>1
    <3> DEFINE longer == Append(batch, rows[i])
    <3>3. remote'[r].batch = longer
      BY <1>5
    <3> HIDE DEF longer
    <3>4. \A x \in Range(batch) : \E j \in DOMAIN batch : x = batch[j]
      BY DEF Range
    <3>5. \A j \in DOMAIN batch : batch[j] \in Range(longer)
      BY <3>2 DEF Range, longer
    <3>6. rows[i] \in Range(longer)
      BY <3>2 DEF Range, longer
    <3> QED BY <3>3, <3>4, <3>5, <3>6
  <2>2. i <= Len(rows) /\ \A j \in 1..i : rows[j] \in remote'[r].sent \cup Range(remote'[r].batch)
    <3>1. i <= Len(rows) /\ remote'[r].sent = remote[r].sent
      BY <1>0, <1>5
    <3>2. ASSUME NEW j \in 1..i PROVE j \in 1..remote[r].taken \/ j = i
      BY <1>0, <3>2
    <3>3. ASSUME NEW j \in 1..i PROVE rows[j] \in remote'[r].sent \cup Range(remote'[r].batch)
      <4>1. CASE j = i
        BY <2>1, <4>1
      <4>2. CASE j \in 1..remote[r].taken
        <5>1. rows[j] \in remote[r].sent \cup Range(batch)
          BY <1>1, <4>2
        <5> QED BY <2>1, <3>1, <5>1
      <4> QED BY <3>2, <4>1, <4>2
    <3> QED BY <3>1, <3>3
  <2>3. i # remote[r].total
    BY <1>5 DEF Full
  <2> HIDE DEF i
  <2> QED BY <1>2, <1>5, <2>2, <2>3 DEF Asked
<1> QED BY <1>0, <1>3, <1>4, <1>5, TakeEffect

\* Every step of a run keeps Asked.
LEMMA AskedStep == ASSUME Shape, NEW r \in Remote, Asked(r), RemoteStep(r) PROVE Asked(r)'
<1>0. AskerShape /\ remote[r] \in Asker
  BY DEF Shape, AskerShape
<1>1. CASE NextType(r)
  <2>1. remote'[r].pc \in {"done", "type", "list"} /\ remote'[r].rows = <<>>
    BY <1>0, <1>1, NextTypeEffect
  <2>2. remote[r].batch = <<>> /\ NotAsking.batch = <<>> /\ (remote'[r] = NotAsking \/ remote'[r].batch = remote[r].batch)
    BY <1>0, <1>1, NextTypeEffect DEF Asked, NextType, NotAsking
  <2>3. Range(<<>>) = {}
    BY DEF Range
  <2> QED BY <2>1, <2>2, <2>3 DEF Asked
<1>2. CASE ListSources(r)
  <2>1. remote'[r].pc = "take" /\ remote'[r].taken = 0 /\ remote'[r].batch = <<>> /\ remote'[r].rows \in Seq(Source)
    BY <1>0, <1>2, ListEffect DEF Asked, AskerShape, Asker
  <2> QED BY <2>1 DEF Asked
<1>3. CASE Take(r)
  BY <1>3, AskedTake
<1>4. ASSUME DropBatch(r), remote[r].pc = "post" PROVE Asked(r)'
  BY <1>0, <1>4, DropEffect DEF Asked
<1>5. ASSUME NEW answer \in SUBSET Symbol, Answer(r, answer), remote[r].pc = "post",
             Len(remote[r].answers) < Len(remote[r].batch)
      PROVE  Asked(r)'
  BY <1>0, <1>5, AnswerEffect DEF Asked
<1>6. CASE Serve(r)
  BY <1>4, <1>5, <1>6, ServeAnswers
<1>7. CASE RequestFails(r)
  BY <1>4, <1>7 DEF RequestFails
<1>8. CASE Answered(r)
  BY <1>0, <1>8, AnsweredEffect DEF Asked
<1>9. CASE Receive(r)
  BY <1>0, <1>9, ReceiveEffect DEF Asked
<1>10. CASE Store(r)
  BY <1>0, <1>10, StoreEffect DEF Asked, NotAsking
<1> QED BY <1>1, <1>2, <1>3, <1>6, <1>7, <1>8, <1>9, <1>10 DEF RemoteStep

\* Whatever happens, a request that is not at a step stays as it is.
LEMMA OtherRemotes ==
  ASSUME Shape, [Next]_vars, NEW r \in Remote
  PROVE  remote'[r] = remote[r] \/ RemoteStep(r) \/ RemoteStart(r, Busy(Client))
<1>1. \A o \in Remote : RemoteStep(o) => o = r \/ remote'[r] = remote[r]
  <2> SUFFICES ASSUME NEW o \in Remote, RemoteStep(o) PROVE OtherRuns(o)
    BY DEF OtherRuns
  <2>0. AskerShape
    BY DEF Shape
  <2>1. CASE Serve(o)
    BY <2>0, <2>1, ServeAnswers, AnswerEffect, DropEffect
  <2>2. CASE ~Serve(o)
    BY <2>0, <2>2, NextTypeEffect, ListEffect, TakeEffect, DropEffect, AnsweredEffect, ReceiveEffect, StoreEffect
       DEF RemoteStep, RequestFails
  <2> QED BY <2>1, <2>2
<1>2. \A o \in Remote : RemoteStart(o, Busy(Client)) => o = r \/ remote'[r] = remote[r]
  BY StartEffect DEF Shape, OtherRuns, Busy
<1> QED BY <1>1, <1>2 DEF Next, Start, Outside, Run, vars, transferVars

\* Unless the sources changed between their count and their list, each is in a
\* batch that was sent, whatever the size of the batches (retrace_remote.py,
\* run).
THEOREM AllAsked == Spec => []AsksForAll
<1> DEFINE Inv == Shape /\ \A r \in Remote : Asked(r)
<1>1. Init => Inv
  <2> SUFFICES ASSUME Init PROVE \A r \in Remote : Asked(r)
    BY InitShape
  <2> QED BY DEF Init, TransferInit, NotAsking, Asked
<1>2. Inv /\ [Next]_vars => Inv'
  <2> SUFFICES ASSUME Inv, [Next]_vars, NEW r \in Remote PROVE Asked(r)'
    BY ShapeStep
  <2>1. CASE RemoteStart(r, Busy(Client))
    <3>1. remote'[r].pc = "type" /\ remote'[r].rows = <<>> /\ remote'[r].batch = <<>>
      BY <2>1, StartEffect DEF Shape, Busy
    <3>2. Range(<<>>) = {}
      BY DEF Range
    <3> QED BY <3>1, <3>2 DEF Asked
  <2> QED BY <2>1, AskedSame, AskedStep, OtherRemotes
<1>3. Inv => AsksForAll
  BY DEF Asked, AsksForAll
<1> QED BY <1>1, <1>2, <1>3, PTL DEF Spec

-----------------------------------------------------------------------------
(* The client has only what the server gave. *)

ServedPair(k, symbols) == {k} \X symbols \subseteq served
Given(r) ==
  /\ \A i \in DOMAIN remote[r].answers :
       i \in DOMAIN remote[r].batch /\ ServedPair(remote[r].batch[i], remote[r].answers[i])
  /\ remote[r].pending.sym \subseteq served
  /\ \A k \in remote[r].pending.line : \E x \in remote[r].pending.sym : x[1] = k
ClientServed == \A k \in Source : db[Client].row[k].line => ServedPair(k, db[Client].row[k].sym)

\* Given is kept while answers and what is pending stay.
LEMMA GivenSame ==
  ASSUME NEW r \in Remote, Given(r), served \subseteq served', remote'[r].answers = remote[r].answers,
         remote'[r].batch = remote[r].batch \/ remote[r].answers = <<>>,
         remote'[r].pending = remote[r].pending
  PROVE  Given(r)'
<1>1. CASE remote'[r].batch = remote[r].batch
  BY <1>1 DEF Given, ServedPair
<1>2. CASE remote[r].answers = <<>>
  <2>1. DOMAIN remote'[r].answers = {}
    BY <1>2
  <2> QED BY <2>1 DEF Given
<1> QED BY <1>1, <1>2

\* A run without answers and with nothing pending is Given.
LEMMA GivenNothing ==
  ASSUME NEW r \in Remote, remote'[r].answers = <<>>, remote'[r].pending = Clean
  PROVE  Given(r)'
<1>1. DOMAIN remote'[r].answers = {}
  OBVIOUS
<1> QED BY <1>1 DEF Given, Clean

\* What the server has answered only grows.
LEMMA ServedGrows == ASSUME Shape, [Next]_vars PROVE served \subseteq served'
<1>1. ASSUME NEW r \in Remote, RemoteStep(r) PROVE served \subseteq served'
  BY <1>1, ServeAnswers DEF RemoteStep, NextType, ListSources, Take, RequestFails, Answered, Receive, Store
<1> QED BY <1>1 DEF Next, Start, Outside, Run, RemoteStart, vars, transferVars

\* An answer is that for the source at its place in the batch (retrace_remote.py,
\* run; symbol_transfer.py, process_symbol).
LEMMA GivenStep == ASSUME Shape, NEW r \in Remote, Given(r), RemoteStep(r), served \subseteq served' PROVE Given(r)'
<1>0. AskerShape /\ remote[r] \in Asker /\ Paired(r)
  BY DEF Shape, AskerShape
<1>1. CASE NextType(r)
  <2>1. remote[r].answers = <<>>
    BY <1>0, <1>1 DEF Paired, NextType
  <2>2. CASE remote'[r] = NotAsking
    <3>1. NotAsking.answers = <<>> /\ NotAsking.pending = Clean
      BY DEF NotAsking
    <3> QED BY <2>2, <3>1, GivenNothing
  <2> QED BY <1>0, <1>1, <2>1, <2>2, NextTypeEffect, GivenSame
<1>2. CASE ListSources(r)
  BY <1>0, <1>2, ListEffect, GivenSame
<1>3. CASE Take(r)
  <2>1. remote[r].answers = <<>> /\ remote'[r].answers = <<>> /\ remote'[r].pending = remote[r].pending
    BY <1>0, <1>3, TakeEffect
  <2> QED BY <2>1, GivenSame
<1>4. ASSUME DropBatch(r) PROVE Given(r)'
  <2>1. DOMAIN remote'[r].answers = {} /\ remote'[r].pending = remote[r].pending
    BY <1>0, <1>4, DropEffect
  <2> QED BY <2>1 DEF Given
<1>5. CASE Serve(r)
  <2> DEFINE n == Len(remote[r].answers)
             k == remote[r].batch[n + 1]
  <2>1. ASSUME NEW answer \in SUBSET Symbol, Answer(r, answer), served' = served \cup ({k} \X answer) PROVE Given(r)'
    <3>1. /\ remote'[r].answers = Append(remote[r].answers, answer) /\ remote'[r].batch = remote[r].batch
          /\ remote'[r].pending = remote[r].pending
      BY <1>0, <1>5, <2>1, ServeAnswers, AnswerEffect
    <3>2. remote[r].answers \in Seq(SUBSET Symbol) /\ remote[r].batch \in Seq(Source) /\ n < Len(remote[r].batch)
      BY <1>0, <1>5, ServeAnswers DEF Asker
    <3>3. ASSUME NEW i \in DOMAIN remote'[r].answers
          PROVE  i \in DOMAIN remote[r].batch /\ {remote[r].batch[i]} \X remote'[r].answers[i] \subseteq served'
      <4>1. i \in DOMAIN remote[r].answers \/ i = n + 1
        BY <3>1, <3>2, <3>3
      <4>2. CASE i \in DOMAIN remote[r].answers
        <5>1. remote'[r].answers[i] = remote[r].answers[i]
          BY <3>1, <3>2, <4>2
        <5> QED BY <3>1, <4>2, <5>1 DEF Given, ServedPair
      <4>3. CASE i = n + 1
        <5>1. i \in DOMAIN remote[r].batch /\ remote'[r].answers[i] = answer /\ remote'[r].batch[i] = k
          BY <3>1, <3>2, <4>3
        <5> QED BY <2>1, <3>1, <5>1 DEF ServedPair
      <4> QED BY <4>1, <4>2, <4>3
    <3> QED BY <3>1, <3>3 DEF Given, ServedPair
  <2> QED BY <1>4, <1>5, <2>1, ServeAnswers
<1>6. CASE Answered(r)
  BY <1>0, <1>6, AnsweredEffect, GivenSame
<1>7. CASE Receive(r)
  <2>1. remote'[r].batch = remote[r].batch /\ remote'[r].answers = remote[r].answers
    BY <1>0, <1>7, ReceiveEffect
  <2>2. /\ remote'[r].pending.sym = UNION {{x[1]} \X x[2] : x \in Pairs(r)}
        /\ remote'[r].pending.line = {x[1] : x \in Pairs(r)} /\ \A x \in Pairs(r) : x[2] # {}
    BY <1>0, <1>7, ReceiveEffect
  <2>3. ASSUME NEW x \in Pairs(r) PROVE {x[1]} \X x[2] \subseteq served
    <3>1. PICK i \in DOMAIN remote[r].batch : x = <<remote[r].batch[i], remote[r].answers[i]>>
      BY <2>3 DEF Pairs
    <3>2. i \in DOMAIN remote[r].answers
      <4>1. /\ Len(remote[r].answers) = Len(remote[r].batch)
            /\ remote[r].answers \in Seq(SUBSET Symbol) /\ remote[r].batch \in Seq(Source)
        BY <1>0, <1>7 DEF Paired, Receive, Asker
      <4> QED BY <4>1
    <3> QED BY <3>1, <3>2 DEF Given, ServedPair
  <2>4. ASSUME NEW k \in remote'[r].pending.line PROVE \E y \in remote'[r].pending.sym : y[1] = k
    <3>1. PICK x \in Pairs(r) : k = x[1]
      BY <2>2, <2>4
    <3>2. PICK symbol \in x[2] : TRUE
      BY <2>2
    <3>3. <<k, symbol>> \in {x[1]} \X x[2]
      BY <3>1, <3>2
    <3>4. <<k, symbol>> \in remote'[r].pending.sym /\ <<k, symbol>>[1] = k
      BY <2>2, <3>3
    <3> QED BY <3>4
  <2>5. remote'[r].pending.sym \subseteq served
    BY <2>2, <2>3
  <2> QED BY <2>1, <2>4, <2>5 DEF Given, ServedPair
<1>8. CASE Store(r)
  <2>1. NotAsking.answers = <<>> /\ NotAsking.pending = Clean
    BY DEF NotAsking
  <2>2. remote'[r].answers = <<>> /\ remote'[r].pending = Clean
    BY <1>8, <2>1, StoreEffect
  <2> QED BY <2>2, GivenNothing
<1>9. CASE RequestFails(r)
  BY <1>4, <1>9 DEF RequestFails
<1> QED BY <1>1, <1>2, <1>3, <1>5, <1>6, <1>7, <1>8, <1>9 DEF RemoteStep

\* Which steps change the tables.
Untouched == UNCHANGED <<db, failed, late>>
\* The tables change by a saved backtrace, an ended task, an answer or a
\* flush of retrace-remote.
LEMMA TableCases ==
  ASSUME [Next]_vars
  PROVE  \/ Untouched
         \/ \E s \in Site, k \in Source, x \in Report :
              SaveBacktrace(s, k, x, Busy(s)) /\ UNCHANGED <<poolVars, transferVars>>
         \/ \E w \in Worker : FinishTask(w) /\ UNCHANGED transferVars
         \/ \E r \in Remote : (Serve(r) \/ Store(r)) /\ UNCHANGED poolVars
<1> USE DEF Untouched
<1>1. ASSUME NEW w \in Worker, WorkerStep(w) PROVE Untouched \/ FinishTask(w)
  BY <1>1 DEF WorkerStep, Unpack, ResolveCore, ResolveKernel, Inline, SetSymbol, SetLine, storeVars
<1>2. ASSUME NEW r \in Remote, RemoteStep(r) PROVE Untouched \/ Serve(r) \/ Store(r)
  BY <1>2 DEF RemoteStep, NextType, ListSources, Take, RequestFails, Answered, Receive, storeVars
<1>3. ASSUME Outside
      PROVE  Untouched \/ \E s \in Site, k \in Source, x \in Report :
               SaveBacktrace(s, k, x, Busy(s)) /\ UNCHANGED <<poolVars, transferVars>>
  BY <1>3 DEF Outside, SaveCore, SaveKerneloops, AddPackage, DeletePackage
<1>4. ASSUME Start PROVE Untouched
  BY <1>4 DEF Start, RetraceStart, RemoteStart, storeVars
<1>5. ASSUME NEW p \in Pool, PoolEnd(p) \/ PoolKill(p) PROVE Untouched
  BY <1>5 DEF PoolEnd, PoolKill, storeVars
<1>6. ASSUME NEW w \in Worker, NEW others, Submit(w, others) PROVE Untouched
  BY <1>6 DEF Submit
<1>7. ASSUME Run
      PROVE  \/ Untouched \/ \E w \in Worker : FinishTask(w) /\ UNCHANGED transferVars
             \/ \E r \in Remote : (Serve(r) \/ Store(r)) /\ UNCHANGED poolVars
  BY <1>1, <1>2, <1>5, <1>6, <1>7 DEF Run
<1>8. ASSUME UNCHANGED vars PROVE Untouched
  BY <1>8 DEF vars, storeVars
<1> QED BY <1>3, <1>4, <1>7, <1>8 DEF Next

\* Busy is a truth value.
LEMMA BusyType == ASSUME NEW s PROVE Busy(s) \in BOOLEAN
  BY DEF Busy

\* No step gives the client a symbol that the server has not served.
LEMMA ClientStep ==
  ASSUME \A p \in Pool : SiteOf[p] = Server, Shape, ClientServed, \A r \in Remote : Given(r), [Next]_vars
  PROVE  ClientServed'
<1>0. served \subseteq served' /\ StoreShape /\ Client \in Site /\ Server \in Site /\ Client # Server
  BY ServedGrows, StoreAssumption DEF Shape, Site
<1>1. ASSUME db'[Client] = db[Client] PROVE ClientServed'
  BY <1>0, <1>1 DEF ClientServed, ServedPair
<1>2. ASSUME NEW s \in Site, NEW k \in Source, NEW x \in Report, SaveBacktrace(s, k, x, Busy(s)) PROVE ClientServed'
  <2>1. CASE s = Client
    <3>1. \A j \in Source : ~db'[Client].row[j].line \/ db'[Client].row[j] = db[Client].row[j]
      BY <1>0, <1>2, <2>1, SaveEffect, BusyType
    <3> QED BY <1>0, <3>1 DEF ClientServed, ServedPair
  <2>2. CASE s # Client
    BY <1>0, <1>1, <1>2, <2>2, SaveEffect, BusyType
  <2> QED BY <2>1, <2>2
<1>3. ASSUME NEW w \in Worker, FinishTask(w) PROVE ClientServed'
  <2>1. SiteOf[PoolOf[w]] = Server /\ session[PoolOf[w]] \in Pending /\ Flush(Server, session[PoolOf[w]])
    BY <1>3, FinishEffect, PoolOfWorker
  <2>2. db'[Client] = db[Client]
    BY <1>0, <2>1, FlushEffect
  <2> QED BY <1>1, <2>2
<1>4. ASSUME NEW r \in Remote, Serve(r) PROVE ClientServed'
  BY <1>0, <1>1, <1>4, ServeEffect
<1>5. ASSUME NEW r \in Remote, Store(r) PROVE ClientServed'
  <2> DEFINE q == remote[r].pending
  <2>1. q \in Pending /\ Flush(Client, q)
    BY <1>5, StoreEffect
  <2>2. q.sym \subseteq served /\ \A k \in q.line : \E x \in q.sym : x[1] = k
    BY DEF Given
  <2> HIDE DEF q
  <2>3. CASE Conflict(Client, q)
    BY <1>0, <1>1, <2>1, <2>3, FlushEffect
  <2>4. CASE ~Conflict(Client, q)
    <3> SUFFICES ASSUME NEW k \in Source, db'[Client].row[k].line
                 PROVE  {k} \X db'[Client].row[k].sym \subseteq served
      BY <1>0 DEF ClientServed, ServedPair
    <3>1. CASE \E x \in q.sym : x[1] = k
      <4>1. PICK y \in Symbol : <<k, y>> \in q.sym /\ db'[Client].row[k].sym = {y}
        BY <1>0, <2>1, <2>4, <3>1, FlushEffect
      <4> QED BY <2>2, <4>1
    <3>2. CASE \A x \in q.sym : x[1] # k
      <4>1. /\ db'[Client].row[k].sym = db[Client].row[k].sym
            /\ db'[Client].row[k].line = (db[Client].row[k].line \/ k \in q.line)
        BY <1>0, <2>1, <2>4, <3>2, FlushEffect
      <4>2. k \notin q.line
        BY <2>2, <3>2
      <4> QED BY <4>1, <4>2 DEF ClientServed, ServedPair
    <3> QED BY <3>1, <3>2
  <2> QED BY <2>3, <2>4
<1> QED BY <1>1, <1>2, <1>3, <1>4, <1>5, TableCases DEF Untouched

\* Given holds at the start.
LEMMA GivenInit == ASSUME Init PROVE \A r \in Remote : Given(r)
<1>1. \A r \in Remote : remote[r].answers = <<>> /\ remote[r].pending = Clean
  BY DEF Init, TransferInit, NotAsking
<1>2. DOMAIN <<>> = {} /\ Clean.sym = {} /\ Clean.line = {}
  BY DEF Clean
<1> QED BY <1>1, <1>2 DEF Given

\* Given is kept by every step.
LEMMA GivenAllStep ==
  ASSUME Shape, \A r \in Remote : Given(r), [Next]_vars
  PROVE  \A r \in Remote : Given(r)'
<1> SUFFICES ASSUME NEW r \in Remote PROVE Given(r)'
  OBVIOUS
<1>1. served \subseteq served'
  BY ServedGrows
<1>2. CASE RemoteStart(r, Busy(Client))
  <2>1. remote'[r].answers = <<>> /\ remote'[r].pending = Clean
    BY <1>2, StartEffect DEF Shape, Busy
  <2> QED BY <2>1, GivenNothing
<1>3. CASE remote'[r] = remote[r]
  BY <1>1, <1>3, GivenSame
<1> QED BY <1>1, <1>2, <1>3, GivenStep, OtherRemotes

\* If only the server retraces, the client has no symbol for a source but one
\* that the server gave for it, however requests and answers interleave
\* (retrace_remote.py, run; symbol_transfer.py).
THEOREM OwnAnswers ==
  ASSUME \A p \in Pool : SiteOf[p] = Server
  PROVE  Spec => []OnlyServedSymbols
<1> DEFINE Inv == Shape /\ ClientServed /\ \A r \in Remote : Given(r)
<1>1. Init => Inv
  <2> SUFFICES ASSUME Init PROVE ClientServed /\ \A r \in Remote : Given(r)
    BY InitShape
  <2>1. \A k \in Source : ~db[Client].row[k].line
    BY DEF Init, StoreInit, Empty, NoRow, Site
  <2> QED BY <2>1, GivenInit DEF ClientServed
<1>2. Inv /\ [Next]_vars => Inv'
  <2> SUFFICES ASSUME Inv, [Next]_vars PROVE Inv'
    OBVIOUS
  <2> QED BY ShapeStep, ClientStep, GivenAllStep
<1>3. Inv => OnlyServedSymbols
  BY DEF ClientServed, ServedPair, OnlyServedSymbols
<1> QED BY <1>1, <1>2, <1>3, PTL DEF Spec

-----------------------------------------------------------------------------
(* How a run, a thread and a session change. *)

\* The sources of a run change only when it starts or ends.
LEMMA ChosenCases ==
  ASSUME Shape, [Next]_vars, NEW p \in Pool
  PROVE  pool'[p].chosen = pool[p].chosen \/ pool'[p].chosen = {} \/ (RetraceStart(p) /\ UNCHANGED storeVars)
<1>1. ASSUME NEW w \in Worker, WorkerStep(w) PROVE pool' = pool
  BY <1>1 DEF WorkerStep, Unpack, ResolveCore, ResolveKernel, Inline, SetSymbol, SetLine, FinishTask
<1>2. ASSUME NEW o \in Pool, PoolEnd(o) \/ PoolKill(o) PROVE pool'[p].chosen = pool[p].chosen \/ pool'[p].chosen = {}
  BY <1>2, EndEffect DEF NoRun
<1>3. ASSUME NEW o \in Pool, RetraceStart(o) PROVE pool'[p] = pool[p] \/ (RetraceStart(p) /\ UNCHANGED storeVars)
  BY <1>3, StartRunEffect
<1>4. ASSUME NEW w \in Worker, NEW others, Submit(w, others) PROVE pool'[p].chosen = pool[p].chosen
  BY <1>4, SubmitEffect
<1>5. ASSUME UNCHANGED poolVars PROVE pool' = pool
  BY <1>5 DEF poolVars
<1>6. ASSUME UNCHANGED vars PROVE pool' = pool
  BY <1>6 DEF vars, poolVars
<1>7. ASSUME Start PROVE pool'[p].chosen = pool[p].chosen \/ (RetraceStart(p) /\ UNCHANGED storeVars)
  BY <1>3, <1>5, <1>7 DEF Start
<1>8. ASSUME Run PROVE pool'[p].chosen = pool[p].chosen \/ pool'[p].chosen = {}
  <2>1. \/ \E w \in Worker : Submit(w, AskingAt(SiteOf[PoolOf[w]])) \/ WorkerStep(w)
        \/ \E o \in Pool : PoolEnd(o) \/ PoolKill(o)
        \/ UNCHANGED poolVars
    BY <1>8 DEF Run
  <2> QED BY <1>1, <1>2, <1>4, <1>5, <2>1
<1>9. ASSUME Outside PROVE pool' = pool
  BY <1>5, <1>9 DEF Outside
<1> QED BY <1>6, <1>7, <1>8, <1>9 DEF Next

\* The steps in which a worker assigns, and in which it counts a failure.
Assigns(w) == Inline(w) \/ SetSymbol(w) \/ SetLine(w)
Counts(w) == \E k \in work[w].left : Failed(w, k) /\ pool' = pool
Finds(w) == \E k \in work[w].left : Found(w, k) /\ pool' = pool

\* A thread that assigns is at one of the three assignments.
LEMMA AssignsAt == ASSUME NEW w \in Worker, Assigns(w) PROVE work[w].pc \in {"inline", "symbol", "line"}
  BY DEF Assigns, Inline, SetSymbol, SetLine

\* The steps of a thread.
LEMMA StepCases ==
  ASSUME NEW w \in Worker, WorkerStep(w)
  PROVE  \/ (Unpack(w) \/ Assigns(w)) /\ UNCHANGED storeVars
         \/ (Counts(w) \/ Finds(w)) /\ work[w].pc = "next" /\ UNCHANGED storeVars
         \/ work' = [work EXCEPT ![w] = Idle] /\ UNCHANGED <<session, storeVars>> /\ work[w].pc = "next"
         \/ FinishTask(w)
<1>1. ASSUME ResolveCore(w) PROVE (Counts(w) \/ Finds(w)) /\ work[w].pc = "next" /\ UNCHANGED storeVars
  BY <1>1 DEF ResolveCore, Counts, Finds
<1>2. ASSUME ResolveKernel(w)
      PROVE  \/ (Counts(w) \/ Finds(w)) /\ work[w].pc = "next" /\ UNCHANGED storeVars
             \/ work' = [work EXCEPT ![w] = Idle] /\ UNCHANGED <<session, storeVars>> /\ work[w].pc = "next"
  BY <1>2 DEF ResolveKernel, Counts, Finds
<1> QED BY <1>1, <1>2 DEF WorkerStep, Unpack, Inline, SetSymbol, SetLine, Assigns

\* A step of a thread leaves other threads and other sessions alone.
LEMMA StepOthers ==
  ASSUME Shape, NEW w \in Worker, WorkerStep(w)
  PROVE  Others(w) /\ OtherPools(w) /\ pool' = pool
<1>1. ASSUME Counts(w) \/ Finds(w) PROVE Others(w) /\ OtherPools(w)
  BY <1>1, FailedEffect, FoundEffect DEF Counts, Finds, OtherPools
<1>2. ASSUME Unpack(w) \/ Assigns(w) \/ FinishTask(w) PROVE Others(w) /\ OtherPools(w)
  BY <1>2, UnpackEffect, SessionEffect, FinishEffect DEF Assigns, OtherPools
<1>3. ASSUME work' = [work EXCEPT ![w] = Idle], UNCHANGED session PROVE Others(w) /\ OtherPools(w)
  <2>1. work \in [Worker -> Task]
    BY DEF Shape, PoolShape
  <2> QED BY <1>3, <2>1 DEF Others, OtherPools
<1>4. pool' = pool
  BY DEF WorkerStep, Unpack, ResolveCore, ResolveKernel, Inline, SetSymbol, SetLine, FinishTask
<1> QED BY <1>1, <1>2, <1>3, <1>4, StepCases

\* How the task of a thread can change.
LEMMA WorkCases ==
  ASSUME Shape, [Next]_vars, NEW w \in Worker
  PROVE  \/ work'[w] = work[w] \/ work'[w] = Idle
         \/ /\ Submit(w, AskingAt(SiteOf[PoolOf[w]])) /\ UNCHANGED <<db, failed, late>> /\ UNCHANGED transferVars
            /\ work'[w].pc = "unpack" /\ work'[w].left = work[w].left /\ work'[w].at = work[w].at
         \/ (Unpack(w) \/ Assigns(w)) /\ UNCHANGED storeVars
         \/ (Counts(w) \/ Finds(w)) /\ work[w].pc = "next" /\ UNCHANGED storeVars
<1> DEFINE Goal == \/ work'[w] = work[w] \/ work'[w] = Idle
                   \/ /\ Submit(w, AskingAt(SiteOf[PoolOf[w]])) /\ UNCHANGED <<db, failed, late>> /\ UNCHANGED transferVars
                      /\ work'[w].pc = "unpack" /\ work'[w].left = work[w].left /\ work'[w].at = work[w].at
                   \/ (Unpack(w) \/ Assigns(w)) /\ UNCHANGED storeVars
                   \/ (Counts(w) \/ Finds(w)) /\ work[w].pc = "next" /\ UNCHANGED storeVars
<1>1. ASSUME NEW v \in Worker, WorkerStep(v) PROVE Goal
  <2>1. CASE v = w
    <3>1. work \in [Worker -> Task]
      BY DEF Shape, PoolShape
    <3> QED BY <1>1, <2>1, <3>1, StepCases, FinishEffect
  <2>2. CASE v # w
    BY <1>1, <2>2, StepOthers DEF Others
  <2> QED BY <2>1, <2>2
<1>2. ASSUME NEW v \in Worker, Submit(v, AskingAt(SiteOf[PoolOf[v]])), UNCHANGED transferVars PROVE Goal
  <2>1. CASE v = w
    BY <1>2, <2>1, SubmitEffect
  <2>2. CASE v # w
    BY <1>2, <2>2, SubmitEffect DEF Others
  <2> QED BY <2>1, <2>2
<1>3. ASSUME NEW p \in Pool, PoolEnd(p) \/ PoolKill(p) PROVE Goal
  BY <1>3, EndEffect
<1>4. ASSUME NEW p \in Pool, RetraceStart(p) PROVE Goal
  BY <1>4, StartRunEffect
<1>5. ASSUME UNCHANGED poolVars PROVE Goal
  BY <1>5 DEF poolVars
<1>6. ASSUME UNCHANGED vars PROVE Goal
  BY <1>5, <1>6 DEF vars
<1> HIDE DEF Goal
<1>7. ASSUME Start PROVE Goal
  BY <1>4, <1>5, <1>7 DEF Start
<1>8. ASSUME Run PROVE Goal
  BY <1>1, <1>2, <1>3, <1>5, <1>8 DEF Run
<1>9. ASSUME Outside PROVE Goal
  BY <1>5, <1>9 DEF Outside
<1>10. Goal
  BY <1>6, <1>7, <1>8, <1>9 DEF Next
<1> QED BY <1>10 DEF Goal

\* How a session can change.
LEMMA SessionCases ==
  ASSUME Shape, [Next]_vars, NEW p \in Pool
  PROVE  \/ session'[p] = session[p]
         \/ session'[p] = Clean /\ \A w \in Worker : PoolOf[w] = p => work'[w].pc = "idle"
         \/ session'[p] = Clean /\ \E w \in Worker : PoolOf[w] = p /\ FinishTask(w)
         \/ \E w \in Worker : /\ PoolOf[w] = p /\ work[w].pc # "idle"
                              /\ (Counts(w) \/ Assigns(w)) /\ UNCHANGED storeVars
<1> DEFINE Goal == \/ session'[p] = session[p]
                   \/ session'[p] = Clean /\ \A w \in Worker : PoolOf[w] = p => work'[w].pc = "idle"
                   \/ session'[p] = Clean /\ \E w \in Worker : PoolOf[w] = p /\ FinishTask(w)
                   \/ \E w \in Worker : /\ PoolOf[w] = p /\ work[w].pc # "idle"
                                        /\ (Counts(w) \/ Assigns(w)) /\ UNCHANGED storeVars
<1>1. ASSUME NEW w \in Worker, WorkerStep(w) PROVE Goal
  <2>1. CASE PoolOf[w] = p
    <3>1. ASSUME Unpack(w) \/ Finds(w) PROVE session' = session
      BY <3>1, UnpackEffect, FoundEffect DEF Finds
    <3> QED BY <1>1, <2>1, <3>1, StepCases, FinishEffect, AssignsAt
  <2>2. CASE PoolOf[w] # p
    BY <1>1, <2>2, StepOthers DEF OtherPools
  <2> QED BY <2>1, <2>2
<1>2. ASSUME NEW w \in Worker, NEW others, Submit(w, others) PROVE Goal
  BY <1>2, SubmitEffect
<1>3. ASSUME NEW o \in Pool, PoolEnd(o) \/ PoolKill(o) PROVE Goal
  BY <1>3, EndEffect
<1>4. ASSUME NEW o \in Pool, RetraceStart(o) PROVE Goal
  BY <1>4, StartRunEffect
<1>5. ASSUME UNCHANGED poolVars PROVE Goal
  BY <1>5 DEF poolVars
<1>6. ASSUME UNCHANGED vars PROVE Goal
  BY <1>5, <1>6 DEF vars
<1> HIDE DEF Goal
<1>7. ASSUME Start PROVE Goal
  BY <1>4, <1>5, <1>7 DEF Start
<1>8. ASSUME Run PROVE Goal
  BY <1>1, <1>2, <1>3, <1>5, <1>8 DEF Run
<1>9. ASSUME Outside PROVE Goal
  BY <1>5, <1>9 DEF Outside
<1>10. Goal
  BY <1>6, <1>7, <1>8, <1>9 DEF Next
<1> QED BY <1>10 DEF Goal

-----------------------------------------------------------------------------
(* What is pending, or at work, is of sources that have a row. *)

Known(s, k) == k \in Source /\ db[s].row[k].known
RowsKnown(s) ==
  /\ \A x \in db[s].frames : Known(s, x[1])
  /\ \A k \in Source : ~db[s].row[k].known => db[s].row[k].sym = {} /\ ~db[s].row[k].line
ChosenKnown(p) == \A k \in pool[p].chosen : Known(SiteOf[p], k)
SessionKnown(p) ==
  /\ \A x \in session[p].sym : Known(SiteOf[p], x[1])
  /\ \A k \in session[p].line : Known(SiteOf[p], k)
WorkKnown(w) == \A k \in work[w].left \cup work[w].at : Known(SiteOf[PoolOf[w]], k)
RemoteKnown(r) ==
  /\ \A i \in DOMAIN remote[r].rows : Known(Client, remote[r].rows[i])
  /\ \A i \in DOMAIN remote[r].batch : Known(Client, remote[r].batch[i])
  /\ \A x \in remote[r].pending.sym : Known(Client, x[1])
  /\ \A k \in remote[r].pending.line : Known(Client, k)
KnownInv ==
  /\ \A s \in Site : RowsKnown(s)
  /\ \A p \in Pool : ChosenKnown(p) /\ SessionKnown(p)
  /\ \A w \in Worker : WorkKnown(w)
  /\ \A r \in Remote : RemoteKnown(r)

\* A row stays (there is no step that deletes one).
LEMMA KnownGrows == ASSUME Shape, [Next]_vars, NEW s \in Site, NEW k \in Source, Known(s, k) PROVE Known(s, k)'
<1>0. StoreShape /\ Client \in Site /\ Server \in Site
  BY DEF Shape, Site
<1>1. CASE Untouched
  BY <1>1 DEF Untouched, Known
<1>2. ASSUME NEW t \in Site, NEW j \in Source, NEW x \in Report, SaveBacktrace(t, j, x, Busy(t)) PROVE Known(s, k)'
  <2>1. db'[s] = db[s] \/ db'[s].row[k] = db[s].row[k]
    BY <1>0, <1>2, SaveEffect, BusyType DEF Known
  <2> QED BY <2>1 DEF Known
<1>3. ASSUME NEW t \in Site, NEW q \in Pending, Flush(t, q) PROVE Known(s, k)'
  <2>1. db'[s] = db[s] \/ db'[s].row[k].known = db[s].row[k].known
    <3>1. CASE s # t \/ Conflict(t, q)
      BY <1>0, <1>3, <3>1, FlushEffect
    <3>2. CASE s = t /\ ~Conflict(t, q)
      BY <1>0, <1>3, <3>2, FlushEffect
    <3> QED BY <3>1, <3>2
  <2> QED BY <2>1 DEF Known
<1>4. ASSUME NEW r \in Remote, Serve(r) PROVE Known(s, k)'
  BY <1>0, <1>4, ServeEffect DEF Known
<1>5. ASSUME NEW w \in Worker, FinishTask(w) PROVE Known(s, k)'
  BY <1>3, <1>5, FinishEffect, PoolOfWorker
<1>6. ASSUME NEW r \in Remote, Store(r) PROVE Known(s, k)'
  BY <1>0, <1>3, <1>6, StoreEffect
<1> QED BY <1>1, <1>2, <1>4, <1>5, <1>6, TableCases

\* A flush of sources that have rows keeps RowsKnown.
LEMMA RowsFlush ==
  ASSUME StoreShape, NEW t \in Site, NEW q \in Pending, Flush(t, q), NEW s \in Site, RowsKnown(s),
         \A x \in q.sym : Known(t, x[1]), \A k \in q.line : Known(t, k)
  PROVE  RowsKnown(s)'
<1>1. CASE db'[s] = db[s]
  BY <1>1 DEF RowsKnown, Known
<1>2. CASE s = t /\ ~Conflict(t, q)
  <2>1. /\ db'[s].frames = db[s].frames
        /\ \A k \in Source :
             /\ db'[s].row[k].known = db[s].row[k].known
             /\ db'[s].row[k].line = (db[s].row[k].line \/ k \in q.line)
             /\ (\A x \in q.sym : x[1] # k) => db'[s].row[k].sym = db[s].row[k].sym
    BY <1>2, FlushEffect
  <2> QED BY <1>2, <2>1 DEF RowsKnown, Known
<1> QED BY <1>1, <1>2, FlushEffect

\* Frames are of sources that have rows, and only those have symbols and lines.
LEMMA RowsStep == ASSUME Shape, KnownInv, [Next]_vars, NEW s \in Site PROVE RowsKnown(s)'
<1>0. StoreShape /\ RowsKnown(s) /\ Client \in Site /\ Server \in Site
  BY DEF Shape, KnownInv, Site
<1>1. CASE Untouched
  BY <1>0, <1>1 DEF Untouched, RowsKnown, Known
<1>2. ASSUME NEW t \in Site, NEW j \in Source, NEW x \in Report, SaveBacktrace(t, j, x, Busy(t)) PROVE RowsKnown(s)'
  <2>1. CASE s # t
    <3>1. db'[s] = db[s]
      BY <1>0, <1>2, <2>1, SaveEffect, BusyType
    <3> QED BY <1>0, <3>1 DEF RowsKnown, Known
  <2>2. CASE s = t
    <3>1. /\ db'[s].frames = db[s].frames \cup {<<j, x>>} /\ db'[s].row[j].known
          /\ \A k \in Source \ {j} : db'[s].row[k] = db[s].row[k]
      BY <1>0, <1>2, <2>2, SaveEffect, BusyType
    <3> QED BY <1>0, <3>1 DEF RowsKnown, Known
  <2> QED BY <2>1, <2>2
<1>3. ASSUME NEW w \in Worker, FinishTask(w) PROVE RowsKnown(s)'
  <2>1. SessionKnown(PoolOf[w])
    BY PoolOfWorker DEF KnownInv
  <2> QED BY <1>0, <1>3, <2>1, FinishEffect, PoolOfWorker, RowsFlush DEF SessionKnown
<1>4. ASSUME NEW r \in Remote, Store(r) PROVE RowsKnown(s)'
  BY <1>0, <1>4, StoreEffect, RowsFlush DEF KnownInv, RemoteKnown
<1>5. ASSUME NEW r \in Remote, Serve(r) PROVE RowsKnown(s)'
  <2>1. CASE s # Server
    <3>1. db'[s] = db[s]
      BY <1>0, <1>5, <2>1, ServeEffect
    <3> QED BY <1>0, <3>1 DEF RowsKnown, Known
  <2>2. CASE s = Server
    <3>1. PICK k \in Source :
            /\ db'[Server].frames \subseteq db[Server].frames \cup {<<k, Dummy>>}
            /\ db'[Server].frames # db[Server].frames => db'[Server].row[k].known
            /\ \A j \in Source : /\ db'[Server].row[j].sym = db[Server].row[j].sym
                                 /\ db'[Server].row[j].line = db[Server].row[j].line
                                 /\ db[Server].row[j].known => db'[Server].row[j].known
      BY <1>5, ServeEffect
    <3>2. ASSUME NEW x \in db'[s].frames PROVE x[1] \in Source /\ db'[s].row[x[1]].known
      BY <1>0, <2>2, <3>1, <3>2 DEF RowsKnown, Known
    <3> QED BY <1>0, <2>2, <3>1, <3>2 DEF RowsKnown, Known
  <2> QED BY <2>1, <2>2
<1> QED BY <1>1, <1>2, <1>3, <1>4, <1>5, TableCases

\* Runs of retrace work on sources that have rows.
LEMMA PoolsKnownStep ==
  ASSUME Shape, KnownInv, [Next]_vars
  PROVE  (\A p \in Pool : ChosenKnown(p)' /\ SessionKnown(p)') /\ (\A w \in Worker : WorkKnown(w)')
<1>1. ASSUME NEW p \in Pool PROVE ChosenKnown(p)'
  <2>0. SiteOf[p] \in Site /\ ChosenKnown(p) /\ RowsKnown(SiteOf[p])
    BY PoolAssumption DEF KnownInv
  <2>1. CASE pool'[p].chosen = pool[p].chosen \/ pool'[p].chosen = {}
    BY <2>0, <2>1, KnownGrows DEF ChosenKnown, Known
  <2>2. CASE RetraceStart(p) /\ UNCHANGED storeVars
    <3>1. \A k \in pool'[p].chosen : Known(SiteOf[p], k)
      BY <2>0, <2>2, StartRunEffect DEF RowsKnown, FramesOf
    <3> QED BY <2>2, <3>1 DEF ChosenKnown, Known, storeVars
  <2> QED BY <2>1, <2>2, ChosenCases
<1>2. ASSUME NEW w \in Worker PROVE WorkKnown(w)'
  <2>0. SiteOf[PoolOf[w]] \in Site /\ PoolOf[w] \in Pool /\ WorkKnown(w) /\ ChosenKnown(PoolOf[w])
    BY PoolOfWorker DEF KnownInv
  <2>1. ASSUME work'[w].left \cup work'[w].at \subseteq work[w].left \cup work[w].at \cup pool[PoolOf[w]].chosen
        PROVE  WorkKnown(w)'
    <3>1. \A k \in work'[w].left \cup work'[w].at : Known(SiteOf[PoolOf[w]], k)
      BY <2>0, <2>1 DEF WorkKnown, ChosenKnown
    <3> QED BY <2>0, <3>1, KnownGrows DEF WorkKnown, Known
  <2>2. Idle.left = {} /\ Idle.at = {}
    BY DEF Idle
  <2>3. ASSUME Unpack(w) PROVE work'[w].left \cup work'[w].at \subseteq work[w].at \cup pool[PoolOf[w]].chosen
    BY <2>2, <2>3, UnpackEffect
  <2>4. ASSUME Assigns(w) PROVE work'[w].left \cup work'[w].at \subseteq work[w].left \cup work[w].at
    BY <2>4, SessionEffect DEF Assigns
  <2>5. ASSUME Counts(w) \/ Finds(w) PROVE work'[w].left \cup work'[w].at \subseteq work[w].left \cup work[w].at
    <3>1. ASSUME NEW k \in work[w].left, Failed(w, k), pool' = pool
          PROVE  work'[w].left \cup work'[w].at \subseteq work[w].left \cup work[w].at
      BY <3>1, FailedEffect
    <3>2. ASSUME NEW k \in work[w].left, Found(w, k), pool' = pool
          PROVE  work'[w].left \cup work'[w].at \subseteq work[w].left \cup work[w].at
      BY <3>2, FoundEffect
    <3> QED BY <2>5, <3>1, <3>2 DEF Counts, Finds
  <2>6. work'[w].left \cup work'[w].at \subseteq work[w].left \cup work[w].at \cup pool[PoolOf[w]].chosen
    BY <2>2, <2>3, <2>4, <2>5, WorkCases
  <2> QED BY <2>1, <2>6
<1>3. ASSUME NEW p \in Pool PROVE SessionKnown(p)'
  <2>0. SiteOf[p] \in Site /\ SessionKnown(p)
    BY PoolAssumption DEF KnownInv
  <2>1. ASSUME NEW x \in session'[p].sym PROVE Known(SiteOf[p], x[1])
    <3>1. CASE session'[p] = session[p]
      BY <2>0, <2>1, <3>1 DEF SessionKnown
    <3>2. CASE session'[p] = Clean
      BY <2>1, <3>2 DEF Clean
    <3>3. ASSUME NEW w \in Worker, PoolOf[w] = p, Counts(w) PROVE Known(SiteOf[p], x[1])
      <4>0. PICK j \in work[w].left : Failed(w, j) /\ pool' = pool
        BY <3>3 DEF Counts
      <4>1. session'[p].sym = session[p].sym
        BY <3>3, <4>0, FailedEffect
      <4> QED BY <2>0, <2>1, <4>1 DEF SessionKnown
    <3>4. ASSUME NEW w \in Worker, PoolOf[w] = p, Assigns(w) PROVE Known(SiteOf[p], x[1])
      <4>1. x \in session[p].sym \/ (x[1] = At(w) /\ work[w].pc \in {"inline", "symbol", "line"})
        <5>1. session'[p].sym \subseteq session[p].sym \cup {<<At(w), FoundAs[At(w)]>>}
          BY <3>4, SessionEffect DEF Assigns
        <5> QED BY <2>1, <3>4, <5>1, AssignsAt
      <4>2. CASE x[1] = At(w) /\ work[w].pc \in {"inline", "symbol", "line"}
        <5>1. work[w].at = {At(w)} /\ WorkKnown(w)
          BY <4>2, AtIs DEF KnownInv
        <5> QED BY <3>4, <4>2, <5>1 DEF WorkKnown
      <4> QED BY <2>0, <4>1, <4>2 DEF SessionKnown
    <3> QED BY <3>1, <3>2, <3>3, <3>4, SessionCases
  <2>2. ASSUME NEW k \in session'[p].line PROVE Known(SiteOf[p], k)
    <3>1. CASE session'[p] = session[p]
      BY <2>0, <2>2, <3>1 DEF SessionKnown
    <3>2. CASE session'[p] = Clean
      BY <2>2, <3>2 DEF Clean
    <3>3. ASSUME NEW w \in Worker, PoolOf[w] = p, Counts(w) PROVE Known(SiteOf[p], k)
      <4>0. PICK j \in work[w].left : Failed(w, j) /\ pool' = pool
        BY <3>3 DEF Counts
      <4>1. session'[p].line = session[p].line
        BY <3>3, <4>0, FailedEffect
      <4> QED BY <2>0, <2>2, <4>1 DEF SessionKnown
    <3>4. ASSUME NEW w \in Worker, PoolOf[w] = p, Assigns(w) PROVE Known(SiteOf[p], k)
      <4>1. k \in session[p].line \/ (k = At(w) /\ work[w].pc \in {"inline", "symbol", "line"})
        BY <2>2, <3>4, SessionEffect, AssignsAt DEF Assigns
      <4>2. CASE k = At(w) /\ work[w].pc \in {"inline", "symbol", "line"}
        <5>1. work[w].at = {At(w)} /\ WorkKnown(w)
          BY <4>2, AtIs DEF KnownInv
        <5> QED BY <3>4, <4>2, <5>1 DEF WorkKnown
      <4> QED BY <2>0, <4>1, <4>2 DEF SessionKnown
    <3> QED BY <3>1, <3>2, <3>3, <3>4, SessionCases
  <2>3. \A x \in session'[p].sym : Known(SiteOf[p], x[1])'
    BY <2>0, <2>1, KnownGrows DEF Known
  <2>4. \A k \in session'[p].line : Known(SiteOf[p], k)'
    BY <2>0, <2>2, KnownGrows DEF Known
  <2> QED BY <2>3, <2>4 DEF SessionKnown
<1> QED BY <1>1, <1>2, <1>3

\* Runs of retrace-remote ask for sources that have rows.
LEMMA RemoteKnownStep == ASSUME Shape, KnownInv, [Next]_vars, NEW r \in Remote PROVE RemoteKnown(r)'
<1>0. RemoteKnown(r) /\ RowsKnown(Client) /\ Client \in Site /\ AskerShape /\ remote[r] \in Asker /\ remote'[r] \in Asker
  BY ShapeStep DEF KnownInv, Site, Shape, AskerShape
<1>1. ASSUME \A i \in DOMAIN remote'[r].rows : Known(Client, remote'[r].rows[i]),
             \A i \in DOMAIN remote'[r].batch : Known(Client, remote'[r].batch[i]),
             \A x \in remote'[r].pending.sym : Known(Client, x[1]),
             \A k \in remote'[r].pending.line : Known(Client, k)
      PROVE  RemoteKnown(r)'
  <2>1. \A k \in Source : Known(Client, k) => Known(Client, k)'
    BY <1>0, KnownGrows
  <2> QED BY <1>1, <2>1 DEF RemoteKnown, Known
<1>2. DOMAIN <<>> = {} /\ Clean.sym = {} /\ Clean.line = {} /\ NotAsking.rows = <<>> /\ NotAsking.batch = <<>>
      /\ NotAsking.pending = Clean
  BY DEF Clean, NotAsking
<1>3. CASE remote'[r] = remote[r]
  BY <1>0, <1>1, <1>3 DEF RemoteKnown
<1>4. CASE remote'[r].rows = remote[r].rows /\ remote'[r].batch \in {remote[r].batch, <<>>}
           /\ remote'[r].pending \in {remote[r].pending, Clean}
  BY <1>0, <1>1, <1>2, <1>4 DEF RemoteKnown
<1>5. CASE remote'[r] = NotAsking
  BY <1>1, <1>2, <1>5
<1>6. CASE RemoteStart(r, Busy(Client))
  BY <1>0, <1>1, <1>2, <1>6, StartEffect, BusyType
<1>7. CASE NextType(r)
  BY <1>0, <1>1, <1>2, <1>5, <1>7, NextTypeEffect DEF RemoteKnown
<1>8. CASE ListSources(r)
  <2>1. \A i \in DOMAIN remote'[r].rows : Known(Client, remote'[r].rows[i])
    <3>1. \A i \in DOMAIN remote'[r].rows : FramesOf(Client, remote'[r].rows[i]) # {}
      BY <1>0, <1>8, ListEffect
    <3> QED BY <1>0, <3>1 DEF RowsKnown, FramesOf
  <2> QED BY <1>0, <1>1, <1>8, <2>1, ListEffect DEF RemoteKnown
<1>9. CASE Take(r)
  <2> DEFINE i == remote[r].taken + 1
  <2>1. remote'[r].rows = remote[r].rows /\ remote'[r].pending = remote[r].pending
    BY <1>0, <1>9, TakeEffect
  <2>2. CASE remote'[r].batch = <<>>
    BY <1>4, <2>1, <2>2
  <2>3. CASE i \in DOMAIN remote[r].rows /\ remote'[r].batch = Append(remote[r].batch, remote[r].rows[i])
    <3> HIDE DEF i
    <3>0. remote[r].rows \in Seq(Source) /\ remote[r].batch \in Seq(Source)
      BY <1>0 DEF Asker
    <3>1. remote[r].batch \in Seq(Source) /\ remote[r].rows[i] \in Source
      BY <2>3, <3>0
    <3>2. ASSUME NEW j \in DOMAIN remote'[r].batch PROVE Known(Client, remote'[r].batch[j])
      <4>1. \/ j \in DOMAIN remote[r].batch /\ remote'[r].batch[j] = remote[r].batch[j]
            \/ remote'[r].batch[j] = remote[r].rows[i]
        BY <2>3, <3>1, <3>2
      <4> QED BY <1>0, <2>3, <4>1 DEF RemoteKnown
    <3> QED BY <1>0, <1>1, <2>1, <3>2 DEF RemoteKnown
  <2> QED BY <1>0, <1>9, <2>2, <2>3, TakeEffect
<1>10. ASSUME DropBatch(r) PROVE RemoteKnown(r)'
  BY <1>0, <1>4, <1>10, DropEffect
<1>11. CASE Serve(r)
  <2>1. ASSUME NEW answer \in SUBSET Symbol, Answer(r, answer) PROVE RemoteKnown(r)'
    BY <1>0, <1>4, <1>11, <2>1, ServeAnswers, AnswerEffect
  <2> QED BY <1>10, <1>11, <2>1, ServeAnswers
<1>12. CASE Answered(r)
  BY <1>0, <1>4, <1>12, AnsweredEffect
<1>13. CASE Receive(r)
  <2>1. remote'[r].rows = remote[r].rows /\ remote'[r].batch = remote[r].batch
    BY <1>0, <1>13, ReceiveEffect
  <2>2. remote'[r].pending.line = {x[1] : x \in Pairs(r)} /\ remote'[r].pending.sym = UNION {{x[1]} \X x[2] : x \in Pairs(r)}
    BY <1>0, <1>13, ReceiveEffect
  <2>3. ASSUME NEW x \in Pairs(r) PROVE Known(Client, x[1])
    <3>1. PICK i \in DOMAIN remote[r].batch : x = <<remote[r].batch[i], remote[r].answers[i]>>
      BY DEF Pairs
    <3> QED BY <1>0, <3>1 DEF RemoteKnown
  <2>4. \A x \in remote'[r].pending.sym : Known(Client, x[1])
    <3> SUFFICES ASSUME NEW y \in Pairs(r), NEW x \in {y[1]} \X y[2] PROVE Known(Client, x[1])
      BY <2>2
    <3>1. x[1] = y[1]
      OBVIOUS
    <3> QED BY <2>3, <3>1
  <2> QED BY <1>0, <1>1, <2>1, <2>2, <2>3, <2>4 DEF RemoteKnown
<1>14. CASE Store(r)
  BY <1>0, <1>4, <1>5, <1>14, StoreEffect
<1>15. CASE RequestFails(r)
  BY <1>10, <1>15 DEF RequestFails
<1> QED BY <1>3, <1>6, <1>7, <1>8, <1>9, <1>11, <1>12, <1>13, <1>14, <1>15, OtherRemotes DEF RemoteStep

\* KnownInv holds at the start.
LEMMA KnownInit == ASSUME Init PROVE KnownInv
<1>1. \A s \in Site : RowsKnown(s)
  BY DEF Init, StoreInit, Empty, NoRow, RowsKnown
<1>2. \A p \in Pool : ChosenKnown(p) /\ SessionKnown(p)
  BY DEF Init, PoolInit, NoRun, Clean, ChosenKnown, SessionKnown
<1>3. \A w \in Worker : WorkKnown(w)
  BY DEF Init, PoolInit, Idle, WorkKnown
<1>4. \A r \in Remote : RemoteKnown(r)
  <2>1. DOMAIN <<>> = {}
    OBVIOUS
  <2> QED BY <2>1 DEF Init, TransferInit, NotAsking, Clean, RemoteKnown
<1> QED BY <1>1, <1>2, <1>3, <1>4 DEF KnownInv

\* KnownInv is kept by every step.
LEMMA KnownStep == ASSUME Shape, KnownInv, [Next]_vars PROVE KnownInv'
<1>1. \A s \in Site : RowsKnown(s)'
  BY RowsStep
<1>2. \A r \in Remote : RemoteKnown(r)'
  BY RemoteKnownStep
<1> QED BY <1>1, <1>2, PoolsKnownStep DEF KnownInv

-----------------------------------------------------------------------------
(* What has its line number is whole. *)

SymDone(p, k) == (\E x \in session[p].sym : x[1] = k) \/ db[SiteOf[p]].row[k].sym # {}
FrameDone(s, x) == x \in db[s].inlined \/ <<s, x[1], x[2]>> \in late
FramesDone(p, k) ==
  InlinedAs[k] # {} => \A x \in FramesOf(SiteOf[p], k) : FrameDone(SiteOf[p], x) \/ x \in session[p].frames
PoolWhole(p) == \A k \in session[p].line : SymDone(p, k) /\ FramesDone(p, k)
WorkWhole(w) ==
  \A k \in work[w].at :
    /\ work[w].pc = "line" => SymDone(PoolOf[w], k)
    /\ work[w].pc \in {"symbol", "line"} => FramesDone(PoolOf[w], k)
TableWhole(s) ==
  \A k \in Source : db[s].row[k].line =>
    /\ db[s].row[k].sym # {}
    /\ s = Server /\ InlinedAs[k] # {} => \A x \in FramesOf(s, k) : FrameDone(s, x)
WholeInv ==
  /\ \A s \in Site \ failed : TableWhole(s)
  /\ \A p \in Pool : SiteOf[p] \notin failed => PoolWhole(p)
  /\ \A w \in Worker : SiteOf[PoolOf[w]] \notin failed => WorkWhole(w)

\* What is done stays done while no flush fails.
LEMMA DoneGrows ==
  ASSUME Shape, [Next]_vars
  PROVE  failed \subseteq failed' /\ late \subseteq late' /\ \A s \in Site : db[s].inlined \subseteq db'[s].inlined
<1>0. StoreShape /\ Client \in Site /\ Server \in Site
  BY DEF Shape, Site
<1>1. CASE Untouched
  BY <1>1 DEF Untouched
<1>2. ASSUME NEW t \in Site, NEW j \in Source, NEW x \in Report, SaveBacktrace(t, j, x, Busy(t))
      PROVE  failed' = failed /\ late \subseteq late' /\ \A s \in Site : db[s].inlined \subseteq db'[s].inlined
  BY <1>0, <1>2, SaveEffect, BusyType
<1>3. ASSUME NEW t \in Site, NEW q \in Pending, Flush(t, q)
      PROVE  failed \subseteq failed' /\ \A s \in Site : db[s].inlined \subseteq db'[s].inlined
  <2>1. CASE Conflict(t, q)
    BY <1>0, <1>3, <2>1, FlushEffect
  <2>2. CASE ~Conflict(t, q)
    BY <1>0, <1>3, <2>2, FlushEffect
  <2> QED BY <2>1, <2>2
<1>4. ASSUME NEW r \in Remote, Serve(r)
      PROVE  failed' = failed /\ late' = late /\ \A s \in Site : db[s].inlined \subseteq db'[s].inlined
  <2>1. failed' = failed /\ late' = late
    BY <1>4 DEF Serve
  <2> QED BY <1>0, <1>4, <2>1, ServeEffect
<1>5. ASSUME NEW w \in Worker, FinishTask(w)
      PROVE  failed \subseteq failed' /\ late' = late /\ \A s \in Site : db[s].inlined \subseteq db'[s].inlined
  <2>1. late' = late
    BY <1>5 DEF FinishTask
  <2> QED BY <1>3, <1>5, <2>1, FinishEffect, PoolOfWorker
<1>6. ASSUME NEW r \in Remote, Store(r)
      PROVE  failed \subseteq failed' /\ late' = late /\ \A s \in Site : db[s].inlined \subseteq db'[s].inlined
  <2>1. late' = late
    BY <1>6 DEF Store
  <2> QED BY <1>0, <1>3, <1>6, <2>1, StoreEffect
<1> QED BY <1>1, <1>2, <1>4, <1>5, <1>6, TableCases

\* A frame that comes is late if it comes to a source that is worked on.
LEMMA NewFrame ==
  ASSUME Shape, KnownInv, [Next]_vars, NEW s \in Site, NEW x \in db'[s].frames, x \notin db[s].frames
  PROVE  ~Known(s, x[1]) \/ (Busy(s) \/ db[s].row[x[1]].line => <<s, x[1], x[2]>> \in late')
<1>0. StoreShape /\ Client \in Site /\ Server \in Site
  BY DEF Shape, Site
<1>1. ASSUME NEW t \in Site, NEW j \in Source, NEW y \in Report, SaveBacktrace(t, j, y, Busy(t))
      PROVE  Busy(s) \/ db[s].row[x[1]].line => <<s, x[1], x[2]>> \in late'
  <2>1. t = s /\ x = <<j, y>>
    BY <1>0, <1>1, SaveEffect, BusyType
  <2> QED BY <1>0, <1>1, <2>1, SaveEffect, BusyType
<1>2. ASSUME NEW t \in Site, NEW q \in Pending, Flush(t, q) PROVE FALSE
  <2>1. CASE Conflict(t, q)
    BY <1>0, <1>2, <2>1, FlushEffect
  <2>2. CASE ~Conflict(t, q)
    BY <1>0, <1>2, <2>2, FlushEffect
  <2> QED BY <2>1, <2>2
<1>3. ASSUME NEW r \in Remote, Serve(r) PROVE ~Known(s, x[1])
  <2>1. PICK k \in Source :
          /\ \A t \in Site \ {Server} : db'[t] = db[t]
          /\ db'[Server].frames \subseteq db[Server].frames \cup {<<k, Dummy>>}
          /\ db'[Server].frames # db[Server].frames => ~db[Server].row[k].known
    BY <1>3, ServeEffect
  <2>2. s = Server /\ x = <<k, Dummy>>
    BY <1>0, <2>1
  <2> QED BY <2>1, <2>2 DEF Known
<1>4. CASE Untouched
  BY <1>4 DEF Untouched
<1>5. ASSUME NEW w \in Worker, FinishTask(w) PROVE FALSE
  BY <1>2, <1>5, FinishEffect, PoolOfWorker
<1>6. ASSUME NEW r \in Remote, Store(r) PROVE FALSE
  BY <1>0, <1>2, <1>6, StoreEffect
<1> QED BY <1>1, <1>3, <1>4, <1>5, <1>6, TableCases

\* A symbol is never taken away.
LEMMA SymStays ==
  ASSUME Shape, KnownInv, [Next]_vars, NEW s \in Site, NEW k \in Source, db[s].row[k].sym # {}
  PROVE  db'[s].row[k].sym # {}
<1>0. StoreShape /\ Client \in Site /\ Server \in Site /\ db[s].row[k].known
  BY DEF Shape, Site, KnownInv, RowsKnown
<1>1. ASSUME NEW t \in Site, NEW j \in Source, NEW x \in Report, SaveBacktrace(t, j, x, Busy(t))
      PROVE db'[s].row[k].sym # {}
  <2>1. db'[s] = db[s] \/ db'[s].row[k] = db[s].row[k]
    BY <1>0, <1>1, SaveEffect, BusyType
  <2> QED BY <2>1
<1>2. ASSUME NEW t \in Site, NEW q \in Pending, Flush(t, q) PROVE db'[s].row[k].sym # {}
  <2>1. CASE s # t \/ Conflict(t, q)
    <3>1. db'[s] = db[s]
      BY <1>0, <1>2, <2>1, FlushEffect
    <3> QED BY <3>1
  <2>2. CASE s = t /\ ~Conflict(t, q)
    <3>1. /\ (\A x \in q.sym : x[1] # k) => db'[s].row[k].sym = db[s].row[k].sym
          /\ (\E x \in q.sym : x[1] = k) => \E y \in Symbol : <<k, y>> \in q.sym /\ db'[s].row[k].sym = {y}
      BY <1>0, <1>2, <2>2, FlushEffect
    <3>2. CASE \A x \in q.sym : x[1] # k
      BY <3>1, <3>2
    <3>3. CASE \E x \in q.sym : x[1] = k
      <4>1. PICK y \in Symbol : db'[s].row[k].sym = {y}
        BY <3>1, <3>3
      <4> QED BY <4>1
    <3> QED BY <3>2, <3>3
  <2> QED BY <2>1, <2>2
<1>3. ASSUME NEW r \in Remote, Serve(r) PROVE db'[s].row[k].sym # {}
  <2>1. db'[s] = db[s] \/ db'[s].row[k].sym = db[s].row[k].sym
    BY <1>0, <1>3, ServeEffect
  <2> QED BY <2>1
<1>4. CASE Untouched
  BY <1>4 DEF Untouched
<1>5. ASSUME NEW w \in Worker, FinishTask(w) PROVE db'[s].row[k].sym # {}
  BY <1>2, <1>5, FinishEffect, PoolOfWorker
<1>6. ASSUME NEW r \in Remote, Store(r) PROVE db'[s].row[k].sym # {}
  BY <1>0, <1>2, <1>6, StoreEffect
<1> QED BY <1>1, <1>3, <1>4, <1>5, <1>6, TableCases

\* What is pending stays so or gets into the tables, unless the run ends.
Kept(p) ==
  /\ session[p].frames \subseteq session'[p].frames \cup db'[SiteOf[p]].inlined
  /\ \A x \in session[p].sym : (\E y \in session'[p].sym : y[1] = x[1]) \/ db'[SiteOf[p]].row[x[1]].sym # {}

\* What is pending is kept by every step that does not end the run.
LEMMA KeptStep ==
  ASSUME Shape, [Next]_vars, NEW p \in Pool, SiteOf[p] \notin failed'
  PROVE  Kept(p) \/ (session'[p] = Clean /\ \A w \in Worker : PoolOf[w] = p => work'[w].pc = "idle")
<1>0. StoreShape /\ SiteOf[p] \in Site
  BY PoolAssumption DEF Shape
<1>1. CASE session'[p] = session[p]
  BY <1>1 DEF Kept
<1>2. ASSUME NEW w \in Worker, PoolOf[w] = p, FinishTask(w) PROVE Kept(p)
  <2> DEFINE q == session[p]
  <2>1. q \in Pending /\ Flush(SiteOf[p], q)
    BY <1>2, FinishEffect
  <2>2. ~Conflict(SiteOf[p], q)
    BY <1>0, <2>1, FlushEffect
  <2> HIDE DEF q
  <2>3. db'[SiteOf[p]].inlined = db[SiteOf[p]].inlined \cup q.frames
    BY <1>0, <2>1, <2>2, FlushEffect
  <2>5. ASSUME NEW x \in q.sym PROVE db'[SiteOf[p]].row[x[1]].sym # {}
    <3>1. x[1] \in Source
      BY <2>1 DEF Pending
    <3>2. \E y \in q.sym : y[1] = x[1]
      OBVIOUS
    <3> QED BY <1>0, <2>1, <2>2, <3>1, <3>2, FlushSym
  <2> QED BY <2>3, <2>5 DEF Kept, q
<1>3. ASSUME NEW w \in Worker, PoolOf[w] = p, Counts(w) PROVE Kept(p)
  <2>1. PICK j \in work[w].left : Failed(w, j) /\ pool' = pool
    BY <1>3 DEF Counts
  <2>2. session'[p].sym = session[p].sym /\ session'[p].frames = session[p].frames
    BY <1>3, <2>1, FailedEffect
  <2> QED BY <2>2 DEF Kept
<1>4. ASSUME NEW w \in Worker, PoolOf[w] = p, Assigns(w) PROVE Kept(p)
  <2>1. /\ session[p].frames \subseteq session'[p].frames
        /\ \/ session'[p].sym = session[p].sym
           \/ session'[p].sym = {x \in session[p].sym : x[1] # At(w)} \cup {<<At(w), FoundAs[At(w)]>>}
    BY <1>4, SessionEffect DEF Assigns
  <2>2. ASSUME NEW x \in session[p].sym PROVE \E y \in session'[p].sym : y[1] = x[1]
    <3>1. CASE x \in session'[p].sym
      BY <3>1
    <3>2. CASE x \notin session'[p].sym
      <4>1. x[1] = At(w) /\ <<At(w), FoundAs[At(w)]>> \in session'[p].sym
        BY <2>1, <3>2
      <4> QED BY <4>1
    <3> QED BY <3>1, <3>2
  <2> QED BY <2>1, <2>2 DEF Kept
<1> QED BY <1>1, <1>2, <1>3, <1>4, SessionCases

\* A source that has its symbol, in a session or a table, keeps one.
LEMMA SymDoneStays ==
  ASSUME Shape, KnownInv, [Next]_vars, NEW p \in Pool, NEW k \in Source, SymDone(p, k), Kept(p)
  PROVE  SymDone(p, k)'
<1>1. CASE \E x \in session[p].sym : x[1] = k
  BY <1>1 DEF Kept, SymDone
<1>2. CASE db[SiteOf[p]].row[k].sym # {}
  BY <1>2, SymStays, PoolAssumption DEF SymDone
<1> QED BY <1>1, <1>2 DEF SymDone

\* A source that is worked on keeps its inlined frames; new frames are late.
LEMMA FramesDoneStays ==
  ASSUME Shape, KnownInv, [Next]_vars, NEW p \in Pool, NEW k \in Source, FramesDone(p, k), Kept(p),
         Known(SiteOf[p], k), Busy(SiteOf[p])
  PROVE  FramesDone(p, k)'
<1> DEFINE s == SiteOf[p]
<1>0. s \in Site
  BY PoolAssumption
<1> SUFFICES ASSUME InlinedAs[k] # {}, NEW x \in db'[s].frames, x[1] = k
             PROVE  x \in db'[s].inlined \/ <<s, x[1], x[2]>> \in late' \/ x \in session'[p].frames
  BY DEF FramesDone, FramesOf, FrameDone
<1>1. CASE x \in db[s].frames
  <2>1. x \in db[s].inlined \/ <<s, x[1], x[2]>> \in late \/ x \in session[p].frames
    BY <1>1 DEF FramesDone, FramesOf, FrameDone
  <2> QED BY <1>0, <2>1, DoneGrows DEF Kept
<1>2. CASE x \notin db[s].frames
  BY <1>0, <1>2, NewFrame
<1> QED BY <1>1, <1>2

\* What is assigned in a session is done, as long as its thread is at it.
LEMMA BusyAt ==
  ASSUME NEW w \in Worker, work[w].pc # "idle"
  PROVE  Busy(SiteOf[PoolOf[w]])
  BY DEF Busy, Active

\* A site where a line number is pending is busy.
LEMMA BusyPending ==
  ASSUME NEW p \in Pool, session[p].line # {}
  PROVE  Busy(SiteOf[p])
<1>1. session[p] # Clean
  BY DEF Clean
<1> QED BY <1>1 DEF Busy, Unflushed

\* A thread assigns the line number after the symbol and the inlined frames.
LEMMA WorkWholeStep ==
  ASSUME Shape, KnownInv, WholeInv, [Next]_vars, NEW w \in Worker, SiteOf[PoolOf[w]] \notin failed'
  PROVE  WorkWhole(w)'
<1> DEFINE p == PoolOf[w]
<1>0. p \in Pool /\ SiteOf[p] \in Site /\ WorkKnown(w) /\ WorkWhole(w)
  BY PoolOfWorker, DoneGrows DEF KnownInv, WholeInv
<1>1. CASE work'[w].pc \notin {"symbol", "line"}
  BY <1>1 DEF WorkWhole
<1>2. ASSUME work'[w].pc \in {"symbol", "line"} PROVE Kept(p)
  BY <1>0, <1>2, KeptStep
<1>3. ASSUME work'[w].pc \in {"symbol", "line"}, work[w].pc # "idle", NEW k \in work[w].at
      PROVE  /\ SymDone(p, k) => SymDone(p, k)'
             /\ FramesDone(p, k) => FramesDone(p, k)'
  <2>1. k \in Source /\ Known(SiteOf[p], k)
    BY <1>3 , <1>0 DEF WorkKnown, Known
  <2> QED BY <1>0, <1>2, <1>3, <2>1, SymDoneStays, FramesDoneStays, BusyAt
<1>4. CASE work'[w] = work[w] /\ work'[w].pc \in {"symbol", "line"}
  BY <1>0, <1>3, <1>4 DEF WorkWhole
<1>5. CASE Inline(w)
  <2>1. /\ work'[w].pc = "symbol" /\ work'[w].at = work[w].at /\ work[w].at = {At(w)} /\ UNCHANGED storeVars
        /\ session'[p].frames = session[p].frames \cup (FramesOf(SiteOf[p], At(w)) \ db[SiteOf[p]].inlined)
    <3>1. work[w].pc = "inline" /\ ~SetSymbol(w) /\ ~SetLine(w)
      BY <1>5 DEF Inline, SetSymbol, SetLine
    <3> QED BY <1>5, <3>1, SessionEffect, AtIs DEF StepAfter
  <2>2. PICK k : k = At(w)
    OBVIOUS
  <2>3. /\ db' = db /\ work'[w].at = {k}
        /\ FramesOf(SiteOf[p], k) \subseteq db[SiteOf[p]].inlined \cup session'[p].frames
    BY <2>1, <2>2 DEF storeVars
  <2>4. FramesDone(p, k)'
    BY <2>3 DEF FramesDone, FramesOf, FrameDone
  <2> QED BY <2>1, <2>3, <2>4 DEF WorkWhole
<1>6. CASE SetSymbol(w)
  <2>1. /\ work[w].pc = "symbol" /\ work'[w].pc = "line" /\ work'[w].at = work[w].at /\ work[w].at = {At(w)}
        /\ <<At(w), FoundAs[At(w)]>> \in session'[p].sym
    <3>1. work[w].pc = "symbol" /\ ~Inline(w) /\ ~SetLine(w)
      BY <1>6 DEF Inline, SetSymbol, SetLine
    <3> QED BY <1>6, <3>1, SessionEffect, AtIs DEF StepAfter
  <2>2. PICK k : k = At(w)
    OBVIOUS
  <2>3. work[w].at = {k} /\ work'[w].at = {k} /\ \E x \in session'[p].sym : x[1] = k
    BY <2>1, <2>2
  <2>4. SymDone(p, k)'
    BY <2>3 DEF SymDone
  <2>5. FramesDone(p, k)
    BY <1>0, <2>1, <2>3 DEF WorkWhole
  <2>6. FramesDone(p, k)'
    BY <1>3, <2>1, <2>3, <2>5
  <2> QED BY <2>1, <2>3, <2>4, <2>6 DEF WorkWhole
<1>7. CASE SetLine(w)
  BY <1>1, <1>7, SessionEffect DEF SetLine, StepAfter
<1>8. ASSUME NEW k \in work[w].left, Found(w, k), pool' = pool PROVE WorkWhole(w)'
  <2>1. work'[w].at = {k} /\ work'[w].pc = (IF InlinedAs[k] = {} THEN "symbol" ELSE "inline")
    BY <1>8, FoundEffect
  <2> QED BY <2>1 DEF WorkWhole, FramesDone
<1>9. ASSUME NEW k \in work[w].left, Failed(w, k), pool' = pool, work[w].pc = "next" PROVE WorkWhole(w)'
  BY <1>1, <1>9, FailedEffect
<1>10. CASE Unpack(w)
  BY <1>1, <1>10, UnpackEffect DEF Idle
<1>11. CASE work'[w] = Idle
  BY <1>1, <1>11 DEF Idle
<1> QED BY <1>1, <1>4, <1>5, <1>6, <1>7, <1>8, <1>9, <1>10, <1>11, WorkCases DEF Assigns, Counts, Finds

\* A session with a line number has the symbol and the frames too, or the
\* tables have them.
LEMMA PoolWholeStep ==
  ASSUME Shape, KnownInv, WholeInv, [Next]_vars, NEW p \in Pool, SiteOf[p] \notin failed'
  PROVE  PoolWhole(p)'
<1>0. SiteOf[p] \in Site /\ SessionKnown(p) /\ PoolWhole(p)
  BY PoolAssumption, DoneGrows DEF KnownInv, WholeInv
<1>1. CASE session'[p] = Clean
  BY <1>1 DEF PoolWhole, Clean
<1>2. CASE Kept(p)
  <2> SUFFICES ASSUME NEW k \in session'[p].line PROVE SymDone(p, k)' /\ FramesDone(p, k)'
    BY DEF PoolWhole
  <2>1. ASSUME Known(SiteOf[p], k), Busy(SiteOf[p]), SymDone(p, k), FramesDone(p, k)
        PROVE  SymDone(p, k)' /\ FramesDone(p, k)'
    BY <1>2, <2>1, SymDoneStays, FramesDoneStays DEF Known
  <2>2. CASE k \in session[p].line
    BY <1>0, <2>1, <2>2, BusyPending DEF SessionKnown, PoolWhole
  <2>3. CASE k \notin session[p].line
    <3>1. PICK w \in Worker : PoolOf[w] = p /\ (Counts(w) \/ Assigns(w))
      BY <1>1, <2>3, SessionCases DEF Clean
    <3>2. ~Counts(w)
      <4> SUFFICES ASSUME NEW j \in work[w].left, Failed(w, j), pool' = pool PROVE FALSE
        BY DEF Counts
      <4>1. session'[p].line = session[p].line
        BY <3>1, FailedEffect
      <4> QED BY <2>3, <4>1
    <3>3. SetLine(w) /\ k = At(w)
      BY <2>3, <3>1, <3>2, SessionEffect DEF Assigns
    <3>4. work[w].pc = "line" /\ work[w].at = {k}
      BY <3>3, AtIs DEF SetLine
    <3>5. WorkKnown(w) /\ WorkWhole(w)
      BY <3>1, DoneGrows DEF KnownInv, WholeInv
    <3>6. Known(SiteOf[p], k) /\ SymDone(p, k) /\ FramesDone(p, k)
      BY <3>1, <3>4, <3>5 DEF WorkKnown, WorkWhole
    <3> QED BY <2>1, <3>1, <3>4, <3>6, BusyAt
  <2> QED BY <2>2, <2>3
<1> QED BY <1>1, <1>2, KeptStep

\* A line number comes with a flush only.
LEMMA NewLine ==
  ASSUME Shape, KnownInv, [Next]_vars, NEW s \in Site, NEW k \in Source, db'[s].row[k].line, ~db[s].row[k].line
  PROVE  \/ \E w \in Worker : FinishTask(w) /\ SiteOf[PoolOf[w]] = s /\ k \in session[PoolOf[w]].line
         \/ \E r \in Remote : Store(r) /\ s = Client /\ k \in remote[r].pending.line
<1>0. StoreShape /\ Client \in Site /\ Server \in Site
  BY DEF Shape, Site
<1>1. ASSUME NEW t \in Site, NEW j \in Source, NEW x \in Report, SaveBacktrace(t, j, x, Busy(t)) PROVE FALSE
  <2>1. db'[s] = db[s] \/ db'[s].row[k] = db[s].row[k] \/ ~db'[s].row[k].line
    BY <1>0, <1>1, SaveEffect, BusyType
  <2> QED BY <2>1
<1>2. ASSUME NEW t \in Site, NEW q \in Pending, Flush(t, q) PROVE s = t /\ k \in q.line
  <2>1. CASE s # t \/ Conflict(t, q)
    <3>1. db'[s] = db[s]
      BY <1>0, <1>2, <2>1, FlushEffect
    <3> QED BY <3>1
  <2>2. CASE s = t /\ ~Conflict(t, q)
    <3>1. db'[s].row[k].line = (db[s].row[k].line \/ k \in q.line)
      BY <1>0, <1>2, <2>2, FlushEffect
    <3> QED BY <2>2, <3>1
  <2> QED BY <2>1, <2>2
<1>3. ASSUME NEW r \in Remote, Serve(r) PROVE FALSE
  <2>1. db'[s] = db[s] \/ db'[s].row[k].line = db[s].row[k].line
    BY <1>0, <1>3, ServeEffect
  <2> QED BY <2>1
<1>4. CASE Untouched
  BY <1>4 DEF Untouched
<1>5. ASSUME NEW w \in Worker, FinishTask(w) PROVE SiteOf[PoolOf[w]] = s /\ k \in session[PoolOf[w]].line
  BY <1>2, <1>5, FinishEffect, PoolOfWorker
<1>6. ASSUME NEW r \in Remote, Store(r) PROVE s = Client /\ k \in remote[r].pending.line
  BY <1>0, <1>2, <1>6, StoreEffect
<1> QED BY <1>1, <1>3, <1>4, <1>5, <1>6, TableCases

\* A flush stores a line number with the symbol and the frames.
LEMMA TableWholeStep ==
  ASSUME Shape, KnownInv, WholeInv, \A r \in Remote : Given(r), [Next]_vars, NEW s \in Site, s \notin failed'
  PROVE  TableWhole(s)'
<1>0. StoreShape /\ Client \in Site /\ Server \in Site /\ Client # Server /\ TableWhole(s) /\ RowsKnown(s)
  BY DoneGrows, StoreAssumption DEF Shape, Site, WholeInv, KnownInv
<1> SUFFICES ASSUME NEW k \in Source, db'[s].row[k].line
             PROVE  /\ db'[s].row[k].sym # {}
                    /\ s = Server /\ InlinedAs[k] # {} => \A x \in FramesOf(s, k)' : FrameDone(s, x)'
  BY DEF TableWhole
<1>1. CASE db[s].row[k].line
  <2>1. db[s].row[k].sym # {} /\ Known(s, k)
    BY <1>0, <1>1 DEF TableWhole, RowsKnown, Known
  <2>2. db'[s].row[k].sym # {}
    BY <2>1, SymStays
  <2>3. ASSUME s = Server, InlinedAs[k] # {}, NEW x \in FramesOf(s, k)' PROVE FrameDone(s, x)'
    <3>1. x \in db'[s].frames /\ x[1] = k
      BY DEF FramesOf
    <3>2. CASE x \in db[s].frames
      <4>1. FrameDone(s, x)
        BY <1>0, <1>1, <2>3, <3>1, <3>2 DEF TableWhole, FramesOf
      <4> QED BY <4>1, DoneGrows DEF FrameDone
    <3>3. CASE x \notin db[s].frames
      <4>1. <<s, x[1], x[2]>> \in late'
        BY <1>1, <2>1, <3>1, <3>3, NewFrame
      <4> QED BY <4>1 DEF FrameDone
    <3> QED BY <3>2, <3>3
  <2> QED BY <2>2, <2>3
<1>2. ASSUME NEW w \in Worker, FinishTask(w), SiteOf[PoolOf[w]] = s, k \in session[PoolOf[w]].line
      PROVE  /\ db'[s].row[k].sym # {}
             /\ \A x \in FramesOf(s, k)' : InlinedAs[k] # {} => FrameDone(s, x)'
  <2> DEFINE p == PoolOf[w]
             q == session[PoolOf[w]]
  <2>1. q \in Pending /\ Flush(s, q) /\ p \in Pool
    BY <1>2, FinishEffect, PoolOfWorker
  <2>2. ~Conflict(s, q)
    BY <1>0, <2>1, FlushEffect
  <2>3. PoolWhole(p)
    BY <1>2, <2>1, DoneGrows DEF WholeInv
  <2>4. SymDone(p, k) /\ FramesDone(p, k)
    BY <1>2, <2>3 DEF PoolWhole
  <2>5. db'[s].row[k].sym # {}
    <3>1. CASE db[s].row[k].sym # {}
      BY <3>1, SymStays
    <3>2. CASE \E x \in q.sym : x[1] = k
      <4> HIDE DEF q
      <4> QED BY <1>0, <2>1, <2>2, <3>2, FlushSym
    <3> QED BY <1>2, <2>4, <3>1, <3>2 DEF SymDone
  <2>6. ASSUME NEW x \in FramesOf(s, k)', InlinedAs[k] # {} PROVE FrameDone(s, x)'
    <3> HIDE DEF q
    <3>1. db'[s].frames = db[s].frames /\ db'[s].inlined = db[s].inlined \cup q.frames
      BY <1>0, <2>1, <2>2, FlushEffect
    <3>2. FrameDone(s, x) \/ x \in q.frames
      BY <1>2, <2>4, <2>6, <3>1 DEF FramesDone, FramesOf, q
    <3> QED BY <3>1, <3>2, DoneGrows DEF FrameDone
  <2> QED BY <2>5, <2>6
<1>3. ASSUME NEW r \in Remote, Store(r), s = Client, k \in remote[r].pending.line
      PROVE  db'[s].row[k].sym # {}
  <2> DEFINE q == remote[r].pending
  <2>1. q \in Pending /\ Flush(s, q)
    BY <1>3, StoreEffect
  <2>2. (\E x \in q.sym : x[1] = k)
    BY <1>3 DEF Given
  <2> HIDE DEF q
  <2>3. ~Conflict(s, q)
    BY <1>0, <2>1, FlushEffect
  <2> QED BY <1>0, <2>1, <2>2, <2>3, FlushSym
<1> QED BY <1>0, <1>1, <1>2, <1>3, NewLine

\* While no flush of a site has been refused, every source there that has its
\* line number has its symbol, and on the server its inlined frames, whatever
\* threads, processes and kills interleave (core.py, retrace; retrace.py).
THEOREM Whole == Spec => []WholeUnlessFlushFailed
<1> DEFINE Inv == Shape /\ KnownInv /\ WholeInv /\ \A r \in Remote : Given(r)
<1>1. Init => Inv
  <2> SUFFICES ASSUME Init PROVE WholeInv /\ \A r \in Remote : Given(r)
    BY InitShape, KnownInit
  <2>1. \A s \in Site, k \in Source : ~db[s].row[k].line
    BY DEF Init, StoreInit, Empty, NoRow
  <2>2. (\A p \in Pool : session[p].line = {}) /\ \A w \in Worker : work[w].at = {}
    BY DEF Init, PoolInit, Clean, Idle
  <2>3. \A r \in Remote : Given(r)
    BY GivenInit
  <2> QED BY <2>1, <2>2, <2>3 DEF WholeInv, TableWhole, PoolWhole, WorkWhole
<1>2. Inv /\ [Next]_vars => Inv'
  <2> SUFFICES ASSUME Inv, [Next]_vars PROVE Inv'
    OBVIOUS
  <2>1. \A s \in Site : s \notin failed' => TableWhole(s)'
    BY TableWholeStep
  <2>2. \A p \in Pool : SiteOf[p] \notin failed' => PoolWhole(p)'
    BY PoolWholeStep
  <2>3. \A w \in Worker : SiteOf[PoolOf[w]] \notin failed' => WorkWhole(w)'
    BY WorkWholeStep
  <2>4. WholeInv'
    BY <2>1, <2>2, <2>3 DEF WholeInv, Site
  <2> QED BY <2>4, ShapeStep, KnownStep, GivenAllStep
<1>3. Inv => WholeUnlessFlushFailed
  BY DEF WholeInv, TableWhole, FrameDone, WholeUnlessFlushFailed
<1> QED BY <1>1, <1>2, <1>3, PTL DEF Spec

-----------------------------------------------------------------------------
(* A flush is refused only under overlap. *)

\* What is pending is not in the tables, so that the flush can store it.
Lacks(s, q) == (\A x \in q.new : x[2] \notin db[s].symbols) /\ q.frames \cap db[s].inlined = {}

\* At most one thread or one run of retrace-remote is at work, and what is
\* pending is its own.
Alone(s) ==
  /\ s \notin failed
  /\ \A v, w \in Active(s) : v = w
  /\ \A p \in Unflushed(s), w \in Active(s) : PoolOf[w] = p
  /\ AskingAt(s) # {} => Active(s) = {} /\ Unflushed(s) = {}
  /\ \A q, r \in AskingAt(s) : q = r
Fresh(s) ==
  /\ \A p \in Pool : SiteOf[p] = s => Lacks(s, session[p])
  /\ \A w \in Active(s) : \A x \in session[PoolOf[w]].new : x[1] = work[w].pkg
  /\ s = Client => \A r \in Remote : Lacks(s, remote[r].pending)
OwnPending(r) ==
  /\ \A x \in remote[r].pending.new : x[1] = r
  /\ remote[r].pc = "done" => remote[r].pending = Clean
SoloInv ==
  /\ \A r \in Remote : OwnPending(r)
  /\ \A s \in Site \ overlap : Alone(s) /\ Fresh(s)

\* Nothing pending conflicts with nothing.
LEMMA CleanLacks == ASSUME NEW s PROVE Lacks(s, Clean)
  BY DEF Lacks, Clean

\* The symbols of one task differ from each other, so only those of the tables
\* can refuse them.
LEMMA NoConflict ==
  ASSUME NEW s \in Site, NEW q \in Pending, Lacks(s, q), NEW c, \A x \in q.new : x[1] = c
  PROVE  ~Conflict(s, q)
<1>1. ASSUME NEW x \in q.new, NEW y \in q.new, x[2] = y[2] PROVE x = y
  <2>1. x = <<x[1], x[2]>> /\ y = <<y[1], y[2]>>
    BY DEF Pending
  <2> QED BY <1>1, <2>1
<1> QED BY <1>1 DEF Conflict, Lacks

-----------------------------------------------------------------------------
(* Who begins, and who writes. *)

\* An overlap is never forgotten.
LEMMA OverlapGrows == ASSUME [Next]_vars PROVE overlap \subseteq overlap'
<1>1. ASSUME NEW w \in Worker, WorkerStep(w) PROVE overlap' = overlap
  BY <1>1 DEF WorkerStep, Unpack, ResolveCore, ResolveKernel, Inline, SetSymbol, SetLine, FinishTask, storeVars
<1>2. ASSUME NEW r \in Remote, RemoteStep(r) PROVE overlap' = overlap
  BY <1>2 DEF RemoteStep, NextType, ListSources, Take, Serve, RequestFails, Answered, Receive, Store, storeVars
<1>3. ASSUME Outside PROVE overlap \subseteq overlap'
  <2>1. ASSUME NEW s, NEW k, NEW x, NEW busy, SaveBacktrace(s, k, x, busy) PROVE overlap \subseteq overlap'
    <3>1. overlap' = IF busy THEN overlap \cup {s} ELSE overlap
      BY <2>1 DEF SaveBacktrace
    <3> QED BY <3>1
  <2>2. AddPackage \/ DeletePackage \/ \E s \in Site, k \in Source, x \in Report : SaveBacktrace(s, k, x, Busy(s))
    BY <1>3 DEF Outside, SaveCore, SaveKerneloops
  <2> QED BY <2>1, <2>2 DEF AddPackage, DeletePackage
<1>4. ASSUME Start PROVE overlap \subseteq overlap'
  BY <1>4 DEF Start, RetraceStart, RemoteStart, storeVars
<1>5. ASSUME NEW p \in Pool, PoolEnd(p) \/ PoolKill(p) PROVE overlap' = overlap
  BY <1>5 DEF PoolEnd, PoolKill, storeVars
<1>6. ASSUME NEW w \in Worker, NEW others, Submit(w, others) PROVE overlap \subseteq overlap'
  BY <1>6 DEF Submit
<1>7. ASSUME Run PROVE overlap \subseteq overlap'
  BY <1>1, <1>2, <1>5, <1>6, <1>7 DEF Run
<1>8. ASSUME UNCHANGED vars PROVE overlap \subseteq overlap'
  BY <1>8 DEF vars, storeVars
<1> QED BY <1>3, <1>4, <1>7, <1>8 DEF Next

\* A step is that of a pool or that of a run of retrace-remote, not of both.
LEMMA OneSide == ASSUME [Next]_vars PROVE UNCHANGED transferVars \/ UNCHANGED poolVars
  BY DEF Next, Start, Outside, Run, vars

\* A thread that begins at a site without overlap finds nothing at work there.
LEMMA NewWorker ==
  ASSUME Shape, [Next]_vars, NEW s \in Site, s \notin overlap', NEW w \in Active(s)', w \notin Active(s)
  PROVE  /\ UNCHANGED <<session, transferVars>> /\ Others(w)
         /\ Active(s) = {} /\ Unflushed(s) = {} /\ AskingAt(s) = {}
<1>1. w \in Worker /\ SiteOf[PoolOf[w]] = s /\ work'[w].pc # "idle" /\ work[w].pc = "idle"
  BY DEF Active
<1>2. Submit(w, AskingAt(s)) /\ UNCHANGED transferVars
  <2>1. Idle.pc = "idle"
    BY DEF Idle
  <2> QED BY <1>1, <2>1, WorkCases, AssignsAt DEF Unpack
<1>3. Active(s) \cup Unflushed(s) \cup AskingAt(s) = {}
  BY <1>1, <1>2 DEF Submit
<1> QED BY <1>1, <1>2, <1>3, SubmitEffect

\* A run of retrace-remote that takes a step is not done.
LEMMA AskerSteps ==
  ASSUME NEW r \in Remote, RemoteStep(r)
  PROVE  remote[r].pc # "done"
  BY DEF RemoteStep, NextType, ListSources, Take, Serve, RequestFails, Answered, Receive, Store

\* A run that begins at a client without overlap finds nothing at work there.
LEMMA NewAsker ==
  ASSUME Shape, [Next]_vars, NEW s \in Site, s \notin overlap', NEW r \in AskingAt(s)', r \notin AskingAt(s)
  PROVE  /\ s = Client /\ OtherRuns(r) /\ UNCHANGED poolVars
         /\ Active(s) = {} /\ Unflushed(s) = {} /\ AskingAt(s) = {}
<1>1. s = Client /\ r \in Remote /\ remote[r].pc = "done" /\ remote'[r].pc # "done"
  BY DEF AskingAt, Asking
<1>2. RemoteStart(r, Busy(Client))
  BY <1>1, OtherRemotes, AskerSteps
<1>3. UNCHANGED poolVars
  BY <1>1, OneSide DEF transferVars
<1>4. ~Busy(s)
  BY <1>1, <1>2 DEF RemoteStart
<1>5. OtherRuns(r)
  <2>1. AskerShape
    BY DEF Shape
  <2> QED BY <1>1, <1>2, <2>1, StartEffect, BusyType
<1> QED BY <1>1, <1>3, <1>4, <1>5 DEF Busy

\* What is newly pending is that of an active thread.
LEMMA NewUnflushed ==
  ASSUME Shape, [Next]_vars, NEW s \in Site, NEW p \in Unflushed(s)', p \notin Unflushed(s)
  PROVE  \E w \in Active(s) : PoolOf[w] = p
<1>1. p \in Pool /\ SiteOf[p] = s /\ session'[p] # Clean /\ session[p] = Clean
  BY DEF Unflushed
<1>2. PICK w \in Worker : PoolOf[w] = p /\ work[w].pc # "idle"
  BY <1>1, SessionCases
<1> QED BY <1>1, <1>2 DEF Active

\* The symbols and the inlined frames of a site change when nobody is busy
\* there, or with a flush.
LEMMA Writers ==
  ASSUME Shape, [Next]_vars, NEW s \in Site, s \notin overlap'
  PROVE  \/ db'[s].symbols = db[s].symbols /\ db'[s].inlined = db[s].inlined
         \/ ~Busy(s) /\ UNCHANGED <<poolVars, transferVars>>
         \/ \E w \in Active(s) : FinishTask(w)
         \/ s = Client /\ \E r \in Asking : Store(r)
<1> DEFINE Same == db'[s].symbols = db[s].symbols /\ db'[s].inlined = db[s].inlined
<1>0. StoreShape /\ Client \in Site /\ Server \in Site
  BY DEF Shape, Site
<1>1. ASSUME NEW t \in Site, NEW j \in Source, NEW x \in Report, SaveBacktrace(t, j, x, Busy(t)),
             UNCHANGED <<poolVars, transferVars>>
      PROVE  Same \/ (~Busy(s) /\ UNCHANGED <<poolVars, transferVars>>)
  <2>1. CASE s = t
    BY <1>0, <1>1, <2>1, SaveEffect, BusyType
  <2>2. CASE s # t
    BY <1>0, <1>1, <2>2, SaveEffect, BusyType
  <2> QED BY <2>1, <2>2
<1>2. ASSUME NEW t \in Site, NEW q \in Pending, Flush(t, q), s # t PROVE Same
  <2>1. db'[s] = db[s]
    <3>1. CASE Conflict(t, q)
      BY <1>0, <1>2, <3>1, FlushEffect
    <3>2. CASE ~Conflict(t, q)
      BY <1>0, <1>2, <3>2, FlushEffect
    <3> QED BY <3>1, <3>2
  <2> QED BY <2>1
<1>3. ASSUME NEW w \in Worker, FinishTask(w) PROVE Same \/ w \in Active(s)
  <2>1. CASE SiteOf[PoolOf[w]] = s
    BY <1>3, <2>1 DEF Active, FinishTask
  <2>2. CASE SiteOf[PoolOf[w]] # s
    BY <1>2, <1>3, <2>2, FinishEffect, PoolOfWorker
  <2> QED BY <2>1, <2>2
<1>4. ASSUME NEW r \in Remote, Store(r) PROVE Same \/ (s = Client /\ r \in Asking)
  <2>1. r \in Asking
    BY <1>4, StoreEffect DEF Asking
  <2> QED BY <1>0, <1>2, <1>4, <2>1, StoreEffect
<1>5. ASSUME NEW r \in Remote, Serve(r) PROVE Same
  BY <1>0, <1>5, ServeEffect
<1>6. ASSUME Untouched PROVE Same
  BY <1>6 DEF Untouched
<1> QED BY <1>1, <1>3, <1>4, <1>5, <1>6, TableCases

\* A refused flush is that of a task that ended or of a run of retrace-remote.
LEMMA Refused ==
  ASSUME Shape, [Next]_vars, NEW s \in Site, s \in failed', s \notin failed
  PROVE  \/ \E w \in Active(s) : FinishTask(w) /\ Conflict(s, session[PoolOf[w]]) /\ session[PoolOf[w]] \in Pending
         \/ s = Client /\ \E r \in Remote : Conflict(s, remote[r].pending) /\ remote[r].pending \in Pending
<1>0. StoreShape /\ Client \in Site /\ Server \in Site
  BY DEF Shape, Site
<1>1. ASSUME NEW t \in Site, NEW q \in Pending, Flush(t, q) PROVE s = t /\ Conflict(s, q)
  <2>1. CASE Conflict(t, q)
    BY <1>0, <1>1, <2>1, FlushEffect
  <2>2. CASE ~Conflict(t, q)
    BY <1>0, <1>1, <2>2, FlushEffect
  <2> QED BY <2>1, <2>2
<1>2. ASSUME NEW t \in Site, NEW j \in Source, NEW x \in Report, SaveBacktrace(t, j, x, Busy(t)) PROVE FALSE
  BY <1>0, <1>2, SaveEffect, BusyType
<1>3. ASSUME NEW w \in Worker, FinishTask(w)
      PROVE  w \in Active(s) /\ Conflict(s, session[PoolOf[w]]) /\ session[PoolOf[w]] \in Pending
  <2>1. SiteOf[PoolOf[w]] = s /\ Conflict(s, session[PoolOf[w]]) /\ session[PoolOf[w]] \in Pending
    BY <1>1, <1>3, FinishEffect, PoolOfWorker
  <2> QED BY <1>3, <2>1 DEF Active, FinishTask
<1>4. ASSUME NEW r \in Remote, Store(r)
      PROVE  s = Client /\ Conflict(s, remote[r].pending) /\ remote[r].pending \in Pending
  BY <1>0, <1>1, <1>4, StoreEffect
<1>5. ASSUME NEW r \in Remote, Serve(r) PROVE FALSE
  BY <1>5 DEF Serve
<1>6. ASSUME Untouched PROVE FALSE
  BY <1>6 DEF Untouched
<1> QED BY <1>2, <1>3, <1>4, <1>5, <1>6, TableCases

-----------------------------------------------------------------------------
(* One at work. *)

\* At a site without overlap one is at work, and no flush is refused.
LEMMA AloneStep ==
  ASSUME Shape, SoloInv, [Next]_vars, NEW s \in Site, s \notin overlap'
  PROVE  Alone(s)'
<1>0. Alone(s) /\ Fresh(s) /\ Shape'
  BY OverlapGrows, ShapeStep DEF SoloInv
<1>1. s \notin failed'
  <2>1. ASSUME NEW w \in Active(s), Conflict(s, session[PoolOf[w]]), session[PoolOf[w]] \in Pending PROVE FALSE
    <3>1. Lacks(s, session[PoolOf[w]]) /\ \A x \in session[PoolOf[w]].new : x[1] = work[w].pkg
      BY <1>0, PoolOfWorker DEF Fresh, Active
    <3> QED BY <2>1, <3>1, NoConflict
  <2>2. ASSUME s = Client, NEW r \in Remote, Conflict(s, remote[r].pending), remote[r].pending \in Pending PROVE FALSE
    <3>1. Lacks(s, remote[r].pending) /\ \A x \in remote[r].pending.new : x[1] = r
      BY <1>0, <2>2 DEF Fresh, SoloInv, OwnPending
    <3> QED BY <2>2, <3>1, NoConflict
  <2> QED BY <1>0, <2>1, <2>2, Refused DEF Alone
<1>2. ASSUME NEW v \in Active(s)', NEW w \in Active(s)' PROVE v = w
  <2>1. ASSUME NEW y \in Active(s)', y \notin Active(s), NEW z \in Active(s)' PROVE y = z
    <3>1. Active(s) = {} /\ Others(y)
      BY <2>1, NewWorker
    <3>2. work[z].pc = "idle" /\ work'[z].pc # "idle" /\ z \in Worker
      BY <3>1 DEF Active
    <3> QED BY <3>1, <3>2 DEF Others
  <2> QED BY <1>0, <1>2, <2>1 DEF Alone
<1>3. ASSUME NEW p \in Unflushed(s)', NEW w \in Active(s)' PROVE PoolOf[w] = p
  <2>1. CASE w \in Active(s)
    BY <1>0, <1>3, <2>1, NewUnflushed DEF Alone
  <2>2. CASE w \notin Active(s)
    <3>1. Active(s) = {} /\ Unflushed(s) = {}
      BY <1>3, <2>2, NewWorker
    <3> QED BY <1>3, <3>1, NewUnflushed
  <2> QED BY <2>1, <2>2
<1>4. ASSUME NEW r \in AskingAt(s)' PROVE Active(s)' = {} /\ Unflushed(s)' = {}
  <2>1. CASE r \in AskingAt(s)
    <3>1. Active(s) = {} /\ Unflushed(s) = {}
      BY <1>0, <2>1 DEF Alone
    <3>2. Active(s)' = {}
      BY <2>1, <3>1, NewWorker
    <3> QED BY <3>1, <3>2, NewUnflushed
  <2>2. CASE r \notin AskingAt(s)
    <3>1. Active(s) = {} /\ Unflushed(s) = {} /\ UNCHANGED poolVars
      BY <1>4, <2>2, NewAsker
    <3> QED BY <3>1 DEF Active, Unflushed, poolVars
  <2> QED BY <2>1, <2>2
<1>5. ASSUME NEW q \in AskingAt(s)', NEW r \in AskingAt(s)' PROVE q = r
  <2>1. ASSUME NEW y \in AskingAt(s)', y \notin AskingAt(s), NEW z \in AskingAt(s)' PROVE y = z
    <3>1. AskingAt(s) = {} /\ OtherRuns(y) /\ s = Client
      BY <2>1, NewAsker
    <3>2. remote[z].pc = "done" /\ remote'[z].pc # "done" /\ z \in Remote
      BY <3>1 DEF AskingAt, Asking
    <3> QED BY <3>1, <3>2 DEF OtherRuns
  <2> QED BY <1>0, <1>5, <2>1 DEF Alone
<1> QED BY <1>1, <1>2, <1>3, <1>4, <1>5 DEF Alone

-----------------------------------------------------------------------------
(* What is pending is new. *)

\* What is pending in a session stays out of the tables until its own flush.
LEMMA SessionsLack ==
  ASSUME Shape, SoloInv, [Next]_vars, NEW s \in Site, s \notin overlap', NEW p \in Pool, SiteOf[p] = s
  PROVE  Lacks(s, session[p])'
<1>0. Alone(s) /\ Lacks(s, session[p])
  BY OverlapGrows DEF SoloInv, Fresh
<1>1. CASE session'[p] = Clean
  BY <1>1 DEF Lacks, Clean
<1>2. CASE session'[p] = session[p] /\ session[p] # Clean
  <2>1. p \in Unflushed(s) /\ Busy(s)
    BY <1>2 DEF Unflushed, Busy
  <2>2. ASSUME NEW w \in Active(s), FinishTask(w) PROVE FALSE
    <3>1. PoolOf[w] = p /\ w \in Worker
      BY <1>0, <2>1 DEF Alone, Active
    <3> QED BY <1>2, <2>2, <3>1, FinishEffect
  <2>3. ~(s = Client /\ \E r \in Asking : Store(r))
    BY <1>0, <2>1 DEF Alone, AskingAt
  <2>4. db'[s].symbols = db[s].symbols /\ db'[s].inlined = db[s].inlined
    BY <2>1, <2>2, <2>3, Writers
  <2> QED BY <1>0, <1>2, <2>4 DEF Lacks
<1>3. ASSUME NEW w \in Worker, PoolOf[w] = p, Counts(w), UNCHANGED storeVars PROVE Lacks(s, session[p])'
  <2>1. PICK k \in work[w].left : Failed(w, k) /\ pool' = pool
    BY <1>3 DEF Counts
  <2>2. session'[p].new = session[p].new /\ session'[p].frames = session[p].frames
    BY <1>3, <2>1, FailedEffect
  <2> QED BY <1>0, <1>3, <2>2 DEF Lacks, storeVars
<1>4. ASSUME NEW w \in Worker, PoolOf[w] = p, Assigns(w), UNCHANGED storeVars PROVE Lacks(s, session[p])'
  <2>1. PICK symbols : session'[p].new \subseteq session[p].new \cup New(w, symbols)
    BY <1>4, SessionEffect DEF Assigns
  <2>2. session'[p].frames \subseteq session[p].frames \cup (FramesOf(s, At(w)) \ db[s].inlined)
    BY <1>4, SessionEffect DEF Assigns
  <2>3. \A x \in New(w, symbols) : x[2] \notin db[s].symbols
    BY <1>4 DEF New
  <2> QED BY <1>0, <1>4, <2>1, <2>2, <2>3 DEF Lacks, storeVars
<1> QED BY <1>1, <1>2, <1>3, <1>4, SessionCases

\* What is pending in a session was made by the task at work.
LEMMA OwnSymbols ==
  ASSUME Shape, SoloInv, [Next]_vars, NEW s \in Site, s \notin overlap', NEW w \in Active(s)',
         NEW x \in session'[PoolOf[w]].new
  PROVE  x[1] = work'[w].pkg
<1> DEFINE p == PoolOf[w]
<1>0. /\ Alone(s) /\ Fresh(s) /\ w \in Worker /\ p \in Pool /\ SiteOf[p] = s /\ work'[w].pc # "idle"
  BY OverlapGrows, PoolOfWorker DEF SoloInv, Active
<1>1. session'[p] # Clean
  BY DEF Clean
<1>2. w \in Active(s)
  <2> SUFFICES ASSUME w \notin Active(s) PROVE FALSE
    OBVIOUS
  <2>1. session' = session /\ Unflushed(s) = {}
    BY NewWorker
  <2> QED BY <1>0, <1>1, <2>1 DEF Unflushed
<1>3. work'[w].pkg = work[w].pkg
  <2>0. ASSUME NEW k \in work[w].left, Failed(w, k) \/ Found(w, k), pool' = pool PROVE work'[w].pkg = work[w].pkg
    BY <1>0, <2>0, FailedEffect, FoundEffect
  <2>1. ASSUME Counts(w) \/ Finds(w) PROVE work'[w].pkg = work[w].pkg
    BY <2>0, <2>1 DEF Counts, Finds
  <2>2. ASSUME Unpack(w) \/ Assigns(w) PROVE work'[w].pkg = work[w].pkg
    <3>1. ASSUME Unpack(w) PROVE work'[w].pkg = work[w].pkg
      <4>1. work'[w] # Idle
        BY <1>0 DEF Idle
      <4> QED BY <1>0, <3>1, <4>1, UnpackEffect
    <3>2. ASSUME Assigns(w) PROVE work'[w].pkg = work[w].pkg
      BY <1>0, <3>2, SessionEffect DEF Assigns
    <3> QED BY <2>2, <3>1, <3>2
  <2>3. work[w].pc # "idle" /\ Idle.pc = "idle"
    BY <1>2 DEF Active, Idle
  <2> QED BY <1>0, <2>1, <2>2, <2>3, WorkCases DEF Submit
<1>4. x \in session[p].new \/ x[1] = work[w].pkg
  <2>1. CASE session'[p] = session[p]
    BY <2>1
  <2>2. ASSUME NEW v \in Worker, PoolOf[v] = p, Counts(v) PROVE x \in session[p].new
    <3>1. PICK k \in work[v].left : Failed(v, k) /\ pool' = pool
      BY <2>2 DEF Counts
    <3> QED BY <2>2, <3>1, FailedEffect
  <2>3. ASSUME NEW v \in Worker, PoolOf[v] = p, Assigns(v), work[v].pc # "idle"
        PROVE  x \in session[p].new \/ x[1] = work[w].pkg
    <3>1. v = w
      BY <1>0, <1>2, <2>3 DEF Alone, Active
    <3>2. PICK symbols : session'[p].new \subseteq session[p].new \cup New(v, symbols)
      BY <2>3, SessionEffect DEF Assigns
    <3> QED BY <3>1, <3>2 DEF New
  <2> QED BY <1>0, <1>1, <2>1, <2>2, <2>3, SessionCases
<1> QED BY <1>0, <1>2, <1>3, <1>4 DEF Fresh

\* How the pending answers of a run of retrace-remote can change.
LEMMA PendingCases ==
  ASSUME Shape, [Next]_vars, NEW r \in Remote
  PROVE  \/ remote'[r] = remote[r] \/ remote'[r].pending = Clean
         \/ r \in Asking /\ remote'[r].pc # "done" /\ remote'[r].pending = remote[r].pending
         \/ Receive(r)
<1>0. AskerShape /\ NotAsking.pending = Clean
  BY DEF Shape, NotAsking
<1>1. ASSUME RemoteStart(r, Busy(Client)) PROVE remote'[r].pending = Clean
  BY <1>0, <1>1, StartEffect, BusyType
<1>2. ASSUME NextType(r)
      PROVE  remote'[r].pending = Clean \/ (remote'[r].pc # "done" /\ remote'[r].pending = remote[r].pending)
  BY <1>0, <1>2, NextTypeEffect
<1>3. ASSUME DropBatch(r) PROVE remote'[r].pc # "done" /\ remote'[r].pending = remote[r].pending
  BY <1>0, <1>3, DropEffect
<1>4. ASSUME Serve(r) PROVE remote'[r].pc # "done" /\ remote'[r].pending = remote[r].pending
  BY <1>0, <1>3, <1>4, ServeAnswers, AnswerEffect
<1>5. ASSUME ListSources(r) \/ Take(r) \/ Answered(r)
      PROVE  remote'[r].pc # "done" /\ remote'[r].pending = remote[r].pending
  BY <1>0, <1>5, ListEffect, TakeEffect, AnsweredEffect
<1>6. ASSUME Store(r) PROVE remote'[r].pending = Clean
  BY <1>0, <1>6, StoreEffect
<1>7. ASSUME RemoteStep(r) PROVE r \in Asking
  BY <1>7, AskerSteps DEF Asking
<1> QED BY <1>1, <1>2, <1>3, <1>4, <1>5, <1>6, <1>7, OtherRemotes DEF RemoteStep, RequestFails

\* The symbols that a run makes are missing in the tables.
LEMMA ReceivedNew ==
  ASSUME Shape, NEW r \in Remote, Receive(r)
  PROVE  /\ db' = db /\ remote'[r].pending.frames = {} /\ remote'[r].pc # "done"
         /\ \A x \in remote'[r].pending.new : x[1] = r /\ x[2] \notin db[Client].symbols
<1>1. db' = db
  BY DEF Receive, storeVars
<1>2. AskerShape
  BY DEF Shape
<1> DEFINE got == UNION {x[2] : x \in Pairs(r)}
<1>3. /\ remote'[r].pending.frames = {} /\ remote'[r].pc = "store"
      /\ remote'[r].pending.new = {r} \X (got \ db[Client].symbols)
  BY <1>2, ReceiveEffect
<1> HIDE DEF got
<1> QED BY <1>1, <1>3

\* The symbols that are pending in a run are its own.
LEMMA OwnPendingStep ==
  ASSUME Shape, NEW r \in Remote, OwnPending(r), [Next]_vars
  PROVE  OwnPending(r)'
<1>1. CASE remote'[r].pending = Clean
  BY <1>1 DEF OwnPending, Clean
<1>2. CASE remote'[r] = remote[r]
  BY <1>2 DEF OwnPending
<1>3. CASE remote'[r].pc # "done" /\ remote'[r].pending = remote[r].pending
  BY <1>3 DEF OwnPending
<1>4. CASE Receive(r)
  BY <1>4, ReceivedNew DEF OwnPending
<1> QED BY <1>1, <1>2, <1>3, <1>4, PendingCases

\* What is pending in a run stays out of the tables until its own flush.
LEMMA RemotesLack ==
  ASSUME Shape, SoloInv, [Next]_vars, Client \notin overlap', NEW r \in Remote
  PROVE  Lacks(Client, remote[r].pending)'
<1>0. Client \in Site /\ Client \notin overlap /\ Alone(Client) /\ Lacks(Client, remote[r].pending) /\ OwnPending(r)
  BY OverlapGrows DEF SoloInv, Fresh, Site
<1>1. CASE remote'[r].pending = Clean
  BY <1>1 DEF Lacks, Clean
<1>2. CASE Receive(r)
  BY <1>2, ReceivedNew DEF Lacks
<1>3. CASE remote'[r].pending = remote[r].pending /\ remote'[r].pending # Clean
  <2>1. r \in Asking /\ AskingAt(Client) = Asking
    BY <1>0, <1>3 DEF OwnPending, Asking, AskingAt
  <2>2. Active(Client) = {} /\ Busy(Client)
    BY <1>0, <2>1 DEF Alone, Busy
  <2>3. ASSUME NEW q \in Asking, Store(q) PROVE FALSE
    <3>1. q = r
      BY <1>0, <2>1 DEF Alone
    <3>2. NotAsking.pending = Clean
      BY DEF NotAsking
    <3> QED BY <1>3, <2>3, <3>1, <3>2, StoreEffect
  <2>4. db'[Client].symbols = db[Client].symbols /\ db'[Client].inlined = db[Client].inlined
    BY <1>0, <2>2, <2>3, Writers
  <2> QED BY <1>0, <1>3, <2>4 DEF Lacks
<1> QED BY <1>1, <1>2, <1>3, PendingCases

\* At a site where no writer began while another was active or had work
\* pending, no flush is refused: a task makes each symbol once, and nobody else
\* has made it by the flush (core.py, retrace; retrace_remote.py, run).
THEOREM SoloFlushes == Spec => []SoloNeverFails
<1> DEFINE Inv == Shape /\ SoloInv
<1>1. Init => Inv
  <2> SUFFICES ASSUME Init PROVE SoloInv
    BY InitShape
  <2>1. \A r \in Remote : remote[r].pending = Clean /\ remote[r].pc = "done"
    BY DEF Init, TransferInit, NotAsking
  <2>2. \A p \in Pool : session[p] = Clean
    BY DEF Init, PoolInit
  <2>3. \A s \in Site : Active(s) = {} /\ Unflushed(s) = {} /\ AskingAt(s) = {}
    BY <2>1, <2>2 DEF Active, Unflushed, AskingAt, Asking, Init, PoolInit, Idle
  <2>4. failed = {}
    BY DEF Init, StoreInit
  <2>5. \A s \in Site : Alone(s)
    BY <2>3, <2>4 DEF Alone
  <2>6. \A s \in Site : Fresh(s)
    BY <2>1, <2>2, <2>3, CleanLacks DEF Fresh
  <2>7. \A r \in Remote : OwnPending(r)
    BY <2>1 DEF OwnPending, Clean
  <2> QED BY <2>5, <2>6, <2>7 DEF SoloInv
<1>2. Inv /\ [Next]_vars => Inv'
  <2> SUFFICES ASSUME Inv, [Next]_vars PROVE Inv'
    OBVIOUS
  <2>1. \A r \in Remote : OwnPending(r)'
    BY OwnPendingStep DEF SoloInv
  <2>2. ASSUME NEW s \in Site, s \notin overlap' PROVE Alone(s)' /\ Fresh(s)'
    <3>1. Fresh(s)'
      BY <2>2, SessionsLack, OwnSymbols, RemotesLack DEF Fresh
    <3> QED BY <2>2, <3>1, AloneStep
  <2> QED BY <2>1, <2>2, ShapeStep DEF SoloInv, Site
<1>3. Inv => SoloNeverFails
  BY DEF SoloInv, Alone, SoloNeverFails, Shape, StoreShape
<1> QED BY <1>1, <1>2, <1>3, PTL DEF Spec
==============================================================================
