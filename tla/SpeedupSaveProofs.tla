--------------------------- MODULE SpeedupSaveProofs ---------------------------
(***************************************************************************)
(* Overlapping runs of save-reports --speedup never share a file, and what *)
(* they count twice was counted again because a run was stopped: proofs    *)
(* about SpeedupSave for every set of runs and files, every resolution of  *)
(* the clock and every bound, as long as the runs are Calm.                *)
(***************************************************************************)
EXTENDS SpeedupSave, FiniteSetTheorems, TLAPS

\* Session operators keep sessions well typed.
LEMMA CounterMembers ==
  ASSUME NEW i \in ReportId, NEW r \in Release
  PROVE  /\ ReportCounter(i) \in Counter
         /\ ReleaseCounter(i, r) \in Counter
         /\ DetailCounter(i, r) \in Counter
BY DEF Counter, ReportCounters, RowCounters

LEMMA CleanSessionType == CleanSession \in Session
BY DEF CleanSession, Session

LEMMA IncrementType ==
  ASSUME NEW s \in Session, NEW c \in Counter, NEW n \in Nat,
         tally \in [Counter -> Nat]
  PROVE  Increment(s, c, n) \in Session
<1>. DEFINE b == [s.base EXCEPT ![c] = IF s.added[c] = 0 THEN tally[c] ELSE @]
            a == [s.added EXCEPT ![c] = @ + n]
            k == s.clash \/ (s.added[c] > 0 /\ s.base[c] = 0)
<1>1. Increment(s, c, n) = [s EXCEPT !.base = b, !.added = a, !.clash = k]
  BY DEF Session, Increment
<1>2. b \in [Counter -> Nat] /\ a \in [Counter -> Nat]
  BY DEF Session
<1>3. k \in BOOLEAN
  OBVIOUS
<1>. HIDE DEF a, b, k
<1>. QED BY <1>1, <1>2, <1>3 DEF Session

LEMMA FindReportType ==
  ASSUME StoreTypeOK, NEW p \in Saver, NEW u \in UReport, NEW i \in ReportId,
         FindReport(p, u, i)
  PROVE  session' \in [Saver -> Session]
<1>1. CASE /\ i \in Committed(u.hash)
           /\ session' =
                IF i \in session[p].loaded THEN session
                ELSE [session EXCEPT
                        ![p].loaded = @ \cup {i},
                        ![p].base[ReportCounter(i)] = tally[ReportCounter(i)]]
  <2>. DEFINE b == [session[p].base EXCEPT
                       ![ReportCounter(i)] = tally[ReportCounter(i)]]
              t == [session[p] EXCEPT !.loaded = @ \cup {i}, !.base = b]
  <2>1. session[p] \in Session
    BY DEF StoreTypeOK
  <2>2. b \in [Counter -> Nat]
    BY <2>1 DEF StoreTypeOK, Session, Counter, ReportCounters
  <2>3. t \in Session
    <3>. HIDE DEF b
    <3>. QED BY <2>1, <2>2 DEF Session
  <2>4. session' = IF i \in session[p].loaded THEN session
                   ELSE [session EXCEPT ![p] = t]
    BY <1>1, <2>1 DEF StoreTypeOK, Session
  <2>. HIDE DEF t
  <2>. QED BY <2>3, <2>4 DEF StoreTypeOK
<1>2. CASE session' = [session EXCEPT ![p].new[i] = u.hash]
  <2>. DEFINE n == [session[p].new EXCEPT ![i] = u.hash]
              t == [session[p] EXCEPT !.new = n]
  <2>1. session[p] \in Session
    BY DEF StoreTypeOK
  <2>2. n \in [ReportId -> Hash \cup {NoHash}]
    BY <2>1 DEF Session, UReport
  <2>3. t \in Session
    <3>. HIDE DEF n
    <3>. QED BY <2>1, <2>2 DEF Session
  <2>4. session' = [session EXCEPT ![p] = t]
    BY <1>2, <2>1 DEF StoreTypeOK, Session
  <2>. HIDE DEF t
  <2>. QED BY <2>3, <2>4 DEF StoreTypeOK
<1>. QED BY <1>1, <1>2 DEF FindReport

LEMMA FlushType ==
  ASSUME StoreTypeOK, NEW p \in Saver, Flush(p)
  PROVE  /\ hashOf' \in [ReportId -> Hash \cup {NoHash}]
         /\ tally' \in [Counter -> Nat]
         /\ traced' \in SUBSET ReportId
         /\ session' \in [Saver -> Session]
BY CleanSessionType DEF Flush, StoreTypeOK, Session

LEMMA ForgetType ==
  ASSUME StoreTypeOK, NEW p \in Saver, Forget(p)
  PROVE  /\ session' \in [Saver -> Session]
         /\ addLob' \in [Saver -> Lob \cup {NoLob}]
BY CleanSessionType DEF Forget, StoreTypeOK

LEMMA CountDetailsType ==
  ASSUME StoreTypeOK, StoreAssumption, NEW p \in Saver, NEW u \in UReport,
         NEW i \in ReportId, NEW n \in Nat, CountDetails(p, u, i, n)
  PROVE  /\ session' \in [Saver -> Session]
         /\ addLob' \in [Saver -> Lob \cup {NoLob}]
<1>1. session[p] \in Session /\ tally \in [Counter -> Nat]
  BY DEF StoreTypeOK
<1>2. DetailCounter(i, u.release) \in Counter /\ ReportCounter(i) \in Counter
  BY CounterMembers DEF UReport
<1>. DEFINE s == Increment(session[p], DetailCounter(i, u.release), n)
            a == [s.added EXCEPT ![ReportCounter(i)] = @ + n]
            t == [s EXCEPT !.added = a, !.traced = @ \cup {i}]
<1>3. s \in Session
  BY <1>1, <1>2, IncrementType
<1>. HIDE DEF s
<1>4. a \in [Counter -> Nat]
  BY <1>2, <1>3 DEF Session
<1>5. t \in Session
  <2>. HIDE DEF a
  <2>. QED BY <1>3, <1>4 DEF Session
<1>6. session' = [session EXCEPT ![p] = t]
  <2>1. session' = [session EXCEPT ![p] =
            [s EXCEPT !.added[ReportCounter(i)] = @ + n, !.traced = @ \cup {i}]]
    BY Zenon DEF CountDetails, s
  <2>2. [s EXCEPT !.added[ReportCounter(i)] = @ + n, !.traced = @ \cup {i}] = t
    BY <1>3 DEF Session
  <2>. QED BY <2>1, <2>2
<1>7. session' \in [Saver -> Session]
  <2>. HIDE DEF t
  <2>. QED BY <1>5, <1>6 DEF StoreTypeOK
<1>8. addLob' \in [Saver -> Lob \cup {NoLob}]
  BY DEF CountDetails, StoreTypeOK, Lob
<1>. QED BY <1>7, <1>8

\* While a run works on a group the group has files, of which there are
\* finitely many, and from the look-up to the flush it has a report.
Working == {"opsys", "stat", "release", "details", "flush", "postflush",
            "keep", "defer"}
Reporting == {"release", "details", "flush"}

LocalsOK ==
  \A p \in Saver : /\ IsFiniteSet(batch[p])
                   /\ pc[p] \in Working => group[p] # {}
                   /\ pc[p] \in Reporting => report[p] \in ReportId
                   /\ pc[p] = "postflush" => addLob[p] # NoLob

TypeInv == TypeOK /\ LocalsOK

-----------------------------------------------------------------------------
(* Types.                                                                  *)

\* The greater of two numbers.
LEMMA MaxOfTwo ==
  ASSUME NEW a \in Nat, NEW b \in Nat
  PROVE  /\ Max({a, b}) \in {a, b}
         /\ Max({a, b}) >= a /\ Max({a, b}) >= b
<1>1. \E x \in {a, b} : \A y \in {a, b} : x >= y
  <2>1. CASE a >= b
    BY <2>1
  <2>2. CASE b >= a
    BY <2>2
  <2>. QED BY <2>1, <2>2
<1>2. Max({a, b}) \in {a, b} /\ \A y \in {a, b} : Max({a, b}) >= y
  BY <1>1 DEF Max
<1>. QED BY <1>2

\* What the groups of a run in work consist of.
LEMMA ContentType ==
  ASSUME SpeedupAssumption, TypeInv, NEW p \in Saver, pc[p] \in Working
  PROVE  Content(p) \in UReport /\ Count(p) \in Nat
<1>1. group[p] # {} /\ group[p] \subseteq batch[p] /\ IsFiniteSet(batch[p])
  BY DEF TypeInv, TypeOK, LocalsOK
<1>2. batch[p] \subseteq File
  BY Zenon DEF TypeInv, TypeOK
<1>3. Count(p) \in Nat
  BY <1>1, FS_Subset, FS_CardinalityType DEF Count
<1>4. (CHOOSE f \in group[p] : TRUE) \in File
  BY <1>1, <1>2
<1>5. Content(p) \in UReport
  BY <1>4 DEF Content, SpeedupAssumption, TypeInv, TypeOK
<1>. QED BY <1>3, <1>5

\* A run that ends keeps the types.
LEMMA DropType ==
  ASSUME SpeedupAssumption, TypeInv, NEW p \in Saver, Drop(p),
         hashOf' \in [ReportId -> Hash \cup {NoHash}], tally' \in [Counter -> Nat],
         traced' \in SUBSET ReportId,
         lock' \in [Saver -> 0..MaxTime], stopped' \in [Saver -> {"no", "term", "kill"}]
  PROVE  TypeInv'
<1>0. TypeOK /\ StoreTypeOK /\ LocalsOK
  BY DEF TypeInv, TypeOK
<1>1. StoreTypeOK'
  BY <1>0, ForgetType DEF Drop, StoreTypeOK
<1>2. TypeOK'
  <2>1. \A v \in {todo', batch', group'} : v \in [Saver -> SUBSET File]
    BY <1>0 DEF Drop, TypeOK
  <2>2. \A q \in Saver : group'[q] \subseteq batch'[q]
    BY <1>0 DEF Drop, TypeOK
  <2>3. pc' \in [Saver -> Step] /\ newest' \in [Saver -> 0..MaxTime]
    BY <1>0, SpeedupAssumption DEF Drop, TypeOK, Goto, Step
  <2>4. /\ seen' \in [Saver -> SUBSET Saver]
        /\ report' \in [Saver -> ReportId \cup {NoReport}]
    BY <1>0 DEF Drop, TypeOK
  <2>5. UNCHANGED <<clock, dir, mtime, ureport, complete, now, commits>>
    BY DEF Drop, fileVars
  <2>. QED BY <1>0, <1>1, <2>1, <2>2, <2>3, <2>4, <2>5 DEF TypeOK
<1>3. LocalsOK'
  BY <1>0, FS_EmptySet DEF Drop, TypeOK, StoreTypeOK, LocalsOK, Goto, Forget, Working, Reporting
<1>. QED BY <1>2, <1>3 DEF TypeInv

LEMMA LeaveType ==
  ASSUME SpeedupAssumption, TypeInv, NEW p \in Saver, Leave(p),
         lock' \in [Saver -> 0..MaxTime], stopped' \in [Saver -> {"no", "term", "kill"}]
  PROVE  TypeInv'
<1>1. /\ hashOf' \in [ReportId -> Hash \cup {NoHash}] /\ tally' \in [Counter -> Nat]
      /\ traced' \in SUBSET ReportId
  BY DEF Leave, TypeInv, TypeOK, StoreTypeOK
<1>. QED BY <1>1, DropType DEF Leave

\* A run that releases its lock keeps the types.
LEMMA UnlockType ==
  ASSUME SpeedupAssumption, TypeInv, NEW p \in Saver, Unlock(p), stopped' \in [Saver -> {"no", "term", "kill"}]
  PROVE  TypeInv'
<1>1. lock' \in [Saver -> 0..MaxTime]
  BY DEF Unlock, TypeInv, TypeOK, SpeedupAssumption
<1>. QED BY <1>1, LeaveType DEF Unlock

\* The types of an idle system.
LEMMA TypeInit == Init => TypeInv
<1>. SUFFICES ASSUME Init PROVE TypeInv
  OBVIOUS
<1>1. StoreTypeOK
  BY CleanSessionType DEF Init, StoreInit, StoreTypeOK
<1>2. \A v \in {todo, batch, group} : v \in [Saver -> SUBSET File]
  BY DEF Init
<1>3. commits \in [File -> Nat]
  BY DEF Init
<1>4. MaxTime >= 1 /\ MaxTime \in Nat
  BY SpeedupAssumption
<1>5. TypeOK
  BY <1>1, <1>2, <1>3, <1>4, SpeedupAssumption DEF Init, TypeOK, Step
<1>6. LocalsOK
  BY FS_EmptySet DEF Init, LocalsOK, Working, Reporting
<1>. QED BY <1>5, <1>6 DEF TypeInv

\* A step that leaves the tables and the work of the runs alone.
LEMMA OutsideType ==
  ASSUME TypeInv, UNCHANGED <<storeVars, ureport, workVars>>,
         clock' \in 1..MaxTime, dir' \in [File -> {"none", "incoming", "saved", "deferred"}],
         mtime' \in [File -> 0..MaxTime], complete' \in SUBSET File,
         lock' \in [Saver -> 0..MaxTime], pc' \in [Saver -> Step],
         now' \in [Saver -> 0..MaxTime], seen' \in [Saver -> SUBSET Saver],
         newest' \in [Saver -> 0..MaxTime],
         stopped' \in [Saver -> {"no", "term", "kill"}], commits' \in [File -> Nat],
         \A p \in Saver : pc'[p] = pc[p] \/ pc'[p] \notin Working
  PROVE  TypeInv'
<1>1. StoreTypeOK'
  BY DEF TypeInv, TypeOK, StoreTypeOK, storeVars
<1>2. \A v \in {todo', batch', group'} : v \in [Saver -> SUBSET File]
  BY DEF TypeInv, TypeOK, workVars
<1>3. TypeOK'
  BY <1>1, <1>2 DEF TypeInv, TypeOK, workVars
<1>4. LocalsOK'
  BY DEF TypeInv, LocalsOK, workVars, storeVars, Working, Reporting
<1>. QED BY <1>3, <1>4 DEF TypeInv

\* A step of a run that changes its place, its session and its report at most.
LEMMA StoreStepType ==
  ASSUME SpeedupAssumption, TypeInv, NEW p \in Saver, NEW step \in Step, Goto(p, step),
         UNCHANGED <<clock, fileVars, lock, now, seen, newest, todo, batch, group, stopped>>,
         commits' \in [File -> Nat], StoreTypeOK',
         report' \in [Saver -> ReportId \cup {NoReport}],
         \A q \in Saver \ {p} : report'[q] = report[q] /\ addLob'[q] = addLob[q],
         step \in Working => group[p] # {},
         step \in Reporting => report'[p] \in ReportId,
         step = "postflush" => addLob'[p] # NoLob
  PROVE  TypeInv'
<1>1. pc' \in [Saver -> Step] /\ pc'[p] = step /\ \A q \in Saver \ {p} : pc'[q] = pc[q]
  BY DEF Goto, TypeInv, TypeOK
<1>2. \A v \in {todo', batch', group'} : v \in [Saver -> SUBSET File]
  BY DEF TypeInv, TypeOK
<1>3. TypeOK'
  BY <1>1, <1>2 DEF TypeInv, TypeOK, fileVars
<1>4. LocalsOK'
  <2>. SUFFICES ASSUME NEW q \in Saver
                PROVE  /\ IsFiniteSet(batch'[q])
                       /\ pc'[q] \in Working => group'[q] # {}
                       /\ pc'[q] \in Reporting => report'[q] \in ReportId
                       /\ pc'[q] = "postflush" => addLob'[q] # NoLob
    BY DEF LocalsOK
  <2>1. CASE q = p
    BY <1>1, <2>1 DEF TypeInv, LocalsOK
  <2>2. CASE q # p
    BY <1>1, <2>2 DEF TypeInv, LocalsOK
  <2>. QED BY <2>1, <2>2
<1>. QED BY <1>3, <1>4 DEF TypeInv

\* A step of a run that leaves the tables alone and changes what it is at work
\* on, and the places of files.
LEMMA FilesStepType ==
  ASSUME SpeedupAssumption, TypeInv, NEW p \in Saver, NEW step \in Step, Goto(p, step),
         UNCHANGED <<storeVars, clock, mtime, ureport, complete, lock, now, seen, newest, stopped, commits>>,
         dir' \in [File -> {"none", "incoming", "saved", "deferred"}],
         report' \in [Saver -> ReportId \cup {NoReport}],
         todo' \in [Saver -> SUBSET File], batch' \in [Saver -> SUBSET File],
         group' \in [Saver -> SUBSET File],
         IsFiniteSet(batch'[p]), group'[p] \subseteq batch'[p],
         \A q \in Saver \ {p} : /\ batch'[q] = batch[q] /\ group'[q] = group[q]
                                /\ report'[q] = report[q],
         step \in Working => group'[p] # {},
         step \in Reporting => report'[p] \in ReportId,
         step # "postflush"
  PROVE  TypeInv'
<1>1. pc' \in [Saver -> Step] /\ pc'[p] = step /\ \A q \in Saver \ {p} : pc'[q] = pc[q]
  BY DEF Goto, TypeInv, TypeOK
<1>4. \A q \in Saver : group'[q] \subseteq batch'[q]
  BY DEF TypeInv, TypeOK
<1>5. StoreTypeOK'
  BY DEF TypeInv, TypeOK, StoreTypeOK, storeVars
<1>6. TypeOK'
  <2>1. /\ clock' \in 1..MaxTime /\ mtime' \in [File -> 0..MaxTime]
        /\ ureport' \in [File -> Offered] /\ complete' \in SUBSET File
        /\ lock' \in [Saver -> 0..MaxTime] /\ now' \in [Saver -> 0..MaxTime]
        /\ seen' \in [Saver -> SUBSET Saver] /\ newest' \in [Saver -> 0..MaxTime]
        /\ stopped' \in [Saver -> {"no", "term", "kill"}] /\ commits' \in [File -> Nat]
    BY DEF TypeInv, TypeOK
  <2>. QED BY <1>1, <1>4, <1>5, <2>1 DEF TypeOK
<1>7. LocalsOK'
  <2>. SUFFICES ASSUME NEW q \in Saver
                PROVE  /\ IsFiniteSet(batch'[q])
                       /\ pc'[q] \in Working => group'[q] # {}
                       /\ pc'[q] \in Reporting => report'[q] \in ReportId
                       /\ pc'[q] = "postflush" => addLob'[q] # NoLob
    BY DEF LocalsOK
  <2>1. CASE q = p
    BY <1>1, <2>1
  <2>2. CASE q # p
    BY <1>1, <2>2 DEF TypeInv, LocalsOK, storeVars
  <2>. QED BY <2>1, <2>2
<1>. QED BY <1>6, <1>7 DEF TypeInv

\* Every step keeps the types.
LEMMA TypeNext == SpeedupAssumption /\ StoreAssumption /\ TypeInv /\ [Next]_vars => TypeInv'
<1>. SUFFICES ASSUME SpeedupAssumption, StoreAssumption, TypeInv, [Next]_vars PROVE TypeInv'
  OBVIOUS
<1>0. TypeOK /\ StoreTypeOK /\ LocalsOK
  BY DEF TypeInv, TypeOK
<1>a. /\ todo \in [Saver -> SUBSET File] /\ batch \in [Saver -> SUBSET File]
      /\ group \in [Saver -> SUBSET File]
  BY <1>0 DEF TypeOK
<1>1. CASE Tick
  BY <1>1, <1>0, OutsideType DEF Tick, TypeOK, SpeedupAssumption, fileVars, runVars, storeVars
<1>2. ASSUME NEW f \in File, Submit(f) PROVE TypeInv'
  BY <1>2, <1>0, OutsideType DEF Submit, TypeOK, runVars
<1>3. ASSUME NEW f \in File, FinishWriting(f) PROVE TypeInv'
  BY <1>3, <1>0, OutsideType DEF FinishWriting, TypeOK, runVars
<1>4. ASSUME NEW p \in Saver, Begin(p) PROVE TypeInv'
  BY <1>4, <1>0, OutsideType DEF Begin, Goto, TypeOK, fileVars, Step, Working
<1>5. ASSUME NEW p \in Saver, CreateLock(p) PROVE TypeInv'
  BY <1>5, <1>0, OutsideType DEF CreateLock, Goto, TypeOK, fileVars, Step, Working
<1>6. ASSUME NEW p \in Saver, ListLocks(p) PROVE TypeInv'
  BY <1>6, <1>0, OutsideType DEF ListLocks, Goto, TypeOK, fileVars, Step, Working
<1>7. ASSUME NEW p \in Saver, ExamineLock(p) PROVE TypeInv'
  <2>1. CASE Unlock(p) /\ UNCHANGED stopped
    BY <2>1, <1>0, UnlockType DEF TypeOK
  <2>2. ASSUME NEW q \in seen[p], seen' = [seen EXCEPT ![p] = @ \ {q}],
               newest' = [newest EXCEPT ![p] = IF Sec(lock[q]) < Sec(now[p]) THEN Max({@, lock[q]}) ELSE @],
               UNCHANGED <<storeVars, clock, fileVars, lock, pc, now, workVars, stopped, commits>>
        PROVE  TypeInv'
    <3>1. q \in Saver /\ newest[p] \in 0..MaxTime /\ lock[q] \in 0..MaxTime
      BY <1>0 DEF TypeOK
    <3>2. Max({newest[p], lock[q]}) \in 0..MaxTime
      BY <3>1, MaxOfTwo, SpeedupAssumption
    <3>3. newest' \in [Saver -> 0..MaxTime] /\ seen' \in [Saver -> SUBSET Saver]
      BY <1>0, <2>2, <3>1, <3>2 DEF TypeOK
    <3>. QED BY <1>0, <2>2, <3>3, OutsideType DEF TypeOK, fileVars
  <2>. QED BY <1>7, <2>1, <2>2 DEF ExamineLock
<1>8. ASSUME NEW p \in Saver, ListFiles(p) PROVE TypeInv'
  <2>1. Chosen(p) \in SUBSET File
    BY DEF Chosen
  <2>2. Goto(p, "load") /\ "load" \in Step /\ "load" \notin Working /\ "load" \notin Reporting
        /\ "load" # "postflush"
    BY <1>8 DEF ListFiles, Step, Working, Reporting
  <2>3. /\ UNCHANGED <<storeVars, clock, mtime, ureport, complete, lock, now, seen, newest, stopped, commits>>
        /\ dir' \in [File -> {"none", "incoming", "saved", "deferred"}]
        /\ report' \in [Saver -> ReportId \cup {NoReport}]
    BY <1>8, <1>0 DEF ListFiles, TypeOK, fileVars
  <2>4. UNCHANGED <<batch, group, report>> /\ todo' \in [Saver -> SUBSET File]
    BY <1>8, <1>a, <2>1 DEF ListFiles
  <2>5. IsFiniteSet(batch[p]) /\ group[p] \subseteq batch[p]
    BY <1>0 DEF LocalsOK, TypeOK
  <2>. QED BY <2>2, <2>3, <2>4, <2>5, <1>a, FilesStepType
<1>9. ASSUME NEW p \in Saver, LoadFile(p) PROVE TypeInv'
  <2>1. PICK f \in todo[p] : /\ todo' = [todo EXCEPT ![p] = @ \ {f}]
                             /\ \/ batch' = [batch EXCEPT ![p] = @ \cup {f}] /\ UNCHANGED dir
                                \/ Rename(f, "deferred") /\ UNCHANGED batch
    BY <1>9 DEF LoadFile
  <2>2. /\ f \in File /\ IsFiniteSet(batch[p]) /\ group[p] \subseteq batch[p]
        /\ IsFiniteSet(batch[p] \cup {f})
    BY <1>0, <1>a, FS_AddElement DEF TypeOK, LocalsOK
  <2>3. /\ batch' \in [Saver -> SUBSET File] /\ todo' \in [Saver -> SUBSET File]
        /\ IsFiniteSet(batch'[p]) /\ group[p] \subseteq batch'[p]
        /\ \A q \in Saver \ {p} : batch'[q] = batch[q]
    BY <2>1, <2>2, <1>a
  <2>4. dir' \in [File -> {"none", "incoming", "saved", "deferred"}]
    BY <2>1, <1>0 DEF Rename, TypeOK
  <2>5. Goto(p, "load") /\ "load" \in Step /\ "load" \notin Working /\ "load" \notin Reporting
        /\ "load" # "postflush"
    BY <1>9, <1>0 DEF LoadFile, Goto, TypeOK, Step, Working, Reporting
  <2>6. /\ UNCHANGED <<storeVars, clock, mtime, ureport, complete, lock, now, seen, newest, stopped, commits>>
        /\ report' \in [Saver -> ReportId \cup {NoReport}] /\ UNCHANGED <<group, report>>
    BY <1>9, <1>0 DEF LoadFile, TypeOK
  <2>. QED BY <2>3, <2>4, <2>5, <2>6, <1>a, FilesStepType
<1>10. ASSUME NEW p \in Saver, NextGroup(p) PROVE TypeInv'
  <2>1. PICK f \in batch[p] :
          /\ group' = [group EXCEPT ![p] = {g \in batch[p] : ureport[g] = ureport[f]}]
          /\ \E step \in {"defer", "opsys", "stat"} : Goto(p, step)
    BY <1>10 DEF NextGroup
  <2>2. PICK step \in {"defer", "opsys", "stat"} : Goto(p, step)
    BY <2>1
  <2>3. /\ group'[p] \subseteq batch[p] /\ group'[p] # {} /\ group' \in [Saver -> SUBSET File]
        /\ \A q \in Saver \ {p} : group'[q] = group[q]
    BY <2>1, <1>a
  <2>4. step \in Step /\ step \notin Reporting /\ step # "postflush"
    BY <2>2 DEF Step, Reporting
  <2>5. IsFiniteSet(batch[p])
    BY <1>0 DEF LocalsOK
  <2>6. /\ UNCHANGED <<storeVars, clock, mtime, ureport, complete, lock, now, seen, newest, stopped, commits>>
        /\ dir' \in [File -> {"none", "incoming", "saved", "deferred"}]
        /\ report' \in [Saver -> ReportId \cup {NoReport}]
        /\ UNCHANGED <<todo, batch, report>>
    BY <1>10, <1>0 DEF NextGroup, TypeOK, fileVars
  <2>. QED BY <2>2, <2>3, <2>4, <2>5, <2>6, <1>a, FilesStepType
<1>11. ASSUME NEW p \in Saver, RecordOpsys(p) PROVE TypeInv'
  <2>1. CASE /\ Flush(p) /\ unknownOpsys' = unknownOpsys + 1 /\ Goto(p, "defer")
             /\ UNCHANGED <<oops, addLob, clock, fileVars, lock, now, seen, newest, workVars, stopped, commits>>
    <3>1. StoreTypeOK'
      BY <1>0, <2>1, FlushType DEF StoreTypeOK
    <3>2. group[p] # {} /\ "defer" \in Step /\ "defer" \notin Reporting
      BY <1>0, <1>11 DEF RecordOpsys, LocalsOK, Working, Reporting, Step
    <3>. QED BY <1>0, <2>1, <3>1, <3>2, StoreStepType DEF TypeOK, workVars
  <2>2. CASE Unlock(p) /\ UNCHANGED stopped
    BY <2>2, <1>0, UnlockType DEF TypeOK
  <2>. QED BY <1>11, <2>1, <2>2 DEF RecordOpsys
<1>12. ASSUME NEW p \in Saver, LookUp(p) PROVE TypeInv'
  <2>1. group[p] # {} /\ Content(p) \in UReport
    BY <1>0, <1>12, ContentType DEF LookUp, LocalsOK, Working
  <2>2. CASE Unlock(p) /\ UNCHANGED stopped
    BY <2>2, <1>0, UnlockType DEF TypeOK
  <2>3. CASE /\ Goto(p, "defer")
             /\ UNCHANGED <<storeVars, clock, fileVars, lock, now, seen, newest, workVars, stopped, commits>>
    <3>1. StoreTypeOK'
      BY <1>0, <2>3 DEF StoreTypeOK, storeVars
    <3>2. "defer" \in Step /\ "defer" \notin Reporting
      BY DEF Reporting, Step
    <3>. QED BY <1>0, <2>1, <2>3, <3>1, <3>2, StoreStepType DEF TypeOK, workVars, storeVars
  <2>4. CASE /\ \E i \in ReportId : /\ FindReport(p, Content(p), i)
                                    /\ report' = [report EXCEPT ![p] = i]
             /\ Goto(p, "release")
             /\ UNCHANGED <<hashOf, tally, traced, oops, unknownOpsys, addLob, clock, fileVars,
                            lock, now, seen, newest, todo, batch, group, stopped, commits>>
    <3>1. StoreTypeOK'
      BY <1>0, <2>1, <2>4, FindReportType DEF StoreTypeOK
    <3>2. /\ report' \in [Saver -> ReportId \cup {NoReport}] /\ report'[p] \in ReportId
          /\ \A q \in Saver \ {p} : report'[q] = report[q]
      BY <1>0, <2>4 DEF TypeOK
    <3>3. "release" \in Step
      BY DEF Step
    <3>. QED BY <1>0, <2>1, <2>4, <3>1, <3>2, <3>3, StoreStepType DEF TypeOK
  <2>. QED BY <1>12, <2>2, <2>3, <2>4 DEF LookUp
<1>13. ASSUME NEW p \in Saver, SaveRelease(p) PROVE TypeInv'
  <2>1. /\ group[p] # {} /\ Content(p) \in UReport /\ Count(p) \in Nat
        /\ report[p] \in ReportId
    BY <1>0, <1>13, ContentType DEF SaveRelease, LocalsOK, Working, Reporting
  <2>2. ReleaseCounter(report[p], Content(p).release) \in Counter
    BY <2>1, CounterMembers DEF UReport
  <2>3. session' \in [Saver -> Session]
    BY <1>0, <1>13, <2>1, <2>2, IncrementType DEF SaveRelease, CountRelease, StoreTypeOK
  <2>4. StoreTypeOK'
    BY <1>0, <1>13, <2>3 DEF SaveRelease, StoreTypeOK
  <2>5. PICK step \in {"defer", "details"} : Goto(p, step)
    BY <1>13 DEF SaveRelease
  <2>6. step \in Step /\ step # "postflush"
    BY <2>5 DEF Step
  <2>. QED BY <1>0, <1>13, <2>1, <2>4, <2>5, <2>6, StoreStepType DEF SaveRelease, TypeOK, workVars
<1>14. ASSUME NEW p \in Saver, SaveDetails(p) PROVE TypeInv'
  <2>1. /\ group[p] # {} /\ Content(p) \in UReport /\ Count(p) \in Nat
        /\ report[p] \in ReportId
    BY <1>0, <1>14, ContentType DEF SaveDetails, LocalsOK, Working, Reporting
  <2>2. StoreTypeOK'
    BY <1>0, <1>14, <2>1, CountDetailsType DEF SaveDetails, StoreTypeOK
  <2>3. \A q \in Saver \ {p} : addLob'[q] = addLob[q]
    BY <1>0, <1>14 DEF SaveDetails, CountDetails, StoreTypeOK
  <2>4. "flush" \in Step
    BY DEF Step
  <2>. QED BY <1>0, <1>14, <2>1, <2>2, <2>3, <2>4, StoreStepType DEF SaveDetails, TypeOK, workVars
<1>15. ASSUME NEW p \in Saver, Commit(p) PROVE TypeInv'
  <2>1. CASE Unlock(p) /\ UNCHANGED stopped
    BY <2>1, <1>0, UnlockType DEF TypeOK
  <2>2. CASE /\ Flush(p)
             /\ commits' = [f \in File |-> IF f \in group[p] THEN commits[f] + 1 ELSE commits[f]]
             /\ Goto(p, IF Content(p).hash \in KernelHash /\ addLob[p] # NoLob
                        THEN "postflush" ELSE "keep")
             /\ UNCHANGED <<oops, unknownOpsys, addLob, clock, fileVars, lock, now, seen, newest,
                            workVars, stopped>>
    <3>1. StoreTypeOK'
      BY <1>0, <2>2, FlushType DEF StoreTypeOK
    <3>2. commits' \in [File -> Nat]
      BY <1>0, <2>2 DEF TypeOK
    <3>3. PICK step \in {"postflush", "keep"} : Goto(p, step) /\ (step = "postflush" => addLob[p] # NoLob)
      BY <2>2
    <3>4. step \in Step /\ step \notin Reporting /\ group[p] # {}
      BY <1>0, <1>15, <3>3 DEF Step, Reporting, Commit, LocalsOK, Working
    <3>. QED BY <1>0, <2>2, <3>1, <3>2, <3>3, <3>4, StoreStepType DEF TypeOK, workVars
  <2>. QED BY <1>15, <2>1, <2>2 DEF Commit
<1>16. ASSUME NEW p \in Saver, PostFlush(p) PROVE TypeInv'
  <2>1. group[p] # {} /\ addLob[p] # NoLob
    BY <1>0, <1>16 DEF PostFlush, LocalsOK, Working
  <2>2. StoreTypeOK'
    BY <1>0, <1>16, <2>1 DEF PostFlush, SaveLob, StoreTypeOK
  <2>3. \A q \in Saver \ {p} : addLob'[q] = addLob[q]
    BY <1>0, <1>16 DEF PostFlush, SaveLob, StoreTypeOK
  <2>4. PICK step \in {"defer", "keep"} : Goto(p, step)
    BY <1>16 DEF PostFlush
  <2>5. step \in Step /\ step \notin Reporting /\ step # "postflush"
    BY <2>4 DEF Step, Reporting
  <2>. QED BY <1>0, <1>16, <2>1, <2>2, <2>3, <2>4, <2>5, StoreStepType DEF PostFlush, TypeOK, workVars
<1>17. ASSUME NEW p \in Saver, NEW step \in {"keep", "defer"}, NEW target \in {"saved", "deferred"},
              Move(p, step, target)
       PROVE  TypeInv'
  <2>1. PICK f \in group[p] : /\ Rename(f, target)
                              /\ batch' = [batch EXCEPT ![p] = @ \ {f}]
                              /\ group' = [group EXCEPT ![p] = @ \ {f}]
    BY <1>17 DEF Move
  <2>2. /\ batch'[p] = batch[p] \ {f} /\ group'[p] = group[p] \ {f}
        /\ batch' \in [Saver -> SUBSET File] /\ group' \in [Saver -> SUBSET File]
        /\ \A q \in Saver \ {p} : batch'[q] = batch[q] /\ group'[q] = group[q]
    BY <2>1, <1>a
  <2>3. IsFiniteSet(batch'[p]) /\ group'[p] \subseteq batch'[p]
    <3>1. IsFiniteSet(batch[p]) /\ group[p] \subseteq batch[p]
      BY <1>0 DEF TypeOK, LocalsOK
    <3>2. IsFiniteSet(batch[p] \ {f})
      BY <3>1, FS_RemoveElement
    <3>. QED BY <2>2, <3>1, <3>2
  <2>4. dir' \in [File -> {"none", "incoming", "saved", "deferred"}]
    BY <2>1, <1>0 DEF Rename, TypeOK
  <2>5. PICK next \in {"next", step} : Goto(p, next) /\ (group'[p] = {} => next = "next")
    BY <1>17 DEF Move
  <2>6. /\ next \in Step /\ next \notin Reporting /\ next # "postflush"
        /\ next \in Working => group'[p] # {}
    BY <2>5 DEF Step, Reporting, Working
  <2>7. /\ report' \in [Saver -> ReportId \cup {NoReport}]
        /\ \A q \in Saver \ {p} : report'[q] = report[q]
    BY <1>0, <1>17 DEF Move, TypeOK
  <2>8. /\ UNCHANGED <<storeVars, clock, mtime, ureport, complete, lock, now, seen, newest, stopped, commits>>
        /\ UNCHANGED todo
    BY <1>17 DEF Move
  <2>. QED BY <2>2, <2>3, <2>4, <2>5, <2>6, <2>7, <2>8, <1>a, FilesStepType
<1>18. ASSUME NEW p \in Saver, Finish(p) PROVE TypeInv'
  <2>1. pc' \in [Saver -> Step] /\ lock' \in [Saver -> 0..MaxTime]
    BY <1>18, <1>0 DEF Finish, Goto, TypeOK, Step
  <2>2. \A q \in Saver : pc'[q] = pc[q] \/ pc'[q] \notin Working
    BY <1>18, <1>0 DEF Finish, Goto, TypeOK, Working
  <2>. QED BY <1>18, <1>0, <2>1, <2>2, OutsideType DEF Finish, TypeOK, fileVars
<1>21. ASSUME NEW p \in Saver, SaveAttachments(p) PROVE TypeInv'
  <2>1. /\ hashOf' \in [ReportId -> Hash \cup {NoHash}] /\ tally' \in [Counter -> Nat]
        /\ traced' \in SUBSET ReportId
    BY <1>21, <1>0, FlushType DEF SaveAttachments, TypeOK, StoreTypeOK
  <2>. QED BY <1>21, <1>0, <2>1, DropType DEF SaveAttachments, TypeOK
<1>19. ASSUME NEW p \in Saver, Terminate(p) \/ Kill(p) PROVE TypeInv'
  <2>1. stopped' \in [Saver -> {"no", "term", "kill"}]
    BY <1>19, <1>0 DEF Terminate, Kill, Stop, TypeOK
  <2>2. CASE Terminate(p)
    BY <2>1, <2>2, UnlockType DEF Terminate
  <2>3. CASE Kill(p)
    BY <2>1, <2>3, <1>0, LeaveType DEF Kill, TypeOK
  <2>. QED BY <1>19, <2>2, <2>3
<1>20. CASE UNCHANGED vars
  BY <1>20, <1>0, OutsideType DEF vars, TypeOK, runVars, fileVars
<1>. QED
  BY <1>1, <1>2, <1>3, <1>4, <1>5, <1>6, <1>7, <1>8, <1>9, <1>10, <1>11, <1>12, <1>13,
     <1>14, <1>15, <1>16, <1>17, <1>18, <1>19, <1>20, <1>21 DEF Next, MoveToSaved, MoveToDeferred

\* Every variable of save-reports --speedup keeps its type, calm or not.
THEOREM TypeCorrect == Spec => []TypeOK
<1>1. TypeInv => TypeOK
  BY DEF TypeInv
<1>2. SpeedupAssumption /\ StoreAssumption
  BY SpeedupAssumption, StoreAssumption
<1>3. TypeInv /\ [Next]_vars => TypeInv'
  BY <1>2, TypeNext
<1>. QED BY <1>1, <1>3, TypeInit, PTL DEF Spec

-----------------------------------------------------------------------------
(* Runs that overlap take different files, as long as they are Calm: each  *)
(* run takes the files whose times lie between the newest lock of an older *)
(* run and its own beginning, and these intervals are apart.               *)

\* The run has its lock and has not removed it.
Locked(p) == pc[p] \notin {"new", "lock", "attach", "done"}

\* A file has its last modification time from the tick it appeared in.
TimesInv ==
  \A f \in File : f \notin complete /\ dir[f] # "none" => mtime[f] = clock

\* No two runs begin in one second, and a lock is made in the second its run
\* began.
LockInv ==
  /\ \A p \in Saver : pc[p] # "new" => now[p] <= clock
  /\ \A p \in Saver : pc[p] = "lock" => Sec(now[p]) = Sec(clock)
  /\ \A p \in Saver : Locked(p) => /\ lock[p] > 0
                                   /\ now[p] <= lock[p]
                                   /\ Sec(lock[p]) = Sec(now[p])
  /\ \A p, q \in Saver : p # q /\ pc[p] # "new" /\ pc[q] # "new"
                           => Sec(now[p]) # Sec(now[q])

\* A run has taken down the lock of every older run that is still at work, or
\* is still to look at it.
NewestInv ==
  \A p, q \in Saver :
    Locked(p) /\ Locked(q) /\ now[p] < now[q] =>
      \/ pc[q] = "list"
      \/ pc[q] = "locks" /\ p \in seen[q]
      \/ lock[p] <= newest[q]

\* The steps at which a run has no files.
Idle == {"new", "lock", "list", "locks", "attach", "done"}

\* The files of a run are in incoming once loaded, and their times are between
\* the newest older lock and the beginning of the run.
FilesInv ==
  \A p \in Saver :
    /\ pc[p] \in Idle => Mine(p) = {}
    /\ pc[p] # "load" => todo[p] = {}
    /\ todo[p] \cap batch[p] = {}
    /\ \A f \in batch[p] : dir[f] = "incoming"
    /\ \A f \in Mine(p) : dir[f] # "none" /\ newest[p] < mtime[f] /\ mtime[f] <= now[p]

CalmInv == TimesInv /\ LockInv /\ NewestInv /\ FilesInv

\* Seconds do not run backwards.
LEMMA SecMonotone ==
  ASSUME SpeedupAssumption, NEW a \in Nat, NEW b \in Nat, a <= b
  PROVE  Sec(a) \in Nat /\ Sec(b) \in Nat /\ Sec(a) <= Sec(b)
BY SpeedupAssumption DEF Sec

\* What the types say of the times and the files.
LEMMA Times ==
  ASSUME SpeedupAssumption, TypeInv
  PROVE  /\ clock \in Nat /\ clock > 0 /\ \A f \in File : mtime[f] \in Nat
         /\ \A p \in Saver : /\ now[p] \in Nat /\ lock[p] \in Nat /\ newest[p] \in Nat
                             /\ Sec(now[p]) \in Nat /\ Sec(lock[p]) \in Nat
                             /\ todo[p] \subseteq File /\ batch[p] \subseteq File
                             /\ group[p] \subseteq batch[p] /\ Mine(p) \subseteq File
         /\ mtime \in [File -> Nat] /\ dir \in [File -> {"none", "incoming", "saved", "deferred"}]
         /\ pc \in [Saver -> Step] /\ seen \in [Saver -> SUBSET Saver]
         /\ todo \in [Saver -> SUBSET File] /\ batch \in [Saver -> SUBSET File]
         /\ now \in [Saver -> Nat] /\ lock \in [Saver -> Nat] /\ newest \in [Saver -> Nat]
<1>1. /\ clock \in Nat /\ clock > 0 /\ mtime \in [File -> Nat]
      /\ dir \in [File -> {"none", "incoming", "saved", "deferred"}]
      /\ pc \in [Saver -> Step] /\ seen \in [Saver -> SUBSET Saver]
  BY DEF SpeedupAssumption, TypeInv, TypeOK
<1>2. now \in [Saver -> Nat] /\ lock \in [Saver -> Nat] /\ newest \in [Saver -> Nat]
  BY DEF SpeedupAssumption, TypeInv, TypeOK
<1>3. todo \in [Saver -> SUBSET File] /\ batch \in [Saver -> SUBSET File]
  BY DEF TypeInv, TypeOK
<1>4. \A p \in Saver : group[p] \subseteq batch[p]
  BY DEF TypeInv, TypeOK
<1>5. \A t \in Nat : Sec(t) \in Nat
  BY SecMonotone
<1>. QED BY <1>1, <1>2, <1>3, <1>4, <1>5 DEF Mine

\* The intervals of two runs are apart, so their files are not the same.
LEMMA ApartIsDisjoint ==
  ASSUME SpeedupAssumption, TypeInv, CalmInv
  PROVE  DisjointBatches
<1>1. ASSUME NEW p \in Saver, NEW q \in Saver, p # q, NEW f \in Mine(p), f \in Mine(q),
             now[p] <= now[q]
      PROVE  FALSE
  <2>1. /\ pc[p] \notin Idle
        /\ pc[q] \notin Idle
        /\ mtime[f] <= now[p] /\ newest[q] < mtime[f]
    BY <1>1 DEF CalmInv, FilesInv, Idle
  <2>2. Sec(now[p]) # Sec(now[q]) /\ now[p] <= lock[p]
    BY <1>1, <2>1 DEF CalmInv, LockInv, Locked, Idle
  <2>3. now[p] < now[q]
    <3>1. now[p] # now[q]
      BY <2>2
    <3>2. now[p] \in Nat /\ now[q] \in Nat
      BY Times
    <3>. QED BY <1>1, <3>1, <3>2
  <2>4. lock[p] <= newest[q]
    BY <2>1, <2>3 DEF CalmInv, NewestInv, Locked, Idle
  <2>5. f \in File
    BY <1>1, Times
  <2>. QED BY <2>1, <2>2, <2>4, <2>5, Times
<1>2. \A p, q \in Saver : now[p] <= now[q] \/ now[q] <= now[p]
  BY Times
<1>. QED BY <1>1, <1>2 DEF DisjointBatches

\* A step of a run at work on files it took before.
LEMMA WorkStep ==
  ASSUME SpeedupAssumption, TypeInv, CalmInv, NEW p \in Saver, NEW step \in Step, Goto(p, step),
         pc[p] \notin Idle,
         step \notin Idle, step # "load" => todo'[p] = {},
         UNCHANGED <<clock, mtime, complete, lock, now, seen, newest>>,
         \A q \in Saver \ {p} : todo'[q] = todo[q] /\ batch'[q] = batch[q],
         Mine(p)' \subseteq Mine(p), todo'[p] \cap batch'[p] = {},
         \A f \in File : dir'[f] = "none" <=> dir[f] = "none",
         \A q \in Saver : \A f \in batch'[q] : dir'[f] = "incoming"
  PROVE  CalmInv'
<1>1. pc'[p] = step /\ \A q \in Saver \ {p} : pc'[q] = pc[q]
  BY Times DEF Goto
<1>2. TimesInv'
  BY DEF CalmInv, TimesInv
<1>3. LockInv'
  BY <1>1 DEF CalmInv, LockInv, Locked, Sec, Idle
<1>4. NewestInv'
  BY <1>1 DEF CalmInv, NewestInv, Locked, Idle
<1>5. \A q \in Saver : Mine(q)' \subseteq Mine(q)
  BY DEF Mine
<1>6. FilesInv'
  <2>. SUFFICES ASSUME NEW q \in Saver
                PROVE  /\ pc'[q] \in Idle => Mine(q)' = {}
                       /\ pc'[q] # "load" => todo'[q] = {}
                       /\ todo'[q] \cap batch'[q] = {}
                       /\ \A f \in Mine(q)' : /\ dir'[f] # "none" /\ newest[q] < mtime[f]
                                              /\ mtime[f] <= now[q]
    BY DEF FilesInv, Idle
  <2>1. \A f \in Mine(q)' : dir'[f] # "none" /\ newest[q] < mtime[f] /\ mtime[f] <= now[q]
    BY <1>5, Times DEF CalmInv, FilesInv, Idle
  <2>2. todo'[q] \cap batch'[q] = {}
    BY DEF CalmInv, FilesInv, Idle
  <2>3. pc'[q] \in Idle => Mine(q)' = {}
    BY <1>1, <1>5 DEF CalmInv, FilesInv, Idle
  <2>4. pc'[q] # "load" => todo'[q] = {}
    BY <1>1 DEF CalmInv, FilesInv, Idle
  <2>. QED BY <2>1, <2>2, <2>3, <2>4
<1>. QED BY <1>2, <1>3, <1>4, <1>6 DEF CalmInv

\* The same when the files stay as they are.
LEMMA QuietStep ==
  ASSUME SpeedupAssumption, TypeInv, CalmInv, NEW p \in Saver, NEW step \in Step, Goto(p, step),
         pc[p] \notin Idle,
         step \notin Idle, step # "load", pc[p] # "load" \/ todo[p] = {},
         UNCHANGED <<clock, dir, mtime, complete, lock, now, seen, newest, todo, batch>>
  PROVE  CalmInv'
<1>1. todo'[p] \cap batch'[p] = {} /\ \A q \in Saver : \A f \in batch'[q] : dir'[f] = "incoming"
  BY DEF CalmInv, FilesInv, Idle
<1>2. Mine(p)' \subseteq Mine(p)
  BY DEF Mine
<1>3. \A f \in File : dir'[f] = "none" <=> dir[f] = "none"
  OBVIOUS
<1>4. UNCHANGED <<clock, mtime, complete, lock, now, seen, newest>>
  OBVIOUS
<1>5. todo'[p] = {}
  BY DEF CalmInv, FilesInv, Idle
<1>. QED BY <1>1, <1>2, <1>3, <1>4, <1>5, WorkStep

\* A run that ends leaves the others as they were.
LEMMA DropCalm ==
  ASSUME SpeedupAssumption, TypeInv, CalmInv, NEW p \in Saver, Drop(p),
         \A q \in Saver \ {p} : lock'[q] = lock[q], pc[p] # "new"
  PROVE  CalmInv'
<1>1. /\ pc'[p] = "done" /\ todo'[p] = {} /\ batch'[p] = {}
      /\ \A q \in Saver \ {p} : /\ pc'[q] = pc[q] /\ seen'[q] = seen[q] /\ newest'[q] = newest[q]
                                /\ todo'[q] = todo[q] /\ batch'[q] = batch[q]
      /\ UNCHANGED <<clock, dir, mtime, complete, now>>
  BY Times DEF Drop, Goto, fileVars
<1>2. TimesInv'
  BY <1>1 DEF CalmInv, TimesInv
<1>3. LockInv'
  BY <1>1 DEF CalmInv, LockInv, Locked, Sec
<1>4. NewestInv'
  BY <1>1 DEF CalmInv, NewestInv, Locked
<1>5. FilesInv'
  BY <1>1 DEF CalmInv, FilesInv, Mine, Idle
<1>. QED BY <1>2, <1>3, <1>4, <1>5 DEF CalmInv

\* So does a run that releases its lock.
LEMMA UnlockCalm ==
  ASSUME SpeedupAssumption, TypeInv, CalmInv, NEW p \in Saver, Unlock(p), pc[p] # "new"
  PROVE  CalmInv'
<1>1. \A q \in Saver \ {p} : lock'[q] = lock[q]
  BY Times DEF Unlock
<1>. QED BY <1>1, DropCalm DEF Unlock, Leave

\* While at most one run begins in a second, every step keeps the windows
\* of the runs apart.
LEMMA CalmNext ==
  ASSUME SpeedupAssumption, Calm, TypeInv, CalmInv, [Next]_vars
  PROVE  CalmInv'
<1>0. TimesInv /\ LockInv /\ NewestInv /\ FilesInv
  BY DEF CalmInv
<1>1. CASE Tick
  <2>1. \A f \in File : dir[f] # "none" => f \in complete
    BY <1>1 DEF Tick
  <2>2. \A p \in Saver : pc[p] = "lock" => Sec(clock) = Sec(clock + 1)
    BY <1>1 DEF Tick
  <2>3. clock' = clock + 1
    BY <1>1 DEF Tick
  <2>4. UNCHANGED <<dir, mtime, complete, lock, pc, now, seen, newest, todo, batch>>
    BY <1>1 DEF Tick, fileVars, runVars, workVars
  <2>5. TimesInv'
    BY <2>1, <2>4 DEF TimesInv
  <2>6. LockInv'
    <3>1. \A p \in Saver : pc[p] # "new" => now[p] <= clock'
      BY <1>0, <2>3, Times DEF LockInv
    <3>2. \A p \in Saver : pc[p] = "lock" => Sec(now[p]) = Sec(clock')
      BY <1>0, <2>2, <2>3 DEF LockInv
    <3>. QED BY <1>0, <2>4, <3>1, <3>2 DEF LockInv, Locked, Sec
  <2>7. NewestInv' /\ FilesInv'
    BY <1>0, <2>4 DEF NewestInv, FilesInv, Locked, Mine, Idle
  <2>. QED BY <2>5, <2>6, <2>7 DEF CalmInv
<1>2. ASSUME NEW f \in File, Submit(f) PROVE CalmInv'
  <2>1. /\ dir[f] = "none" /\ dir' = [dir EXCEPT ![f] = "incoming"]
        /\ mtime' = [mtime EXCEPT ![f] = clock]
        /\ UNCHANGED <<clock, complete, lock, pc, now, seen, newest, todo, batch>>
    BY <1>2 DEF Submit, runVars, workVars
  <2>2. /\ \A g \in File \ {f} : dir'[g] = dir[g] /\ mtime'[g] = mtime[g]
        /\ mtime'[f] = clock
    BY <2>1, Times
  <2>3. TimesInv'
    BY <1>0, <2>1, <2>2 DEF TimesInv
  <2>4. LockInv' /\ NewestInv'
    BY <1>0, <2>1 DEF LockInv, NewestInv, Locked, Sec
  <2>5. \A p \in Saver : f \notin Mine(p)
    BY <1>0, <2>1 DEF FilesInv, Idle
  <2>6. \A p \in Saver : Mine(p)' = Mine(p)
    BY <2>1 DEF Mine
  <2>7. \A p \in Saver : batch[p] \subseteq Mine(p) /\ Mine(p) \subseteq File \ {f}
    BY <2>5, Times DEF Mine
  <2>8. FilesInv'
    BY <1>0, <2>1, <2>2, <2>6, <2>7 DEF FilesInv, Idle
  <2>. QED BY <2>3, <2>4, <2>8 DEF CalmInv
<1>3. ASSUME NEW f \in File, FinishWriting(f) PROVE CalmInv'
  <2>1. /\ dir[f] # "none" /\ f \notin complete /\ complete' = complete \cup {f}
        /\ mtime' = [mtime EXCEPT ![f] = clock]
        /\ UNCHANGED <<clock, dir, lock, pc, now, seen, newest, todo, batch>>
    BY <1>3 DEF FinishWriting, runVars, workVars
  <2>2. mtime' = mtime
    BY <1>0, <2>1, Times DEF TimesInv
  <2>3. TimesInv'
    BY <1>0, <2>1, <2>2 DEF TimesInv
  <2>4. LockInv' /\ NewestInv' /\ FilesInv'
    BY <1>0, <2>1, <2>2 DEF LockInv, NewestInv, FilesInv, Locked, Sec, Mine, Idle
  <2>. QED BY <2>3, <2>4 DEF CalmInv
<1>4. ASSUME NEW p \in Saver, Begin(p) PROVE CalmInv'
  <2>1. /\ pc[p] = "new" /\ pc' = [pc EXCEPT ![p] = "lock"] /\ now' = [now EXCEPT ![p] = clock]
        /\ \A q \in Saver : pc[q] = "new" \/ Sec(now[q]) < Sec(clock)
        /\ UNCHANGED <<clock, dir, mtime, complete, lock, seen, newest, todo, batch>>
    BY <1>4 DEF Begin, Goto, fileVars, workVars
  <2>2. /\ pc'[p] = "lock" /\ now'[p] = clock
        /\ \A q \in Saver \ {p} : pc'[q] = pc[q] /\ now'[q] = now[q]
    BY <2>1, Times
  <2>3. TimesInv'
    BY <1>0, <2>1 DEF TimesInv
  <2>4. LockInv'
    <3>0. Sec(clock) \in Nat
      BY Times, SecMonotone
    <3>1. \A q \in Saver \ {p} : pc[q] # "new" => Sec(now[q]) # Sec(clock)
      BY <2>1, <3>0, Times
    <3>2. /\ \A q \in Saver : pc'[q] # "new" => now'[q] <= clock
          /\ \A q \in Saver : pc'[q] = "lock" => Sec(now'[q]) = Sec(clock)
          /\ \A q \in Saver : Locked(q)' => Locked(q) /\ q # p
      BY <1>0, <2>2, Times DEF LockInv, Locked
    <3>3. \A q, r \in Saver : q # r /\ pc'[q] # "new" /\ pc'[r] # "new"
                                 => Sec(now'[q]) # Sec(now'[r])
      BY <1>0, <2>2, <3>1 DEF LockInv
    <3>. QED BY <1>0, <2>1, <2>2, <3>2, <3>3 DEF LockInv, Sec
  <2>5. NewestInv'
    BY <1>0, <2>1, <2>2 DEF NewestInv, Locked
  <2>6. FilesInv'
    BY <1>0, <2>1, <2>2 DEF FilesInv, Mine, Idle
  <2>. QED BY <2>3, <2>4, <2>5, <2>6 DEF CalmInv
<1>5. ASSUME NEW p \in Saver, CreateLock(p) PROVE CalmInv'
  <2>1. /\ pc[p] = "lock" /\ pc' = [pc EXCEPT ![p] = "list"] /\ lock' = [lock EXCEPT ![p] = clock]
        /\ UNCHANGED <<clock, dir, mtime, complete, now, seen, newest, todo, batch>>
    BY <1>5 DEF CreateLock, Goto, fileVars, workVars
  <2>2. /\ pc'[p] = "list" /\ lock'[p] = clock
        /\ \A q \in Saver \ {p} : pc'[q] = pc[q] /\ lock'[q] = lock[q]
    BY <2>1, Times
  <2>3. TimesInv'
    BY <1>0, <2>1 DEF TimesInv
  <2>4. LockInv'
    <3>1. clock > 0 /\ now[p] <= clock /\ Sec(clock) = Sec(now[p])
      BY <1>0, <2>1, Times DEF LockInv
    <3>2. \A q \in Saver : Locked(q)' => /\ lock'[q] > 0 /\ now[q] <= lock'[q]
                                        /\ Sec(lock'[q]) = Sec(now[q])
      BY <1>0, <2>2, <3>1 DEF LockInv, Locked
    <3>. QED BY <1>0, <2>1, <2>2, <3>2 DEF LockInv, Sec
  <2>5. ASSUME NEW q \in Saver, pc[q] # "new" PROVE ~(now[p] < now[q])
    <3>1. CASE q = p
      BY <3>1, Times
    <3>2. CASE q # p
      <4>1. Sec(now[p]) = Sec(clock) /\ now[q] <= clock /\ Sec(now[p]) # Sec(now[q])
        BY <1>0, <2>1, <2>5, <3>2 DEF LockInv
      <4>2. Sec(now[q]) <= Sec(clock)
        BY <4>1, SecMonotone, Times
      <4>3. now[p] <= now[q] => Sec(now[p]) <= Sec(now[q])
        BY SecMonotone, Times
      <4>. QED BY <4>1, <4>2, <4>3, Times
    <3>. QED BY <3>1, <3>2
  <2>6. NewestInv'
    BY <1>0, <2>1, <2>2, <2>5 DEF NewestInv, Locked
  <2>7. FilesInv'
    BY <1>0, <2>1, <2>2 DEF FilesInv, Mine, Idle
  <2>. QED BY <2>3, <2>4, <2>6, <2>7 DEF CalmInv
<1>6. ASSUME NEW p \in Saver, ListLocks(p) PROVE CalmInv'
  <2>1. /\ pc[p] = "list" /\ pc' = [pc EXCEPT ![p] = "locks"]
        /\ seen' = [seen EXCEPT ![p] = {q \in Saver \ {p} : lock[q] > 0}]
        /\ UNCHANGED <<clock, dir, mtime, complete, lock, now, newest, todo, batch>>
    BY <1>6 DEF ListLocks, Goto, fileVars, workVars
  <2>2. /\ pc'[p] = "locks" /\ seen'[p] = {q \in Saver \ {p} : lock[q] > 0}
        /\ \A q \in Saver \ {p} : pc'[q] = pc[q] /\ seen'[q] = seen[q]
    BY <2>1, Times
  <2>3. TimesInv' /\ LockInv'
    BY <1>0, <2>1, <2>2 DEF TimesInv, LockInv, Locked, Sec
  <2>4. \A q \in Saver : Locked(q) /\ now[q] < now[p] => q \in seen'[p]
    BY <1>0, <2>2, Times DEF LockInv
  <2>5. NewestInv'
    BY <1>0, <2>1, <2>2, <2>4 DEF NewestInv, Locked
  <2>6. FilesInv'
    BY <1>0, <2>1, <2>2 DEF FilesInv, Mine, Idle
  <2>. QED BY <2>3, <2>5, <2>6 DEF CalmInv
<1>7. ASSUME NEW p \in Saver, ExamineLock(p) PROVE CalmInv'
  <2>1. CASE Unlock(p)
    BY <1>7, <2>1, UnlockCalm DEF ExamineLock
  <2>2. ASSUME NEW q \in seen[p], Sec(lock[q]) <= Sec(now[p]), seen' = [seen EXCEPT ![p] = @ \ {q}],
               newest' = [newest EXCEPT ![p] = IF Sec(lock[q]) < Sec(now[p]) THEN Max({@, lock[q]}) ELSE @],
               UNCHANGED <<storeVars, clock, fileVars, lock, pc, now, workVars, stopped, commits>>
        PROVE  CalmInv'
    <3>1. q \in Saver /\ pc[p] = "locks"
      BY <1>7, Times DEF ExamineLock
    <3>2. /\ newest[p] <= newest'[p]
          /\ Sec(lock[q]) < Sec(now[p]) => lock[q] <= newest'[p]
          /\ \A r \in Saver \ {p} : newest'[r] = newest[r] /\ seen'[r] = seen[r]
          /\ seen'[p] = seen[p] \ {q}
      <4>1. PICK n \in Nat : n = Max({newest[p], lock[q]}) /\ n >= newest[p] /\ n >= lock[q]
        <5>1. newest[p] \in Nat /\ lock[q] \in Nat
          BY <3>1, Times
        <5>. QED BY <5>1, MaxOfTwo
      <4>2. newest' = [newest EXCEPT ![p] = IF Sec(lock[q]) < Sec(now[p]) THEN n ELSE newest[p]]
        BY <2>2, <4>1
      <4>3. newest'[p] = IF Sec(lock[q]) < Sec(now[p]) THEN n ELSE newest[p]
        BY <4>2, Times
      <4>4. newest[p] <= newest'[p] /\ (Sec(lock[q]) < Sec(now[p]) => lock[q] <= newest'[p])
        BY <4>1, <4>3, Times
      <4>. QED BY <2>2, <4>2, <4>4, Times
    <3>3. UNCHANGED <<clock, dir, mtime, complete, lock, pc, now, todo, batch>>
      BY <2>2 DEF fileVars, workVars
    <3>4. TimesInv' /\ LockInv'
      BY <1>0, <3>3 DEF TimesInv, LockInv, Locked, Sec
    <3>5. ASSUME NEW r \in Saver, Locked(r), now[r] < now[p]
          PROVE  r \in seen'[p] \/ lock[r] <= newest'[p]
      <4>1. r \in seen[p] \/ lock[r] <= newest[p]
        BY <1>0, <3>1, <3>5 DEF NewestInv, Locked
      <4>2. CASE r = q
        <5>1. Sec(lock[q]) = Sec(now[q]) /\ Sec(now[q]) # Sec(now[p])
          BY <1>0, <3>1, <3>5, <4>2, Times DEF LockInv, Locked
        <5>. QED BY <2>2, <3>1, <3>2, <4>2, <5>1, Times
      <4>3. CASE r # q
        <5>1. newest'[p] \in Nat
          BY <2>2, <3>1, Times, MaxOfTwo
        <5>. QED BY <3>2, <4>1, <4>3, <5>1, Times
      <4>. QED BY <4>2, <4>3
    <3>6. NewestInv'
      BY <1>0, <3>1, <3>2, <3>3, <3>5 DEF NewestInv, Locked
    <3>7. FilesInv'
      BY <1>0, <3>1, <3>2, <3>3 DEF FilesInv, Mine, Idle
    <3>. QED BY <3>4, <3>6, <3>7 DEF CalmInv
  <2>. QED BY <1>7, <2>1, <2>2 DEF ExamineLock
<1>8. ASSUME NEW p \in Saver, ListFiles(p) PROVE CalmInv'
  <2>1. /\ pc[p] = "locks" /\ seen[p] = {} /\ pc' = [pc EXCEPT ![p] = "load"]
        /\ todo' = [todo EXCEPT ![p] = Chosen(p)]
        /\ UNCHANGED <<clock, dir, mtime, complete, lock, now, seen, newest, batch>>
    BY <1>8 DEF ListFiles, Goto, fileVars
  <2>2. /\ pc'[p] = "load" /\ todo'[p] = Chosen(p)
        /\ \A q \in Saver \ {p} : pc'[q] = pc[q] /\ todo'[q] = todo[q]
    BY <2>1, Times
  <2>3. batch[p] = {}
    BY <1>0, <2>1 DEF FilesInv, Mine, Idle
  <2>4. TimesInv' /\ LockInv'
    BY <1>0, <2>1, <2>2 DEF TimesInv, LockInv, Locked, Sec
  <2>5. NewestInv'
    BY <1>0, <2>1, <2>2 DEF NewestInv, Locked
  <2>6. \A q \in Saver \ {p} : Mine(q)' = Mine(q)
    BY <2>1, <2>2 DEF Mine
  <2>7. Mine(p)' = Chosen(p)
    BY <2>1, <2>2, <2>3 DEF Mine
  <2>8. FilesInv'
    BY <1>0, <2>1, <2>2, <2>3, <2>6, <2>7 DEF FilesInv, Chosen, Idle
  <2>. QED BY <2>4, <2>5, <2>8 DEF CalmInv
<1>9. DisjointBatches
  BY ApartIsDisjoint
<1>10. ASSUME NEW p \in Saver, LoadFile(p) PROVE CalmInv'
  <2>1. PICK f \in todo[p] : /\ todo' = [todo EXCEPT ![p] = @ \ {f}]
                             /\ \/ /\ dir[f] = "incoming"
                                   /\ batch' = [batch EXCEPT ![p] = @ \cup {f}] /\ UNCHANGED dir
                                \/ Rename(f, "deferred") /\ UNCHANGED batch
    BY <1>10 DEF LoadFile
  <2>2. /\ pc[p] = "load" /\ Goto(p, "load")
        /\ UNCHANGED <<clock, mtime, complete, lock, now, seen, newest>>
    BY <1>10, Times DEF LoadFile, Goto
  <2>3. f \in File /\ f \in Mine(p) /\ f \notin batch[p] /\ todo'[p] = todo[p] \ {f}
    BY <1>0, <2>1, Times DEF Mine, FilesInv, Idle
  <2>4. \A q \in Saver \ {p} : todo'[q] = todo[q] /\ batch'[q] = batch[q]
    BY <2>1, Times
  <2>5. batch'[p] \in {batch[p], batch[p] \cup {f}}
    BY <2>1, Times
  <2>6. Mine(p)' \subseteq Mine(p) /\ todo'[p] \cap batch'[p] = {}
    BY <1>0, <2>3, <2>5 DEF Mine, FilesInv, Idle
  <2>7. \A q \in Saver : f \notin batch[q]
    BY <1>9, <2>3 DEF DisjointBatches, Mine
  <2>8. \A g \in File \ {f} : dir'[g] = dir[g]
    BY <2>1, Times DEF Rename
  <2>9. dir'[f] = "none" <=> dir[f] = "none"
    BY <2>1, <2>3, Times DEF Rename
  <2>10. \A q \in Saver : \A g \in batch[q] : dir'[g] = "incoming"
    <3>1. \A q \in Saver : \A g \in batch[q] : dir[g] = "incoming" /\ g \in File
      BY <1>0, Times DEF FilesInv, Idle
    <3>. QED BY <2>7, <2>8, <3>1
  <2>11. \A q \in Saver : \A g \in batch'[q] : dir'[g] = "incoming"
    <3>1. CASE UNCHANGED batch
      BY <2>10, <3>1
    <3>2. CASE UNCHANGED dir /\ dir[f] = "incoming"
      BY <2>4, <2>5, <2>10, <3>2
    <3>. QED BY <2>1, <3>1, <3>2
  <2>12. "load" \in Step /\ "load" \notin Idle /\ pc[p] \notin Idle
    BY <2>2 DEF Step, Idle
  <2>. QED BY <2>2, <2>4, <2>6, <2>8, <2>9, <2>11, <2>12, WorkStep
<1>11. ASSUME NEW p \in Saver, NextGroup(p) PROVE CalmInv'
  <2>0. pc[p] \notin Idle /\ (pc[p] # "load" \/ todo[p] = {})
    BY <1>11 DEF NextGroup, Idle
  <2>1. PICK step \in {"defer", "opsys", "stat"} : Goto(p, step)
    BY <1>11 DEF NextGroup
  <2>2. UNCHANGED <<clock, dir, mtime, complete, lock, now, seen, newest, todo, batch>>
    BY <1>11 DEF NextGroup, fileVars, workVars
  <2>3. step \in Step /\ step \notin Idle /\ step # "load"
    BY <2>1 DEF Step, Idle
  <2>. QED BY <2>0, <2>1, <2>2, <2>3, QuietStep
<1>12. ASSUME NEW p \in Saver, RecordOpsys(p) PROVE CalmInv'
  <2>0. pc[p] \notin Idle /\ pc[p] # "load"
    BY <1>12 DEF RecordOpsys, Idle
  <2>1. CASE Unlock(p)
    BY <2>0, <2>1, UnlockCalm DEF Idle
  <2>2. CASE ~Unlock(p)
    <3>1. PICK step \in {"defer"} : Goto(p, step)
      BY <1>12, <2>2 DEF RecordOpsys
    <3>2. UNCHANGED <<clock, dir, mtime, complete, lock, now, seen, newest, todo, batch>>
      BY <1>12, <2>2 DEF RecordOpsys, fileVars, workVars
    <3>3. step \in Step /\ step \notin Idle /\ step # "load"
      BY <3>1 DEF Step, Idle
    <3>. QED BY <2>0, <3>1, <3>2, <3>3, QuietStep
  <2>. QED BY <2>1, <2>2
<1>13. ASSUME NEW p \in Saver, LookUp(p) PROVE CalmInv'
  <2>0. pc[p] \notin Idle /\ pc[p] # "load"
    BY <1>13 DEF LookUp, Idle
  <2>1. CASE Unlock(p)
    BY <2>0, <2>1, UnlockCalm DEF Idle
  <2>2. CASE ~Unlock(p)
    <3>1. PICK step \in {"defer", "release"} : Goto(p, step)
      BY <1>13, <2>2 DEF LookUp
    <3>2. UNCHANGED <<clock, dir, mtime, complete, lock, now, seen, newest, todo, batch>>
      BY <1>13, <2>2 DEF LookUp, fileVars, workVars
    <3>3. step \in Step /\ step \notin Idle /\ step # "load"
      BY <3>1 DEF Step, Idle
    <3>. QED BY <2>0, <3>1, <3>2, <3>3, QuietStep
  <2>. QED BY <2>1, <2>2
<1>14. ASSUME NEW p \in Saver, SaveRelease(p) PROVE CalmInv'
  <2>0. pc[p] \notin Idle /\ pc[p] # "load"
    BY <1>14 DEF SaveRelease, Idle
  <2>1. PICK step \in {"defer", "details"} : Goto(p, step)
    BY <1>14 DEF SaveRelease
  <2>2. UNCHANGED <<clock, dir, mtime, complete, lock, now, seen, newest, todo, batch>>
    BY <1>14 DEF SaveRelease, fileVars, workVars
  <2>3. step \in Step /\ step \notin Idle /\ step # "load"
    BY <2>1 DEF Step, Idle
  <2>. QED BY <2>0, <2>1, <2>2, <2>3, QuietStep
<1>15. ASSUME NEW p \in Saver, SaveDetails(p) PROVE CalmInv'
  <2>0. pc[p] \notin Idle /\ pc[p] # "load"
    BY <1>15 DEF SaveDetails, Idle
  <2>1. PICK step \in {"flush"} : Goto(p, step)
    BY <1>15 DEF SaveDetails
  <2>2. UNCHANGED <<clock, dir, mtime, complete, lock, now, seen, newest, todo, batch>>
    BY <1>15 DEF SaveDetails, fileVars, workVars
  <2>3. step \in Step /\ step \notin Idle /\ step # "load"
    BY <2>1 DEF Step, Idle
  <2>. QED BY <2>0, <2>1, <2>2, <2>3, QuietStep
<1>16. ASSUME NEW p \in Saver, Commit(p) PROVE CalmInv'
  <2>0. pc[p] \notin Idle /\ pc[p] # "load"
    BY <1>16 DEF Commit, Idle
  <2>1. CASE Unlock(p)
    BY <2>0, <2>1, UnlockCalm DEF Idle
  <2>2. CASE ~Unlock(p)
    <3>1. PICK step \in {"postflush", "keep"} : Goto(p, step)
      BY <1>16, <2>2 DEF Commit
    <3>2. UNCHANGED <<clock, dir, mtime, complete, lock, now, seen, newest, todo, batch>>
      BY <1>16, <2>2 DEF Commit, fileVars, workVars
    <3>3. step \in Step /\ step \notin Idle /\ step # "load"
      BY <3>1 DEF Step, Idle
    <3>. QED BY <2>0, <3>1, <3>2, <3>3, QuietStep
  <2>. QED BY <2>1, <2>2
<1>17. ASSUME NEW p \in Saver, PostFlush(p) PROVE CalmInv'
  <2>0. pc[p] \notin Idle /\ pc[p] # "load"
    BY <1>17 DEF PostFlush, Idle
  <2>1. PICK step \in {"keep", "defer"} : Goto(p, step)
    BY <1>17 DEF PostFlush
  <2>2. UNCHANGED <<clock, dir, mtime, complete, lock, now, seen, newest, todo, batch>>
    BY <1>17 DEF PostFlush, fileVars, workVars
  <2>3. step \in Step /\ step \notin Idle /\ step # "load"
    BY <2>1 DEF Step, Idle
  <2>. QED BY <2>0, <2>1, <2>2, <2>3, QuietStep
<1>18. ASSUME NEW p \in Saver, NEW step \in {"keep", "defer"}, NEW target \in {"saved", "deferred"},
              Move(p, step, target)
       PROVE  CalmInv'
  <2>1. PICK f \in group[p] : /\ Rename(f, target)
                              /\ batch' = [batch EXCEPT ![p] = @ \ {f}]
    BY <1>18 DEF Move
  <2>2. /\ pc[p] = step /\ UNCHANGED <<clock, mtime, complete, lock, now, seen, newest, todo>>
    BY <1>18 DEF Move
  <2>3. PICK next \in {"next", step} : Goto(p, next)
    BY <1>18 DEF Move
  <2>4. next \in Step /\ next \notin Idle /\ todo'[p] = {}
    BY <1>0, <2>2, <2>3 DEF Step, Idle, FilesInv
  <2>5. f \in File /\ f \in Mine(p) /\ batch'[p] = batch[p] \ {f}
    BY <2>1, Times DEF Mine
  <2>6. \A q \in Saver \ {p} : todo'[q] = todo[q] /\ batch'[q] = batch[q]
    BY <2>1, <2>2, Times
  <2>7. Mine(p)' \subseteq Mine(p) /\ todo'[p] \cap batch'[p] = {}
    BY <1>0, <2>2, <2>5 DEF Mine, FilesInv, Idle
  <2>8. \A q \in Saver : f \notin batch'[q]
    BY <1>9, <2>5, <2>6 DEF DisjointBatches, Mine
  <2>9. \A g \in File \ {f} : dir'[g] = dir[g]
    BY <2>1, Times DEF Rename
  <2>10. dir'[f] = "none" <=> dir[f] = "none"
    BY <2>1, <2>5, Times DEF Rename
  <2>11. \A q \in Saver : batch'[q] \subseteq batch[q]
    BY <2>5, <2>6
  <2>12. \A q \in Saver : \A g \in batch'[q] : dir'[g] = "incoming"
    <3>1. \A q \in Saver : \A g \in batch[q] : dir[g] = "incoming" /\ g \in File
      BY <1>0, Times DEF FilesInv, Idle
    <3>. QED BY <2>8, <2>9, <2>11, <3>1
  <2>13. pc[p] \notin Idle
    BY <2>2 DEF Idle
  <2>14. \A g \in File : dir'[g] = "none" <=> dir[g] = "none"
    BY <2>9, <2>10
  <2>. QED BY <2>2, <2>3, <2>4, <2>6, <2>7, <2>12, <2>13, <2>14, WorkStep
<1>19. ASSUME NEW p \in Saver, Finish(p) PROVE CalmInv'
  <2>1. /\ pc[p] \in {"load", "next"} /\ pc'[p] = "attach"
        /\ \A q \in Saver \ {p} : pc'[q] = pc[q] /\ lock'[q] = lock[q]
        /\ todo[p] = {} /\ batch[p] = {}
        /\ UNCHANGED <<clock, dir, mtime, complete, now, seen, newest, todo, batch>>
    BY <1>0, <1>19, Times DEF Finish, Goto, fileVars, workVars, FilesInv, Idle
  <2>2. TimesInv' /\ LockInv'
    BY <1>0, <2>1 DEF TimesInv, LockInv, Locked, Sec
  <2>3. NewestInv' /\ FilesInv'
    BY <1>0, <2>1 DEF NewestInv, FilesInv, Locked, Mine, Idle
  <2>. QED BY <2>2, <2>3 DEF CalmInv
<1>22. ASSUME NEW p \in Saver, SaveAttachments(p) PROVE CalmInv'
  BY <1>22, DropCalm DEF SaveAttachments
<1>20. ASSUME NEW p \in Saver, Terminate(p) \/ Kill(p) PROVE CalmInv'
  <2>1. pc[p] # "new"
    BY <1>20 DEF Terminate, Kill, Stop
  <2>2. CASE Terminate(p)
    BY <2>1, <2>2, UnlockCalm DEF Terminate
  <2>3. CASE Kill(p)
    BY <2>1, <2>3, DropCalm DEF Kill, Leave
  <2>. QED BY <1>20, <2>2, <2>3
<1>21. CASE UNCHANGED vars
  <2>1. UNCHANGED <<clock, dir, mtime, complete, lock, pc, now, seen, newest, todo, batch>>
    BY <1>21 DEF vars, fileVars, runVars, workVars
  <2>2. TimesInv' /\ LockInv'
    BY <1>0, <2>1 DEF TimesInv, LockInv, Locked, Sec
  <2>3. NewestInv' /\ FilesInv'
    BY <1>0, <2>1 DEF NewestInv, FilesInv, Locked, Mine, Idle
  <2>. QED BY <2>2, <2>3 DEF CalmInv
<1>. QED
  BY <1>1, <1>2, <1>3, <1>4, <1>5, <1>6, <1>7, <1>8, <1>10, <1>11, <1>12, <1>13, <1>14,
     <1>15, <1>16, <1>17, <1>18, <1>19, <1>20, <1>21, <1>22 DEF Next, MoveToSaved, MoveToDeferred

\* An idle system has no windows.
LEMMA CalmInit == Init => CalmInv
<1>. SUFFICES ASSUME Init PROVE CalmInv
  OBVIOUS
<1>1. TimesInv /\ LockInv /\ NewestInv
  BY DEF Init, TimesInv, LockInv, NewestInv, Locked
<1>2. FilesInv
  BY DEF Init, FilesInv, Mine, Idle
<1>. QED BY <1>1, <1>2 DEF CalmInv

\* Runs that overlap never have a file in common, as long as they do not begin
\* in one second, have their locks in the second they began, and files are
\* written within a tick.
THEOREM DisjointBatchesWhenCalm == Calm /\ Spec => []DisjointBatches
<1>. SUFFICES ASSUME Calm PROVE Spec => []DisjointBatches
  OBVIOUS
<1>1. SpeedupAssumption /\ StoreAssumption
  BY SpeedupAssumption, StoreAssumption
<1>2. TypeInv /\ [Next]_vars => TypeInv'
  BY <1>1, TypeNext
<1>3. TypeInv /\ CalmInv /\ [Next]_vars => CalmInv'
  BY <1>1, CalmNext
<1>4. TypeInv /\ CalmInv => DisjointBatches
  BY <1>1, ApartIsDisjoint
<1>. QED BY <1>2, <1>3, <1>4, TypeInit, CalmInit, PTL DEF Spec

-----------------------------------------------------------------------------
(* A file is counted again only if the run that counted it was stopped     *)
(* before it renamed it.                                                   *)

Flushed == {"postflush", "keep", "defer"}

\* The flush of a file is behind some run, or the file is nobody's business.
Settled(f) ==
  \/ dir[f] \in {"saved", "deferred"}
  \/ \E p \in Saver : f \in group[p] /\ pc[p] \in Flushed

StoppedRuns == {p \in Saver : stopped[p] # "no"}

\* Each count beyond the first is the work of a run that was stopped.
CountInv ==
  /\ IsFiniteSet(StoppedRuns)
  /\ \A p \in StoppedRuns : pc[p] = "done"
  /\ \A f \in File : commits[f] <= 1 + Cardinality(StoppedRuns)
  /\ \A f \in File : ~Settled(f) => commits[f] <= Cardinality(StoppedRuns)

\* A step that counts nothing and settles what was settled.
LEMMA CountStays ==
  ASSUME TypeInv, CountInv, UNCHANGED <<commits, stopped>>,
         \A f \in File : Settled(f) => Settled(f)',
         \A p \in Saver : pc[p] = "done" => pc'[p] = "done"
  PROVE  CountInv'
<1>1. StoppedRuns' = StoppedRuns
  BY DEF StoppedRuns
<1>2. Cardinality(StoppedRuns)' = Cardinality(StoppedRuns)
  BY <1>1
<1>3. StoppedRuns \subseteq Saver
  BY DEF StoppedRuns
<1>. QED BY <1>1, <1>2, <1>3 DEF CountInv

\* A step of a run that has no flush behind it, and after which files that left
\* incoming are still where they are.
LEMMA BeforeFlush ==
  ASSUME TypeInv, CountInv, UNCHANGED <<commits, stopped>>, NEW p \in Saver,
         pc[p] \notin Flushed, pc[p] # "done",
         \A q \in Saver \ {p} : pc'[q] = pc[q] /\ group'[q] = group[q],
         \A f \in File : dir[f] \in {"saved", "deferred"} => dir'[f] = dir[f]
  PROVE  CountInv'
<1>1. \A f \in File : Settled(f) => Settled(f)'
  BY DEF Settled
<1>2. \A q \in Saver : pc[q] = "done" => pc'[q] = "done"
  OBVIOUS
<1>. QED BY <1>1, <1>2, CountStays

\* A run that releases its lock counts nothing.
LEMMA UnlockCount ==
  ASSUME TypeInv, CountInv, UNCHANGED stopped, NEW p \in Saver, Unlock(p),
         pc[p] \notin Flushed, pc[p] # "done"
  PROVE  CountInv'
<1>1. \A q \in Saver \ {p} : pc'[q] = pc[q] /\ group'[q] = group[q]
  BY DEF Unlock, Leave, Drop, Goto, TypeInv, TypeOK
<1>2. UNCHANGED <<commits, dir>>
  BY DEF Unlock, Leave, Drop, fileVars
<1>. QED BY <1>1, <1>2, BeforeFlush

\* One more run is stopped.
LEMMA StopCount ==
  ASSUME SpeedupAssumption, TypeInv, CountInv, NEW p \in Saver, NEW signal \in {"term", "kill"},
         Stop(p, signal), Leave(p)
  PROVE  CountInv'
<1>0. commits' = commits /\ \A f \in File : commits[f] \in Nat
  BY DEF Leave, Drop, TypeInv, TypeOK
<1>1. stopped' = [stopped EXCEPT ![p] = signal] /\ pc[p] # "done"
  BY DEF Stop
<1>2. StoppedRuns' = StoppedRuns \cup {p} /\ p \notin StoppedRuns
  BY <1>1 DEF StoppedRuns, TypeInv, TypeOK, CountInv
<1>3. /\ IsFiniteSet(StoppedRuns)' /\ Cardinality(StoppedRuns) \in Nat
      /\ Cardinality(StoppedRuns)' = Cardinality(StoppedRuns) + 1
  BY <1>2, FS_AddElement, FS_CardinalityType DEF CountInv
<1>4. \A q \in StoppedRuns' : pc'[q] = "done"
  BY <1>2 DEF Leave, Drop, Goto, CountInv, TypeInv, TypeOK, StoppedRuns
<1>5. \A f \in File : commits'[f] <= Cardinality(StoppedRuns)'
  BY <1>0, <1>3 DEF CountInv
<1>6. \A f \in File : commits'[f] <= 1 + Cardinality(StoppedRuns)'
  BY <1>0, <1>3, <1>5
<1>. QED BY <1>3, <1>4, <1>5, <1>6 DEF CountInv

\* Every step keeps the bound on the counts.
LEMMA CountNext ==
  ASSUME SpeedupAssumption, Calm, TypeInv, CalmInv, CountInv, [Next]_vars
  PROVE  CountInv'
<1>0. /\ DisjointBatches /\ FilesInv
      /\ \A p \in Saver : group[p] \subseteq batch[p] /\ batch[p] \subseteq File
  BY ApartIsDisjoint, Times DEF CalmInv
<1>t. /\ group \in [Saver -> SUBSET File] /\ batch \in [Saver -> SUBSET File]
      /\ pc \in [Saver -> Step] /\ dir \in [File -> {"none", "incoming", "saved", "deferred"}]
      /\ commits \in [File -> Nat]
  BY DEF TypeInv, TypeOK
<1>1. CASE Tick
  BY <1>1, CountStays DEF Tick, fileVars, runVars, workVars, Settled
<1>2. ASSUME NEW f \in File, Submit(f) PROVE CountInv'
  <2>1. /\ \A g \in File : dir[g] \in {"saved", "deferred"} => dir'[g] = dir[g]
        /\ UNCHANGED <<pc, group, commits, stopped>>
    BY <1>2, <1>t DEF Submit, runVars, workVars
  <2>. QED BY <2>1, CountStays DEF Settled
<1>3. ASSUME NEW f \in File, FinishWriting(f) PROVE CountInv'
  BY <1>3, CountStays DEF FinishWriting, runVars, workVars, Settled
<1>4. ASSUME NEW p \in Saver, Begin(p) \/ CreateLock(p) \/ ListLocks(p) PROVE CountInv'
  <2>1. /\ \A q \in Saver \ {p} : pc'[q] = pc[q] /\ group'[q] = group[q]
        /\ UNCHANGED <<dir, commits, stopped>> /\ pc[p] \notin Flushed /\ pc[p] # "done"
    BY <1>4, <1>t DEF Begin, CreateLock, ListLocks, Goto, fileVars, workVars, Flushed
  <2>. QED BY <2>1, BeforeFlush
<1>5. ASSUME NEW p \in Saver, ExamineLock(p) PROVE CountInv'
  <2>1. pc[p] \notin Flushed /\ pc[p] # "done"
    BY <1>5 DEF ExamineLock, Flushed
  <2>2. CASE Unlock(p) /\ UNCHANGED stopped
    BY <2>1, <2>2, UnlockCount
  <2>3. CASE UNCHANGED <<fileVars, pc, workVars, stopped, commits>>
    BY <2>3, CountStays DEF fileVars, workVars, Settled
  <2>. QED BY <1>5, <2>2, <2>3 DEF ExamineLock
<1>6. ASSUME NEW p \in Saver, ListFiles(p) PROVE CountInv'
  <2>1. /\ \A q \in Saver \ {p} : pc'[q] = pc[q] /\ group'[q] = group[q]
        /\ UNCHANGED <<dir, commits, stopped>> /\ pc[p] \notin Flushed /\ pc[p] # "done"
    BY <1>6, <1>t DEF ListFiles, Goto, fileVars, Flushed
  <2>. QED BY <2>1, BeforeFlush
<1>7. ASSUME NEW p \in Saver, LoadFile(p) PROVE CountInv'
  <2>1. /\ UNCHANGED <<pc, group, commits, stopped>> /\ pc[p] \notin Flushed /\ pc[p] # "done"
        /\ \A f \in File : dir[f] \in {"saved", "deferred"} => dir'[f] = dir[f]
    BY <1>7, <1>t DEF LoadFile, Rename, Flushed
  <2>. QED BY <2>1, BeforeFlush
<1>8. ASSUME NEW p \in Saver, NextGroup(p) PROVE CountInv'
  <2>1. /\ \A q \in Saver \ {p} : pc'[q] = pc[q] /\ group'[q] = group[q]
        /\ UNCHANGED <<dir, commits, stopped>> /\ pc[p] \notin Flushed /\ pc[p] # "done"
    BY <1>8, <1>t DEF NextGroup, Goto, fileVars, Flushed
  <2>. QED BY <2>1, BeforeFlush
<1>9. ASSUME NEW p \in Saver, RecordOpsys(p) \/ LookUp(p) PROVE CountInv'
  <2>1. pc[p] \notin Flushed /\ pc[p] # "done"
    BY <1>9 DEF RecordOpsys, LookUp, Flushed
  <2>2. CASE Unlock(p) /\ UNCHANGED stopped
    BY <2>1, <2>2, UnlockCount
  <2>3. CASE ~(Unlock(p) /\ UNCHANGED stopped)
    <3>1. /\ \A q \in Saver \ {p} : pc'[q] = pc[q] /\ group'[q] = group[q]
          /\ UNCHANGED <<dir, commits, stopped>>
      BY <1>9, <1>t, <2>3 DEF RecordOpsys, LookUp, Goto, fileVars, workVars
    <3>. QED BY <2>1, <3>1, BeforeFlush
  <2>. QED BY <2>2, <2>3
<1>10. ASSUME NEW p \in Saver, SaveRelease(p) \/ SaveDetails(p) PROVE CountInv'
  <2>1. /\ \A q \in Saver \ {p} : pc'[q] = pc[q] /\ group'[q] = group[q]
        /\ UNCHANGED <<dir, commits, stopped>> /\ pc[p] \notin Flushed /\ pc[p] # "done"
    BY <1>10, <1>t DEF SaveRelease, SaveDetails, Goto, fileVars, workVars, Flushed
  <2>. QED BY <2>1, BeforeFlush
<1>11. ASSUME NEW p \in Saver, Commit(p) PROVE CountInv'
  <2>1. CASE Unlock(p) /\ UNCHANGED stopped
    BY <1>11, <2>1, UnlockCount DEF Commit, Flushed
  <2>2. CASE ~(Unlock(p) /\ UNCHANGED stopped)
    <3>1. /\ commits' = [f \in File |-> IF f \in group[p] THEN commits[f] + 1 ELSE commits[f]]
          /\ UNCHANGED <<dir, group, stopped>>
      BY <1>11, <2>2 DEF Commit, fileVars, workVars
    <3>2. /\ pc'[p] \in Flushed /\ \A q \in Saver \ {p} : pc'[q] = pc[q]
          /\ pc[p] = "flush"
      BY <1>11, <1>t, <2>2 DEF Commit, Goto, Flushed
    <3>3. ASSUME NEW f \in group[p] PROVE ~Settled(f)
      <4>1. f \in batch[p] /\ dir[f] = "incoming"
        BY <1>0 DEF FilesInv, Idle
      <4>2. \A q \in Saver : f \in group[q] => q = p
        BY <1>0, <4>1 DEF DisjointBatches, Mine
      <4>. QED BY <3>2, <4>1, <4>2 DEF Settled, Flushed
    <3>4. StoppedRuns' = StoppedRuns /\ Cardinality(StoppedRuns)' = Cardinality(StoppedRuns)
      BY <3>1 DEF StoppedRuns
    <3>5. Cardinality(StoppedRuns) \in Nat
      BY FS_CardinalityType DEF CountInv
    <3>6. ASSUME NEW f \in File
          PROVE  /\ commits'[f] <= 1 + Cardinality(StoppedRuns)
                 /\ ~Settled(f)' => commits'[f] <= Cardinality(StoppedRuns)
      <4>1. CASE f \in group[p]
        <5>1. commits'[f] = commits[f] + 1 /\ commits[f] <= Cardinality(StoppedRuns)
          BY <3>1, <3>3, <4>1 DEF CountInv
        <5>2. Settled(f)'
          BY <3>1, <3>2, <4>1 DEF Settled
        <5>. QED BY <1>t, <3>5, <5>1, <5>2
      <4>2. CASE f \notin group[p]
        <5>1. commits'[f] = commits[f]
          BY <3>1, <4>2
        <5>2. Settled(f) => Settled(f)'
          BY <3>1, <3>2, <4>2 DEF Settled
        <5>. QED BY <5>1, <5>2 DEF CountInv
      <4>. QED BY <4>1, <4>2
    <3>7. \A q \in StoppedRuns : pc'[q] = "done"
      BY <3>2 DEF CountInv, StoppedRuns
    <3>. QED BY <3>4, <3>6, <3>7 DEF CountInv
  <2>. QED BY <2>1, <2>2
<1>12. ASSUME NEW p \in Saver, PostFlush(p) PROVE CountInv'
  <2>1. /\ pc'[p] \in Flushed /\ \A q \in Saver \ {p} : pc'[q] = pc[q]
        /\ UNCHANGED <<dir, group, commits, stopped>> /\ pc[p] = "postflush"
    BY <1>12, <1>t DEF PostFlush, Goto, fileVars, workVars, Flushed
  <2>2. \A f \in File : Settled(f) => Settled(f)'
    BY <2>1 DEF Settled
  <2>. QED BY <2>1, <2>2, CountStays
<1>13. ASSUME NEW p \in Saver, NEW step \in {"keep", "defer"}, NEW target \in {"saved", "deferred"},
              Move(p, step, target)
       PROVE  CountInv'
  <2>1. PICK f \in group[p] : Rename(f, target) /\ group' = [group EXCEPT ![p] = @ \ {f}]
    BY <1>13 DEF Move
  <2>2. /\ group'[p] = group[p] \ {f} /\ \A q \in Saver \ {p} : group'[q] = group[q]
        /\ UNCHANGED <<commits, stopped>> /\ pc[p] = step
    BY <1>13, <1>t, <2>1 DEF Move
  <2>3. /\ group'[p] # {} => pc'[p] = step
        /\ \A q \in Saver \ {p} : pc'[q] = pc[q]
    BY <1>13, <1>t DEF Move, Goto
  <2>4. f \in File /\ dir[f] = "incoming"
    BY <1>0, <2>1 DEF FilesInv, Idle
  <2>5. dir'[f] = target /\ \A g \in File \ {f} : dir'[g] = dir[g]
    BY <1>t, <2>1, <2>4 DEF Rename
  <2>6. ASSUME NEW g \in File, Settled(g) PROVE Settled(g)'
    <3>1. CASE g = f \/ dir[g] \in {"saved", "deferred"}
      BY <2>5, <3>1 DEF Settled
    <3>2. ASSUME g # f, NEW q \in Saver, g \in group[q], pc[q] \in Flushed
          PROVE  Settled(g)'
      <4>1. g \in group'[q] /\ pc'[q] \in Flushed
        BY <2>2, <2>3, <3>2
      <4>. QED BY <4>1 DEF Settled
    <3>. QED BY <2>6, <3>1, <3>2 DEF Settled
  <2>7. \A q \in Saver : pc[q] = "done" => pc'[q] = "done"
    BY <2>2, <2>3
  <2>. QED BY <2>2, <2>6, <2>7, CountStays
<1>14. ASSUME NEW p \in Saver, Finish(p) \/ SaveAttachments(p) PROVE CountInv'
  <2>1. /\ \A q \in Saver \ {p} : pc'[q] = pc[q] /\ group'[q] = group[q]
        /\ UNCHANGED <<dir, commits, stopped>> /\ pc[p] \notin Flushed /\ pc[p] # "done"
    BY <1>14, <1>t DEF Finish, SaveAttachments, Drop, Goto, fileVars, workVars, Flushed
  <2>. QED BY <2>1, BeforeFlush
<1>15. ASSUME NEW p \in Saver, Terminate(p) \/ Kill(p) PROVE CountInv'
  BY <1>15, StopCount DEF Terminate, Kill, Unlock
<1>16. CASE UNCHANGED vars
  BY <1>16, CountStays DEF vars, fileVars, runVars, workVars, Settled
<1>. QED
  BY <1>1, <1>2, <1>3, <1>4, <1>5, <1>6, <1>7, <1>8, <1>9, <1>10, <1>11, <1>12, <1>13,
     <1>14, <1>15, <1>16 DEF Next, MoveToSaved, MoveToDeferred

\* At first nothing is counted.
LEMMA CountInit == Init => CountInv
<1>. SUFFICES ASSUME Init PROVE CountInv
  OBVIOUS
<1>1. StoppedRuns = {}
  BY DEF Init, StoppedRuns
<1>2. IsFiniteSet(StoppedRuns) /\ Cardinality(StoppedRuns) = 0
  BY <1>1, FS_EmptySet
<1>. QED BY <1>1, <1>2 DEF Init, CountInv

\* As long as runs are calm, a file is counted at most once more than runs were
\* ended by a signal, however many of them are at work at once.
THEOREM CountedOncePerStopWhenCalm == Calm /\ Spec => []CountedOncePerStop
<1>. SUFFICES ASSUME Calm PROVE Spec => []CountedOncePerStop
  OBVIOUS
<1>1. SpeedupAssumption /\ StoreAssumption
  BY SpeedupAssumption, StoreAssumption
<1>2. TypeInv /\ [Next]_vars => TypeInv'
  BY <1>1, TypeNext
<1>3. TypeInv /\ CalmInv /\ [Next]_vars => CalmInv'
  BY <1>1, CalmNext
<1>4. TypeInv /\ CalmInv /\ CountInv /\ [Next]_vars => CountInv'
  BY <1>1, CountNext
<1>5. CountInv => CountedOncePerStop
  BY DEF CountInv, CountedOncePerStop, StoppedRuns
<1>. QED BY <1>2, <1>3, <1>4, <1>5, TypeInit, CalmInit, CountInit, PTL DEF Spec
=============================================================================
