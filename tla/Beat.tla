--------------------------------- MODULE Beat ---------------------------------
(***************************************************************************)
(* Celery's beat with the scheduler that keeps periodic tasks in the       *)
(* database (pyfaf/celery_tasks/schedulers.py), while administrators edit  *)
(* them in the web application (webfaf/blueprints/celery_tasks.py).  Time  *)
(* is counted in periods: a task is due if it did not run in this one.     *)
(*                                                                         *)
(* beat works on one session: the rows it has loaded are copies which a    *)
(* commit makes it forget, and what it has flushed stays locked until then. *)
(***************************************************************************)
EXTENDS Integers

CONSTANTS
  Task,      \* rows of periodic tasks
  MaxPeriod  \* bound of time

VARIABLES
  clock,
  periodic,  \* each row as committed: whether it is there, enabled, and last_run_at
  up,        \* whether beat runs
  entries,   \* its schedule, as it read the rows
  copies,    \* the rows as its session holds them
  locked,    \* rows that it has updated and not committed
  sent,      \* how often each task was sent in this period
  forgotten  \* tasks whose last run beat lost in this period

beatVars == <<clock, periodic, up, entries, copies, locked, sent, forgotten>>

Never == -1
Entry == [in : BOOLEAN, on : BOOLEAN, last : Nat \cup {Never}]
Copy == [in : BOOLEAN, on : BOOLEAN, last : Nat \cup {Never}, dirty : BOOLEAN]
NoEntry == [in |-> FALSE, on |-> FALSE, last |-> Never]
NoCopy == [in |-> FALSE, on |-> FALSE, last |-> Never, dirty |-> FALSE]
Row == [state : {"new", "there", "gone"}, on : BOOLEAN, last : Nat \cup {Never}]

BeatInit ==
  /\ clock = 0 /\ periodic = [t \in Task |-> [state |-> "new", on |-> TRUE, last |-> Never]]
  /\ up = FALSE /\ entries = [t \in Task |-> NoEntry] /\ copies = [t \in Task |-> NoCopy] /\ locked = {}
  /\ sent = [t \in Task |-> 0] /\ forgotten = {}

Gone(t) == periodic[t].state = "gone"
Dirty == {t \in Task : copies[t].dirty}

-----------------------------------------------------------------------------
(* beat. *)
StartBeat ==
  /\ ~up /\ up' = TRUE /\ entries' = [t \in Task |-> NoEntry] /\ copies' = [t \in Task |-> NoCopy]
  /\ UNCHANGED <<clock, periodic, locked, sent, forgotten>>

\* What was not committed is lost.
Die ==
  /\ up' = FALSE /\ entries' = [t \in Task |-> NoEntry] /\ copies' = [t \in Task |-> NoCopy] /\ locked' = {}
  /\ forgotten' = forgotten \cup {t \in Dirty \cup locked : sent[t] > 0}
  /\ UNCHANGED <<clock, periodic, sent>>
KillBeat == up /\ Die

\* Mutant: the rows are read again although the session has newer copies.
RowAnew(t) == [in |-> TRUE, on |-> periodic[t].on, last |-> periodic[t].last, dirty |-> FALSE]
\* A row that the session holds is not read again.
RowHeld(t) == IF copies[t].in THEN copies[t] ELSE [in |-> TRUE, on |-> periodic[t].on, last |-> periodic[t].last, dirty |-> FALSE]
AsEntry(copy) == [in |-> TRUE, on |-> copy.on, last |-> copy.last]
\* A task that never ran counts as run now, so that it is not due at once.
Counted(copy) == IF copy.last = Never THEN [copy EXCEPT !.last = clock, !.dirty = TRUE] ELSE [copy EXCEPT !.dirty = FALSE]

\* The query flushes first; an update of a row that is gone ends beat.
Refresh ==
  /\ up
  /\ IF \E t \in Dirty : Gone(t) THEN Die
     ELSE /\ locked' = locked \cup Dirty
          /\ copies' = [t \in Task |-> IF periodic[t].state = "there" THEN Counted(RowHeld(t)) ELSE NoCopy]
          /\ entries' = [t \in Task |-> IF periodic[t].state = "there" THEN AsEntry(Counted(RowHeld(t))) ELSE NoEntry]
          /\ UNCHANGED <<clock, periodic, up, sent, forgotten>>

\* The new entry is made before the task is sent, and stays if that fails.
Send(t) ==
  /\ up /\ entries[t].in /\ entries[t].on /\ entries[t].last < clock
  /\ IF ~copies[t].in /\ Gone(t) THEN Die
     ELSE /\ copies' = [copies EXCEPT ![t] = [RowHeld(t) EXCEPT !.last = clock, !.dirty = TRUE]]
          /\ entries' = [entries EXCEPT ![t] = [AsEntry(RowHeld(t)) EXCEPT !.last = clock]]
          /\ (sent' = sent \/ sent' = [sent EXCEPT ![t] = @ + 1])
          /\ UNCHANGED <<clock, periodic, up, locked, forgotten>>

\* Each entry looks at its row, which is never older than the entry, then
\* everything is committed and forgotten.
Committed(t) == IF t \in Dirty \cup locked THEN [periodic[t] EXCEPT !.last = copies[t].last] ELSE periodic[t]
SyncFails == \E t \in Task : Gone(t) /\ entries[t].in /\ (~copies[t].in \/ copies[t].dirty)
Sync(stop) ==
  /\ up
  /\ IF SyncFails THEN Die
     ELSE /\ periodic' = [t \in Task |-> Committed(t)]
          /\ copies' = [t \in Task |-> NoCopy] /\ locked' = {}
          /\ up' = ~stop /\ entries' = IF stop THEN [t \in Task |-> NoEntry] ELSE entries
          /\ UNCHANGED <<clock, sent, forgotten>>

BeatStep == StartBeat \/ KillBeat \/ Refresh \/ (\E t \in Task : Send(t)) \/ \E stop \in BOOLEAN : Sync(stop)

-----------------------------------------------------------------------------
(* Administrators, who wait for rows that beat has locked, and time. *)
AddTask(t) ==
  /\ periodic[t].state = "new" /\ \E on \in BOOLEAN : periodic' = [periodic EXCEPT ![t] = [state |-> "there", on |-> on, last |-> Never]]
  /\ UNCHANGED <<clock, up, entries, copies, locked, sent, forgotten>>
EditTask(t) ==
  /\ periodic[t].state = "there" /\ t \notin locked /\ periodic' = [periodic EXCEPT ![t].on = ~@]
  /\ UNCHANGED <<clock, up, entries, copies, locked, sent, forgotten>>
DeleteTask(t) ==
  /\ periodic[t].state = "there" /\ t \notin locked /\ periodic' = [periodic EXCEPT ![t].state = "gone"]
  /\ UNCHANGED <<clock, up, entries, copies, locked, sent, forgotten>>
Tick ==
  /\ clock < MaxPeriod /\ clock' = clock + 1 /\ sent' = [t \in Task |-> 0] /\ forgotten' = {}
  /\ UNCHANGED <<periodic, up, entries, copies, locked>>

BeatNext == BeatStep \/ Tick \/ \E t \in Task : AddTask(t) \/ EditTask(t) \/ DeleteTask(t)
BeatSpec == BeatInit /\ [][BeatNext]_beatVars

\* A task is sent at most once in a period, unless beat ended in it without
\* committing when the task ran last (schedulers.py, DBScheduler,
\* DBScheduleEntry).
SentOncePerDue == \A t \in Task : sent[t] <= 1 \/ t \in forgotten

BeatTypeOK ==
  /\ clock \in Nat /\ periodic \in [Task -> Row] /\ up \in BOOLEAN
  /\ entries \in [Task -> Entry] /\ copies \in [Task -> Copy] /\ locked \subseteq Task
  /\ sent \in [Task -> Nat] /\ forgotten \subseteq Task
\* What is not there yet was never sent, only a running beat holds anything, and
\* what is locked is there.
Sound(t) ==
  /\ periodic[t].state = "new" => sent[t] = 0 /\ ~entries[t].in /\ ~copies[t].in
  /\ ~up => ~entries[t].in /\ ~copies[t].in
  /\ t \in Dirty \cup locked => copies[t].in
  /\ t \in locked => periodic[t].state = "there"
\* Wherever beat looks, a task that was sent and is not forgotten ran just now.
Remembered(t) ==
  sent[t] > 0 /\ t \notin forgotten =>
    /\ sent[t] = 1
    /\ entries[t].in => entries[t].last = clock
    /\ copies[t].in => copies[t].last = clock
    /\ t \notin Dirty \cup locked => periodic[t].last = clock \/ Gone(t)
BeatInv == BeatTypeOK /\ \A t \in Task : Sound(t) /\ Remembered(t)
==============================================================================
