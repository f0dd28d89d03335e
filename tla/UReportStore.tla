----------------------------- MODULE UReportStore -----------------------------
(***************************************************************************)
(* The report tables of FAF's database and the way a save-reports process  *)
(* writes them: pyfaf/ureport.py (save_ureport2) over an SQLAlchemy        *)
(* session opened with autoflush off and autocommit on                     *)
(* (pyfaf/storage/__init__.py), the lob files of kernel oopses             *)
(* (storage/generic_table.py, problemtypes/kerneloops.py).                 *)
(*                                                                         *)
(* A Report row and its ReportHash row are written together, so one        *)
(* function, hashOf, stands for both.  Nothing in the schema makes a hash  *)
(* unique: the key of reporthashes is the pair (hash, report_id).          *)
(*                                                                         *)
(* Columns are told apart by what updates them together: Report.count;     *)
(* ReportOpSysRelease.count; and the counts of the rows written after the  *)
(* architecture check (arch, reason, history, packages), of which one      *)
(* representative per release is kept.                                     *)
(***************************************************************************)
EXTENDS Naturals, FiniteSets

CONSTANTS
  Saver,        \* save-reports processes
  ReportId,     \* primary keys of reports, handed out in increasing order
  Hash,         \* report hashes
  KernelHash,   \* the hashes of kerneloops uReports, whose oops goes to a lob
  Release,      \* operating system releases known to the database
  NoHash,       \* "no such row"
  NoReport      \* "no report"

ASSUME StoreAssumption ==
  /\ ReportId \subseteq Nat
  /\ KernelHash \subseteq Hash
  /\ NoHash \notin Hash
  /\ NoReport \notin ReportId

\* What validation and the look-ups of a save make of a uReport, in the order
\* in which they would object.
\*   invalid      validate() raises FafError
\*   unknownOs    the same, and the operating system has no plugin
\*   noRelease    the release is not in the database
\*   unsafe       passes validate(), yet a later step reads a key that the
\*                checker left optional and raises KeyError
\*   noComponent  the component is not in the database (and may not be made)
\*   noArch       the architecture is not in the database
\*   bigOops      raw_oops fits the checker's limit in characters, not in bytes
Verdict == {"invalid", "unknownOs", "noRelease", "unsafe", "noComponent",
            "noArch", "bigOops", "ok"}

UReport == [hash : Hash, release : Release, verdict : Verdict]

ReportCounter(i) == <<"report", i>>
ReleaseCounter(i, r) == <<"release", i, r>>
DetailCounter(i, r) == <<"detail", i, r>>

ReportCounters == {ReportCounter(i) : i \in ReportId}
RowCounters == {ReleaseCounter(i, r) : i \in ReportId, r \in Release}
                 \cup {DetailCounter(i, r) : i \in ReportId, r \in Release}
Counter == ReportCounters \cup RowCounters

VARIABLES
  hashOf,       \* committed Report and ReportHash rows
  tally,        \* committed counts; a RowCounter at 0 has no row
  traced,       \* reports that have a ReportBacktrace row
  oops,         \* the "oops" lob file of each report
  unknownOpsys, \* UnknownOpSys.count
  session,      \* what each process has added or changed and not flushed
  addLob        \* KerneloopsProblem.add_lob, the plugin's memory

storeVars == <<hashOf, tally, traced, oops, unknownOpsys, session, addLob>>

Session == [new    : [ReportId -> Hash \cup {NoHash}],
            loaded : SUBSET ReportId,
            base   : [Counter -> Nat],
            added  : [Counter -> Nat],
            traced : SUBSET ReportId,
            clash  : BOOLEAN]

\* A session right after it was opened or flushed.
CleanSession == [new    |-> [i \in ReportId |-> NoHash],
                 loaded |-> {},
                 base   |-> [c \in Counter |-> 0],
                 added  |-> [c \in Counter |-> 0],
                 traced |-> {},
                 clash  |-> FALSE]

Lob == [report : ReportId, fits : BOOLEAN]
NoLob == [report |-> NoReport, fits |-> TRUE]

StoreTypeOK ==
  /\ hashOf \in [ReportId -> Hash \cup {NoHash}]
  /\ tally \in [Counter -> Nat]
  /\ traced \in SUBSET ReportId
  /\ oops \in [ReportId -> {"none", "empty", "stored"}]
  /\ unknownOpsys \in Nat
  /\ session \in [Saver -> Session]
  /\ addLob \in [Saver -> Lob \cup {NoLob}]

StoreInit ==
  /\ hashOf = [i \in ReportId |-> NoHash]
  /\ tally = [c \in Counter |-> 0]
  /\ traced = {}
  /\ oops = [i \in ReportId |-> "none"]
  /\ unknownOpsys = 0
  /\ session = [p \in Saver |-> CleanSession]
  /\ addLob = [p \in Saver |-> NoLob]

-----------------------------------------------------------------------------
\* Rows that queries of any process can see: autoflush is off, so what a
\* session holds is invisible even to its own queries.
Committed(h) == {i \in ReportId : hashOf[i] = h}

\* Ids no committed row and no session uses.
FreeIds == {i \in ReportId : /\ hashOf[i] = NoHash
                             /\ \A q \in Saver : session[q].new[i] = NoHash}

\* Mutant: the look-up by hash is forgotten and every save makes a new report.
AlwaysNewReport(p, u, i) ==
  /\ u.verdict # "noComponent"
  /\ i \in FreeIds /\ \A j \in FreeIds : i <= j
  /\ session' = [session EXCEPT ![p].new[i] = u.hash]

\* get_report, and the creation of Report and ReportHash when it finds none;
\* .first() without an order may return any of several rows with this hash.
\* A report the session already holds keeps the count it was loaded with.
FindReport(p, u, i) ==
  \/ /\ i \in Committed(u.hash)
     /\ session' =
          IF i \in session[p].loaded THEN session
          ELSE [session EXCEPT
                  ![p].loaded = @ \cup {i},
                  ![p].base[ReportCounter(i)] = tally[ReportCounter(i)]]
  \/ /\ Committed(u.hash) = {}
     /\ u.verdict # "noComponent"
     /\ i \in FreeIds /\ \A j \in FreeIds : i <= j
     /\ session' = [session EXCEPT ![p].new[i] = u.hash]

\* Look a counter row up, create it when the query finds none, add n to it.
\* A row this session created and has not flushed is invisible to the query:
\* a second one with the same key is created, and the flush will fail.
Increment(s, c, n) ==
  [s EXCEPT !.base[c] = IF s.added[c] = 0 THEN tally[c] ELSE @,
            !.added[c] = @ + n,
            !.clash = @ \/ (s.added[c] > 0 /\ s.base[c] = 0)]

CountRelease(p, u, i, n) ==
  session' = [session EXCEPT
                ![p] = Increment(session[p], ReleaseCounter(i, u.release), n)]

\* Mutant: every kernel uReport has its oops stored, the first one or not.
CountDetailsEachLob(p, u, i, n) ==
  LET s == Increment(session[p], DetailCounter(i, u.release), n)
  IN  /\ session' = [session EXCEPT
                       ![p] = [s EXCEPT !.added[ReportCounter(i)] = @ + n,
                                        !.traced = @ \cup {i}]]
      /\ addLob' = IF u.hash \in KernelHash
                   THEN [addLob EXCEPT ![p] = [report |-> i, fits |-> TRUE]]
                   ELSE addLob

\* From the architecture check to the update of Report.count: the other
\* counters, the backtrace of a report that has none, the lob to write after
\* the flush, and Report.count last.
CountDetails(p, u, i, n) ==
  LET untraced == i \notin traced \cup session[p].traced
      s == Increment(session[p], DetailCounter(i, u.release), n)
  IN  /\ session' = [session EXCEPT
                       ![p] = [s EXCEPT !.added[ReportCounter(i)] = @ + n,
                                        !.traced = @ \cup {i}]]
      /\ addLob' =
           IF u.hash \in KernelHash /\ untraced /\ oops[i] = "none"
           THEN [addLob EXCEPT ![p] = [report |-> i,
                                       fits |-> u.verdict # "bigOops"]]
           ELSE addLob

\* The session writes absolute values.  A row it means to insert (base 0) that
\* somebody else has inserted meanwhile violates the primary key.
FlushSucceeds(p) ==
  /\ ~session[p].clash
  /\ \A c \in RowCounters :
       session[p].added[c] > 0 /\ session[p].base[c] = 0 => tally[c] = 0

\* Mutant: the session forgets nothing when it is flushed.
FlushTwice(p) ==
  LET s == session[p]
  IN  /\ FlushSucceeds(p)
      /\ hashOf' = [i \in ReportId |-> IF s.new[i] # NoHash THEN s.new[i]
                                       ELSE hashOf[i]]
      /\ tally' = [c \in Counter |-> tally[c] + s.added[c]]
      /\ traced' = traced \cup s.traced
      /\ session' = session

Flush(p) ==
  LET s == session[p]
  IN  /\ FlushSucceeds(p)
      /\ hashOf' = [i \in ReportId |-> IF s.new[i] # NoHash THEN s.new[i]
                                       ELSE hashOf[i]]
      /\ tally' = [c \in Counter |-> IF s.added[c] > 0
                                     THEN s.base[c] + s.added[c] ELSE tally[c]]
      /\ traced' = traced \cup s.traced
      /\ session' = [session EXCEPT ![p] = CleanSession]

\* save_ureport_post_flush of the kerneloops plugin, given that add_lob is not
\* empty: save_lob raises FafError when the file exists, and when the data is
\* too long, by which time the file has been opened for writing; the memory is
\* cleared only when it did not raise.
LobAccepted(p) == addLob[p].fits /\ oops[addLob[p].report] = "none"

SaveLob(p) ==
  LET i == addLob[p].report
  IN  /\ oops' = [oops EXCEPT ![i] = IF @ # "none" THEN @
                                     ELSE IF addLob[p].fits THEN "stored"
                                     ELSE "empty"]
      /\ addLob' = IF LobAccepted(p) THEN [addLob EXCEPT ![p] = NoLob]
                   ELSE addLob

\* The process is gone: its session and its plugins with it.
Forget(p) ==
  /\ session' = [session EXCEPT ![p] = CleanSession]
  /\ addLob' = [addLob EXCEPT ![p] = NoLob]
=============================================================================
