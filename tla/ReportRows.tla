------------------------------ MODULE ReportRows ------------------------------
(***************************************************************************)
(* The counted rows of a report that the plugins write: its packages,      *)
(* known or not, its desktops (opsys/fedora.py, opsys/centos.py) and its   *)
(* executables (problemtypes), while save-reports processes count them and *)
(* match-unknown-packages moves them.  A row is <<table, report, item,     *)
(* role>>; a process looks rows up one by one and writes all of them in    *)
(* one flush.                                                              *)
(***************************************************************************)
EXTENDS UReportFormats

CONSTANTS
  Saver, Matcher,
  AllowUnpackaged,  \* whether a uReport may lack an affected package
  Foreign  \* packages of an architecture that the storage does not know

ASSUME ProcessAssumption == Saver \cap Matcher = {}

VARIABLES
  reports,   \* the reports stored, by their hash
  rows,      \* the counted rows stored, with their counts
  packages,  \* the packages stored
  saver,     \* each save-reports process: its uReport and what is left of it
  session,   \* what it has pending
  matcher,   \* each match-unknown-packages run: the pairs it found
  counted,   \* how often each item of a report was in a uReport that was saved
  overlap,   \* reports that two processes had in hand at once
  refused    \* flushes refused: whether the process was alone, and its uReport

rowVars == <<reports, rows, packages, saver, session, matcher, counted, overlap, refused>>

NoWork == [pc |-> "idle", u |-> {}, report |-> {}, isNew |-> FALSE, left |-> <<>>, alone |-> TRUE]
Clean == [held |-> <<>>, added |-> <<>>, symbols |-> <<>>, sources |-> <<>>, threads |-> <<>>]
NoMatch == [pc |-> "idle", pairs |-> {}, first |-> FALSE, seen |-> <<>>, at |-> {}, alone |-> TRUE]

Count(table, key) == IF key \in DOMAIN table THEN table[key] ELSE 0
\* Mutant: nothing is deleted.
WithoutNothing(table, key) == table
Without(table, key) == [k \in DOMAIN table \ {key} |-> table[k]]
Put(table, key, value) == [k \in DOMAIN table \cup {key} |-> IF k = key THEN value ELSE table[k]]
Over(new, table) == [k \in DOMAIN new \cup DOMAIN table |-> IF k \in DOMAIN new THEN new[k] ELSE table[k]]

\* The reports that a process has in hand, and the processes that are at work.
InHand(x) == IF x \in Saver THEN saver[x].report ELSE {q[2][2] : q \in matcher[x].pairs \cup matcher[x].at}
AtWork == {p \in Saver : saver[p].pc \notin {"idle", "dead"}} \cup {m \in Matcher : matcher[m].pc = "run"}
Together(x, mine) == {r \in mine : \E y \in AtWork \ {x} : r \in InHand(y)}
NotAlone(x) == [p \in Saver |-> [saver[p] EXCEPT !.alone = @ /\ (p = x \/ saver[p].pc \in {"idle", "dead"})]]

-----------------------------------------------------------------------------
(* One uReport. *)

\* What the operating system and the problem type count for a uReport: Fedora
\* the desktop, both systems the packages, and three types the executable.
ReleaseItem(u) == <<<<"release", u.release, "">>>>
FedoraItems(u) ==
  [i \in 1 .. Len(u.desktop) |-> <<"desktop", u.desktop[i], "">>] \o
  [i \in DOMAIN u.packages |-> <<"package", u.packages[i][1], u.packages[i][2]>>]
CentosItems(u) == [i \in DOMAIN u.packages |-> <<"package", u.packages[i][1], u.packages[i][2]>>]
Executable(u) == CASE u.type = "core" -> <<<<"executable", u.executable, "">>>>
                   [] u.type \in {"python", "ruby"} -> <<<<"executable", Only(FirstFrames(u)[1].path), "">>>>
                   [] OTHER -> <<>>
Items(u) == ReleaseItem(u) \o (IF u.os = "fedora" THEN FedoraItems(u) ELSE CentosItems(u)) \o Executable(u)

Table(item) == IF item[1] # "package" THEN item[1] ELSE IF item[2] \in packages THEN "known" ELSE "unknown"

FedoraPackagesValid(u) == AllowUnpackaged \/ \E i \in DOMAIN u.packages : u.packages[i][2] = "CRASHED"
CentosPackagesValid(u) == AllowUnpackaged \/ \E i \in DOMAIN u.packages : u.packages[i][2] = "CRASHED"
PackagesValid(u) == IF u.os = "fedora" THEN FedoraPackagesValid(u) ELSE CentosPackagesValid(u)

\* After the uReports us, of different reports, nothing is going on.
RowsInit(us) ==
  LET keys(u) == {<<Table(Items(u)[i]), Hash(u), Items(u)[i][2], Items(u)[i][3]>> : i \in DOMAIN Items(u)}
      what(u) == {<<Hash(u), <<Items(u)[i][1], Items(u)[i][2]>>>> : i \in DOMAIN Items(u)}
  IN
  /\ reports = {Hash(u) : u \in us}
  /\ rows = [k \in UNION {keys(u) : u \in us} |-> 1] /\ counted = [x \in UNION {what(u) : u \in us} |-> 1]
  /\ saver = [p \in Saver |-> NoWork] /\ session = [p \in Saver |-> Clean]
  /\ matcher = [m \in Matcher |-> NoMatch] /\ overlap = {} /\ refused = {}

\* The report is looked up; a uReport that is not valid is deferred, and one
\* that is valid but has no hash ends the process.
Begin(p, u) ==
  LET full == Completed(u) IN
  /\ saver[p].pc = "idle"
  /\ IF ~(Valid(full) /\ PackagesValid(full)) THEN UNCHANGED <<saver, matcher, overlap>>
     ELSE IF HashFails(full) THEN saver' = [saver EXCEPT ![p].pc = "dead"] /\ UNCHANGED <<matcher, overlap>>
     ELSE /\ saver' = [NotAlone(p) EXCEPT ![p] =
                         [pc |-> "rows", u |-> {full}, report |-> {Hash(full)}, isNew |-> Hash(full) \notin reports,
                          left |-> Items(full), alone |-> AtWork \ {p} = {}]]
          /\ matcher' = [m \in Matcher |-> [matcher[m] EXCEPT !.alone = FALSE]]
          /\ overlap' = overlap \cup Together(p, {Hash(full)})
  /\ UNCHANGED <<reports, rows, packages, session, counted, refused>>

\* The row of a package: of the known ones whichever has the package, whatever
\* its role, of the unknown ones the one of the role.
Rows(r, item, table) == {k \in DOMAIN rows : /\ k[1] = table /\ k[2] = r /\ k[3] = item[2]
                                             /\ table = "unknown" => k[4] = item[3]}

\* A pending report has no id yet, so nothing is found for it, not even what was
\* added a moment ago.  What is found is counted up from what was read.
CountItem(p) ==
  LET r == Only(saver[p].report)
      item == Head(saver[p].left)
      table == Table(item)
      found == IF saver[p].isNew THEN {} ELSE Rows(r, item, table)
      held == session[p].held
  IN
  /\ saver[p].pc = "rows" /\ saver[p].left # <<>>
  /\ saver' = [saver EXCEPT ![p].left = Tail(@)]
  /\ IF table = "unknown" /\ found = {} /\ item[2] \in Foreign THEN UNCHANGED session
     ELSE IF found = {}
     THEN session' = [session EXCEPT ![p].added = Append(@, <<<<table, r, item[2], item[3]>>, 1>>)]
     ELSE \E k \in found :
            session' = [session EXCEPT ![p].held = Put(@, k, (IF k \in DOMAIN held THEN held[k] ELSE rows[k]) + 1)]
  /\ UNCHANGED <<reports, rows, packages, matcher, counted, overlap, refused>>

FedoraCount(p) == (\E u \in saver[p].u : u.os = "fedora") /\ CountItem(p)
CentosCount(p) == (\E u \in saver[p].u : u.os = "centos") /\ CountItem(p)

\* An INSERT of a row that is there, twice or from another process, or an UPDATE
\* of one that is gone makes the database refuse the whole flush.
RowsRefused(p) ==
  LET new == session[p].added IN
  \/ \E i, j \in DOMAIN new : i # j /\ new[i][1] = new[j][1]
  \/ \E i \in DOMAIN new : new[i][1] \in DOMAIN rows
  \/ ~(DOMAIN session[p].held \subseteq DOMAIN rows)
  \/ saver[p].isNew /\ saver[p].report \subseteq reports

Inserted(new) == [k \in {new[i][1] : i \in DOMAIN new} |-> 1]
Listed(u) == {<<Items(u)[i][1], Items(u)[i][2]>> : i \in DOMAIN Items(u)}
Times(u, what) == Cardinality({i \in DOMAIN Items(u) : <<Items(u)[i][1], Items(u)[i][2]>> = what})
WriteRows(p) ==
  LET u == Only(saver[p].u)
      r == Only(saver[p].report)
      what == {w \in Listed(u) : w[2] \notin Foreign}
  IN
  /\ rows' = Over(Inserted(session[p].added), Over(session[p].held, rows))
  /\ reports' = reports \cup saver[p].report
  /\ counted' = Over([x \in {<<r, w>> : w \in what} |-> Count(counted, x) + Times(u, x[2])], counted)

-----------------------------------------------------------------------------
(* match-unknown-packages. *)

\* The pairs are queried once, with the rows of the unknown packages.
MatchStart(m) ==
  LET pairs == {<<k[3], k>> : k \in {k \in DOMAIN rows : k[1] = "unknown" /\ k[3] \in packages}} IN
  /\ matcher[m].pc = "idle" /\ pairs # {}
  /\ matcher' = [x \in Matcher |-> IF x = m THEN [pc |-> "run", pairs |-> pairs, first |-> TRUE,
                                                 seen |-> [k \in {q[2] : q \in pairs} |-> rows[k]],
                                                 at |-> {}, alone |-> AtWork = {}]
                                   ELSE [matcher[x] EXCEPT !.alone = FALSE]]
  /\ overlap' = overlap \cup Together(m, {q[2][2] : q \in pairs})
  /\ saver' = NotAlone(m)
  /\ UNCHANGED <<reports, rows, packages, session, counted, refused>>

\* The first pair is as the query read it; later ones are read again, and a row
\* that is gone by then ends the run.
MatchNext(m) ==
  /\ matcher[m].pc = "run" /\ matcher[m].at = {}
  /\ \E q \in matcher[m].pairs :
       IF ~matcher[m].first /\ q[2] \notin DOMAIN rows
       THEN matcher' = [matcher EXCEPT ![m] = [NoMatch EXCEPT !.pc = "dead"]]
       ELSE matcher' = [matcher EXCEPT ![m].pairs = @ \ {q}, ![m].at = {q}, ![m].first = FALSE,
                                       ![m].seen = IF matcher[m].first THEN Over(@, rows) ELSE rows]
  /\ UNCHANGED <<reports, rows, packages, saver, session, counted, overlap, refused>>

\* The count moves to the known package of the report, or to a new row with the
\* role of the unknown one.  That the unknown row is gone is no error.
MatchFlush(m) ==
  /\ matcher[m].at # {}
  /\ LET q == Only(matcher[m].at)
         old == matcher[m].seen
         k == <<"known", q[2][2], q[1], q[2][4]>>
         existing == {x \in DOMAIN old : x[1] = "known" /\ x[2] = q[2][2] /\ x[3] = q[1]}
     IN IF existing = {} /\ k \in DOMAIN rows
        THEN /\ matcher' = [matcher EXCEPT ![m] = [NoMatch EXCEPT !.pc = "dead"]]
             /\ refused' = refused \cup {<<matcher[m].alone, {}>>}
             /\ UNCHANGED rows
        ELSE /\ \E x \in IF existing = {} THEN {k} ELSE existing :
                  rows' = Put(Without(rows, q[2]), x, Count(old, x) + old[q[2]])
             /\ matcher' = [matcher EXCEPT ![m] = IF @.pairs = {} THEN NoMatch ELSE [@ EXCEPT !.at = {}]]
             /\ UNCHANGED refused
  /\ UNCHANGED <<reports, packages, saver, session, counted, overlap>>

\* reposync stores a package.
AddPackage(k) ==
  /\ k \notin packages /\ packages' = packages \cup {k}
  /\ UNCHANGED <<reports, rows, saver, session, matcher, counted, overlap, refused>>
==============================================================================
