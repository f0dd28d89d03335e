----------------------------- MODULE PullReports -----------------------------
(***************************************************************************)
(* The pull-reports action (pyfaf/actions/pull_reports.py): it copies the  *)
(* reports of a master server into incoming and remembers, in one file for *)
(* all masters (pull.pickle), which it has copied.  People or timers start *)
(* it for any master at any moment.                                        *)
(***************************************************************************)
EXTENDS Spool

CONSTANTS
  Puller,         \* pull-reports processes
  Master,         \* the servers they pull from
  MasterOf,       \* the master of each report
  NoMaster,       \* no command line
  MaxPullMishaps, \* bound: kills, failed listings, starts beside another pull
  MaxPulls        \* bound: downloads of a report

ASSUME PullAssumption ==
  /\ MasterOf \in [Report -> Master]
  /\ NoMaster \notin Master
  /\ MaxPullMishaps \in Nat /\ MaxPulls \in Nat

VARIABLES
  available,   \* reports the masters list
  knownFile,   \* the reports in pull.pickle, of all masters
  pullPc, master,
  full,        \* _full_pickle
  known,       \* self.known
  newReports,  \* new_reports still to be pulled
  pullMishaps, \* how often something came in the way of a whole pull
  pulls,       \* history: how often each report was downloaded
  dropped,     \* history: how often an exception came before it was remembered
  whole        \* history: the pulled files that were written to their end

masterVars == <<available>>
pullerVars == <<pullPc, master, full, known, newReports>>
pullHistory == <<pulls, dropped, whole>>
pullVars == <<available, knownFile, pullerVars, pullMishaps, pullHistory>>

\* Steps of the loop over the new reports, and those with a report in hand:
\* fetched, written, or written in part.
InHandPc == {"write", "remember", "cut"}
Pulling == {"get"} \cup InHandPc

PullTypeOK ==
  /\ available \subseteq Report /\ knownFile \subseteq Report
  /\ pullPc \in [Puller -> {"idle", "list", "save"} \cup Pulling]
  /\ master \in [Puller -> Master \cup {NoMaster}]
  /\ full \in [Puller -> SUBSET Report]
  /\ known \in [Puller -> SUBSET Report]
  /\ newReports \in [Puller -> SUBSET Report]
  /\ pullMishaps \in Nat
  /\ pulls \in [Report -> Nat] /\ dropped \in [Report -> Nat]
  /\ whole \subseteq Report \cup Uuid

PullInit ==
  /\ available = {} /\ knownFile = {}
  /\ pullPc = [p \in Puller |-> "idle"]
  /\ master = [p \in Puller |-> NoMaster]
  /\ full = [p \in Puller |-> {}]
  /\ known = [p \in Puller |-> {}]
  /\ newReports = [p \in Puller |-> {}]
  /\ pullMishaps = 0
  /\ pulls = [r \in Report |-> 0] /\ dropped = [r \in Report |-> 0]
  /\ whole = {}

Own(m) == {r \in Report : MasterOf[r] = m}

PullGoto(p, step) == pullPc' = [pullPc EXCEPT ![p] = step]

PullMishap == /\ pullMishaps < MaxPullMishaps
              /\ pullMishaps' = pullMishaps + 1

\* A master gets a report, or no longer lists it.
Publish(r) == /\ r \notin available /\ pulls[r] = 0
              /\ available' = available \cup {r}
              /\ UNCHANGED <<knownFile, pullerVars, pullMishaps, pullHistory>>
Withdraw(r) == /\ r \in available
               /\ available' = available \ {r}
               /\ UNCHANGED <<knownFile, pullerVars, pullMishaps, pullHistory>>

PullStart(p, m) ==
  /\ pullPc[p] = "idle"
  /\ IF \E q \in Puller : pullPc[q] # "idle" THEN PullMishap ELSE UNCHANGED pullMishaps
  /\ master' = [master EXCEPT ![p] = m]
  /\ full' = [full EXCEPT ![p] = knownFile]
  /\ known' = [known EXCEPT ![p] = knownFile \cap Own(m)]
  /\ PullGoto(p, "list")
  /\ UNCHANGED <<available, knownFile, newReports, pullHistory>>

\* Mutant: all that is listed is taken for known.
StillKnownAll(p, reports) == reports

\* What was pulled before and is still listed.
StillKnown(p, reports) == known[p] \cap reports

NewReports(p, reports) == reports \ known[p]

\* Reports that are not listed are forgotten; if the listing fails, nothing is
\* listed.
ListReports(p) ==
  /\ pullPc[p] = "list"
  /\ \E reports \in {available \cap Own(master[p]), {}} :
       /\ IF reports = {} /\ available \cap Own(master[p]) # {}
          THEN PullMishap ELSE UNCHANGED pullMishaps
       /\ known' = [known EXCEPT ![p] = StillKnown(p, reports)]
       /\ newReports' = [newReports EXCEPT ![p] = NewReports(p, reports)]
       /\ PullGoto(p, IF NewReports(p, reports) = {} THEN "save" ELSE "get")
  /\ UNCHANGED <<available, knownFile, master, full, pullHistory>>

\* The reports are pulled in order: the one the loop is at.
Current(p, r) == r \in newReports[p] /\ \A s \in newReports[p] : r <= s

InHand(p, r) == pullPc[p] \in InHandPc /\ Current(p, r)

\* Done with r, go on to the next report.
NextReport(p, r) ==
  /\ newReports' = [newReports EXCEPT ![p] = @ \ {r}]
  /\ PullGoto(p, IF newReports[p] = {r} THEN "save" ELSE "get")

\* Fetch the next report; or fail to, and leave it for another time.
GetReport(p) ==
  /\ pullPc[p] = "get"
  /\ \E r \in newReports[p] :
       /\ Current(p, r)
       /\ \/ NextReport(p, r) /\ UNCHANGED pulls
          \/ /\ r \in available /\ pulls[r] < MaxPulls
             /\ pulls' = [pulls EXCEPT ![r] = @ + 1]
             /\ PullGoto(p, "write")
             /\ UNCHANGED newReports
  /\ UNCHANGED <<available, knownFile, master, full, known, pullMishaps, dropped, whole>>

\* Open a file for r in incoming: of its own name, or of a random one if a
\* file of its name is there.
OpenFile(r, f) ==
  /\ Write(f)
  /\ \/ ~In("incoming", r) /\ f = r /\ UNCHANGED says
     \/ In("incoming", r) /\ f \in Uuid /\ says[f] = Nothing /\ says' = [says EXCEPT ![f] = r]

\* Write the report that was fetched, to its end or, on a full disk, in part.
WriteReport(p) ==
  /\ pullPc[p] = "write"
  /\ \E r \in newReports[p], f \in Report \cup Uuid :
       /\ Current(p, r) /\ OpenFile(r, f)
       /\ \/ whole' = whole \cup {f} /\ PullGoto(p, "remember")
          \/ UNCHANGED whole /\ PullGoto(p, "cut")
  /\ UNCHANGED <<available, knownFile, master, full, known, newReports, pullMishaps, pulls, dropped>>

RememberReport(p) ==
  /\ pullPc[p] = "remember"
  /\ \E r \in newReports[p] :
       /\ Current(p, r)
       /\ known' = [known EXCEPT ![p] = @ \cup {r}]
       /\ NextReport(p, r)
  /\ UNCHANGED <<available, knownFile, master, full, pullMishaps, pullHistory>>

\* An exception or Ctrl-C in the loop, at any step of it: the finally clause
\* still saves what is known, which the report in hand is not.
Interrupt(p) ==
  /\ pullPc[p] \in Pulling
  /\ dropped' = [r \in Report |-> IF InHand(p, r) THEN dropped[r] + 1 ELSE dropped[r]]
  /\ PullGoto(p, "save")
  /\ newReports' = [newReports EXCEPT ![p] = {}]
  /\ UNCHANGED <<available, knownFile, master, full, known, pullMishaps, pulls, whole>>

PullEnd(p) ==
  /\ PullGoto(p, "idle")
  /\ master' = [master EXCEPT ![p] = NoMaster]
  /\ full' = [full EXCEPT ![p] = {}]
  /\ known' = [known EXCEPT ![p] = {}]
  /\ newReports' = [newReports EXCEPT ![p] = {}]

\* Mutant: what was known of the other masters is left out.
PickledAlone(p) == known[p]

\* What the process knows of its master, beside what it loaded of the others.
Pickled(p) == (full[p] \ Own(master[p])) \cup known[p]

SaveKnown(p) ==
  /\ pullPc[p] = "save"
  /\ knownFile' = Pickled(p)
  /\ PullEnd(p)
  /\ UNCHANGED <<available, pullMishaps, pullHistory>>

\* A kill, or an exception where nothing is saved after it.
KillPull(p) ==
  /\ pullPc[p] # "idle"
  /\ PullMishap
  /\ PullEnd(p)
  /\ UNCHANGED <<available, knownFile, pullHistory>>

\* The steps that leave the spool alone.
PullQuietly(p) ==
  \/ \E m \in Master : PullStart(p, m)
  \/ ListReports(p) \/ GetReport(p) \/ RememberReport(p) \/ Interrupt(p)
  \/ SaveKnown(p) \/ KillPull(p)
==============================================================================
