-------------------------- MODULE MCCreateProblems --------------------------
(***************************************************************************)
(* CreateProblems for TLC: one run after the other with any options, some  *)
(* change and a kill; or overlapping runs with no options.                 *)
(***************************************************************************)
EXTENDS CreateProblems

CONSTANTS x1, x2

VARIABLE cast

Casts ==
  {[runs |-> {x1}, commands |-> CommandLine, starts |-> 2, changes |-> 1, crashes |-> 1],
   [runs |-> {x1, x2}, commands |-> {{}}, starts |-> 3, changes |-> 0, crashes |-> 0]}

\* Report 3 may be new; overlapping runs have all reports, and leave out none.
MCInit == /\ Init /\ cast \in Casts /\ Report \ known \subseteq {3}
          /\ cast.commands = {{}} => low = {} /\ invalid = {} /\ known = Report

Within ==
  /\ starts <= cast.starts /\ changes <= cast.changes /\ crashes <= cast.crashes
  /\ \A x \in Run : options[x] \in cast.commands \cup {{}} /\ (x \in cast.runs \/ pc[x] = "idle")

\* A change before the first run is another initial state.
MCNext == Next /\ UNCHANGED cast /\ Within' /\ (starts = 0 => changes' = 0)
MCSpec == MCInit /\ [][MCNext]_<<vars, cast>>
=============================================================================
