-------------------------------- MODULE Intake --------------------------------
(***************************************************************************)
(* What save-reports promises while its runs do not overlap, without       *)
(* processes, sessions and tables: a file that a client sent is counted    *)
(* and kept, or refused without being counted, and only a killed run lets  *)
(* it be counted once more.                                                *)
(***************************************************************************)
EXTENDS Naturals

CONSTANT File

VARIABLES
  place,    \* "none", "incoming", "saved" or "deferred", of each file
  counted,  \* how many times it was counted
  mishaps   \* runs that were killed

intakeVars == <<place, counted, mishaps>>

Init ==
  /\ place = [f \in File |-> "none"]
  /\ counted = [f \in File |-> 0]
  /\ mishaps = 0

Move(f, from, to) ==
  /\ place[f] = from /\ place' = [place EXCEPT ![f] = to]
  /\ UNCHANGED <<counted, mishaps>>

Arrive(f) == Move(f, "none", "incoming")
Count(f) ==
  /\ place[f] = "incoming" /\ counted[f] <= mishaps
  /\ counted' = [counted EXCEPT ![f] = @ + 1]
  /\ UNCHANGED <<place, mishaps>>
Accept(f) == counted[f] > 0 /\ Move(f, "incoming", "saved")
Refuse(f) == counted[f] = 0 /\ Move(f, "incoming", "deferred")
Mishap == mishaps' = mishaps + 1 /\ UNCHANGED <<place, counted>>

Next == Mishap \/ \E f \in File : Arrive(f) \/ Count(f) \/ Accept(f) \/ Refuse(f)

Spec == Init /\ [][Next]_intakeVars
==============================================================================
