---------------------------- MODULE MCSpeedupSave ----------------------------
(* Small instances of SpeedupSave for TLC. *)
EXTENDS SpeedupSave

CONSTANTS p1, p2, p3, h1, k1, r1

\* Two contents that share a report.
MCTwoContents ==
  {[hash |-> h1, release |-> r1, verdict |-> v] : v \in {"ok", "noComponent"}}

\* One report each way a save can end.
MCSome ==
  {[hash |-> h1, release |-> r1, verdict |-> v] : v \in {"noArch", "unknownOs", "unsafe"}}
  \cup {[hash |-> k1, release |-> r1, verdict |-> v] : v \in {"ok", "bigOops"}}
=============================================================================
