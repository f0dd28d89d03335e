---------------------------- MODULE MCSaveReports ----------------------------
(* Small instances of SaveReports for TLC. *)
EXTENDS SaveReports

CONSTANTS p1, p2, h1, k1, k2, r1, r2

\* Two files may share the report and differ in the release, a save may be given
\* up after the session was changed, and two kernel reports need an oops.
MCSession ==
  {[hash |-> h1, release |-> r1, verdict |-> v] : v \in {"ok", "noArch"}}
  \cup {[hash |-> k1, release |-> r1, verdict |-> v] :
     v \in {"ok", "unknownOs"}}
  \cup {[hash |-> h, release |-> r2, verdict |-> "ok"] : h \in {h1, k2}}

\* Saves that succeed, and saves that are given up halfway.
MCAnyEnd ==
  {[hash |-> h1, release |-> r1, verdict |-> v] : v \in {"ok", "noArch"}}
  \cup {[hash |-> k1, release |-> r1, verdict |-> "ok"]}
=============================================================================
