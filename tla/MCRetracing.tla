----------------------------- MODULE MCRetracing -----------------------------
(***************************************************************************)
(* Retracing for TLC: each history is cast with the sources that the two   *)
(* sites know at first, and with what may happen.  The same function f is  *)
(* found at k1 and k2 of one package and at k3 of another; k4 and k5 are   *)
(* of two kernels.                                                         *)
(***************************************************************************)
EXTENDS Retracing, TLC

CONSTANTS here, there, k1, k2, k3, k4, k5, f, g, old, new, d1, d2, d3, d4, p1, p2, w1, w2, w3, r1, r2

VARIABLE cast

MCSource == {k1, k2, k3, k4, k5}
MCSymbol == {f, g}
MCReport == {old, new}
MCDebuginfo == {d1, d2, d3, d4}
MCTypeOf == (k1 :> "core") @@ (k2 :> "core") @@ (k3 :> "core") @@ (k4 :> "kerneloops") @@ (k5 :> "kerneloops")
MCPackageOf == (k1 :> d1) @@ (k2 :> d1) @@ (k3 :> d2) @@ (k4 :> d3) @@ (k5 :> d4)
MCNamedAs == (k1 :> {}) @@ (k2 :> {}) @@ (k3 :> {}) @@ (k4 :> {g}) @@ (k5 :> {g})
MCFoundAs == (k1 :> f) @@ (k2 :> f) @@ (k3 :> f) @@ (k4 :> g) @@ (k5 :> g)
MCInlinedAs == (k1 :> {g}) @@ (k2 :> {}) @@ (k3 :> {}) @@ (k4 :> {f}) @@ (k5 :> {f})
MCPool == {p1, p2}
MCWorker == {w1, w2, w3}
MCPoolOf == (w1 :> p1) @@ (w2 :> p1) @@ (w3 :> p2)
MCSiteOf == (p1 :> there) @@ (p2 :> there)
MCMaxFails == {0, Unlimited}
MCRemote == {r1, r2}

\* The sources known on the server and on the client, threads and runs of
\* retrace-remote, how many may be started and reports saved, batch sizes,
\* whether the client has the key, and packages and kills that come and go.
Cast(server, client, workers, remotes, starts, saves, sizes, keys, mishaps) ==
  [server |-> server, client |-> client, workers |-> workers, remotes |-> remotes,
   starts |-> starts, saves |-> saves, sizes |-> sizes, keys |-> keys, mishaps |-> mishaps]
Casts == {
  Cast({k1, k3}, {}, {w1, w2}, {}, 2, 0, {}, {}, 1),
  Cast({k1, k2, k4}, {}, {w1}, {}, 3, 1, {}, {}, 2),
  Cast({k4, k5}, {}, {w1}, {}, 2, 1, {}, {}, 0),
  Cast({k1, k4}, {}, {w1, w3}, {}, 2, 1, {}, {}, 0),
  Cast({k1}, {k1, k2, k3}, {w1}, {r1}, 2, 0, {1, 2}, {FALSE}, 0),
  Cast({k1}, {k1}, {w1}, {r1, r2}, 3, 0, {1}, {FALSE}, 0),
  Cast({}, {k1, k4}, {w1}, {r1}, 3, 1, {2}, {TRUE}, 0)}

Filled(known) ==
  [Empty EXCEPT !.row = [k \in Source |-> IF k \in known THEN [NoRow EXCEPT !.known = TRUE, !.sym = NamedAs[k]]
                                         ELSE NoRow],
                !.symbols = UNION {NamedAs[k] : k \in known}, !.frames = known \X {old}]

MCInit ==
  /\ cast \in Casts
  /\ db = (Server :> Filled(cast.server)) @@ (Client :> Filled(cast.client))
  /\ files = {PackageOf[k] : k \in cast.server \cup cast.client} \X {"debug", "binary"} /\ failed = {} /\ overlap = {} /\ late = {}
  /\ PoolInit /\ TransferInit

Spend(what) == cast[what] > 0 /\ cast' = [cast EXCEPT ![what] = @ - 1]

MCStart ==
  \/ \E p \in {PoolOf[w] : w \in cast.workers} : RetraceStart(p) /\ UNCHANGED transferVars
  \/ \E r \in cast.remotes : /\ RemoteStart(r, Busy(Client)) /\ UNCHANGED poolVars
                             /\ remote'[r].size \in cast.sizes /\ remote'[r].key \in cast.keys
MCSave ==
  /\ \E s \in Site : \E k \in IF s = Server THEN cast.server ELSE cast.client :
       SaveCore(s, k, new, Busy(s)) \/ SaveKerneloops(s, k, new, Busy(s))
  /\ UNCHANGED <<poolVars, transferVars>>
MCMishap ==
  \/ (AddPackage \/ DeletePackage) /\ UNCHANGED <<poolVars, transferVars>>
  \/ \E p \in Pool : PoolKill(p) /\ UNCHANGED transferVars
MCRun ==
  \/ \E w \in cast.workers : (Submit(w, AskingAt(SiteOf[PoolOf[w]])) \/ WorkerStep(w)) /\ UNCHANGED transferVars
  \/ \E p \in Pool : PoolEnd(p) /\ UNCHANGED transferVars
  \/ \E r \in cast.remotes : RemoteStep(r) /\ UNCHANGED poolVars

MCNext ==
  \/ MCStart /\ Spend("starts")
  \/ MCSave /\ Spend("saves")
  \/ MCMishap /\ Spend("mishaps")
  \/ MCRun /\ UNCHANGED cast
MCSpec == MCInit /\ [][MCNext]_<<vars, cast>>
==============================================================================
