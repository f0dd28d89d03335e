---------------------------- MODULE ThreadClusters ----------------------------
(***************************************************************************)
(* How create-problems buckets backtraces before it compares them          *)
(* (pyfaf/actions/create_problems.py: _get_func_thread_map,                *)
(* _get_thread_map, _create_clusters): threads that call a common function *)
(* end up in one cluster, as long as the cluster stays within              *)
(* max_cluster_size.  Functions are processed from the least to the most   *)
(* used one; among equals, and among thread sets of equal size, the order  *)
(* is that of a Python dict or set, which is no order at all.              *)
(***************************************************************************)
EXTENDS Naturals, FiniteSets

CONSTANTS
  Thread,   \* the backtraces to cluster
  Func,     \* function names other than "??"
  Limits    \* the values of max_cluster_size considered

ASSUME ClusterAssumption ==
  /\ IsFiniteSet(Thread)
  /\ Limits \subseteq Nat \ {0}

VARIABLES
  calls,       \* func_thread_map: the threads each function appears in
  max,         \* max_cluster_size
  phase,
  funcs,       \* functions not processed yet
  map,         \* thread_map; {} for a thread that is not in it
  fresh,       \* threads mapped to the HashableSet that was made for them
  sets,        \* thread_sets of the current function, not visited yet
  cluster,     \* the cluster that is growing
  threads,     \* threads whose entry of thread_map was not collected yet
  processed,   \* what _create_clusters compares with: plain sets
  returned     \* the result: how many times each cluster is returned

inputVars == <<calls, max>>
mergeVars == <<funcs, map, fresh, sets, cluster>>
resultVars == <<threads, processed, returned>>
clusterVars == <<inputVars, phase, mergeVars, resultVars>>

ClusterTypeOK ==
  /\ calls \in [Func -> SUBSET Thread]
  /\ max \in Limits
  /\ phase \in {"function", "merge", "collect", "done"}
  /\ funcs \subseteq {f \in Func : Cardinality(calls[f]) > 1}
  /\ map \in [Thread -> SUBSET Thread]
  /\ fresh \subseteq Thread
  /\ sets \subseteq SUBSET Thread
  /\ cluster \subseteq Thread
  /\ threads \subseteq Thread
  /\ processed \subseteq SUBSET Thread
  /\ returned \in [SUBSET Thread -> Nat]

\* Functions of a single thread are filtered out before the merging.
ClusterInit ==
  /\ calls \in [Func -> SUBSET Thread]
  /\ max \in Limits
  /\ phase = "function"
  /\ funcs = {f \in Func : Cardinality(calls[f]) > 1}
  /\ map = [t \in Thread |-> {}]
  /\ fresh = {}
  /\ sets = {}
  /\ cluster = {}
  /\ threads = {}
  /\ processed = {}
  /\ returned = [c \in SUBSET Thread |-> 0]

-----------------------------------------------------------------------------
(* _get_thread_map: one function after the other.                          *)

\* Mutant: threads that are in thread_map already are taken out of their cluster.
AllThreads(f) == calls[f]

Detached(f) == {t \in calls[f] : map[t] = {}}

\* Mutant: a new thread set may be of any size.
AcceptedAny(f) == Detached(f)

\* Threads that appear for the first time share a new set, unless there are too
\* many of them; then they stay out of thread_map.
Accepted(f) == IF Cardinality(Detached(f)) <= max THEN Detached(f) ELSE {}

\* Mutant: the cluster of the function before is not put away.
KeepCluster(f) ==
  /\ phase = "function"
  /\ f \in funcs
  /\ \A g \in funcs : Cardinality(calls[f]) <= Cardinality(calls[g])
  /\ funcs' = funcs \ {f}
  /\ map' = [t \in Thread |-> IF t \in Accepted(f) THEN Accepted(f) ELSE map[t]]
  /\ fresh' = fresh \cup Accepted(f)
  /\ sets' = {map'[t] : t \in calls[f]} \ {{}}
  /\ phase' = "merge"
  /\ UNCHANGED <<inputVars, cluster, resultVars>>

NextFunction(f) ==
  /\ phase = "function"
  /\ f \in funcs
  /\ \A g \in funcs : Cardinality(calls[f]) <= Cardinality(calls[g])
  /\ funcs' = funcs \ {f}
  /\ map' = [t \in Thread |-> IF t \in Accepted(f) THEN Accepted(f) ELSE map[t]]
  /\ fresh' = fresh \cup Accepted(f)
  /\ sets' = {map'[t] : t \in calls[f]} \ {{}}
  /\ cluster' = {}
  /\ phase' = "merge"
  /\ UNCHANGED <<inputVars, resultVars>>

\* Mutant: the last cluster of a function is forgotten.
SaveNothing == UNCHANGED <<map, fresh>>

\* Every thread of the cluster is mapped to it, and it is a plain set.
SaveCluster ==
  /\ map' = [t \in Thread |-> IF t \in cluster THEN cluster ELSE map[t]]
  /\ fresh' = fresh \ cluster

\* Thread sets are visited from the smallest to the biggest one.
MergeSet(s) ==
  /\ phase = "merge"
  /\ s \in sets
  /\ \A r \in sets : Cardinality(s) <= Cardinality(r)
  /\ IF Cardinality(s) > max
     THEN sets' = {} /\ UNCHANGED <<map, fresh, cluster>>
     ELSE /\ sets' = sets \ {s}
          /\ IF Cardinality(s \cup cluster) > max
             THEN SaveCluster /\ cluster' = {}
             ELSE cluster' = s \cup cluster /\ UNCHANGED <<map, fresh>>
  /\ UNCHANGED <<inputVars, phase, funcs, resultVars>>

FinishFunction ==
  /\ phase = "merge"
  /\ sets = {}
  /\ SaveCluster
  /\ phase' = "function"
  /\ UNCHANGED <<inputVars, funcs, sets, cluster, resultVars>>

-----------------------------------------------------------------------------
(* _create_clusters: one entry of thread_map after the other.              *)

StartCollecting ==
  /\ phase = "function"
  /\ funcs = {}
  /\ threads' = {t \in Thread : map[t] # {}}
  /\ phase' = "collect"
  /\ UNCHANGED <<inputVars, mergeVars, processed, returned>>

\* A plain set is looked up in processed by its elements, a HashableSet by its
\* address, so that it is never found there.
Collected(t) == t \notin fresh /\ map[t] \in processed

Collect(t) ==
  /\ phase = "collect"
  /\ t \in threads
  /\ threads' = threads \ {t}
  /\ IF Collected(t) \/ Cardinality(map[t]) < 2
     THEN UNCHANGED <<processed, returned>>
     ELSE /\ processed' = processed \cup {map[t]}
          /\ returned' = [returned EXCEPT ![map[t]] = @ + 1]
  /\ UNCHANGED <<inputVars, phase, mergeVars>>

Return ==
  /\ phase = "collect"
  /\ threads = {}
  /\ phase' = "done"
  /\ UNCHANGED <<inputVars, mergeVars, resultVars>>

ClusterNext ==
  \/ \E f \in Func : NextFunction(f)
  \/ \E s \in sets : MergeSet(s)
  \/ FinishFunction
  \/ StartCollecting
  \/ \E t \in Thread : Collect(t)
  \/ Return

ClusterSpec == ClusterInit /\ [][ClusterNext]_clusterVars

-----------------------------------------------------------------------------
(* Properties.                                                             *)

Returned == {c \in SUBSET Thread : returned[c] > 0}

Share(t, u) == \E f \in Func : {t, u} \subseteq calls[f]

\* No part of c is cut off from the rest.
Connected(c) ==
  \A s \in (SUBSET c) \ {{}, c} : \E t \in s, u \in c \ s : Share(t, u)

\* Threads that are in one cluster agree on it at every moment, though the map
\* is rewritten thread by thread: no thread is in two clusters.
OneClusterPerThread ==
  \A t \in Thread : \A u \in map[t] : map[u] = map[t] /\ t \in map[t]

\* No cluster is bigger than what the distance computation can take.
ClustersFit ==
  /\ Cardinality(cluster) <= max
  /\ \A t \in Thread : Cardinality(map[t]) <= max

\* Threads are put into one cluster only if a chain of shared functions links
\* them, whatever was merged and split on the way.
ClustersConnected == \A t \in Thread : Connected(map[t])

\* When the limit does not matter, threads that share a function are in the
\* same returned cluster: with ClustersConnected, the result is the set of
\* connected components of two and more threads, whatever the order was.
ComponentsWhenUnlimited ==
  phase = "done" /\ max >= Cardinality(Thread)
    => \A t, u \in Thread :
         t # u /\ Share(t, u) => \E c \in Returned : {t, u} \subseteq c

=============================================================================
