CONSTANTS
  Thread = {t1, t2, t3, t4}
  Func = {f1, f2, f3}
  Limits = {2, 3, 4}
SPECIFICATION ClusterSpec
CHECK_DEADLOCK FALSE
INVARIANTS OneClusterPerThread ClustersFit ClustersConnected ComponentsWhenUnlimited
