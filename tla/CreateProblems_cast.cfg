CONSTANTS
  x1 = x1
  x2 = x2
  Report = {1, 2, 3}
  Run = {x1, x2}
  MaxStarts = 3
  MaxChanges = 1
  MaxCrashes = 1
  Unreadable = {1}
  Rare = {2}
  CommandLine = {{}, {"minCount"}, {"speedup"}, {"minCount", "speedup"}}
SPECIFICATION MCSpec
CHECK_DEADLOCK FALSE
INVARIANTS TidyAfterRun AttachedAfterRun
PROPERTIES StableWhenTidy AttachOnly
