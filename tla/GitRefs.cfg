SPECIFICATION FairSpec
CONSTANTS
  f = f  g = g  dir = dir  own = own
  Gone = Gone  NoCommit = NoCommit  NoCall = NoCall
  Committers = {1, 2}
  Branches = {dir}
  Files = {f, g}
  BranchOf <- OneBranch
  QuotedPaths = {}
  MaxOps = 2
  MaxFailures = 1
CHECK_DEADLOCK FALSE
INVARIANTS TypeOK HistoryHonest
PROPERTIES Implements Heals
