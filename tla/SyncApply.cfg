SPECIFICATION Spec
CONSTANTS
  f = f  g = g  h = h  dir = dir  own = own  s = s  a = a
  Gone = Gone  NoRec = NoRec
  Files = {f}
  Groups = {dir}
  GroupOf <- InDir
  EncFiles = {}
  LocalFiles = {}
  Tracked0 = {f}
  Syncers = {s}
  Appliers = {a}
  Arguments = {{}}
  EditsDuringCommands = TRUE
  MaxOps = 2
  MaxSecond = 1
  MaxCrashes = 1
INVARIANTS TypeOK ApplySettles DeletedMeansGone
PROPERTIES NothingSeenIsLost
