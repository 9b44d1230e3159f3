SPECIFICATION FairSpec
CONSTANTS
  f = f  g = g  h = h  dir = dir  own = own  s = s  a = a
  Gone = Gone  NoRec = NoRec
  Files = {f, g, h}
  Groups = {dir, own}
  GroupOf <- InDir
  EncFiles = {g}
  LocalFiles = {}
  Tracked0 = {f, h}
  Syncers = {s}
  Appliers = {}
  Arguments = {{}}
  EditsDuringCommands = TRUE
  MaxOps = 2
  MaxSecond = 0
  MaxCrashes = 0
INVARIANTS SyncSettles
PROPERTIES Converges
