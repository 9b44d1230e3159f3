SPECIFICATION Spec
CONSTANTS
  f = f  g = g  h = h  dir = dir  own = own  s = s  a = a
  Gone = Gone  NoRec = NoRec
  Files = {f, g}
  Groups = {dir}
  GroupOf <- InDir
  EncFiles = {}
  LocalFiles = {f, g}
  Tracked0 = {f}
  Syncers = {s}
  Appliers = {}
  Arguments = {{}}
  EditsDuringCommands = FALSE
  MaxOps = 2
  MaxSecond = 0
  MaxCrashes = 0
INVARIANTS LocalStaysLocal
