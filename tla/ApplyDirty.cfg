SPECIFICATION Spec
CONSTANTS
  f = f  g = g  h = h  dir = dir  own = own  s = s  a = a
  Gone = Gone  NoRec = NoRec
  Files = {f}
  Groups = {dir}
  GroupOf <- InDir
  EncFiles = {}
  LocalFiles = {}
  Tracked0 = {f}
  Syncers = {}
  Appliers = {a}
  Arguments = {{}}
  EditsDuringCommands = FALSE
  MaxOps = 2
  MaxSecond = 0
  MaxCrashes = 0
PROPERTIES DirtyIsRefused
