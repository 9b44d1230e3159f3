SPECIFICATION Spec
CONSTANTS
  Machines = {a, b}
  Owners = {a}
  Procs = {shell, watcher, other}
  MachineOf <- Shells
  Kinds = {"local"}
  MayRun <- Pulling2
  Shared = {f}
  Local = {x}
  Touched <- OneFile
  Manifest = Manifest
  MaxOps <- One
  MaxCommits = 4
  MaxFailures <- None
  Gone = Gone
  Unknown = Unknown
  Untracked = Untracked
  Torn = Torn
  NoFile = NoFile
  a = a
  b = b
  shell = shell
  watcher = watcher
  other = other
  f = f
  g = g
  x = x
PROPERTY PendingWaits
