SPECIFICATION FairSpec
CONSTANTS
  Machines = {a, b}
  Owners = {a}
  Procs = {shell, watcher, other}
  MachineOf <- Shells
  Kinds = {"git", "local", "ssh"}
  MayRun <- Publishing
  Shared = {f}
  Local = {x}
  Touched <- OneFile
  Manifest = Manifest
  MaxOps <- Operations
  MaxCommits = 4
  MaxFailures <- Failures
  Gone = Gone
  Unknown = Unknown
  Untracked = Untracked
  Torn = Torn
  NoFile = NoFile
  a = a
  b = b
  shell = shell
  watcher = watcher
  other = other
  f = f
  g = g
  x = x
INVARIANT TypeOK
INVARIANT LocalStays
INVARIANT AckedStays
INVARIANT FollowersFollow
PROPERTY Converges
