SPECIFICATION Spec
CONSTANTS
  here = here
  Here = here
  Servers = {}
  Paths <- OnePath
  Dirs = {}
  Arguments = {}
  Present <- OneFile
  Denied = {}
  DotNames <- NoDots
  FileTracks <- OneTemplate
  DirTracks = {}
  Commands = {"sync", "track", "apply"}
  MaxSteps = 4
  MaxEdits = 1
  MaxCommits = 2
  Gone = Gone
  None = None
INVARIANT RepoKeepsTemplate
CHECK_DEADLOCK FALSE
