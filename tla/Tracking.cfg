SPECIFICATION Spec
CONSTANTS
  here = here
  Here = here
  Servers <- MCServers
  Paths <- MCPaths
  Dirs <- MCDirs
  Arguments <- MCArgs
  Present <- MCPresent
  Denied <- MCDenied
  DotNames <- Dots
  FileTracks <- MCFiles
  DirTracks <- MCDirT
  Commands = {"sync", "track", "untrack", "apply", "undo", "rewind", "deploy"}
  MaxSteps = 5
  MaxEdits = 1
  MaxCommits = 3
  Gone = Gone
  None = None
INVARIANTS TypeOK GroupsStayTogether TrackKeepsDeniedOut SyncCures
PROPERTIES TrackStores
CHECK_DEADLOCK FALSE
