SPECIFICATION FairSpec
CONSTANTS
  Ids = {"a"}
  u1 = u1  u2 = u2  r1 = r1
  NoRec = NoRec  Rec = Rec
  Failed = Failed  LoadOp = LoadOp  NoOp = NoOp  NoRet = NoRet
  Ok = Ok  Err = Err  Missing = Missing  Partial = Partial  Absent = Absent
  Procs <- MCProcs
  Roots <- MCRoots
  States <- MCStates
  InitState <- MCInitState
  Fns <- MCFns
INVARIANTS
  TypeOK
  NoLostUpdate
  StateFileWhole
  SharedLockFreezesFile
  NoTempLeftBehind
  OwnershipRestored
PROPERTY ImplementsAtomicStore
PROPERTY CallsReturn
