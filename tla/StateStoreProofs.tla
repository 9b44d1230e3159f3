-------------------------- MODULE StateStoreProofs --------------------------
(***************************************************************************)
(* Proofs about StateStore, for any set of processes, any callbacks and    *)
(* any interleaving of calls, failures and kills.                          *)
(*                                                                         *)
(* IInv is inductive: flock makes at most one process critical (LockInv),  *)
(* a process is critical exactly from its load to its rename (CallInv),    *)
(* and so the copy it works on is the file's own content (CopyInv,         *)
(* NoLostUpdate).  The refinement of AtomicStore follows step by step.     *)
(***************************************************************************)
EXTENDS StateStore, TLAPS

\* The parts of the inductive invariant, expanded in every step lemma.
USE StoreAssumption
    DEF IInv, TypeOK, LockInv, CallInv, CopyInv, InCritical, PCs, StateFileWhole,
        NoLostUpdate, SharedLockFreezesFile, OwnershipRestored

\* Init establishes the inductive invariant.
LEMMA InitIInv == Init => IInv
BY DEF Init

\* Steps that touch only the lock file, the flock and the caller.
LEMMA LockStepsKeepIInv ==
  ASSUME IInv, NEW p \in Procs,
         \/ Call(p) \/ OpenLockFile(p) \/ LockFileInaccessible(p)
         \/ ChownLockFile(p) \/ ChownLockFails(p) \/ FlockShared(p) \/ FlockExclusive(p)
  PROVE  IInv'
<1>1. CASE Call(p)
  BY <1>1 DEF Call, Goto, Parsed
<1>2. CASE OpenLockFile(p)
  BY <1>2 DEF OpenLockFile, Goto, Parsed, User
<1>3. CASE LockFileInaccessible(p)
  BY <1>3 DEF LockFileInaccessible, Goto, Finish, Parsed
<1>4. CASE ChownLockFile(p) \/ ChownLockFails(p)
  BY <1>4 DEF ChownLockFile, ChownLockFails, Goto, Parsed
<1>5. CASE FlockShared(p)
  BY <1>5 DEF FlockShared, Goto, Parsed
<1>6. CASE FlockExclusive(p)
  BY <1>6 DEF FlockExclusive, Goto, Parsed
<1> QED
  BY <1>1, <1>2, <1>3, <1>4, <1>5, <1>6

\* Steps that read state.json, run fn or write the temp file.
LEMMA CopyStepsKeepIInv ==
  ASSUME IInv, NEW p \in Procs,
         LoadState(p) \/ RunFn(p) \/ CreateTemp(p) \/ WriteTemp(p) \/ WriteFails(p)
  PROVE  IInv'
<1>1. CASE LoadState(p)
  BY <1>1 DEF LoadState, Goto, Finish, Parsed
<1>2. CASE RunFn(p)
  BY <1>2 DEF RunFn, Goto, Finish, Parsed
<1>3. CASE CreateTemp(p)
  BY <1>3 DEF CreateTemp, Goto, Parsed
<1>4. CASE WriteTemp(p)
  BY <1>4 DEF WriteTemp, Goto, Parsed
<1>5. CASE WriteFails(p)
  BY <1>5 DEF WriteFails, Goto, Finish, Parsed
<1> QED
  BY <1>1, <1>2, <1>3, <1>4, <1>5

\* The rename and what follows it, or a kill.
LEMMA CommitStepsKeepIInv ==
  ASSUME IInv, NEW p \in Procs,
         Rename(p) \/ ChownState(p) \/ ChownStateFails(p) \/ Return(p) \/ Crash(p)
  PROVE  IInv'
<1>1. CASE Rename(p)
  BY SMTT(60), <1>1 DEF Rename, Goto, Finish, Parsed, User
<1>2. CASE ChownState(p) \/ ChownStateFails(p)
  BY <1>2 DEF ChownState, ChownStateFails, Goto, Parsed
<1>3. CASE Return(p)
  BY <1>3 DEF Return, Goto, Parsed
<1>4. CASE Crash(p)
  BY <1>4 DEF Crash, Goto, Parsed
<1> QED
  BY <1>1, <1>2, <1>3, <1>4

LEMMA NextIInv == IInv /\ [Next]_vars => IInv'
<1>1. ASSUME IInv, NEW p \in Procs, Call(p) \/ Step(p) \/ Crash(p)
      PROVE  IInv'
  BY ONLY <1>1, LockStepsKeepIInv, CopyStepsKeepIInv, CommitStepsKeepIInv DEF Step
<1>2. ASSUME IInv, UNCHANGED vars
      PROVE  IInv'
  BY <1>2 DEF vars, Parsed
<1> QED
  BY <1>1, <1>2 DEF Next

\* The inductive invariant holds in every reachable state.
THEOREM Inductive == Spec => []IInv
BY ONLY InitIInv, NextIInv, PTL DEF Spec

\* Every variable keeps its type.
THEOREM TypeCorrect == Spec => []TypeOK
<1>1. IInv => TypeOK
  BY DEF IInv
<1> QED
  BY ONLY <1>1, Inductive, PTL

\* No WithLock ever overwrites an update it has not seen: what it is about
\* to rename into place is its fn of the current content of state.json.
THEOREM NoUpdateIsLost == Spec => []NoLostUpdate
<1>1. IInv => NoLostUpdate
  BY DEF IInv
<1> QED
  BY ONLY <1>1, Inductive, PTL

\* Whoever dies where, state.json is absent or a complete state.
THEOREM NeverTorn == Spec => []StateFileWhole
<1>1. IInv => StateFileWhole
  BY DEF IInv
<1> QED
  BY ONLY <1>1, Inductive, PTL

\* A locked Load returns what state.json still holds.
THEOREM LockedLoadIsCurrent == Spec => []SharedLockFreezesFile
<1>1. IInv => SharedLockFreezesFile
  BY DEF IInv
<1> QED
  BY ONLY <1>1, Inductive, PTL

\* A root update that reports success has handed state.json back, unless the
\* chown itself failed, which chownToParentOwner (state.go:180) drops.
THEOREM UserKeepsStateFile == Spec => []OwnershipRestored
<1>1. IInv => OwnershipRestored
  BY DEF IInv
<1> QED
  BY ONLY <1>1, Inductive, PTL

\* No failing call leaves its temp file behind (WriteFileAtomic's cleanup).
THEOREM TempIsTransient == Spec => []NoTempLeftBehind
<1>1. IInv => NoTempLeftBehind
  BY DEF IInv, CopyInv, NoTempLeftBehind
<1> QED
  BY ONLY <1>1, Inductive, PTL

-----------------------------------------------------------------------------
(* Refinement: the commit point of WithLock is the rename, that of Load the *)
(* read; every other step stutters or is a failure.                        *)

LEMMA StepRefines ==
  ASSUME IInv, NEW p \in Procs, Call(p) \/ Step(p) \/ Crash(p)
  PROVE  Store!Next \/ UNCHANGED Store!avars
<1> USE DEF Store!Next, Store!avars, Store!Pending, Goto, Finish
<1>1. CASE Call(p)
  BY <1>1 DEF Call, Store!Call, Parsed
<1>2. CASE OpenLockFile(p) \/ ChownLockFile(p) \/ ChownLockFails(p) \/ FlockShared(p) \/ FlockExclusive(p)
  BY <1>2 DEF OpenLockFile, ChownLockFile, ChownLockFails, FlockShared, FlockExclusive, Parsed
<1>3. CASE LockFileInaccessible(p)
  BY <1>3 DEF LockFileInaccessible, Store!Fail, Parsed
<1>4. CASE LoadState(p)
  BY <1>4 DEF LoadState, Store!Fail, Store!Observe, Parsed
<1>5. CASE RunFn(p)
  BY <1>5 DEF RunFn, Store!Fail, Parsed
<1>6. CASE CreateTemp(p) \/ WriteTemp(p)
  BY <1>6 DEF CreateTemp, WriteTemp, Parsed
<1>7. CASE WriteFails(p)
  BY <1>7 DEF WriteFails, Store!Fail, Parsed
<1>8. CASE Rename(p)
  BY <1>8 DEF Rename, Store!Update, Parsed
<1>9. CASE ChownState(p) \/ ChownStateFails(p)
  BY <1>9 DEF ChownState, ChownStateFails, Parsed
<1>10. CASE Return(p)
  BY <1>10 DEF Return, Store!Leave, Parsed
<1>11. CASE Crash(p)
  BY <1>11 DEF Crash, Store!Leave, Parsed
<1> QED
  BY <1>1, <1>2, <1>3, <1>4, <1>5, <1>6, <1>7, <1>8, <1>9, <1>10, <1>11 DEF Step

\* WithLock and Load implement one atomic object.
THEOREM RefinesAtomicStore == Spec => ImplementsAtomicStore
<1>1. Init => Store!Init
  BY DEF Init, Store!Init, Parsed
<1>2. IInv /\ [Next]_vars => [Store!Next]_Store!avars
  <2>1. ASSUME IInv, UNCHANGED vars
        PROVE  UNCHANGED Store!avars
    BY <2>1 DEF vars, Store!avars, Parsed
  <2> QED
    BY ONLY <2>1, StepRefines DEF Next
<1> QED
  BY ONLY <1>1, <1>2, Inductive, PTL DEF Spec, ImplementsAtomicStore, Store!Spec
=============================================================================
