----------------------------- MODULE StateStore -----------------------------
(***************************************************************************)
(* internal/state/state.go over internal/fs/atomic.go: the flock-guarded   *)
(* read-modify-write of state.json.                                        *)
(*                                                                         *)
(* Any number of processes call Manager.Load and Manager.WithLock on the   *)
(* same base directory.  The directory belongs to a user; processes in     *)
(* Roots run as root (sudo sysfig watch), create files as root and hand    *)
(* them back with chownToParentOwner.  Every step between two system calls *)
(* another process can observe is an action; a process may be killed       *)
(* between any two of them, and the kernel then drops its flock.           *)
(***************************************************************************)
EXTENDS FiniteSets

CONSTANTS
  Procs,      (* processes that run sysfig                                 *)
  Roots,      (* those running as root; the others run as the dir's owner  *)
  States,     (* parsed contents of state.json                             *)
  InitState,  (* initState(): what a missing file is read as               *)
  Fns,        (* callbacks of WithLock: functions on States, or Failed     *)
  Failed, LoadOp, NoOp, NoRet, Ok, Err,
  Missing,    (* state.json does not exist                                 *)
  Partial,    (* a file created but not yet written in full                *)
  Absent      (* this process has no temp file                             *)

ASSUME StoreAssumption ==
  /\ Roots \subseteq Procs
  /\ InitState \in States
  /\ Fns \subseteq [States -> States \cup {Failed}]
  /\ Failed \notin States
  /\ {Missing, Partial, Absent, NoRet, Ok, Err} \cap States = {}
  /\ {LoadOp, NoOp} \cap Fns = {}
  /\ LoadOp # NoOp /\ Missing # Partial /\ Partial # Absent
  /\ NoRet \notin {Ok, Err} /\ Ok # Err

VARIABLES
  disk,       (* content of state.json                                     *)
  fileOwner,  (* owner of state.json (mode 0600): "user", "root", or       *)
              (* "stuck": still root, as the chown back failed             *)
  lockOwner,  (* owner of the lock file, "none" until it is created        *)
  held,       (* flock held on the lock file: "no", "sh" or "ex"           *)
  pc,         (* where each process is                                     *)
  op,         (* the call it is in: LoadOp, an fn of WithLock, or NoOp     *)
  mem,        (* the *types.State in its memory                            *)
  tmp,        (* its temp file in the base directory                       *)
  ret         (* what the call will return, NoRet while undecided          *)

vars == <<disk, fileOwner, lockOwner, held, pc, op, mem, tmp, ret>>

PCs == {"idle", "open", "chownLock", "flock", "load", "fn", "create",
        "write", "rename", "chownState", "return"}

User(p) == IF p \in Roots THEN "root" ELSE "user"

\* Mode 0600: the owner can open it, and root can open anything.
CanOpen(p, owner) == p \in Roots \/ owner \notin {"root", "stuck"}

Goto(p, l)   == pc' = [pc EXCEPT ![p] = l]
Finish(p, r) == Goto(p, "return") /\ ret' = [ret EXCEPT ![p] = r]

-----------------------------------------------------------------------------
(* The lock file.                                                          *)

\* A caller enters Load or WithLock.
Call(p) ==
  /\ pc[p] = "idle"
  /\ \E o \in Fns \cup {LoadOp} : op' = [op EXCEPT ![p] = o]
  /\ Goto(p, "open")
  /\ UNCHANGED <<disk, fileOwner, lockOwner, held, mem, tmp, ret>>

\* openLockFile opens or creates the file; a file root left behind yields nil.
OpenLockFile(p) ==
  /\ pc[p] = "open"
  /\ CanOpen(p, lockOwner)
  /\ lockOwner' = IF lockOwner = "none" THEN User(p) ELSE lockOwner
  /\ Goto(p, IF p \in Roots THEN "chownLock" ELSE "flock")
  /\ UNCHANGED <<disk, fileOwner, held, op, mem, tmp, ret>>

\* nil lock file: Load falls back to an unlocked read, WithLock refuses.
LockFileInaccessible(p) ==
  /\ pc[p] = "open"
  /\ ~CanOpen(p, lockOwner)
  /\ IF op[p] = LoadOp THEN Goto(p, "load") /\ UNCHANGED ret ELSE Finish(p, Err)
  /\ UNCHANGED <<disk, fileOwner, lockOwner, held, op, mem, tmp>>

\* As root, openLockFile gives the file to the owner of the directory.
ChownLockFile(p) ==
  /\ pc[p] = "chownLock"
  /\ lockOwner' = "user"
  /\ Goto(p, "flock")
  /\ UNCHANGED <<disk, fileOwner, held, op, mem, tmp, ret>>

\* chownToParentOwner drops the errors of its stat and chown: the lock file
\* stays whose it was.
ChownLockFails(p) ==
  /\ pc[p] = "chownLock"
  /\ Goto(p, "flock")
  /\ UNCHANGED <<disk, fileOwner, lockOwner, held, op, mem, tmp, ret>>

\* flock(LOCK_SH): granted unless someone holds the exclusive lock.
FlockShared(p) ==
  /\ pc[p] = "flock" /\ op[p] = LoadOp
  /\ \A q \in Procs : held[q] # "ex"
  /\ held' = [held EXCEPT ![p] = "sh"]
  /\ Goto(p, "load")
  /\ UNCHANGED <<disk, fileOwner, lockOwner, op, mem, tmp, ret>>

\* Mutant: LOCK_SH taken where LOCK_EX is meant.
FlockExclusiveAsShared(p) ==
  /\ pc[p] = "flock" /\ op[p] \in Fns
  /\ \A q \in Procs : held[q] # "ex"
  /\ held' = [held EXCEPT ![p] = "sh"]
  /\ Goto(p, "load")
  /\ UNCHANGED <<disk, fileOwner, lockOwner, op, mem, tmp, ret>>

\* Mutant: an exclusive lock that does not wait for readers.
FlockExclusiveOverReaders(p) ==
  /\ pc[p] = "flock" /\ op[p] \in Fns
  /\ \A q \in Procs : held[q] # "ex"
  /\ held' = [held EXCEPT ![p] = "ex"]
  /\ Goto(p, "load")
  /\ UNCHANGED <<disk, fileOwner, lockOwner, op, mem, tmp, ret>>

\* flock(LOCK_EX): granted when nobody holds the lock.
FlockExclusive(p) ==
  /\ pc[p] = "flock" /\ op[p] \in Fns
  /\ \A q \in Procs : held[q] = "no"
  /\ held' = [held EXCEPT ![p] = "ex"]
  /\ Goto(p, "load")
  /\ UNCHANGED <<disk, fileOwner, lockOwner, op, mem, tmp, ret>>

-----------------------------------------------------------------------------
(* load, fn and the atomic replacement.                                    *)

\* Mutant: a missing file is not turned into the empty state.
ParsedRaw(d) == d

Parsed(d) == IF d = Missing THEN InitState ELSE d

\* load(): unreadable or unparsable is an error, missing is the empty state.
LoadState(p) ==
  /\ pc[p] = "load"
  /\ IF disk = Partial \/ (disk # Missing /\ ~CanOpen(p, fileOwner))
     THEN Finish(p, Err) /\ UNCHANGED mem
     ELSE IF op[p] = LoadOp
          THEN Finish(p, Parsed(disk)) /\ UNCHANGED mem
          ELSE /\ mem' = [mem EXCEPT ![p] = Parsed(disk)]
               /\ Goto(p, "fn") /\ UNCHANGED ret
  /\ UNCHANGED <<disk, fileOwner, lockOwner, held, op, tmp>>

\* Mutant: the error of fn is ignored.
RunFnIgnoringError(p) ==
  /\ pc[p] = "fn"
  /\ mem' = [mem EXCEPT ![p] = IF op[p][@] = Failed THEN @ ELSE op[p][@]]
  /\ Goto(p, "create")
  /\ UNCHANGED <<disk, fileOwner, lockOwner, held, op, tmp, ret>>

\* fn(s) mutates the loaded state in memory, or fails and nothing is written.
RunFn(p) ==
  /\ pc[p] = "fn"
  /\ IF op[p][mem[p]] = Failed
     THEN Finish(p, Err) /\ UNCHANGED mem
     ELSE /\ mem' = [mem EXCEPT ![p] = op[p][@]]
          /\ Goto(p, "create") /\ UNCHANGED ret
  /\ UNCHANGED <<disk, fileOwner, lockOwner, held, op, tmp>>

\* Mutant: state.json is truncated and rewritten in place.
CreateInPlace(p) ==
  /\ pc[p] = "create"
  /\ disk' = Partial
  /\ Goto(p, "write")
  /\ UNCHANGED <<fileOwner, lockOwner, held, op, mem, tmp, ret>>

\* WriteFileAtomic: CreateTemp in the same directory.
CreateTemp(p) ==
  /\ pc[p] = "create"
  /\ tmp' = [tmp EXCEPT ![p] = Partial]
  /\ Goto(p, "write")
  /\ UNCHANGED <<disk, fileOwner, lockOwner, held, op, mem, ret>>

\* ... Write, Sync and Close it.
WriteTemp(p) ==
  /\ pc[p] = "write"
  /\ tmp' = [tmp EXCEPT ![p] = mem[p]]
  /\ Goto(p, "rename")
  /\ UNCHANGED <<disk, fileOwner, lockOwner, held, op, mem, ret>>

\* Mutant: the error path does not remove the temp file.
WriteFailsNoCleanup(p) ==
  /\ pc[p] \in {"create", "write", "rename"}
  /\ Finish(p, Err)
  /\ UNCHANGED <<disk, fileOwner, lockOwner, held, op, mem, tmp>>

\* Any of its steps may fail; the deferred cleanup removes the temp file.
WriteFails(p) ==
  /\ pc[p] \in {"create", "write", "rename"}
  /\ tmp' = [tmp EXCEPT ![p] = Absent]
  /\ Finish(p, Err)
  /\ UNCHANGED <<disk, fileOwner, lockOwner, held, op, mem>>

\* Mutant: root keeps the file it renamed into place.
RenameNoChown(p) ==
  /\ pc[p] = "rename"
  /\ disk' = tmp[p]
  /\ fileOwner' = User(p)
  /\ tmp' = [tmp EXCEPT ![p] = Absent]
  /\ Finish(p, Ok)
  /\ UNCHANGED <<lockOwner, held, op, mem>>

\* Rename: from here on every reader finds the new content, owned by p.
Rename(p) ==
  /\ pc[p] = "rename"
  /\ disk' = tmp[p]
  /\ fileOwner' = User(p)
  /\ tmp' = [tmp EXCEPT ![p] = Absent]
  /\ IF p \in Roots THEN Goto(p, "chownState") /\ ret' = [ret EXCEPT ![p] = Ok]
                    ELSE Finish(p, Ok)
  /\ UNCHANGED <<lockOwner, held, op, mem>>

\* As root, WithLock hands state.json back before it unlocks.
ChownState(p) ==
  /\ pc[p] = "chownState"
  /\ fileOwner' = "user"
  /\ Goto(p, "return")
  /\ UNCHANGED <<disk, lockOwner, held, op, mem, tmp, ret>>

\* Here too its errors are dropped: WithLock reports success all the same.
ChownStateFails(p) ==
  /\ pc[p] = "chownState"
  /\ fileOwner' = "stuck"
  /\ Goto(p, "return")
  /\ UNCHANGED <<disk, lockOwner, held, op, mem, tmp, ret>>

\* Mutant: an error return skips the unlock.
ReturnLeakingLock(p) ==
  /\ pc[p] = "return"
  /\ held' = IF ret[p] = Err THEN held ELSE [held EXCEPT ![p] = "no"]
  /\ op'   = [op   EXCEPT ![p] = NoOp]
  /\ mem'  = [mem  EXCEPT ![p] = InitState]
  /\ ret'  = [ret  EXCEPT ![p] = NoRet]
  /\ Goto(p, "idle")
  /\ UNCHANGED <<disk, fileOwner, lockOwner, tmp>>

\* The deferred LOCK_UN and Close run and the call returns ret.
Return(p) ==
  /\ pc[p] = "return"
  /\ held' = [held EXCEPT ![p] = "no"]
  /\ op'   = [op   EXCEPT ![p] = NoOp]
  /\ mem'  = [mem  EXCEPT ![p] = InitState]
  /\ ret'  = [ret  EXCEPT ![p] = NoRet]
  /\ Goto(p, "idle")
  /\ UNCHANGED <<disk, fileOwner, lockOwner, tmp>>

\* p is killed: the flock goes with it, its temp file stays under a name
\* nobody reads, and state.json is whatever it was.
Crash(p) ==
  /\ pc[p] # "idle"
  /\ held' = [held EXCEPT ![p] = "no"]
  /\ op'   = [op   EXCEPT ![p] = NoOp]
  /\ mem'  = [mem  EXCEPT ![p] = InitState]
  /\ tmp'  = [tmp  EXCEPT ![p] = Absent]
  /\ ret'  = [ret  EXCEPT ![p] = NoRet]
  /\ Goto(p, "idle")
  /\ UNCHANGED <<disk, fileOwner, lockOwner>>

-----------------------------------------------------------------------------
Init ==
  /\ disk = Missing /\ fileOwner = "user" /\ lockOwner = "none"
  /\ held = [p \in Procs |-> "no"]
  /\ pc   = [p \in Procs |-> "idle"]
  /\ op   = [p \in Procs |-> NoOp]
  /\ mem  = [p \in Procs |-> InitState]
  /\ tmp  = [p \in Procs |-> Absent]
  /\ ret  = [p \in Procs |-> NoRet]

\* The steps a running process takes by itself.
Step(p) ==
  \/ OpenLockFile(p) \/ LockFileInaccessible(p)
  \/ ChownLockFile(p) \/ ChownLockFails(p)
  \/ FlockShared(p) \/ FlockExclusive(p)
  \/ LoadState(p) \/ RunFn(p)
  \/ CreateTemp(p) \/ WriteTemp(p) \/ WriteFails(p) \/ Rename(p)
  \/ ChownState(p) \/ ChownStateFails(p) \/ Return(p)

Next == \E p \in Procs : Call(p) \/ Step(p) \/ Crash(p)

Spec == Init /\ [][Next]_vars

\* A running process is scheduled; a waiter for the lock that is granted the
\* chance again and again gets it (the kernel wakes flock waiters in order).
Fairness ==
  \A p \in Procs : /\ WF_vars(Step(p))
                   /\ SF_vars(FlockShared(p)) /\ SF_vars(FlockExclusive(p))

FairSpec == Spec /\ Fairness

-----------------------------------------------------------------------------
(* Properties.                                                             *)

TypeOK ==
  /\ disk \in States \cup {Missing, Partial}
  /\ fileOwner \in {"user", "root", "stuck"}
  /\ lockOwner \in {"none", "user", "root"}
  /\ held \in [Procs -> {"no", "sh", "ex"}]
  /\ pc \in [Procs -> PCs]
  /\ op \in [Procs -> Fns \cup {LoadOp, NoOp}]
  /\ mem \in [Procs -> States]
  /\ tmp \in [Procs -> States \cup {Partial, Absent}]
  /\ ret \in [Procs -> States \cup {NoRet, Ok, Err}]

\* Past fn, the state a process is about to write is fn of what is on disk
\* NOW: no other process changed state.json since it was loaded, so the
\* rename cannot drop anybody's update.  This is what LOCK_EX around
\* load-fn-rename is for.
NoLostUpdate ==
  \A p \in Procs :
    pc[p] \in {"create", "write", "rename"} => mem[p] = op[p][Parsed(disk)]

\* state.json is never a half-written file, whatever process died where, so
\* no later load fails to parse it (FUN-002, "torn read").
StateFileWhole == disk # Partial

\* While a locked Load is in progress the content it returned is still the
\* content of state.json; only an unlocked fallback read may be outdated.
SharedLockFreezesFile ==
  \A p \in Procs :
    pc[p] = "return" /\ held[p] = "sh" /\ ret[p] # Err => ret[p] = Parsed(disk)

\* An error path never leaves its temp file in the base directory: a temp
\* file exists only between CreateTemp and Rename of a live process.
NoTempLeftBehind ==
  \A p \in Procs : tmp[p] # Absent => pc[p] \in {"write", "rename"}

\* When a root WithLock is about to return success the user owns state.json
\* again, unless the chown failed: nobody replaced it between the chown and
\* the unlock.
OwnershipRestored ==
  \A p \in Roots : pc[p] = "return" /\ ret[p] = Ok => fileOwner # "root"

\* As long as shared holders make way now and then, every call returns: the
\* lock is never leaked, by an error path, by nil, or by a crash.
CallsReturn ==
  []<>(\A q \in Procs : held[q] # "sh") =>
     \A p \in Procs : pc[p] # "idle" ~> pc[p] = "idle"

-----------------------------------------------------------------------------
(* The inductive invariant behind them (StateStoreProofs).                 *)

InCritical == {"fn", "create", "write", "rename", "chownState"}

\* flock excludes, and the critical section is entered only under LOCK_EX.
LockInv ==
  /\ \A p, q \in Procs : held[p] = "ex" /\ p # q => held[q] = "no"
  /\ \A p \in Procs :
       /\ pc[p] \in InCritical => held[p] = "ex"
       /\ pc[p] = "load" /\ op[p] \in Fns => held[p] = "ex"
       /\ pc[p] = "return" /\ ret[p] = Ok => held[p] = "ex"
       /\ pc[p] \in {"idle", "open", "chownLock", "flock"} => held[p] = "no"
       /\ held[p] = "sh" => op[p] = LoadOp

\* What a call has decided at each point of its code.
CallInv ==
  \A p \in Procs :
    /\ pc[p] = "idle" <=> op[p] = NoOp
    /\ pc[p] \in InCritical => op[p] \in Fns
    /\ pc[p] \in {"chownState", "return"} <=> ret[p] # NoRet
    /\ pc[p] = "chownState" => ret[p] = Ok

\* The temp file of each process, and the copy of the state it works on.
CopyInv ==
  \A p \in Procs :
    /\ tmp[p] = IF pc[p] = "write" THEN Partial
                ELSE IF pc[p] = "rename" THEN mem[p] ELSE Absent
    /\ pc[p] = "fn" => mem[p] = Parsed(disk)

IInv ==
  /\ TypeOK /\ LockInv /\ CallInv /\ CopyInv
  /\ StateFileWhole /\ NoLostUpdate /\ SharedLockFreezesFile /\ OwnershipRestored

\* state.json implements one atomic object.
Store == INSTANCE AtomicStore WITH store <- Parsed(disk)
ImplementsAtomicStore == Store!Spec
=============================================================================
