---------------------------- MODULE AtomicStore ----------------------------
(***************************************************************************)
(* What internal/state promises its callers: state.json behaves as one     *)
(* atomic object.  A process calls WithLock with a function fn or calls    *)
(* Load; at one instant between the call and its return the call takes     *)
(* effect, reading the object and, for a WithLock whose fn succeeds,       *)
(* replacing it by fn of its current value; the return delivers the        *)
(* outcome of that instant.  A call that fails leaves the object alone,    *)
(* and so does a process that dies before its instant.                     *)
(***************************************************************************)
CONSTANTS
  Procs,      (* processes that run sysfig                                 *)
  States,     (* parsed contents of state.json                             *)
  InitState,  (* the empty state, what a missing file is read as           *)
  Fns,        (* callbacks of WithLock: functions on States, or Failed     *)
  Failed,     (* "fn returned an error"                                    *)
  LoadOp,     (* the call Load()                                           *)
  NoOp,       (* no call in progress                                       *)
  NoRet,      (* the call has not taken effect yet                         *)
  Ok, Err     (* outcomes of a WithLock, Err also of a Load                *)

VARIABLES
  store,      (* the object                                                *)
  op,         (* the call each process is in                               *)
  ret         (* the outcome of that call, NoRet before it takes effect    *)

avars == <<store, op, ret>>

Init ==
  /\ store = InitState
  /\ op  = [p \in Procs |-> NoOp]
  /\ ret = [p \in Procs |-> NoRet]

\* p enters WithLock(fn) or Load().
Call(p) ==
  /\ op[p] = NoOp
  /\ \E o \in Fns \cup {LoadOp} : op' = [op EXCEPT ![p] = o]
  /\ UNCHANGED <<store, ret>>

Pending(p) == op[p] # NoOp /\ ret[p] = NoRet

\* WithLock replaces the whole object by fn of the value it has right now.
Update(p) ==
  /\ Pending(p) /\ op[p] \in Fns
  /\ op[p][store] # Failed
  /\ store' = op[p][store]
  /\ ret' = [ret EXCEPT ![p] = Ok]
  /\ UNCHANGED op

\* Load observes the value the object has right now.
Observe(p) ==
  /\ Pending(p) /\ op[p] = LoadOp
  /\ ret' = [ret EXCEPT ![p] = store]
  /\ UNCHANGED <<store, op>>

\* Either call may fail (fn, permissions, disk), and then changed nothing.
Fail(p) ==
  /\ Pending(p)
  /\ ret' = [ret EXCEPT ![p] = Err]
  /\ UNCHANGED <<store, op>>

\* The call returns, or the process dies in the middle of it.
Leave(p) ==
  /\ op[p] # NoOp
  /\ op'  = [op  EXCEPT ![p] = NoOp]
  /\ ret' = [ret EXCEPT ![p] = NoRet]
  /\ UNCHANGED store

Next == \E p \in Procs : Call(p) \/ Update(p) \/ Observe(p) \/ Fail(p) \/ Leave(p)

Spec == Init /\ [][Next]_avars
=============================================================================
