---------------------------- MODULE MCStateStore ----------------------------
(* A small instance of StateStore: a state maps each file id to "no record"*)
(* or to a record; the callbacks of WithLock track or untrack an id, and   *)
(* fail ("already tracked", "not tracked") when there is nothing to do.    *)
(* Two users and one root process run.                                     *)
EXTENDS StateStore

CONSTANTS Ids, NoRec, Rec, u1, u2, r1

MCProcs == {u1, u2, r1}
MCRoots == {r1}
MCStates == [Ids -> {NoRec, Rec}]
MCInitState == [i \in Ids |-> NoRec]
TrackFn(i) ==
  [s \in MCStates |-> IF s[i] = NoRec THEN [s EXCEPT ![i] = Rec] ELSE Failed]
UntrackFn(i) ==
  [s \in MCStates |-> IF s[i] = Rec THEN [s EXCEPT ![i] = NoRec] ELSE Failed]
MCFns == {TrackFn(i) : i \in Ids} \cup {UntrackFn(i) : i \in Ids}
=============================================================================
