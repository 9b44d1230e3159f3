---------------------------- MODULE MCSyncApply ----------------------------
(* Instances of SyncApply: named files, one tracked directory, and a file   *)
(* tracked on its own.                                                      *)
EXTENDS SyncApply

CONSTANTS f, g, h, dir, own, s, a

InDir == [x \in Files |-> IF x = h THEN own ELSE dir]
=============================================================================
