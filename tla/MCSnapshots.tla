---------------------------- MODULE MCSnapshots ----------------------------
(* An instance of Snapshots: two files, one of them under the directory in *)
(* which undo is run.  The two processes are interchangeable.              *)
EXTENDS Snapshots, TLC

AllOrOne  == {{}, {1}}
OneOfThem == {{2}}
Processes == Permutations(Procs)
=============================================================================
