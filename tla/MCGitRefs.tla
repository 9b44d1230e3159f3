----------------------------- MODULE MCGitRefs -----------------------------
(* Instances of GitRefs: two files of a tracked directory on one branch,   *)
(* and a branch of a single file beside it.                                *)
EXTENDS GitRefs
CONSTANTS f, g, dir, own

OneBranch   == [x \in Files |-> dir]
TwoBranches == [x \in Files |-> IF x = f THEN own ELSE dir]
=============================================================================
