---------------------------- MODULE BranchStore ----------------------------
(***************************************************************************)
(* What gitCommitToBranch promises its callers: a commit puts a set of     *)
(* blobs on top of the tip of a branch and takes a set of paths out of it, *)
(* all at once or not at all.                                              *)
(*                                                                         *)
(* The tip it builds on is one the branch had at some moment of the call,  *)
(* or the empty tree when the tip could not be looked up.  So a call that  *)
(* overlaps no other call for its branch is atomic; one that does may put  *)
(* back what the other one changed.                                        *)
(***************************************************************************)
CONSTANTS
  Callers,    (* processes that commit                                     *)
  Branches,   (* branches of the bare repository                           *)
  Files,      (* repository paths                                          *)
  Contents,   (* blobs                                                     *)
  Gone,       (* no entry at this path                                     *)
  NoCall      (* no commit in progress                                     *)

VARIABLES
  tips,       (* the tree at the tip of every branch                       *)
  calls       (* the commit every caller is in                             *)

avars == <<tips, calls>>

Trees == [Files -> Contents \cup {Gone}]
Empty == [f \in Files |-> Gone]

Overlay(base, blobs, dels) ==
  [f \in Files |-> IF blobs[f] # Gone THEN blobs[f]
                   ELSE IF f \in dels THEN Gone ELSE base[f]]

Init ==
  /\ tips = [b \in Branches |-> Empty]
  /\ calls = [c \in Callers |-> NoCall]

\* bases: the tips the branch had since the call began.
Call(c) ==
  /\ calls[c] = NoCall
  /\ \E b \in Branches, blobs \in Trees, dels \in SUBSET Files :
       calls' = [calls EXCEPT ![c] =
         [branch |-> b, blobs |-> blobs, dels |-> dels, bases |-> {tips[b]}]]
  /\ UNCHANGED tips

\* The branch moves; whoever else is committing to it may build on this tip.
Commit(c) ==
  /\ calls[c] # NoCall
  /\ LET r == calls[c] IN
     \E base \in r.bases \cup {Empty} :
       /\ tips' = [tips EXCEPT ![r.branch] = Overlay(base, r.blobs, r.dels)]
       /\ calls' = [d \in Callers |->
            IF d = c THEN NoCall
            ELSE IF calls[d] # NoCall /\ calls[d].branch = r.branch
            THEN [calls[d] EXCEPT !.bases = @ \cup {Overlay(base, r.blobs, r.dels)}]
            ELSE calls[d]]

Fail(c) ==
  /\ calls[c] # NoCall
  /\ calls' = [calls EXCEPT ![c] = NoCall]
  /\ UNCHANGED tips

Next == \E c \in Callers : Call(c) \/ Commit(c) \/ Fail(c)

Spec == Init /\ [][Next]_avars
=============================================================================
