----------------------------- MODULE MCSources -----------------------------
(* Instances of Sources: two profiles that both declare f.                 *)
EXTENDS Sources

CONSTANTS f, g, p, q, x, y, r1, r2, s, a

TwoOfP  == {[profile |-> p, value |-> x], [profile |-> p, value |-> y], [profile |-> q, value |-> x]}
OneEach == [z \in Profiles |-> IF z = p THEN {f} ELSE {f, g} \cap Files]
=============================================================================
