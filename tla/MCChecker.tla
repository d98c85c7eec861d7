----------------------------- MODULE MCChecker -----------------------------
(* Instances of Checker for TLC. *)
EXTENDS Checker, TLC

CONSTANTS u1, u2

Both == {(u1 :> TRUE) @@ (u2 :> TRUE)}
Single == {u1 :> TRUE}
=============================================================================
