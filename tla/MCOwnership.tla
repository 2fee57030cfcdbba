------------------------------ MODULE MCOwnership ------------------------------
(* Two clients: one that sees both locations, one that sees only the second. *)
EXTENDS Ownership

CONSTANTS c1, c2, here, there

MCView == (c1 :> {here, there}) @@ (c2 :> {there})
=============================================================================
