------------------------------ MODULE MCUberdog ------------------------------
(* Calls about one avatar: two with the same context, and one without any.   *)
EXTENDS Uberdog, TLC

CONSTANTS r1, r2, r3, av

MCavId == [r \in Query |-> av]
MCcontext == (r1 :> 1) @@ (r2 :> 1) @@ (r3 :> 0)
=============================================================================
