------------------------------ MODULE MCFraming ------------------------------
(* Two connections; datagrams of no byte and of two, one that is too long,   *)
(* and one whose handler raises.                                             *)
EXTENDS Framing, TLC

CONSTANTS k1, k2, empty, long, huge, bad

MCSize == (empty :> 0) @@ (long :> 2) @@ (huge :> 3) @@ (bad :> 1)
=============================================================================
