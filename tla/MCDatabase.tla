------------------------------ MODULE MCDatabase ------------------------------
(***************************************************************************)
(* Two creates, and one that lacks a required field; two sets that overlap *)
(* in a field; a get of everything.                                        *)
(***************************************************************************)
EXTENDS Database, TLC

CONSTANTS c1, c2, c3, s1, s2, g1, f1, f2

MCNames ==
    (c1 :> {f1}) @@ (c2 :> {f1, f2}) @@ (c3 :> {f2}) @@ (s1 :> {f1}) @@ (s2 :> {f1, f2}) @@ (g1 :> {f1, f2})
=============================================================================
