----------------------------- MODULE MCActivation -----------------------------
(* Sessions of one account: avatars are handled apart from each other.       *)
EXTENDS Activation

CONSTANTS avatar, s1, s2, s3
=============================================================================
