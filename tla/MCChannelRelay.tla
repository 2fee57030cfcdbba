---------------------------- MODULE MCChannelRelay ----------------------------
(* Two members share director d1, one member is alone on d2.                 *)
EXTENDS ChannelRelay

CONSTANTS d1, d2, m1, m2, m3, c1

MCHome(m) == IF m = m3 THEN d2 ELSE d1
=============================================================================
