------------------------------- MODULE MCChannels -------------------------------
(* Two bits for the zone, of which zone 5 needs three.  Objects 1 and 5 share *)
(* their children's channel, which is also the channel of object 5 and of the *)
(* location of zone 1 in 1.                                                   *)
EXTENDS Channels

MCLocation == {<<0, 1>>, <<1, 1>>, <<1, 3>>, <<1, 5>>, <<5, 1>>}
MCInterest == {<<1, 1>>, <<1, 3>>, <<1, 5>>}
=============================================================================
