--------------------------- MODULE MCClientInterest ---------------------------
(***************************************************************************)
(* Instances of ClientInterest for TLC.  One object is enough for the view *)
(* of each: the client handles objects separately, but for the order of    *)
(* replays, and two handles with overlapping zones meet in one object.     *)
(***************************************************************************)
EXTENDS ClientInterest

CONSTANTS z1, z2, h1, h2, p1, p2

\* No other client of the agent, or one that hears zone z1 of parent p1.
NoneShared == {}
OneShared  == {[parent |-> p1, zone |-> z1]}

\* Zones and handles are interchangeable when no location is shared.
Symmetry == Permutations({z1, z2}) \union Permutations({h1, h2})
=============================================================================
