---------------------------- MODULE MCStateServer ----------------------------
(* The root, a parent p that is placed under it, and a child c that moves    *)
(* between the two.                                                          *)
EXTENDS StateServer

CONSTANTS p, c, ai1

At(o, z)        == [parent |-> o, zone |-> z]
GenerateAt(o, l) == [type |-> "GENERATE", to |-> {SS}, do_id |-> o, new |-> l]
SetZoneTo(o, l)  == [type |-> "SET_ZONE", to |-> {o}, new |-> l]
Delete(o)        == [type |-> "DELETE_RAM", to |-> {o}]
Query(o, zs)     == [type |-> "QUERY_ZONE", to |-> {o}, zones |-> zs]
AddAI(o, ai)     == [type |-> "ADD_AI", to |-> {SS}, do_id |-> o, ai |-> ai]
ShardRest(ai)    == [type |-> "SHARD_REST", to |-> {SS}, ai |-> ai]

\* Everything goes and comes back.
ChurnRequests ==
    {GenerateAt(p, At(root, 1)), GenerateAt(c, At(p, 1)), SetZoneTo(c, At(root, 1)),
     SetZoneTo(c, At(p, 2)), SetZoneTo(c, At(NoParent, 1)), SetZoneTo(p, At(c, 1)),
     Delete(p), Delete(c), Query(root, {1, 2}), Query(p, {1, 2}),
     AddAI(p, ai1), ShardRest(ai1)}
=============================================================================
