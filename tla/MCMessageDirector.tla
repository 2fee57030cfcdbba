--------------------------- MODULE MCMessageDirector ---------------------------
(* Two connections and two channels: enough for a range that covers one of   *)
(* them, for a datagram addressed to both, and for a sender that hears itself. *)
EXTENDS MessageDirector

CONSTANTS p1, p2

MCParticipant == {p1, p2}
MCChannel == 1..2

\* Everything the master handles, range messages and datagrams that were cut
\* off included.
MixedTypes == {"SET_CHANNEL", "REMOVE_CHANNEL", "ROUTED", "ADD_POST_REMOVE", "CLEAR_POST_REMOVE",
               "ADD_RANGE", "REMOVE_RANGE", "TRUNCATED"}
=============================================================================
