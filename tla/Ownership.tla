------------------------------- MODULE Ownership -------------------------------
(***************************************************************************)
(* One distributed object and the clients of one agent that own it, or see *)
(* it.  An owner may move its object: it takes the new location into its   *)
(* owned_objects at once and sends SET_ZONE, and it ignores the notice of  *)
(* its own move.  Others move the object, too, and give it to others.      *)
(*                                                                         *)
(*   up[c]   what client c has sent to the object, not processed           *)
(*   to_ca   what the state server has sent to the agent, in its order     *)
(*                                                                         *)
(* The AIs act when the state server takes their message.  A location is   *)
(* its channel.  The clients' interests stay as they are and are complete  *)
(* (they change in module ClientInterest), and the object is no client's   *)
(* avatar, whose deletion ends the session (module Activation).            *)
(***************************************************************************)
EXTENDS Naturals, SequencesExt

CONSTANTS Client,
          Place,      \* locations: parent and zone
          View,       \* per client: the locations it has an interest in
          None,       \* owner_channel None
          Nowhere,    \* no location: no such object, or not known to the client
          MaxMoves    \* bound: moves, gifts, generates and deletions

ASSUME OwnershipAssumption ==
    /\ View \in [Client -> SUBSET Place]
    /\ None \notin Client /\ Nowhere \notin Place
    /\ MaxMoves \in Nat

VARIABLES place,    \* parent_id and zone_id of the object
          owner,    \* its owner_channel
          up, to_ca,
          owned,    \* per client: the location in owned_objects
          visible,  \* per client: the location in visible_objects
          moves,    \* number of the bounded steps so far
          crossed,  \* history: clients whose own move crossed a notice
          missed    \* history: clients that an exception in another cost a deletion

vars == <<place, owner, up, to_ca, owned, visible, moves, crossed, missed>>

Known(c) == visible[c] # Nowhere \/ owned[c] # Nowhere

\* A datagram to an owner's channel and to a location's.
Msg(type, sender, to, at, new) ==
    [type |-> type, sender |-> sender, owner |-> to, at |-> at, new |-> new]
Message == [type : {"CHANGE_ZONE", "ENTERZONE", "ENTER_OWNER", "DELETE_RAM"},
            sender : Client \union {None}, owner : Client \union {None},
            at : Place \union {Nowhere}, new : Place \union {Nowhere}]

Hears(c, m) == (c = m.owner \/ m.at \in View[c]) /\ c # m.sender

\* The messages that give client c the location of its object anew.
Tells(c, m) == m.type \in {"CHANGE_ZONE", "ENTER_OWNER"} /\ Hears(c, m)

Init ==
    /\ place = Nowhere
    /\ owner = None
    /\ up = [c \in Client |-> <<>>]
    /\ to_ca = <<>>
    /\ owned = [c \in Client |-> Nowhere]
    /\ visible = [c \in Client |-> Nowhere]
    /\ moves = 0
    /\ crossed = {}
    /\ missed = {}

-----------------------------------------------------------------------------
(* The state server *)

\* A notice leaves for client c, or for none: it crosses c's moves, or puts
\* right what an earlier one left.
Notified(c) ==
    crossed' = IF c = None THEN crossed
               ELSE IF up[c] # <<>> THEN crossed \union {c} ELSE crossed \ {c}

\* Mutant: the owner is not among the targets of a move.
MoveUntold(new, sender) ==
    <<Msg("CHANGE_ZONE", sender, None, place, new), Msg("ENTERZONE", None, None, new, new)>>

\* What handle_location_change sends to clients.
MoveMessages(new, sender) ==
    <<Msg("CHANGE_ZONE", sender, owner, place, new), Msg("ENTERZONE", None, None, new, new)>>

\* handle_location_change: nothing happens when the object is there already.
Move(new, sender) ==
    IF new = place THEN UNCHANGED <<place, to_ca, crossed>>
    ELSE /\ place' = new
         /\ to_ca' = to_ca \o MoveMessages(new, sender)
         /\ IF owner = sender THEN UNCHANGED crossed ELSE Notified(owner)

Bounded == moves < MaxMoves /\ moves' = moves + 1

\* SET_ZONE from an AI.
SetZone(new) ==
    /\ Bounded
    /\ place # Nowhere
    /\ Move(new, None)
    /\ UNCHANGED <<owner, up, owned, visible, missed>>

\* SET_ZONE from a client.  The object does not ask who sent it; when it does
\* not exist nobody takes the message.
ProcessMove(c) ==
    /\ up[c] # <<>>
    /\ IF place = Nowhere THEN UNCHANGED <<place, to_ca, crossed>> ELSE Move(Head(up[c]), c)
    /\ up' = [up EXCEPT ![c] = Tail(@)]
    /\ UNCHANGED <<owner, owned, visible, moves, missed>>

\* handle_set_owner: the new owner gets the object, the old one is not told.
SetOwner(c) ==
    /\ Bounded
    /\ place # Nowhere
    /\ owner' = c
    /\ to_ca' = Append(to_ca, Msg("ENTER_OWNER", None, c, Nowhere, place))
    /\ Notified(c)
    /\ UNCHANGED <<place, up, owned, visible, missed>>

\* The object is built: for nobody (handle_generate), or for an owner
\* (activate_callback).
Generate(new, c) ==
    /\ Bounded
    /\ place = Nowhere
    /\ place' = new
    /\ owner' = c
    /\ to_ca' = to_ca
          \o <<Msg("CHANGE_ZONE", None, c, Nowhere, new), Msg("ENTERZONE", None, None, new, new)>>
          \o IF c = None THEN <<>> ELSE <<Msg("ENTER_OWNER", None, c, Nowhere, new)>>
    /\ Notified(c)
    /\ UNCHANGED <<up, owned, visible, missed>>

\* annihilate, at the request of an AI.
Annihilate ==
    /\ Bounded
    /\ place # Nowhere
    /\ place' = Nowhere
    /\ owner' = None
    /\ to_ca' = Append(to_ca, Msg("DELETE_RAM", None, owner, place, Nowhere))
    /\ UNCHANGED <<up, owned, visible, crossed, missed>>

-----------------------------------------------------------------------------
(* The clients *)

\* Mutant: the client waits for a notice, which it will ignore.
ClientLocationLater(c, new) ==
    /\ Bounded
    /\ owned[c] # Nowhere
    /\ up' = [up EXCEPT ![c] = Append(@, new)]
    /\ crossed' = IF \E m \in ToSet(to_ca) : Tells(c, m) THEN crossed \union {c} ELSE crossed \ {c}
    /\ UNCHANGED <<place, owner, to_ca, owned, visible, missed>>

\* receive_client_location: the player moves its object.
ClientLocation(c, new) ==
    /\ Bounded
    /\ owned[c] # Nowhere
    /\ owned' = [owned EXCEPT ![c] = new]
    /\ up' = [up EXCEPT ![c] = Append(@, new)]
    /\ crossed' = IF \E m \in ToSet(to_ca) : Tells(c, m) THEN crossed \union {c} ELSE crossed \ {c}
    /\ UNCHANGED <<place, owner, to_ca, visible, missed>>

\* handle_object_entrance.
ObjectEntrance(m, hearing) ==
    /\ visible' = [c \in Client |-> IF c \in hearing /\ ~Known(c) THEN m.new ELSE visible[c]]
    /\ UNCHANGED <<owned, missed>>

\* handle_owned_object_entrance.
OwnedEntrance(m, hearing) ==
    /\ owned' = [c \in Client |-> IF c \in hearing THEN m.new ELSE owned[c]]
    /\ UNCHANGED <<visible, missed>>

\* Mutant: an object stays visible where no interest covers it.
NeverDisabled(m, hearing) ==
    /\ visible' = [c \in Client |-> IF c \in hearing /\ visible[c] # Nowhere THEN m.new ELSE visible[c]]
    /\ owned' = [c \in Client |-> IF c \in hearing /\ owned[c] # Nowhere THEN m.new ELSE owned[c]]
    /\ UNCHANGED missed

\* handle_location_change: an object that leaves the view disappears, but one
\* that is owned stays.
LocationChange(m, hearing) ==
    /\ visible' = [c \in Client |->
          IF c \in hearing /\ visible[c] # Nowhere
            THEN IF m.new \in View[c] \/ owned[c] # Nowhere THEN m.new ELSE Nowhere
            ELSE visible[c]]
    /\ owned' = [c \in Client |-> IF c \in hearing /\ owned[c] # Nowhere THEN m.new ELSE owned[c]]
    /\ UNCHANGED missed

\* DELETE_RAM.  For an object that is owned and not visible the client raises
\* KeyError, and the agent's loop over the receivers, in any order, ends there.
\* Nothing removes the object from owned_objects.
Deleted(hearing) ==
    LET raising == {c \in hearing : owned[c] # Nowhere /\ visible[c] = Nowhere}
    IN  \E done \in IF raising = {} THEN {hearing} ELSE SUBSET (hearing \ raising) :
          /\ visible' = [c \in Client |-> IF c \in done THEN Nowhere ELSE visible[c]]
          /\ missed' = missed \union (hearing \ (raising \union done))
          /\ UNCHANGED owned

\* The agent hands the next datagram to its clients; each ignores its own.
Deliver ==
    /\ to_ca # <<>>
    /\ LET m == Head(to_ca)
           hearing == {c \in Client : Hears(c, m)}
       IN  \/ m.type = "ENTERZONE" /\ ObjectEntrance(m, hearing)
           \/ m.type = "ENTER_OWNER" /\ OwnedEntrance(m, hearing)
           \/ m.type = "CHANGE_ZONE" /\ LocationChange(m, hearing)
           \/ m.type = "DELETE_RAM" /\ Deleted(hearing)
    /\ to_ca' = Tail(to_ca)
    /\ UNCHANGED <<place, owner, up, moves, crossed>>

Next ==
    \/ Deliver
    \/ Annihilate
    \/ \E c \in Client : SetOwner(c) \/ ProcessMove(c)
    \/ \E new \in Place :
         \/ SetZone(new)
         \/ \E c \in Client \union {None} : Generate(new, c)
         \/ \E c \in Client : ClientLocation(c, new)

\* The state server and the agent handle what has arrived; nobody has to act.
Fairness == WF_vars(Deliver) /\ \A c \in Client : WF_vars(ProcessMove(c))

Spec == Init /\ [][Next]_vars /\ Fairness

-----------------------------------------------------------------------------
(* Properties *)

TypeOK ==
    /\ place \in Place \union {Nowhere}
    /\ owner \in Client \union {None}
    /\ up \in [Client -> Seq(Place)]
    /\ to_ca \in Seq(Message)
    /\ owned \in [Client -> Place \union {Nowhere}]
    /\ visible \in [Client -> Place \union {Nowhere}]
    /\ moves \in 0..MaxMoves
    /\ crossed \subseteq Client
    /\ missed \subseteq Client

\* The messages s take client c's record of its object from one location to
\* another: the last that tells of it decides.
Leads(c, s, from, to) ==
    \/ from = to /\ \A i \in DOMAIN s : ~Tells(c, s[i])
    \/ \E i \in DOMAIN s :
          /\ Tells(c, s[i]) /\ s[i].new = to
          /\ \A j \in i + 1 .. Len(s) : ~Tells(c, s[j])

\* The owner's idea of where its object is, its own moves and the notices of
\* everyone else's on their way included, is where the object will be; unless
\* one of its moves crossed a notice, and then until the next that does not
\* (receive_client_location, handle_datagram's test of the sender,
\* handle_location_change on both sides, handle_set_owner).
OwnerKnowsPlace ==
    \A c \in Client : c = owner /\ c \notin crossed =>
        IF up[c] = <<>> THEN Leads(c, to_ca, owned[c], place)
        ELSE /\ Last(up[c]) = owned[c]
             /\ \A m \in ToSet(to_ca) : ~Tells(c, m)

\* With nothing on its way a client that never owned the object sees it if and
\* only if it is in its view, and where it is; unless the deletion was lost to
\* an exception in another client of the agent (handle_object_entrance,
\* handle_location_change, DELETE_RAM in handle_datagram).
SightExact ==
    to_ca = <<>> =>
        \A c \in Client \ missed : owned[c] = Nowhere =>
            visible[c] = IF place \in View[c] THEN place ELSE Nowhere

\* An owner knows in the end where its object is and goes on knowing, unless
\* its last moves crossed.
OwnerSettles ==
    <>[](owner # None /\ owner \notin crossed => owned[owner] = place)

=============================================================================
