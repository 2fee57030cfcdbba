-------------------------------- MODULE Channels --------------------------------
(***************************************************************************)
(* The numbers of channels: an object's id, parent_to_children of its      *)
(* parent, and location_as_channel of the places clients are interested    *)
(* in, all in one space.  The other modules take channels as distinct;     *)
(* here objects and a client subscribe to numbers, and whatever two        *)
(* numbers have in common they hear in common.                             *)
(*                                                                         *)
(* AIs generate objects after their parents and do not delete them.  The   *)
(* objects' indexes and AI channels are in module StateServer, queries     *)
(* that take time in ClientInterest.                                       *)
(***************************************************************************)
EXTENDS Naturals, SequencesExt

CONSTANTS ZONE_BITS,
          Object,     \* ids
          Location,   \* parents and zones where objects may be; parent 0 is none
          Interest,   \* the locations the client may want to see
          Gone,       \* no location: not generated, or not shown
          MaxSteps,   \* bound: SET_ZONEs and changes of interest
          MaxQueue    \* bound: what is on its way when an AI sends the next

\* That a power of two is a number has to be said: the provers know no powers.
ASSUME ChannelsAssumption ==
    /\ ZONE_BITS \in Nat \ {0} /\ MaxSteps \in Nat /\ MaxQueue \in Nat
    /\ 2 ^ ZONE_BITS \in Nat \ {0}
    /\ IsFiniteSet(Object)
    /\ Object \subseteq Nat \ {0} /\ Location \subseteq (Object \union {0}) \X Nat
    /\ Interest \subseteq Object \X Nat
    /\ Gone \notin Location \union Interest

VARIABLES loc,        \* per object: its parent and zone
          channels,   \* per object: the channels it has subscribed to
          interests, heard, visible,   \* of the client
          routing,    \* what the master routes, in its order
          steps,      \* number of the bounded steps so far
          wide        \* history: objects that a zone too large has touched

objectVars == <<loc, channels>>
interestVars == <<interests, heard, visible>>
channelsVars == <<objectVars, interestVars, routing, steps, wide>>

\* The bit behind those of the zone.
Bit == 2 ^ ZONE_BITS

\* The bitwise or of two numbers.
BitOr[x \in Nat, y \in Nat] ==
    IF x = 0 THEN y
    ELSE 2 * BitOr[x \div 2, y \div 2] + (IF (x % 2) + (y % 2) = 0 THEN 0 ELSE 1)

\* A zone that reaches into the bits of the parent.
TooLarge(l) == l[2] >= Bit

\* Mutant: one bit short.
NarrowLocation(l) == BitOr[l[1] * 2 ^ (ZONE_BITS - 1), l[2]]

\* A zone within its bits is added to those of the parent.
location_as_channel(l) == IF TooLarge(l) THEN BitOr[l[1] * Bit, l[2]] ELSE l[1] * Bit + l[2]

HasBit(id) == (id \div Bit) % 2 = 1

\* Mutant: the bit is forgotten.
PlainChildren(parent) == parent

parent_to_children(parent) == IF HasBit(parent) THEN parent ELSE parent + Bit

ChannelsInit ==
    /\ loc = [o \in Object |-> Gone]
    /\ channels = [o \in Object |-> {}]
    /\ interests = {}
    /\ heard = {}
    /\ visible = [o \in Object |-> Gone]
    /\ routing = <<>>
    /\ steps = 0
    /\ wide = {}

Bounded == steps < MaxSteps /\ steps' = steps + 1

-----------------------------------------------------------------------------
(* The state server *)

\* The channel of the children of a location's parent, if it has one.
Family(l) == IF l = Gone \/ l[1] = 0 THEN {} ELSE {parent_to_children(l[1])}

\* Mutant: the old parent is given up last.
ResubscribedLate(o, new) ==
    IF loc[o] # Gone /\ loc[o][1] = new[1] THEN channels[o]
    ELSE (channels[o] \union Family(new)) \ Family(loc[o])

\* The channels of an object that moves.
Resubscribed(o, new) ==
    IF loc[o] # Gone /\ loc[o][1] = new[1] THEN channels[o]
    ELSE (channels[o] \ Family(loc[o])) \union Family(new)

\* STATESERVER_OBJECT_CHANGE_ZONE: o leaves `old` and enters `new`.
Change(o, old, new) ==
    LET left == IF old = Gone \/ (old[1] = 0 /\ new[1] # 0) THEN {}
                ELSE {old[1], location_as_channel(old)}
        joined == IF new[1] = 0 THEN {} ELSE {new[1]}
    IN  [type |-> "CHANGE_ZONE", to |-> left \union joined, id |-> o, new |-> new]

Entry(o, new) ==
    [type |-> "ENTERZONE", to |-> {location_as_channel(new)}, id |-> o, new |-> new]

\* What handle_location_change sends for objects that move, one after the other.
Notices(order, new) ==
    IF new[1] = 0
      THEN [i \in 1..Len(order) |-> Change(order[i], loc[order[i]], new)]
      ELSE [i \in 1..2 * Len(order) |->
               LET o == order[(i + 1) \div 2]
               IN  IF i % 2 = 1 THEN Change(o, loc[o], new) ELSE Entry(o, new)]

\* The constructor: the object takes its place, then hears its own channel.
GenerateAt(o, new) ==
    /\ Len(routing) <= MaxQueue
    /\ loc[o] = Gone /\ new[1] # o
    /\ new[1] # 0 => loc[new[1]] # Gone
    /\ loc' = [loc EXCEPT ![o] = new]
    /\ channels' = [channels EXCEPT ![o] = Resubscribed(o, new) \union {o}]
    /\ routing' = routing \o Notices(<<o>>, new)
    /\ wide' = IF TooLarge(new) THEN wide \union {o} ELSE wide
    /\ UNCHANGED <<interestVars, steps>>

\* An AI or an owner moves an object.
SendSetZone(d, new) ==
    /\ Bounded
    /\ Len(routing) <= MaxQueue
    /\ loc[d] # Gone /\ new[1] # d
    /\ new[1] # 0 => loc[new[1]] # Gone
    /\ routing' = Append(routing, [type |-> "SET_ZONE", to |-> {d}, id |-> d, new |-> new])
    /\ UNCHANGED <<objectVars, interestVars, wide>>

\* SET_ZONE at the objects that hear it, in any order.  None of them asks which
\* object it is for; one that would be its own parent raises, and ends the loop.
SetZone(m) ==
    LET hearing == {o \in Object : m.to \intersect channels[o] # {}}
        raising == {o \in hearing : o = m.new[1]}
    IN  \E done \in IF raising = {} THEN {hearing} ELSE SUBSET (hearing \ raising) :
        \E order \in SetToSeqs({o \in done : loc[o] # m.new}) :
          /\ loc' = [o \in Object |-> IF o \in done THEN m.new ELSE loc[o]]
          /\ channels' = [o \in Object |-> IF o \in done THEN Resubscribed(o, m.new) ELSE channels[o]]
          /\ routing' = Tail(routing) \o Notices(order, m.new)
          /\ wide' = IF TooLarge(m.new) THEN wide \union done ELSE wide
          /\ UNCHANGED interestVars

-----------------------------------------------------------------------------
(* The client *)

\* receive_add_interest, and the parent's answer.
AddInterest(l) ==
    /\ Bounded
    /\ l \notin interests /\ loc[l[1]] # Gone
    /\ interests' = interests \union {l}
    /\ heard' = heard \union {location_as_channel(l)}
    /\ visible' = [o \in Object |-> IF visible[o] = Gone /\ loc[o] = l THEN l ELSE visible[o]]
    /\ wide' = IF TooLarge(l) THEN Object ELSE wide
    /\ UNCHANGED <<objectVars, routing>>

\* receive_remove_interest.
RemoveInterest(l) ==
    /\ Bounded
    /\ l \in interests
    /\ interests' = interests \ {l}
    /\ heard' = heard \ {location_as_channel(l)}
    /\ visible' = [o \in Object |-> IF visible[o] = l THEN Gone ELSE visible[o]]
    /\ UNCHANGED <<objectVars, routing, wide>>

\* handle_object_entrance and handle_location_change.  An entry is shown
\* wherever the object is.
Shown(m) ==
    IF m.type = "ENTERZONE" THEN IF visible[m.id] = Gone THEN m.new ELSE visible[m.id]
    ELSE IF visible[m.id] = Gone \/ m.new \notin interests THEN Gone ELSE m.new

\* The client hears a notice.
Notice(m) ==
    /\ visible' = IF m.to \intersect heard = {} THEN visible
                  ELSE [visible EXCEPT ![m.id] = Shown(m)]
    /\ routing' = Tail(routing)
    /\ UNCHANGED <<objectVars, interests, heard, wide>>

\* The master and the two directors hand over the next datagram.
Route ==
    /\ routing # <<>>
    /\ LET m == Head(routing)
       IN  \/ m.type = "SET_ZONE" /\ SetZone(m)
           \/ m.type # "SET_ZONE" /\ Notice(m)
    /\ UNCHANGED steps

ChannelsNext ==
    \/ Route
    \/ \E o \in Object, new \in Location : GenerateAt(o, new) \/ SendSetZone(o, new)
    \/ \E l \in Interest : AddInterest(l) \/ RemoveInterest(l)

ChannelsSpec == ChannelsInit /\ [][ChannelsNext]_channelsVars

-----------------------------------------------------------------------------
(* Properties *)

\* When everything is routed a client sees the objects in its interests, where
\* they are, and no others, as long as no zone reaches into the bits of the
\* parent (location_as_channel; receive_add_interest, receive_remove_interest,
\* handle_location_change on both sides).
ViewMatches ==
    routing = <<>> => \A o \in Object \ wide :
                   visible[o] = IF loc[o] \in interests THEN loc[o] ELSE Gone

\* An object hears its own channel all its life.  The exception is one whose
\* bit ZONE_BITS is set and that is not with the parent whose id is its own
\* without the bit: if it was, it gave up its own channel when it left
\* (parent_to_children, handle_location_change).
HearsItself ==
    \A o \in Object : loc[o] # Gone /\ o \notin channels[o] =>
        HasBit(o) /\ o - Bit \in Object /\ loc[o][1] # o - Bit

\* Besides, an object hears the channel of its parent's children, although two
\* parents may share one, and nothing of parents it left (handle_location_change).
HearsFamily ==
    \A o \in Object : channels[o] \ {o} = Family(loc[o]) \ {o}

\* Both: an object hears what it should and nothing else (DistributedObject's
\* constructor, handle_location_change).
ObjectsHear == HearsItself /\ HearsFamily

\* Moving one object moves no other, except the children of two parents: the
\* object itself and the one with the same id but the bit, if it has the bit
\* (parent_to_children, handle_datagram's SET_ZONE).
MovesAlone ==
    [][\A o \in Object : loc[o] # Gone /\ loc'[o] # loc[o] =>
          LET d == Head(routing).id
          IN  o = d \/ (HasBit(d) /\ loc[o][1] \in {d, d - Bit})]_channelsVars

=============================================================================
