------------------------------ MODULE StateServer ------------------------------
(***************************************************************************)
(* The state server of otp/stateserver.py: where each distributed object   *)
(* is (its parent and zone), and each parent's own index of the children   *)
(* in its zones.  The two are kept in step by CHANGE_ZONE notices that an  *)
(* object sends when it moves.  They are ordinary datagrams: they go up to *)
(* the master message director and come back, so an index lags behind.     *)
(*                                                                         *)
(*   outbox   what the state server has sent up, control and data          *)
(*   routing  the master's queue: data to be routed                        *)
(*   inbox    what the master has routed to the state server               *)
(*                                                                         *)
(* The master acts on a control message when it takes it from outbox and   *)
(* routes data later (module MessageDirector).  Other processes' messages  *)
(* to objects and to the state server enter at the master's queue.         *)
(*                                                                         *)
(* An object's channel is its do_id.  The channels of locations and of a   *)
(* parent's children, the AIs, the clients and the owners are outside: the *)
(* model leaves out what is sent to them.  Channel numbers are assumed not *)
(* to collide (otp/zone.py).                                               *)
(***************************************************************************)
EXTENDS Integers, SequencesExt

CONSTANTS DoId,        \* ids of distributed objects
          root,        \* the object the state server itself generates
          NoParent,    \* parent_id 0
          Zone,        \* zone numbers; 0 is the zone of an unplaced object
          RootZone,    \* the zone on_upstream_connect gives the root
          AI,          \* channels of AI servers
          NoAI,        \* ai_channel None
          Requests,    \* what the other processes may send
          MaxRequests  \* bound: messages they send in a behaviour

Place    == [parent : DoId \union {NoParent}, zone : Zone \union {0}]
Unplaced == [parent |-> NoParent, zone |-> 0]
SS       == "STATESERVERS_CHANNEL"
Channel  == DoId \union {NoParent, SS}

Notice  == [type : {"CHANGE_ZONE"}, to : SUBSET Channel, child : DoId, new : Place, old : Place]
Control == [type : {"SET_CHANNEL", "REMOVE_CHANNEL"}, channel : Channel]
Request == [type : {"SET_ZONE"}, to : {{o} : o \in DoId}, new : Place]
           \union [type : {"DELETE_RAM"}, to : {{o} : o \in DoId}]
           \union [type : {"QUERY_ZONE"}, to : {{o} : o \in DoId}, zones : SUBSET Zone]
           \union [type : {"GENERATE"}, to : {{SS}}, do_id : DoId, new : Place]
           \union [type : {"ADD_AI"}, to : {{SS}}, do_id : DoId, ai : AI]
           \union [type : {"SHARD_REST"}, to : {{SS}}, ai : AI]

ASSUME StateServerAssumption ==
    /\ IsFiniteSet(DoId) /\ root \in DoId
    /\ NoParent \notin DoId /\ SS \notin DoId \union {NoParent}
    /\ 0 \notin Zone /\ RootZone \in Zone
    /\ NoAI \notin AI
    /\ Requests \subseteq Request
    /\ MaxRequests \in Nat

VARIABLES objects,       \* the keys of service.objects
          place,         \* per object: parent_id and zone_id
          ai_channel,    \* per object
          explicit,      \* the objects with ai_explicitly_set
          zone_objects,  \* per object: zone_objects, as pairs <<zone, child>>
          outbox, routing, inbox,
          listening,     \* the channels the master has the state server subscribed to
          hung,          \* resolve_ai_channel is in an infinite loop
          sent,          \* number of requests sent
          unanswered,    \* history: zone queries broken off by a missing object
          disturbed      \* history: children whose notices may miss a parent

objectVars  == <<objects, place, ai_channel, explicit, zone_objects>>
linkVars    == <<outbox, routing, inbox, listening>>
historyVars == <<unanswered, disturbed>>
vars == <<objects, place, ai_channel, explicit, zone_objects, outbox, routing,
          inbox, listening, hung, sent, unanswered, disturbed>>

-----------------------------------------------------------------------------
(* Helpers *)

SetMsg(c)    == [type |-> "SET_CHANNEL", channel |-> c]
RemoveMsg(c) == [type |-> "REMOVE_CHANNEL", channel |-> c]

ChangeZone(targets, o, new, old) ==
    [type |-> "CHANGE_ZONE", to |-> targets, child |-> o, new |-> new, old |-> old]

\* What is on its way to the objects, oldest first, and the notices about
\* child o in it.
Way         == inbox \o routing \o outbox
Notices(o)  == {i \in DOMAIN Way : Way[i].type = "CHANGE_ZONE" /\ Way[i].child = o}
InFlight(o) == {Way[i] : i \in Notices(o)}

\* The ancestors resolve_ai_channel looks at, starting with parent_id p: it
\* goes on until it meets an AI channel or an object that does not exist.
Ancestor(p, parentOf) ==
    LET up[n \in 0..Cardinality(DoId)] ==
            IF n = 0 THEN p
            ELSE LET q == up[n - 1]
                 IN  IF q \in objects /\ ai_channel[q] = NoAI THEN parentOf[q] ELSE q
    IN  up[Cardinality(DoId)]

\* It ends in a loop when the parents form a cycle without an AI channel.
ResolveLoops(p, parentOf) ==
    LET a == Ancestor(p, parentOf) IN a \in objects /\ ai_channel[a] = NoAI
ResolveAI(p, parentOf) ==
    LET a == Ancestor(p, parentOf) IN IF a \in objects THEN ai_channel[a] ELSE NoAI

-----------------------------------------------------------------------------
(* The life of an object *)

Init ==
    /\ objects = {root}
    /\ place = [o \in DoId |-> IF o = root THEN [parent |-> NoParent, zone |-> RootZone]
                                           ELSE Unplaced]
    /\ ai_channel = [o \in DoId |-> NoAI]
    /\ explicit = {}
    /\ zone_objects = [o \in DoId |-> {}]
    /\ outbox = <<SetMsg(SS), ChangeZone({}, root, place[root], Unplaced), SetMsg(root)>>
    /\ routing = <<>>
    /\ inbox = <<>>
    /\ listening = {}
    /\ hung = FALSE
    /\ sent = 0
    /\ unanswered = 0
    /\ disturbed = {}

\* Mutant: only the new parent hears of a move.
ToldNewParent(old, new) == {new.parent} \ {NoParent}

\* The parents that hear of a move.
Told(old, new) == {old.parent, new.parent} \ {NoParent}

\* handle_location_change of object o, with what the caller sends after it.
\* An object that has an AI channel and finds none above its new parent has
\* moved when the attempt to greet AI channel None raises: nobody is told.
\* Once it hangs the process does nothing more, and what it had changed by then
\* is not seen by anyone.
LocationChange(o, new, more) ==
    LET old      == place[o]
        parentOf == [q \in DoId |-> IF q = o THEN new.parent ELSE place[q].parent]
        resolves == new.parent \notin {old.parent, NoParent} /\ o \notin explicit
        ai       == IF resolves THEN ResolveAI(new.parent, parentOf) ELSE ai_channel[o]
        botched  == ai = NoAI /\ ai_channel[o] # NoAI
    IN  IF resolves /\ ResolveLoops(new.parent, parentOf)
          THEN /\ hung' = TRUE
               /\ UNCHANGED <<place, ai_channel, outbox, disturbed>>
          ELSE /\ place' = [place EXCEPT ![o] = new]
               /\ ai_channel' = [ai_channel EXCEPT ![o] = ai]
               /\ outbox' = IF botched \/ new = old THEN outbox \o more
                            ELSE outbox \o <<ChangeZone(Told(old, new), o, new, old)>> \o more
               /\ disturbed' = IF botched \/ ~(Told(old, new) \subseteq objects)
                                 THEN disturbed \union {o} ELSE disturbed
               /\ UNCHANGED hung

\* Mutant: the new object is not entered in service.objects.
GenerateUnregistered(m) ==
    /\ UNCHANGED objects
    /\ IF m.do_id \in objects \/ m.new.parent = m.do_id
         THEN UNCHANGED <<place, ai_channel, hung, outbox, disturbed>>
         ELSE LocationChange(m.do_id, m.new, <<SetMsg(m.do_id)>>)

\* handle_generate.  A duplicate is dropped; an object that is its own parent
\* raises in the constructor and is not registered.
Generate(m) ==
    LET o == m.do_id
    IN  IF o \in objects \/ m.new.parent = o
          THEN UNCHANGED <<objects, place, ai_channel, hung, outbox, disturbed>>
          ELSE /\ LocationChange(o, m.new, <<SetMsg(o)>>)
               /\ objects' = IF hung' THEN objects ELSE objects \union {o}

\* STATESERVER_OBJECT_SET_ZONE.
SetZone(o, m) ==
    IF m.new.parent = o \/ m.new = place[o]
      THEN UNCHANGED <<place, ai_channel, hung, outbox, disturbed>>
      ELSE LocationChange(o, m.new, <<>>)

\* Mutant: the parent is not told.
FarewellSilently(o) == <<RemoveMsg(o)>>

\* What annihilate sends up for object o, and the children that lose a parent
\* or a notice to one when the objects `gone` are deleted.
Farewell(o) ==
    (IF place[o].parent = NoParent THEN <<>>
       ELSE <<ChangeZone({place[o].parent}, o, Unplaced, place[o])>>) \o <<RemoveMsg(o)>>
Bereaved(gone) ==
    {c \in DoId : \/ c \in objects /\ place[c].parent \in gone
                  \/ \E m \in InFlight(c) : m.to \intersect gone # {}}

\* annihilate, of one object after the other.  Their children stay.
Annihilate(order) ==
    LET gone == ToSet(order)
        reset(f, v) == [o \in DoId |-> IF o \in gone THEN v ELSE f[o]]
    IN  /\ objects' = objects \ gone
        /\ place' = reset(place, Unplaced)
        /\ ai_channel' = reset(ai_channel, NoAI)
        /\ explicit' = explicit \ gone
        /\ zone_objects' = reset(zone_objects, {})
        /\ outbox' = outbox \o FlattenSeq([i \in DOMAIN order |-> Farewell(order[i])])
        /\ disturbed' = disturbed \union Bereaved(gone)

\* STATESERVER_OBJECT_CHANGE_ZONE at the parents among the objects.  A parent
\* that does not have the child where it comes from raises KeyError, which
\* also ends the loop over the parents that were still to hear the notice.
Reindex(m) ==
    LET parents == m.to \intersect objects
        leaves(p) == IF p = m.old.parent THEN {<<m.old.zone, m.child>>} ELSE {}
        enters(p) == IF p = m.new.parent THEN {<<m.new.zone, m.child>>} ELSE {}
        able == {p \in parents : leaves(p) \subseteq zone_objects[p]}
    IN  \E done \in IF able = parents THEN {able} ELSE SUBSET able :
          zone_objects' = [p \in DoId |->
              IF p \in done THEN (zone_objects[p] \ leaves(p)) \union enters(p)
                            ELSE zone_objects[p]]

\* handle_query_zone: the entries of the children are sent one by one, the
\* answer last; a child that does not exist raises KeyError before it.
Listed(o, zones) == {entry[2] : entry \in {e \in zone_objects[o] : e[1] \in zones}}
QueryZone(o, m) ==
    unanswered' = IF Listed(o, m.zones) \subseteq objects THEN unanswered ELSE unanswered + 1

-----------------------------------------------------------------------------
(* The steps of the state server, the master and the other processes *)

\* The state server processes the next datagram from the master.
Process ==
    /\ ~hung
    /\ inbox # <<>>
    /\ LET m == Head(inbox)
       IN  \/ /\ m.to \intersect (objects \union {SS}) = {}
              /\ UNCHANGED <<objectVars, outbox, hung, historyVars>>
           \/ /\ m.type = "CHANGE_ZONE" /\ m.to \intersect objects # {}
              /\ Reindex(m)
              /\ UNCHANGED <<objects, place, ai_channel, explicit, outbox, hung, historyVars>>
           \/ /\ m.type = "GENERATE"
              /\ Generate(m)
              /\ UNCHANGED <<explicit, zone_objects, unanswered>>
           \/ /\ m.type = "SET_ZONE"
              /\ \E o \in m.to \intersect objects : SetZone(o, m)
              /\ UNCHANGED <<objects, explicit, zone_objects, unanswered>>
           \/ /\ m.type = "DELETE_RAM"
              /\ \E o \in m.to \intersect objects : Annihilate(<<o>>)
              /\ UNCHANGED <<hung, unanswered>>
           \/ /\ m.type = "QUERY_ZONE"
              /\ \E o \in m.to \intersect objects : QueryZone(o, m)
              /\ UNCHANGED <<objectVars, outbox, hung, disturbed>>
           \/ /\ m.type = "ADD_AI"
              /\ IF m.do_id \in objects
                   THEN /\ ai_channel' = [ai_channel EXCEPT ![m.do_id] = m.ai]
                        /\ explicit' = explicit \union {m.do_id}
                   ELSE UNCHANGED <<ai_channel, explicit>>
              /\ UNCHANGED <<objects, place, zone_objects, outbox, hung, historyVars>>
           \/ /\ m.type = "SHARD_REST"
              /\ \E order \in SetToSeqs({o \in objects : ai_channel[o] = m.ai}) :
                     Annihilate(order)
              /\ UNCHANGED <<hung, unanswered>>
    /\ inbox' = Tail(inbox)
    /\ UNCHANGED <<routing, listening, sent>>

\* The master takes the next message from the state server's connection.
Forward ==
    /\ outbox # <<>>
    /\ LET m == Head(outbox)
       IN  IF m.type = "CHANGE_ZONE"
             THEN routing' = Append(routing, m) /\ UNCHANGED listening
             ELSE /\ listening' = IF m.type = "SET_CHANNEL" THEN listening \union {m.channel}
                                                            ELSE listening \ {m.channel}
                  /\ UNCHANGED routing
    /\ outbox' = Tail(outbox)
    /\ UNCHANGED <<objectVars, inbox, hung, sent, historyVars>>

\* The master routes the next datagram.
Route ==
    /\ routing # <<>>
    /\ inbox' = IF Head(routing).to \intersect listening # {}
                  THEN Append(inbox, Head(routing)) ELSE inbox
    /\ routing' = Tail(routing)
    /\ UNCHANGED <<objectVars, outbox, listening, hung, sent, historyVars>>

\* Another process sends a message.
Send(r) ==
    /\ sent < MaxRequests
    /\ sent' = sent + 1
    /\ routing' = Append(routing, r)
    /\ UNCHANGED <<objectVars, outbox, inbox, listening, hung, historyVars>>

Next == Process \/ Forward \/ Route \/ \E r \in Requests : Send(r)

\* The two processes go on while they have work.
Fairness == WF_vars(Process) /\ WF_vars(Forward) /\ WF_vars(Route)

Spec == Init /\ [][Next]_vars /\ Fairness

-----------------------------------------------------------------------------
(* Properties *)

TypeOK ==
    /\ objects \subseteq DoId
    /\ place \in [DoId -> Place]
    /\ ai_channel \in [DoId -> AI \union {NoAI}]
    /\ explicit \subseteq objects
    /\ zone_objects \in [DoId -> SUBSET ((Zone \union {0}) \X DoId)]
    /\ \A o \in DoId \ objects :
          place[o] = Unplaced /\ ai_channel[o] = NoAI /\ zone_objects[o] = {}
    /\ outbox \in Seq(Notice \union Control)
    /\ routing \in Seq(Notice \union Request)
    /\ inbox \in Seq(Notice \union Request)
    /\ listening \subseteq Channel
    /\ hung \in BOOLEAN
    /\ sent \in 0..MaxRequests
    /\ unanswered \in Nat
    /\ disturbed \subseteq DoId

\* Where the parents' indexes have child c, and where c is.
Indexed(c) == {l \in Place : l.parent \in objects /\ <<l.zone, c>> \in zone_objects[l.parent]}
Under(l)   == IF l.parent = NoParent THEN {} ELSE {l}
Located(c) == IF c \in objects THEN Under(place[c]) ELSE {}

\* Where the first n messages on their way will have led child c's parents.
Led(c, n) == LET past == {i \in Notices(c) : i <= n}
             IN  IF past = {} THEN Indexed(c) ELSE Under(Way[Max(past)].new)

\* The notices of child c on their way lead, one by one and without a gap,
\* from where its parents have it to where it is; with none on its way the
\* index is exact.  Unless a parent was missing or went away on the child's
\* path, or a move was botched (handle_location_change, annihilate,
\* handle_datagram, and the path of a notice through the master).
NoticeChain ==
    \A c \in DoId \ disturbed :
        /\ \A i \in Notices(c) : Under(Way[i].old) = Led(c, i - 1)
        /\ Led(c, Len(Way)) = Located(c)

\* A zone query is left without its answer only while a notice that takes one
\* of the children, deleted since, from its parent is on its way, or because
\* of a child that is cut off from its parent for good (handle_query_zone,
\* annihilate).
QueryFailsOnlyInWindow ==
    [][unanswered' # unanswered =>
         \E c \in DoId \ objects :
            \/ c \in disturbed
            \/ \E m \in InFlight(c) : Under(m.new) = {}]_vars

\* Once the other processes stop, every index becomes exact and stays so
\* (the notices are processed, whatever order they were interleaved in).
IndexSettles ==
    <>[](hung \/ \A c \in DoId \ disturbed : Indexed(c) = Located(c))

=============================================================================
