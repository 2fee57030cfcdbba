---------------------------- MODULE ClientInterest ----------------------------
(***************************************************************************)
(* The interests of one client, in otp/clientprotocol.py: which locations  *)
(* (a parent and a zone) it wants to see, and the objects it has been      *)
(* shown.  While an interest is open, that is, until the state server has  *)
(* answered its query, what arrives about new objects is queued per object *)
(* and replayed when the answer is complete.  Meanwhile objects move.      *)
(*                                                                         *)
(*   uplink    what the client agent has sent to the master                *)
(*   routing   the master's queue, with the state server's connection      *)
(*   atServer  routed to the parent objects on the state server            *)
(*   inbox     routed to the client agent, not yet processed               *)
(*                                                                         *)
(* The client is in state PLAY_GAME and owns no object; owners and avatars *)
(* are outside.  The state server is as in module StateServer, reduced to  *)
(* parents that stay and children that are generated, moved, updated and   *)
(* deleted; the entry of the parent itself, which precedes the others in   *)
(* an answer, is left out.                                                 *)
(***************************************************************************)
EXTENDS Integers, SequencesExt

CONSTANTS Object,       \* the objects clients may see
          Parent,       \* the parents of locations
          Zone,         \* their zones
          Nowhere,      \* the place of an object that does not exist
          Handle,       \* the handles of interests
          None,         \* no interest under a handle
          Unseen,       \* an object the client has not been shown
          Self,         \* the client's own channel
          Shared,       \* locations that another client of the agent hears
          FromAI,       \* whether interests are set by clients, by AIs, or both
          MaxRequests,  \* bound: interests added or altered in a behaviour
          MaxEvents     \* bound: changes of objects in a behaviour

Location == [parent : Parent, zone : Zone]
Context  == 1..MaxRequests
Value    == 0..MaxEvents

Interest == [parent : Parent, zones : SUBSET Zone, context : Context,
             done : BOOLEAN, pending_objects : SUBSET Object]
Copy     == [at : Location, val : Value]

ASSUME InterestAssumption ==
    /\ IsFiniteSet(Object) /\ IsFiniteSet(Parent) /\ IsFiniteSet(Zone)
    /\ Nowhere \notin Location /\ Self \notin Location
    /\ None \notin Interest /\ Unseen \notin Copy
    /\ Shared \subseteq Location
    /\ FromAI \subseteq BOOLEAN
    /\ MaxRequests \in Nat /\ MaxEvents \in Nat

VARIABLES interests,   \* per handle: the interest, or None
          shown,       \* per object: visible_objects, with the field value sent along
          queued,      \* per object: its pending datagrams, <<>> if not pending
          channels,    \* the locations the client hears
          uplink, routing, atServer, inbox,
          upstream,    \* the locations the master has the agent subscribed to
          place,       \* state server: where each object is
          value,       \* state server: the value of its broadcast field
          index,       \* state server: zone_objects of the parents, <<location, object>>
          requests,    \* number of interests added or altered
          events,      \* number of changes
          unanswered,  \* history: contexts whose query raised KeyError
          left,        \* history: the locations the client has stopped hearing
          strayed      \* history: objects that one of the races below has hit

clientVars == <<interests, shown, queued, channels>>
serverVars == <<place, value, index>>
vars == <<interests, shown, queued, channels, uplink, routing, atServer, inbox, upstream,
          place, value, index, requests, events, unanswered, left, strayed>>

-----------------------------------------------------------------------------
(* Messages.  `to` are the channels among the locations and the client's   *)
(* own; a CHANGE_ZONE also goes to the parents involved.                   *)

Entry(o, to, l) == [type |-> "ENTERZONE", to |-> to, obj |-> o, at |-> l, val |-> value[o]]
ChangeZone(o, to, new, old) ==
    [type |-> "CHANGE_ZONE", to |-> to, obj |-> o, new |-> new, old |-> old]
Update(o, v)      == [type |-> "UPDATE_FIELD", to |-> {place[o]}, obj |-> o, val |-> v]
DeleteRam(o)      == [type |-> "DELETE_RAM", to |-> {place[o]}, obj |-> o]
Done(query)       == [type |-> "DONE", to |-> {Self}, handle |-> query.handle,
                      context |-> query.context]
Query(h, c, p, zs) == [type |-> "QUERY", to |-> {}, handle |-> h, context |-> c,
                       parent |-> p, zones |-> zs]
SetMsg(l)         == [type |-> "SET_CHANNEL", channel |-> l]
RemoveMsg(l)      == [type |-> "REMOVE_CHANNEL", channel |-> l]

Control == [type : {"SET_CHANNEL", "REMOVE_CHANNEL"}, channel : Location]
Queries == [type : {"QUERY"}, to : {{}}, handle : Handle, context : Context,
            parent : Parent, zones : SUBSET Zone]
Answers == [type : {"DONE"}, to : {{Self}}, handle : Handle, context : Context]
Moves   == [type : {"CHANGE_ZONE"}, to : SUBSET Location, obj : Object,
            new : Location \union {Nowhere}, old : Location \union {Nowhere}]
News    == Moves
           \union [type : {"ENTERZONE"}, to : SUBSET (Location \union {Self}), obj : Object,
                   at : Location, val : Value]
           \union [type : {"UPDATE_FIELD"}, to : SUBSET Location, obj : Object, val : Value]
           \union [type : {"DELETE_RAM"}, to : SUBSET Location, obj : Object]

-----------------------------------------------------------------------------
(* Interests *)

Zones(p, zs)      == {[parent |-> p, zone |-> z] : z \in zs}
Locations(i)      == IF i = None THEN {} ELSE Zones(i.parent, i.zones)
Covered(ints)     == UNION {Locations(ints[h]) : h \in Handle}
OpenAt(ints, l)   == {h \in Handle : l \in Locations(ints[h]) /\ ~ints[h].done}
DoneAt(ints, l)   == {h \in Handle : l \in Locations(ints[h]) /\ ints[h].done}
Others(h)         == [interests EXCEPT ![h] = None]

EnlistNowhere(ints, o, l) == ints

\* o is queued for every open interest in location l.
Enlist(ints, o, l) ==
    [h \in Handle |-> IF h \in OpenAt(ints, l)
                        THEN [ints[h] EXCEPT !.pending_objects = @ \union {o}] ELSE ints[h]]

\* What the client has of one object: the copy it has been shown, or Unseen,
\* and the datagrams that are pending.
ObjectState(o) == [copy |-> shown[o], pending |-> queued[o]]
QueuePending(st, m) == IF st.pending = <<>> THEN st ELSE [st EXCEPT !.pending = Append(@, m)]
Disabled(st)        == [st EXCEPT !.copy = Unseen]

\* handle_object_entrance
Entered(ints, st, m) ==
    IF OpenAt(ints, m.at) # {} THEN [st EXCEPT !.pending = <<m>>]
    ELSE IF st.copy # Unseen THEN st
    ELSE [st EXCEPT !.copy = [at |-> m.at, val |-> m.val]]

\* handle_location_change, and before it queue_pending
Moved(ints, st, m) ==
    IF st.pending # <<>> THEN QueuePending(st, m)
    ELSE IF st.copy = Unseen THEN st
    ELSE IF m.new \in Covered(ints) THEN [st EXCEPT !.copy.at = m.new]
    ELSE Disabled(st)

Updated(st, m) == IF st.copy = Unseen THEN QueuePending(st, m) ELSE [st EXCEPT !.copy.val = m.val]

DeletedUnqueued(st, m) == Disabled(st)

Deleted(st, m) == IF st.copy = Unseen THEN QueuePending(st, m) ELSE Disabled(st)

\* handle_datagram for what is about an object
Received(ints, st, m) ==
    CASE m.type = "ENTERZONE"    -> Entered(ints, st, m)
      [] m.type = "CHANGE_ZONE"  -> Moved(ints, st, m)
      [] m.type = "UPDATE_FIELD" -> Updated(st, m)
      [] m.type = "DELETE_RAM"   -> Deleted(st, m)

\* The datagrams of a pending object are taken from it and handled again.
Replayed(ints, st) ==
    LET after[n \in 0..Len(st.pending)] ==
            IF n = 0 THEN [st EXCEPT !.pending = <<>>]
                     ELSE Received(ints, after[n - 1], st.pending[n])
    IN  after[Len(st.pending)]

-----------------------------------------------------------------------------
(* The client *)

\* subscribe_channel and unsubscribe_channel of the agent: a location that
\* another client hears stays subscribed.
Resubscribe(gone, wanted, query) ==
    \E removed \in SetToSeqs(gone \ Shared),
       added \in SetToSeqs((wanted \ (channels \ gone)) \ Shared) :
        /\ channels' = (channels \ gone) \union wanted
        /\ left' = left \union gone
        /\ uplink' = uplink \o [i \in DOMAIN removed |-> RemoveMsg(removed[i])]
                            \o [i \in DOMAIN added |-> SetMsg(added[i])] \o query

\* What the client is shown once it has been told to drop the objects in ls.
Hidden(ls) == [o \in Object |-> IF shown[o] # Unseen /\ shown[o].at \in ls
                                  THEN Unseen ELSE shown[o]]

\* The races in which the client ends up with something else than the truth;
\* `strayed` collects the objects they have hit.
\*   Outside    an object is shown where no interest is: the entry answers an
\*              interest that is gone, or comes from a channel left subscribed
\*   Outlived   DELETE_RAM finds it shown and pending: the entry is replayed later
\*   Unheard    it moves to a location where no interest is done yet, which the
\*              master may not have subscribed: its news there may be missed
\*   Overtaken  an entry comes while older datagrams are pending, and is shown at
\*              once, or replaces moves of an object that is shown
\*   Abandoned  it is pending for an interest that goes, and stays pending
\*   Dropped    an altered interest was the last that kept it pending, though
\*              another covers its location, or it is shown and was to move
\*   Belated    an interest comes to where its pending datagrams take it, after
\*              its news there may have been missed
\*   Hasty      the client returns to a location while the traffic of the
\*              earlier visit is on its way
Abandoned(i) == {o \in i.pending_objects : queued[o] # <<>>}
Where(m) == CASE m.type = "ENTERZONE" -> m.at
              [] m.type = "CHANGE_ZONE" -> m.new
              [] OTHER -> Nowhere
ToMove == {o \in Object : /\ shown[o] # Unseen
                          /\ \E i \in DOMAIN queued[o] : queued[o][i].type = "CHANGE_ZONE"}
Outside(objs, ints) == {o \in Object : objs[o] # Unseen /\ objs[o].at \notin Covered(ints)}
Outlived(m) == {o \in Object : m.type = "DELETE_RAM" /\ m.obj = o
                                 /\ shown[o] # Unseen /\ queued[o] # <<>>}
Unheard(m)  == {o \in Object : /\ m.type = "CHANGE_ZONE" /\ m.obj = o
                               /\ shown[o] # Unseen \/ queued[o] # <<>>
                               /\ m.new \in Covered(interests) /\ DoneAt(interests, m.new) = {}}
Overtaken(m) == {o \in Object : /\ m.type = "ENTERZONE" /\ m.obj = o /\ queued[o] # <<>>
                                /\ OpenAt(interests, m.at) = {} \/ o \in ToMove}
Dropped(ints, q) ==
    {o \in ToMove : q[o] = <<>>}
      \union {o \in Object : /\ queued[o] # <<>> /\ q[o] = <<>>
                            /\ \E i \in DOMAIN queued[o] : Where(queued[o][i]) \in Covered(ints)}
Belated(ints, q) == {o \in Object : \E i \in DOMAIN q[o] :
                                        Where(q[o][i]) \in Covered(ints) \ Covered(interests)}
Still    == uplink = <<>> /\ routing = <<>> /\ atServer = <<>> /\ inbox = <<>>
Hasty(ls) == ls \intersect (left \ channels) # {} /\ ~Still

RemoveInterestAlone(h) ==
    /\ interests[h] # None
    /\ shown' = Hidden(Locations(interests[h]))
    /\ Resubscribe(Locations(interests[h]), {}, <<>>)
    /\ interests' = Others(h)
    /\ UNCHANGED <<queued, routing, atServer, inbox, upstream, serverVars, requests,
                   events, unanswered, strayed>>

\* receive_remove_interest.  Objects that are pending for it stay pending.
RemoveInterest(h) ==
    LET lonely == Locations(interests[h]) \ Covered(Others(h))
    IN  /\ interests[h] # None
        /\ shown' = Hidden(lonely)
        /\ Resubscribe(lonely, {}, <<>>)
        /\ interests' = Others(h)
        /\ strayed' = strayed \union Abandoned(interests[h])
        /\ UNCHANGED <<queued, routing, atServer, inbox, upstream, serverVars, requests,
                       events, unanswered>>

KilledZonesNone(h, p, zs) == {}

\* The zones killed by altering interest h, compared without their parent.
KilledZones(h, p, zs) ==
    LET old == interests[h]
    IN  (IF old.parent # p THEN old.zones ELSE old.zones \ zs)
          \ UNION {interests[g].zones : g \in {g \in Handle \ {h} : interests[g] # None}}

\* Altering to another parent raises AttributeError when there is another
\* interest: the old one is gone by then.
AlterRaises(h, p) ==
    /\ interests[h] # None
    /\ interests[h].parent # p
    /\ \E g \in Handle \ {h} : interests[g] # None

\* receive_add_interest.  What a client sent is handled again after an
\* exception (handle_datagrams), now as a new interest; what an AI sent is not.
AddInterest(h, p, zs, ai) ==
    LET old    == interests[h]
        alters == old # None /\ ~AlterRaises(h, p)
        killed == IF alters THEN KilledZones(h, p, zs) ELSE {}
        context == requests + 1
        new    == [parent |-> p, zones |-> zs, context |-> context, done |-> zs = {},
                   pending_objects |-> {}]
        ints   == [interests EXCEPT ![h] = new]
        needed == UNION {ints[g].pending_objects : g \in {g \in Handle : ints[g] # None}}
    IN  /\ requests < MaxRequests
        /\ requests' = context
        /\ IF ai /\ AlterRaises(h, p)
             THEN /\ interests' = Others(h)
                  /\ UNCHANGED <<shown, queued, channels, uplink, left>>
             ELSE /\ interests' = ints
                  /\ shown' = Hidden(Zones(p, killed))
                  /\ queued' = [o \in Object |-> IF alters /\ o \notin needed THEN <<>> ELSE queued[o]]
                  /\ Resubscribe(IF alters THEN Zones(old.parent, killed) ELSE {}, Zones(p, zs),
                                 IF zs = {} /\ ~ai THEN <<>> ELSE <<Query(h, context, p, zs)>>)
        /\ strayed' = IF Hasty(Zones(p, zs)) THEN Object
                        ELSE strayed \union Outside(shown', interests')
                              \union Dropped(Others(h), queued') \union Belated(interests', queued')
                              \union (IF AlterRaises(h, p) THEN Abandoned(old) ELSE {})
        /\ UNCHANGED <<routing, atServer, inbox, upstream, serverVars, events, unanswered>>

\* handle_interest_done.
InterestDone(m) ==
    LET h == m.handle
        ints == [interests EXCEPT ![h].done = TRUE, ![h].pending_objects = {}]
        due == {o \in interests[h].pending_objects : queued[o] # <<>>}
        after == [o \in Object |-> IF o \in due THEN Replayed(ints, ObjectState(o)) ELSE ObjectState(o)]
        again(g) == {o \in due : after[o].pending # <<>> /\ g \in OpenAt(ints, after[o].pending[1].at)}
    IN  IF interests[h] = None \/ interests[h].context # m.context \/ interests[h].done
          THEN UNCHANGED <<interests, shown, queued>>
          ELSE /\ interests' = [g \in Handle |->
                      IF ints[g] = None THEN None
                      ELSE [ints[g] EXCEPT !.pending_objects = @ \union again(g)]]
               /\ shown' = [o \in Object |-> after[o].copy]
               /\ queued' = [o \in Object |-> after[o].pending]

\* handle_datagram for what is about an object.
ObjectNews(m) ==
    LET st == Received(interests, ObjectState(m.obj), m)
    IN  /\ shown' = [shown EXCEPT ![m.obj] = st.copy]
        /\ queued' = [queued EXCEPT ![m.obj] = st.pending]
        /\ interests' = IF m.type = "ENTERZONE" THEN Enlist(interests, m.obj, m.at) ELSE interests

\* The agent processes the next datagram from the master; it reaches the
\* client if it hears one of its channels now.
Receive ==
    /\ inbox # <<>>
    /\ LET m == Head(inbox)
       IN  IF m.to \intersect (channels \union {Self}) = {}
             THEN UNCHANGED <<interests, shown, queued, strayed>>
             ELSE /\ IF m.type = "DONE" THEN InterestDone(m) ELSE ObjectNews(m)
                  /\ strayed' = strayed \union Outside(shown', interests') \union Outlived(m)
                                         \union Unheard(m) \union Overtaken(m)
    /\ inbox' = Tail(inbox)
    /\ UNCHANGED <<channels, uplink, routing, atServer, upstream, serverVars, requests, events,
                   unanswered, left>>

-----------------------------------------------------------------------------
(* The master and the state server *)

\* The master handles the next message from the agent.
Forward ==
    /\ uplink # <<>>
    /\ LET m == Head(uplink)
       IN  \/ /\ m.type = "SET_CHANNEL"
              /\ upstream' = upstream \union {m.channel}
              /\ UNCHANGED routing
           \/ /\ m.type = "REMOVE_CHANNEL"
              /\ upstream' = upstream \ {m.channel}
              /\ UNCHANGED routing
           \/ /\ m.type = "QUERY"
              /\ routing' = Append(routing, m)
              /\ UNCHANGED upstream
    /\ uplink' = Tail(uplink)
    /\ UNCHANGED <<clientVars, atServer, inbox, serverVars, requests, events, unanswered, left, strayed>>

\* The master routes the next datagram.
Route ==
    /\ routing # <<>>
    /\ LET m == Head(routing)
       IN  /\ inbox' = IF m.to \intersect (upstream \union Shared \union {Self}) # {}
                         THEN Append(inbox, m) ELSE inbox
           /\ atServer' = IF m.type \in {"QUERY", "CHANGE_ZONE"}
                            THEN Append(atServer, m) ELSE atServer
    /\ routing' = Tail(routing)
    /\ UNCHANGED <<clientVars, uplink, upstream, serverVars, requests, events, unanswered, left, strayed>>

\* History: objects the index still lists where they are not any more.
Misplaced(m) == {o \in Object : place[o] # Nowhere /\ place[o] \notin Zones(m.parent, m.zones)
                                 /\ \E l \in Zones(m.parent, m.zones) : <<l, o>> \in index}

AnswerQueryIfAny(m) ==
    LET children == {e[2] : e \in {e \in index : e[1] \in Zones(m.parent, m.zones)}}
    IN  \E order \in SetToSeqs({o \in children : place[o] # Nowhere}) :
            /\ routing' = routing \o [i \in DOMAIN order |-> Entry(order[i], {Self}, place[order[i]])]
                                   \o (IF order = <<>> THEN <<>> ELSE <<Done(m)>>)
            /\ UNCHANGED unanswered

\* handle_query_zone: the entries of the children the index lists, then the
\* answer; at a child that does not exist any more it raises KeyError.
AnswerQuery(m) ==
    \E order \in SetToSeqs({e[2] : e \in {e \in index : e[1] \in Zones(m.parent, m.zones)}}) :
        LET live(n)  == \A i \in 1..n : place[order[i]] # Nowhere
            n        == CHOOSE n \in 0..Len(order) : live(n) /\ (n = Len(order) \/ ~live(n + 1))
            entries  == [i \in 1..n |-> Entry(order[i], {Self}, place[order[i]])]
        IN  /\ routing' = routing \o entries \o (IF n = Len(order) THEN <<Done(m)>> ELSE <<>>)
            /\ unanswered' = IF n = Len(order) THEN unanswered ELSE unanswered \union {m.context}

ReindexAlways(m) == index' = (index \ {<<m.old, m.obj>>}) \union {<<m.new, m.obj>>}

\* STATESERVER_OBJECT_CHANGE_ZONE at the parents.
Reindex(m) ==
    index' = (index \ {<<m.old, m.obj>>})
               \union (IF m.new = Nowhere THEN {} ELSE {<<m.new, m.obj>>})

\* The state server processes the next datagram for one of the parents.
Serve ==
    /\ atServer # <<>>
    /\ LET m == Head(atServer)
       IN  \/ /\ m.type = "QUERY"
              /\ AnswerQuery(m)
              /\ strayed' = strayed \union Misplaced(m)
              /\ UNCHANGED index
           \/ /\ m.type = "CHANGE_ZONE"
              /\ Reindex(m)
              /\ UNCHANGED <<routing, unanswered, strayed>>
    /\ atServer' = Tail(atServer)
    /\ UNCHANGED <<clientVars, uplink, inbox, upstream, place, value, requests, events, left>>

\* Other processes have the state server change object o.
Happens ==
    /\ events < MaxEvents
    /\ events' = events + 1
    /\ UNCHANGED <<clientVars, uplink, atServer, inbox, upstream, index, requests, unanswered,
                   left, strayed>>

\* handle_location_change, on generation and on SET_ZONE: the old location
\* hears of the move, the new one gets the entry.
Move(o, l) ==
    /\ place[o] # l
    /\ place' = [place EXCEPT ![o] = l]
    /\ routing' = routing \o
         <<ChangeZone(o, IF place[o] = Nowhere THEN {} ELSE {place[o]}, l, place[o]),
           Entry(o, {l}, l)>>
    /\ UNCHANGED value
    /\ Happens

\* annihilate.
Annihilate(o) ==
    /\ place[o] # Nowhere
    /\ place' = [place EXCEPT ![o] = Nowhere]
    /\ routing' = routing \o <<ChangeZone(o, {}, Nowhere, place[o]), DeleteRam(o)>>
    /\ UNCHANGED value
    /\ Happens

\* handle_one_update of a broadcast field.
UpdateField(o) ==
    /\ place[o] # Nowhere
    /\ value' = [value EXCEPT ![o] = events + 1]
    /\ routing' = Append(routing, Update(o, events + 1))
    /\ UNCHANGED place
    /\ Happens

Init ==
    /\ interests = [h \in Handle |-> None]
    /\ shown = [o \in Object |-> Unseen]
    /\ queued = [o \in Object |-> <<>>]
    /\ channels = {}
    /\ uplink = <<>> /\ routing = <<>> /\ atServer = <<>> /\ inbox = <<>>
    /\ upstream = {}
    /\ place \in [Object -> Location \union {Nowhere}]
    /\ value = [o \in Object |-> 0]
    /\ index = {<<place[o], o>> : o \in {o \in Object : place[o] # Nowhere}}
    /\ requests = 0 /\ events = 0
    /\ unanswered = {} /\ left = {} /\ strayed = {}

Next ==
    \/ \E h \in Handle : RemoveInterest(h)
    \/ \E h \in Handle, p \in Parent, zs \in SUBSET Zone, ai \in FromAI : AddInterest(h, p, zs, ai)
    \/ Receive \/ Forward \/ Route \/ Serve
    \/ \E o \in Object : Annihilate(o) \/ UpdateField(o) \/ \E l \in Location : Move(o, l)

Fairness == WF_vars(Receive) /\ WF_vars(Forward) /\ WF_vars(Route) /\ WF_vars(Serve)

Spec == Init /\ [][Next]_vars /\ Fairness

-----------------------------------------------------------------------------
(* Properties *)

\* The type of the state.  What is worth checking in it: the client never
\* shows an object, and the parents never list one, at a location that is none.
TypeOK ==
    /\ interests \in [Handle -> Interest \union {None}]
    /\ shown \in [Object -> Copy \union {Unseen}]
    /\ queued \in [Object -> Seq(News)]
    /\ channels \subseteq Location
    /\ uplink \in Seq(Control \union Queries)
    /\ routing \in Seq(News \union Queries \union Answers)
    /\ atServer \in Seq(Moves \union Queries)
    /\ inbox \in Seq(News \union Queries \union Answers)
    /\ upstream \subseteq Location
    /\ place \in [Object -> Location \union {Nowhere}]
    /\ value \in [Object -> Value]
    /\ index \subseteq Location \X Object
    /\ requests \in 0..MaxRequests
    /\ events \in 0..MaxEvents
    /\ unanswered \subseteq Context
    /\ left \subseteq Location
    /\ strayed \subseteq Object

\* Whatever interests are added, altered or removed, by the client or by an
\* AI, with zones that overlap, and with the exception that altering can
\* raise: the client hears every location of its interests.
InterestsHeard == Covered(interests) \subseteq channels

\* With one parent it hears no other location either.  (With several it
\* does: altering to another parent loses the old interest and its
\* subscriptions when it raises.)
NothingElseHeard == channels \subseteq Covered(interests)

\* An object is pending only for an interest that is open and will replay
\* it, unless such an interest was removed or another race has hit it.
PendingHasReason ==
    \A o \in Object \ strayed : queued[o] # <<>> =>
        \E h \in Handle : /\ interests[h] # None
                          /\ ~interests[h].done
                          /\ o \in interests[h].pending_objects

Quiet ==
    /\ Still
    /\ \A h \in Handle : interests[h] # None => interests[h].done

\* Once nothing is on its way and every interest is done, the client is
\* shown exactly the objects in the locations of its interests, each at its
\* place and with its latest value, however the answers to its queries
\* interleaved with the generation, moves, updates and deletion of the
\* objects: unless one of the races named above has hit the object.
ViewExact ==
    Quiet => \A o \in Object \ strayed :
        shown[o] = IF place[o] \in Covered(interests) THEN [at |-> place[o], val |-> value[o]]
                                                      ELSE Unseen

Waiting(c) == \E h \in Handle : /\ interests[h] # None
                                /\ interests[h].context = c
                                /\ ~interests[h].done

\* An interest does not stay open: it is done eventually, if it is not
\* removed or replaced and the state server has answered its query.
InterestCompletes == \A c \in Context : Waiting(c) ~> (~Waiting(c) \/ c \in unanswered)
=============================================================================
