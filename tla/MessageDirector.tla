---------------------------- MODULE MessageDirector ----------------------------
(***************************************************************************)
(* MasterMessageDirector of otp/messagedirector.py: the process every      *)
(* other one is connected to.  A connection is an MDProtocol, which is     *)
(* also the participant; a peer that comes back gets a new one, so a       *)
(* member of Participant connects and is lost once.                        *)
(*                                                                         *)
(* inbox[p] holds the datagrams the peer has sent and handle_datagrams has *)
(* not consumed, on the wire or in buf.  Control messages act when they    *)
(* are received; everything else is queued and routed later by one task,   *)
(* so a control message overtakes the data queued before it.  Every queue  *)
(* entry is (None, dg): the sender itself is not excluded from receiving.  *)
(***************************************************************************)
EXTENDS Integers, SequencesExt, SubscriptionTable

CONSTANTS Participant,  \* the connections
          Channel,      \* the channels in use, a range of numbers
          Types,        \* the message types the peers use
          MaxSends      \* bound: datagrams the peers send in a behaviour

ASSUME DirectorAssumption ==
    /\ Channel \subseteq Nat
    /\ \A low, high \in Channel : low..high \subseteq Channel
    /\ MaxSends \in Nat

VARIABLES participants,          \* service.participants: the live connections
          lost,                  \* connections that came and went
          inbox,                 \* per connection: received, not handled
          channels,              \* per participant: its own set of channels
          channel_subscriptions, \* per channel: the participants that hear it
          post_removes,          \* per participant: last words to publish
          q,                     \* the director's queue
          routing,               \* whether the task route is alive
          outgoing_q,            \* per connection: routed, not yet written
          sent,                  \* number of datagrams the peers have sent
          delivered,             \* history, per connection: written to the peer
          routed,                \* history: the datagrams routed so far
          promised,              \* history: post removes accepted, not cleared
          ranged                 \* history: channels named in a range message

tableVars   == <<channels, channel_subscriptions>>
historyVars == <<delivered, routed, promised, ranged>>
vars == <<participants, lost, inbox, channels, channel_subscriptions,
          post_removes, q, routing, outgoing_q, sent, delivered, routed, promised, ranged>>

-----------------------------------------------------------------------------
(* Datagrams.  `id` stands for the payload; `post` marks a post remove.    *)
(* One that ends within its list of recipients has none that can be read.  *)

Datagram == [from : Participant, to : SUBSET Channel, id : 1..MaxSends, post : BOOLEAN]

Message ==
         [type : {"SET_CHANNEL", "REMOVE_CHANNEL"}, channel : Channel]
  \union [type : {"ADD_RANGE", "REMOVE_RANGE"}, low : Channel, high : Channel]
  \union [type : {"ADD_POST_REMOVE", "ROUTED", "TRUNCATED"}, dg : Datagram]
  \union [type : {"CLEAR_POST_REMOVE"}]

\* What a peer may send as datagram number n.
MessagesFrom(p, n) ==
    {m \in [type : {"SET_CHANNEL", "REMOVE_CHANNEL"}, channel : Channel]
           \union [type : {"ADD_RANGE", "REMOVE_RANGE"}, low : Channel, high : Channel]
           \union [type : {"ROUTED"}, dg : [from : {p}, to : SUBSET Channel \ {{}},
                                            id : {n}, post : {FALSE}]]
           \union [type : {"TRUNCATED"}, dg : [from : {p}, to : {{}}, id : {n}, post : {FALSE}]]
           \union [type : {"ADD_POST_REMOVE"}, dg : [from : {p}, to : {{c} : c \in Channel},
                                                     id : {n}, post : {TRUE}]]
           \union [type : {"CLEAR_POST_REMOVE"}]
     : m.type \in Types}

-----------------------------------------------------------------------------

Init ==
    /\ participants = {}
    /\ lost = {}
    /\ inbox = [p \in Participant |-> <<>>]
    /\ channels = [p \in Participant |-> {}]
    /\ channel_subscriptions = [c \in Channel |-> {}]
    /\ post_removes = [p \in Participant |-> <<>>]
    /\ q = <<>>
    /\ routing = TRUE
    /\ outgoing_q = [p \in Participant |-> <<>>]
    /\ sent = 0
    /\ delivered = [p \in Participant |-> <<>>]
    /\ routed = {}
    /\ promised = [p \in Participant |-> {}]
    /\ ranged = [p \in Participant |-> {}]

\* new_client: the constructor of MDProtocol adds the participant.
Connect(p) ==
    /\ p \notin participants \union lost
    /\ participants' = participants \union {p}
    /\ UNCHANGED <<lost, inbox, tableVars, post_removes, q, routing, outgoing_q, sent,
                   historyVars>>

\* The peer sends a datagram.
Arrive(p, m) ==
    /\ p \in participants
    /\ sent < MaxSends
    /\ sent' = sent + 1
    /\ inbox' = [inbox EXCEPT ![p] = Append(@, m)]
    /\ UNCHANGED <<participants, lost, tableVars, post_removes, q, routing, outgoing_q,
                   historyVars>>

\* What receive_datagram does with the next datagram, by kind.
SetChannel(p, m) ==
    /\ m.type = "SET_CHANNEL"
    /\ channels' = [channels EXCEPT ![p] = @ \union {m.channel}]
    /\ channel_subscriptions' = Subscribed(channel_subscriptions, p, m.channel)
    /\ UNCHANGED <<post_removes, q, promised, ranged>>

\* Mutant: only the director's side forgets the channel.
RemoveFromTable(p, m) ==
    /\ m.type = "REMOVE_CHANNEL"
    /\ channel_subscriptions' = Unsubscribed(channel_subscriptions, p, m.channel)
    /\ UNCHANGED <<channels, post_removes, q, promised, ranged>>

RemoveChannel(p, m) ==
    /\ m.type = "REMOVE_CHANNEL"
    /\ channels' = [channels EXCEPT ![p] = @ \ {m.channel}]
    /\ channel_subscriptions' = Unsubscribed(channel_subscriptions, p, m.channel)
    /\ UNCHANGED <<post_removes, q, promised, ranged>>

\* A range (the last channel not included) touches only the participant's
\* own set: it neither subscribes to the channels nor unsubscribes from them.
RangeOf(m) == m.low .. m.high - 1

AddRange(p, m) ==
    /\ m.type = "ADD_RANGE"
    /\ channels' = [channels EXCEPT ![p] = @ \union RangeOf(m)]
    /\ ranged' = [ranged EXCEPT ![p] = @ \union RangeOf(m)]
    /\ UNCHANGED <<channel_subscriptions, post_removes, q, promised>>

RemoveRange(p, m) ==
    /\ m.type = "REMOVE_RANGE"
    /\ channels' = [channels EXCEPT ![p] = @ \ RangeOf(m)]
    /\ ranged' = [ranged EXCEPT ![p] = @ \union RangeOf(m)]
    /\ UNCHANGED <<channel_subscriptions, post_removes, q, promised>>

AddPostRemove(p, m) ==
    /\ m.type = "ADD_POST_REMOVE"
    /\ post_removes' = [post_removes EXCEPT ![p] = Append(@, m.dg)]
    /\ promised' = [promised EXCEPT ![p] = @ \union {m.dg}]
    /\ UNCHANGED <<tableVars, q, ranged>>

ClearPostRemove(p, m) ==
    /\ m.type = "CLEAR_POST_REMOVE"
    /\ post_removes' = [post_removes EXCEPT ![p] = <<>>]
    /\ promised' = [promised EXCEPT ![p] = {}]
    /\ UNCHANGED <<tableVars, q, ranged>>

Enqueue(p, m) ==
    /\ m.type \in {"ROUTED", "TRUNCATED"}
    /\ q' = Append(q, m.dg)
    /\ UNCHANGED <<tableVars, post_removes, promised, ranged>>

ReceiveDatagram(p) ==
    /\ p \in participants
    /\ inbox[p] # <<>>
    /\ LET m == Head(inbox[p])
       IN  \/ SetChannel(p, m)
           \/ RemoveChannel(p, m)
           \/ AddRange(p, m)
           \/ RemoveRange(p, m)
           \/ AddPostRemove(p, m)
           \/ ClearPostRemove(p, m)
           \/ Enqueue(p, m)
    /\ inbox' = [inbox EXCEPT ![p] = Tail(@)]
    /\ UNCHANGED <<participants, lost, routing, outgoing_q, sent, delivered, routed>>

\* Mutants: the post removes jump the queue; they are forgotten.
PostRemoveJumps(p)   == post_removes[p] \o q
PostRemoveForgets(p) == q

\* post_remove: the queue once the post removes of p are in it.
PostRemove(p) == q \o post_removes[p]

\* remove_participant.
RemoveParticipant(p) ==
    /\ channel_subscriptions' = UnsubscribedAll(channel_subscriptions, p, channels[p])
    /\ channels' = [channels EXCEPT ![p] = {}]
    /\ participants' = participants \ {p}

\* connection_lost: the tasks of the connection are cancelled, so what they
\* have not read or written is gone; the participant leaves the table; then
\* its post removes are queued.
ConnectionLost(p) ==
    /\ p \in participants
    /\ lost' = lost \union {p}
    /\ inbox' = [inbox EXCEPT ![p] = <<>>]
    /\ RemoveParticipant(p)
    /\ q' = PostRemove(p)
    /\ post_removes' = [post_removes EXCEPT ![p] = <<>>]
    /\ UNCHANGED <<routing, outgoing_q, sent, historyVars>>

\* route and process_datagram: the table decides who hears the datagram now,
\* not when it was sent.  Recipients that cannot be read raise outside of
\* any try: the task that routes is over, and nobody starts another.
Readable(dg) == dg.to # {}

Route ==
    /\ routing
    /\ q # <<>>
    /\ LET dg == Head(q)
           receiving == Receivers(channel_subscriptions, dg.to)
       IN  /\ routing' = Readable(dg)
           /\ outgoing_q' = [p \in Participant |->
                               IF p \in receiving THEN Append(outgoing_q[p], dg)
                                                  ELSE outgoing_q[p]]
           /\ routed' = IF Readable(dg) THEN routed \union {dg} ELSE routed
    /\ q' = Tail(q)
    /\ UNCHANGED <<participants, lost, inbox, tableVars, post_removes, sent,
                   delivered, promised, ranged>>

\* transport_datagrams, a task of the connection.
Transmit(p) ==
    /\ p \in participants
    /\ outgoing_q[p] # <<>>
    /\ delivered' = [delivered EXCEPT ![p] = Append(@, Head(outgoing_q[p]))]
    /\ outgoing_q' = [outgoing_q EXCEPT ![p] = Tail(@)]
    /\ UNCHANGED <<participants, lost, inbox, tableVars, post_removes, q, routing, sent,
                   routed, promised, ranged>>

Next ==
    \/ Route
    \/ \E p \in Participant :
         \/ Connect(p)
         \/ ReceiveDatagram(p)
         \/ ConnectionLost(p)
         \/ Transmit(p)
         \/ \E m \in MessagesFrom(p, sent + 1) : Arrive(p, m)

\* The route task and the two tasks of a connection run again whenever they
\* have work; nothing obliges a peer to send or a connection to break.
Fairness ==
    /\ WF_vars(Route)
    /\ \A p \in Participant : WF_vars(ReceiveDatagram(p)) /\ WF_vars(Transmit(p))

Spec == Init /\ [][Next]_vars /\ Fairness

-----------------------------------------------------------------------------
(* Properties *)

TypeOK ==
    /\ participants \subseteq Participant
    /\ lost \subseteq Participant \ participants
    /\ inbox \in [Participant -> Seq(Message)]
    /\ channels \in [Participant -> SUBSET Channel]
    /\ channel_subscriptions \in [Channel -> SUBSET Participant]
    /\ post_removes \in [Participant -> Seq(Datagram)]
    /\ q \in Seq(Datagram)
    /\ routing \in BOOLEAN
    /\ outgoing_q \in [Participant -> Seq(Datagram)]
    /\ sent \in 0..MaxSends
    /\ delivered \in [Participant -> Seq(Datagram)]
    /\ routed \subseteq Datagram
    /\ promised \in [Participant -> SUBSET Datagram]
    /\ ranged \in [Participant -> SUBSET Channel]

\* The two sides of a subscription agree, and whoever is not connected has
\* neither, except on channels a range message named: add_range and
\* remove_range change one side only (subscribe_channel, unsubscribe_channel,
\* unsubscribe_all, receive_datagram).
SubscriptionMirror ==
    /\ \A p \in Participant : \A c \in Channel \ ranged[p] :
          p \in channel_subscriptions[c] <=> c \in channels[p]
    /\ \A p \in Participant \ participants : channels[p] = {}

\* a must reach a receiver before b: the peer's data in the order it was
\* sent, its post removes after that, in the order they were left.
Before(a, b) ==
    \/ ~a.post /\ b.post
    \/ a.post = b.post /\ a.id < b.id

\* Whatever a receiver has been and will be given of one sender comes in that
\* order and nothing comes twice, even when it hears several of the channels
\* a datagram is addressed to (handle_datagrams, q, process_datagram,
\* outgoing_q, post_remove).
SenderOrder ==
    \A p \in Participant :
        LET heard == delivered[p] \o outgoing_q[p] \o q
        IN  \A i, j \in DOMAIN heard :
                i < j /\ heard[i].from = heard[j].from => Before(heard[i], heard[j])

\* A post remove is published when, and only when, its connection is lost,
\* unless the peer cleared it first (post_remove, connection_lost).
PostRemovesFollowLoss ==
    \A p \in Participant :
        IF p \in lost
          THEN promised[p] \subseteq ToSet(q) \union routed
          ELSE /\ ToSet(post_removes[p]) = promised[p]
               /\ \A dg \in ToSet(q) \union routed : dg.from = p => ~dg.post

\* A connection that is gone is handed nothing any more, except on a channel
\* that a range message of its own had detached from its subscription
\* (remove_participant, unsubscribe_all).
DepartedHearNothing ==
    [][\A p \in lost : outgoing_q'[p] # outgoing_q[p]
                         => Head(q).to \intersect ranged[p] # {}]_vars

\* The last words of a lost connection get routed, whatever the other
\* connections do - unless one of them sent a datagram that cannot be read,
\* which stops the director for everybody (post_remove, route).
LastWordsRouted ==
    \A p \in Participant : p \in lost ~> promised[p] \subseteq routed \/ ~routing

=============================================================================
