----------------------------- MODULE ChannelRelay -----------------------------
(***************************************************************************)
(* DownstreamMessageDirector of otp/messagedirector.py (a state server, a  *)
(* client agent, ...) and the master's side of its connection.  Members    *)
(* are the participants of a director: the clients of an agent, the        *)
(* distributed objects of a state server.  A director subscribes upstream  *)
(* for the first of its members that wants a channel and unsubscribes for  *)
(* the last; in between it filters the traffic itself.                     *)
(*                                                                         *)
(* The master acts on a director's control messages in the order they were *)
(* sent, but routes data later (module MessageDirector).  A member that    *)
(* asks a question, e.g. ClientProtocol.receive_add_interest, names one of *)
(* its channels as the sender and waits for an answer on it: the model     *)
(* follows each request and its answer along the whole way.                *)
(***************************************************************************)
EXTENDS Integers, SequencesExt, SubscriptionTable

CONSTANTS Director, Member, Channel,
          Home(_),      \* the director a member belongs to
          MaxBacklog,   \* bound: messages on their way up before members pause
          MaxRequests   \* bound: requests made in a behaviour

ASSUME RelayAssumption ==
    /\ IsFiniteSet(Channel)
    /\ \A m \in Member : Home(m) \in Director
    /\ MaxBacklog \in Nat
    /\ MaxRequests \in Nat

VARIABLES connected,  \* the directors with an upstream connection
          channels,   \* per member: MDParticipant.channels
          localSubs,  \* per director: its channel_subscriptions
          known,      \* per director: the keys of channel_subscriptions
          uplink,     \* per director: sent upstream, not yet handled by the master
          upstream,   \* the master's channel_subscriptions
          open,       \* requests on their way from the master to an answer
          downlink,   \* per director: routed to it, not yet processed by it
          requests,   \* number of requests made
          asked,      \* history: requests whose asker still waits on the channel
          cut         \* history: answers an exception kept from their asker

memberVars == <<channels, localSubs, known>>
vars == <<connected, channels, localSubs, known, uplink, upstream, open,
          downlink, requests, asked, cut>>

-----------------------------------------------------------------------------

Request == [member : Member, channel : Channel, id : 1..MaxRequests]
Message == [type : {"SET_CHANNEL", "REMOVE_CHANNEL"}, channel : Channel]
           \union [type : {"REQUEST"}, request : Request]

SetMsg(c)    == [type |-> "SET_CHANNEL", channel |-> c]
RemoveMsg(c) == [type |-> "REMOVE_CHANNEL", channel |-> c]
RequestMsg(r) == [type |-> "REQUEST", request |-> r]

Init ==
    /\ connected = Director
    /\ channels = [m \in Member |-> {}]
    /\ localSubs = [d \in Director |-> [c \in Channel |-> {}]]
    /\ known = [d \in Director |-> {}]
    /\ uplink = [d \in Director |-> <<>>]
    /\ upstream = [c \in Channel |-> {}]
    /\ open = {}
    /\ downlink = [d \in Director |-> <<>>]
    /\ requests = 0
    /\ asked = {}
    /\ cut = {}

MayAct(d) == Len(uplink[d]) < MaxBacklog

\* send_datagram of the director's upstream connection.  Once the connection
\* is lost the queue has no reader any more, and what goes into it is ignored.
SendUp(d, msgs) ==
    uplink' = IF d \in connected THEN [uplink EXCEPT ![d] = @ \o msgs] ELSE uplink

\* Mutant: a channel whose subscribers have all left is not asked for again.
UnknownChannel(d, c) == c \notin known[d]

\* subscribe_upstream: nobody here hears c yet, or any more.
SubscribeUpstream(d, c) == localSubs[d][c] = {}

Subscribe(m, c) ==
    LET d == Home(m)
    IN  /\ MayAct(d)
        /\ channels' = [channels EXCEPT ![m] = @ \union {c}]
        /\ localSubs' = [localSubs EXCEPT ![d] = Subscribed(@, m, c)]
        /\ known' = [known EXCEPT ![d] = @ \union {c}]
        /\ SendUp(d, IF SubscribeUpstream(d, c) THEN <<SetMsg(c)>> ELSE <<>>)
        /\ UNCHANGED <<connected, upstream, open, downlink, requests, asked, cut>>

\* The requests member m gives up when it leaves the channels cs.
Waiting(m, cs) == {r \in asked : r.member = m /\ r.channel \in cs}

\* Mutants: every member that leaves a channel ends the subscription; none does.
AnyLeaver(d, m, c) == TRUE
NoLeaver(d, m, c)  == FALSE

\* The test of unsubscribe_channel after m has left c: nobody hears it now.
LastLeaver(d, m, c) == localSubs[d][c] \subseteq {m}

\* A channel that no member ever subscribed to has no entry: reading it
\* raises KeyError and nothing happens.  A channel without subscribers gets
\* another REMOVE_CHANNEL.
Unsubscribe(m, c) ==
    LET d == Home(m)
    IN  /\ MayAct(d)
        /\ c \in known[d]
        /\ channels' = [channels EXCEPT ![m] = @ \ {c}]
        /\ localSubs' = [localSubs EXCEPT ![d] = Unsubscribed(@, m, c)]
        /\ SendUp(d, IF LastLeaver(d, m, c) THEN <<RemoveMsg(c)>> ELSE <<>>)
        /\ asked' = asked \ Waiting(m, {c})
        /\ UNCHANGED <<connected, known, upstream, open, downlink, requests, cut>>

\* remove_participant: channels.pop() takes the member's channels in no
\* particular order.
MemberLeaves(m) ==
    LET d == Home(m)
        orphaned == {c \in channels[m] : LastLeaver(d, m, c)}
    IN  /\ MayAct(d)
        /\ channels[m] # {}
        /\ channels' = [channels EXCEPT ![m] = {}]
        /\ localSubs' = [localSubs EXCEPT ![d] = UnsubscribedAll(@, m, channels[m])]
        /\ \E order \in SetToSeqs(orphaned) :
               SendUp(d, [i \in DOMAIN order |-> RemoveMsg(order[i])])
        /\ asked' = asked \ Waiting(m, channels[m])
        /\ UNCHANGED <<connected, known, upstream, open, downlink, requests, cut>>

\* A member that hears c sends a question to be answered on c.
Ask(m, c) ==
    LET d == Home(m)
        r == [member |-> m, channel |-> c, id |-> requests + 1]
    IN  /\ MayAct(d)
        /\ c \in channels[m]
        /\ requests < MaxRequests
        /\ requests' = requests + 1
        /\ SendUp(d, <<RequestMsg(r)>>)
        /\ asked' = asked \union {r}
        /\ UNCHANGED <<connected, memberVars, upstream, open, downlink, cut>>

\* The master handles the next message of the director's connection.
Handle(d) ==
    /\ d \in connected
    /\ uplink[d] # <<>>
    /\ LET msg == Head(uplink[d])
       IN  \/ /\ msg.type = "SET_CHANNEL"
              /\ upstream' = Subscribed(upstream, d, msg.channel)
              /\ UNCHANGED open
           \/ /\ msg.type = "REMOVE_CHANNEL"
              /\ upstream' = Unsubscribed(upstream, d, msg.channel)
              /\ UNCHANGED open
           \/ /\ msg.type = "REQUEST"
              /\ open' = open \union {msg.request}
              /\ UNCHANGED upstream
    /\ uplink' = [uplink EXCEPT ![d] = Tail(@)]
    /\ UNCHANGED <<connected, memberVars, downlink, requests, asked, cut>>

\* The answer to r, from whoever gave it, is routed by the master to the
\* directors that hear the channel now.
Answer(r) ==
    /\ r \in open
    /\ open' = open \ {r}
    /\ downlink' = [d \in Director |->
                      IF d \in Receivers(upstream, {r.channel})
                        THEN Append(downlink[d], r) ELSE downlink[d]]
    /\ UNCHANGED <<connected, memberVars, uplink, upstream, requests, asked, cut>>

\* The director processes the next datagram from upstream.  The members that
\* hear the channel get it one after the other, in no particular order, inside
\* one try block: when one of them raises an exception, the rest do not.
Process(d) ==
    /\ downlink[d] # <<>>
    /\ LET r == Head(downlink[d])
           receiving == Receivers(localSubs[d], {r.channel})
       IN  \E reached \in SUBSET receiving :
             /\ receiving # {} => reached # {}
             /\ asked' = IF r.member \in reached THEN asked \ {r} ELSE asked
             /\ cut' = IF r.member \in receiving \ reached THEN cut \union {r} ELSE cut
    /\ downlink' = [downlink EXCEPT ![d] = Tail(@)]
    /\ UNCHANGED <<connected, memberVars, uplink, upstream, open, requests>>

\* The connection breaks.  The master forgets the director.  The director's
\* connection_lost raises an exception, which the event loop reports; the
\* director goes on with what it has already queued, and never reconnects.
ConnectionLost(d) ==
    /\ d \in connected
    /\ connected' = connected \ {d}
    /\ upstream' = [c \in Channel |-> upstream[c] \ {d}]
    /\ uplink' = [uplink EXCEPT ![d] = <<>>]
    /\ \E n \in 0..Len(downlink[d]) :
           downlink' = [downlink EXCEPT ![d] = SubSeq(@, 1, n)]
    /\ UNCHANGED <<memberVars, open, requests, asked, cut>>

Next ==
    \/ \E m \in Member, c \in Channel :
           Subscribe(m, c) \/ Unsubscribe(m, c) \/ Ask(m, c)
    \/ \E m \in Member : MemberLeaves(m)
    \/ \E d \in Director : Handle(d) \/ Process(d) \/ ConnectionLost(d)
    \/ \E r \in open : Answer(r)

\* The tasks that read a connection and route its datagrams run again while
\* they have work; members and connections owe nothing.
Fairness == \A d \in Director : WF_vars(Handle(d)) /\ WF_vars(Process(d))

Spec == Init /\ [][Next]_vars /\ Fairness

-----------------------------------------------------------------------------
(* Properties *)

TypeOK ==
    /\ connected \subseteq Director
    /\ channels \in [Member -> SUBSET Channel]
    /\ localSubs \in [Director -> [Channel -> SUBSET Member]]
    /\ known \in [Director -> SUBSET Channel]
    /\ \A m \in Member, c \in Channel : c \in channels[m] <=> m \in localSubs[Home(m)][c]
    /\ \A d \in Director, c \in Channel : localSubs[d][c] # {} => c \in known[d]
    /\ uplink \in [Director -> Seq(Message)]
    /\ upstream \in [Channel -> SUBSET Director]
    /\ open \subseteq Request
    /\ downlink \in [Director -> Seq(Request)]
    /\ requests \in 0..MaxRequests
    /\ asked \subseteq Request
    /\ cut \subseteq Request

About(msg, c) == msg \in {SetMsg(c), RemoveMsg(c)}

\* Whether a director will be subscribed to c once the master has handled the
\* messages s, if it is now (b): the last message about c decides.
Hears(s, c, b) ==
    \/ \E i \in DOMAIN s : s[i] = SetMsg(c) /\ \A j \in i + 1 .. Len(s) : ~About(s[j], c)
    \/ b /\ \A j \in DOMAIN s : ~About(s[j], c)

WillHear(d, c) == Hears(uplink[d], c, d \in upstream[c])

\* What is on its way always amounts to what the members want: a channel is
\* heard upstream if and only if some member of the director hears it, however
\* members come, go, and repeat themselves (subscribe_channel and
\* unsubscribe_channel of DownstreamMessageDirector, unsubscribe_all).
RelayFaithful ==
    \A d \in connected, c \in Channel : WillHear(d, c) <=> localSubs[d][c] # {}

\* The request, or its answer, is somewhere on its way.
StillComing(r) ==
    \/ RequestMsg(r) \in ToSet(uplink[Home(r.member)])
    \/ r \in open
    \/ r \in ToSet(downlink[Home(r.member)])
    \/ r \in cut

\* The answer to a request does not get lost while its asker keeps listening:
\* not in a race with the subscription, not because another member of the
\* director leaves the channel; only an exception of another member that
\* hears the channel too can keep it from the asker (subscribe_channel,
\* unsubscribe_channel, receive_datagram, process_datagram).
NoAnswerLost ==
    \A r \in asked : Home(r.member) \in connected => StillComing(r)

\* No message of s is about c, or none that follows the request r.
Silent(s, c) == \A j \in DOMAIN s : ~About(s[j], c)
SilentAfter(s, r) ==
    \A i \in DOMAIN s : s[i] = RequestMsg(r) =>
        \A j \in i + 1 .. Len(s) : ~About(s[j], r.channel)

\* Why no answer is lost: its asker hears the channel ever since, so nothing
\* about the channel follows the request upstream.
Covered(r) ==
    LET d == Home(r.member)
    IN  /\ r.channel \in channels[r.member]
        /\ SilentAfter(uplink[d], r)
        /\ d \in connected /\ r \in open => Silent(uplink[d], r.channel)

RequestsCovered == \A r \in asked : Covered(r)

\* Requests are numbered as they are made, and travel on their own director's
\* connection.
RequestsNumbered ==
    /\ \A r \in asked \union open : r.id <= requests
    /\ \A d \in Director, r \in Request :
           RequestMsg(r) \in ToSet(uplink[d]) => r.id <= requests /\ Home(r.member) = d

IInv == TypeOK /\ RelayFaithful /\ RequestsNumbered /\ RequestsCovered /\ NoAnswerLost

\* An interest, or the lack of it, that lasts reaches the master, unless the
\* connection breaks (the two directors' tasks, transport_datagrams).
InterestConverges ==
    \A d \in Director, c \in Channel, heard \in BOOLEAN :
        <>[]((localSubs[d][c] # {}) = heard)
            => <>[](d \notin connected \/ (d \in upstream[c]) = heard)

=============================================================================
