------------------------- MODULE MessageDirector_proofs -------------------------
(* Proofs about MessageDirector, for any connections and channels and any    *)
(* number of datagrams.                                                      *)
EXTENDS MessageDirector, SequenceTheorems, TLAPS

-----------------------------------------------------------------------------
(* The strengthening.                                                        *)

Carries(m) == m.type \in {"ADD_POST_REMOVE", "ROUTED", "TRUNCATED"}

\* What a datagram that p sent looks like.
Own(p, dg, post) == dg.from = p /\ dg.post = post /\ (post => dg.to # {})

\* A connection holds only what its own peer sent.
Authored ==
    \A p \in Participant :
        /\ \A m \in ToSet(inbox[p]) : Carries(m) => Own(p, m.dg, m.type = "ADD_POST_REMOVE")
        /\ \A dg \in promised[p] : Own(p, dg, TRUE)

\* The numbers of a sender's datagrams grow along the way they take.
Increasing(s) ==
    \A i, j \in DOMAIN s : i < j /\ Carries(s[i]) /\ Carries(s[j]) => s[i].dg.id < s[j].dg.id

Numbered ==
    \A p \in Participant :
        /\ Increasing(inbox[p])
        /\ \A m \in ToSet(inbox[p]) : Carries(m) =>
              /\ m.dg.id <= sent
              /\ \A dg \in ToSet(q) \union routed \union ToSet(post_removes[p]) :
                    dg.from = p => dg.id < m.dg.id

NumbersUsed ==
    /\ \A dg \in ToSet(q) \union routed : dg.id <= sent
    /\ \A p \in Participant : \A dg \in ToSet(post_removes[p]) : dg.id <= sent

\* SenderOrder, said of each part of what a receiver hears.
Ordered(s) == \A i, j \in DOMAIN s : i < j /\ s[i].from = s[j].from => Before(s[i], s[j])
Precedes(A, B) == \A a \in A, b \in B : a.from = b.from => Before(a, b)

Paths ==
    /\ Ordered(q)
    /\ \A p \in Participant :
          /\ Ordered(post_removes[p])
          /\ Ordered(delivered[p])
          /\ Ordered(outgoing_q[p])
          /\ ToSet(delivered[p]) \union ToSet(outgoing_q[p]) \subseteq routed
          /\ Precedes(ToSet(delivered[p]), ToSet(outgoing_q[p]))
          /\ Precedes(ToSet(delivered[p]) \union ToSet(outgoing_q[p]), ToSet(q))

Order == Authored /\ PostRemovesFollowLoss /\ Numbered /\ NumbersUsed /\ Paths

-----------------------------------------------------------------------------
(* Sequences and the sets of their elements.                                 *)

LEMMA ToSetAppend ==
    ASSUME NEW S, NEW s \in Seq(S), NEW x \in S
    PROVE  ToSet(Append(s, x)) = ToSet(s) \union {x}
<1>1. DOMAIN s = 1 .. Len(s) /\ Len(s) \in Nat
  BY LenProperties
<1>2. DOMAIN Append(s, x) = 1 .. Len(s) + 1
  BY <1>1
<1>3. /\ \A i \in 1 .. Len(s) : Append(s, x)[i] = s[i]
      /\ Append(s, x)[Len(s) + 1] = x
  BY <1>1
<1> QED
  BY <1>1, <1>2, <1>3 DEF ToSet

LEMMA ToSetConcat ==
    ASSUME NEW S, NEW s \in Seq(S), NEW t \in Seq(S)
    PROVE  ToSet(s \o t) = ToSet(s) \union ToSet(t)
<1> DEFINE u == s \o t
<1>1. /\ DOMAIN s = 1 .. Len(s) /\ Len(s) \in Nat
      /\ DOMAIN t = 1 .. Len(t) /\ Len(t) \in Nat
  BY LenProperties
<1>2. /\ u \in Seq(S)
      /\ Len(u) = Len(s) + Len(t)
      /\ \A i \in 1 .. Len(s) + Len(t) : u[i] = IF i <= Len(s) THEN s[i] ELSE t[i - Len(s)]
  BY ConcatProperties
<1>3. DOMAIN u = 1 .. Len(s) + Len(t)
  BY <1>2, LenProperties
<1> HIDE DEF u
<1>4. ToSet(u) \subseteq ToSet(s) \union ToSet(t)
  <2> SUFFICES ASSUME NEW i \in DOMAIN u
               PROVE  u[i] \in ToSet(s) \union ToSet(t)
    BY DEF ToSet
  <2>1. \/ i \in DOMAIN s /\ u[i] = s[i]
        \/ i - Len(s) \in DOMAIN t /\ u[i] = t[i - Len(s)]
    BY <1>1, <1>2, <1>3
  <2> QED
    BY <2>1 DEF ToSet
<1>5. ToSet(s) \subseteq ToSet(u)
  BY <1>1, <1>2, <1>3 DEF ToSet
<1>6. ASSUME NEW j \in DOMAIN t
      PROVE  t[j] \in ToSet(u)
  <2>1. Len(s) + j \in 1 .. Len(s) + Len(t) /\ u[Len(s) + j] = t[j]
    BY <1>1, <1>2
  <2> QED
    BY <1>3, <2>1 DEF ToSet
<1>7. ToSet(t) \subseteq ToSet(u)
  BY <1>6 DEF ToSet
<1> QED
  BY <1>4, <1>5, <1>7 DEF u

LEMMA ToSetTail ==
    ASSUME NEW S, NEW s \in Seq(S), s # <<>>
    PROVE  /\ Head(s) \in S /\ Tail(s) \in Seq(S)
           /\ ToSet(s) = {Head(s)} \union ToSet(Tail(s))
           /\ \A i \in DOMAIN Tail(s) : i + 1 \in DOMAIN s /\ Tail(s)[i] = s[i + 1]
           /\ 1 \in DOMAIN s /\ Head(s) = s[1]
           /\ DOMAIN s \subseteq Nat /\ DOMAIN Tail(s) \subseteq Nat \ {0}
<1>1. DOMAIN s = 1 .. Len(s) /\ Len(s) \in Nat \ {0}
  BY LenProperties, EmptySeq
<1>2. /\ Head(s) \in S /\ Head(s) = s[1]
      /\ Tail(s) \in Seq(S)
      /\ Len(Tail(s)) = Len(s) - 1
      /\ \A i \in 1 .. Len(Tail(s)) : Tail(s)[i] = s[i + 1]
  BY HeadTailProperties
<1>3. DOMAIN Tail(s) = 1 .. Len(s) - 1
  BY <1>2, LenProperties
<1>4. ToSet(s) \subseteq {Head(s)} \union ToSet(Tail(s))
  <2> SUFFICES ASSUME NEW i \in 1 .. Len(s), i # 1
               PROVE  s[i] \in ToSet(Tail(s))
    BY <1>1, <1>2 DEF ToSet
  <2>1. i - 1 \in DOMAIN Tail(s) /\ Tail(s)[i - 1] = s[i]
    BY <1>1, <1>2, <1>3
  <2> QED
    BY <2>1 DEF ToSet
<1>5. {Head(s)} \union ToSet(Tail(s)) \subseteq ToSet(s)
  BY <1>1, <1>2, <1>3 DEF ToSet
<1> QED
  BY <1>1, <1>2, <1>3, <1>4, <1>5

\* A concatenation is ordered when its parts are and the first precedes the
\* second.
LEMMA OrderedConcat ==
    ASSUME NEW s \in Seq(Datagram), NEW t \in Seq(Datagram),
           Ordered(s), Ordered(t), Precedes(ToSet(s), ToSet(t))
    PROVE  Ordered(s \o t)
<1> DEFINE u == s \o t
<1>1. /\ DOMAIN s = 1 .. Len(s) /\ Len(s) \in Nat
      /\ DOMAIN t = 1 .. Len(t) /\ Len(t) \in Nat
  BY LenProperties
<1>2. /\ u \in Seq(Datagram)
      /\ Len(u) = Len(s) + Len(t)
      /\ \A i \in 1 .. Len(s) + Len(t) : u[i] = IF i <= Len(s) THEN s[i] ELSE t[i - Len(s)]
  BY ConcatProperties
<1>3. DOMAIN u = 1 .. Len(s) + Len(t)
  BY <1>2, LenProperties
<1> HIDE DEF u
<1> SUFFICES ASSUME NEW i \in DOMAIN u, NEW j \in DOMAIN u, i < j, u[i].from = u[j].from
             PROVE  Before(u[i], u[j])
  BY DEF u, Ordered
<1>4. CASE j <= Len(s)
  <2>1. i \in DOMAIN s /\ j \in DOMAIN s /\ u[i] = s[i] /\ u[j] = s[j]
    BY <1>1, <1>2, <1>3, <1>4
  <2> QED
    BY <2>1 DEF Ordered
<1>5. CASE i <= Len(s) /\ j > Len(s)
  <2>1. i \in DOMAIN s /\ u[i] = s[i] /\ j - Len(s) \in DOMAIN t /\ u[j] = t[j - Len(s)]
    BY <1>1, <1>2, <1>3, <1>5
  <2>2. u[i] \in ToSet(s) /\ u[j] \in ToSet(t)
    BY <2>1 DEF ToSet
  <2> QED
    BY <2>2 DEF Precedes
<1>6. CASE i > Len(s)
  <2>1. /\ i - Len(s) \in DOMAIN t /\ u[i] = t[i - Len(s)]
        /\ j - Len(s) \in DOMAIN t /\ u[j] = t[j - Len(s)]
        /\ i - Len(s) < j - Len(s)
    BY <1>1, <1>2, <1>3, <1>6
  <2> QED
    BY <2>1 DEF Ordered
<1> QED
  BY <1>1, <1>3, <1>4, <1>5, <1>6

LEMMA OrderedAppend ==
    ASSUME NEW s \in Seq(Datagram), NEW x \in Datagram,
           Ordered(s), Precedes(ToSet(s), {x})
    PROVE  Ordered(Append(s, x))
<1>1. DOMAIN s = 1 .. Len(s) /\ Len(s) \in Nat
  BY LenProperties
<1>2. /\ DOMAIN Append(s, x) = 1 .. Len(s) + 1
      /\ \A i \in 1 .. Len(s) : Append(s, x)[i] = s[i]
      /\ Append(s, x)[Len(s) + 1] = x
  BY <1>1
<1> SUFFICES ASSUME NEW i \in 1 .. Len(s) + 1, NEW j \in 1 .. Len(s) + 1, i < j,
                    Append(s, x)[i].from = Append(s, x)[j].from
             PROVE  Before(Append(s, x)[i], Append(s, x)[j])
  BY <1>2 DEF Ordered
<1>3. i \in DOMAIN s /\ Append(s, x)[i] = s[i] /\ s[i] \in ToSet(s)
  BY <1>1, <1>2 DEF ToSet
<1>4. CASE j = Len(s) + 1
  BY <1>2, <1>3, <1>4 DEF Precedes
<1>5. CASE j # Len(s) + 1
  <2>1. j \in DOMAIN s /\ Append(s, x)[j] = s[j]
    BY <1>1, <1>2, <1>5
  <2> QED
    BY <1>3, <2>1 DEF Ordered
<1> QED
  BY <1>4, <1>5

LEMMA OrderedTail ==
    ASSUME NEW s \in Seq(Datagram), s # <<>>, Ordered(s)
    PROVE  Ordered(Tail(s)) /\ Precedes({Head(s)}, ToSet(Tail(s)))
<1>1. /\ \A i \in DOMAIN Tail(s) : i \in Nat \ {0} /\ i + 1 \in DOMAIN s /\ Tail(s)[i] = s[i + 1]
      /\ 1 \in DOMAIN s /\ Head(s) = s[1]
  BY ToSetTail
<1>2. Ordered(Tail(s))
  BY <1>1 DEF Ordered
<1>3. ASSUME NEW i \in DOMAIN Tail(s), Head(s).from = Tail(s)[i].from
      PROVE  Before(Head(s), Tail(s)[i])
  <2>1. 1 < i + 1
    BY <1>1
  <2> QED
    BY <1>1, <1>3, <2>1 DEF Ordered
<1>4. Precedes({Head(s)}, ToSet(Tail(s)))
  BY <1>3 DEF Precedes, ToSet
<1> QED
  BY <1>2, <1>4

-----------------------------------------------------------------------------
(* Messages.                                                                 *)

LEMMA MessageFields ==
    ASSUME NEW m \in Message
    PROVE  /\ m.type \in {"SET_CHANNEL", "REMOVE_CHANNEL"} => m.channel \in Channel
           /\ m.type \in {"ADD_RANGE", "REMOVE_RANGE"} => m.low \in Channel /\ m.high \in Channel
           /\ Carries(m) => m.dg \in Datagram
<1>1. CASE m \in [type : {"SET_CHANNEL", "REMOVE_CHANNEL"}, channel : Channel]
  BY <1>1 DEF Carries
<1>2. CASE m \in [type : {"ADD_RANGE", "REMOVE_RANGE"}, low : Channel, high : Channel]
  BY <1>2 DEF Carries
<1>3. CASE m \in [type : {"ADD_POST_REMOVE", "ROUTED", "TRUNCATED"}, dg : Datagram]
  BY <1>3 DEF Carries
<1>4. CASE m \in [type : {"CLEAR_POST_REMOVE"}]
  BY <1>4 DEF Carries
<1> QED
  BY <1>1, <1>2, <1>3, <1>4 DEF Message

\* What a peer sends is a message, its own, and carries the number it got.
LEMMA SentMessages ==
    ASSUME NEW p \in Participant, NEW n \in 1 .. MaxSends, NEW m \in MessagesFrom(p, n)
    PROVE  /\ m \in Message
           /\ Carries(m) => m.dg.id = n /\ Own(p, m.dg, m.type = "ADD_POST_REMOVE")
<1>1. CASE m \in [type : {"SET_CHANNEL", "REMOVE_CHANNEL"}, channel : Channel]
  BY <1>1 DEF Carries, Message
<1>2. CASE m \in [type : {"ADD_RANGE", "REMOVE_RANGE"}, low : Channel, high : Channel]
  BY <1>2 DEF Carries, Message
<1>3. CASE m \in [type : {"ROUTED"}, dg : [from : {p}, to : SUBSET Channel \ {{}},
                                           id : {n}, post : {FALSE}]]
  <2>1. m.dg \in Datagram /\ m.dg.id = n /\ Own(p, m.dg, FALSE)
    BY <1>3 DEF Datagram, Own
  <2> QED
    BY <1>3, <2>1 DEF Message
<1>4. CASE m \in [type : {"TRUNCATED"}, dg : [from : {p}, to : {{}}, id : {n}, post : {FALSE}]]
  <2>1. m.dg \in Datagram /\ m.dg.id = n /\ Own(p, m.dg, FALSE)
    BY <1>4 DEF Datagram, Own
  <2> QED
    BY <1>4, <2>1 DEF Message
<1>5. CASE m \in [type : {"ADD_POST_REMOVE"}, dg : [from : {p}, to : {{c} : c \in Channel},
                                                    id : {n}, post : {TRUE}]]
  <2>1. m.dg \in Datagram /\ m.dg.id = n /\ Own(p, m.dg, TRUE)
    BY <1>5 DEF Datagram, Own
  <2> QED
    BY <1>5, <2>1 DEF Message
<1>6. CASE m \in [type : {"CLEAR_POST_REMOVE"}]
  BY <1>6 DEF Carries, Message
<1> QED
  BY <1>1, <1>2, <1>3, <1>4, <1>5, <1>6 DEF MessagesFrom

LEMMA RangeIsChannels ==
    ASSUME DirectorAssumption, NEW m \in Message, m.type \in {"ADD_RANGE", "REMOVE_RANGE"}
    PROVE  RangeOf(m) \subseteq Channel
<1>1. m.low \in Channel /\ m.high \in Channel
  BY MessageFields
<1>2. m.low .. m.high \subseteq Channel /\ m.low \in Nat /\ m.high \in Nat
  BY <1>1 DEF DirectorAssumption
<1> QED
  BY <1>2 DEF RangeOf

-----------------------------------------------------------------------------
(* Types.                                                                    *)

\* What the table operators return is a table.
LEMMA TableTypes ==
    ASSUME NEW subs \in [Channel -> SUBSET Participant], NEW p \in Participant
    PROVE  /\ \A c \in Channel :
                 /\ Subscribed(subs, p, c) \in [Channel -> SUBSET Participant]
                 /\ Unsubscribed(subs, p, c) \in [Channel -> SUBSET Participant]
           /\ \A own : UnsubscribedAll(subs, p, own) \in [Channel -> SUBSET Participant]
  BY DEF Subscribed, Unsubscribed, UnsubscribedAll

LEMMA TypeReceive ==
    ASSUME DirectorAssumption, TypeOK, NEW p \in Participant, ReceiveDatagram(p)
    PROVE  TypeOK'
<1> DEFINE m == Head(inbox[p])
<1>1. inbox[p] \in Seq(Message) /\ inbox[p] # <<>>
  BY DEF TypeOK, ReceiveDatagram
<1>2. m \in Message /\ Tail(inbox[p]) \in Seq(Message)
  BY <1>1, HeadTailProperties
<1>3. inbox' \in [Participant -> Seq(Message)]
  BY <1>2 DEF TypeOK, ReceiveDatagram
<1> HIDE DEF m
<1>4. /\ channels' \in [Participant -> SUBSET Channel]
      /\ channel_subscriptions' \in [Channel -> SUBSET Participant]
      /\ post_removes' \in [Participant -> Seq(Datagram)]
      /\ q' \in Seq(Datagram)
      /\ promised' \in [Participant -> SUBSET Datagram]
      /\ ranged' \in [Participant -> SUBSET Channel]
  <2> USE <1>2 DEF TypeOK, tableVars
  <2>1. CASE SetChannel(p, m)
    BY <2>1, MessageFields, TableTypes DEF SetChannel
  <2>2. CASE RemoveChannel(p, m)
    BY <2>2, MessageFields, TableTypes DEF RemoveChannel
  <2>3. CASE AddRange(p, m)
    BY <2>3, RangeIsChannels DEF AddRange
  <2>4. CASE RemoveRange(p, m)
    BY <2>4, RangeIsChannels DEF RemoveRange
  <2>5. CASE AddPostRemove(p, m)
    BY <2>5, MessageFields DEF AddPostRemove, Carries
  <2>6. CASE ClearPostRemove(p, m)
    BY <2>6 DEF ClearPostRemove
  <2>7. CASE Enqueue(p, m)
    BY <2>7, MessageFields DEF Enqueue, Carries
  <2> QED
    BY <2>1, <2>2, <2>3, <2>4, <2>5, <2>6, <2>7 DEF ReceiveDatagram, m
<1> QED
  BY <1>3, <1>4 DEF TypeOK, ReceiveDatagram

LEMMA TypeRoute == ASSUME TypeOK, Route PROVE TypeOK'
<1>1. Head(q) \in Datagram /\ Tail(q) \in Seq(Datagram)
  BY HeadTailProperties DEF TypeOK, Route
<1>2. outgoing_q' \in [Participant -> Seq(Datagram)]
  BY <1>1 DEF TypeOK, Route
<1> QED
  BY <1>1, <1>2 DEF TypeOK, Route, tableVars, Readable

LEMMA TypeTransmit == ASSUME TypeOK, NEW p \in Participant, Transmit(p) PROVE TypeOK'
<1>1. Head(outgoing_q[p]) \in Datagram /\ Tail(outgoing_q[p]) \in Seq(Datagram)
  BY HeadTailProperties DEF TypeOK, Transmit
<1> QED
  BY <1>1 DEF TypeOK, Transmit, tableVars

\* The lists, tables and sets of the director hold what they are for, for any
\* number of connections and datagrams (MDProtocol, MasterMessageDirector).
THEOREM TypeCorrect == Spec => []TypeOK
<1> USE DirectorAssumption
<1>1. Init => TypeOK
  BY EmptySeq DEF Init, TypeOK, DirectorAssumption
<1>2. TypeOK /\ [Next]_vars => TypeOK'
  <2> SUFFICES ASSUME TypeOK, [Next]_vars PROVE TypeOK'
    OBVIOUS
  <2>1. CASE Route
    BY <2>1, TypeRoute
  <2>2. ASSUME NEW p \in Participant, Connect(p) PROVE TypeOK'
    BY <2>2 DEF Connect, TypeOK, tableVars, historyVars
  <2>3. ASSUME NEW p \in Participant, ReceiveDatagram(p) PROVE TypeOK'
    BY <2>3, TypeReceive
  <2>4. ASSUME NEW p \in Participant, ConnectionLost(p) PROVE TypeOK'
    <3>1. q' \in Seq(Datagram)
      BY <2>4, ConcatProperties DEF TypeOK, ConnectionLost, PostRemove
    <3>2. channel_subscriptions' \in [Channel -> SUBSET Participant]
      BY <2>4, TableTypes DEF TypeOK, ConnectionLost, RemoveParticipant
    <3> QED
      BY <2>4, <3>1, <3>2 DEF ConnectionLost, RemoveParticipant, TypeOK, historyVars
  <2>5. ASSUME NEW p \in Participant, Transmit(p) PROVE TypeOK'
    BY <2>5, TypeTransmit
  <2>6. ASSUME NEW p \in Participant, NEW m \in MessagesFrom(p, sent + 1), Arrive(p, m)
        PROVE  TypeOK'
    <3>1. sent + 1 \in 1 .. MaxSends
      BY <2>6 DEF Arrive, TypeOK, DirectorAssumption
    <3>2. m \in Message
      BY <3>1, SentMessages
    <3> QED
      BY <2>6, <3>1, <3>2 DEF Arrive, TypeOK, tableVars, historyVars, DirectorAssumption
  <2>7. CASE UNCHANGED vars
    BY <2>7 DEF vars, TypeOK
  <2> QED
    BY <2>1, <2>2, <2>3, <2>4, <2>5, <2>6, <2>7 DEF Next
<1> QED
  BY <1>1, <1>2, PTL DEF Spec

-----------------------------------------------------------------------------
(* Subscriptions.                                                            *)

LEMMA MirrorReceive ==
    ASSUME DirectorAssumption, TypeOK, SubscriptionMirror, NEW p \in Participant,
           ReceiveDatagram(p)
    PROVE  SubscriptionMirror'
<1> DEFINE m == Head(inbox[p])
<1>1. m \in Message
  BY HeadTailProperties DEF TypeOK, ReceiveDatagram
<1>2. p \in participants /\ participants' = participants
  BY DEF ReceiveDatagram
<1> HIDE DEF m
<1> USE <1>1, <1>2 DEF TypeOK, SubscriptionMirror, tableVars
<1>3. CASE SetChannel(p, m)
  BY <1>3, MessageFields DEF SetChannel, Subscribed
<1>4. CASE RemoveChannel(p, m)
  BY <1>4, MessageFields DEF RemoveChannel, Unsubscribed
<1>5. CASE AddRange(p, m)
  BY <1>5 DEF AddRange
<1>6. CASE RemoveRange(p, m)
  BY <1>6 DEF RemoveRange
<1>7. CASE AddPostRemove(p, m) \/ ClearPostRemove(p, m) \/ Enqueue(p, m)
  BY <1>7 DEF AddPostRemove, ClearPostRemove, Enqueue
<1> QED
  BY <1>3, <1>4, <1>5, <1>6, <1>7 DEF ReceiveDatagram, m

LEMMA MirrorLost ==
    ASSUME TypeOK, SubscriptionMirror, NEW p \in Participant, ConnectionLost(p)
    PROVE  SubscriptionMirror'
<1>1. /\ channels' = [channels EXCEPT ![p] = {}]
      /\ participants' = participants \ {p}
      /\ ranged' = ranged
      /\ \A c \in Channel : channel_subscriptions'[c] =
            IF c \in channels[p] THEN channel_subscriptions[c] \ {p}
                                 ELSE channel_subscriptions[c]
  BY DEF ConnectionLost, RemoveParticipant, UnsubscribedAll, historyVars, TypeOK
<1>2. \A r \in Participant : channels'[r] = IF r = p THEN {} ELSE channels[r]
  BY <1>1 DEF TypeOK
<1>3. ASSUME NEW r \in Participant, NEW c \in Channel \ ranged'[r]
      PROVE  r \in channel_subscriptions'[c] <=> c \in channels'[r]
  <2>1. r \in channel_subscriptions[c] <=> c \in channels[r]
    BY <1>1, <1>3 DEF SubscriptionMirror
  <2>2. channels'[r] = IF r = p THEN {} ELSE channels[r]
    BY <1>2
  <2>3. channel_subscriptions'[c] = IF c \in channels[p] THEN channel_subscriptions[c] \ {p}
                                                         ELSE channel_subscriptions[c]
    BY <1>1, <1>3
  <2> QED
    BY <2>1, <2>2, <2>3
<1>4. ASSUME NEW r \in Participant \ participants'
      PROVE  channels'[r] = {}
  BY <1>1, <1>2, <1>4 DEF SubscriptionMirror
<1> QED
  BY <1>3, <1>4 DEF SubscriptionMirror

LEMMA MirrorOthers ==
    ASSUME SubscriptionMirror, UNCHANGED <<tableVars, ranged>>, participants \subseteq participants'
    PROVE  SubscriptionMirror'
  BY DEF SubscriptionMirror, tableVars

\* Both sides of every subscription agree but for ranges, and a connection
\* that is gone has none (subscribe_channel, unsubscribe_channel,
\* unsubscribe_all).
THEOREM Mirror == Spec => []SubscriptionMirror
<1> USE DirectorAssumption
<1>1. Init => SubscriptionMirror
  BY DEF Init, SubscriptionMirror
<1>2. TypeOK /\ SubscriptionMirror /\ [Next]_vars => SubscriptionMirror'
  <2> SUFFICES ASSUME TypeOK, SubscriptionMirror, [Next]_vars PROVE SubscriptionMirror'
    OBVIOUS
  <2>1. ASSUME NEW p \in Participant, ReceiveDatagram(p) PROVE SubscriptionMirror'
    BY <2>1, MirrorReceive
  <2>2. ASSUME NEW p \in Participant, ConnectionLost(p) PROVE SubscriptionMirror'
    BY <2>2, MirrorLost
  <2>3. CASE Route
    BY <2>3, MirrorOthers DEF Route
  <2>4. ASSUME NEW p \in Participant, Connect(p) \/ Transmit(p) PROVE SubscriptionMirror'
    BY <2>4, MirrorOthers DEF Connect, Transmit, historyVars
  <2>5. ASSUME NEW p \in Participant, NEW m \in MessagesFrom(p, sent + 1), Arrive(p, m)
        PROVE  SubscriptionMirror'
    BY <2>5, MirrorOthers DEF Arrive, historyVars
  <2>6. CASE UNCHANGED vars
    BY <2>6, MirrorOthers DEF vars, tableVars
  <2> QED
    BY <2>1, <2>2, <2>3, <2>4, <2>5, <2>6 DEF Next
<1> QED
  BY <1>1, <1>2, TypeCorrect, PTL DEF Spec

\* A connection that is gone is handed nothing any more, except on channels
\* of its ranges (remove_participant, process_datagram).
THEOREM GoneHearNothing == Spec => DepartedHearNothing
<1> DEFINE Step == \A p \in lost : outgoing_q'[p] # outgoing_q[p]
                                     => Head(q).to \intersect ranged[p] # {}
<1>1. TypeOK /\ SubscriptionMirror /\ [Next]_vars => [Step]_vars
  <2> SUFFICES ASSUME TypeOK, SubscriptionMirror, Next,
                      NEW p \in lost, outgoing_q'[p] # outgoing_q[p]
               PROVE  Head(q).to \intersect ranged[p] # {}
    OBVIOUS
  <2>1. p \in Participant /\ p \notin participants
    BY DEF TypeOK
  <2>2. CASE Route
    <3>1. Head(q) \in Datagram
      BY <2>2, HeadTailProperties DEF TypeOK, Route
    <3>2. p \in Receivers(channel_subscriptions, Head(q).to)
      BY <2>1, <2>2 DEF Route, TypeOK
    <3>3. PICK c \in Head(q).to : p \in channel_subscriptions[c]
      BY <3>2 DEF Receivers
    <3>4. c \in Channel
      BY <3>1 DEF Datagram
    <3>5. channels[p] = {}
      BY <2>1 DEF SubscriptionMirror
    <3>6. c \in ranged[p]
      BY <2>1, <3>3, <3>4, <3>5 DEF SubscriptionMirror
    <3> QED
      BY <3>6
  <2>3. ASSUME NEW r \in Participant, Transmit(r) PROVE FALSE
    <3>1. r # p
      BY <2>1, <2>3 DEF Transmit
    <3> QED
      BY <2>1, <2>3, <3>1 DEF Transmit, TypeOK
  <2>4. ASSUME NEW r \in Participant,
               \/ Connect(r) \/ ReceiveDatagram(r) \/ ConnectionLost(r)
               \/ \E m \in MessagesFrom(r, sent + 1) : Arrive(r, m)
        PROVE  FALSE
    BY <2>4 DEF Connect, ReceiveDatagram, ConnectionLost, Arrive
  <2> QED
    BY <2>2, <2>3, <2>4 DEF Next
<1> QED
  BY <1>1, TypeCorrect, Mirror, PTL DEF Spec, DepartedHearNothing

-----------------------------------------------------------------------------
(* Order.                                                                    *)

LEMMA ToSetEmpty == ToSet(<<>>) = {}
  BY DEF ToSet

LEMMA OrderedEmpty == Ordered(<<>>) /\ Increasing(<<>>)
  BY DEF Ordered, Increasing

LEMMA IncreasingTail ==
    ASSUME NEW s \in Seq(Message), s # <<>>, Increasing(s)
    PROVE  /\ Increasing(Tail(s))
           /\ Carries(Head(s)) => \A m \in ToSet(Tail(s)) : Carries(m) => Head(s).dg.id < m.dg.id
<1>1. /\ \A i \in DOMAIN Tail(s) : i \in Nat \ {0} /\ i + 1 \in DOMAIN s /\ Tail(s)[i] = s[i + 1]
      /\ 1 \in DOMAIN s /\ Head(s) = s[1]
  BY ToSetTail
<1>2. Increasing(Tail(s))
  BY <1>1 DEF Increasing
<1>3. ASSUME NEW i \in DOMAIN Tail(s), Carries(Head(s)), Carries(Tail(s)[i])
      PROVE  Head(s).dg.id < Tail(s)[i].dg.id
  <2>1. 1 < i + 1
    BY <1>1
  <2> QED
    BY <1>1, <1>3, <2>1 DEF Increasing
<1> QED
  BY <1>2, <1>3 DEF ToSet

LEMMA IncreasingAppend ==
    ASSUME NEW s \in Seq(Message), NEW x \in Message, Increasing(s),
           Carries(x) => \A m \in ToSet(s) : Carries(m) => m.dg.id < x.dg.id
    PROVE  Increasing(Append(s, x))
<1>1. DOMAIN s = 1 .. Len(s) /\ Len(s) \in Nat
  BY LenProperties
<1>2. /\ DOMAIN Append(s, x) = 1 .. Len(s) + 1
      /\ \A i \in 1 .. Len(s) : Append(s, x)[i] = s[i]
      /\ Append(s, x)[Len(s) + 1] = x
  BY <1>1
<1> SUFFICES ASSUME NEW i \in 1 .. Len(s) + 1, NEW j \in 1 .. Len(s) + 1, i < j,
                    Carries(Append(s, x)[i]), Carries(Append(s, x)[j])
             PROVE  Append(s, x)[i].dg.id < Append(s, x)[j].dg.id
  BY <1>2 DEF Increasing
<1>3. i \in DOMAIN s /\ Append(s, x)[i] = s[i] /\ s[i] \in ToSet(s)
  BY <1>1, <1>2 DEF ToSet
<1>4. CASE j = Len(s) + 1
  BY <1>2, <1>3, <1>4
<1>5. CASE j # Len(s) + 1
  <2>1. j \in DOMAIN s /\ Append(s, x)[j] = s[j]
    BY <1>1, <1>2, <1>5
  <2> QED
    BY <1>3, <2>1 DEF Increasing
<1> QED
  BY <1>4, <1>5

\* What handling the next message of a connection does to the datagrams.
LEMMA ReceiveEffect ==
    ASSUME TypeOK, NEW p \in Participant, ReceiveDatagram(p), NEW m, m = Head(inbox[p])
    PROVE  /\ m \in Message
           /\ ToSet(inbox[p]) = {m} \union ToSet(inbox'[p])
           /\ inbox' = [inbox EXCEPT ![p] = Tail(@)]
           /\ UNCHANGED <<lost, sent, routed, delivered, outgoing_q>>
           /\ p \notin lost
           /\ \/ /\ Carries(m) /\ m.type = "ADD_POST_REMOVE"
                 /\ post_removes' = [post_removes EXCEPT ![p] = Append(@, m.dg)]
                 /\ ToSet(post_removes'[p]) = ToSet(post_removes[p]) \union {m.dg}
                 /\ promised' = [promised EXCEPT ![p] = @ \union {m.dg}]
                 /\ q' = q
              \/ /\ post_removes' = [post_removes EXCEPT ![p] = <<>>]
                 /\ ToSet(post_removes'[p]) = {}
                 /\ promised' = [promised EXCEPT ![p] = {}]
                 /\ q' = q
              \/ /\ Carries(m) /\ m.type # "ADD_POST_REMOVE"
                 /\ q' = Append(q, m.dg)
                 /\ ToSet(q') = ToSet(q) \union {m.dg}
                 /\ UNCHANGED <<post_removes, promised>>
              \/ UNCHANGED <<post_removes, promised, q>>
<1>1. inbox[p] \in Seq(Message) /\ inbox[p] # <<>> /\ p \in participants
  BY DEF TypeOK, ReceiveDatagram
<1>2. m \in Message /\ ToSet(inbox[p]) = {m} \union ToSet(Tail(inbox[p]))
  BY <1>1, ToSetTail
<1>3. /\ inbox' = [inbox EXCEPT ![p] = Tail(@)]
      /\ inbox'[p] = Tail(inbox[p])
      /\ UNCHANGED <<lost, sent, routed, delivered, outgoing_q>>
  BY DEF ReceiveDatagram, TypeOK
<1>4. p \notin lost
  BY <1>1 DEF TypeOK
<1>5. Carries(m) => m.dg \in Datagram
  BY <1>2, MessageFields
<1>6. CASE AddPostRemove(p, m)
  <2>1. Carries(m) /\ m.type = "ADD_POST_REMOVE"
    BY <1>6 DEF AddPostRemove, Carries
  <2>2. post_removes[p] \in Seq(Datagram) /\ post_removes'[p] = Append(post_removes[p], m.dg)
    BY <1>6 DEF AddPostRemove, TypeOK
  <2>3. ToSet(post_removes'[p]) = ToSet(post_removes[p]) \union {m.dg}
    BY <1>5, <2>1, <2>2, ToSetAppend
  <2> QED
    BY <1>2, <1>3, <1>4, <1>6, <2>1, <2>3 DEF AddPostRemove
<1>7. CASE ClearPostRemove(p, m)
  <2>1. ToSet(post_removes'[p]) = {}
    BY <1>7, ToSetEmpty DEF ClearPostRemove, TypeOK
  <2> QED
    BY <1>2, <1>3, <1>4, <1>7, <2>1 DEF ClearPostRemove
<1>8. CASE Enqueue(p, m)
  <2>1. Carries(m) /\ m.type # "ADD_POST_REMOVE"
    BY <1>8 DEF Enqueue, Carries
  <2>2. ToSet(q') = ToSet(q) \union {m.dg}
    BY <1>5, <1>8, <2>1, ToSetAppend DEF Enqueue, TypeOK
  <2> QED
    BY <1>2, <1>3, <1>4, <1>8, <2>1, <2>2 DEF Enqueue
<1>9. CASE SetChannel(p, m) \/ RemoveChannel(p, m) \/ AddRange(p, m) \/ RemoveRange(p, m)
  BY <1>2, <1>3, <1>4, <1>9 DEF SetChannel, RemoveChannel, AddRange, RemoveRange
<1> QED
  BY <1>6, <1>7, <1>8, <1>9 DEF ReceiveDatagram

LEMMA OrderReceive ==
    ASSUME TypeOK, Order, NEW p \in Participant, ReceiveDatagram(p)
    PROVE  Order'
<1>1. PICK m : m = Head(inbox[p])
  OBVIOUS
<1> DEFINE Keep  == /\ Carries(m) /\ m.type = "ADD_POST_REMOVE"
                    /\ post_removes' = [post_removes EXCEPT ![p] = Append(@, m.dg)]
                    /\ ToSet(post_removes'[p]) = ToSet(post_removes[p]) \union {m.dg}
                    /\ promised' = [promised EXCEPT ![p] = @ \union {m.dg}]
                    /\ q' = q
           Clear == /\ post_removes' = [post_removes EXCEPT ![p] = <<>>]
                    /\ ToSet(post_removes'[p]) = {}
                    /\ promised' = [promised EXCEPT ![p] = {}]
                    /\ q' = q
           Queue == /\ Carries(m) /\ m.type # "ADD_POST_REMOVE"
                    /\ q' = Append(q, m.dg)
                    /\ ToSet(q') = ToSet(q) \union {m.dg}
                    /\ UNCHANGED <<post_removes, promised>>
           Same  == UNCHANGED <<post_removes, promised, q>>
<1>2. /\ m \in Message
      /\ ToSet(inbox[p]) = {m} \union ToSet(inbox'[p])
      /\ inbox' = [inbox EXCEPT ![p] = Tail(@)]
      /\ UNCHANGED <<lost, sent, routed, delivered, outgoing_q>>
      /\ p \notin lost
  BY <1>1, ReceiveEffect
<1>3. Keep \/ Clear \/ Queue \/ Same
  BY <1>1, ReceiveEffect
<1>4. /\ m \in ToSet(inbox[p])
      /\ \A r \in Participant : ToSet(inbox'[r]) \subseteq ToSet(inbox[r])
  BY <1>2 DEF TypeOK
<1>5. Carries(m) => m.dg \in Datagram /\ Own(p, m.dg, m.type = "ADD_POST_REMOVE")
  BY <1>2, <1>4, MessageFields DEF Order, Authored
<1>6. inbox[p] \in Seq(Message) /\ inbox[p] # <<>> /\ inbox'[p] = Tail(inbox[p])
  BY <1>2 DEF TypeOK, ReceiveDatagram
<1>7. /\ Increasing(inbox'[p])
      /\ Carries(m) => \A n \in ToSet(inbox'[p]) : Carries(n) => m.dg.id < n.dg.id
  BY <1>1, <1>6, IncreasingTail DEF Order, Numbered
<1> HIDE DEF Keep, Clear, Queue, Same
<1>8. Authored'
  <2>1. ASSUME NEW r \in Participant, NEW n \in ToSet(inbox'[r]), Carries(n)
        PROVE  Own(r, n.dg, n.type = "ADD_POST_REMOVE")
    BY <1>4, <2>1 DEF Order, Authored
  <2>2. ASSUME NEW r \in Participant, NEW dg \in promised'[r]
        PROVE  Own(r, dg, TRUE)
    <3>1. CASE dg \in promised[r]
      BY <3>1 DEF Order, Authored
    <3>2. CASE dg \notin promised[r]
      <4>1. Keep /\ r = p /\ dg = m.dg
        BY <1>3, <2>2, <3>2 DEF Keep, Clear, Queue, Same, TypeOK
      <4> QED
        BY <1>5, <4>1 DEF Keep
    <3> QED
      BY <3>1, <3>2
  <2> QED
    BY <2>1, <2>2 DEF Authored
<1>9. PostRemovesFollowLoss'
  <2> SUFFICES ASSUME NEW r \in Participant
               PROVE  IF r \in lost
                        THEN promised'[r] \subseteq ToSet(q') \union routed
                        ELSE /\ ToSet(post_removes'[r]) = promised'[r]
                             /\ \A dg \in ToSet(q') \union routed : dg.from = r => ~dg.post
    BY <1>2 DEF PostRemovesFollowLoss
  <2>1. CASE r \in lost
    <3>1. r # p /\ promised[r] \subseteq ToSet(q) \union routed
      BY <1>2, <2>1 DEF Order, PostRemovesFollowLoss
    <3>2. promised'[r] = promised[r] /\ ToSet(q) \subseteq ToSet(q')
      BY <1>3, <3>1 DEF Keep, Clear, Queue, Same, TypeOK
    <3> QED
      BY <2>1, <3>1, <3>2
  <2>2. CASE r \notin lost
    <3>1. /\ ToSet(post_removes[r]) = promised[r]
          /\ \A dg \in ToSet(q) \union routed : dg.from = r => ~dg.post
      BY <2>2 DEF Order, PostRemovesFollowLoss
    <3>2. ToSet(post_removes'[r]) = promised'[r]
      BY <1>3, <3>1 DEF Keep, Clear, Queue, Same, TypeOK
    <3>3. ASSUME NEW dg \in ToSet(q') \union routed, dg.from = r
          PROVE  ~dg.post
      <4>1. CASE dg \in ToSet(q) \union routed
        BY <3>1, <3>3, <4>1
      <4>2. CASE dg \notin ToSet(q) \union routed
        <5>1. Queue /\ dg = m.dg
          BY <1>3, <3>3, <4>2 DEF Keep, Clear, Queue, Same
        <5> QED
          BY <1>5, <5>1 DEF Queue, Own
      <4> QED
        BY <4>1, <4>2
    <3> QED
      BY <2>2, <3>2, <3>3
  <2> QED
    BY <2>1, <2>2
<1>10. ASSUME NEW r \in Participant, NEW dg \in ToSet(post_removes'[r])
       PROVE  dg \in ToSet(post_removes[r]) \/ (r = p /\ Carries(m) /\ dg = m.dg)
  <2>1. CASE r = p
    <3>1. CASE Keep
      BY <1>10, <2>1, <3>1 DEF Keep
    <3>2. CASE ~Keep
      BY <1>3, <1>10, <2>1, <3>2 DEF Clear, Queue, Same
    <3> QED
      BY <3>1, <3>2
  <2>2. CASE r # p
    <3>1. post_removes'[r] = post_removes[r]
      BY <1>3, <2>2 DEF Keep, Clear, Queue, Same, TypeOK
    <3> QED
      BY <1>10, <3>1
  <2> QED
    BY <2>1, <2>2
<1>11. ASSUME NEW dg \in ToSet(q') \union routed'
       PROVE  dg \in ToSet(q) \union routed \/ (Carries(m) /\ dg = m.dg)
  <2>1. CASE Queue
    BY <1>2, <1>11, <2>1 DEF Queue
  <2>2. CASE ~Queue
    <3>1. q' = q
      BY <1>3, <2>2 DEF Keep, Clear, Same
    <3> QED
      BY <1>2, <1>11, <3>1
  <2> QED
    BY <2>1, <2>2
<1>12. NumbersUsed'
  BY <1>2, <1>4, <1>10, <1>11 DEF Order, Numbered, NumbersUsed
<1>13. Numbered'
  <2>1. ASSUME NEW r \in Participant PROVE Increasing(inbox'[r])
    BY <1>2, <1>7 DEF Order, Numbered, TypeOK
  <2>2. ASSUME NEW r \in Participant, NEW n \in ToSet(inbox'[r]), Carries(n)
        PROVE  /\ n.dg.id <= sent'
               /\ \A dg \in ToSet(q') \union routed' \union ToSet(post_removes'[r]) :
                     dg.from = r => dg.id < n.dg.id
    <3>1. /\ n.dg.id <= sent
          /\ \A dg \in ToSet(q) \union routed \union ToSet(post_removes[r]) :
                dg.from = r => dg.id < n.dg.id
      BY <1>4, <2>2 DEF Order, Numbered
    <3>2. ASSUME Carries(m), m.dg.from = r PROVE m.dg.id < n.dg.id
      <4>1. r = p
        BY <1>5, <3>2 DEF Own
      <4> QED
        BY <1>7, <2>2, <3>2, <4>1
    <3>3. ASSUME NEW dg \in ToSet(q') \union routed' \union ToSet(post_removes'[r]), dg.from = r
          PROVE  dg.id < n.dg.id
      <4>1. dg \in ToSet(q) \union routed \union ToSet(post_removes[r]) \/ (Carries(m) /\ dg = m.dg)
        BY <1>10, <1>11, <3>3
      <4> QED
        BY <3>1, <3>2, <3>3, <4>1
    <3> QED
      BY <1>2, <3>1, <3>3
  <2> QED
    BY <2>1, <2>2 DEF Numbered
<1>14. Paths'
  <2>1. ASSUME Queue
        PROVE  /\ Precedes(ToSet(q) \union routed, {m.dg})
               /\ Ordered(q')
    <3>1. ASSUME NEW dg \in ToSet(q) \union routed, dg.from = m.dg.from
          PROVE  Before(dg, m.dg)
      <4>1. m.dg.from = p /\ ~m.dg.post
        BY <1>5, <2>1 DEF Queue, Own
      <4>2. dg.id < m.dg.id
        BY <1>4, <2>1, <3>1, <4>1 DEF Queue, Order, Numbered
      <4>3. ~dg.post
        BY <1>2, <3>1, <4>1 DEF Order, PostRemovesFollowLoss
      <4>4. dg \in Datagram /\ m.dg \in Datagram
        <5>1. ToSet(q) \subseteq Datagram
          BY DEF TypeOK, ToSet
        <5> QED
          BY <1>5, <2>1, <5>1 DEF Queue, TypeOK
      <4> QED
        BY <4>1, <4>2, <4>3, <4>4 DEF Before, Datagram
    <3>2. Precedes(ToSet(q) \union routed, {m.dg})
      BY <3>1 DEF Precedes
    <3>3. Precedes(ToSet(q), {m.dg})
      BY <3>2 DEF Precedes
    <3>4. Ordered(q')
      BY <1>5, <2>1, <3>3, OrderedAppend DEF Queue, TypeOK, Order, Paths
    <3> QED
      BY <3>2, <3>4
  <2>2. Ordered(q')
    BY <1>3, <2>1 DEF Keep, Clear, Same, Order, Paths
  <2>3. ASSUME NEW r \in Participant PROVE Ordered(post_removes'[r])
    <3>1. CASE Keep /\ r = p
      <4>1. /\ post_removes[p] \in Seq(Datagram) /\ m.dg \in Datagram
            /\ post_removes'[p] = Append(post_removes[p], m.dg)
        BY <1>5, <3>1 DEF TypeOK, Keep
      <4>2. ASSUME NEW dg \in ToSet(post_removes[p]), dg.from = m.dg.from
            PROVE  Before(dg, m.dg)
        <5>1. m.dg.from = p /\ m.dg.post
          BY <1>5, <3>1 DEF Keep, Own
        <5>2. dg.id < m.dg.id
          BY <1>4, <3>1, <4>2, <5>1 DEF Keep, Order, Numbered
        <5>3. dg.post
          <6>1. dg \in promised[p]
            BY <1>2 DEF Order, PostRemovesFollowLoss
          <6> QED
            BY <6>1 DEF Order, Authored, Own
        <5>4. dg \in Datagram
          BY <4>1 DEF ToSet
        <5> QED
          BY <4>1, <5>1, <5>2, <5>3, <5>4 DEF Before, Datagram
      <4>3. Precedes(ToSet(post_removes[p]), {m.dg})
        BY <4>2 DEF Precedes
      <4> QED
        BY <3>1, <4>1, <4>3, OrderedAppend DEF Order, Paths
    <3>2. CASE ~(Keep /\ r = p)
      <4>1. post_removes'[r] = post_removes[r] \/ post_removes'[r] = <<>>
        BY <1>3, <3>2 DEF Keep, Clear, Queue, Same, TypeOK
      <4> QED
        BY <4>1, OrderedEmpty DEF Order, Paths
    <3> QED
      BY <3>1, <3>2
  <2>4. ASSUME NEW r \in Participant
        PROVE  Precedes(ToSet(delivered[r]) \union ToSet(outgoing_q[r]), ToSet(q'))
    <3>1. /\ Precedes(ToSet(delivered[r]) \union ToSet(outgoing_q[r]), ToSet(q))
          /\ ToSet(delivered[r]) \union ToSet(outgoing_q[r]) \subseteq routed
      BY DEF Order, Paths
    <3>2. CASE Queue
      BY <2>1, <3>1, <3>2 DEF Queue, Precedes
    <3>3. CASE ~Queue
      BY <1>3, <3>1, <3>3 DEF Keep, Clear, Same
    <3> QED
      BY <3>2, <3>3
  <2> QED
    BY <1>2, <2>2, <2>3, <2>4 DEF Order, Paths
<1> QED
  BY <1>8, <1>9, <1>12, <1>13, <1>14 DEF Order

LEMMA OrderArrive ==
    ASSUME DirectorAssumption, TypeOK, Order, NEW p \in Participant,
           NEW m \in MessagesFrom(p, sent + 1), Arrive(p, m)
    PROVE  Order'
<1>1. sent + 1 \in 1 .. MaxSends /\ sent \in Nat
  BY DEF Arrive, TypeOK, DirectorAssumption
<1>2. m \in Message /\ (Carries(m) => m.dg.id = sent + 1 /\ Own(p, m.dg, m.type = "ADD_POST_REMOVE"))
  BY <1>1, SentMessages
<1>3. /\ inbox[p] \in Seq(Message) /\ inbox'[p] = Append(inbox[p], m)
      /\ inbox' = [inbox EXCEPT ![p] = Append(@, m)]
      /\ sent' = sent + 1
      /\ UNCHANGED <<lost, post_removes, q, outgoing_q, delivered, routed, promised>>
  BY DEF Arrive, TypeOK, historyVars
<1>4. ToSet(inbox'[p]) = ToSet(inbox[p]) \union {m}
  BY <1>2, <1>3, ToSetAppend
<1>5. \A r \in Participant : r # p => inbox'[r] = inbox[r]
  BY <1>3 DEF TypeOK
<1>6. /\ ToSet(q) \union routed \subseteq Datagram
      /\ \A r \in Participant : ToSet(post_removes[r]) \subseteq Datagram
  BY DEF TypeOK, ToSet
<1>7. \A dg \in Datagram : dg.id \in Int
  BY DEF Datagram
<1>8. Authored'
  BY <1>2, <1>3, <1>4, <1>5 DEF Order, Authored
<1>9. PostRemovesFollowLoss' /\ Paths'
  BY <1>3 DEF Order, PostRemovesFollowLoss, Paths
<1>10. NumbersUsed'
  BY <1>1, <1>3, <1>6, <1>7 DEF Order, NumbersUsed
<1>11. \A r \in Participant : \A n \in ToSet(inbox[r]) : Carries(n) => n.dg.id \in Int /\ n.dg.id <= sent
  <2>1. ASSUME NEW r \in Participant, NEW n \in ToSet(inbox[r]), Carries(n)
        PROVE  n.dg.id \in Int /\ n.dg.id <= sent
    <3>1. n \in Message
      BY <2>1 DEF TypeOK, ToSet
    <3>2. n.dg \in Datagram
      BY <2>1, <3>1, MessageFields
    <3> QED
      BY <1>7, <2>1, <3>2 DEF Order, Numbered
  <2> QED
    BY <2>1
<1>12. Numbered'
  <2>1. ASSUME NEW r \in Participant PROVE Increasing(inbox'[r])
    <3>1. Carries(m) => \A n \in ToSet(inbox[p]) : Carries(n) => n.dg.id < m.dg.id
      BY <1>1, <1>2, <1>11
    <3>2. Increasing(inbox[r])
      BY DEF Order, Numbered
    <3>3. CASE r = p
      BY <1>2, <1>3, <3>1, <3>2, <3>3, IncreasingAppend
    <3>4. CASE r # p
      BY <1>5, <3>2, <3>4
    <3> QED
      BY <3>3, <3>4
  <2>2. ASSUME NEW r \in Participant, NEW n \in ToSet(inbox'[r]), Carries(n)
        PROVE  /\ n.dg.id <= sent + 1
               /\ \A dg \in ToSet(q) \union routed \union ToSet(post_removes[r]) :
                     dg.from = r => dg.id < n.dg.id
    <3>1. CASE n \in ToSet(inbox[r])
      BY <1>1, <1>11, <2>2, <3>1 DEF Order, Numbered
    <3>2. CASE n \notin ToSet(inbox[r])
      <4>1. n = m /\ n.dg.id = sent + 1
        BY <1>2, <1>4, <1>5, <2>2, <3>2
      <4>2. \A dg \in ToSet(q) \union routed \union ToSet(post_removes[r]) :
               dg.id \in Int /\ dg.id <= sent
        BY <1>6, <1>7 DEF Order, NumbersUsed
      <4> QED
        BY <1>1, <4>1, <4>2
    <3> QED
      BY <3>1, <3>2
  <2> QED
    BY <1>3, <2>1, <2>2 DEF Numbered
<1> QED
  BY <1>8, <1>9, <1>10, <1>12 DEF Order

LEMMA OrderLost ==
    ASSUME TypeOK, Order, NEW p \in Participant, ConnectionLost(p)
    PROVE  Order'
<1>1. /\ p \notin lost /\ lost' = lost \union {p}
      /\ inbox' = [inbox EXCEPT ![p] = <<>>] /\ inbox'[p] = <<>>
      /\ q' = q \o post_removes[p]
      /\ post_removes' = [post_removes EXCEPT ![p] = <<>>] /\ post_removes'[p] = <<>>
      /\ UNCHANGED <<outgoing_q, sent, delivered, routed, promised>>
  BY DEF ConnectionLost, PostRemove, historyVars, TypeOK
<1>2. q \in Seq(Datagram) /\ post_removes[p] \in Seq(Datagram)
  BY DEF TypeOK
<1>3. ToSet(q') = ToSet(q) \union ToSet(post_removes[p])
  BY <1>1, <1>2, ToSetConcat
<1>4. \A r \in Participant : r # p => inbox'[r] = inbox[r] /\ post_removes'[r] = post_removes[r]
  BY <1>1 DEF TypeOK
<1>5. ToSet(inbox'[p]) = {} /\ ToSet(post_removes'[p]) = {} /\ Increasing(inbox'[p])
  BY <1>1, ToSetEmpty, OrderedEmpty
<1>6. \A dg \in ToSet(post_removes[p]) : Own(p, dg, TRUE) /\ dg \in promised[p] /\ dg.id <= sent
  BY <1>1 DEF Order, PostRemovesFollowLoss, Authored, NumbersUsed
<1>7. Authored'
  BY <1>1, <1>4, <1>5 DEF Order, Authored
<1>8. PostRemovesFollowLoss'
  <2> SUFFICES ASSUME NEW r \in Participant
               PROVE  IF r \in lost'
                        THEN promised[r] \subseteq ToSet(q') \union routed
                        ELSE /\ ToSet(post_removes'[r]) = promised[r]
                             /\ \A dg \in ToSet(q') \union routed : dg.from = r => ~dg.post
    BY <1>1 DEF PostRemovesFollowLoss
  <2>1. CASE r = p
    BY <1>1, <1>3, <2>1 DEF Order, PostRemovesFollowLoss
  <2>2. CASE r # p /\ r \in lost
    BY <1>1, <1>3, <2>2 DEF Order, PostRemovesFollowLoss
  <2>3. CASE r # p /\ r \notin lost
    <3>1. ToSet(post_removes'[r]) = promised[r]
      BY <1>4, <2>3 DEF Order, PostRemovesFollowLoss
    <3>2. \A dg \in ToSet(q') \union routed : dg.from = r => ~dg.post
      BY <1>3, <1>6, <2>3 DEF Order, PostRemovesFollowLoss, Own
    <3> QED
      BY <1>1, <2>3, <3>1, <3>2
  <2> QED
    BY <2>1, <2>2, <2>3
<1>9. NumbersUsed'
  BY <1>1, <1>3, <1>4, <1>5, <1>6 DEF Order, NumbersUsed
<1>10. Numbered'
  <2>1. ASSUME NEW r \in Participant, r # p
        PROVE  \A dg \in ToSet(q') \union routed \union ToSet(post_removes'[r]) :
                  dg.from = r => dg \in ToSet(q) \union routed \union ToSet(post_removes[r])
    BY <1>3, <1>4, <1>6, <2>1 DEF Own
  <2>2. ASSUME NEW r \in Participant, r # p
        PROVE  /\ Increasing(inbox'[r])
               /\ \A n \in ToSet(inbox'[r]) : Carries(n) =>
                     /\ n.dg.id <= sent
                     /\ \A dg \in ToSet(q') \union routed \union ToSet(post_removes'[r]) :
                           dg.from = r => dg.id < n.dg.id
    BY <1>4, <2>1, <2>2 DEF Order, Numbered
  <2> QED
    BY <1>1, <1>5, <2>2 DEF Numbered
<1>11. Paths'
  <2>1. ASSUME NEW a \in ToSet(q) \union routed, NEW b \in ToSet(post_removes[p]), a.from = b.from
        PROVE  Before(a, b)
    <3>1. b.from = p /\ b.post
      BY <1>6, <2>1 DEF Own
    <3>2. ~a.post
      BY <1>1, <2>1, <3>1 DEF Order, PostRemovesFollowLoss
    <3> QED
      BY <3>1, <3>2 DEF Before
  <2>2. Precedes(ToSet(q), ToSet(post_removes[p]))
    BY <2>1 DEF Precedes
  <2>3. Ordered(q')
    BY <1>1, <1>2, <2>2, OrderedConcat DEF Order, Paths
  <2>4. ASSUME NEW r \in Participant
        PROVE  Precedes(ToSet(delivered[r]) \union ToSet(outgoing_q[r]), ToSet(q'))
    <3>1. /\ Precedes(ToSet(delivered[r]) \union ToSet(outgoing_q[r]), ToSet(q))
          /\ ToSet(delivered[r]) \union ToSet(outgoing_q[r]) \subseteq routed
      BY DEF Order, Paths
    <3> QED
      BY <1>3, <2>1, <3>1 DEF Precedes
  <2>5. \A r \in Participant : Ordered(post_removes'[r])
    BY <1>1, <1>4, OrderedEmpty DEF Order, Paths
  <2> QED
    BY <1>1, <2>3, <2>4, <2>5 DEF Order, Paths
<1> QED
  BY <1>7, <1>8, <1>9, <1>10, <1>11 DEF Order

LEMMA OrderRoute ==
    ASSUME TypeOK, Order, Route
    PROVE  Order'
<1>1. PICK dg : dg = Head(q)
  OBVIOUS
<1>2. /\ q \in Seq(Datagram) /\ q # <<>> /\ q' = Tail(q)
      /\ UNCHANGED <<lost, inbox, post_removes, sent, delivered, promised>>
      /\ routed' = IF Readable(dg) THEN routed \union {dg} ELSE routed
  BY <1>1 DEF Route, TypeOK
<1>3. dg \in Datagram /\ ToSet(q) = {dg} \union ToSet(q')
  BY <1>1, <1>2, ToSetTail
<1>4. Ordered(q') /\ Precedes({dg}, ToSet(q'))
  BY <1>1, <1>2, OrderedTail DEF Order, Paths
<1>5. ToSet(q') \union routed' \subseteq ToSet(q) \union routed /\ routed \subseteq routed'
  BY <1>2, <1>3
<1>6. Authored'
  BY <1>2 DEF Order, Authored
<1>7. PostRemovesFollowLoss'
  <2>1. ASSUME NEW r \in lost, NEW d \in promised[r]
        PROVE  d \in ToSet(q') \union routed'
    <3>1. r \in Participant
      BY DEF TypeOK
    <3>2. d \in ToSet(q) \union routed /\ d.to # {}
      BY <2>1, <3>1 DEF Order, PostRemovesFollowLoss, Authored, Own
    <3> QED
      BY <1>2, <1>3, <3>2 DEF Readable
  <2> QED
    BY <1>2, <1>5, <2>1 DEF Order, PostRemovesFollowLoss
<1>8. NumbersUsed'
  BY <1>2, <1>5 DEF Order, NumbersUsed
<1>9. Numbered'
  BY <1>2, <1>5 DEF Order, Numbered
<1>10. Paths'
  <2>1. ASSUME NEW r \in Participant
        PROVE  /\ Ordered(outgoing_q'[r])
               /\ ToSet(delivered[r]) \union ToSet(outgoing_q'[r]) \subseteq routed'
               /\ Precedes(ToSet(delivered[r]), ToSet(outgoing_q'[r]))
               /\ Precedes(ToSet(delivered[r]) \union ToSet(outgoing_q'[r]), ToSet(q'))
    <3>1. /\ Ordered(outgoing_q[r])
          /\ ToSet(delivered[r]) \union ToSet(outgoing_q[r]) \subseteq routed
          /\ Precedes(ToSet(delivered[r]), ToSet(outgoing_q[r]))
          /\ Precedes(ToSet(delivered[r]) \union ToSet(outgoing_q[r]), ToSet(q))
      BY DEF Order, Paths
    <3>2. CASE outgoing_q'[r] = outgoing_q[r]
      BY <1>3, <1>5, <3>1, <3>2 DEF Precedes
    <3>3. CASE outgoing_q'[r] # outgoing_q[r]
      <4>1. /\ outgoing_q'[r] = Append(outgoing_q[r], dg)
            /\ r \in Receivers(channel_subscriptions, dg.to)
        BY <1>1, <3>3 DEF Route, TypeOK
      <4>2. dg \in routed'
        BY <1>2, <4>1 DEF Receivers, Readable
      <4>3. outgoing_q[r] \in Seq(Datagram)
        BY DEF TypeOK
      <4>4. ToSet(outgoing_q'[r]) = ToSet(outgoing_q[r]) \union {dg}
        BY <1>3, <4>1, <4>3, ToSetAppend
      <4>5. Precedes(ToSet(delivered[r]) \union ToSet(outgoing_q[r]), {dg})
        BY <1>3, <3>1 DEF Precedes
      <4>6. Precedes(ToSet(outgoing_q[r]), {dg})
        BY <4>5 DEF Precedes
      <4>7. Ordered(outgoing_q'[r])
        BY <1>3, <3>1, <4>1, <4>3, <4>6, OrderedAppend
      <4>8. Precedes(ToSet(delivered[r]), ToSet(outgoing_q'[r]))
        BY <3>1, <4>4, <4>5 DEF Precedes
      <4>9. Precedes(ToSet(delivered[r]) \union ToSet(outgoing_q'[r]), ToSet(q'))
        BY <1>3, <1>4, <3>1, <4>4 DEF Precedes
      <4> QED
        BY <1>5, <3>1, <4>2, <4>4, <4>7, <4>8, <4>9
    <3> QED
      BY <3>2, <3>3
  <2> QED
    BY <1>2, <1>4, <2>1 DEF Order, Paths
<1> QED
  BY <1>6, <1>7, <1>8, <1>9, <1>10 DEF Order

LEMMA OrderTransmit ==
    ASSUME TypeOK, Order, NEW p \in Participant, Transmit(p)
    PROVE  Order'
<1>1. PICK dg : dg = Head(outgoing_q[p])
  OBVIOUS
<1>2. /\ outgoing_q[p] \in Seq(Datagram) /\ outgoing_q[p] # <<>>
      /\ delivered[p] \in Seq(Datagram)
      /\ delivered' = [delivered EXCEPT ![p] = Append(@, dg)]
      /\ delivered'[p] = Append(delivered[p], dg)
      /\ outgoing_q' = [outgoing_q EXCEPT ![p] = Tail(@)]
      /\ outgoing_q'[p] = Tail(outgoing_q[p])
      /\ UNCHANGED <<lost, inbox, post_removes, q, sent, routed, promised>>
  BY <1>1 DEF Transmit, TypeOK
<1>3. dg \in Datagram /\ ToSet(outgoing_q[p]) = {dg} \union ToSet(outgoing_q'[p])
  BY <1>1, <1>2, ToSetTail
<1>4. ToSet(delivered'[p]) = ToSet(delivered[p]) \union {dg}
  BY <1>2, <1>3, ToSetAppend
<1>5. Ordered(outgoing_q'[p]) /\ Precedes({dg}, ToSet(outgoing_q'[p]))
  BY <1>1, <1>2, OrderedTail DEF Order, Paths
<1>6. /\ Ordered(delivered[p])
      /\ Precedes(ToSet(delivered[p]), ToSet(outgoing_q[p]))
      /\ ToSet(delivered[p]) \union ToSet(outgoing_q[p]) \subseteq routed
      /\ Precedes(ToSet(delivered[p]) \union ToSet(outgoing_q[p]), ToSet(q))
  BY DEF Order, Paths
<1>7. Precedes(ToSet(delivered[p]), {dg})
  BY <1>3, <1>6 DEF Precedes
<1>8. Ordered(delivered'[p])
  BY <1>2, <1>3, <1>6, <1>7, OrderedAppend
<1>9. Precedes(ToSet(delivered'[p]), ToSet(outgoing_q'[p]))
  BY <1>3, <1>4, <1>5, <1>6 DEF Precedes
<1>10. ToSet(delivered'[p]) \union ToSet(outgoing_q'[p])
           = ToSet(delivered[p]) \union ToSet(outgoing_q[p])
  BY <1>3, <1>4
<1>11. \A r \in Participant : r # p => delivered'[r] = delivered[r] /\ outgoing_q'[r] = outgoing_q[r]
  BY <1>2 DEF TypeOK
<1>12. Paths'
  BY <1>2, <1>5, <1>6, <1>8, <1>9, <1>10, <1>11 DEF Order, Paths
<1>13. Authored' /\ PostRemovesFollowLoss' /\ Numbered' /\ NumbersUsed'
  BY <1>2 DEF Order, Authored, PostRemovesFollowLoss, Numbered, NumbersUsed
<1> QED
  BY <1>12, <1>13 DEF Order

\* The inductive invariant behind the order of what a receiver is given:
\* datagrams are numbered as they are sent, no number is used twice, and on
\* every path they stand in that order (MDProtocol, process_datagram).
THEOREM Ordering == Spec => []Order
<1> USE DirectorAssumption
<1>1. Init => Order
  <2> SUFFICES ASSUME Init PROVE Order
    OBVIOUS
  <2>1. /\ ToSet(q) = {} /\ Ordered(q) /\ routed = {} /\ lost = {}
        /\ \A p \in Participant :
              /\ ToSet(inbox[p]) = {} /\ Increasing(inbox[p])
              /\ ToSet(post_removes[p]) = {} /\ Ordered(post_removes[p])
              /\ ToSet(delivered[p]) = {} /\ Ordered(delivered[p])
              /\ ToSet(outgoing_q[p]) = {} /\ Ordered(outgoing_q[p])
              /\ promised[p] = {}
    BY ToSetEmpty, OrderedEmpty DEF Init
  <2>2. Authored /\ PostRemovesFollowLoss /\ Numbered /\ NumbersUsed
    BY <2>1 DEF Authored, PostRemovesFollowLoss, Numbered, NumbersUsed
  <2>3. Paths
    BY <2>1 DEF Paths, Precedes
  <2> QED
    BY <2>2, <2>3 DEF Order
<1>2. TypeOK /\ Order /\ [Next]_vars => Order'
  <2> SUFFICES ASSUME TypeOK, Order, [Next]_vars PROVE Order'
    OBVIOUS
  <2>1. ASSUME NEW p \in Participant, NEW m \in MessagesFrom(p, sent + 1), Arrive(p, m)
        PROVE  Order'
    BY <2>1, OrderArrive
  <2>2. ASSUME NEW p \in Participant, ReceiveDatagram(p) PROVE Order'
    BY <2>2, OrderReceive
  <2>3. ASSUME NEW p \in Participant, ConnectionLost(p) PROVE Order'
    BY <2>3, OrderLost
  <2>4. CASE Route
    BY <2>4, OrderRoute
  <2>5. ASSUME NEW p \in Participant, Transmit(p) PROVE Order'
    BY <2>5, OrderTransmit
  <2>6. CASE UNCHANGED <<lost, inbox, post_removes, q, outgoing_q, sent, delivered, routed, promised>>
    BY <2>6 DEF Order, Authored, PostRemovesFollowLoss, Numbered, NumbersUsed, Paths
  <2>7. ASSUME NEW p \in Participant, Connect(p) PROVE Order'
    BY <2>6, <2>7 DEF Connect, historyVars
  <2>8. CASE UNCHANGED vars
    BY <2>6, <2>8 DEF vars, tableVars
  <2> QED
    BY <2>1, <2>2, <2>3, <2>4, <2>5, <2>7, <2>8 DEF Next
<1> QED
  BY <1>1, <1>2, TypeCorrect, PTL DEF Spec

\* A post remove is published when its connection is lost and not before, and
\* none is forgotten (post_remove, connection_lost).
THEOREM PostRemovesPublished == Spec => []PostRemovesFollowLoss
<1>1. Order => PostRemovesFollowLoss
  BY DEF Order
<1> QED
  BY <1>1, Ordering, PTL

\* What one sender sent reaches a receiver in the order it was sent, each
\* datagram once, the post removes last (q, process_datagram, outgoing_q).
THEOREM OrderKept == Spec => []SenderOrder
<1>1. TypeOK /\ Order => SenderOrder
  <2> SUFFICES ASSUME TypeOK, Order, NEW p \in Participant
               PROVE  Ordered(delivered[p] \o outgoing_q[p] \o q)
    BY DEF SenderOrder, Ordered
  <2>1. delivered[p] \in Seq(Datagram) /\ outgoing_q[p] \in Seq(Datagram) /\ q \in Seq(Datagram)
    BY DEF TypeOK
  <2>2. delivered[p] \o outgoing_q[p] \in Seq(Datagram)
    BY <2>1, ConcatProperties
  <2>3. Ordered(delivered[p] \o outgoing_q[p])
    BY <2>1, OrderedConcat DEF Order, Paths
  <2>4. ToSet(delivered[p] \o outgoing_q[p]) = ToSet(delivered[p]) \union ToSet(outgoing_q[p])
    BY <2>1, ToSetConcat
  <2>5. Precedes(ToSet(delivered[p] \o outgoing_q[p]), ToSet(q)) /\ Ordered(q)
    BY <2>4 DEF Order, Paths
  <2> QED
    BY <2>1, <2>2, <2>3, <2>5, OrderedConcat
<1> QED
  BY <1>1, TypeCorrect, Ordering, PTL

=============================================================================
