-------------------------- MODULE ChannelRelay_proofs --------------------------
(* Proofs about ChannelRelay, for every set of directors, members and        *)
(* channels, however long the links get.                                     *)
EXTENDS ChannelRelay, FiniteSetTheorems, FunctionTheorems, SequenceTheorems, TLAPS

-----------------------------------------------------------------------------
(* Lemmas about Hears: what it makes of messages added at the end and taken  *)
(* from the front.                                                           *)

LEMMA MessagesDiffer ==
    /\ \A c, c2 \in Channel :
          /\ SetMsg(c) # RemoveMsg(c2)
          /\ SetMsg(c) = SetMsg(c2) <=> c = c2
          /\ RemoveMsg(c) = RemoveMsg(c2) <=> c = c2
    /\ \A c \in Channel, r \in Request :
          RequestMsg(r) # SetMsg(c) /\ RequestMsg(r) # RemoveMsg(c)
  BY DEF SetMsg, RemoveMsg, RequestMsg

LEMMA MessageTypes ==
    /\ \A c \in Channel : SetMsg(c) \in Message /\ RemoveMsg(c) \in Message
    /\ \A r \in Request : RequestMsg(r) \in Message
    /\ \A m \in Message :
          \/ m.type = "SET_CHANNEL" /\ m.channel \in Channel /\ m = SetMsg(m.channel)
          \/ m.type = "REMOVE_CHANNEL" /\ m.channel \in Channel /\ m = RemoveMsg(m.channel)
          \/ m.type = "REQUEST" /\ m.request \in Request /\ m = RequestMsg(m.request)
  BY DEF Message, SetMsg, RemoveMsg, RequestMsg

\* A SET_CHANNEL at the end makes the channel heard.
LEMMA HearsAfterSet ==
    ASSUME NEW s \in Seq(Message), NEW c \in Channel, NEW d, NEW S
    PROVE  Hears(s \o <<SetMsg(c)>>, c, d \in S)
<1> DEFINE t == s \o <<SetMsg(c)>>
<1>1. <<SetMsg(c)>> \in Seq(Message)
  BY MessageTypes
<1>2. /\ Len(t) = Len(s) + 1
      /\ t[Len(s) + 1] = SetMsg(c)
      /\ DOMAIN t = 1 .. Len(s) + 1
  BY <1>1, ConcatProperties, LenProperties
<1>3. Len(s) \in Nat
  BY LenProperties
<1> HIDE DEF t
<1>4. Hears(t, c, d \in S)
  BY <1>2, <1>3 DEF Hears
<1> QED
  BY <1>4 DEF t

\* Messages that never set the channel leave it heard unless one removes it.
LEMMA HearsAfterOthers ==
    ASSUME NEW s \in Seq(Message), NEW t \in Seq(Message), NEW c \in Channel,
           NEW d, NEW S, \A i \in DOMAIN t : t[i] # SetMsg(c)
    PROVE  Hears(s \o t, c, d \in S) <=>
               Hears(s, c, d \in S) /\ \A i \in DOMAIN t : ~About(t[i], c)
<1> DEFINE u == s \o t
<1>1. /\ Len(u) = Len(s) + Len(t)
      /\ \A i \in 1 .. Len(s) : u[i] = s[i]
      /\ \A i \in 1 .. Len(t) : u[Len(s) + i] = t[i]
      /\ DOMAIN u = 1 .. Len(s) + Len(t)
  <2>1. u \in Seq(Message)
    BY ConcatProperties
  <2> QED
    BY <2>1, ConcatProperties, LenProperties
<1>2. /\ Len(s) \in Nat /\ DOMAIN s = 1 .. Len(s)
      /\ Len(t) \in Nat /\ DOMAIN t = 1 .. Len(t)
  BY LenProperties
<1> HIDE DEF u
<1>3. ASSUME Hears(u, c, d \in S)
      PROVE  Hears(s, c, d \in S) /\ \A i \in DOMAIN t : ~About(t[i], c)
  <2>1. CASE d \in S /\ \A j \in DOMAIN u : ~About(u[j], c)
    BY <1>1, <1>2, <2>1 DEF Hears
  <2>2. CASE \E i \in DOMAIN u : u[i] = SetMsg(c) /\ \A j \in i + 1 .. Len(u) : ~About(u[j], c)
    <3>1. PICK i \in DOMAIN u : u[i] = SetMsg(c) /\ \A j \in i + 1 .. Len(u) : ~About(u[j], c)
      BY <2>2
    <3>2. i \in 1 .. Len(s)
      <4>1. ASSUME i > Len(s)
            PROVE  FALSE
        <5>1. i - Len(s) \in 1 .. Len(t) /\ u[Len(s) + (i - Len(s))] = t[i - Len(s)]
          BY <1>1, <1>2, <3>1, <4>1
        <5>2. u[i] = t[i - Len(s)]
          BY <1>1, <1>2, <5>1
        <5> QED
          BY <1>2, <3>1, <5>1, <5>2
      <4> QED
        BY <1>1, <1>2, <4>1
    <3>3. s[i] = SetMsg(c) /\ \A j \in i + 1 .. Len(s) : ~About(s[j], c)
      BY <1>1, <1>2, <3>1, <3>2
    <3>4. \A k \in 1 .. Len(t) : ~About(t[k], c)
      BY <1>1, <1>2, <3>1, <3>2
    <3> QED
      BY <1>2, <3>2, <3>3, <3>4 DEF Hears
  <2> QED
    BY <1>3, <2>1, <2>2 DEF Hears
<1>4. ASSUME Hears(s, c, d \in S), \A i \in DOMAIN t : ~About(t[i], c)
      PROVE  Hears(u, c, d \in S)
  <2>1. \A j \in Len(s) + 1 .. Len(u) : ~About(u[j], c)
    <3> TAKE j \in Len(s) + 1 .. Len(u)
    <3>1. j - Len(s) \in 1 .. Len(t) /\ u[Len(s) + (j - Len(s))] = t[j - Len(s)]
      BY <1>1, <1>2
    <3>2. u[j] = t[j - Len(s)]
      BY <1>1, <1>2, <3>1
    <3> QED
      BY <1>2, <1>4, <3>1, <3>2
  <2>2. CASE d \in S /\ \A j \in DOMAIN s : ~About(s[j], c)
    <3>1. \A j \in DOMAIN u : ~About(u[j], c)
      BY <1>1, <1>2, <2>1, <2>2
    <3> QED
      BY <2>2, <3>1 DEF Hears
  <2>3. CASE \E i \in DOMAIN s : s[i] = SetMsg(c) /\ \A j \in i + 1 .. Len(s) : ~About(s[j], c)
    <3>1. PICK i \in DOMAIN s : s[i] = SetMsg(c) /\ \A j \in i + 1 .. Len(s) : ~About(s[j], c)
      BY <2>3
    <3>2. i \in DOMAIN u /\ u[i] = SetMsg(c)
      BY <1>1, <1>2, <3>1
    <3>3. \A j \in i + 1 .. Len(u) : ~About(u[j], c)
      BY <1>1, <1>2, <2>1, <3>1
    <3> QED
      BY <3>2, <3>3 DEF Hears
  <2> QED
    BY <1>4, <2>2, <2>3 DEF Hears
<1> QED
  BY <1>3, <1>4 DEF u

\* The same for one message.
LEMMA HearsAfterOther ==
    ASSUME NEW s \in Seq(Message), NEW msg \in Message, NEW c \in Channel,
           NEW d, NEW S, msg # SetMsg(c)
    PROVE  Hears(s \o <<msg>>, c, d \in S) <=> Hears(s, c, d \in S) /\ ~About(msg, c)
<1> DEFINE t == <<msg>>
<1>1. t \in Seq(Message) /\ DOMAIN t = {1} /\ t[1] = msg
  OBVIOUS
<1> HIDE DEF t
<1>2. Hears(s \o t, c, d \in S) <=>
          Hears(s, c, d \in S) /\ \A i \in DOMAIN t : ~About(t[i], c)
  BY <1>1, HearsAfterOthers
<1> QED
  BY <1>1, <1>2 DEF t

\* Handling the first message changes what is heard now, not what will be.
LEMMA HearsAfterHead ==
    ASSUME NEW s \in Seq(Message), s # <<>>, NEW c \in Channel,
           NEW d, NEW S, NEW S2,
           Head(s) = SetMsg(c) => d \in S2,
           Head(s) = RemoveMsg(c) => d \notin S2,
           ~About(Head(s), c) => (d \in S2 <=> d \in S)
    PROVE  Hears(s, c, d \in S) <=> Hears(Tail(s), c, d \in S2)
<1> DEFINE t == Tail(s)
<1>1. /\ t \in Seq(Message)
      /\ Len(t) = Len(s) - 1
      /\ \A i \in 1 .. Len(t) : t[i] = s[i + 1]
  BY HeadTailProperties
<1>2. /\ Len(s) \in Nat /\ Len(s) >= 1 /\ DOMAIN s = 1 .. Len(s)
      /\ DOMAIN t = 1 .. Len(t)
      /\ Head(s) = s[1]
  BY <1>1, LenProperties
<1> HIDE DEF t
<1>3. \A i \in 2 .. Len(s) : i - 1 \in 1 .. Len(t) /\ s[i] = t[i - 1]
  BY <1>1, <1>2
<1>4. SetMsg(c) # RemoveMsg(c)
  BY MessagesDiffer
<1>5. ASSUME Hears(s, c, d \in S)
      PROVE  Hears(t, c, d \in S2)
  <2>1. CASE d \in S /\ \A j \in DOMAIN s : ~About(s[j], c)
    <3>1. ~About(Head(s), c)
      BY <1>2, <2>1
    <3>2. d \in S2
      BY <2>1, <3>1
    <3>3. \A j \in DOMAIN t : ~About(t[j], c)
      BY <1>1, <1>2, <2>1
    <3> QED
      BY <3>2, <3>3 DEF Hears
  <2>2. CASE \E i \in DOMAIN s : s[i] = SetMsg(c) /\ \A j \in i + 1 .. Len(s) : ~About(s[j], c)
    <3>1. PICK i \in DOMAIN s : s[i] = SetMsg(c) /\ \A j \in i + 1 .. Len(s) : ~About(s[j], c)
      BY <2>2
    <3>2. CASE i = 1
      <4>1. d \in S2
        BY <1>2, <3>1, <3>2
      <4>2. \A j \in DOMAIN t : ~About(t[j], c)
        BY <1>1, <1>2, <3>1, <3>2
      <4> QED
        BY <4>1, <4>2 DEF Hears
    <3>3. CASE i > 1
      <4>1. i - 1 \in DOMAIN t /\ t[i - 1] = SetMsg(c)
        BY <1>2, <1>3, <3>1, <3>3
      <4>2. \A j \in (i - 1) + 1 .. Len(t) : ~About(t[j], c)
        BY <1>1, <1>2, <3>1, <3>3
      <4> QED
        BY <4>1, <4>2 DEF Hears
    <3> QED
      BY <1>2, <3>1, <3>2, <3>3
  <2> QED
    BY <1>5, <2>1, <2>2 DEF Hears
<1>6. ASSUME Hears(t, c, d \in S2)
      PROVE  Hears(s, c, d \in S)
  <2>1. CASE d \in S2 /\ \A j \in DOMAIN t : ~About(t[j], c)
    <3>1. \A j \in 2 .. Len(s) : ~About(s[j], c)
      BY <1>2, <1>3, <2>1
    <3>2. CASE s[1] = SetMsg(c)
      BY <1>2, <3>1, <3>2 DEF Hears
    <3>3. CASE s[1] # SetMsg(c)
      <4>1. ~About(s[1], c)
        BY <1>2, <2>1, <3>3 DEF About
      <4>2. d \in S
        BY <1>2, <2>1, <4>1
      <4>3. \A j \in DOMAIN s : ~About(s[j], c)
        BY <1>2, <3>1, <4>1
      <4> QED
        BY <4>2, <4>3 DEF Hears
    <3> QED
      BY <3>2, <3>3
  <2>2. CASE \E i \in DOMAIN t : t[i] = SetMsg(c) /\ \A j \in i + 1 .. Len(t) : ~About(t[j], c)
    <3>1. PICK i \in DOMAIN t : t[i] = SetMsg(c) /\ \A j \in i + 1 .. Len(t) : ~About(t[j], c)
      BY <2>2
    <3>2. i + 1 \in DOMAIN s /\ s[i + 1] = SetMsg(c)
      BY <1>1, <1>2, <3>1
    <3>3. \A j \in (i + 1) + 1 .. Len(s) : ~About(s[j], c)
      <4> TAKE j \in (i + 1) + 1 .. Len(s)
      <4>1. j - 1 \in i + 1 .. Len(t) /\ j \in 2 .. Len(s)
        BY <1>1, <1>2, <3>1
      <4> QED
        BY <1>3, <3>1, <4>1
    <3> QED
      BY <3>2, <3>3 DEF Hears
  <2> QED
    BY <1>6, <2>1, <2>2 DEF Hears
<1> QED
  BY <1>5, <1>6 DEF t

\* The orderings of a finite set list every element.
LEMMA OrderingsComplete ==
    ASSUME NEW S, IsFiniteSet(S), NEW order \in SetToSeqs(S)
    PROVE  /\ Cardinality(S) \in Nat
           /\ order \in [1 .. Cardinality(S) -> S]
           /\ \A x \in S : \E i \in 1 .. Cardinality(S) : order[i] = x
<1> DEFINE D == 1 .. Cardinality(S)
<1>1. Cardinality(S) \in Nat
  BY FS_CardinalityType
<1>2. order \in [D -> S] /\ \A i, j \in D : i # j => order[i] # order[j]
  BY DEF SetToSeqs
<1>3. order \in Injection(D, S)
  BY <1>2, Fun_IsInj
<1>4. Cardinality(D) = Cardinality(S)
  BY <1>1, FS_Interval
<1>5. order \in Surjection(D, S)
  BY <1>3, <1>4, FS_Injection
<1> QED
  BY <1>1, <1>2, <1>5, Fun_SurjectionProperties

-----------------------------------------------------------------------------
(* Type correctness *)

\* Sending messages up keeps uplink a sequence of messages.
LEMMA SendUpType ==
    ASSUME uplink \in [Director -> Seq(Message)], NEW d \in Director,
           NEW msgs \in Seq(Message), SendUp(d, msgs)
    PROVE  uplink' \in [Director -> Seq(Message)]
  BY ConcatProperties DEF SendUp

\* What a departing member sends is one REMOVE_CHANNEL for each of its
\* orphaned channels.
LEMMA FarewellMessages ==
    ASSUME NEW S \in SUBSET Channel, NEW order \in SetToSeqs(S)
    PROVE  LET t == [i \in DOMAIN order |-> RemoveMsg(order[i])]
           IN  /\ t \in Seq(Message)
               /\ \A i \in DOMAIN t : \E c \in S : t[i] = RemoveMsg(c)
               /\ \A c \in S : \E i \in DOMAIN t : t[i] = RemoveMsg(c)
<1> DEFINE n == Cardinality(S)
           t == [i \in DOMAIN order |-> RemoveMsg(order[i])]
<1>1. IsFiniteSet(S)
  BY RelayAssumption, FS_Subset
<1>2. /\ n \in Nat
      /\ order \in [1 .. n -> S]
      /\ \A c \in S : \E i \in 1 .. n : order[i] = c
  BY <1>1, OrderingsComplete
<1> HIDE DEF n
<1>3. t \in [1 .. n -> Message] /\ DOMAIN t = 1 .. n
  BY <1>2, MessageTypes
<1>4. t \in Seq(Message)
  BY <1>2, <1>3
<1> QED
  BY <1>2, <1>3, <1>4

\* What a member's operations do to its director's tables.
LEMMA SubscribeEffect ==
    ASSUME TypeOK, NEW m \in Member, NEW c \in Channel, Subscribe(m, c)
    PROVE  /\ Home(m) \in Director
           /\ localSubs' \in [Director -> [Channel -> SUBSET Member]]
           /\ \A d2 \in Director, c2 \in Channel : localSubs'[d2][c2] =
                 IF d2 = Home(m) /\ c2 = c THEN localSubs[d2][c2] \union {m}
                                          ELSE localSubs[d2][c2]
<1> DEFINE d == Home(m)
           table == Subscribed(localSubs[d], m, c)
<1>1. d \in Director /\ localSubs \in [Director -> [Channel -> SUBSET Member]]
  BY RelayAssumption DEF TypeOK
<1>2. localSubs' = [localSubs EXCEPT ![d] = table]
  BY DEF Subscribe
<1>3. /\ table \in [Channel -> SUBSET Member]
      /\ \A c2 \in Channel : table[c2] =
            IF c2 = c THEN localSubs[d][c2] \union {m} ELSE localSubs[d][c2]
  BY <1>1 DEF Subscribed
<1> HIDE DEF table
<1> QED
  BY <1>1, <1>2, <1>3

LEMMA UnsubscribeEffect ==
    ASSUME TypeOK, NEW m \in Member, NEW c \in Channel, Unsubscribe(m, c)
    PROVE  /\ Home(m) \in Director
           /\ localSubs' \in [Director -> [Channel -> SUBSET Member]]
           /\ \A d2 \in Director, c2 \in Channel : localSubs'[d2][c2] =
                 IF d2 = Home(m) /\ c2 = c THEN localSubs[d2][c2] \ {m}
                                          ELSE localSubs[d2][c2]
<1> DEFINE d == Home(m)
           table == Unsubscribed(localSubs[d], m, c)
<1>1. d \in Director /\ localSubs \in [Director -> [Channel -> SUBSET Member]]
  BY RelayAssumption DEF TypeOK
<1>2. localSubs' = [localSubs EXCEPT ![d] = table]
  BY DEF Unsubscribe
<1>3. /\ table \in [Channel -> SUBSET Member]
      /\ \A c2 \in Channel : table[c2] =
            IF c2 = c THEN localSubs[d][c2] \ {m} ELSE localSubs[d][c2]
  BY <1>1 DEF Unsubscribed
<1> HIDE DEF table
<1> QED
  BY <1>1, <1>2, <1>3

LEMMA MemberLeavesEffect ==
    ASSUME TypeOK, NEW m \in Member, MemberLeaves(m)
    PROVE  /\ Home(m) \in Director
           /\ localSubs' \in [Director -> [Channel -> SUBSET Member]]
           /\ \A d2 \in Director, c2 \in Channel : localSubs'[d2][c2] =
                 IF d2 = Home(m) /\ c2 \in channels[m] THEN localSubs[d2][c2] \ {m}
                                                       ELSE localSubs[d2][c2]
<1> DEFINE d == Home(m)
           table == UnsubscribedAll(localSubs[d], m, channels[m])
<1>1. /\ d \in Director /\ channels[m] \in SUBSET Channel
      /\ localSubs \in [Director -> [Channel -> SUBSET Member]]
  BY RelayAssumption DEF TypeOK
<1>2. localSubs' = [localSubs EXCEPT ![d] = table]
  BY DEF MemberLeaves
<1>3. /\ table \in [Channel -> SUBSET Member]
      /\ \A c2 \in Channel : table[c2] =
            IF c2 \in channels[m] THEN localSubs[d][c2] \ {m} ELSE localSubs[d][c2]
  BY <1>1 DEF UnsubscribedAll
<1> HIDE DEF table
<1> QED
  BY <1>1, <1>2, <1>3

\* Every reachable state is well formed: in particular the two sides of each
\* director's table agree, and a channel with members is a key of it.
THEOREM TypeCorrect == Spec => []TypeOK
<1>1. Init => TypeOK
  BY RelayAssumption DEF Init, TypeOK
<1>2. TypeOK /\ [Next]_vars => TypeOK'
  <2> SUFFICES ASSUME TypeOK, [Next]_vars
               PROVE  TypeOK'
    OBVIOUS
  <2> USE RelayAssumption DEF TypeOK, memberVars
  <2>1. ASSUME NEW m \in Member, NEW c \in Channel, Subscribe(m, c)
        PROVE  TypeOK'
    <3> DEFINE d == Home(m)
               msgs == IF SubscribeUpstream(d, c) THEN <<SetMsg(c)>> ELSE <<>>
    <3>1. d \in Director /\ msgs \in Seq(Message)
      BY MessageTypes
    <3>2. uplink' \in [Director -> Seq(Message)]
      BY <2>1, <3>1, SendUpType DEF Subscribe
    <3>3. /\ localSubs' \in [Director -> [Channel -> SUBSET Member]]
          /\ \A d2 \in Director, c2 \in Channel : localSubs'[d2][c2] =
                IF d2 = d /\ c2 = c THEN localSubs[d2][c2] \union {m} ELSE localSubs[d2][c2]
      BY <2>1, SubscribeEffect
    <3>4. /\ channels' \in [Member -> SUBSET Channel]
          /\ \A m2 \in Member : channels'[m2] =
                IF m2 = m THEN channels[m] \union {c} ELSE channels[m2]
          /\ known' \in [Director -> SUBSET Channel]
          /\ \A d2 \in Director : known[d2] \subseteq known'[d2]
          /\ c \in known'[d]
      BY <2>1, <3>1 DEF Subscribe
    <3> HIDE DEF d
    <3>5. \A m2 \in Member, c2 \in Channel :
              c2 \in channels'[m2] <=> m2 \in localSubs'[Home(m2)][c2]
      <4> TAKE m2 \in Member, c2 \in Channel
      <4>1. /\ Home(m2) \in Director
            /\ c2 \in channels[m2] <=> m2 \in localSubs[Home(m2)][c2]
        OBVIOUS
      <4> HIDE DEF TypeOK
      <4>2. CASE m2 = m
        BY <3>3, <3>4, <4>1, <4>2 DEF d
      <4>3. CASE m2 # m
        BY <3>3, <3>4, <4>1, <4>3
      <4> QED
        BY <4>2, <4>3
    <3>6. \A d2 \in Director, c2 \in Channel : localSubs'[d2][c2] # {} => c2 \in known'[d2]
      <4> TAKE d2 \in Director, c2 \in Channel
      <4>1. localSubs[d2][c2] # {} => c2 \in known[d2]
        OBVIOUS
      <4> HIDE DEF TypeOK
      <4> QED
        BY <3>3, <3>4, <4>1
    <3> QED
      BY <2>1, <3>2, <3>3, <3>4, <3>5, <3>6 DEF Subscribe
  <2>2. ASSUME NEW m \in Member, NEW c \in Channel, Unsubscribe(m, c)
        PROVE  TypeOK'
    <3> DEFINE d == Home(m)
               msgs == IF LastLeaver(d, m, c) THEN <<RemoveMsg(c)>> ELSE <<>>
    <3>1. d \in Director /\ msgs \in Seq(Message)
      BY MessageTypes
    <3>2. uplink' \in [Director -> Seq(Message)]
      BY <2>2, <3>1, SendUpType DEF Unsubscribe
    <3>3. /\ localSubs' \in [Director -> [Channel -> SUBSET Member]]
          /\ \A d2 \in Director, c2 \in Channel : localSubs'[d2][c2] =
                IF d2 = d /\ c2 = c THEN localSubs[d2][c2] \ {m} ELSE localSubs[d2][c2]
      BY <2>2, UnsubscribeEffect
    <3>4. /\ channels' \in [Member -> SUBSET Channel]
          /\ \A m2 \in Member : channels'[m2] =
                IF m2 = m THEN channels[m] \ {c} ELSE channels[m2]
          /\ known' \in [Director -> SUBSET Channel]
          /\ \A d2 \in Director : known[d2] \subseteq known'[d2]
          /\ c \in known'[d]
      BY <2>2, <3>1 DEF Unsubscribe
    <3> HIDE DEF d
    <3>5. \A m2 \in Member, c2 \in Channel :
              c2 \in channels'[m2] <=> m2 \in localSubs'[Home(m2)][c2]
      <4> TAKE m2 \in Member, c2 \in Channel
      <4>1. /\ Home(m2) \in Director
            /\ c2 \in channels[m2] <=> m2 \in localSubs[Home(m2)][c2]
        OBVIOUS
      <4> HIDE DEF TypeOK
      <4>2. CASE m2 = m
        BY <3>3, <3>4, <4>1, <4>2 DEF d
      <4>3. CASE m2 # m
        BY <3>3, <3>4, <4>1, <4>3
      <4> QED
        BY <4>2, <4>3
    <3>6. \A d2 \in Director, c2 \in Channel : localSubs'[d2][c2] # {} => c2 \in known'[d2]
      <4> TAKE d2 \in Director, c2 \in Channel
      <4>1. localSubs[d2][c2] # {} => c2 \in known[d2]
        OBVIOUS
      <4> HIDE DEF TypeOK
      <4> QED
        BY <3>3, <3>4, <4>1
    <3> QED
      BY <2>2, <3>2, <3>3, <3>4, <3>5, <3>6 DEF Unsubscribe, Waiting
  <2>3. ASSUME NEW m \in Member, MemberLeaves(m)
        PROVE  TypeOK'
    <3> DEFINE d == Home(m)
               orphaned == {c \in channels[m] : LastLeaver(d, m, c)}
    <3>1. d \in Director /\ orphaned \in SUBSET Channel
      OBVIOUS
    <3>2. uplink' \in [Director -> Seq(Message)]
      <4>1. PICK order \in SetToSeqs(orphaned) :
                SendUp(d, [i \in DOMAIN order |-> RemoveMsg(order[i])])
        BY <2>3 DEF MemberLeaves
      <4>2. [i \in DOMAIN order |-> RemoveMsg(order[i])] \in Seq(Message)
        BY <3>1, FarewellMessages
      <4> QED
        BY <3>1, <4>1, <4>2, SendUpType
    <3>3. /\ localSubs' \in [Director -> [Channel -> SUBSET Member]]
          /\ \A d2 \in Director, c2 \in Channel : localSubs'[d2][c2] =
                IF d2 = d /\ c2 \in channels[m] THEN localSubs[d2][c2] \ {m} ELSE localSubs[d2][c2]
      BY <2>3, MemberLeavesEffect
    <3>4. /\ channels' \in [Member -> SUBSET Channel]
          /\ \A m2 \in Member : channels'[m2] = IF m2 = m THEN {} ELSE channels[m2]
          /\ known' = known
      BY <2>3 DEF MemberLeaves
    <3> HIDE DEF d
    <3>5. \A m2 \in Member, c2 \in Channel :
              c2 \in channels'[m2] <=> m2 \in localSubs'[Home(m2)][c2]
      <4> TAKE m2 \in Member, c2 \in Channel
      <4>1. /\ Home(m2) \in Director
            /\ c2 \in channels[m2] <=> m2 \in localSubs[Home(m2)][c2]
        OBVIOUS
      <4> HIDE DEF TypeOK
      <4>2. CASE m2 = m
        BY <3>3, <3>4, <4>1, <4>2 DEF d
      <4>3. CASE m2 # m
        BY <3>3, <3>4, <4>1, <4>3
      <4> QED
        BY <4>2, <4>3
    <3>6. \A d2 \in Director, c2 \in Channel : localSubs'[d2][c2] # {} => c2 \in known'[d2]
      <4> TAKE d2 \in Director, c2 \in Channel
      <4>1. localSubs[d2][c2] # {} => c2 \in known[d2]
        OBVIOUS
      <4> HIDE DEF TypeOK
      <4> QED
        BY <3>3, <3>4, <4>1
    <3> QED
      BY <2>3, <3>2, <3>3, <3>4, <3>5, <3>6 DEF MemberLeaves, Waiting
  <2>4. ASSUME NEW m \in Member, NEW c \in Channel, Ask(m, c)
        PROVE  TypeOK'
    <3> DEFINE r == [member |-> m, channel |-> c, id |-> requests + 1]
    <3>1. r \in Request
      BY <2>4 DEF Ask, Request
    <3>2. uplink' \in [Director -> Seq(Message)]
      BY <2>4, <3>1, MessageTypes, ConcatProperties DEF Ask, SendUp
    <3> QED
      BY <2>4, <3>1, <3>2 DEF Ask
  <2>5. ASSUME NEW d \in Director, Handle(d)
        PROVE  TypeOK'
    <3>1. Head(uplink[d]) \in Message /\ Tail(uplink[d]) \in Seq(Message)
      BY <2>5, HeadTailProperties DEF Handle
    <3> DEFINE msg == Head(uplink[d])
    <3>2. upstream' \in [Channel -> SUBSET Director] /\ open' \subseteq Request
      <4>1. CASE msg.type = "SET_CHANNEL" /\ upstream' = Subscribed(upstream, d, msg.channel)
                   /\ open' = open
        BY <3>1, <4>1, MessageTypes DEF Subscribed
      <4>2. CASE msg.type = "REMOVE_CHANNEL" /\ upstream' = Unsubscribed(upstream, d, msg.channel)
                   /\ open' = open
        BY <3>1, <4>2, MessageTypes DEF Unsubscribed
      <4>3. CASE msg.type = "REQUEST" /\ open' = open \union {msg.request} /\ upstream' = upstream
        BY <3>1, <4>3, MessageTypes
      <4> QED
        BY <2>5, <4>1, <4>2, <4>3 DEF Handle
    <3> QED
      BY <2>5, <3>1, <3>2 DEF Handle
  <2>6. ASSUME NEW d \in Director, Process(d)
        PROVE  TypeOK'
    <3>1. Head(downlink[d]) \in Request /\ Tail(downlink[d]) \in Seq(Request)
      BY <2>6, HeadTailProperties DEF Process
    <3> QED
      BY <2>6, <3>1 DEF Process
  <2>7. ASSUME NEW d \in Director, ConnectionLost(d)
        PROVE  TypeOK'
    <3>1. \A n \in 0 .. Len(downlink[d]) : SubSeq(downlink[d], 1, n) \in Seq(Request)
      BY SubSeqProperties, LenProperties, ElementOfSeq
    <3> QED
      BY <2>7, <3>1 DEF ConnectionLost
  <2>8. ASSUME NEW r \in open, Answer(r)
        PROVE  TypeOK'
    BY <2>8, AppendProperties DEF Answer
  <2>9. CASE UNCHANGED vars
    BY <2>9 DEF vars
  <2> QED
    BY <2>1, <2>2, <2>3, <2>4, <2>5, <2>6, <2>7, <2>8, <2>9 DEF Next
<1> QED
  BY <1>1, <1>2, PTL DEF Spec

-----------------------------------------------------------------------------
(* The master hears what the members want *)

\* What SendUp adds to the links.
LEMMA SentUp ==
    ASSUME uplink \in [Director -> Seq(Message)], NEW d \in Director,
           NEW msgs \in Seq(Message), SendUp(d, msgs)
    PROVE  /\ d \in connected => uplink'[d] = uplink[d] \o msgs
           /\ \A d2 \in Director \ {d} : uplink'[d2] = uplink[d2]
  BY DEF SendUp

\* Every action keeps the promise of RelayFaithful.
LEMMA RelayFaithfulStep ==
    ASSUME TypeOK, RelayFaithful, [Next]_vars
    PROVE  RelayFaithful'
<1> SUFFICES ASSUME NEW e \in connected', NEW k \in Channel
             PROVE  WillHear(e, k)' <=> localSubs'[e][k] # {}
  BY DEF RelayFaithful
<1>0. /\ uplink \in [Director -> Seq(Message)]
      /\ connected \subseteq Director
      /\ \A m \in Member : channels[m] \in SUBSET Channel
  BY DEF TypeOK
<1>1. connected' \subseteq connected
  BY DEF Next, vars, memberVars, Subscribe, Unsubscribe, MemberLeaves, Ask, Handle,
         Process, Answer, ConnectionLost
<1>2. /\ e \in connected /\ e \in Director
      /\ uplink[e] \in Seq(Message)
      /\ Hears(uplink[e], k, e \in upstream[k]) <=> localSubs[e][k] # {}
  BY <1>0, <1>1 DEF RelayFaithful, WillHear
\* A step that changes nothing the promise to e about k depends on.
<1>3. ASSUME uplink'[e] = uplink[e], upstream'[k] = upstream[k],
             localSubs'[e][k] = localSubs[e][k]
      PROVE  WillHear(e, k)' <=> localSubs'[e][k] # {}
  BY <1>2, <1>3 DEF WillHear
<1>4. ASSUME NEW m \in Member, NEW c \in Channel, Subscribe(m, c)
      PROVE  WillHear(e, k)' <=> localSubs'[e][k] # {}
  <2> DEFINE msgs == IF SubscribeUpstream(Home(m), c) THEN <<SetMsg(c)>> ELSE <<>>
  <2>1. /\ Home(m) \in Director /\ upstream' = upstream
        /\ localSubs'[e][k] = IF e = Home(m) /\ k = c THEN localSubs[e][k] \union {m}
                                                     ELSE localSubs[e][k]
    <3>1. upstream' = upstream
      BY <1>4 DEF Subscribe
    <3>2. /\ Home(m) \in Director
          /\ \A d2 \in Director, c2 \in Channel : localSubs'[d2][c2] =
                IF d2 = Home(m) /\ c2 = c THEN localSubs[d2][c2] \union {m}
                                         ELSE localSubs[d2][c2]
      BY <1>4, SubscribeEffect
    <3> QED
      BY <1>2, <3>1, <3>2
  <2>2. msgs \in Seq(Message) /\ SendUp(Home(m), msgs)
    BY <1>4, MessageTypes DEF Subscribe
  <2>3. CASE e # Home(m)
    <3>1. uplink'[e] = uplink[e]
      BY <1>0, <1>2, <2>1, <2>2, <2>3, SentUp
    <3> QED
      BY <1>3, <2>1, <2>3, <3>1
  <2>4. CASE e = Home(m) /\ ~SubscribeUpstream(Home(m), c)
    <3>1. uplink'[e] = uplink[e]
      BY <1>0, <1>2, <2>1, <2>2, <2>4, SentUp, ConcatEmptySeq
    <3>2. localSubs'[e][k] # {} <=> localSubs[e][k] # {}
      BY <2>1, <2>4 DEF SubscribeUpstream
    <3> QED
      BY <1>2, <2>1, <3>1, <3>2 DEF WillHear
  <2>5. CASE e = Home(m) /\ SubscribeUpstream(Home(m), c) /\ k = c
    <3>1. uplink'[e] = uplink[e] \o <<SetMsg(k)>>
      BY <1>0, <1>2, <2>1, <2>2, <2>5, SentUp
    <3>2. Hears(uplink[e] \o <<SetMsg(k)>>, k, e \in upstream[k])
      BY <1>2, HearsAfterSet
    <3> QED
      BY <2>1, <2>5, <3>1, <3>2 DEF WillHear
  <2>6. CASE e = Home(m) /\ SubscribeUpstream(Home(m), c) /\ k # c
    <3>1. uplink'[e] = uplink[e] \o <<SetMsg(c)>>
      BY <1>0, <1>2, <2>1, <2>2, <2>6, SentUp
    <3>2. SetMsg(c) # SetMsg(k) /\ ~About(SetMsg(c), k)
      BY <2>6, MessagesDiffer DEF About
    <3>3. Hears(uplink[e] \o <<SetMsg(c)>>, k, e \in upstream[k]) <=>
              Hears(uplink[e], k, e \in upstream[k]) /\ ~About(SetMsg(c), k)
      BY <1>2, <3>2, MessageTypes, HearsAfterOther
    <3> QED
      BY <1>2, <2>1, <2>6, <3>1, <3>2, <3>3 DEF WillHear
  <2> QED
    BY <2>3, <2>4, <2>5, <2>6
<1>5. ASSUME NEW m \in Member, NEW c \in Channel, Unsubscribe(m, c)
      PROVE  WillHear(e, k)' <=> localSubs'[e][k] # {}
  <2> DEFINE msgs == IF LastLeaver(Home(m), m, c) THEN <<RemoveMsg(c)>> ELSE <<>>
  <2>1. /\ Home(m) \in Director /\ upstream' = upstream
        /\ localSubs'[e][k] = IF e = Home(m) /\ k = c THEN localSubs[e][k] \ {m}
                                                     ELSE localSubs[e][k]
    <3>1. upstream' = upstream
      BY <1>5 DEF Unsubscribe
    <3>2. /\ Home(m) \in Director
          /\ \A d2 \in Director, c2 \in Channel : localSubs'[d2][c2] =
                IF d2 = Home(m) /\ c2 = c THEN localSubs[d2][c2] \ {m}
                                         ELSE localSubs[d2][c2]
      BY <1>5, UnsubscribeEffect
    <3> QED
      BY <1>2, <3>1, <3>2
  <2>2. msgs \in Seq(Message) /\ SendUp(Home(m), msgs)
    BY <1>5, MessageTypes DEF Unsubscribe
  <2>3. CASE e # Home(m)
    <3>1. uplink'[e] = uplink[e]
      BY <1>0, <1>2, <2>1, <2>2, <2>3, SentUp
    <3> QED
      BY <1>3, <2>1, <2>3, <3>1
  <2>4. CASE e = Home(m) /\ ~LastLeaver(Home(m), m, c)
    <3>1. uplink'[e] = uplink[e]
      BY <1>0, <1>2, <2>1, <2>2, <2>4, SentUp, ConcatEmptySeq
    <3>2. localSubs'[e][k] # {} <=> localSubs[e][k] # {}
      BY <2>1, <2>4 DEF LastLeaver
    <3> QED
      BY <1>2, <2>1, <3>1, <3>2 DEF WillHear
  <2>5. CASE e = Home(m) /\ LastLeaver(Home(m), m, c)
    <3>1. uplink'[e] = uplink[e] \o <<RemoveMsg(c)>>
      BY <1>0, <1>2, <2>1, <2>2, <2>5, SentUp
    <3>2. RemoveMsg(c) # SetMsg(k) /\ (About(RemoveMsg(c), k) <=> c = k)
      BY MessagesDiffer DEF About
    <3>3. localSubs'[e][k] # {} <=> localSubs[e][k] # {} /\ c # k
      BY <2>1, <2>5 DEF LastLeaver
    <3>4. Hears(uplink[e] \o <<RemoveMsg(c)>>, k, e \in upstream[k]) <=>
              Hears(uplink[e], k, e \in upstream[k]) /\ ~About(RemoveMsg(c), k)
      BY <1>2, <3>2, MessageTypes, HearsAfterOther
    <3> QED
      BY <1>2, <2>1, <3>1, <3>2, <3>3, <3>4 DEF WillHear
  <2> QED
    BY <2>3, <2>4, <2>5
<1>6. ASSUME NEW m \in Member, MemberLeaves(m)
      PROVE  WillHear(e, k)' <=> localSubs'[e][k] # {}
  <2> DEFINE orphaned == {c \in channels[m] : LastLeaver(Home(m), m, c)}
  <2>1. /\ Home(m) \in Director /\ upstream' = upstream /\ orphaned \in SUBSET Channel
        /\ localSubs'[e][k] = IF e = Home(m) /\ k \in channels[m] THEN localSubs[e][k] \ {m}
                                                                 ELSE localSubs[e][k]
    BY <1>0, <1>2, <1>6, MemberLeavesEffect DEF MemberLeaves
  <2>2. PICK order \in SetToSeqs(orphaned) :
            SendUp(Home(m), [i \in DOMAIN order |-> RemoveMsg(order[i])])
    BY <1>6 DEF MemberLeaves
  <2> DEFINE t == [i \in DOMAIN order |-> RemoveMsg(order[i])]
  <2>3. /\ t \in Seq(Message)
        /\ \A i \in DOMAIN t : \E c \in orphaned : t[i] = RemoveMsg(c)
        /\ \A c \in orphaned : \E i \in DOMAIN t : t[i] = RemoveMsg(c)
        /\ SendUp(Home(m), t)
    BY <2>1, <2>2, FarewellMessages
  <2> HIDE DEF t
  <2>4. CASE e # Home(m)
    <3>1. uplink'[e] = uplink[e]
      BY <1>0, <1>2, <2>1, <2>3, <2>4, SentUp
    <3> QED
      BY <1>3, <2>1, <2>4, <3>1
  <2>5. CASE e = Home(m)
    <3>1. uplink'[e] = uplink[e] \o t
      BY <1>0, <1>2, <2>1, <2>3, <2>5, SentUp
    <3>2. \A i \in DOMAIN t : t[i] # SetMsg(k)
      BY <2>1, <2>3, MessagesDiffer
    <3>3. (\A i \in DOMAIN t : ~About(t[i], k)) <=> k \notin orphaned
      BY <2>1, <2>3, MessagesDiffer DEF About
    <3>4. localSubs'[e][k] # {} <=> localSubs[e][k] # {} /\ k \notin orphaned
      BY <2>1, <2>5 DEF LastLeaver
    <3>5. Hears(uplink[e] \o t, k, e \in upstream[k]) <=>
              Hears(uplink[e], k, e \in upstream[k]) /\ \A i \in DOMAIN t : ~About(t[i], k)
      BY <1>2, <2>3, <3>2, HearsAfterOthers
    <3> HIDE DEF orphaned
    <3> QED
      BY <1>2, <2>1, <3>1, <3>3, <3>4, <3>5 DEF WillHear
  <2> QED
    BY <2>4, <2>5
<1>7. ASSUME NEW m \in Member, NEW c \in Channel, Ask(m, c)
      PROVE  WillHear(e, k)' <=> localSubs'[e][k] # {}
  <2> DEFINE r == [member |-> m, channel |-> c, id |-> requests + 1]
  <2>1. r \in Request /\ Home(m) \in Director
    BY <1>7, RelayAssumption DEF Ask, Request, TypeOK
  <2>2. upstream' = upstream /\ localSubs' = localSubs /\ SendUp(Home(m), <<RequestMsg(r)>>)
    BY <1>7 DEF Ask, memberVars
  <2> HIDE DEF r
  <2>3. <<RequestMsg(r)>> \in Seq(Message)
    BY <2>1, MessageTypes
  <2>4. CASE e # Home(m)
    <3>1. uplink'[e] = uplink[e]
      BY <1>0, <1>2, <2>1, <2>2, <2>3, <2>4, SentUp
    <3> QED
      BY <1>3, <2>2, <3>1
  <2>5. CASE e = Home(m)
    <3>1. uplink'[e] = uplink[e] \o <<RequestMsg(r)>>
      BY <1>0, <1>2, <2>1, <2>2, <2>3, <2>5, SentUp
    <3>2. RequestMsg(r) # SetMsg(k) /\ ~About(RequestMsg(r), k)
      BY <2>1, MessagesDiffer DEF About
    <3>3. Hears(uplink[e] \o <<RequestMsg(r)>>, k, e \in upstream[k]) <=>
              Hears(uplink[e], k, e \in upstream[k]) /\ ~About(RequestMsg(r), k)
      BY <1>2, <2>1, <3>2, MessageTypes, HearsAfterOther
    <3> QED
      BY <1>2, <2>2, <3>1, <3>2, <3>3 DEF WillHear
  <2> QED
    BY <2>4, <2>5
<1>8. ASSUME NEW d \in Director, Handle(d)
      PROVE  WillHear(e, k)' <=> localSubs'[e][k] # {}
  <2> DEFINE msg == Head(uplink[d])
  <2>1. /\ uplink[d] # <<>> /\ uplink' = [uplink EXCEPT ![d] = Tail(@)]
        /\ localSubs' = localSubs
        /\ \/ msg.type = "SET_CHANNEL" /\ upstream' = Subscribed(upstream, d, msg.channel)
           \/ msg.type = "REMOVE_CHANNEL" /\ upstream' = Unsubscribed(upstream, d, msg.channel)
           \/ msg.type = "REQUEST" /\ upstream' = upstream
    BY <1>8 DEF Handle, memberVars
  <2>2. msg \in Message /\ upstream \in [Channel -> SUBSET Director]
    BY <1>0, <2>1, HeadTailProperties DEF TypeOK
  <2>3. /\ msg = SetMsg(k) => upstream'[k] = upstream[k] \union {d}
        /\ msg = RemoveMsg(k) => upstream'[k] = upstream[k] \ {d}
        /\ ~About(msg, k) => upstream'[k] = upstream[k]
    <3>1. CASE msg.type = "SET_CHANNEL" /\ upstream' = Subscribed(upstream, d, msg.channel)
      BY <2>2, <3>1, MessageTypes, MessagesDiffer DEF Subscribed, About, SetMsg, RemoveMsg
    <3>2. CASE msg.type = "REMOVE_CHANNEL" /\ upstream' = Unsubscribed(upstream, d, msg.channel)
      BY <2>2, <3>2, MessageTypes, MessagesDiffer DEF Unsubscribed, About, SetMsg, RemoveMsg
    <3>3. CASE msg.type = "REQUEST" /\ upstream' = upstream
      BY <3>3 DEF SetMsg, RemoveMsg
    <3> QED
      BY <2>1, <3>1, <3>2, <3>3
  <2> HIDE DEF msg
  <2>4. CASE e # d
    <3>1. (e \in upstream'[k]) <=> (e \in upstream[k])
      BY <2>3, <2>4 DEF About
    <3>2. uplink'[e] = uplink[e]
      BY <1>0, <1>2, <2>1, <2>4
    <3>3. (e \in upstream'[k] <=> e \in upstream[k])
      BY <3>1
    <3> QED
      BY <1>2, <2>1, <3>2, <3>3 DEF WillHear
  <2>5. CASE e = d
    <3>1. uplink'[e] = Tail(uplink[e]) /\ uplink[e] # <<>>
      BY <1>0, <1>2, <2>1, <2>5
    <3>2. /\ Head(uplink[e]) = SetMsg(k) => e \in upstream'[k]
          /\ Head(uplink[e]) = RemoveMsg(k) => e \notin upstream'[k]
          /\ ~About(Head(uplink[e]), k) => (e \in upstream'[k] <=> e \in upstream[k])
      BY <2>3, <2>5 DEF msg
    <3>3. Hears(uplink[e], k, e \in upstream[k]) <=>
              Hears(Tail(uplink[e]), k, e \in upstream'[k])
      BY <1>2, <3>1, <3>2, HearsAfterHead
    <3> QED
      BY <1>2, <2>1, <3>1, <3>3 DEF WillHear
  <2> QED
    BY <2>4, <2>5
<1>9. ASSUME NEW d \in Director, Process(d)
       PROVE  WillHear(e, k)' <=> localSubs'[e][k] # {}
  BY <1>3, <1>9 DEF Process, memberVars
<1>10. ASSUME NEW d \in Director, ConnectionLost(d)
       PROVE  WillHear(e, k)' <=> localSubs'[e][k] # {}
  <2>1. /\ e # d /\ uplink' = [uplink EXCEPT ![d] = <<>>]
        /\ upstream'[k] = upstream[k] \ {d} /\ localSubs' = localSubs
    BY <1>10 DEF ConnectionLost, memberVars
  <2>2. uplink'[e] = uplink[e] /\ (e \in upstream'[k] <=> e \in upstream[k])
    BY <1>0, <1>2, <2>1
  <2> QED
    BY <1>2, <2>1, <2>2 DEF WillHear
<1>11. ASSUME NEW r \in open, Answer(r)
       PROVE  WillHear(e, k)' <=> localSubs'[e][k] # {}
  BY <1>3, <1>11 DEF Answer, memberVars
<1>12. CASE UNCHANGED vars
  BY <1>3, <1>12 DEF vars
<1> QED
  BY <1>4, <1>5, <1>6, <1>7, <1>8, <1>9, <1>10, <1>11, <1>12 DEF Next

\* What is on its way to the master always amounts to what the members of a
\* connected director want, for any number of members and channels, however
\* often they subscribe, unsubscribe and leave (subscribe_channel,
\* unsubscribe_channel and unsubscribe_all).
THEOREM Faithful == Spec => []RelayFaithful
<1>1. Init => RelayFaithful
  BY DEF Init, RelayFaithful, WillHear, Hears
<1>2. TypeOK /\ RelayFaithful /\ [Next]_vars => RelayFaithful'
  BY RelayFaithfulStep
<1> QED
  BY <1>1, <1>2, TypeCorrect, PTL DEF Spec

-----------------------------------------------------------------------------
(* No answer is lost *)

\* Sequences about which nothing is said stay so.
LEMMA SilentConcat ==
    ASSUME NEW s \in Seq(Message), NEW t \in Seq(Message), NEW r \in Request,
           Silent(t, r.channel)
    PROVE  /\ Silent(s, r.channel) => Silent(s \o t, r.channel)
           /\ SilentAfter(s, r) => SilentAfter(s \o t, r)
           /\ RequestMsg(r) \in ToSet(s) => RequestMsg(r) \in ToSet(s \o t)
<1> DEFINE u == s \o t
<1>1. /\ Len(u) = Len(s) + Len(t)
      /\ \A i \in 1 .. Len(s) : u[i] = s[i]
      /\ \A i \in 1 .. Len(t) : u[Len(s) + i] = t[i]
      /\ DOMAIN u = 1 .. Len(s) + Len(t)
  <2>1. u \in Seq(Message)
    BY ConcatProperties
  <2> QED
    BY <2>1, ConcatProperties, LenProperties
<1>2. /\ Len(s) \in Nat /\ DOMAIN s = 1 .. Len(s)
      /\ Len(t) \in Nat /\ DOMAIN t = 1 .. Len(t)
  BY LenProperties
<1> HIDE DEF u
<1>3. \A j \in Len(s) + 1 .. Len(u) : ~About(u[j], r.channel)
  <2> TAKE j \in Len(s) + 1 .. Len(u)
  <2>1. j - Len(s) \in 1 .. Len(t) /\ u[Len(s) + (j - Len(s))] = t[j - Len(s)]
    BY <1>1, <1>2
  <2>2. u[j] = t[j - Len(s)]
    BY <1>1, <1>2, <2>1
  <2> QED
    BY <1>2, <2>1, <2>2 DEF Silent
<1>4. Silent(s, r.channel) => Silent(u, r.channel)
  BY <1>1, <1>2, <1>3 DEF Silent
<1>5. SilentAfter(s, r) => SilentAfter(u, r)
  <2> SUFFICES ASSUME SilentAfter(s, r), NEW i \in DOMAIN u, u[i] = RequestMsg(r),
                      NEW j \in i + 1 .. Len(u)
               PROVE  ~About(u[j], r.channel)
    BY DEF SilentAfter
  <2>1. CASE j > Len(s)
    BY <1>1, <1>2, <1>3, <2>1
  <2>2. CASE j <= Len(s)
    <3>1. i \in 1 .. Len(s) /\ j \in i + 1 .. Len(s)
      BY <1>1, <1>2, <2>2
    <3>2. s[i] = RequestMsg(r) /\ u[j] = s[j]
      BY <1>1, <1>2, <3>1
    <3> QED
      BY <1>2, <3>1, <3>2 DEF SilentAfter
  <2> QED
    BY <1>1, <1>2, <2>1, <2>2
<1>6. RequestMsg(r) \in ToSet(s) => RequestMsg(r) \in ToSet(u)
  BY <1>1, <1>2 DEF ToSet
<1> QED
  BY <1>4, <1>5, <1>6 DEF u

LEMMA SilentTail ==
    ASSUME NEW s \in Seq(Message), s # <<>>, NEW r \in Request
    PROVE  /\ Silent(s, r.channel) => Silent(Tail(s), r.channel)
           /\ SilentAfter(s, r) => SilentAfter(Tail(s), r)
           /\ SilentAfter(s, r) /\ Head(s) = RequestMsg(r) => Silent(Tail(s), r.channel)
           /\ RequestMsg(r) \in ToSet(Tail(s)) => RequestMsg(r) \in ToSet(s)
           /\ RequestMsg(r) \in ToSet(s) =>
                  Head(s) = RequestMsg(r) \/ RequestMsg(r) \in ToSet(Tail(s))
<1> DEFINE t == Tail(s)
<1>1. /\ t \in Seq(Message)
      /\ Len(t) = Len(s) - 1
      /\ \A i \in 1 .. Len(t) : t[i] = s[i + 1]
  BY HeadTailProperties
<1>2. /\ Len(s) \in Nat /\ Len(s) >= 1 /\ DOMAIN s = 1 .. Len(s)
      /\ DOMAIN t = 1 .. Len(t)
      /\ Head(s) = s[1]
  BY <1>1, LenProperties
<1> HIDE DEF t
<1>3. \A i \in 1 .. Len(t) : i + 1 \in 2 .. Len(s) /\ t[i] = s[i + 1]
  BY <1>1, <1>2
<1>4. \A i \in 2 .. Len(s) : i - 1 \in 1 .. Len(t) /\ s[i] = t[i - 1]
  BY <1>1, <1>2
<1>5. Silent(s, r.channel) => Silent(t, r.channel)
  BY <1>2, <1>3 DEF Silent
<1>6. SilentAfter(s, r) => SilentAfter(t, r)
  <2> SUFFICES ASSUME SilentAfter(s, r), NEW i \in DOMAIN t, t[i] = RequestMsg(r),
                      NEW j \in i + 1 .. Len(t)
               PROVE  ~About(t[j], r.channel)
    BY DEF SilentAfter
  <2>1. i + 1 \in DOMAIN s /\ s[i + 1] = RequestMsg(r)
    BY <1>2, <1>3
  <2>2. j + 1 \in (i + 1) + 1 .. Len(s) /\ t[j] = s[j + 1]
    BY <1>1, <1>2, <1>3
  <2> QED
    BY <2>1, <2>2 DEF SilentAfter
<1>7. SilentAfter(s, r) /\ Head(s) = RequestMsg(r) => Silent(t, r.channel)
  <2> SUFFICES ASSUME SilentAfter(s, r), s[1] = RequestMsg(r), NEW j \in DOMAIN t
               PROVE  ~About(t[j], r.channel)
    BY <1>2 DEF Silent
  <2>1. j + 1 \in 1 + 1 .. Len(s) /\ t[j] = s[j + 1]
    BY <1>1, <1>2, <1>3
  <2> QED
    BY <1>2, <2>1 DEF SilentAfter
<1>8. RequestMsg(r) \in ToSet(t) => RequestMsg(r) \in ToSet(s)
  BY <1>2, <1>3 DEF ToSet
<1>9. RequestMsg(r) \in ToSet(s) => Head(s) = RequestMsg(r) \/ RequestMsg(r) \in ToSet(t)
  <2> SUFFICES ASSUME NEW i \in 1 .. Len(s), s[i] = RequestMsg(r), s[1] # RequestMsg(r)
               PROVE  RequestMsg(r) \in ToSet(t)
    BY <1>2 DEF ToSet
  <2>1. i - 1 \in 1 .. Len(t) /\ t[i - 1] = RequestMsg(r)
    BY <1>2, <1>4
  <2> QED
    BY <1>2, <2>1 DEF ToSet
<1> QED
  BY <1>5, <1>6, <1>7, <1>8, <1>9 DEF t

\* A member's operation that sends nothing about a request's channel leaves
\* the request where it is.
LEMMA SendKeeps ==
    ASSUME TypeOK, NEW d \in Director, NEW t \in Seq(Message), SendUp(d, t),
           UNCHANGED <<connected, open, downlink, cut>>,
           NEW r \in asked, RequestsCovered, NoAnswerLost,
           Home(r.member) = d => Silent(t, r.channel),
           r.channel \in channels'[r.member]
    PROVE  Covered(r)' /\ (Home(r.member) \in connected => StillComing(r))'
<1> DEFINE e == Home(r.member)
<1>1. /\ uplink \in [Director -> Seq(Message)]
      /\ r \in Request /\ e \in Director
  BY RelayAssumption DEF TypeOK, Request
<1>2. Covered(r) /\ (e \in connected => StillComing(r))
  BY DEF RequestsCovered, NoAnswerLost
<1> HIDE DEF e
<1>3. CASE uplink'[e] = uplink[e]
  BY <1>2, <1>3 DEF Covered, StillComing, e
<1>4. CASE e = d /\ e \in connected
  <2>1. uplink'[e] = uplink[e] \o t /\ uplink[e] \in Seq(Message)
    BY <1>1, <1>4, SentUp
  <2>2. Silent(t, r.channel)
    BY <1>4 DEF e
  <2>3. /\ SilentAfter(uplink[e], r) => SilentAfter(uplink'[e], r)
        /\ Silent(uplink[e], r.channel) => Silent(uplink'[e], r.channel)
        /\ RequestMsg(r) \in ToSet(uplink[e]) => RequestMsg(r) \in ToSet(uplink'[e])
    BY <1>1, <2>1, <2>2, SilentConcat
  <2> QED
    BY <1>2, <2>3 DEF Covered, StillComing, e
<1>5. e # d \/ e \notin connected => uplink'[e] = uplink[e]
  BY <1>1, SentUp DEF SendUp
<1> QED
  BY <1>3, <1>4, <1>5

\* What is in a sequence.
LEMMA ToSetConcat ==
    ASSUME NEW T, NEW s \in Seq(T), NEW t \in Seq(T)
    PROVE  ToSet(s \o t) = ToSet(s) \union ToSet(t)
<1> DEFINE u == s \o t
<1>1. /\ \A i \in 1 .. Len(s) : i \in DOMAIN u /\ u[i] = s[i]
      /\ \A i \in 1 .. Len(t) : Len(s) + i \in DOMAIN u /\ u[Len(s) + i] = t[i]
      /\ DOMAIN u = 1 .. Len(s) + Len(t)
  <2>1. u \in Seq(T)
    BY ConcatProperties
  <2> QED
    BY <2>1, ConcatProperties, LenProperties
<1>2. /\ Len(s) \in Nat /\ DOMAIN s = 1 .. Len(s)
      /\ Len(t) \in Nat /\ DOMAIN t = 1 .. Len(t)
  BY LenProperties
<1> HIDE DEF u
<1>3. ASSUME NEW x \in ToSet(u)
      PROVE  x \in ToSet(s) \union ToSet(t)
  <2>1. PICK i \in DOMAIN u : u[i] = x
    BY DEF ToSet
  <2>2. CASE i <= Len(s)
    BY <1>1, <1>2, <2>1, <2>2 DEF ToSet
  <2>3. CASE i > Len(s)
    <3>1. i - Len(s) \in 1 .. Len(t) /\ u[Len(s) + (i - Len(s))] = t[i - Len(s)]
      BY <1>1, <1>2, <2>1, <2>3
    <3>2. t[i - Len(s)] = x
      BY <1>1, <1>2, <2>1, <3>1
    <3> QED
      BY <1>2, <3>1, <3>2 DEF ToSet
  <2> QED
    BY <1>1, <1>2, <2>1, <2>2, <2>3
<1>4. /\ \A i \in DOMAIN s : s[i] \in ToSet(u)
      /\ \A i \in DOMAIN t : t[i] \in ToSet(u)
  <2>1. \A i \in DOMAIN u : u[i] \in ToSet(u)
    BY DEF ToSet
  <2> QED
    BY <1>1, <1>2, <2>1
<1>5. ToSet(u) = ToSet(s) \union ToSet(t)
  <2>1. ToSet(s) \subseteq ToSet(u) /\ ToSet(t) \subseteq ToSet(u)
    BY <1>4 DEF ToSet
  <2> QED
    BY <1>3, <2>1
<1> QED
  BY <1>5 DEF u

LEMMA ToSetTail ==
    ASSUME NEW T, NEW s \in Seq(T), s # <<>>
    PROVE  ToSet(s) = {Head(s)} \union ToSet(Tail(s))
<1> DEFINE t == Tail(s)
<1>1. /\ t \in Seq(T)
      /\ Len(t) = Len(s) - 1
      /\ \A i \in 1 .. Len(t) : t[i] = s[i + 1]
  BY HeadTailProperties
<1>2. /\ Len(s) \in Nat /\ Len(s) >= 1 /\ DOMAIN s = 1 .. Len(s)
      /\ DOMAIN t = 1 .. Len(t)
      /\ Head(s) = s[1]
  BY <1>1, LenProperties
<1> HIDE DEF t
<1>3. \A i \in 1 .. Len(t) : i + 1 \in 1 .. Len(s) /\ t[i] = s[i + 1]
  BY <1>1, <1>2
<1>4. \A i \in 2 .. Len(s) : i - 1 \in 1 .. Len(t) /\ s[i] = t[i - 1]
  BY <1>1, <1>2
<1>5. ASSUME NEW x \in ToSet(s), x # Head(s)
      PROVE  x \in ToSet(t)
  <2>1. PICK i \in DOMAIN s : s[i] = x
    BY DEF ToSet
  <2>2. i \in 2 .. Len(s)
    BY <1>2, <1>5, <2>1
  <2> QED
    BY <1>2, <1>4, <2>1, <2>2 DEF ToSet
<1>6. ToSet(t) \subseteq ToSet(s) /\ Head(s) \in ToSet(s)
  BY <1>2, <1>3 DEF ToSet
<1> QED
  BY <1>5, <1>6 DEF t

\* Numbers grow: no request on its way has a number not yet given out.
LEMMA NumberedStep ==
    ASSUME TypeOK, RequestsNumbered, [Next]_vars
    PROVE  RequestsNumbered'
<1>0. /\ uplink \in [Director -> Seq(Message)] /\ requests \in Nat
      /\ open \subseteq Request /\ asked \subseteq Request
      /\ \A m \in Member : Home(m) \in Director /\ channels[m] \in SUBSET Channel
  BY RelayAssumption DEF TypeOK
<1>1. /\ \A d \in Director, r \in Request :
            RequestMsg(r) \in ToSet(uplink[d]) => r.id <= requests /\ Home(r.member) = d
      /\ \A r \in asked \union open : r.id <= requests
  BY DEF RequestsNumbered
\* Steps that send messages with numbers given out.
<1>2. ASSUME NEW e \in Director, NEW t \in Seq(Message), SendUp(e, t),
             requests' \in Nat, requests <= requests', open' = open,
             \A r \in Request : RequestMsg(r) \in ToSet(t) =>
                 r.id <= requests' /\ Home(r.member) = e,
             \A r \in asked' : r \in asked \/ r.id <= requests'
      PROVE  RequestsNumbered'
  <2>1. ASSUME NEW d \in Director, NEW r \in Request, RequestMsg(r) \in ToSet(uplink'[d])
        PROVE  RequestMsg(r) \in ToSet(uplink[d]) \/ (d = e /\ RequestMsg(r) \in ToSet(t))
    <3>1. CASE uplink'[d] = uplink[d]
      BY <2>1, <3>1
    <3>2. CASE d = e /\ d \in connected
      <4>1. uplink'[d] = uplink[d] \o t /\ uplink[d] \in Seq(Message)
        BY <1>0, <1>2, <3>2, SentUp
      <4>2. ToSet(uplink'[d]) = ToSet(uplink[d]) \union ToSet(t)
        BY <1>2, <4>1, ToSetConcat
      <4> QED
        BY <2>1, <3>2, <4>2
    <3> QED
      BY <1>0, <1>2, <3>1, <3>2, SentUp DEF SendUp
  <2>2. \A r \in asked \union open : r.id \in Nat
    BY <1>0 DEF Request
  <2>3. \A r \in Request : r.id \in Nat
    BY DEF Request
  <2>4. ASSUME NEW d \in Director, NEW r \in Request, RequestMsg(r) \in ToSet(uplink'[d])
        PROVE  r.id <= requests' /\ Home(r.member) = d
    BY <1>0, <1>1, <1>2, <2>1, <2>3, <2>4
  <2>5. \A r \in asked' \union open' : r.id <= requests'
    BY <1>0, <1>1, <1>2, <2>2
  <2> QED
    BY <2>4, <2>5 DEF RequestsNumbered
\* Control messages carry no number.
<1>3. ASSUME NEW e \in Director, NEW t \in Seq(Message), SendUp(e, t),
             \A i \in DOMAIN t : \E c \in Channel : t[i] = SetMsg(c) \/ t[i] = RemoveMsg(c),
             requests' = requests, open' = open, asked' \subseteq asked
      PROVE  RequestsNumbered'
  <2>1. \A r \in Request : RequestMsg(r) \notin ToSet(t)
    BY <1>3, MessagesDiffer DEF ToSet
  <2> QED
    BY <1>0, <1>2, <1>3, <2>1
<1>4. ASSUME NEW m \in Member, NEW c \in Channel, Subscribe(m, c)
      PROVE  RequestsNumbered'
  <2> DEFINE t == IF SubscribeUpstream(Home(m), c) THEN <<SetMsg(c)>> ELSE <<>>
  <2>1. t \in Seq(Message) /\ \A i \in DOMAIN t : t[i] = SetMsg(c)
    BY MessageTypes
  <2>2. SendUp(Home(m), t) /\ requests' = requests /\ open' = open /\ asked' \subseteq asked
    BY <1>4 DEF Subscribe
  <2> HIDE DEF t
  <2> QED
    BY <1>0, <1>3, <2>1, <2>2
<1>5. ASSUME NEW m \in Member, NEW c \in Channel, Unsubscribe(m, c)
      PROVE  RequestsNumbered'
  <2> DEFINE t == IF LastLeaver(Home(m), m, c) THEN <<RemoveMsg(c)>> ELSE <<>>
  <2>1. t \in Seq(Message) /\ \A i \in DOMAIN t : t[i] = RemoveMsg(c)
    BY MessageTypes
  <2>2. SendUp(Home(m), t) /\ requests' = requests /\ open' = open /\ asked' \subseteq asked
    BY <1>5 DEF Unsubscribe
  <2> HIDE DEF t
  <2> QED
    BY <1>0, <1>3, <2>1, <2>2
<1>6. ASSUME NEW m \in Member, MemberLeaves(m)
      PROVE  RequestsNumbered'
  <2> DEFINE orphaned == {c \in channels[m] : LastLeaver(Home(m), m, c)}
  <2>1. orphaned \in SUBSET Channel
    BY <1>0
  <2>2. PICK order \in SetToSeqs(orphaned) :
            SendUp(Home(m), [i \in DOMAIN order |-> RemoveMsg(order[i])])
    BY <1>6 DEF MemberLeaves
  <2> DEFINE t == [i \in DOMAIN order |-> RemoveMsg(order[i])]
  <2>3. /\ t \in Seq(Message)
        /\ \A i \in DOMAIN t : \E c \in orphaned : t[i] = RemoveMsg(c)
        /\ SendUp(Home(m), t)
    BY <2>1, <2>2, FarewellMessages
  <2> HIDE DEF t
  <2>4. requests' = requests /\ open' = open /\ asked' \subseteq asked
    BY <1>6 DEF MemberLeaves
  <2>5. \A i \in DOMAIN t : \E c \in Channel : t[i] = SetMsg(c) \/ t[i] = RemoveMsg(c)
    BY <2>1, <2>3
  <2> QED
    BY <1>0, <1>3, <2>3, <2>4, <2>5
<1>7. ASSUME NEW m \in Member, NEW c \in Channel, Ask(m, c)
      PROVE  RequestsNumbered'
  <2> DEFINE r == [member |-> m, channel |-> c, id |-> requests + 1]
             t == <<RequestMsg(r)>>
  <2>1. /\ SendUp(Home(m), t) /\ requests' = requests + 1 /\ open' = open
        /\ asked' = asked \union {r}
    BY <1>7 DEF Ask
  <2>2. r \in Request /\ r.id = requests + 1 /\ Home(r.member) = Home(m)
    BY <1>0, <1>7, RelayAssumption DEF Ask, Request
  <2> HIDE DEF r
  <2>3. t \in Seq(Message) /\ ToSet(t) = {RequestMsg(r)}
    BY <2>2, MessageTypes DEF ToSet
  <2> HIDE DEF t
  <2>4. \A q \in Request : RequestMsg(q) \in ToSet(t) => q = r
    BY <2>2, <2>3 DEF RequestMsg
  <2> QED
    BY <1>0, <1>2, <2>1, <2>2, <2>3, <2>4
<1>8. ASSUME NEW d \in Director, Handle(d)
      PROVE  RequestsNumbered'
  <2> DEFINE msg == Head(uplink[d])
  <2>1. /\ uplink[d] # <<>> /\ uplink' = [uplink EXCEPT ![d] = Tail(@)]
        /\ requests' = requests /\ asked' = asked
        /\ open' = open \/ (msg.type = "REQUEST" /\ open' = open \union {msg.request})
    <3>1. /\ uplink[d] # <<>> /\ uplink' = [uplink EXCEPT ![d] = Tail(@)]
          /\ requests' = requests /\ asked' = asked
      BY <1>8 DEF Handle
    <3>2. open' = open \/ (msg.type = "REQUEST" /\ open' = open \union {msg.request})
      BY <1>8 DEF Handle
    <3> QED
      BY <3>1, <3>2
  <2>2. uplink[d] \in Seq(Message) /\ msg \in Message
    BY <1>0, <2>1, HeadTailProperties
  <2>3. msg \in ToSet(uplink[d]) /\ \A e \in Director : ToSet(uplink'[e]) \subseteq ToSet(uplink[e])
    BY <1>0, <2>1, <2>2, ToSetTail
  <2>4. msg.type = "REQUEST" => msg.request \in Request /\ msg = RequestMsg(msg.request)
    BY <2>2, MessageTypes
  <2> HIDE DEF msg
  <2>5. \A r \in asked' \union open' : r.id <= requests'
    BY <1>1, <2>1, <2>3, <2>4
  <2> QED
    BY <1>1, <2>1, <2>3, <2>5 DEF RequestsNumbered
<1>9. ASSUME NEW d \in Director, ConnectionLost(d)
      PROVE  RequestsNumbered'
  <2>1. \A e \in Director : ToSet(uplink'[e]) \subseteq ToSet(uplink[e])
    BY <1>0, <1>9 DEF ConnectionLost, ToSet
  <2> QED
    BY <1>1, <1>9, <2>1 DEF ConnectionLost, RequestsNumbered
<1>10. ASSUME NEW d \in Director, Process(d)
       PROVE  RequestsNumbered'
  BY <1>1, <1>10 DEF Process, RequestsNumbered
<1>11. ASSUME NEW r \in open, Answer(r)
       PROVE  RequestsNumbered'
  BY <1>1, <1>11 DEF Answer, RequestsNumbered
<1>12. CASE UNCHANGED vars
  BY <1>1, <1>12 DEF vars, RequestsNumbered
<1> QED
  BY <1>4, <1>5, <1>6, <1>7, <1>8, <1>9, <1>10, <1>11, <1>12 DEF Next

\* Control messages for a channel a request waits on are sent by nobody: its
\* asker still hears the channel.
LEMMA RequestsStep ==
    ASSUME IInv, TypeOK', [Next]_vars
    PROVE  RequestsCovered' /\ NoAnswerLost'
<1>0. /\ TypeOK /\ RelayFaithful /\ RequestsNumbered /\ RequestsCovered /\ NoAnswerLost
      /\ uplink \in [Director -> Seq(Message)] /\ downlink \in [Director -> Seq(Request)]
      /\ asked \subseteq Request /\ open \subseteq Request
      /\ \A m \in Member : Home(m) \in Director /\ channels[m] \in SUBSET Channel
      /\ \A m \in Member, c \in Channel : c \in channels[m] <=> m \in localSubs[Home(m)][c]
  BY RelayAssumption DEF IInv, TypeOK
<1>1. ASSUME NEW r \in asked
      PROVE  /\ r \in Request /\ r.member \in Member /\ r.channel \in Channel
             /\ Home(r.member) \in Director
             /\ r.channel \in channels[r.member]
             /\ r.member \in localSubs[Home(r.member)][r.channel]
             /\ Covered(r) /\ (Home(r.member) \in connected => StillComing(r))
  <2>1. r \in Request /\ r.member \in Member /\ r.channel \in Channel
    BY <1>0, <1>1 DEF Request
  <2>2. Covered(r) /\ (Home(r.member) \in connected => StillComing(r))
    BY <1>0, <1>1 DEF RequestsCovered, NoAnswerLost
  <2>3. r.channel \in channels[r.member]
    BY <2>2 DEF Covered
  <2> QED
    BY <1>0, <2>1, <2>2, <2>3
<1> SUFFICES ASSUME NEW r \in asked'
             PROVE  Covered(r)' /\ (Home(r.member) \in connected => StillComing(r))'
  BY DEF RequestsCovered, NoAnswerLost
<1> DEFINE Goal == Covered(r)' /\ (Home(r.member) \in connected => StillComing(r))'
           e == Home(r.member)
<1>2. ASSUME NEW m \in Member, NEW c \in Channel, Subscribe(m, c)
      PROVE  Goal
  <2> DEFINE t == IF SubscribeUpstream(Home(m), c) THEN <<SetMsg(c)>> ELSE <<>>
  <2>1. /\ SendUp(Home(m), t) /\ r \in asked
        /\ UNCHANGED <<connected, open, downlink, cut>>
    BY <1>2 DEF Subscribe
  <2>2. t \in Seq(Message) /\ \A i \in DOMAIN t : t[i] = SetMsg(c) /\ localSubs[Home(m)][c] = {}
    BY MessageTypes DEF SubscribeUpstream
  <2> HIDE DEF t
  <2>3. e = Home(m) => Silent(t, r.channel)
    BY <1>1, <2>1, <2>2, MessagesDiffer DEF Silent, About
  <2>4. r.channel \in channels'[r.member]
    BY <1>1, <1>2, <2>1 DEF Subscribe, TypeOK
  <2> QED
    BY <1>0, <2>1, <2>2, <2>3, <2>4, SendKeeps
<1>3. ASSUME NEW m \in Member, NEW c \in Channel, Unsubscribe(m, c)
      PROVE  Goal
  <2> DEFINE t == IF LastLeaver(Home(m), m, c) THEN <<RemoveMsg(c)>> ELSE <<>>
  <2>1. /\ SendUp(Home(m), t) /\ r \in asked /\ (r.member # m \/ r.channel # c)
        /\ UNCHANGED <<connected, open, downlink, cut>>
    BY <1>3 DEF Unsubscribe, Waiting
  <2>2. t \in Seq(Message) /\ \A i \in DOMAIN t : t[i] = RemoveMsg(c) /\ localSubs[Home(m)][c] \subseteq {m}
    BY MessageTypes DEF LastLeaver
  <2> HIDE DEF t
  <2>3. e = Home(m) => Silent(t, r.channel)
    BY <1>1, <2>1, <2>2, MessagesDiffer DEF Silent, About
  <2>4. r.channel \in channels'[r.member]
    BY <1>1, <1>3, <2>1 DEF Unsubscribe, TypeOK
  <2> QED
    BY <1>0, <2>1, <2>2, <2>3, <2>4, SendKeeps
<1>4. ASSUME NEW m \in Member, MemberLeaves(m)
      PROVE  Goal
  <2> DEFINE orphaned == {c \in channels[m] : LastLeaver(Home(m), m, c)}
  <2>1. orphaned \in SUBSET Channel
    BY <1>0
  <2>2. PICK order \in SetToSeqs(orphaned) :
            SendUp(Home(m), [i \in DOMAIN order |-> RemoveMsg(order[i])])
    BY <1>4 DEF MemberLeaves
  <2> DEFINE t == [i \in DOMAIN order |-> RemoveMsg(order[i])]
  <2>3. /\ t \in Seq(Message)
        /\ \A i \in DOMAIN t : \E c \in orphaned : t[i] = RemoveMsg(c)
        /\ SendUp(Home(m), t)
    BY <2>1, <2>2, FarewellMessages
  <2> HIDE DEF t
  <2>4. /\ r \in asked /\ UNCHANGED <<connected, open, downlink, cut>>
        /\ r.member = m => r.channel \notin channels[m]
        /\ channels' = [channels EXCEPT ![m] = {}]
    BY <1>4 DEF MemberLeaves, Waiting
  <2>5. r.member # m
    BY <1>1, <2>4
  <2>6. e = Home(m) => r.channel \notin orphaned
    BY <1>1, <2>4, <2>5 DEF LastLeaver
  <2>7. e = Home(m) => Silent(t, r.channel)
    BY <1>1, <2>1, <2>3, <2>4, <2>6, MessagesDiffer DEF Silent, About
  <2>8. r.channel \in channels'[r.member]
    BY <1>1, <2>4, <2>5 DEF TypeOK
  <2> QED
    BY <1>0, <2>3, <2>4, <2>7, <2>8, SendKeeps
<1>5. ASSUME NEW m \in Member, NEW c \in Channel, Ask(m, c)
      PROVE  Goal
  <2> DEFINE q == [member |-> m, channel |-> c, id |-> requests + 1]
             t == <<RequestMsg(q)>>
  <2>1. /\ SendUp(Home(m), t) /\ UNCHANGED <<connected, open, downlink, cut, channels>>
        /\ asked' = asked \union {q} /\ c \in channels[m]
    BY <1>5 DEF Ask, memberVars
  <2>2. q \in Request /\ q.member = m /\ q.channel = c /\ q.id = requests + 1 /\ requests \in Nat
    BY <1>5, RelayAssumption DEF Ask, Request, TypeOK, IInv
  <2> HIDE DEF q
  <2>3. /\ t \in Seq(Message) /\ Len(t) = 1 /\ DOMAIN t = {1} /\ t[1] = RequestMsg(q)
        /\ ToSet(t) = {RequestMsg(q)}
    BY <2>2, MessageTypes DEF ToSet
  <2> HIDE DEF t
  <2>4. \A k \in Channel : Silent(t, k)
    BY <2>2, <2>3, MessagesDiffer DEF Silent, About
  <2>5. CASE r \in asked
    BY <1>0, <1>1, <2>1, <2>3, <2>4, <2>5, SendKeeps
  <2>6. CASE r = q
    <3>1. RequestMsg(q) \notin ToSet(uplink[e]) /\ q \notin open
      BY <1>0, <2>2, <2>6 DEF RequestsNumbered
    <3>2. SilentAfter(uplink[e], q)
      BY <3>1 DEF SilentAfter, ToSet
    <3>3. CASE e \in connected
      <4>1. uplink'[e] = uplink[e] \o t /\ uplink[e] \in Seq(Message)
        BY <1>0, <2>1, <2>2, <2>3, <2>6, <3>3, SentUp
      <4>2. SilentAfter(uplink'[e], q)
        BY <2>2, <2>3, <2>4, <3>2, <4>1, SilentConcat
      <4>3. RequestMsg(q) \in ToSet(uplink'[e])
        BY <2>3, <4>1, ToSetConcat
      <4> QED
        BY <2>1, <2>2, <2>6, <3>1, <4>2, <4>3 DEF Covered, StillComing
    <3>4. CASE e \notin connected
      <4>1. uplink' = uplink
        BY <2>1, <2>2, <2>6, <3>4 DEF SendUp
      <4> QED
        BY <2>1, <2>2, <2>6, <3>2, <3>4, <4>1 DEF Covered
    <3> QED
      BY <3>3, <3>4
  <2> QED
    BY <2>1, <2>5, <2>6
<1>6. ASSUME NEW d \in Director, Handle(d)
      PROVE  Goal
  <2> DEFINE msg == Head(uplink[d])
  <2>1. /\ uplink[d] # <<>> /\ uplink' = [uplink EXCEPT ![d] = Tail(@)]
        /\ UNCHANGED <<connected, channels, downlink, cut, asked>>
    BY <1>6 DEF Handle, memberVars
  <2>2. uplink[d] \in Seq(Message) /\ msg \in Message
    BY <1>0, <2>1, HeadTailProperties
  <2>3. open' = IF msg.type = "REQUEST" THEN open \union {msg.request} ELSE open
    BY <1>6 DEF Handle
  <2>4. r \in asked
    BY <2>1
  <2>5. msg = RequestMsg(r) => r \in open'
    BY <2>3 DEF RequestMsg
  <2>6. r \in open' => r \in open \/ msg = RequestMsg(r)
    BY <2>2, <2>3, MessageTypes
  <2> HIDE DEF msg
  <2>7. CASE e # d
    <3>1. uplink'[e] = uplink[e] /\ msg # RequestMsg(r)
      <4>1. msg \in ToSet(uplink[d])
        BY <2>1, <2>2, ToSetTail DEF msg
      <4> QED
        BY <1>0, <1>1, <2>1, <2>4, <2>7, <4>1 DEF RequestsNumbered
    <3>2. StillComing(r) => StillComing(r)'
      BY <2>1, <2>3, <3>1 DEF StillComing
    <3> QED
      BY <1>1, <2>1, <2>4, <2>6, <3>1, <3>2 DEF Covered
  <2>8. CASE e = d
    <3>1. uplink'[e] = Tail(uplink[e]) /\ uplink[e] \in Seq(Message) /\ uplink[e] # <<>>
          /\ msg = Head(uplink[e])
      BY <1>0, <2>1, <2>2, <2>8 DEF msg
    <3>2. /\ Silent(uplink[e], r.channel) => Silent(uplink'[e], r.channel)
          /\ SilentAfter(uplink[e], r) => SilentAfter(uplink'[e], r)
          /\ SilentAfter(uplink[e], r) /\ msg = RequestMsg(r) => Silent(uplink'[e], r.channel)
          /\ RequestMsg(r) \in ToSet(uplink[e]) =>
                 msg = RequestMsg(r) \/ RequestMsg(r) \in ToSet(uplink'[e])
      BY <1>1, <2>4, <3>1, SilentTail
    <3>3. StillComing(r) => StillComing(r)'
      BY <2>1, <2>3, <2>5, <3>2 DEF StillComing
    <3> QED
      BY <1>1, <2>1, <2>4, <2>6, <3>2, <3>3 DEF Covered
  <2> QED
    BY <2>7, <2>8
<1>7. ASSUME NEW q \in open, Answer(q)
      PROVE  Goal
  <2>1. /\ UNCHANGED <<connected, channels, uplink, asked, cut>> /\ r \in asked
        /\ open' = open \ {q}
        /\ downlink' = [d \in Director |-> IF d \in Receivers(upstream, {q.channel})
                                             THEN Append(downlink[d], q) ELSE downlink[d]]
    BY <1>7 DEF Answer, memberVars
  <2>2. e \in Director /\ downlink[e] \in Seq(Request) /\ q \in Request
    BY <1>0, <1>1, <2>1
  <2>3. ToSet(Append(downlink[e], q)) = ToSet(downlink[e]) \union {q}
    <3> DEFINE t == <<q>>
    <3>1. t \in Seq(Request) /\ ToSet(t) = {q}
      BY <2>2 DEF ToSet
    <3>2. Append(downlink[e], q) = downlink[e] \o t
      BY <2>2, AppendIsConcat
    <3> HIDE DEF t
    <3>3. ToSet(downlink[e] \o t) = ToSet(downlink[e]) \union ToSet(t)
      BY <2>2, <3>1, ToSetConcat
    <3> QED
      BY <3>1, <3>2, <3>3
  <2>4. downlink'[e] = IF e \in Receivers(upstream, {q.channel})
                         THEN Append(downlink[e], q) ELSE downlink[e]
    BY <2>1, <2>2
  <2>5. ToSet(downlink[e]) \subseteq ToSet(downlink'[e])
    BY <2>3, <2>4
  <2>6. ASSUME q = r, e \in connected
        PROVE  r \in ToSet(downlink'[e])
    <3>1. Silent(uplink[e], r.channel) /\ localSubs[e][r.channel] # {}
      BY <1>1, <1>7, <2>1, <2>6 DEF Covered
    <3>2. WillHear(e, r.channel)
      BY <1>0, <1>1, <2>1, <2>6, <3>1 DEF RelayFaithful
    <3>3. e \in upstream[r.channel]
      BY <3>1, <3>2, MessagesDiffer DEF WillHear, Hears, Silent, About
    <3>4. downlink'[e] = Append(downlink[e], r)
      BY <2>4, <2>6, <3>3 DEF Receivers
    <3> QED
      BY <2>3, <2>6, <3>4
  <2>7. e \in connected => StillComing(r)'
    BY <1>1, <2>1, <2>5, <2>6 DEF StillComing
  <2> QED
    BY <1>1, <2>1, <2>7 DEF Covered
<1>8. ASSUME NEW d \in Director, Process(d)
      PROVE  Goal
  <2> DEFINE q == Head(downlink[d])
             receiving == Receivers(localSubs[d], {q.channel})
  <2>1. /\ UNCHANGED <<connected, channels, uplink, open>>
        /\ downlink[d] # <<>> /\ downlink' = [downlink EXCEPT ![d] = Tail(@)]
    BY <1>8 DEF Process, memberVars
  <2>2. PICK reached \in SUBSET receiving :
          /\ asked' = IF q.member \in reached THEN asked \ {q} ELSE asked
          /\ cut' = IF q.member \in receiving \ reached THEN cut \union {q} ELSE cut
    BY <1>8 DEF Process
  <2>3. r \in asked /\ cut \subseteq cut'
    BY <2>2
  <2>4. q = r /\ e = d => r \in cut'
    <3>1. q = r /\ e = d => q.member \in receiving
      BY <1>1, <2>3 DEF Receivers
    <3> QED
      BY <2>2, <2>3, <3>1
  <2> HIDE DEF q
  <2>5. r \in ToSet(downlink[e]) => r \in ToSet(downlink'[e]) \/ r \in cut'
    <3>1. CASE e # d
      BY <1>0, <1>1, <2>1, <2>3, <3>1
    <3>2. CASE e = d
      <4>1. downlink'[e] = Tail(downlink[e]) /\ downlink[e] \in Seq(Request) /\ downlink[e] # <<>>
        BY <1>0, <2>1, <3>2
      <4>2. ToSet(downlink[e]) = {q} \union ToSet(downlink'[e])
        BY <3>2, <4>1, ToSetTail DEF q
      <4> QED
        BY <2>4, <3>2, <4>2
    <3> QED
      BY <3>1, <3>2
  <2>6. e \in connected => StillComing(r)'
    BY <1>1, <2>1, <2>3, <2>5 DEF StillComing
  <2> QED
    BY <1>1, <2>1, <2>3, <2>6 DEF Covered
<1>9. ASSUME NEW d \in Director, ConnectionLost(d)
      PROVE  Goal
  <2>1. /\ UNCHANGED <<channels, open, asked, cut>> /\ connected' = connected \ {d}
        /\ uplink' = [uplink EXCEPT ![d] = <<>>] /\ r \in asked
        /\ \A f \in Director \ {d} : downlink'[f] = downlink[f]
    BY <1>0, <1>9 DEF ConnectionLost, memberVars
  <2>2. CASE e # d
    <3>1. uplink'[e] = uplink[e] /\ downlink'[e] = downlink[e]
      BY <1>0, <1>1, <2>1, <2>2
    <3>2. StillComing(r) => StillComing(r)'
      BY <2>1, <3>1 DEF StillComing
    <3> QED
      BY <1>1, <2>1, <3>1, <3>2 DEF Covered
  <2>3. CASE e = d
    <3>1. uplink'[e] = <<>> /\ e \notin connected'
      BY <1>0, <1>1, <2>1, <2>3
    <3> QED
      BY <1>1, <2>1, <3>1 DEF Covered, SilentAfter
  <2> QED
    BY <2>2, <2>3
<1>10. CASE UNCHANGED vars
  <2>1. r \in asked
    BY <1>10 DEF vars
  <2>2. Covered(r) => Covered(r)'
    BY <1>10 DEF vars, Covered
  <2>3. (e \in connected => StillComing(r)) => (e \in connected => StillComing(r))'
    BY <1>10 DEF vars, StillComing
  <2> QED
    BY <1>1, <2>1, <2>2, <2>3
<1> QED
  BY <1>2, <1>3, <1>4, <1>5, <1>6, <1>7, <1>8, <1>9, <1>10 DEF Next

\* IInv holds in every reachable state.
THEOREM Invariance == Spec => []IInv
<1>1. Init => RelayFaithful /\ RequestsNumbered /\ RequestsCovered /\ NoAnswerLost
  BY DEF Init, RelayFaithful, WillHear, Hears, RequestsNumbered, RequestsCovered,
         NoAnswerLost, ToSet
<1>2. TypeOK /\ TypeOK' /\ IInv /\ [Next]_vars => IInv'
  BY RelayFaithfulStep, NumberedStep, RequestsStep DEF IInv
<1> QED
  <2>1. Init /\ TypeOK => IInv
    BY <1>1 DEF IInv
  <2> QED
    BY <1>2, <2>1, TypeCorrect, PTL DEF Spec

\* No answer is lost between the master and a member that keeps listening on
\* the channel it named, unless an exception of another receiver cuts it off:
\* neither to a race with the subscription nor to another member's leaving
\* (subscribe_channel, unsubscribe_channel, receive_datagram,
\* process_datagram).
THEOREM AnswersArrive == Spec => []NoAnswerLost
<1>1. IInv => NoAnswerLost
  BY DEF IInv
<1> QED
  BY <1>1, Invariance, PTL

=============================================================================
