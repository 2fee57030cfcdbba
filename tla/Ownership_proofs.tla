---------------------------- MODULE Ownership_proofs ----------------------------
(* Proofs about Ownership, for any clients, locations and interests and any  *)
(* number of moves.                                                          *)
EXTENDS Ownership, SequenceTheorems, TLAPS

Due(c, ms) == \E m \in ms : m.type = "ENTER_OWNER" /\ m.owner = c /\ m.sender = None

Placed(ms) == \A m \in ms : m.type \in {"CHANGE_ZONE", "ENTER_OWNER"} => m.new \in Place

\* Only an object that exists has an owner, an owner that does not have it yet
\* is about to be given it, and what tells of it says where it is.
OwnerServed ==
    /\ owner # None => place # Nowhere
    /\ \A c \in Client : c = owner /\ owned[c] = Nowhere => Due(c, ToSet(to_ca))
    /\ Placed(ToSet(to_ca))

-----------------------------------------------------------------------------
(* Messages added at the end and taken from the front.                       *)

LEMMA Concat ==
    ASSUME NEW S, NEW s \in Seq(S), NEW t \in Seq(S)
    PROVE  /\ DOMAIN s = 1 .. Len(s) /\ Len(s) \in Nat
           /\ DOMAIN t = 1 .. Len(t) /\ Len(t) \in Nat
           /\ s \o t \in Seq(S) /\ Len(s \o t) = Len(s) + Len(t)
           /\ DOMAIN (s \o t) = 1 .. Len(s) + Len(t)
           /\ \A i \in 1 .. Len(s) + Len(t) :
                 (s \o t)[i] = IF i <= Len(s) THEN s[i] ELSE t[i - Len(s)]
<1>1. /\ s \o t \in Seq(S) /\ Len(s \o t) = Len(s) + Len(t)
      /\ \A i \in 1 .. Len(s) + Len(t) :
            (s \o t)[i] = IF i <= Len(s) THEN s[i] ELSE t[i - Len(s)]
  BY ConcatProperties
<1>2. DOMAIN (s \o t) = 1 .. Len(s) + Len(t)
  BY <1>1, LenProperties
<1> QED
  BY <1>1, <1>2, LenProperties

LEMMA ToSetConcat ==
    ASSUME NEW S, NEW s \in Seq(S), NEW t \in Seq(S)
    PROVE  ToSet(s \o t) = ToSet(s) \union ToSet(t)
<1> DEFINE u == s \o t
<1>1. /\ DOMAIN s = 1 .. Len(s) /\ Len(s) \in Nat
      /\ DOMAIN t = 1 .. Len(t) /\ Len(t) \in Nat
      /\ DOMAIN u = 1 .. Len(s) + Len(t)
      /\ \A i \in 1 .. Len(s) + Len(t) : u[i] = IF i <= Len(s) THEN s[i] ELSE t[i - Len(s)]
  BY Concat
<1> HIDE DEF u
<1>2. ASSUME NEW i \in DOMAIN u PROVE u[i] \in ToSet(s) \union ToSet(t)
  <2>1. \/ i \in DOMAIN s /\ u[i] = s[i]
        \/ i - Len(s) \in DOMAIN t /\ u[i] = t[i - Len(s)]
    BY <1>1, <1>2
  <2> QED
    BY <2>1 DEF ToSet
<1>3. ASSUME NEW i \in DOMAIN s PROVE s[i] \in ToSet(u)
  BY <1>1 DEF ToSet
<1>4. ASSUME NEW j \in DOMAIN t PROVE t[j] \in ToSet(u)
  <2>1. Len(s) + j \in DOMAIN u /\ u[Len(s) + j] = t[j]
    BY <1>1
  <2> QED
    BY <2>1 DEF ToSet
<1>5. ToSet(u) \subseteq ToSet(s) \union ToSet(t)
  BY <1>2 DEF ToSet
<1>6. ToSet(s) \subseteq ToSet(u) /\ ToSet(t) \subseteq ToSet(u)
  BY <1>3, <1>4 DEF ToSet
<1> QED
  BY <1>5, <1>6 DEF u

\* Messages that do not tell the client anything change nothing.
LEMMA LeadsSilent ==
    ASSUME NEW c, NEW from, NEW to, NEW s \in Seq(Message), NEW t \in Seq(Message),
           Leads(c, s, from, to), \A i \in DOMAIN t : ~Tells(c, t[i])
    PROVE  Leads(c, s \o t, from, to)
<1> DEFINE u == s \o t
<1>1. /\ DOMAIN s = 1 .. Len(s) /\ Len(s) \in Nat
      /\ DOMAIN t = 1 .. Len(t) /\ Len(t) \in Nat
      /\ Len(u) = Len(s) + Len(t)
      /\ DOMAIN u = 1 .. Len(s) + Len(t)
      /\ \A i \in 1 .. Len(s) + Len(t) : u[i] = IF i <= Len(s) THEN s[i] ELSE t[i - Len(s)]
  BY Concat
<1> HIDE DEF u
<1>2. ASSUME NEW k \in DOMAIN u, k > Len(s) PROVE ~Tells(c, u[k])
  <2>1. k - Len(s) \in DOMAIN t /\ u[k] = t[k - Len(s)]
    BY <1>1, <1>2
  <2> QED
    BY <2>1
<1>3. \A k \in DOMAIN s : k \in DOMAIN u /\ u[k] = s[k]
  BY <1>1
<1>4. CASE from = to /\ \A i \in DOMAIN s : ~Tells(c, s[i])
  <2>1. ASSUME NEW k \in DOMAIN u PROVE ~Tells(c, u[k])
    <3>1. CASE k > Len(s)
      BY <1>2, <3>1
    <3>2. CASE ~(k > Len(s))
      <4>1. k \in DOMAIN s
        BY <1>1, <3>2
      <4> QED
        BY <1>3, <1>4, <4>1
    <3> QED
      BY <3>1, <3>2
  <2> QED
    BY <1>4, <2>1 DEF Leads, u
<1>5. CASE \E i \in DOMAIN s : /\ Tells(c, s[i]) /\ s[i].new = to
                               /\ \A j \in i + 1 .. Len(s) : ~Tells(c, s[j])
  <2>1. PICK i \in DOMAIN s : /\ Tells(c, s[i]) /\ s[i].new = to
                              /\ \A j \in i + 1 .. Len(s) : ~Tells(c, s[j])
    BY <1>5
  <2>2. ASSUME NEW k \in i + 1 .. Len(u) PROVE ~Tells(c, u[k])
    <3>1. CASE k > Len(s)
      BY <1>1, <1>2, <3>1
    <3>2. CASE ~(k > Len(s))
      <4>1. k \in DOMAIN s /\ k \in i + 1 .. Len(s)
        BY <1>1, <3>2
      <4> QED
        BY <1>3, <2>1, <4>1
    <3> QED
      BY <3>1, <3>2
  <2> QED
    BY <1>3, <2>1, <2>2 DEF Leads, u
<1> QED
  BY <1>4, <1>5 DEF Leads

\* After messages of which the last that tells says `to`, the client is there.
LEMMA LeadsAnew ==
    ASSUME NEW c, NEW from, NEW to, NEW s \in Seq(Message), NEW t \in Seq(Message),
           NEW i \in DOMAIN t, Tells(c, t[i]), t[i].new = to,
           \A j \in i + 1 .. Len(t) : ~Tells(c, t[j])
    PROVE  Leads(c, s \o t, from, to)
<1> DEFINE u == s \o t
<1>1. /\ DOMAIN s = 1 .. Len(s) /\ Len(s) \in Nat
      /\ DOMAIN t = 1 .. Len(t) /\ Len(t) \in Nat
      /\ Len(u) = Len(s) + Len(t)
      /\ DOMAIN u = 1 .. Len(s) + Len(t)
      /\ \A k \in 1 .. Len(s) + Len(t) : u[k] = IF k <= Len(s) THEN s[k] ELSE t[k - Len(s)]
  BY Concat
<1> HIDE DEF u
<1>2. Len(s) + i \in DOMAIN u /\ u[Len(s) + i] = t[i]
  BY <1>1
<1>3. ASSUME NEW k \in Len(s) + i + 1 .. Len(u) PROVE ~Tells(c, u[k])
  <2>1. k - Len(s) \in i + 1 .. Len(t) /\ u[k] = t[k - Len(s)]
    BY <1>1
  <2> QED
    BY <2>1
<1> QED
  BY <1>2, <1>3 DEF Leads, u

LEMMA TailOf ==
    ASSUME NEW S, NEW s \in Seq(S), s # <<>>
    PROVE  /\ Head(s) \in S /\ Tail(s) \in Seq(S) /\ Head(s) = s[1]
           /\ Len(s) \in Nat \ {0} /\ Len(Tail(s)) = Len(s) - 1
           /\ DOMAIN s = 1 .. Len(s) /\ DOMAIN Tail(s) = 1 .. Len(s) - 1
           /\ \A i \in 1 .. Len(s) - 1 : Tail(s)[i] = s[i + 1]
           /\ ToSet(s) = {Head(s)} \union ToSet(Tail(s))
<1>1. DOMAIN s = 1 .. Len(s) /\ Len(s) \in Nat \ {0}
  BY LenProperties, EmptySeq
<1>2. /\ Head(s) \in S /\ Head(s) = s[1]
      /\ Tail(s) \in Seq(S) /\ Len(Tail(s)) = Len(s) - 1
      /\ \A i \in 1 .. Len(Tail(s)) : Tail(s)[i] = s[i + 1]
  BY HeadTailProperties
<1>3. DOMAIN Tail(s) = 1 .. Len(s) - 1
  BY <1>2, LenProperties
<1>4. ASSUME NEW i \in 1 .. Len(s), i # 1
      PROVE  s[i] \in ToSet(Tail(s))
  <2>1. i - 1 \in DOMAIN Tail(s) /\ Tail(s)[i - 1] = s[i]
    BY <1>1, <1>2, <1>3, <1>4
  <2> QED
    BY <2>1 DEF ToSet
<1>5. ToSet(s) \subseteq {Head(s)} \union ToSet(Tail(s))
  BY <1>1, <1>2, <1>4 DEF ToSet
<1>6. {Head(s)} \union ToSet(Tail(s)) \subseteq ToSet(s)
  BY <1>1, <1>2, <1>3 DEF ToSet
<1> QED
  BY <1>1, <1>2, <1>3, <1>5, <1>6

LEMMA LastTail ==
    ASSUME NEW S, NEW s \in Seq(S), s # <<>>
    PROVE  IF Tail(s) = <<>> THEN Last(s) = Head(s) ELSE Last(Tail(s)) = Last(s)
<1> DEFINE t == Tail(s)
           n == Len(s)
<1>1. /\ Head(s) = s[1] /\ n \in Nat \ {0} /\ Len(t) = n - 1 /\ t \in Seq(S)
      /\ \A i \in 1 .. n - 1 : t[i] = s[i + 1]
  BY TailOf
<1>2. Last(s) = s[n] /\ Last(t) = t[Len(t)]
  BY DEF Last
<1>3. t = <<>> <=> Len(t) = 0
  BY <1>1, EmptySeq
<1> HIDE DEF t, n
<1>4. CASE t = <<>>
  BY <1>1, <1>2, <1>3, <1>4 DEF t
<1>5. CASE t # <<>>
  <2>1. n - 1 \in 1 .. n - 1
    BY <1>1, <1>3, <1>5
  <2>2. t[n - 1] = s[n - 1 + 1]
    BY <1>1, <2>1
  <2> QED
    BY <1>1, <1>2, <1>5, <2>2 DEF t
<1> QED
  BY <1>4, <1>5

\* Taking the first message: it counts only if nothing after it tells.
LEMMA LeadsTail ==
    ASSUME NEW c, NEW from, NEW to, NEW s \in Seq(Message), s # <<>>,
           Leads(c, s, from, to), NEW now,
           ~Tells(c, Head(s)) => now = from,
           \/ Tells(c, Head(s)) => now = Head(s).new
           \/ \E m \in ToSet(Tail(s)) : Tells(c, m)
    PROVE  Leads(c, Tail(s), now, to)
<1>1. /\ Head(s) = s[1] /\ Len(s) \in Nat \ {0} /\ Len(Tail(s)) = Len(s) - 1
      /\ DOMAIN s = 1 .. Len(s) /\ DOMAIN Tail(s) = 1 .. Len(s) - 1
      /\ \A i \in 1 .. Len(s) - 1 : Tail(s)[i] = s[i + 1]
  BY TailOf
<1>2. CASE from = to /\ \A i \in DOMAIN s : ~Tells(c, s[i])
  <2>1. ~Tells(c, Head(s)) /\ now = to
    BY <1>1, <1>2
  <2>2. \A i \in DOMAIN Tail(s) : ~Tells(c, Tail(s)[i])
    BY <1>1, <1>2
  <2> QED
    BY <2>1, <2>2 DEF Leads
<1>3. ASSUME NEW i \in DOMAIN s, Tells(c, s[i]), s[i].new = to,
             \A j \in i + 1 .. Len(s) : ~Tells(c, s[j])
      PROVE  Leads(c, Tail(s), now, to)
  <2>1. CASE i = 1
    <3>1. ASSUME NEW k \in DOMAIN Tail(s) PROVE ~Tells(c, Tail(s)[k])
      <4>1. k + 1 \in i + 1 .. Len(s) /\ Tail(s)[k] = s[k + 1]
        BY <1>1, <2>1
      <4> QED
        BY <1>3, <4>1
    <3>2. Tells(c, Head(s)) /\ Head(s).new = to
      BY <1>1, <1>3, <2>1
    <3>3. now = to
      BY <3>1, <3>2 DEF ToSet
    <3> QED
      BY <3>1, <3>3 DEF Leads
  <2>2. CASE i # 1
    <3>1. i - 1 \in DOMAIN Tail(s) /\ Tail(s)[i - 1] = s[i]
      BY <1>1, <1>3, <2>2
    <3>2. ASSUME NEW k \in (i - 1) + 1 .. Len(Tail(s)) PROVE ~Tells(c, Tail(s)[k])
      <4>1. k + 1 \in i + 1 .. Len(s) /\ k \in 1 .. Len(s) - 1 /\ Tail(s)[k] = s[k + 1]
        BY <1>1, <1>3, <2>2
      <4> QED
        BY <1>3, <4>1
    <3> QED
      BY <1>3, <3>1, <3>2 DEF Leads
  <2> QED
    BY <2>1, <2>2
<1> QED
  BY <1>2, <1>3 DEF Leads

-----------------------------------------------------------------------------
(* Types.                                                                    *)

LEMMA MsgType ==
    ASSUME NEW type \in {"CHANGE_ZONE", "ENTERZONE", "ENTER_OWNER", "DELETE_RAM"},
           NEW sender \in Client \union {None}, NEW to \in Client \union {None},
           NEW at \in Place \union {Nowhere}, NEW new \in Place \union {Nowhere}
    PROVE  /\ Msg(type, sender, to, at, new) \in Message
           /\ Msg(type, sender, to, at, new).type = type
           /\ Msg(type, sender, to, at, new).sender = sender
           /\ Msg(type, sender, to, at, new).owner = to
           /\ Msg(type, sender, to, at, new).new = new
  BY DEF Msg, Message

LEMMA MoveType ==
    ASSUME TypeOK, NEW new \in Place, NEW sender \in Client \union {None}, Move(new, sender)
    PROVE  place' \in Place \union {Nowhere} /\ to_ca' \in Seq(Message) /\ crossed' \subseteq Client
<1>1. MoveMessages(new, sender) \in Seq(Message)
  <2>1. Msg("CHANGE_ZONE", sender, owner, place, new) \in Message
    BY MsgType DEF TypeOK
  <2>2. Msg("ENTERZONE", None, None, new, new) \in Message
    BY MsgType
  <2> QED
    BY <2>1, <2>2 DEF MoveMessages
<1>2. to_ca \o MoveMessages(new, sender) \in Seq(Message)
  BY <1>1, ConcatProperties DEF TypeOK
<1> QED
  BY <1>2 DEF Move, Notified, TypeOK

\* The state holds what it is for, whatever is sent and lost.
THEOREM TypeCorrect == Spec => []TypeOK
<1> USE OwnershipAssumption DEF OwnershipAssumption
<1>1. Init => TypeOK
  BY EmptySeq DEF Init, TypeOK
<1>2. TypeOK /\ [Next]_vars => TypeOK'
  <2> SUFFICES ASSUME TypeOK, [Next]_vars PROVE TypeOK'
    OBVIOUS
  <2>1. CASE Deliver
    <3>1. Head(to_ca) \in Message /\ Tail(to_ca) \in Seq(Message)
      BY <2>1, TailOf DEF Deliver, TypeOK
    <3>2. Head(to_ca).new \in Place \union {Nowhere}
      BY <3>1 DEF Message
    <3> DEFINE m == Head(to_ca)
               hearing == {c \in Client : Hears(c, m)}
    <3>3. CASE ObjectEntrance(m, hearing)
      BY <2>1, <3>1, <3>2, <3>3 DEF Deliver, ObjectEntrance, TypeOK
    <3>4. CASE OwnedEntrance(m, hearing)
      BY <2>1, <3>1, <3>2, <3>4 DEF Deliver, OwnedEntrance, TypeOK
    <3>5. CASE LocationChange(m, hearing)
      BY <2>1, <3>1, <3>2, <3>5 DEF Deliver, LocationChange, TypeOK
    <3>6. CASE Deleted(hearing)
      BY <2>1, <3>1, <3>6 DEF Deliver, Deleted, TypeOK
    <3> QED
      BY <2>1, <3>3, <3>4, <3>5, <3>6 DEF Deliver
  <2>2. CASE Annihilate
    BY <2>2, MsgType DEF Annihilate, Bounded, TypeOK
  <2>3. ASSUME NEW c \in Client, SetOwner(c) PROVE TypeOK'
    <3>1. Msg("ENTER_OWNER", None, c, Nowhere, place) \in Message
      BY MsgType DEF TypeOK
    <3> QED
      BY <2>3, <3>1 DEF SetOwner, Notified, Bounded, TypeOK
  <2>4. ASSUME NEW c \in Client, ProcessMove(c) PROVE TypeOK'
    <3>1. Head(up[c]) \in Place /\ Tail(up[c]) \in Seq(Place)
      BY <2>4, TailOf DEF ProcessMove, TypeOK
    <3>2. place' \in Place \union {Nowhere} /\ to_ca' \in Seq(Message) /\ crossed' \subseteq Client
      BY <2>4, <3>1, MoveType DEF ProcessMove, TypeOK
    <3> QED
      BY <2>4, <3>1, <3>2 DEF ProcessMove, TypeOK
  <2>5. ASSUME NEW new \in Place, SetZone(new) PROVE TypeOK'
    <3>1. place' \in Place \union {Nowhere} /\ to_ca' \in Seq(Message) /\ crossed' \subseteq Client
      BY <2>5, MoveType DEF SetZone
    <3> QED
      BY <2>5, <3>1 DEF SetZone, Bounded, TypeOK
  <2>6. ASSUME NEW new \in Place, NEW c \in Client \union {None}, Generate(new, c) PROVE TypeOK'
    <3> DEFINE first == <<Msg("CHANGE_ZONE", None, c, Nowhere, new),
                          Msg("ENTERZONE", None, None, new, new)>>
               last == IF c = None THEN <<>> ELSE <<Msg("ENTER_OWNER", None, c, Nowhere, new)>>
    <3>1. first \in Seq(Message) /\ last \in Seq(Message)
      BY MsgType
    <3> HIDE DEF first, last
    <3>2. to_ca \o first \o last \in Seq(Message)
      BY <3>1, ConcatProperties DEF TypeOK
    <3>3. to_ca' \in Seq(Message)
      BY <2>6, <3>2 DEF Generate, first, last
    <3> QED
      BY <2>6, <3>3 DEF Generate, Notified, Bounded, TypeOK
  <2>7. ASSUME NEW new \in Place, NEW c \in Client, ClientLocation(c, new) PROVE TypeOK'
    BY <2>7 DEF ClientLocation, Bounded, TypeOK
  <2>8. CASE UNCHANGED vars
    BY <2>8 DEF vars, TypeOK
  <2> QED
    BY <2>1, <2>2, <2>3, <2>4, <2>5, <2>6, <2>7, <2>8 DEF Next
<1> QED
  BY <1>1, <1>2, PTL DEF Spec

-----------------------------------------------------------------------------
(* What an owner knows.                                                      *)

Knows(c) ==
    IF up[c] = <<>> THEN Leads(c, to_ca, owned[c], place)
    ELSE /\ Last(up[c]) = owned[c]
         /\ \A m \in ToSet(to_ca) : ~Tells(c, m)

LEMMA ToSetPair == \A a, b : ToSet(<<a, b>>) = {a, b} /\ ToSet(<<a>>) = {a}
<1> TAKE a, b
<1>1. DOMAIN <<a, b>> = 1 .. 2 /\ DOMAIN <<a>> = 1 .. 1
  OBVIOUS
<1>2. \A i \in 1 .. 2 : i = 1 \/ i = 2
  OBVIOUS
<1>3. \A i \in 1 .. 1 : i = 1
  OBVIOUS
<1> QED
  BY <1>1, <1>2, <1>3 DEF ToSet

\* Someone else moves the object.
LEMMA MovedByOthers ==
    ASSUME OwnershipAssumption, TypeOK, NEW c \in Client, c = owner, Knows(c) \/ c \in crossed,
           NEW new \in Place, NEW sender \in Client \union {None}, sender # c,
           Move(new, sender), up'[c] = up[c], owned' = owned, c \notin crossed'
    PROVE  Knows(c)'
<1>1. c # None
  BY DEF OwnershipAssumption
<1>2. CASE new = place
  <2>1. UNCHANGED <<place, to_ca, crossed>>
    BY <1>2 DEF Move
  <2> QED
    BY <2>1 DEF Knows
<1>3. CASE new # place
  <2> DEFINE t == MoveMessages(new, sender)
  <2>1. up[c] = <<>> /\ place' = new /\ to_ca' = to_ca \o t
    BY <1>1, <1>3 DEF Move, Notified
  <2>2. /\ t = <<Msg("CHANGE_ZONE", sender, owner, place, new),
                Msg("ENTERZONE", None, None, new, new)>>
        /\ t \in Seq(Message)
    BY MsgType DEF TypeOK, MoveMessages
  <2>3. t[1].type = "CHANGE_ZONE" /\ t[1].sender = sender /\ t[1].owner = c /\ t[1].new = new
    BY <2>2, MsgType DEF Msg
  <2>4. Len(t) = 2 /\ t[2].type = "ENTERZONE" /\ 1 \in DOMAIN t
    BY <2>2, MsgType DEF Msg
  <2>5. Tells(c, t[1]) /\ ~Tells(c, t[2])
    BY <2>3, <2>4 DEF Tells, Hears
  <2>6. \A j \in 1 + 1 .. Len(t) : ~Tells(c, t[j])
    <3>1. \A j \in 1 + 1 .. Len(t) : j = 2
      BY <2>4
    <3> QED
      BY <2>5, <3>1
  <2> HIDE DEF t
  <2>7. Leads(c, to_ca \o t, owned[c], new)
    BY <2>2, <2>3, <2>4, <2>5, <2>6, LeadsAnew DEF TypeOK
  <2> QED
    BY <2>1, <2>7 DEF Knows
<1> QED
  BY <1>2, <1>3

\* The owner's own move is processed.
LEMMA MovedByOwner ==
    ASSUME OwnershipAssumption, TypeOK, NEW c \in Client, c = owner, Knows(c) \/ c \in crossed,
           up[c] # <<>>, Move(Head(up[c]), c), up'[c] = Tail(up[c]), owned' = owned,
           c \notin crossed'
    PROVE  Knows(c)'
<1> DEFINE new == Head(up[c])
<1>1. crossed' = crossed
  BY DEF Move
<1>2. Last(up[c]) = owned[c] /\ \A m \in ToSet(to_ca) : ~Tells(c, m)
  BY <1>1 DEF Knows
<1>3. new \in Place
  BY TailOf DEF TypeOK
<1>4. place' = new
  BY DEF Move
<1>5. /\ to_ca' \in Seq(Message)
      /\ \A m \in ToSet(to_ca') : ~Tells(c, m)
  <2> DEFINE t == MoveMessages(new, c)
  <2>1. t \in Seq(Message)
    <3>1. /\ Msg("CHANGE_ZONE", c, owner, place, new) \in Message
          /\ Msg("ENTERZONE", None, None, new, new) \in Message
      BY <1>3, MsgType DEF TypeOK
    <3> QED
      BY <3>1 DEF MoveMessages
  <2>2. ToSet(t) = {Msg("CHANGE_ZONE", c, owner, place, new), Msg("ENTERZONE", None, None, new, new)}
    BY ToSetPair DEF MoveMessages
  <2>3. \A m \in ToSet(t) : ~Tells(c, m)
    BY <2>2 DEF Tells, Hears, Msg
  <2> HIDE DEF t
  <2>4. ToSet(to_ca \o t) = ToSet(to_ca) \union ToSet(t) /\ to_ca \o t \in Seq(Message)
    BY <2>1, ToSetConcat, ConcatProperties DEF TypeOK
  <2>5. to_ca' = to_ca \/ to_ca' = to_ca \o t
    BY DEF Move, t
  <2> QED
    BY <1>2, <2>3, <2>4, <2>5 DEF TypeOK
<1>6. CASE up'[c] = <<>>
  <2>1. new = owned[c]
    BY <1>2, <1>6, LastTail DEF TypeOK
  <2>2. \A i \in DOMAIN to_ca' : ~Tells(c, to_ca'[i])
    BY <1>5 DEF ToSet
  <2> QED
    BY <1>4, <1>6, <2>1, <2>2 DEF Knows, Leads
<1>7. CASE up'[c] # <<>>
  <2>1. Last(Tail(up[c])) = Last(up[c])
    BY <1>7, LastTail DEF TypeOK
  <2> QED
    BY <1>2, <1>5, <1>7, <2>1 DEF Knows
<1> QED
  BY <1>6, <1>7

\* The owner asks for a move.
LEMMA MoveAsked ==
    ASSUME TypeOK, NEW c \in Client, NEW new \in Place, ClientLocation(c, new), c \notin crossed'
    PROVE  Knows(c)'
<1>1. up[c] \in Seq(Place) /\ up'[c] = Append(up[c], new) /\ owned'[c] = new /\ to_ca' = to_ca
  BY DEF ClientLocation, TypeOK
<1>2. \A m \in ToSet(to_ca) : ~Tells(c, m)
  BY DEF ClientLocation
<1>3. up'[c] # <<>> /\ Last(up'[c]) = new
  <2>1. Len(up'[c]) = Len(up[c]) + 1 /\ up'[c][Len(up[c]) + 1] = new /\ Len(up[c]) \in Nat
    BY <1>1
  <2>2. up'[c] # <<>>
    BY <2>1, EmptySeq
  <2> QED
    BY <2>1, <2>2 DEF Last
<1> QED
  BY <1>1, <1>2, <1>3 DEF Knows

\* The agent delivers a message.
LEMMA Delivered ==
    ASSUME OwnershipAssumption, TypeOK, OwnerServed, NEW c \in Client, c = owner, Knows(c), Deliver
    PROVE  Knows(c)'
<1> DEFINE m == Head(to_ca)
<1>1. /\ to_ca \in Seq(Message) /\ to_ca # <<>> /\ to_ca' = Tail(to_ca)
      /\ up' = up /\ place' = place
  BY DEF Deliver, TypeOK
<1>2. m \in Message /\ ToSet(to_ca) = {m} \union ToSet(to_ca')
  BY <1>1, TailOf
<1>3. ~Tells(c, m) => owned'[c] = owned[c]
  BY DEF Deliver, ObjectEntrance, OwnedEntrance, LocationChange, Deleted, Tells, TypeOK
<1>4. CASE up[c] # <<>>
  BY <1>1, <1>2, <1>3, <1>4 DEF Knows
<1>5. CASE up[c] = <<>>
  <2>1. \/ Tells(c, m) => owned'[c] = m.new
        \/ \E n \in ToSet(to_ca') : Tells(c, n)
    <3>1. CASE m.type = "ENTER_OWNER"
      BY <3>1 DEF Deliver, OwnedEntrance, Tells
    <3>2. CASE m.type = "CHANGE_ZONE" /\ owned[c] # Nowhere
      BY <3>2 DEF Deliver, LocationChange, Tells
    <3>3. CASE m.type = "CHANGE_ZONE" /\ owned[c] = Nowhere
      <4>1. PICK n \in ToSet(to_ca) : n.type = "ENTER_OWNER" /\ n.owner = c /\ n.sender = None
        BY <3>3 DEF OwnerServed, Due
      <4>2. n \in ToSet(to_ca')
        BY <1>2, <3>3, <4>1
      <4>3. Tells(c, n)
        BY <4>1 DEF Tells, Hears, OwnershipAssumption
      <4> QED
        BY <4>2, <4>3
    <3> QED
      BY <3>1, <3>2, <3>3 DEF Tells
  <2>2. Leads(c, to_ca, owned[c], place)
    BY <1>5 DEF Knows
  <2>3. Leads(c, Tail(to_ca), owned'[c], place)
    BY <1>1, <1>3, <2>1, <2>2, LeadsTail
  <2> QED
    BY <1>1, <1>5, <2>3 DEF Knows
<1> QED
  BY <1>4, <1>5

LEMMA ConcatOne ==
    ASSUME NEW s \in Seq(Message), NEW m \in Message
    PROVE  ToSet(s \o <<m>>) = ToSet(s) \union {m}
<1> DEFINE t == <<m>>
<1>1. t \in Seq(Message) /\ ToSet(t) = {m}
  BY ToSetPair
<1> HIDE DEF t
<1>2. ToSet(s \o t) = ToSet(s) \union ToSet(t)
  BY <1>1, ToSetConcat
<1> QED
  BY <1>1, <1>2 DEF t

LEMMA ConcatTwo ==
    ASSUME NEW s \in Seq(Message), NEW m \in Message, NEW n \in Message
    PROVE  ToSet(s \o <<m, n>>) = ToSet(s) \union {m, n}
<1> DEFINE t == <<m, n>>
<1>1. t \in Seq(Message) /\ ToSet(t) = {m, n}
  BY ToSetPair
<1> HIDE DEF t
<1>2. ToSet(s \o t) = ToSet(s) \union ToSet(t)
  BY <1>1, ToSetConcat
<1> QED
  BY <1>1, <1>2 DEF t

\* A message is added behind the others.
LEMMA Appended ==
    ASSUME TypeOK, NEW m \in Message, to_ca' = Append(to_ca, m)
    PROVE  /\ to_ca' = to_ca \o <<m>> /\ <<m>> \in Seq(Message)
           /\ ToSet(to_ca') = ToSet(to_ca) \union {m}
<1>1. to_ca' = to_ca \o <<m>> /\ <<m>> \in Seq(Message)
  BY AppendIsConcat DEF TypeOK
<1>2. to_ca \in Seq(Message)
  BY DEF TypeOK
<1>3. ToSet(to_ca \o <<m>>) = ToSet(to_ca) \union {m}
  BY <1>2, ConcatOne
<1> QED
  BY <1>1, <1>3

\* The object gets a new owner, or is built for one.
LEMMA Given ==
    ASSUME OwnershipAssumption, TypeOK, NEW c \in Client, NEW s \in Seq(Message), NEW l \in Place,
           to_ca' = s \o <<Msg("ENTER_OWNER", None, c, Nowhere, l)>>,
           place' = l, up' = up, owned' = owned, Notified(c), c \notin crossed'
    PROVE  /\ Knows(c)'
           /\ Due(c, ToSet(to_ca'))
<1> DEFINE m == Msg("ENTER_OWNER", None, c, Nowhere, l)
           t == <<m>>
<1>1. /\ m \in Message /\ m.type = "ENTER_OWNER" /\ m.owner = c /\ m.sender = None /\ m.new = l
  BY MsgType
<1> HIDE DEF m
<1>2. t \in Seq(Message) /\ Len(t) = 1 /\ 1 \in DOMAIN t /\ t[1] = m
  BY <1>1
<1>3. Tells(c, t[1])
  BY <1>1, <1>2 DEF Tells, Hears, OwnershipAssumption
<1>4. \A j \in 1 + 1 .. Len(t) : ~Tells(c, t[j])
  BY <1>2
<1>5. t[1].new = l
  BY <1>1, <1>2
<1>6. up[c] = <<>>
  BY DEF Notified, OwnershipAssumption
<1>7. to_ca' = s \o t
  BY DEF m
<1> HIDE DEF t
<1>8. Leads(c, s \o t, owned[c], l)
  BY <1>2, <1>3, <1>4, <1>5, LeadsAnew
<1>9. ToSet(s \o t) = ToSet(s) \union ToSet(t)
  BY <1>2, ToSetConcat
<1>10. m \in ToSet(t)
  BY <1>2 DEF ToSet
<1> QED
  BY <1>1, <1>6, <1>7, <1>8, <1>9, <1>10 DEF Knows, Due

-----------------------------------------------------------------------------
(* The invariant.                                                            *)

\* What the messages of a move add.
LEMMA MoveSent ==
    ASSUME OwnershipAssumption, TypeOK, Placed(ToSet(to_ca)),
           NEW new \in Place, NEW sender \in Client \union {None}, Move(new, sender)
    PROVE  /\ place' = Nowhere => place = Nowhere
           /\ ToSet(to_ca) \subseteq ToSet(to_ca')
           /\ Placed(ToSet(to_ca'))
<1> DEFINE a == Msg("CHANGE_ZONE", sender, owner, place, new)
           b == Msg("ENTERZONE", None, None, new, new)
<1>1. a \in Message /\ b \in Message /\ a.new = new /\ b.type = "ENTERZONE"
  <2>1. place \in Place \union {Nowhere} /\ owner \in Client \union {None}
    BY DEF TypeOK
  <2>2. a \in Message /\ a.new = new
    BY <2>1, MsgType
  <2>3. b \in Message /\ b.type = "ENTERZONE"
    BY MsgType
  <2> QED
    BY <2>2, <2>3
<1>2. MoveMessages(new, sender) = <<a, b>>
  BY DEF MoveMessages
<1> HIDE DEF a, b
<1>3. MoveMessages(new, sender) \in Seq(Message) /\ ToSet(MoveMessages(new, sender)) = {a, b}
  BY <1>1, <1>2, ToSetPair
<1>4. ToSet(to_ca \o MoveMessages(new, sender)) = ToSet(to_ca) \union {a, b}
  BY <1>3, ToSetConcat DEF TypeOK
<1>5. ToSet(to_ca') = ToSet(to_ca) \/ ToSet(to_ca') = ToSet(to_ca) \union {a, b}
  BY <1>4 DEF Move
<1>6. place' = Nowhere => place = Nowhere
  BY DEF Move, OwnershipAssumption
<1> QED
  BY <1>1, <1>5, <1>6 DEF Placed

LEMMA ServedDeliver == ASSUME OwnershipAssumption, TypeOK, OwnerServed, Deliver PROVE OwnerServed'
<1> DEFINE m == Head(to_ca)
<1>1. owner' = owner /\ place' = place /\ to_ca # <<>> /\ to_ca' = Tail(to_ca)
  BY DEF Deliver
<1>2. m \in Message /\ ToSet(to_ca) = {m} \union ToSet(to_ca')
  BY <1>1, TailOf DEF TypeOK
<1>3. m.type \in {"CHANGE_ZONE", "ENTER_OWNER"} => m.new \in Place
  BY <1>2 DEF OwnerServed, Placed
<1>4. Placed(ToSet(to_ca'))
  BY <1>2 DEF OwnerServed, Placed
<1>5. ASSUME NEW c \in Client, c = owner, owned'[c] = Nowhere PROVE Due(c, ToSet(to_ca'))
  <2>1. owned[c] = Nowhere
    BY <1>3, <1>5 DEF Deliver, ObjectEntrance, OwnedEntrance, LocationChange, Deleted,
                      OwnershipAssumption
  <2>2. PICK n \in ToSet(to_ca) : n.type = "ENTER_OWNER" /\ n.owner = c /\ n.sender = None
    BY <1>5, <2>1 DEF OwnerServed, Due
  <2>3. ASSUME n = m PROVE FALSE
    <3>1. Hears(c, m) /\ m.type = "ENTER_OWNER"
      BY <2>2, <2>3 DEF Hears, OwnershipAssumption
    <3>2. owned'[c] = m.new
      BY <3>1 DEF Deliver, OwnedEntrance
    <3> QED
      BY <1>3, <1>5, <3>1, <3>2 DEF OwnershipAssumption
  <2> QED
    BY <1>2, <2>2, <2>3 DEF Due
<1> QED
  BY <1>1, <1>4, <1>5 DEF OwnerServed

LEMMA ServedProcess ==
    ASSUME OwnershipAssumption, TypeOK, OwnerServed, NEW c \in Client, ProcessMove(c)
    PROVE  OwnerServed'
<1>1. Head(up[c]) \in Place
  BY TailOf DEF ProcessMove, TypeOK
<1>2. /\ place' = Nowhere => place = Nowhere
      /\ ToSet(to_ca) \subseteq ToSet(to_ca')
      /\ Placed(ToSet(to_ca'))
  BY <1>1, MoveSent DEF ProcessMove, OwnerServed
<1>3. UNCHANGED <<owner, owned>>
  BY DEF ProcessMove
<1> QED
  BY <1>2, <1>3 DEF OwnerServed, Due

\* The effect of Generate for an owner: it ends in the owner's entrance.
LEMMA GenerateSent ==
    ASSUME OwnershipAssumption, TypeOK, OwnerServed, NEW new \in Place,
           NEW c \in Client \union {None}, Generate(new, c)
    PROVE  /\ Placed(ToSet(to_ca'))
           /\ c # None => \E s \in Seq(Message) :
                             to_ca' = s \o <<Msg("ENTER_OWNER", None, c, Nowhere, new)>>
<1> DEFINE a == Msg("CHANGE_ZONE", None, c, Nowhere, new)
           b == Msg("ENTERZONE", None, None, new, new)
           e == Msg("ENTER_OWNER", None, c, Nowhere, new)
           s == to_ca \o <<a, b>>
<1>1. /\ a \in Message /\ b \in Message /\ e \in Message
      /\ a.new = new /\ b.type = "ENTERZONE" /\ e.new = new
  BY MsgType
<1>2. to_ca' = s \o IF c = None THEN <<>> ELSE <<e>>
  BY DEF Generate
<1> HIDE DEF a, b, e
<1>3. <<a, b>> \in Seq(Message) /\ <<e>> \in Seq(Message) /\ <<>> \in Seq(Message)
  BY <1>1
<1>4. s \in Seq(Message) /\ ToSet(s) = ToSet(to_ca) \union {a, b}
  <2>1. to_ca \in Seq(Message)
    BY DEF TypeOK
  <2>2. ToSet(s) = ToSet(to_ca) \union {a, b}
    BY <1>1, <2>1, ConcatTwo
  <2>3. s \in Seq(Message)
    BY <1>3, <2>1, ConcatProperties
  <2> QED
    BY <2>2, <2>3
<1> HIDE DEF s
<1>5. s \o <<>> = s
  BY <1>4, ConcatEmptySeq
<1>6. ToSet(s \o <<e>>) = ToSet(s) \union {e}
  BY <1>1, <1>4, ConcatOne
<1>7. ToSet(to_ca') \subseteq ToSet(to_ca) \union {a, b, e}
  BY <1>2, <1>4, <1>5, <1>6
<1>8. Placed(ToSet(to_ca'))
  BY <1>1, <1>7 DEF OwnerServed, Placed
<1>9. c # None => to_ca' = s \o <<e>>
  BY <1>2
<1> QED
  BY <1>4, <1>8, <1>9 DEF e

LEMMA Initially == ASSUME OwnershipAssumption, Init PROVE OwnerServed /\ OwnerKnowsPlace
<1>1. ToSet(to_ca) = {}
  BY DEF Init, ToSet
<1>2. \A c \in Client : c # owner
  BY DEF Init, OwnershipAssumption
<1> QED
  BY <1>1, <1>2 DEF Init, OwnerServed, Placed, OwnerKnowsPlace

LEMMA Served ==
    ASSUME TypeOK, OwnerServed, OwnerKnowsPlace, [Next]_vars
    PROVE  OwnerServed' /\ OwnerKnowsPlace'
<1> USE OwnershipAssumption
<1>1. \A c \in Client : c = owner => Knows(c) \/ c \in crossed
  BY DEF OwnerKnowsPlace, Knows
<1>2. ASSUME \A c \in Client : c = owner' /\ c \notin crossed' => Knows(c)'
      PROVE  OwnerKnowsPlace'
  BY <1>2 DEF OwnerKnowsPlace, Knows
<1>3. CASE Deliver
  <2>1. owner' = owner /\ crossed' = crossed
    BY <1>3 DEF Deliver
  <2> QED
    BY <1>1, <1>2, <1>3, <2>1, Delivered, ServedDeliver
<1>4. CASE Annihilate
  <2>1. owner' = None /\ UNCHANGED owned
    BY <1>4 DEF Annihilate
  <2>2. Msg("DELETE_RAM", None, owner, place, Nowhere) \in Message
    BY MsgType DEF TypeOK
  <2>3. ToSet(to_ca') = ToSet(to_ca) \union {Msg("DELETE_RAM", None, owner, place, Nowhere)}
    BY <1>4, <2>2, Appended DEF Annihilate
  <2>4. Placed(ToSet(to_ca'))
    BY <2>3 DEF OwnerServed, Placed, Msg
  <2> QED
    BY <1>2, <2>1, <2>4 DEF OwnerServed, OwnershipAssumption
<1>5. ASSUME NEW c \in Client, SetOwner(c) PROVE OwnerServed' /\ OwnerKnowsPlace'
  <2> DEFINE e == Msg("ENTER_OWNER", None, c, Nowhere, place)
  <2>1. /\ place \in Place /\ place' = place /\ owner' = c /\ up' = up /\ owned' = owned
        /\ Notified(c) /\ to_ca' = Append(to_ca, e)
    BY <1>5 DEF SetOwner, TypeOK
  <2>2. e \in Message /\ e.new = place
    BY <2>1, MsgType
  <2> HIDE DEF e
  <2>3. to_ca' = to_ca \o <<e>> /\ ToSet(to_ca') = ToSet(to_ca) \union {e}
    BY <2>1, <2>2, Appended
  <2>4. Placed(ToSet(to_ca'))
    BY <2>1, <2>2, <2>3 DEF OwnerServed, Placed
  <2>5. c \notin crossed' => Knows(c)'
    BY <2>1, <2>3, Given DEF TypeOK, e
  <2>6. Due(c, ToSet(to_ca'))
    <3>1. e.type = "ENTER_OWNER" /\ e.owner = c /\ e.sender = None
      BY <2>1, MsgType DEF e
    <3> QED
      BY <2>3, <3>1 DEF Due
  <2> QED
    BY <1>2, <2>1, <2>4, <2>5, <2>6 DEF OwnerServed, OwnershipAssumption
<1>6. ASSUME NEW c \in Client, ProcessMove(c) PROVE OwnerServed' /\ OwnerKnowsPlace'
  <2>1. /\ owner' = owner /\ owned' = owned /\ up[c] # <<>>
        /\ up' = [up EXCEPT ![c] = Tail(@)] /\ up'[c] = Tail(up[c])
    BY <1>6 DEF ProcessMove, TypeOK
  <2>2. Head(up[c]) \in Place
    BY <2>1, TailOf DEF TypeOK
  <2>3. ASSUME NEW d \in Client, d = owner, d \notin crossed' PROVE Knows(d)'
    <3>1. place # Nowhere /\ Move(Head(up[c]), c)
      BY <1>6, <2>3 DEF ProcessMove, OwnerServed, OwnershipAssumption
    <3>2. CASE d = c
      BY <1>1, <2>1, <2>3, <3>1, <3>2, MovedByOwner
    <3>3. CASE d # c
      <4>1. up'[d] = up[d]
        BY <2>1, <3>3 DEF TypeOK
      <4> QED
        BY <1>1, <2>1, <2>2, <2>3, <3>1, <3>3, <4>1, MovedByOthers
    <3> QED
      BY <3>2, <3>3
  <2> QED
    BY <1>2, <1>6, <2>1, <2>3, ServedProcess
<1>7. ASSUME NEW new \in Place, SetZone(new) PROVE OwnerServed' /\ OwnerKnowsPlace'
  <2>1. owner' = owner /\ owned' = owned /\ up' = up /\ Move(new, None)
    BY <1>7 DEF SetZone
  <2>2. ASSUME NEW d \in Client, d = owner, d \notin crossed' PROVE Knows(d)'
    <3>1. None # d
      BY DEF OwnershipAssumption
    <3> QED
      BY <1>1, <2>1, <2>2, <3>1, MovedByOthers
  <2>3. OwnerServed'
    <3>1. /\ place' = Nowhere => place = Nowhere
          /\ ToSet(to_ca) \subseteq ToSet(to_ca')
          /\ Placed(ToSet(to_ca'))
      BY <2>1, MoveSent DEF OwnerServed
    <3> QED
      BY <2>1, <3>1 DEF OwnerServed, Due
  <2> QED
    BY <1>2, <2>1, <2>2, <2>3
<1>8. ASSUME NEW new \in Place, NEW c \in Client \union {None}, Generate(new, c)
      PROVE  OwnerServed' /\ OwnerKnowsPlace'
  <2>1. place' = new /\ owner' = c /\ up' = up /\ owned' = owned /\ Notified(c)
    BY <1>8 DEF Generate
  <2>2. Placed(ToSet(to_ca'))
    BY <1>8, GenerateSent
  <2>3. CASE c = None
    BY <1>2, <2>1, <2>2, <2>3 DEF OwnerServed, OwnershipAssumption
  <2>4. CASE c # None
    <3>1. PICK s \in Seq(Message) : to_ca' = s \o <<Msg("ENTER_OWNER", None, c, Nowhere, new)>>
      BY <1>8, <2>4, GenerateSent
    <3>2. c \in Client
      BY <2>4
    <3>3. c \notin crossed' => Knows(c)'
      BY <2>1, <3>1, <3>2, Given
    <3>4. Due(c, ToSet(to_ca'))
      <4> DEFINE e == Msg("ENTER_OWNER", None, c, Nowhere, new)
      <4>1. e \in Message /\ e.type = "ENTER_OWNER" /\ e.owner = c /\ e.sender = None
        BY MsgType
      <4>2. to_ca' = s \o <<e>>
        BY <3>1
      <4> HIDE DEF e
      <4>3. ToSet(to_ca') = ToSet(s) \union {e}
        BY <3>1, <4>1, <4>2, ConcatOne
      <4> QED
        BY <4>1, <4>3 DEF Due
    <3> QED
      BY <1>2, <2>1, <2>2, <3>2, <3>3, <3>4 DEF OwnerServed, OwnershipAssumption
  <2> QED
    BY <2>3, <2>4
<1>9. ASSUME NEW new \in Place, NEW c \in Client, ClientLocation(c, new)
      PROVE  OwnerServed' /\ OwnerKnowsPlace'
  <2>1. /\ UNCHANGED <<place, owner, to_ca>>
        /\ owned' = [owned EXCEPT ![c] = new] /\ up' = [up EXCEPT ![c] = Append(@, new)]
        /\ \A d \in Client : d # c => owned'[d] = owned[d] /\ up'[d] = up[d]
                                      /\ (d \in crossed <=> d \in crossed')
    BY <1>9 DEF ClientLocation, TypeOK
  <2>2. ASSUME NEW d \in Client, d = owner, d \notin crossed' PROVE Knows(d)'
    <3>1. CASE d = c
      BY <1>9, <2>2, <3>1, MoveAsked
    <3>2. CASE d # c
      BY <1>1, <2>1, <2>2, <3>2 DEF Knows
    <3> QED
      BY <3>1, <3>2
  <2>3. \A d \in Client : owned'[d] = Nowhere => owned[d] = Nowhere
    BY <1>9, <2>1 DEF ClientLocation
  <2> QED
    BY <1>2, <2>1, <2>2, <2>3 DEF OwnerServed
<1>10. CASE UNCHANGED vars
  BY <1>10 DEF vars, OwnerServed, OwnerKnowsPlace
<1> QED
  BY <1>3, <1>4, <1>5, <1>6, <1>7, <1>8, <1>9, <1>10 DEF Next

\* The owner's record, its moves and the notices on their way always lead to
\* where the object is, for any number of clients, moves and changes of owner,
\* unless a move crossed a notice (receive_client_location, handle_set_owner,
\* handle_location_change).
THEOREM OwnersKnow == Spec => []OwnerKnowsPlace
<1>1. Init => OwnerServed /\ OwnerKnowsPlace
  BY Initially, OwnershipAssumption
<1>2. TypeOK /\ OwnerServed /\ OwnerKnowsPlace /\ [Next]_vars => OwnerServed' /\ OwnerKnowsPlace'
  BY Served
<1> QED
  BY <1>1, <1>2, TypeCorrect, PTL DEF Spec

-----------------------------------------------------------------------------
(* The clients that look on.                                                 *)

\* Where the object was when message m was sent, before what it tells.
From(m) == IF m.type \in {"CHANGE_ZONE", "DELETE_RAM"} THEN m.at ELSE m.new

\* Messages s take the object, one by one, to location l; the entry of its new
\* location comes right after a move.
Chain(s, l) ==
    /\ \A i \in 1 .. Len(s) - 1 : From(s[i + 1]) = s[i].new
    /\ s # <<>> => s[Len(s)].new = l
    /\ \A i \in 1 .. Len(s) : s[i].type = "CHANGE_ZONE" => i < Len(s) /\ s[i + 1].type = "ENTERZONE"
    /\ \A i \in 1 .. Len(s) :
          /\ s[i].type = "ENTER_OWNER" => s[i].sender = None
          /\ s[i].type = "ENTERZONE"   => s[i].at = s[i].new
          /\ s[i].type = "DELETE_RAM"  => s[i].new = Nowhere

Chained == Chain(to_ca, place)

\* Only clients that have or had the object, or are about to get it, send moves
\* and are addressed as its owner.
Marked ==
    \A c \in Client :
        /\ up[c] # <<>> => owned[c] # Nowhere
        /\ \A m \in ToSet(to_ca) : m.sender = c => owned[c] # Nowhere
        /\ \A m \in ToSet(to_ca) : m.owner = c => owned[c] # Nowhere \/ Due(c, ToSet(to_ca))

Bystander(c) == owned[c] = Nowhere /\ ~Due(c, ToSet(to_ca))
Seen(c, l)   == IF l \in View[c] THEN l ELSE Nowhere

\* A client that looks on sees the object where it was before the first message
\* on its way; or not yet, if that is the entry.
Sight ==
    \A c \in Client \ missed : Bystander(c) =>
        IF to_ca = <<>> THEN visible[c] = Seen(c, place)
        ELSE \/ visible[c] = Seen(c, From(Head(to_ca)))
             \/ Head(to_ca).type = "ENTERZONE" /\ visible[c] = Nowhere

LEMMA ChainConcat ==
    ASSUME NEW s \in Seq(Message), NEW t \in Seq(Message), NEW l, NEW k,
           t # <<>>, Chain(s, l), Chain(t, k), From(t[1]) = l
    PROVE  Chain(s \o t, k)
<1> DEFINE u == s \o t
<1>1. /\ Len(s) \in Nat /\ Len(t) \in Nat /\ Len(t) # 0
      /\ Len(u) = Len(s) + Len(t) /\ u # <<>>
      /\ \A i \in 1 .. Len(s) + Len(t) : u[i] = IF i <= Len(s) THEN s[i] ELSE t[i - Len(s)]
  BY Concat, EmptySeq
<1> HIDE DEF u
<1>2. \A i \in 1 .. Len(s) : u[i] = s[i]
  BY <1>1
<1>3. \A i \in Len(s) + 1 .. Len(u) : i - Len(s) \in 1 .. Len(t) /\ u[i] = t[i - Len(s)]
  BY <1>1
<1>4. \A i \in 1 .. Len(u) : i \in 1 .. Len(s) \/ i \in Len(s) + 1 .. Len(u)
  BY <1>1
<1>5. ASSUME NEW i \in 1 .. Len(u) - 1 PROVE From(u[i + 1]) = u[i].new
  <2>1. CASE i < Len(s)
    <3>1. i \in 1 .. Len(s) - 1 /\ u[i] = s[i] /\ u[i + 1] = s[i + 1]
      BY <1>1, <1>2, <2>1
    <3> QED
      BY <3>1 DEF Chain
  <2>2. CASE i = Len(s)
    <3>1. s # <<>> /\ u[i] = s[Len(s)] /\ u[i + 1] = t[1]
      BY <1>1, <1>2, <2>2, EmptySeq
    <3> QED
      BY <3>1 DEF Chain
  <2>3. CASE i > Len(s)
    <3>1. i - Len(s) \in 1 .. Len(t) - 1 /\ u[i] = t[i - Len(s)] /\ u[i + 1] = t[(i - Len(s)) + 1]
      BY <1>1, <2>3
    <3> QED
      BY <3>1 DEF Chain
  <2> QED
    BY <1>1, <2>1, <2>2, <2>3
<1>6. u[Len(u)].new = k
  <2>1. t # <<>> /\ u[Len(u)] = t[Len(t)]
    BY <1>1
  <2> QED
    BY <2>1 DEF Chain
<1>7. ASSUME NEW i \in 1 .. Len(u), u[i].type = "CHANGE_ZONE"
      PROVE  i < Len(u) /\ u[i + 1].type = "ENTERZONE"
  <2>1. CASE i \in 1 .. Len(s)
    <3>1. u[i] = s[i] /\ i < Len(s) /\ s[i + 1].type = "ENTERZONE"
      BY <1>2, <1>7, <2>1 DEF Chain
    <3> QED
      BY <1>1, <1>2, <2>1, <3>1
  <2>2. CASE i \in Len(s) + 1 .. Len(u)
    <3>1. /\ i - Len(s) \in 1 .. Len(t) /\ u[i] = t[i - Len(s)]
          /\ i - Len(s) < Len(t) /\ t[(i - Len(s)) + 1].type = "ENTERZONE"
      BY <1>3, <1>7, <2>2 DEF Chain
    <3>2. u[i + 1] = t[(i - Len(s)) + 1] /\ i < Len(u)
      BY <1>1, <2>2, <3>1
    <3> QED
      BY <3>1, <3>2
  <2> QED
    BY <1>4, <2>1, <2>2
<1>8. ASSUME NEW i \in 1 .. Len(u)
      PROVE  /\ u[i].type = "ENTER_OWNER" => u[i].sender = None
             /\ u[i].type = "ENTERZONE"   => u[i].at = u[i].new
             /\ u[i].type = "DELETE_RAM"  => u[i].new = Nowhere
  <2>1. CASE i \in 1 .. Len(s)
    <3>1. u[i] = s[i]
      BY <1>2, <2>1
    <3> QED
      BY <2>1, <3>1 DEF Chain
  <2>2. CASE i \in Len(s) + 1 .. Len(u)
    <3>1. i - Len(s) \in 1 .. Len(t) /\ u[i] = t[i - Len(s)]
      BY <1>3, <2>2
    <3> HIDE DEF u
    <3> QED
      BY <3>1 DEF Chain
  <2> QED
    BY <1>4, <2>1, <2>2
<1> QED
  BY <1>5, <1>6, <1>7, <1>8 DEF Chain, u

LEMMA ChainTail ==
    ASSUME NEW s \in Seq(Message), NEW l, s # <<>>, Chain(s, l)
    PROVE  /\ Chain(Tail(s), l)
           /\ IF Tail(s) = <<>> THEN Head(s).new = l /\ Head(s).type # "CHANGE_ZONE"
              ELSE /\ From(Head(Tail(s))) = Head(s).new
                   /\ Head(s).type = "CHANGE_ZONE" => Head(Tail(s)).type = "ENTERZONE"
           /\ Head(s).type = "ENTER_OWNER" => Head(s).sender = None
           /\ Head(s).type = "ENTERZONE"   => Head(s).at = Head(s).new
           /\ Head(s).type = "DELETE_RAM"  => Head(s).new = Nowhere
<1> DEFINE t == Tail(s)
<1>1. /\ Head(s) = s[1] /\ Len(s) \in Nat \ {0} /\ Len(t) = Len(s) - 1 /\ t \in Seq(Message)
      /\ \A i \in 1 .. Len(s) - 1 : t[i] = s[i + 1]
  BY TailOf
<1> HIDE DEF t
<1>2. (t = <<>> <=> Len(s) = 1) /\ (t # <<>> => Head(t) = s[2] /\ 1 \in 1 .. Len(s) - 1)
  <2>1. t = <<>> <=> Len(t) = 0
    BY <1>1, EmptySeq
  <2>2. t # <<>> => Head(t) = t[1] /\ 1 \in 1 .. Len(s) - 1
    BY <1>1, <2>1
  <2>3. t # <<>> => t[1] = s[1 + 1]
    BY <1>1, <2>2
  <2> QED
    BY <1>1, <2>1, <2>2, <2>3
<1>3. 1 \in 1 .. Len(s)
  BY <1>1
<1>4. IF t = <<>> THEN Head(s).new = l /\ Head(s).type # "CHANGE_ZONE"
      ELSE /\ From(Head(t)) = Head(s).new
           /\ Head(s).type = "CHANGE_ZONE" => Head(t).type = "ENTERZONE"
  BY <1>1, <1>2, <1>3 DEF Chain
<1>5. Chain(t, l)
  <2>1. \A i \in 1 .. Len(t) - 1 : From(t[i + 1]) = t[i].new
    <3> SUFFICES ASSUME NEW i \in 1 .. Len(t) - 1 PROVE From(t[i + 1]) = t[i].new
      OBVIOUS
    <3>1. i + 1 \in 1 .. Len(s) - 1 /\ t[i] = s[i + 1] /\ t[i + 1] = s[(i + 1) + 1]
      BY <1>1
    <3> QED
      BY <3>1 DEF Chain
  <2>2. t # <<>> => t[Len(t)].new = l
    <3>1. t # <<>> => t[Len(t)] = s[Len(s)]
      BY <1>1, <1>2
    <3> QED
      BY <3>1 DEF Chain
  <2>3. ASSUME NEW i \in 1 .. Len(t)
        PROVE  /\ i + 1 \in 1 .. Len(s) /\ t[i] = s[i + 1]
               /\ i + 1 < Len(s) => i < Len(t) /\ t[i + 1] = s[(i + 1) + 1]
    BY <1>1
  <2>4. ASSUME NEW i \in 1 .. Len(t), t[i].type = "CHANGE_ZONE"
        PROVE  i < Len(t) /\ t[i + 1].type = "ENTERZONE"
    <3>1. i + 1 < Len(s) /\ s[(i + 1) + 1].type = "ENTERZONE"
      BY <2>3, <2>4 DEF Chain
    <3> QED
      BY <2>3, <3>1
  <2>5. ASSUME NEW i \in 1 .. Len(t)
        PROVE  /\ t[i].type = "ENTER_OWNER" => t[i].sender = None
               /\ t[i].type = "ENTERZONE"   => t[i].at = t[i].new
               /\ t[i].type = "DELETE_RAM"  => t[i].new = Nowhere
    BY <2>3 DEF Chain
  <2> QED
    BY <2>1, <2>2, <2>4, <2>5 DEF Chain
<1> QED
  BY <1>1, <1>3, <1>4, <1>5 DEF Chain, t

\* The state server adds messages that go on from where the object is.
LEMMA SightGrows ==
    ASSUME TypeOK, Chained, Marked, Sight, UNCHANGED <<owned, visible, missed>>,
           NEW t \in Seq(Message), t # <<>>, Chain(t, place'), From(t[1]) = place,
           to_ca' = to_ca \o t,
           \A c \in Client : up'[c] # <<>> => up[c] # <<>>,
           \A c \in Client, m \in ToSet(t) :
              /\ m.sender = c => owned[c] # Nowhere
              /\ m.owner = c => owned[c] # Nowhere \/ Due(c, ToSet(to_ca) \union ToSet(t))
    PROVE  Chained' /\ Marked' /\ Sight'
<1>1. to_ca \in Seq(Message)
  BY DEF TypeOK
<1>2. Chained'
  BY <1>1, ChainConcat DEF Chained
<1>3. ToSet(to_ca') = ToSet(to_ca) \union ToSet(t)
  BY <1>1, ToSetConcat
<1>4. Marked'
  BY <1>3 DEF Marked, Due
<1>5. /\ to_ca' # <<>>
      /\ to_ca = <<>> => Head(to_ca') = t[1]
      /\ to_ca # <<>> => Head(to_ca') = Head(to_ca)
  <2>1. /\ Len(to_ca') = Len(to_ca) + Len(t) /\ Len(t) \in Nat \ {0} /\ Len(to_ca) \in Nat
        /\ to_ca' \in Seq(Message)
        /\ \A i \in 1 .. Len(to_ca) + Len(t) : to_ca'[i] = IF i <= Len(to_ca) THEN to_ca[i] ELSE t[i - Len(to_ca)]
    BY <1>1, Concat, EmptySeq
  <2>2. to_ca' # <<>> /\ Head(to_ca') = to_ca'[1]
    BY <2>1
  <2>3. to_ca # <<>> => Head(to_ca) = to_ca[1] /\ Len(to_ca) # 0
    BY <1>1
  <2>4. to_ca = <<>> => Len(to_ca) = 0
    OBVIOUS
  <2> QED
    BY <2>1, <2>2, <2>3, <2>4
<1>6. ASSUME NEW c \in Client \ missed', Bystander(c)'
      PROVE  \/ visible'[c] = Seen(c, From(Head(to_ca')))
             \/ Head(to_ca').type = "ENTERZONE" /\ visible'[c] = Nowhere
  <2>1. Bystander(c) /\ c \in Client \ missed
    BY <1>3, <1>6 DEF Bystander, Due
  <2> QED
    BY <1>5, <2>1 DEF Sight
<1> QED
  BY <1>2, <1>4, <1>5, <1>6 DEF Sight

\* A message by itself, and a move with the entry after it.
LEMMA ChainOne ==
    ASSUME NEW m \in Message, m.type # "CHANGE_ZONE",
           m.type = "ENTER_OWNER" => m.sender = None,
           m.type = "ENTERZONE" => m.at = m.new,
           m.type = "DELETE_RAM" => m.new = Nowhere
    PROVE  LET t == <<m>>
           IN  /\ t \in Seq(Message) /\ t # <<>> /\ t[1] = m /\ ToSet(t) = {m}
               /\ Chain(t, m.new)
  BY ToSetPair DEF Chain

LEMMA ChainTwo ==
    ASSUME NEW a \in Message, NEW b \in Message,
           a.type = "CHANGE_ZONE", b.type = "ENTERZONE", b.new = a.new, b.at = a.new
    PROVE  LET t == <<a, b>>
           IN  /\ t \in Seq(Message) /\ t # <<>> /\ t[1] = a /\ ToSet(t) = {a, b}
               /\ Chain(t, a.new)
<1> DEFINE t == <<a, b>>
<1>1. /\ t \in Seq(Message) /\ t # <<>> /\ Len(t) = 2 /\ t[1] = a /\ t[2] = b /\ ToSet(t) = {a, b}
  BY ToSetPair
<1> HIDE DEF t
<1>2. 1 .. Len(t) - 1 = {1} /\ 1 .. Len(t) = {1, 2}
  BY <1>1
<1>3. From(t[2]) = a.new
  BY <1>1 DEF From
<1>4. Chain(t, a.new)
  BY <1>1, <1>2, <1>3 DEF Chain
<1> QED
  BY <1>1, <1>4 DEF t

\* A move, by an owner or by someone else: the notice tells every client what it must know.
LEMMA SightMove ==
    ASSUME OwnershipAssumption, TypeOK, OwnerServed, Chained, Marked, Sight,
           UNCHANGED <<owned, visible, missed>>,
           NEW new \in Place, NEW sender \in Client \union {None},
           sender \in Client => owned[sender] # Nowhere,
           \A c \in Client : up'[c] # <<>> => up[c] # <<>>,
           Move(new, sender)
    PROVE  Chained' /\ Marked' /\ Sight'
<1>1. CASE new = place
  BY <1>1 DEF Move, Chained, Marked, Sight, Bystander
<1>2. CASE new # place
  <2> DEFINE a == Msg("CHANGE_ZONE", sender, owner, place, new)
             b == Msg("ENTERZONE", None, None, new, new)
  <2>1. a \in Message /\ b \in Message
    BY MsgType DEF TypeOK
  <2>2. /\ a.type = "CHANGE_ZONE" /\ b.type = "ENTERZONE" /\ a.new = new /\ b.new = new /\ b.at = new
        /\ a.at = place /\ a.sender = sender /\ a.owner = owner /\ b.sender = None /\ b.owner = None
    BY DEF Msg
  <2>3. place' = new /\ to_ca' = to_ca \o <<a, b>>
    BY <1>2 DEF Move, MoveMessages
  <2> HIDE DEF a, b
  <2>4. PICK t : t = <<a, b>>
    OBVIOUS
  <2>5. t \in Seq(Message) /\ t # <<>> /\ t[1] = a /\ ToSet(t) = {a, b} /\ Chain(t, place')
    BY <2>1, <2>2, <2>3, <2>4, ChainTwo
  <2>6. From(t[1]) = place
    BY <2>2, <2>5 DEF From
  <2>7. ASSUME NEW c \in Client, NEW m \in ToSet(t)
        PROVE  /\ m.sender = c => owned[c] # Nowhere
               /\ m.owner = c => owned[c] # Nowhere \/ Due(c, ToSet(to_ca) \union ToSet(t))
    BY <2>2, <2>5 DEF OwnerServed, OwnershipAssumption, Due
  <2> QED
    BY <2>3, <2>4, <2>5, <2>6, <2>7, SightGrows
<1> QED
  BY <1>1, <1>2

\* A message that stands alone: an entrance, an entry or a deletion.
LEMMA SightOne ==
    ASSUME OwnershipAssumption, TypeOK, OwnerServed, Chained, Marked, Sight,
           UNCHANGED <<up, owned, visible, missed>>,
           NEW m \in Message, to_ca' = Append(to_ca, m), m.type # "CHANGE_ZONE",
           m.type = "ENTER_OWNER" => m.sender = None,
           m.type = "ENTERZONE" => m.at = m.new,
           m.type = "DELETE_RAM" => m.new = Nowhere,
           m.new = place', From(m) = place, m.sender = None,
           m.owner = owner \/ m.type = "ENTER_OWNER"
    PROVE  Chained' /\ Marked' /\ Sight'
<1>1. PICK t : t = <<m>>
  OBVIOUS
<1>2. t \in Seq(Message) /\ t # <<>> /\ t[1] = m /\ ToSet(t) = {m} /\ Chain(t, place')
  BY <1>1, ChainOne
<1>3. to_ca' = to_ca \o t
  BY <1>1, Appended
<1>4. ASSUME NEW c \in Client, NEW n \in ToSet(t)
      PROVE  /\ n.sender = c => owned[c] # Nowhere
             /\ n.owner = c => owned[c] # Nowhere \/ Due(c, ToSet(to_ca) \union ToSet(t))
  BY <1>2 DEF OwnerServed, OwnershipAssumption, Due
<1> QED
  BY <1>2, <1>3, <1>4, SightGrows

\* An object that is built: its notice, its entry and, where it has an owner, its entrance.
LEMMA SightGenerate ==
    ASSUME OwnershipAssumption, TypeOK, OwnerServed, Chained, Marked, Sight,
           NEW new \in Place, NEW c \in Client \union {None}, Generate(new, c)
    PROVE  Chained' /\ Marked' /\ Sight'
<1> DEFINE a == Msg("CHANGE_ZONE", None, c, Nowhere, new)
           b == Msg("ENTERZONE", None, None, new, new)
           e == Msg("ENTER_OWNER", None, c, Nowhere, new)
<1>1. a \in Message /\ b \in Message /\ e \in Message
  BY MsgType
<1>2. /\ a.type = "CHANGE_ZONE" /\ b.type = "ENTERZONE" /\ e.type = "ENTER_OWNER"
      /\ a.new = new /\ b.new = new /\ b.at = new /\ e.new = new /\ a.at = Nowhere
      /\ a.sender = None /\ a.owner = c /\ b.sender = None /\ b.owner = None
      /\ e.sender = None /\ e.owner = c
  BY DEF Msg
<1>3. /\ place = Nowhere /\ place' = new /\ UNCHANGED <<up, owned, visible, missed>>
      /\ to_ca' = (to_ca \o <<a, b>>) \o IF c = None THEN <<>> ELSE <<e>>
  BY DEF Generate
<1>4. PICK s : s = <<a, b>>
  OBVIOUS
<1>5. PICK r : r = IF c = None THEN <<>> ELSE <<e>>
  OBVIOUS
<1> HIDE DEF a, b, e
<1>6. s \in Seq(Message) /\ s # <<>> /\ s[1] = a /\ ToSet(s) = {a, b} /\ Chain(s, new)
  BY <1>1, <1>2, <1>4, ChainTwo
<1>7. r \in Seq(Message) /\ ToSet(r) = IF c = None THEN {} ELSE {e}
  BY <1>1, <1>5, ToSetPair DEF ToSet
<1> DEFINE t == s \o r
<1>8. t \in Seq(Message) /\ ToSet(t) = {a, b} \union ToSet(r)
  BY <1>6, <1>7, ToSetConcat, Concat
<1>9. t # <<>> /\ t[1] = a /\ Chain(t, new)
  <2>1. CASE c = None
    <3>1. r = <<>>
      BY <1>5, <2>1
    <3>2. t = s
      BY <1>6, <3>1, ConcatEmptySeq
    <3> QED
      BY <1>6, <3>2
  <2>2. CASE c # None
    <3>1. r = <<e>>
      BY <1>5, <2>2
    <3>2. r # <<>> /\ r[1] = e /\ Chain(r, new) /\ From(r[1]) = new
      BY <1>1, <1>2, <3>1, ChainOne DEF From
    <3>3. Chain(t, new)
      BY <1>6, <1>7, <3>2, ChainConcat
    <3>4. Len(s) \in Nat \ {0} /\ Len(t) = Len(s) + Len(r) /\ Len(r) \in Nat
          /\ \A i \in 1 .. Len(s) + Len(r) : t[i] = IF i <= Len(s) THEN s[i] ELSE r[i - Len(s)]
      BY <1>6, <1>7, Concat, EmptySeq
    <3> HIDE DEF t
    <3>5. t[1] = s[1] /\ t # <<>>
      BY <3>4
    <3> QED
      BY <1>6, <3>3, <3>5
  <2> QED
    BY <2>1, <2>2
<1>10. to_ca' = to_ca \o t
  BY <1>3, <1>4, <1>5, <1>6, <1>7, ConcatAssociative DEF TypeOK
<1> HIDE DEF t
<1>11. From(t[1]) = place
  BY <1>2, <1>3, <1>9 DEF From
<1>12. ASSUME NEW d \in Client, NEW m \in ToSet(t)
       PROVE  /\ m.sender = d => owned[d] # Nowhere
              /\ m.owner = d => owned[d] # Nowhere \/ Due(d, ToSet(to_ca) \union ToSet(t))
  BY <1>2, <1>7, <1>8 DEF OwnershipAssumption, Due
<1> QED
  BY <1>3, <1>8, <1>9, <1>10, <1>11, <1>12, SightGrows

\* The agent hands on the first message.
LEMMA SightDeliver ==
    ASSUME OwnershipAssumption, TypeOK, OwnerServed, Chained, Marked, Sight, Deliver
    PROVE  Chained' /\ Marked' /\ Sight'
<1> DEFINE m == Head(to_ca)
           hearing == {c \in Client : Hears(c, m)}
<1>1. /\ to_ca # <<>> /\ to_ca' = Tail(to_ca) /\ to_ca \in Seq(Message)
      /\ UNCHANGED <<place, owner, up>>
  BY DEF Deliver, TypeOK
<1>2. m \in Message /\ ToSet(to_ca) = {m} \union ToSet(to_ca')
  BY <1>1, TailOf
<1>3. /\ Chained'
      /\ IF to_ca' = <<>> THEN m.new = place /\ m.type # "CHANGE_ZONE"
         ELSE /\ From(Head(to_ca')) = m.new
              /\ m.type = "CHANGE_ZONE" => Head(to_ca').type = "ENTERZONE"
      /\ m.type = "ENTER_OWNER" => m.sender = None
      /\ m.type = "ENTERZONE"   => m.at = m.new
      /\ m.type = "DELETE_RAM"  => m.new = Nowhere
  BY <1>1, ChainTail DEF Chained
<1>4. m.type \in {"CHANGE_ZONE", "ENTER_OWNER"} => m.new \in Place
  BY <1>2 DEF OwnerServed, Placed
<1>5. \/ m.type = "ENTERZONE" /\ ObjectEntrance(m, hearing)
      \/ m.type = "ENTER_OWNER" /\ OwnedEntrance(m, hearing)
      \/ m.type = "CHANGE_ZONE" /\ LocationChange(m, hearing)
      \/ m.type = "DELETE_RAM" /\ Deleted(hearing)
  BY DEF Deliver
<1> HIDE DEF m
\* A client does not lose its record, and whom the object is given to gets one.
<1>6. ASSUME NEW c \in Client, owned'[c] = Nowhere
      PROVE  /\ owned[c] = Nowhere
             /\ Due(c, ToSet(to_ca)) => Due(c, ToSet(to_ca'))
  <2>1. owned[c] = Nowhere
    BY <1>4, <1>5, <1>6 DEF ObjectEntrance, OwnedEntrance, LocationChange, Deleted, OwnershipAssumption
  <2>2. ~(m.type = "ENTER_OWNER" /\ m.owner = c /\ m.sender = None)
    <3> SUFFICES ASSUME m.type = "ENTER_OWNER", m.owner = c, m.sender = None PROVE FALSE
      OBVIOUS
    <3>1. c \in hearing
      BY DEF Hears, OwnershipAssumption
    <3>2. owned'[c] = m.new
      BY <1>5, <3>1 DEF OwnedEntrance
    <3> QED
      BY <1>4, <1>6, <3>2 DEF OwnershipAssumption
  <2>3. Due(c, ToSet(to_ca)) => Due(c, ToSet(to_ca'))
    BY <1>2, <2>2 DEF Due
  <2> QED
    BY <2>1, <2>3
<1>7. Marked'
  <2> SUFFICES ASSUME NEW c \in Client
               PROVE  /\ up[c] # <<>> => owned'[c] # Nowhere
                      /\ \A n \in ToSet(to_ca') : n.sender = c => owned'[c] # Nowhere
                      /\ \A n \in ToSet(to_ca') : n.owner = c =>
                            owned'[c] # Nowhere \/ Due(c, ToSet(to_ca'))
    BY <1>1 DEF Marked, Due
  <2> QED
    BY <1>2, <1>6 DEF Marked
<1>8. ASSUME NEW c \in Client \ missed', Bystander(c)'
      PROVE  \/ visible'[c] = Seen(c, m.new)
             \/ m.type = "CHANGE_ZONE" /\ visible'[c] = Nowhere
  <2>1. /\ owned[c] = Nowhere /\ owned'[c] = Nowhere /\ Bystander(c)
        /\ c \in Client /\ c \notin missed
    <3>1. c \in Client /\ c \notin missed /\ owned'[c] = Nowhere /\ ~Due(c, ToSet(to_ca'))
      BY <1>5, <1>8 DEF Bystander, ObjectEntrance, OwnedEntrance, LocationChange, Deleted, Due
    <3> QED
      BY <1>6, <3>1 DEF Bystander
  <2>2. m.sender # c /\ m.owner # c
    BY <1>2, <2>1 DEF Marked, Bystander
  <2>3. c \in hearing <=> m.at \in View[c]
    BY <2>1, <2>2 DEF Hears
  <2>4. View[c] \subseteq Place /\ Nowhere \notin View[c]
    BY <2>1 DEF OwnershipAssumption
  <2>5. \/ visible[c] = Seen(c, From(m))
        \/ m.type = "ENTERZONE" /\ visible[c] = Nowhere
    BY <1>1, <2>1 DEF Sight, m
  <2> HIDE DEF hearing
  <2>6. CASE m.type = "ENTERZONE"
    <3>1. visible'[c] = IF c \in hearing /\ ~Known(c) THEN m.new ELSE visible[c]
      BY <1>5, <2>1, <2>6 DEF ObjectEntrance
    <3> QED
      BY <1>3, <2>1, <2>3, <2>4, <2>5, <2>6, <3>1 DEF Known, Seen, From
  <2>7. CASE m.type = "ENTER_OWNER"
    BY <1>5, <2>1, <2>5, <2>7 DEF OwnedEntrance, From
  <2>8. CASE m.type = "CHANGE_ZONE"
    <3>1. visible'[c] = IF c \in hearing /\ visible[c] # Nowhere
                          THEN IF m.new \in View[c] THEN m.new ELSE Nowhere
                          ELSE visible[c]
      BY <1>5, <2>1, <2>8 DEF LocationChange
    <3>2. visible[c] = IF m.at \in View[c] THEN m.at ELSE Nowhere
      BY <2>5, <2>8 DEF Seen, From
    <3>3. CASE m.at \in View[c]
      BY <2>3, <2>4, <3>1, <3>2, <3>3 DEF Seen
    <3>4. CASE m.at \notin View[c]
      BY <2>3, <2>8, <3>1, <3>2, <3>4
    <3> QED
      BY <3>3, <3>4
  <2>9. CASE m.type = "DELETE_RAM"
    <3> DEFINE raising == {d \in hearing : owned[d] # Nowhere /\ visible[d] = Nowhere}
    <3>1. PICK done \in IF raising = {} THEN {hearing} ELSE SUBSET (hearing \ raising) :
             /\ visible' = [d \in Client |-> IF d \in done THEN Nowhere ELSE visible[d]]
             /\ missed' = missed \union (hearing \ (raising \union done))
      BY <1>5, <2>9 DEF Deleted
    <3>2. visible[c] = IF m.at \in View[c] THEN m.at ELSE Nowhere
      BY <2>5, <2>9 DEF Seen, From
    <3>3. visible'[c] = Nowhere
      <4>1. CASE m.at \in View[c]
        <5>1. c \in hearing /\ c \notin raising /\ c \notin missed'
          BY <1>8, <2>1, <2>3, <4>1
        <5> QED
          BY <2>1, <3>1, <5>1
      <4>2. CASE m.at \notin View[c]
        BY <2>1, <3>1, <3>2, <4>2
      <4> QED
        BY <4>1, <4>2
    <3> QED
      BY <1>3, <2>4, <2>9, <3>3 DEF Seen
  <2> QED
    BY <1>5, <2>6, <2>7, <2>8, <2>9
<1>9. Sight'
  <2> SUFFICES ASSUME NEW c \in Client \ missed', Bystander(c)'
               PROVE  IF to_ca' = <<>> THEN visible'[c] = Seen(c, place)
                      ELSE \/ visible'[c] = Seen(c, From(Head(to_ca')))
                           \/ Head(to_ca').type = "ENTERZONE" /\ visible'[c] = Nowhere
    BY <1>1 DEF Sight, Seen
  <2> QED
    BY <1>3, <1>8
<1> QED
  BY <1>3, <1>7, <1>9

\* A client that never owned the object sees it exactly, for any clients,
\* interests, owners and moves, once what is on its way has arrived and unless
\* another client's exception cost it a deletion (handle_object_entrance,
\* handle_location_change, DELETE_RAM in handle_datagram).
THEOREM SightIsExact == Spec => []SightExact
<1> USE OwnershipAssumption
<1>1. Init => Chained /\ Marked /\ Sight
  <2> SUFFICES ASSUME Init PROVE Chained /\ Marked /\ Sight
    OBVIOUS
  <2>1. to_ca = <<>> /\ ToSet(to_ca) = {} /\ Len(to_ca) = 0
    BY DEF Init, ToSet
  <2>2. Chained
    BY <2>1 DEF Chained, Chain
  <2>3. Marked
    BY <2>1 DEF Init, Marked
  <2>4. Sight
    BY <2>1 DEF Init, Sight, Seen, OwnershipAssumption
  <2> QED
    BY <2>2, <2>3, <2>4
<1>2. TypeOK /\ OwnerServed /\ Chained /\ Marked /\ Sight /\ [Next]_vars => Chained' /\ Marked' /\ Sight'
  <2> SUFFICES ASSUME TypeOK, OwnerServed, Chained, Marked, Sight, [Next]_vars
               PROVE  Chained' /\ Marked' /\ Sight'
    OBVIOUS
  <2>1. CASE Deliver
    BY <2>1, SightDeliver
  <2>2. CASE Annihilate
    <3> DEFINE e == Msg("DELETE_RAM", None, owner, place, Nowhere)
    <3>1. e \in Message
      BY MsgType DEF TypeOK
    <3>2. /\ e.type = "DELETE_RAM" /\ e.new = Nowhere /\ e.at = place /\ e.sender = None /\ e.owner = owner
          /\ From(e) = place
      BY DEF Msg, From
    <3>3. to_ca' = Append(to_ca, e) /\ place' = Nowhere /\ UNCHANGED <<up, owned, visible, missed>>
      BY <2>2 DEF Annihilate
    <3> QED
      BY <3>1, <3>2, <3>3, SightOne
  <2>3. ASSUME NEW c \in Client, SetOwner(c) PROVE Chained' /\ Marked' /\ Sight'
    <3> DEFINE e == Msg("ENTER_OWNER", None, c, Nowhere, place)
    <3>1. e \in Message
      BY MsgType DEF TypeOK
    <3>2. e.type = "ENTER_OWNER" /\ e.new = place /\ e.sender = None /\ From(e) = place
      BY DEF Msg, From
    <3>3. to_ca' = Append(to_ca, e) /\ place' = place /\ UNCHANGED <<up, owned, visible, missed>>
      BY <2>3 DEF SetOwner
    <3> QED
      BY <3>1, <3>2, <3>3, SightOne
  <2>4. ASSUME NEW c \in Client, ProcessMove(c) PROVE Chained' /\ Marked' /\ Sight'
    <3>1. /\ UNCHANGED <<owned, visible, missed>> /\ up[c] # <<>> /\ Head(up[c]) \in Place
          /\ \A d \in Client : up'[d] # <<>> => up[d] # <<>>
      BY <2>4, TailOf DEF ProcessMove, TypeOK
    <3>2. owned[c] # Nowhere
      BY <3>1 DEF Marked
    <3>3. CASE place = Nowhere
      BY <2>4, <3>1, <3>3 DEF ProcessMove, Chained, Marked, Sight, Bystander
    <3>4. CASE place # Nowhere
      BY <2>4, <3>1, <3>2, <3>4, SightMove DEF ProcessMove
    <3> QED
      BY <3>3, <3>4
  <2>5. ASSUME NEW new \in Place, SetZone(new) PROVE Chained' /\ Marked' /\ Sight'
    BY <2>5, SightMove DEF SetZone, OwnershipAssumption
  <2>6. ASSUME NEW new \in Place, NEW c \in Client \union {None}, Generate(new, c)
        PROVE  Chained' /\ Marked' /\ Sight'
    BY <2>6, SightGenerate
  <2>7. ASSUME NEW new \in Place, NEW c \in Client, ClientLocation(c, new)
        PROVE  Chained' /\ Marked' /\ Sight'
    <3>1. /\ UNCHANGED <<place, to_ca, visible, missed>> /\ owned[c] # Nowhere /\ owned'[c] # Nowhere
          /\ \A d \in Client : d # c => owned'[d] = owned[d] /\ up'[d] = up[d]
      BY <2>7 DEF ClientLocation, TypeOK, OwnershipAssumption
    <3>2. Marked'
      BY <3>1 DEF Marked, Due
    <3>3. Sight'
      BY <3>1 DEF Sight, Bystander, Due, Seen
    <3> QED
      BY <3>1, <3>2, <3>3 DEF Chained
  <2>8. CASE UNCHANGED vars
    BY <2>8 DEF vars, Chained, Marked, Sight, Bystander
  <2> QED
    BY <2>1, <2>2, <2>3, <2>4, <2>5, <2>6, <2>7, <2>8 DEF Next
<1>3. Sight /\ Marked => SightExact
  <2> SUFFICES ASSUME Sight, to_ca = <<>>, NEW c \in Client \ missed, owned[c] = Nowhere
               PROVE  visible[c] = IF place \in View[c] THEN place ELSE Nowhere
    BY DEF SightExact
  <2>1. ~Due(c, ToSet(to_ca))
    BY DEF Due, ToSet
  <2> QED
    BY <2>1 DEF Sight, Bystander, Seen
<1>4. Spec => []OwnerServed
  <2>1. Init => OwnerServed /\ OwnerKnowsPlace
    BY Initially
  <2> QED
    BY <2>1, Served, TypeCorrect, PTL DEF Spec
<1> QED
  BY <1>1, <1>2, <1>3, <1>4, TypeCorrect, PTL DEF Spec
=============================================================================
