--------------------------- MODULE ClientAgent_proofs ---------------------------
(* Proofs about what keeps the clients of an agent apart: the channels that  *)
(* ChannelAllocator gives them, for every range and every number of grants,  *)
(* the avatars of their sessions in Activation, for any avatars, sessions    *)
(* and generates, and the byte streams of their connections in Framing, for  *)
(* datagrams of any sizes; and about what it lets them see where channels    *)
(* are numbers, in Channels, for any ids, parents and zones.                 *)
EXTENDS ChannelAllocator, Activation, Framing, Channels, FiniteSetTheorems, FunctionTheorems,
        SequenceTheorems, WellFoundedInduction, TLAPS

-----------------------------------------------------------------------------
(* Channels.                                                                 *)

\* The inductive invariant: everything in use lies below the cursor.
THEOREM CursorLeads == AllocatorSpec => []CursorAhead
<1>1. AllocatorInit => CursorAhead
  BY AllocatorAssumption DEF AllocatorInit, CursorAhead, AllocatorTypeOK, NeverOverflows, NeverReissued, GrantsConsecutive
<1>2. CursorAhead /\ [AllocatorNext]_allocatorVars => CursorAhead'
  <2> SUFFICES ASSUME CursorAhead, [AllocatorNext]_allocatorVars
               PROVE  CursorAhead'
    OBVIOUS
  <2> USE AllocatorAssumption DEF CursorAhead, AllocatorTypeOK, NeverOverflows, NeverReissued, GrantsConsecutive
  <2>1. CASE NewChannelId
    BY <2>1 DEF NewChannelId
  <2>2. CASE Probe
    <3>1. next_channel \notin used_channels
      OBVIOUS
    <3>2. /\ used_channels' = used_channels \union {next_channel}
          /\ granted' = Append(granted, next_channel)
          /\ next_channel' = next_channel + 1
          /\ mode' = "idle"
          /\ freed_channels' = freed_channels
      BY <2>2, <3>1 DEF Probe
    <3>3. Len(granted') = Len(granted) + 1
      BY <3>2
    <3>4. \A i \in 1..Len(granted) : granted'[i] = granted[i]
      BY <3>2
    <3>5. granted'[Len(granted) + 1] = next_channel
      BY <3>2
    <3>6. \A i \in 1..Len(granted') : i \in 1..Len(granted) \/ i = Len(granted) + 1
      BY <3>3
    <3>7. GrantsConsecutive' /\ next_channel' = min_channel + Len(granted')
      BY <3>2, <3>3, <3>4, <3>5, <3>6
    <3>8. /\ \A channel \in used_channels' : channel < next_channel'
          /\ \A i \in 1..Len(granted') : granted'[i] \in used_channels'
      BY <3>2, <3>3, <3>4, <3>5, <3>6
    <3>9. NeverReissued'
      <4> SUFFICES ASSUME NEW i \in 1..Len(granted'), NEW j \in 1..Len(granted'),
                          granted'[i] = granted'[j]
                   PROVE  i = j
        OBVIOUS
      <4>1. granted'[i] = min_channel + i - 1 /\ granted'[j] = min_channel + j - 1
        BY <3>7
      <4>2. i \in Int /\ j \in Int
        OBVIOUS
      <4>3. min_channel + i - 1 = min_channel + j - 1
        BY <4>1
      <4> QED
        BY <4>2, <4>3
    <3>10. AllocatorTypeOK' /\ NeverOverflows'
      <4>1. granted' \in Seq(Nat)
        BY <3>2
      <4>2. used_channels' \subseteq Nat /\ freed_channels' \subseteq used_channels'
        BY <3>2
      <4> QED
        BY <3>2, <4>1, <4>2
    <3> QED
      BY <3>7, <3>8, <3>9, <3>10
  <2>3. CASE \E channel \in used_channels : FreeChannelId(channel)
    BY <2>3 DEF FreeChannelId
  <2>4. CASE UNCHANGED allocatorVars
    BY <2>4 DEF allocatorVars
  <2> QED
    BY <2>1, <2>2, <2>3, <2>4 DEF AllocatorNext
<1> QED
  BY <1>1, <1>2, PTL DEF AllocatorSpec

\* Types; and a freed channel stays among the used ones (free_channel_id).
THEOREM ChannelTypes == AllocatorSpec => []AllocatorTypeOK
<1>1. CursorAhead => AllocatorTypeOK
  BY DEF CursorAhead
<1> QED
  BY CursorLeads, <1>1, PTL

\* No channel is ever handed out twice, freed or not (new_channel_id).
THEOREM NoReissue == AllocatorSpec => []NeverReissued
<1>1. CursorAhead => NeverReissued
  BY DEF CursorAhead
<1> QED
  BY CursorLeads, <1>1, PTL

\* new_channel_id never raises OverflowError, not even beyond max_channel.
THEOREM NoOverflow == AllocatorSpec => []NeverOverflows
<1>1. CursorAhead => NeverOverflows
  BY DEF CursorAhead
<1> QED
  BY CursorLeads, <1>1, PTL

\* The n-th channel that is handed out is min_channel + n - 1, whatever
\* max_channel is (new_channel_id).
THEOREM Consecutive == AllocatorSpec => []GrantsConsecutive
<1>1. CursorAhead => GrantsConsecutive
  BY DEF CursorAhead
<1> QED
  BY CursorLeads, <1>1, PTL

-----------------------------------------------------------------------------
(* Avatars.                                                                  *)

\* What is on its way, and what the database works on.
ForSs   == ToSet(to_ss)
ForCa   == ToSet(to_ca)
Working == ToSet(gets)

Answering(d)  == \E m \in ForSs : m.type = "VALUES" /\ m.do_id = d
Activating(s) == \E m \in ForSs : m.type = "ACTIVATE" /\ m.owner = s
Entering(s)   == \E m \in ForCa : m.type = "ENTER_OWNER" /\ m.to = s

\* No two requests are of one session, and no two answers about one object.
Clash(m, n) ==
    \/ m.type = "ACTIVATE" /\ n.type = "ACTIVATE" /\ m.owner = n.owner
    \/ m.type = "VALUES" /\ n.type = "VALUES" /\ m.do_id = n.do_id
Apart == \A i, j \in 1..Len(to_ss) : i # j => ~Clash(to_ss[i], to_ss[j])

\* A pending activation waits for one thing: the database, which works on it,
\* its answer, or nothing, because there will be no answer.
Awaited ==
    /\ \A i, j \in 1..Len(gets) : i # j => gets[i] # gets[j]
    /\ \A d \in DoId :
          /\ queries[d] # None <=> d \in Working \/ Answering(d) \/ d \in silent
          /\ ~(d \in Working /\ Answering(d))
          /\ ~(d \in Working /\ d \in silent)
          /\ ~(Answering(d) /\ d \in silent)

\* Whoever has asked for an avatar keeps to it.
Begun(s, d) == state[s] \notin {"new", "purging"} /\ avatar_id[s] = d
Named ==
    /\ \A m \in ForSs : m.type = "ACTIVATE" => Begun(m.owner, m.do_id)
    /\ \A d \in DoId : queries[d] # None => Begun(queries[d], d)
    /\ \A m \in ForCa : Begun(m.to, m.do_id)
    /\ \A b \in participants : b.owner # None => Begun(b.owner, b.do_id)
    /\ \A s \in entered : Begun(s, avatar_id[s])
    /\ \A s \in Session : state[s] # "new" => avatar_id[s] \in DoId

\* A session asks once, and is told once, of which nothing is left elsewhere.
Once ==
    \A s \in Session :
        /\ Activating(s) => ~Entering(s) /\ s \notin entered /\ \A d \in DoId : queries[d] # s
        /\ \A d \in DoId : queries[d] = s => ~Entering(s) /\ s \notin entered

Numbered ==
    /\ IsFiniteSet(participants)
    /\ \A b, c \in participants : b.no = c.no => b = c

\* The session has its avatar, or will hear that it is gone.
Has(s) == \/ \E b \in Listeners(avatar_id[s]) : b.owner = s
          \/ Deleted(avatar_id[s], s) \in ForCa
Served ==
    \A s \in Session :
        state[s] = "playing" \/ (state[s] = "waiting" /\ Entering(s)) => Has(s)

\* AvatarHasPlayer, about what is on its way.
Departed ==
    \A s \in entered : state[s] = "gone" =>
        \/ avatar_id[s] \in raced
        \/ DeleteRam(avatar_id[s]) \in ForSs
        \/ ~\E b \in Listeners(avatar_id[s]) : b.owner = s

IInv == /\ Apart /\ Awaited /\ Named /\ Once
        /\ Numbered /\ OneBody /\ Served /\ Departed

-----------------------------------------------------------------------------
(* Queues.                                                                   *)

LEMMA Appended ==
    ASSUME NEW M, NEW q \in Seq(M), NEW m \in M
    PROVE  /\ Append(q, m) \in Seq(M)
           /\ ToSet(Append(q, m)) = ToSet(q) \union {m}
<1>1. /\ Append(q, m) \in Seq(M) /\ Len(q) \in Nat /\ Len(Append(q, m)) = Len(q) + 1
      /\ \A i \in 1..Len(q) : Append(q, m)[i] = q[i]
      /\ Append(q, m)[Len(q) + 1] = m
  OBVIOUS
<1>2. DOMAIN q = 1..Len(q) /\ DOMAIN Append(q, m) = 1..(Len(q) + 1)
  BY <1>1
<1>3. 1..(Len(q) + 1) = 1..Len(q) \union {Len(q) + 1}
  <2>1. \A n \in Nat : 1..(n + 1) = 1..n \union {n + 1}
    OBVIOUS
  <2> QED
    BY <1>1, <2>1
<1> QED
  BY <1>1, <1>2, <1>3 DEF ToSet

LEMMA Taken ==
    ASSUME NEW M, NEW q \in Seq(M), q # <<>>
    PROVE  /\ Head(q) \in M /\ Tail(q) \in Seq(M)
           /\ ToSet(q) = ToSet(Tail(q)) \union {Head(q)}
<1> DEFINE t == Tail(q)
<1>1. /\ Head(q) = q[1] /\ Len(q) \in Nat \ {0} /\ Len(t) = Len(q) - 1 /\ t \in Seq(M)
      /\ \A i \in 1..Len(t) : t[i] = q[i + 1]
  OBVIOUS
<1>2. DOMAIN q = 1..Len(q) /\ DOMAIN t = 1..Len(t)
  BY <1>1
<1> HIDE DEF t
<1>3. ASSUME NEW x \in ToSet(q) PROVE x = Head(q) \/ x \in ToSet(t)
  <2>1. PICK i \in 1..Len(q) : x = q[i]
    BY <1>2 DEF ToSet
  <2>2. i = 1 \/ (i - 1 \in 1..Len(t) /\ t[i - 1] = q[i])
    BY <1>1
  <2> QED
    BY <1>1, <1>2, <2>1, <2>2 DEF ToSet
<1>4. ASSUME NEW x \in ToSet(t) PROVE x \in ToSet(q)
  <2>1. PICK i \in 1..Len(t) : x = t[i]
    BY <1>2 DEF ToSet
  <2>2. i + 1 \in 1..Len(q) /\ x = q[i + 1]
    BY <1>1, <2>1
  <2> QED
    BY <1>2, <2>2 DEF ToSet
<1>5. Head(q) \in ToSet(q) /\ Head(q) \in M
  BY <1>1, <1>2 DEF ToSet
<1> QED
  BY <1>1, <1>3, <1>4, <1>5 DEF t

LEMMA InSet ==
    ASSUME NEW M, NEW q \in Seq(M), NEW m
    PROVE  /\ Contains(q, m) <=> m \in ToSet(q)
           /\ m \in ToSet(q) => m \in M
<1>1. DOMAIN q = 1..Len(q) /\ \A i \in 1..Len(q) : q[i] \in M
  OBVIOUS
<1> QED
  BY <1>1 DEF Contains, ToSet

\* What is left of a sequence without its first m members.
LEMMA SkipProperties ==
    ASSUME NEW B, NEW s \in Seq(B), NEW m \in Nat, m <= Len(s)
    PROVE  /\ SubSeq(s, m + 1, Len(s)) \in Seq(B)
           /\ Len(SubSeq(s, m + 1, Len(s))) = Len(s) - m
           /\ \A j \in 1..(Len(s) - m) : SubSeq(s, m + 1, Len(s))[j] = s[m + j]
<1>1. Len(s) \in Nat /\ \A i \in (m + 1)..Len(s) : s[i] \in B
  BY LenProperties, ElementOfSeq
<1>2. /\ SubSeq(s, m + 1, Len(s)) \in Seq(B)
      /\ Len(SubSeq(s, m + 1, Len(s))) = IF m + 1 <= Len(s) THEN Len(s) - (m + 1) + 1 ELSE 0
      /\ \A j \in 1..(Len(s) - (m + 1) + 1) : SubSeq(s, m + 1, Len(s))[j] = s[(m + 1) + j - 1]
  <2>1. m + 1 \in Int /\ Len(s) \in Int
    BY <1>1
  <2> QED
    BY <1>1, <2>1, SubSeqProperties
<1>3. \A j \in 1..(Len(s) - m) : j \in 1..(Len(s) - (m + 1) + 1) /\ (m + 1) + j - 1 = m + j
  BY <1>1
<1> QED
  BY <1>1, <1>2, <1>3

\* One of the GETs is done with.
LEMMA Removed ==
    ASSUME NEW M, NEW q \in Seq(M), NEW k \in DOMAIN q,
           \A i, j \in 1..Len(q) : i # j => q[i] # q[j]
    PROVE  LET r == RemoveAt(q, k)
           IN  /\ r \in Seq(M)
               /\ ToSet(r) = ToSet(q) \ {q[k]}
               /\ q[k] \in M
               /\ \A i, j \in 1..Len(r) : i # j => r[i] # r[j]
<1> DEFINE u == SubSeq(q, 1, k - 1)
           v == SubSeq(q, k + 1, Len(q))
           r == RemoveAt(q, k)
<1>1. DOMAIN q = 1..Len(q) /\ Len(q) \in Nat /\ k \in 1..Len(q) /\ \A i \in 1..Len(q) : q[i] \in M
  OBVIOUS
<1>2. u \in Seq(M) /\ Len(u) = k - 1 /\ \A i \in 1..(k - 1) : u[i] = q[i]
  BY <1>1
<1>3. v \in Seq(M) /\ Len(v) = Len(q) - k /\ \A i \in 1..(Len(q) - k) : v[i] = q[k + i]
  <2>1. k \in Nat /\ k <= Len(q)
    BY <1>1
  <2> QED
    BY <2>1, SkipProperties
<1>r. r = u \o v
  BY DEF RemoveAt
<1> HIDE DEF u, v, r
<1>4. r \in Seq(M) /\ Len(r) = Len(q) - 1
  <2>1. r \in Seq(M) /\ Len(r) = Len(u) + Len(v)
    BY <1>2, <1>3, <1>r, ConcatProperties
  <2> QED
    BY <1>1, <1>2, <1>3, <2>1
<1>5. \A i \in 1..(Len(q) - 1) : r[i] = IF i < k THEN q[i] ELSE q[i + 1]
  <2> SUFFICES ASSUME NEW i \in 1..(Len(q) - 1) PROVE r[i] = IF i < k THEN q[i] ELSE q[i + 1]
    OBVIOUS
  <2>1. r[i] = IF i <= Len(u) THEN u[i] ELSE v[i - Len(u)]
    <3>1. i \in 1..(Len(u) + Len(v))
      BY <1>1, <1>2, <1>3
    <3>2. \A j \in 1..(Len(u) + Len(v)) : (u \o v)[j] = IF j <= Len(u) THEN u[j] ELSE v[j - Len(u)]
      BY <1>2, <1>3, ConcatProperties
    <3> QED
      BY <1>r, <3>1, <3>2
  <2>2. CASE i < k
    BY <1>1, <1>2, <2>1, <2>2
  <2>3. CASE ~(i < k)
    <3>1. i - Len(u) \in 1..(Len(q) - k) /\ k + (i - Len(u)) = i + 1 /\ ~(i <= Len(u))
      BY <1>1, <1>2, <2>3
    <3>2. v[i - Len(u)] = q[k + (i - Len(u))]
      BY <1>3, <3>1
    <3> QED
      BY <2>1, <2>3, <3>1, <3>2
  <2> QED
    BY <2>2, <2>3
<1>6. DOMAIN r = 1..(Len(q) - 1)
  BY <1>4
<1>7. \A i, j \in 1..Len(r) : i # j => r[i] # r[j]
  BY <1>1, <1>4, <1>5
<1>8. ASSUME NEW i \in DOMAIN r PROVE r[i] \in ToSet(q) \ {q[k]}
  <2>1. PICK j \in 1..Len(q) : r[i] = q[j] /\ j # k
    <3>1. i \in 1..(Len(q) - 1)
      BY <1>6
    <3>2. i < k => i \in 1..Len(q) /\ i # k
      BY <1>1, <3>1
    <3>3. ~(i < k) => i + 1 \in 1..Len(q) /\ i + 1 # k
      BY <1>1, <3>1
    <3> QED
      BY <1>5, <3>1, <3>2, <3>3
  <2>2. q[j] # q[k]
    BY <1>1, <2>1
  <2> QED
    BY <1>1, <2>1, <2>2 DEF ToSet
<1>9. ASSUME NEW i \in 1..Len(q), q[i] # q[k] PROVE \E j \in DOMAIN r : r[j] = q[i]
  <2>1. i < k => i \in 1..(Len(q) - 1) /\ r[i] = q[i]
    BY <1>1, <1>5
  <2>2. i > k => i - 1 \in 1..(Len(q) - 1) /\ r[i - 1] = q[i]
    BY <1>1, <1>5
  <2> QED
    BY <1>1, <1>6, <1>9, <2>1, <2>2
<1>10. ToSet(r) = ToSet(q) \ {q[k]}
  BY <1>1, <1>8, <1>9 DEF ToSet
<1> QED
  BY <1>1, <1>4, <1>7, <1>10 DEF r

-----------------------------------------------------------------------------
(* Messages.                                                                 *)

LEMMA Kinds ==
    ASSUME TypeOK
    PROVE  /\ \A m \in SsMessage : /\ m.do_id \in DoId
                                   /\ m.type = "ACTIVATE" => m.owner \in Session
                                   /\ m.type = "VALUES" => m.full \in BOOLEAN
           /\ ForSs \subseteq SsMessage
           /\ \A m \in CaMessage : m.do_id \in DoId /\ m.to \in Session
           /\ ForCa \subseteq CaMessage
           /\ Working \subseteq DoId
<1>1. \A m \in SsMessage : /\ m.do_id \in DoId
                           /\ m.type = "ACTIVATE" => m.owner \in Session
                           /\ m.type = "VALUES" => m.full \in BOOLEAN
  BY DEF SsMessage
<1>2. \A m \in CaMessage : m.do_id \in DoId /\ m.to \in Session
  BY DEF CaMessage
<1>3. ForSs \subseteq SsMessage /\ ForCa \subseteq CaMessage /\ Working \subseteq DoId
  BY InSet DEF TypeOK, ForSs, ForCa, Working
<1> QED
  BY <1>1, <1>2, <1>3

LEMMA MessageTypes ==
    ASSUME NEW d \in DoId
    PROVE  /\ DeleteRam(d) \in SsMessage /\ DeleteRam(d).type = "DELETE_RAM"
           /\ Generate(d) \in SsMessage /\ Generate(d).type = "GENERATE"
           /\ \A full \in BOOLEAN :
                 /\ Values(d, full) \in SsMessage
                 /\ Values(d, full).type = "VALUES" /\ Values(d, full).do_id = d
           /\ \A s \in Session :
                 /\ Activate(d, s) \in SsMessage
                 /\ Entrance(d, s) \in CaMessage /\ Deleted(d, s) \in CaMessage
  BY DEF Activate, DeleteRam, Generate, Values, Entrance, Deleted, SsMessage, CaMessage

\* A datagram for the state server is sent, ...
LEMMA Sends ==
    ASSUME TypeOK, NEW m \in SsMessage, to_ss' = Append(to_ss, m)
    PROVE  /\ to_ss' \in Seq(SsMessage)
           /\ ForSs' = ForSs \union {m}
           /\ Apart /\ (\A n \in ForSs : ~Clash(m, n)) => Apart'
<1>1. to_ss \in Seq(SsMessage)
  BY DEF TypeOK
<1>2. to_ss' \in Seq(SsMessage) /\ ForSs' = ForSs \union {m}
  BY <1>1, Appended DEF ForSs
<1>3. ASSUME Apart, \A n \in ForSs : ~Clash(m, n)
      PROVE  Apart'
  <2>1. \A n \in ForSs : ~Clash(n, m)
    BY <1>3 DEF Clash
  <2>2. \A i \in 1..Len(to_ss) : to_ss[i] \in ForSs
    BY <1>1 DEF ForSs, ToSet
  <2>3. /\ Len(to_ss) \in Nat /\ Len(to_ss') = Len(to_ss) + 1
        /\ \A i \in 1..Len(to_ss) : to_ss'[i] = to_ss[i]
        /\ to_ss'[Len(to_ss) + 1] = m
    BY <1>1
  <2> SUFFICES ASSUME NEW i \in 1..Len(to_ss'), NEW j \in 1..Len(to_ss'), i # j
               PROVE  ~Clash(to_ss'[i], to_ss'[j])
    BY DEF Apart, Clash
  <2>4. CASE i \in 1..Len(to_ss) /\ j \in 1..Len(to_ss)
    BY <1>3, <2>3, <2>4 DEF Apart
  <2>5. CASE i = Len(to_ss) + 1
    <3>1. j \in 1..Len(to_ss)
      BY <2>3, <2>5
    <3> QED
      BY <1>3, <2>2, <2>3, <2>5, <3>1
  <2>6. CASE j = Len(to_ss) + 1
    <3>1. i \in 1..Len(to_ss)
      BY <2>3, <2>6
    <3> QED
      BY <2>1, <2>2, <2>3, <2>6, <3>1
  <2> QED
    BY <2>3, <2>4, <2>5, <2>6
<1> QED
  BY <1>2, <1>3

\* ... and is taken.
LEMMA TakesIs ==
    ASSUME TypeOK, NEW type, Takes(type)
    PROVE  LET m == Head(to_ss)
           IN  /\ m \in SsMessage /\ m \in ForSs /\ m.type = type
               /\ to_ss' \in Seq(SsMessage)
               /\ ForSs = ForSs' \union {m}
               /\ Apart => Apart' /\ \A n \in ForSs' : ~Clash(m, n)
<1> DEFINE m == Head(to_ss)
<1>1. to_ss \in Seq(SsMessage) /\ to_ss # <<>> /\ m.type = type /\ to_ss' = Tail(to_ss)
  BY DEF TypeOK, Takes
<1>2. m \in SsMessage /\ to_ss' \in Seq(SsMessage) /\ ForSs = ForSs' \union {m}
  BY <1>1, Taken DEF ForSs
<1>3. /\ Len(to_ss) \in Nat \ {0} /\ Len(to_ss') = Len(to_ss) - 1 /\ m = to_ss[1]
      /\ \A i \in 1..Len(to_ss') : to_ss'[i] = to_ss[i + 1]
  BY <1>1
<1>4. ASSUME Apart PROVE Apart'
  <2> SUFFICES ASSUME NEW i \in 1..Len(to_ss'), NEW j \in 1..Len(to_ss'), i # j
               PROVE  ~Clash(to_ss'[i], to_ss'[j])
    BY DEF Apart, Clash
  <2>1. i + 1 \in 1..Len(to_ss) /\ j + 1 \in 1..Len(to_ss) /\ i + 1 # j + 1
    BY <1>3
  <2> QED
    BY <1>3, <1>4, <2>1 DEF Apart
<1>5. ASSUME Apart, NEW n \in ForSs' PROVE ~Clash(m, n)
  <2>1. PICK i \in 1..Len(to_ss') : n = to_ss'[i]
    BY <1>2 DEF ForSs, ToSet
  <2>2. i + 1 \in 1..Len(to_ss) /\ 1 \in 1..Len(to_ss) /\ i + 1 # 1 /\ n = to_ss[i + 1]
    BY <1>3, <2>1
  <2> QED
    BY <1>3, <1>5, <2>2 DEF Apart
<1> QED
  BY <1>1, <1>2, <1>4, <1>5

\* A participant that listens, and the sessions that own one.
LEMMA Owners ==
    ASSUME TypeOK, NEW b \in participants
    PROVE  /\ b.no \in 1..built /\ b.do_id \in DoId /\ b.owner \in Session \union {None}
           /\ b.db \in BOOLEAN /\ b.listens \in BOOLEAN
  BY DEF TypeOK, Participant

-----------------------------------------------------------------------------
(* Deletion.                                                                 *)

Server == [out : Seq(CaMessage), objects : [DoId -> 0..built], members : SUBSET participants,
           stored : SUBSET DoId, sound : BOOLEAN]

\* What the server may be after some of those that hear a deletion of d.
Deleting(d, st) ==
    /\ st \in Server
    /\ ForCa \subseteq ToSet(st.out)
    /\ \A m \in ToSet(st.out) :
          m \in ForCa \/ \E b \in Listeners(d) : b.owner # None /\ m = Deleted(d, b.owner)
    /\ \A b \in participants \ st.members :
          /\ b \in Listeners(d)
          /\ b.owner # None => Deleted(d, b.owner) \in ToSet(st.out)
    /\ \A x \in DoId \ {d} :
          st.objects[x] = objects[x] /\ (x \in st.stored <=> x \in database_objects)

LEMMA DeletingStep ==
    ASSUME TypeOK, NEW d \in DoId, NEW b \in Listeners(d), NEW st, Deleting(d, st)
    PROVE  Deleting(d, Annihilated(st, b))
<1> DEFINE told == IF b.owner = None THEN st.out ELSE Append(st.out, Deleted(d, b.owner))
<1>1. b \in participants /\ b.do_id = d /\ b.owner \in Session \union {None} /\ b.db \in BOOLEAN
  BY Owners DEF Listeners
<1>2. /\ st.out \in Seq(CaMessage) /\ st.objects \in [DoId -> 0..built]
      /\ st.members \subseteq participants /\ st.stored \subseteq DoId /\ st.sound \in BOOLEAN
  BY DEF Deleting, Server
<1>3. /\ told \in Seq(CaMessage)
      /\ ToSet(told) = IF b.owner = None THEN ToSet(st.out) ELSE ToSet(st.out) \union {Deleted(d, b.owner)}
  <2>1. b.owner # None => Deleted(d, b.owner) \in CaMessage
    BY <1>1, MessageTypes
  <2>2. CASE b.owner = None
    BY <1>2, <2>2
  <2>3. CASE b.owner # None
    BY <1>2, <2>1, <2>3, Appended
  <2> QED
    BY <2>2, <2>3
<1> HIDE DEF told
<1>4. /\ ForCa \subseteq ToSet(told)
      /\ \A m \in ToSet(told) :
            m \in ForCa \/ \E c \in Listeners(d) : c.owner # None /\ m = Deleted(d, c.owner)
      /\ b.owner # None => Deleted(d, b.owner) \in ToSet(told)
      /\ ToSet(st.out) \subseteq ToSet(told)
  BY <1>3 DEF Deleting, Deleted
<1>5. CASE ~st.sound
  BY <1>5 DEF Annihilated
<1>6. CASE st.sound /\ st.objects[d] = 0
  <2> DEFINE new == [st EXCEPT !.out = told, !.sound = FALSE]
  <2>1. Annihilated(st, b) = new
    BY <1>1, <1>6 DEF Annihilated, told
  <2>2. /\ new \in Server /\ new.out = told /\ new.objects = st.objects
        /\ new.members = st.members /\ new.stored = st.stored
    BY <1>2, <1>3 DEF Deleting, Server
  <2> HIDE DEF new
  <2>3. Deleting(d, new)
    BY <1>4, <2>2 DEF Deleting
  <2> QED
    BY <2>1, <2>3
<1>7. CASE st.sound /\ st.objects[d] # 0
  <2> DEFINE new == [out |-> told, objects |-> [st.objects EXCEPT ![d] = 0], members |-> st.members \ {b},
                     stored |-> IF b.db THEN st.stored \ {d} ELSE st.stored,
                     sound |-> b.db => d \in st.stored]
  <2>1. Annihilated(st, b) = new
    BY <1>1, <1>7 DEF Annihilated, told
  <2>2. /\ new.out = told /\ new.objects = [st.objects EXCEPT ![d] = 0] /\ new.members = st.members \ {b}
        /\ new.stored = (IF b.db THEN st.stored \ {d} ELSE st.stored)
        /\ new \in Server
    <3>1. [st.objects EXCEPT ![d] = 0] \in [DoId -> 0..built]
      BY <1>2 DEF TypeOK
    <3>2. (b.db => d \in st.stored) \in BOOLEAN
      OBVIOUS
    <3> QED
      BY <1>2, <1>3, <3>1, <3>2 DEF Server
  <2> HIDE DEF new
  <2>3. \A x \in DoId \ {d} : /\ new.objects[x] = st.objects[x]
                              /\ x \in new.stored <=> x \in st.stored
    BY <1>2, <2>2
  <2>4. Deleting(d, new)
    BY <1>4, <2>2, <2>3 DEF Deleting
  <2> QED
    BY <2>1, <2>4
<1> QED
  BY <1>2, <1>5, <1>6, <1>7

\* A set of naturals that is not empty has a least element.
LEMMA Least ==
    ASSUME NEW T \in SUBSET Nat, T # {}
    PROVE  \E k \in T : \A j \in T : k <= j
<1>1. PICK k \in T : \A j \in T : ~(<<j, k>> \in OpToRel(<, Nat))
  BY NatLessThanWellFounded, WFMin
<1>2. \A j \in T : ~(j < k)
  BY <1>1 DEF OpToRel
<1> QED
  BY <1>2

Computes(f, before, order, n) ==
    f = [i \in 0..n |-> IF i = 0 THEN before ELSE Annihilated(f[i - 1], order[i])]

\* Deleting one participant after the other is a computation: it has a result.
LEMMA Computation ==
    ASSUME NEW before, NEW order, NEW n \in Nat
    PROVE  \E f : Computes(f, before, order, n)
<1> DEFINE Step(f, i) == IF i = 0 THEN before ELSE Annihilated(f[i - 1], order[i])
           Reaches(k) == \E f : f = [i \in 0..k |-> Step(f, i)]
           Short == {k \in Nat : ~Reaches(k)}
<1>1. ASSUME Short # {} PROVE FALSE
  <2>1. PICK k \in Short : \A j \in Short : k <= j
    <3>1. Short \in SUBSET Nat
      OBVIOUS
    <3> HIDE DEF Short
    <3> QED
      BY <1>1, <3>1, Least
  <2>2. k \in Nat /\ ~Reaches(k)
    BY <2>1
  <2>3. CASE k = 0
    <3> DEFINE f == [i \in 0..k |-> before]
    <3>1. f = [i \in 0..k |-> Step(f, i)]
      BY <2>3
    <3> QED
      BY <2>2, <3>1
  <2>4. CASE k # 0
    <3>1. k - 1 \in Nat /\ Reaches(k - 1)
      <4>1. k - 1 \in Nat /\ ~(k <= k - 1)
        BY <2>2, <2>4
      <4> HIDE DEF Reaches
      <4> QED
        BY <2>1, <4>1
    <3> HIDE DEF Step
    <3>2. PICK f : f = [i \in 0..(k - 1) |-> Step(f, i)]
      BY <3>1
    <3> DEFINE g == [i \in 0..k |-> IF i = k THEN Step(f, k) ELSE f[i]]
    <3>3. ASSUME NEW i \in 0..k
          PROVE  g[i] = Step(g, i)
      <4>1. i # 0 => i - 1 \in 0..(k - 1) /\ g[i - 1] = f[i - 1]
        BY <2>2, <2>4
      <4>2. Step(g, i) = Step(f, i)
        <5> HIDE DEF g
        <5> QED
          BY <4>1 DEF Step
      <4>3. CASE i = k
        BY <4>2, <4>3
      <4>4. CASE i # k
        <5>1. i \in 0..(k - 1) /\ g[i] = f[i]
          BY <2>2, <4>4
        <5>2. f[i] = Step(f, i)
          BY <3>2, <5>1
        <5> QED
          BY <4>2, <5>1, <5>2
      <4> QED
        BY <4>3, <4>4
    <3>4. g = [i \in 0..k |-> g[i]]
      OBVIOUS
    <3> HIDE DEF g
    <3>5. g = [i \in 0..k |-> Step(g, i)]
      BY <3>3, <3>4
    <3> QED
      BY <2>2, <3>5
  <2> QED
    BY <2>3, <2>4
<1>2. Reaches(n)
  BY <1>1
<1> QED
  BY <1>2 DEF Computes

LEMMA Order ==
    ASSUME NEW T, IsFiniteSet(T), NEW order \in SetToSeqs(T)
    PROVE  Len(order) = Cardinality(T) /\ Len(order) \in Nat /\ \A i \in 1..Len(order) : order[i] \in T
<1>1. Cardinality(T) \in Nat /\ order \in [1..Cardinality(T) -> T]
  BY FS_CardinalityType DEF SetToSeqs
<1>2. order \in Seq(T) /\ Len(order) = Cardinality(T)
  BY <1>1
<1> QED
  BY <1>1, <1>2

\* A DELETE_RAM for d: ...
LEMMA DeleteSteps ==
    ASSUME TypeOK, Numbered, HandleDeleteRam
    PROVE  LET d == Head(to_ss).do_id
               before == [out |-> to_ca, objects |-> objects, members |-> participants,
                          stored |-> database_objects, sound |-> TRUE]
           IN  \E order \in SetToSeqs(Listeners(d)) : \E f :
                  /\ Len(order) = Cardinality(Listeners(d)) /\ Len(order) \in Nat
                  /\ \A i \in 1..Len(order) : order[i] \in Listeners(d)
                  /\ Computes(f, before, order, Len(order))
                  /\ to_ca' = f[Len(order)].out
                  /\ objects' = f[Len(order)].objects
                  /\ participants' = f[Len(order)].members
                  /\ database_objects' = f[Len(order)].stored
<1> DEFINE d == Head(to_ss).do_id
           before == [out |-> to_ca, objects |-> objects, members |-> participants,
                      stored |-> database_objects, sound |-> TRUE]
           After(order) == CHOOSE f : f = [n \in 0..Len(order) |->
                                              IF n = 0 THEN before ELSE Annihilated(f[n - 1], order[n])]
<1>1. PICK order \in SetToSeqs(Listeners(d)) :
          /\ to_ca' = After(order)[Len(order)].out
          /\ objects' = After(order)[Len(order)].objects
          /\ participants' = After(order)[Len(order)].members
          /\ database_objects' = After(order)[Len(order)].stored
  BY DEF HandleDeleteRam
<1>2. IsFiniteSet(Listeners(d))
  BY FS_Subset DEF Numbered, Listeners
<1>3. /\ Len(order) = Cardinality(Listeners(d)) /\ Len(order) \in Nat
      /\ \A i \in 1..Len(order) : order[i] \in Listeners(d)
  BY <1>2, Order
<1> HIDE DEF before, d
<1>4. \E f : Computes(f, before, order, Len(order))
  BY <1>3, Computation
<1>5. Computes(After(order), before, order, Len(order))
  BY <1>4 DEF Computes
<1> HIDE DEF After
<1>6. \E f : /\ Computes(f, before, order, Len(order))
             /\ to_ca' = f[Len(order)].out
             /\ objects' = f[Len(order)].objects
             /\ participants' = f[Len(order)].members
             /\ database_objects' = f[Len(order)].stored
  BY <1>1, <1>5
<1> QED
  BY <1>3, <1>6 DEF before, d

\* ... whatever it removes has heard it, whoever owned it hears of it, and
\* nothing else is touched; ...
LEMMA DeleteIs ==
    ASSUME TypeOK, Numbered, HandleDeleteRam
    PROVE  LET d == Head(to_ss).do_id
           IN  /\ to_ca' \in Seq(CaMessage) /\ ForCa \subseteq ForCa'
               /\ \A m \in ForCa' :
                     m \in ForCa \/ \E b \in Listeners(d) : b.owner # None /\ m = Deleted(d, b.owner)
               /\ participants' \subseteq participants
               /\ \A b \in participants \ participants' :
                     /\ b \in Listeners(d)
                     /\ b.owner # None => Deleted(d, b.owner) \in ForCa'
               /\ objects' \in [DoId -> 0..built] /\ database_objects' \subseteq DoId
               /\ \A x \in DoId \ {d} :
                     objects'[x] = objects[x] /\ (x \in database_objects' <=> x \in database_objects)
<1> DEFINE d == Head(to_ss).do_id
           before == [out |-> to_ca, objects |-> objects, members |-> participants,
                      stored |-> database_objects, sound |-> TRUE]
<1>1. d \in DoId
  BY TakesIs, Kinds DEF HandleDeleteRam
<1>2. PICK order \in SetToSeqs(Listeners(d)) : \E f :
          /\ Len(order) = Cardinality(Listeners(d)) /\ Len(order) \in Nat
          /\ \A i \in 1..Len(order) : order[i] \in Listeners(d)
          /\ Computes(f, before, order, Len(order))
          /\ to_ca' = f[Len(order)].out
          /\ objects' = f[Len(order)].objects
          /\ participants' = f[Len(order)].members
          /\ database_objects' = f[Len(order)].stored
  BY DeleteSteps
<1>f. PICK f :
          /\ Len(order) = Cardinality(Listeners(d)) /\ Len(order) \in Nat
          /\ \A i \in 1..Len(order) : order[i] \in Listeners(d)
          /\ Computes(f, before, order, Len(order))
          /\ to_ca' = f[Len(order)].out
          /\ objects' = f[Len(order)].objects
          /\ participants' = f[Len(order)].members
          /\ database_objects' = f[Len(order)].stored
  BY <1>2
<1> HIDE DEF d
<1> DEFINE n == Len(order)
           Bad == {i \in Nat : i <= n /\ ~Deleting(d, f[i])}
<1>3. Deleting(d, f[0])
  <2>1. f[0] = before
    BY <1>f DEF Computes
  <2>2. before \in Server
    BY DEF Server, TypeOK
  <2> QED
    BY <2>1, <2>2 DEF Deleting, ForCa
<1>4. ASSUME NEW i \in 1..n, Deleting(d, f[i - 1])
      PROVE  Deleting(d, f[i])
  <2>1. f[i] = Annihilated(f[i - 1], order[i])
    <3>1. i \in 0..n /\ i # 0
      BY <1>f
    <3> HIDE DEF n, before
    <3>2. Computes(f, before, order, n)
      BY <1>f DEF n
    <3> QED
      BY <3>1, <3>2, Zenon DEF Computes
  <2> QED
    BY <1>1, <1>f, <1>4, <2>1, DeletingStep
<1>5. ASSUME Bad # {} PROVE FALSE
  <2>1. PICK k \in Bad : \A j \in Bad : k <= j
    <3>1. Bad \in SUBSET Nat
      OBVIOUS
    <3> HIDE DEF Bad
    <3> QED
      BY <1>5, <3>1, Least
  <2>2. k # 0 /\ k \in 1..n
    BY <1>f, <1>3, <2>1
  <2>3. k - 1 \in Nat /\ k - 1 <= n /\ k - 1 \notin Bad
    BY <1>f, <2>1, <2>2
  <2> QED
    BY <1>4, <2>1, <2>2, <2>3
<1>6. Deleting(d, f[n])
  BY <1>f, <1>5
<1>7. /\ f[n].out \in Seq(CaMessage) /\ f[n].objects \in [DoId -> 0..built]
      /\ f[n].members \subseteq participants /\ f[n].stored \subseteq DoId
  BY <1>6 DEF Deleting, Server
<1>8. ForCa' = ToSet(f[n].out)
  BY <1>f DEF ForCa
<1> QED
  BY <1>f, <1>6, <1>7, <1>8 DEF Deleting, d

\* ... and when there was only the registered participant, none is left.
LEMMA DeleteClears ==
    ASSUME TypeOK, Numbered, OneBody, HandleDeleteRam,
           NEW d, d = Head(to_ss).do_id, d \notin raced
    PROVE  /\ Listeners(d)' = {} /\ objects'[d] = 0 /\ d \notin database_objects'
<1> DEFINE before == [out |-> to_ca, objects |-> objects, members |-> participants,
                      stored |-> database_objects, sound |-> TRUE]
<1>1. d \in DoId
  BY TakesIs, Kinds DEF HandleDeleteRam
<1>2. PICK order \in SetToSeqs(Listeners(d)) : \E f :
          /\ Len(order) = Cardinality(Listeners(d)) /\ Len(order) \in Nat
          /\ \A i \in 1..Len(order) : order[i] \in Listeners(d)
          /\ Computes(f, before, order, Len(order))
          /\ to_ca' = f[Len(order)].out
          /\ objects' = f[Len(order)].objects
          /\ participants' = f[Len(order)].members
          /\ database_objects' = f[Len(order)].stored
  BY DeleteSteps
<1>f. PICK f :
          /\ Len(order) = Cardinality(Listeners(d)) /\ Len(order) \in Nat
          /\ \A i \in 1..Len(order) : order[i] \in Listeners(d)
          /\ Computes(f, before, order, Len(order))
          /\ to_ca' = f[Len(order)].out
          /\ objects' = f[Len(order)].objects
          /\ participants' = f[Len(order)].members
          /\ database_objects' = f[Len(order)].stored
  BY <1>2
<1>3. /\ \A b \in Listeners(d) : b.no = objects[d]
      /\ d \in database_objects <=> \E b \in Listeners(d) : b.db
      /\ objects[d] # 0 => Listeners(d) # {}
  BY <1>1 DEF OneBody
<1>4. f[0] = before
  BY <1>f DEF Computes
<1>5. CASE Listeners(d) = {}
  <2>1. Len(order) = 0
    BY <1>f, <1>5, FS_EmptySet
  <2>2. objects' = objects /\ participants' = participants /\ database_objects' = database_objects
    BY <1>f, <1>4, <2>1
  <2> QED
    BY <1>3, <1>5, <2>2 DEF Listeners
<1>6. ASSUME NEW b \in Listeners(d)
      PROVE  Listeners(d)' = {} /\ objects'[d] = 0 /\ d \notin database_objects'
  <2>1. b \in participants /\ b.do_id = d /\ b.no \in 1..built /\ b.db \in BOOLEAN /\ built \in Nat
    BY Owners DEF Listeners, TypeOK
  <2>2. Listeners(d) = {b}
    BY <1>3, <1>6 DEF Numbered, Listeners
  <2>3. Len(order) = 1 /\ order[1] = b
    <3>1. Len(order) = 1
      BY <1>f, <2>2, FS_Singleton
    <3>2. order[1] \in Listeners(d)
      BY <1>f, <3>1
    <3> QED
      BY <2>2, <3>1, <3>2
  <2>4. f[1] = Annihilated(before, b)
    <3>1. f = [i \in 0..1 |-> IF i = 0 THEN before ELSE Annihilated(f[i - 1], order[i])]
      BY <1>f, <2>3 DEF Computes
    <3> HIDE DEF before
    <3>2. 1 \in 0..1 /\ 1 # 0 /\ 1 - 1 = 0
      OBVIOUS
    <3>3. f[1] = Annihilated(f[1 - 1], order[1])
      BY <3>1, <3>2, Zenon
    <3> QED
      BY <1>4, <2>3, <3>2, <3>3
  <2>5. objects[d] # 0
    BY <1>3, <2>1
  <2>6. /\ f[1].objects = [objects EXCEPT ![d] = 0]
        /\ f[1].members = participants \ {b}
        /\ f[1].stored = IF b.db THEN database_objects \ {d} ELSE database_objects
    <3>1. before.sound /\ before.objects = objects /\ before.members = participants /\ before.stored = database_objects
      OBVIOUS
    <3> HIDE DEF before
    <3> QED
      BY <2>1, <2>4, <2>5, <3>1 DEF Annihilated
  <2>7. objects \in [DoId -> 0..built]
    BY DEF TypeOK
  <2>8. objects'[d] = 0
    BY <1>1, <1>f, <2>3, <2>6, <2>7
  <2>9. d \notin database_objects'
    <3>1. database_objects' = IF b.db THEN database_objects \ {d} ELSE database_objects
      BY <1>f, <2>3, <2>6
    <3>2. ~b.db => d \notin database_objects
      BY <1>3, <2>2
    <3> QED
      BY <3>1, <3>2
  <2>10. Listeners(d)' = {}
    <3>1. participants' = participants \ {b}
      BY <1>f, <2>3, <2>6
    <3> QED
      BY <2>2, <3>1 DEF Listeners
  <2> QED
    BY <2>8, <2>9, <2>10
<1> QED
  BY <1>5, <1>6

-----------------------------------------------------------------------------
(* Steps.                                                                    *)

LEMMA Initially == Init => TypeOK /\ IInv
<1> SUFFICES ASSUME Init PROVE TypeOK /\ IInv
  OBVIOUS
<1>1. TypeOK
  BY ActivationAssumption DEF Init, TypeOK
<1>2. ForSs = {} /\ ForCa = {} /\ Working = {} /\ Len(to_ss) = 0 /\ Len(gets) = 0
  BY DEF Init, ForSs, ForCa, Working, ToSet
<1>3. Apart /\ Awaited /\ Named /\ Once
  BY <1>2 DEF Init, Apart, Awaited, Answering, Named, Once, Activating, Entering
<1>4. Numbered /\ OneBody /\ Served /\ Departed
  BY FS_EmptySet DEF Init, Numbered, OneBody, Listeners, Served, Departed
<1> QED
  BY <1>1, <1>3, <1>4 DEF IInv

\* A session moves on, and asks for nothing.
LEMMA SessionMoves ==
    ASSUME TypeOK, IInv, NEW m \in SsMessage,
           m.type \in {"DELETE_RAM", "GENERATE"},
           to_ss' = Append(to_ss, m),
           \A t \in Session : \A d : Begun(t, d) => Begun(t, d)',
           \A t \in Session : state'[t] # "new" => avatar_id'[t] \in DoId,
           \A t \in Session : state'[t] \in {"playing", "waiting"} => state'[t] = state[t],
           \A t \in entered : state'[t] = "gone" =>
               \/ state[t] = "gone"
               \/ m = DeleteRam(avatar_id[t]),
           UNCHANGED <<ssvars, gets, to_ca, silent, raced, refused, failed, entered>>
    PROVE  to_ss' \in Seq(SsMessage) /\ IInv'
<1> USE DEF IInv, ssvars
<1>1. /\ to_ss' \in Seq(SsMessage) /\ ForSs' = ForSs \union {m}
      /\ ForCa' = ForCa /\ Working' = Working
      /\ \A n \in ForSs : ~Clash(m, n)
  BY Sends DEF ForCa, Working, Clash
<1>2. Apart'
  BY <1>1, Sends
<1>3. /\ \A d : Answering(d)' <=> Answering(d)
      /\ \A t : Activating(t)' <=> Activating(t)
      /\ \A t : Entering(t)' <=> Entering(t)
      /\ \A d : Listeners(d)' = Listeners(d)
  BY <1>1 DEF Answering, Activating, Entering, Listeners
<1>4. Awaited'
  BY <1>1, <1>3 DEF Awaited
<1>5. Once'
  BY <1>1, <1>3 DEF Once
<1>6. Named'
  <2>1. (\A n \in ForSs : n.type = "ACTIVATE" => Begun(n.owner, n.do_id))'
    BY <1>1, Kinds DEF Named
  <2>2. (\A d \in DoId : queries[d] # None => Begun(queries[d], d))'
    BY DEF Named, TypeOK
  <2>3. (\A n \in ForCa : Begun(n.to, n.do_id))'
    BY <1>1, Kinds DEF Named
  <2>4. (\A b \in participants : b.owner # None => Begun(b.owner, b.do_id))'
    BY Owners DEF Named
  <2>5. (\A t \in entered : Begun(t, avatar_id[t]))'
    <3>1. \A t \in entered : t \in Session /\ Begun(t, avatar_id[t])
      BY DEF Named, TypeOK
    <3> QED
      BY <3>1 DEF Begun
  <2>6. \A t \in Session : state'[t] # "new" => avatar_id'[t] \in DoId
    OBVIOUS
  <2> QED
    BY <2>1, <2>2, <2>3, <2>4, <2>5, <2>6 DEF Named
<1>7. Numbered' /\ OneBody'
  BY <1>3 DEF Numbered, OneBody
<1>8. \A t \in Session : state'[t] \in {"playing", "waiting", "closing", "gone"} /\ Begun(t, avatar_id[t]) => avatar_id'[t] = avatar_id[t]
  BY DEF Begun
<1>9. Served'
  <2> SUFFICES ASSUME NEW t \in Session,
                      state'[t] = "playing" \/ (state'[t] = "waiting" /\ Entering(t))
               PROVE  Has(t)'
    BY <1>3 DEF Served
  <2>1. state[t] = state'[t] /\ avatar_id'[t] = avatar_id[t]
    BY DEF Begun
  <2>2. Has(t)
    BY <2>1 DEF Served
  <2> QED
    BY <1>1, <1>3, <2>1, <2>2 DEF Has
<1>10. Departed'
  <2> SUFFICES ASSUME NEW t \in entered, state'[t] = "gone"
               PROVE  \/ avatar_id'[t] \in raced
                      \/ DeleteRam(avatar_id'[t]) \in ForSs'
                      \/ ~(\E b \in Listeners(avatar_id[t]) : b.owner = t)'
    BY DEF Departed
  <2>1. avatar_id'[t] = avatar_id[t]
    BY DEF Named, Begun, TypeOK
  <2> QED
    BY <1>1, <1>3, <2>1 DEF Departed
<1> QED
  BY <1>1, <1>2, <1>4, <1>5, <1>6, <1>7, <1>9, <1>10

LEMMA PurgeKeeps == ASSUME TypeOK, IInv, NEW s \in Session, Purge(s) PROVE TypeOK' /\ IInv'
<1>1. PICK d \in DoId : /\ avatar_id' = [avatar_id EXCEPT ![s] = d]
                        /\ to_ss' = Append(to_ss, DeleteRam(d))
  BY DEF Purge
<1>2. /\ state[s] = "new" /\ state' = [state EXCEPT ![s] = "purging"]
      /\ UNCHANGED <<ssvars, gets, to_ca, generates, silent, raced, refused, failed, entered>>
  BY DEF Purge
<1>3. /\ state \in [Session -> {"new", "purging", "waiting", "playing", "closing", "gone"}]
      /\ avatar_id \in [Session -> DoId \union {None}]
  BY DEF TypeOK
<1>4. /\ state'[s] = "purging" /\ avatar_id'[s] = d
      /\ \A t \in Session \ {s} : state'[t] = state[t] /\ avatar_id'[t] = avatar_id[t]
  BY <1>1, <1>2, <1>3
<1>5. DeleteRam(d) \in SsMessage /\ DeleteRam(d).type \in {"DELETE_RAM", "GENERATE"}
  BY MessageTypes
<1>6. \A t \in Session : \A x : Begun(t, x) => Begun(t, x)'
  BY <1>2, <1>4 DEF Begun
<1>7. to_ss' \in Seq(SsMessage) /\ IInv'
  <2>1. \A t \in Session : state'[t] \in {"playing", "waiting"} => state'[t] = state[t]
    BY <1>4
  <2>2. \A t \in entered : state'[t] = "gone" => state[t] = "gone"
    BY <1>4 DEF TypeOK
  <2>3. \A t \in Session : state'[t] # "new" => avatar_id'[t] \in DoId
    BY <1>4 DEF IInv, Named
  <2> QED
    BY <1>1, <1>2, <1>5, <1>6, <2>1, <2>2, <2>3, SessionMoves
<1>8. TypeOK'
  BY <1>1, <1>2, <1>7 DEF TypeOK, ssvars
<1> QED
  BY <1>7, <1>8

LEMMA ConnectionLostKeeps == ASSUME TypeOK, IInv, NEW s \in Session, ConnectionLost(s) PROVE TypeOK' /\ IInv'
<1>1. /\ state[s] \in {"waiting", "playing", "closing"} /\ state' = [state EXCEPT ![s] = "gone"]
      /\ to_ss' = Append(to_ss, DeleteRam(avatar_id[s]))
      /\ UNCHANGED <<avatar_id, ssvars, gets, to_ca, generates, silent, raced, refused, failed, entered>>
  BY DEF ConnectionLost
<1>2. state \in [Session -> {"new", "purging", "waiting", "playing", "closing", "gone"}]
  BY DEF TypeOK
<1>3. state'[s] = "gone" /\ \A t \in Session \ {s} : state'[t] = state[t]
  BY <1>1, <1>2
<1>4. avatar_id[s] \in DoId
  BY <1>1 DEF IInv, Named
<1>5. /\ DeleteRam(avatar_id[s]) \in SsMessage
      /\ DeleteRam(avatar_id[s]).type \in {"DELETE_RAM", "GENERATE"}
  BY <1>4, MessageTypes
<1>6. \A t \in Session : \A x : Begun(t, x) => Begun(t, x)'
  BY <1>1, <1>3 DEF Begun
<1>7. to_ss' \in Seq(SsMessage) /\ IInv'
  <2>1. \A t \in Session : state'[t] \in {"playing", "waiting"} => state'[t] = state[t]
    BY <1>3
  <2>2. \A t \in entered : state'[t] = "gone" =>
            state[t] = "gone" \/ DeleteRam(avatar_id[s]) = DeleteRam(avatar_id[t])
    BY <1>3 DEF TypeOK
  <2>3. \A t \in Session : state'[t] # "new" => avatar_id'[t] \in DoId
    BY <1>1, <1>3, <1>4 DEF IInv, Named
  <2> QED
    BY <1>1, <1>5, <1>6, <2>1, <2>2, <2>3, SessionMoves
<1>8. TypeOK'
  BY <1>1, <1>2, <1>7 DEF TypeOK, ssvars
<1> QED
  BY <1>7, <1>8

LEMMA SendGenerateKeeps == ASSUME TypeOK, IInv, NEW d \in DoId, SendGenerate(d) PROVE TypeOK' /\ IInv'
<1>1. /\ to_ss' = Append(to_ss, Generate(d)) /\ generates' = generates + 1 /\ generates < MaxGenerates
      /\ UNCHANGED <<state, avatar_id, ssvars, gets, to_ca, silent, raced, refused, failed, entered>>
  BY DEF SendGenerate
<1>2. Generate(d) \in SsMessage /\ Generate(d).type \in {"DELETE_RAM", "GENERATE"}
  BY MessageTypes
<1>3. \A t \in Session : \A x : Begun(t, x) => Begun(t, x)'
  BY <1>1 DEF Begun
<1>4. to_ss' \in Seq(SsMessage) /\ IInv'
  <2>1. \A t \in Session : state'[t] # "new" => avatar_id'[t] \in DoId
    BY <1>1 DEF IInv, Named
  <2>2. \A t \in Session : state'[t] \in {"playing", "waiting"} => state'[t] = state[t]
    BY <1>1
  <2>3. \A t \in entered : state'[t] = "gone" => state[t] = "gone"
    BY <1>1
  <2> QED
    BY <1>1, <1>2, <1>3, <2>1, <2>2, <2>3, SessionMoves
<1>5. generates' \in 0..MaxGenerates
  BY <1>1, ActivationAssumption DEF TypeOK
<1>6. TypeOK'
  BY <1>1, <1>4, <1>5 DEF TypeOK, ssvars
<1> QED
  BY <1>4, <1>6

\* A session that asks has not asked before.
LEMMA LoginKeeps == ASSUME TypeOK, IInv, NEW s \in Session, Login(s) PROVE TypeOK' /\ IInv'
<1> USE DEF IInv
<1>1. /\ state[s] \in {"new", "purging"} /\ state' = [state EXCEPT ![s] = "waiting"]
      /\ UNCHANGED <<objects, database_objects, queries, participants, built, gets, to_ca,
                     generates, silent, raced, refused, failed, entered>>
  BY DEF Login, ssvars
<1>2. PICK d \in DoId : /\ avatar_id' = [avatar_id EXCEPT ![s] = d]
                        /\ to_ss' = Append(to_ss, Activate(d, s))
  BY DEF Login, Named
<1>3. /\ state \in [Session -> {"new", "purging", "waiting", "playing", "closing", "gone"}]
      /\ avatar_id \in [Session -> DoId \union {None}]
  BY DEF TypeOK
<1>4. /\ state'[s] = "waiting" /\ avatar_id'[s] = d
      /\ \A t \in Session \ {s} : state'[t] = state[t] /\ avatar_id'[t] = avatar_id[t]
  BY <1>1, <1>2, <1>3
<1>5. /\ \A x : ~Begun(s, x)
      /\ \A t \in Session : \A x : Begun(t, x) => Begun(t, x)' /\ t # s
  BY <1>1, <1>4 DEF Begun
<1>6. /\ ~Activating(s) /\ ~Entering(s) /\ s \notin entered
      /\ \A x \in DoId : queries[x] # s
  <2>1. s # None
    BY ActivationAssumption
  <2> QED
    BY <1>5, <2>1, Kinds DEF Named, Activating, Entering
<1>7. Activate(d, s) \in SsMessage /\ Activate(d, s).type = "ACTIVATE" /\ Activate(d, s).owner = s /\ Activate(d, s).do_id = d
  BY MessageTypes DEF Activate
<1>8. \A n \in ForSs : ~Clash(Activate(d, s), n)
  BY <1>6, <1>7 DEF Clash, Activating
<1>9. to_ss' \in Seq(SsMessage) /\ ForSs' = ForSs \union {Activate(d, s)} /\ Apart'
  BY <1>2, <1>7, <1>8, Sends
<1>10. ForCa' = ForCa /\ Working' = Working /\ \A x : Listeners(x)' = Listeners(x)
  BY <1>1 DEF ForCa, Working, Listeners
<1>11. /\ \A x : Answering(x)' <=> Answering(x)
       /\ \A t : Activating(t)' <=> Activating(t) \/ t = s
       /\ \A t : Entering(t)' <=> Entering(t)
  BY <1>7, <1>9, <1>10 DEF Answering, Activating, Entering
<1>12. Awaited' /\ Once'
  BY <1>1, <1>6, <1>10, <1>11 DEF Awaited, Once
<1>13. Named'
  <2>1. (\A n \in ForSs : n.type = "ACTIVATE" => Begun(n.owner, n.do_id))'
    <3>1. Begun(s, d)'
      BY <1>4 DEF Begun
    <3> QED
      BY <1>5, <1>7, <1>9, <3>1, Kinds DEF Named
  <2>2. (\A x \in DoId : queries[x] # None => Begun(queries[x], x))'
    BY <1>1, <1>5 DEF Named, TypeOK
  <2>3. (\A n \in ForCa : Begun(n.to, n.do_id))'
    BY <1>5, <1>10, Kinds DEF Named
  <2>4. (\A b \in participants : b.owner # None => Begun(b.owner, b.do_id))'
    BY <1>1, <1>5, Owners DEF Named
  <2>5. \A t \in entered' : Begun(t, avatar_id[t])' /\ t # s
    BY <1>1, <1>4, <1>5, <1>6 DEF Named, TypeOK, Begun
  <2>6. \A t \in Session : state'[t] # "new" => avatar_id'[t] \in DoId
    BY <1>4 DEF Named
  <2> QED
    BY <2>1, <2>2, <2>3, <2>4, <2>5, <2>6 DEF Named
<1>14. Numbered' /\ OneBody'
  BY <1>1, <1>10 DEF Numbered, OneBody
<1>15. Served'
  <2> SUFFICES ASSUME NEW t \in Session,
                      state'[t] = "playing" \/ (state'[t] = "waiting" /\ Entering(t))
               PROVE  Has(t)'
    BY <1>11 DEF Served
  <2>1. t # s
    BY <1>4, <1>6
  <2>2. Has(t) /\ avatar_id'[t] = avatar_id[t]
    BY <1>4, <2>1 DEF Served
  <2> QED
    BY <1>10, <2>2 DEF Has
<1>16. Departed'
  <2> SUFFICES ASSUME NEW t \in entered, state'[t] = "gone"
               PROVE  \/ avatar_id'[t] \in raced
                      \/ DeleteRam(avatar_id'[t]) \in ForSs'
                      \/ ~(\E b \in Listeners(avatar_id[t]) : b.owner = t)'
    BY <1>1 DEF Departed
  <2>1. avatar_id'[t] = avatar_id[t] /\ state[t] = "gone"
    BY <1>4, <1>6 DEF TypeOK
  <2> QED
    BY <1>9, <1>10, <2>1 DEF Departed
<1>17. TypeOK'
  BY <1>1, <1>2, <1>9 DEF TypeOK
<1> QED
  BY <1>9, <1>12, <1>13, <1>14, <1>15, <1>16, <1>17

LEMMA AnswerGetKeeps == ASSUME TypeOK, IInv, NEW k \in DOMAIN gets, AnswerGet(k) PROVE TypeOK' /\ IInv'
<1> USE DEF IInv
<1> DEFINE d == gets[k]
<1>1. PICK full \in BOOLEAN : to_ss' = Append(to_ss, Values(d, full))
  BY DEF AnswerGet
<1>2. /\ gets' = RemoveAt(gets, k)
      /\ UNCHANGED <<state, avatar_id, objects, database_objects, queries, participants, built,
                     to_ca, generates, silent, raced, refused, failed, entered>>
  BY DEF AnswerGet, ssvars
<1>3. /\ gets' \in Seq(DoId) /\ Working' = Working \ {d} /\ d \in DoId /\ d \in Working
      /\ \A i, j \in 1..Len(gets') : i # j => gets'[i] # gets'[j]
  <2>1. gets \in Seq(DoId) /\ \A i, j \in 1..Len(gets) : i # j => gets[i] # gets[j]
    BY DEF TypeOK, Awaited
  <2>2. d \in Working
    BY DEF Working, ToSet
  <2> QED
    BY <1>2, <2>1, <2>2, Removed DEF Working
<1> DEFINE m == Values(d, full)
<1>4. m \in SsMessage /\ m.type = "VALUES" /\ m.do_id = d
  BY <1>1, <1>3, MessageTypes
<1> HIDE DEF d, m
<1>5. ~Answering(d) /\ d \notin silent
  BY <1>3 DEF Awaited
<1>6. \A n \in ForSs : ~Clash(m, n)
  BY <1>4, <1>5 DEF Clash, Answering
<1>7. to_ss' \in Seq(SsMessage) /\ ForSs' = ForSs \union {m} /\ Apart'
  BY <1>1, <1>4, <1>6, Sends DEF m
<1>8. ForCa' = ForCa /\ \A x : Listeners(x)' = Listeners(x)
  BY <1>2 DEF ForCa, Listeners
<1>9. /\ \A x : Answering(x)' <=> Answering(x) \/ x = d
      /\ \A t : Activating(t)' <=> Activating(t)
      /\ \A t : Entering(t)' <=> Entering(t)
  BY <1>4, <1>7, <1>8 DEF Answering, Activating, Entering
<1>10. Awaited'
  BY <1>2, <1>3, <1>5, <1>9 DEF Awaited
<1>11. Once'
  BY <1>2, <1>9 DEF Once
<1>12. Named'
  BY <1>2, <1>4, <1>7, <1>8 DEF Named, Begun
<1>13. Numbered' /\ OneBody' /\ Served' /\ Departed'
  BY <1>2, <1>7, <1>8, <1>9 DEF Numbered, OneBody, Served, Has, Departed
<1>14. TypeOK'
  BY <1>2, <1>3, <1>7 DEF TypeOK
<1> QED
  BY <1>7, <1>10, <1>11, <1>12, <1>13, <1>14

LEMMA LoseGetKeeps == ASSUME TypeOK, IInv, NEW k \in DOMAIN gets, LoseGet(k) PROVE TypeOK' /\ IInv'
<1> USE DEF IInv
<1> DEFINE d == gets[k]
<1>1. /\ silent' = silent \union {d} /\ gets' = RemoveAt(gets, k)
      /\ UNCHANGED <<state, avatar_id, objects, database_objects, queries, participants, built,
                     to_ss, to_ca, generates, raced, refused, failed, entered>>
  BY DEF LoseGet, ssvars
<1>2. /\ gets' \in Seq(DoId) /\ Working' = Working \ {d} /\ d \in DoId /\ d \in Working
      /\ \A i, j \in 1..Len(gets') : i # j => gets'[i] # gets'[j]
  <2>1. gets \in Seq(DoId) /\ \A i, j \in 1..Len(gets) : i # j => gets[i] # gets[j]
    BY DEF TypeOK, Awaited
  <2>2. d \in Working
    BY DEF Working, ToSet
  <2> QED
    BY <1>1, <2>1, <2>2, Removed DEF Working
<1> HIDE DEF d
<1>3. ~Answering(d) /\ d \notin silent
  BY <1>2 DEF Awaited
<1>4. ForSs' = ForSs /\ ForCa' = ForCa /\ \A x : Listeners(x)' = Listeners(x)
  BY <1>1 DEF ForSs, ForCa, Listeners
<1>5. /\ \A x : Answering(x)' <=> Answering(x)
      /\ \A t : Activating(t)' <=> Activating(t)
      /\ \A t : Entering(t)' <=> Entering(t)
  BY <1>4 DEF Answering, Activating, Entering
<1>6. Awaited'
  BY <1>1, <1>2, <1>3, <1>5 DEF Awaited
<1>7. Apart' /\ Once' /\ Named'
  BY <1>1, <1>4, <1>5 DEF Apart, Once, Named, Begun
<1>8. Numbered' /\ OneBody' /\ Served' /\ Departed'
  BY <1>1, <1>4, <1>5 DEF Numbered, OneBody, Served, Has, Departed
<1>9. TypeOK'
  BY <1>1, <1>2 DEF TypeOK
<1> QED
  BY <1>6, <1>7, <1>8, <1>9

\* A datagram for the client agent is taken.
LEMMA Hears ==
    ASSUME TypeOK, to_ca # <<>>, to_ca' = Tail(to_ca)
    PROVE  LET m == Head(to_ca)
           IN  /\ m \in CaMessage /\ m \in ForCa /\ m.to \in Session /\ m.do_id \in DoId
               /\ to_ca' \in Seq(CaMessage)
               /\ ForCa = ForCa' \union {m}
<1>1. to_ca \in Seq(CaMessage)
  BY DEF TypeOK
<1> QED
  BY <1>1, Taken, Kinds DEF ForCa

LEMMA EntranceKeeps == ASSUME TypeOK, IInv, HandleOwnedObjectEntrance PROVE TypeOK' /\ IInv'
<1> USE DEF IInv
<1> DEFINE m == Head(to_ca)
           s == m.to
<1>1. /\ to_ca # <<>> /\ m.type = "ENTER_OWNER" /\ to_ca' = Tail(to_ca)
      /\ entered' = IF state[s] = "gone" THEN entered ELSE entered \union {s}
      /\ state' = IF state[s] = "waiting" THEN [state EXCEPT ![s] = "playing"] ELSE state
      /\ UNCHANGED <<avatar_id, objects, database_objects, queries, participants, built, gets,
                     to_ss, generates, silent, raced, refused, failed>>
  BY DEF HandleOwnedObjectEntrance, ssvars
<1>2. /\ m \in ForCa /\ s \in Session /\ to_ca' \in Seq(CaMessage) /\ ForCa = ForCa' \union {m}
  BY <1>1, Hears
<1> HIDE DEF m
<1>3. /\ Entering(s) /\ Begun(s, m.do_id)
      /\ ~Activating(s) /\ \A d \in DoId : queries[d] # s
  BY <1>1, <1>2 DEF Entering, Named, Once
<1>4. /\ ForSs' = ForSs /\ Working' = Working
      /\ \A x : Listeners(x)' = Listeners(x)
  BY <1>1 DEF ForSs, Working, Listeners
<1>5. /\ \A x : Answering(x)' <=> Answering(x)
      /\ \A t : Activating(t)' <=> Activating(t)
      /\ \A t : Entering(t)' => Entering(t)
  BY <1>2, <1>4 DEF Answering, Activating, Entering
<1>6. state \in [Session -> {"new", "purging", "waiting", "playing", "closing", "gone"}]
  BY DEF TypeOK
<1>7. /\ state'[s] = IF state[s] = "waiting" THEN "playing" ELSE state[s]
      /\ \A t \in Session \ {s} : state'[t] = state[t]
  BY <1>1, <1>2, <1>6
<1>8. \A t \in Session : \A x : Begun(t, x) => Begun(t, x)'
  BY <1>1, <1>7 DEF Begun
<1>9. Apart' /\ Awaited'
  BY <1>1, <1>4, <1>5 DEF Apart, Awaited
<1>10. Once'
  BY <1>1, <1>3, <1>5 DEF Once
<1>11. Named'
  <2>1. (\A n \in ForSs : n.type = "ACTIVATE" => Begun(n.owner, n.do_id))'
    BY <1>4, <1>8, Kinds DEF Named
  <2>2. (\A x \in DoId : queries[x] # None => Begun(queries[x], x))'
    BY <1>1, <1>8 DEF Named, TypeOK
  <2>3. (\A n \in ForCa : Begun(n.to, n.do_id))'
    BY <1>2, <1>8, Kinds DEF Named
  <2>4. (\A b \in participants : b.owner # None => Begun(b.owner, b.do_id))'
    BY <1>1, <1>8, Owners DEF Named
  <2>5. \A t \in entered' : Begun(t, avatar_id[t])'
    <3>1. \A t \in entered' : t \in Session /\ Begun(t, avatar_id[t])
      BY <1>1, <1>2, <1>3 DEF Named, TypeOK, Begun
    <3> QED
      BY <1>1, <1>8, <3>1
  <2>6. \A t \in Session : state'[t] # "new" => avatar_id'[t] \in DoId
    BY <1>1, <1>7 DEF Named
  <2> QED
    BY <2>1, <2>2, <2>3, <2>4, <2>5, <2>6 DEF Named
<1>12. Numbered' /\ OneBody'
  BY <1>1, <1>4 DEF Numbered, OneBody
<1>13. \A t \in Session : Has(t) => Has(t)'
  BY <1>1, <1>2, <1>4 DEF Has, Deleted
<1>14. Served'
  <2> SUFFICES ASSUME NEW t \in Session,
                      state'[t] = "playing" \/ (state'[t] = "waiting" /\ Entering(t))
               PROVE  Has(t)'
    BY <1>5 DEF Served
  <2>1. Has(t)
    BY <1>3, <1>7 DEF Served
  <2> QED
    BY <1>13, <2>1
<1>15. Departed'
  <2> SUFFICES ASSUME NEW t \in entered', state'[t] = "gone"
               PROVE  \/ avatar_id[t] \in raced
                      \/ DeleteRam(avatar_id[t]) \in ForSs
                      \/ ~\E b \in Listeners(avatar_id[t]) : b.owner = t
    BY <1>1, <1>4 DEF Departed
  <2>1. t \in Session /\ state[t] = "gone" /\ t \in entered
    BY <1>1, <1>2, <1>7 DEF TypeOK
  <2> QED
    BY <2>1 DEF Departed
<1>16. TypeOK'
  <2>1. state' \in [Session -> {"new", "purging", "waiting", "playing", "closing", "gone"}]
    BY <1>1, <1>6
  <2>2. entered' \subseteq Session
    BY <1>1, <1>2 DEF TypeOK
  <2> QED
    BY <1>1, <1>2, <2>1, <2>2 DEF TypeOK
<1> QED
  BY <1>9, <1>10, <1>11, <1>12, <1>14, <1>15, <1>16

LEMMA DeletedKeeps == ASSUME TypeOK, IInv, HandleDeleted PROVE TypeOK' /\ IInv'
<1> USE DEF IInv
<1> DEFINE m == Head(to_ca)
           s == m.to
<1>1. /\ to_ca # <<>> /\ m.type = "DELETE_RAM" /\ to_ca' = Tail(to_ca)
      /\ state' = IF state[s] = "gone" THEN state ELSE [state EXCEPT ![s] = "closing"]
      /\ UNCHANGED <<avatar_id, objects, database_objects, queries, participants, built, gets,
                     to_ss, generates, silent, raced, refused, failed, entered>>
  BY DEF HandleDeleted, ssvars
<1>2. /\ m \in ForCa /\ s \in Session /\ to_ca' \in Seq(CaMessage) /\ ForCa = ForCa' \union {m}
      /\ m.do_id \in DoId
  BY <1>1, Hears
<1> HIDE DEF m
<1>3. /\ ForSs' = ForSs /\ Working' = Working
      /\ \A x : Listeners(x)' = Listeners(x)
  BY <1>1 DEF ForSs, Working, Listeners
<1>4. /\ \A x : Answering(x)' <=> Answering(x)
      /\ \A t : Activating(t)' <=> Activating(t)
      /\ \A t : Entering(t)' <=> Entering(t)
  BY <1>1, <1>2, <1>3 DEF Answering, Activating, Entering
<1>5. state \in [Session -> {"new", "purging", "waiting", "playing", "closing", "gone"}]
  BY DEF TypeOK
<1>6. /\ state'[s] \in {"closing", "gone"} /\ (state'[s] = "gone" <=> state[s] = "gone")
      /\ \A t \in Session \ {s} : state'[t] = state[t]
  BY <1>1, <1>2, <1>5
<1>7. Begun(s, m.do_id) /\ \A t \in Session : \A x : Begun(t, x) => Begun(t, x)'
  BY <1>1, <1>2, <1>6 DEF Named, Begun
<1>8. Apart' /\ Awaited'
  BY <1>1, <1>3, <1>4 DEF Apart, Awaited
<1>9. Once'
  BY <1>1, <1>4 DEF Once
<1>10. Named'
  <2>1. (\A n \in ForSs : n.type = "ACTIVATE" => Begun(n.owner, n.do_id))'
    BY <1>3, <1>7, Kinds DEF Named
  <2>2. (\A x \in DoId : queries[x] # None => Begun(queries[x], x))'
    BY <1>1, <1>7 DEF Named, TypeOK
  <2>3. (\A n \in ForCa : Begun(n.to, n.do_id))'
    BY <1>2, <1>7, Kinds DEF Named
  <2>4. (\A b \in participants : b.owner # None => Begun(b.owner, b.do_id))'
    BY <1>1, <1>7, Owners DEF Named
  <2>5. \A t \in entered' : Begun(t, avatar_id[t])'
    <3>1. \A t \in entered' : t \in Session /\ Begun(t, avatar_id[t])
      BY <1>1 DEF Named, TypeOK, Begun
    <3> QED
      BY <1>1, <1>7, <3>1
  <2>6. \A t \in Session : state'[t] # "new" => avatar_id'[t] \in DoId
    <3>1. avatar_id[s] \in DoId
      BY <1>2, <1>7 DEF Begun
    <3> QED
      BY <1>1, <1>6, <3>1 DEF Named
  <2> QED
    BY <2>1, <2>2, <2>3, <2>4, <2>5, <2>6 DEF Named
<1>11. Numbered' /\ OneBody'
  BY <1>1, <1>3 DEF Numbered, OneBody
<1>12. \A t \in Session \ {s} : Has(t) => Has(t)'
  <2>1. \A t \in Session \ {s} : \A x : Deleted(x, t) # m
    BY DEF Deleted
  <2> QED
    BY <1>1, <1>2, <1>3, <2>1 DEF Has
<1>13. Served'
  BY <1>4, <1>6, <1>12 DEF Served
<1>14. Departed'
  <2> SUFFICES ASSUME NEW t \in entered, state'[t] = "gone"
               PROVE  \/ avatar_id[t] \in raced
                      \/ DeleteRam(avatar_id[t]) \in ForSs
                      \/ ~\E b \in Listeners(avatar_id[t]) : b.owner = t
    BY <1>1, <1>3 DEF Departed
  <2>1. state[t] = "gone"
    BY <1>6 DEF TypeOK
  <2> QED
    BY <2>1 DEF Departed
<1>15. TypeOK'
  <2>1. state' \in [Session -> {"new", "purging", "waiting", "playing", "closing", "gone"}]
    BY <1>1, <1>5
  <2> QED
    BY <1>1, <1>2, <2>1 DEF TypeOK
<1> QED
  BY <1>8, <1>9, <1>10, <1>11, <1>13, <1>14, <1>15

LEMMA DbGenerateKeeps == ASSUME TypeOK, IInv, HandleDbGenerate PROVE TypeOK' /\ IInv'
<1> USE DEF IInv
<1>m. PICK m : m = Head(to_ss)
  OBVIOUS
<1> DEFINE d == m.do_id
           s == m.owner
<1>1. /\ UNCHANGED <<state, avatar_id, objects, database_objects, participants, built, to_ca,
                     generates, silent, raced, failed, entered>>
      /\ \/ /\ Duplicate(d)
            /\ refused' = refused \union {s} /\ UNCHANGED <<queries, gets>>
         \/ /\ ~Duplicate(d)
            /\ queries' = [queries EXCEPT ![d] = s] /\ gets' = Append(gets, d)
            /\ UNCHANGED refused
  BY <1>m DEF HandleDbGenerate
<1>2. /\ m \in ForSs /\ m.type = "ACTIVATE" /\ to_ss' \in Seq(SsMessage)
      /\ ForSs = ForSs' \union {m} /\ Apart' /\ \A n \in ForSs' : ~Clash(m, n)
      /\ s \in Session /\ d \in DoId /\ s # None
  BY <1>m, TakesIs, Kinds, ActivationAssumption DEF HandleDbGenerate
<1>3. Begun(s, d)
  BY <1>2 DEF Named
<1>4. /\ ~Entering(s) /\ s \notin entered /\ \A x \in DoId : queries[x] # s
  BY <1>2 DEF Once, Activating
<1>5. ForCa' = ForCa /\ \A x : Listeners(x)' = Listeners(x)
  BY <1>1 DEF ForCa, Listeners
<1>6. /\ \A x : Answering(x)' <=> Answering(x)
      /\ \A t : Activating(t)' => Activating(t) /\ t # s
      /\ \A t : Entering(t)' <=> Entering(t)
  BY <1>2, <1>5 DEF Answering, Activating, Entering, Clash
<1>7. Named' /\ Once' /\ Awaited' /\ gets' \in Seq(DoId) /\ queries' \in [DoId -> Session \union {None}]
  <2>1. CASE Duplicate(d)
    <3>1. UNCHANGED <<queries, gets>> /\ Working' = Working
      BY <1>1, <2>1 DEF Working
    <3>2. Named'
      BY <1>1, <1>2, <1>5, <3>1 DEF Named, Begun
    <3>3. Once' /\ Awaited'
      BY <1>1, <1>6, <3>1 DEF Once, Awaited
    <3> QED
      BY <3>1, <3>2, <3>3 DEF TypeOK
  <2>2. CASE ~Duplicate(d)
    <3>1. queries' = [queries EXCEPT ![d] = s] /\ gets' = Append(gets, d) /\ queries[d] = None
      BY <1>1, <2>2 DEF Duplicate
    <3>2. /\ queries' \in [DoId -> Session \union {None}] /\ queries'[d] = s
          /\ \A x \in DoId \ {d} : queries'[x] = queries[x]
      BY <1>2, <3>1 DEF TypeOK
    <3>3. gets' \in Seq(DoId) /\ Working' = Working \union {d}
      BY <1>2, <3>1, Appended DEF TypeOK, Working
    <3>4. d \notin Working /\ ~Answering(d) /\ d \notin silent
      BY <1>2, <3>1 DEF Awaited
    <3>5. \A i, j \in 1..Len(gets') : i # j => gets'[i] # gets'[j]
      <4>1. /\ Len(gets) \in Nat /\ Len(gets') = Len(gets) + 1 /\ gets'[Len(gets) + 1] = d
            /\ \A i \in 1..Len(gets) : gets'[i] = gets[i]
            /\ \A i \in 1..Len(gets) : gets[i] # d
        BY <3>1, <3>4 DEF TypeOK, Working, ToSet
      <4> QED
        BY <4>1 DEF Awaited
    <3>6. Awaited'
      BY <1>1, <1>2, <1>6, <3>2, <3>3, <3>4, <3>5 DEF Awaited
    <3>7. Once'
      BY <1>1, <1>4, <1>6, <3>2 DEF Once
    <3>8. Named'
      BY <1>1, <1>2, <1>3, <1>5, <3>2 DEF Named, Begun
    <3> QED
      BY <3>2, <3>3, <3>6, <3>7, <3>8
  <2> QED
    BY <2>1, <2>2
<1>8. Numbered' /\ OneBody' /\ Served'
  BY <1>1, <1>5, <1>6 DEF Numbered, OneBody, Served, Has
<1>9. Departed'
  BY <1>1, <1>2, <1>5 DEF Departed, DeleteRam
<1>10. TypeOK'
  BY <1>1, <1>2, <1>7 DEF TypeOK
<1> QED
  BY <1>2, <1>7, <1>8, <1>9, <1>10

\* A participant is built.
LEMMA Built ==
    ASSUME TypeOK, Numbered, NEW d \in DoId, NEW o \in Session \union {None},
           NEW db \in BOOLEAN, NEW listens \in BOOLEAN,
           built' = built + 1, participants' = participants \union {Body(d, o, db, listens)},
           objects' = objects \/ objects' = [objects EXCEPT ![d] = built']
    PROVE  /\ built' \in Nat /\ participants' \subseteq Participant(built')
           /\ objects' \in [DoId -> 0..built']
           /\ Numbered'
<1> DEFINE b == Body(d, o, db, listens)
<1>1. built \in Nat /\ participants \subseteq Participant(built) /\ objects \in [DoId -> 0..built]
  BY DEF TypeOK
<1>2. Participant(built) \subseteq Participant(built') /\ 0..built \subseteq 0..built'
  BY <1>1 DEF Participant
<1>3. b \in Participant(built') /\ b.no = built + 1
  BY <1>1 DEF Body, Participant
<1> HIDE DEF b
<1>4. \A c \in participants : c.no # b.no
  BY <1>1, <1>3, Owners
<1>5. participants' = participants \union {b}
  BY DEF b
<1>6. IsFiniteSet(participants')
  BY <1>5, FS_AddElement DEF Numbered
<1>7. Numbered'
  BY <1>4, <1>5, <1>6 DEF Numbered
<1>8. objects' \in [DoId -> 0..built']
  BY <1>1, <1>2
<1> QED
  BY <1>1, <1>2, <1>3, <1>5, <1>7, <1>8

LEMMA GenerateKeeps == ASSUME TypeOK, IInv, HandleGenerate PROVE TypeOK' /\ IInv'
<1> USE DEF IInv
<1>m. PICK m : m = Head(to_ss)
  OBVIOUS
<1> DEFINE d == m.do_id
<1>b. PICK b : b = Body(d, None, FALSE, TRUE)
  OBVIOUS
<1>1. /\ UNCHANGED <<state, avatar_id, database_objects, queries, gets, to_ca,
                     generates, silent, raced, refused, failed, entered>>
      /\ \/ objects[d] # 0 /\ UNCHANGED <<objects, participants, built>>
         \/ /\ objects[d] = 0 /\ built' = built + 1
            /\ participants' = participants \union {b}
            /\ objects' = [objects EXCEPT ![d] = built']
  BY <1>m, <1>b DEF HandleGenerate
<1>2. /\ m \in ForSs /\ m.type = "GENERATE" /\ to_ss' \in Seq(SsMessage)
      /\ ForSs = ForSs' \union {m} /\ Apart' /\ d \in DoId
  BY <1>m, TakesIs, Kinds DEF HandleGenerate
<1>3. ForCa' = ForCa /\ Working' = Working
  BY <1>1 DEF ForCa, Working
<1>4. /\ \A x : Answering(x)' <=> Answering(x)
      /\ \A t : Activating(t)' <=> Activating(t)
      /\ \A t : Entering(t)' <=> Entering(t)
  BY <1>2, <1>3 DEF Answering, Activating, Entering
<1>5. Awaited' /\ Once'
  BY <1>1, <1>3, <1>4 DEF Awaited, Once
<1>6. CASE UNCHANGED <<objects, participants, built>>
  <2>1. \A x : Listeners(x)' = Listeners(x)
    BY <1>6 DEF Listeners
  <2>2. Named'
    BY <1>1, <1>2, <1>3, <1>6 DEF Named, Begun
  <2>3. Numbered' /\ OneBody' /\ Served'
    BY <1>1, <1>3, <1>4, <1>6, <2>1 DEF Numbered, OneBody, Served, Has
  <2>4. Departed'
    BY <1>1, <1>2, <2>1 DEF Departed, DeleteRam
  <2>5. TypeOK'
    BY <1>1, <1>2, <1>6 DEF TypeOK
  <2> QED
    BY <1>2, <1>5, <2>2, <2>3, <2>4, <2>5
<1>7. CASE /\ objects[d] = 0 /\ built' = built + 1
           /\ participants' = participants \union {b}
           /\ objects' = [objects EXCEPT ![d] = built']
  <2>1. /\ b.no = built + 1 /\ b.do_id = d /\ b.owner = None /\ b.db = FALSE /\ b.listens = TRUE
        /\ built \in Nat
    BY <1>b DEF Body, TypeOK
  <2>2. TypeOK'
    <3>1. /\ built' \in Nat /\ participants' \subseteq Participant(built')
          /\ objects' \in [DoId -> 0..built']
      BY <1>2, <1>7, <1>b, Built
    <3> QED
      BY <1>1, <1>2, <3>1 DEF TypeOK
  <2>3. Numbered'
    BY <1>2, <1>7, <1>b, Built
  <2>4. /\ Listeners(d)' = Listeners(d) \union {b}
        /\ \A x \in DoId \ {d} : Listeners(x)' = Listeners(x)
    <3>1. b.listens /\ b.do_id = d
      BY <2>1
    <3> QED
      BY <1>7, <3>1 DEF Listeners
  <2>5. OneBody'
    <3>1. d \notin raced => Listeners(d) = {} /\ d \notin database_objects
      <4>1. \A c \in Listeners(d) : c.no # 0
        BY Owners DEF Listeners
      <4> QED
        BY <1>2, <1>7, <4>1 DEF OneBody
    <3>2. objects'[d] = built + 1 /\ \A x \in DoId \ {d} : objects'[x] = objects[x]
      BY <1>2, <1>7 DEF TypeOK
    <3>3. ASSUME NEW x \in DoId \ raced, x # d
          PROVE  /\ \A c \in Listeners(x)' : c.no = objects'[x]
                 /\ x \in database_objects' <=> \E c \in Listeners(x)' : c.db
                 /\ objects'[x] # 0 => Listeners(x)' # {}
      BY <1>1, <2>4, <3>2, <3>3 DEF OneBody
    <3>4. ASSUME d \notin raced
          PROVE  /\ \A c \in Listeners(d)' : c.no = objects'[d]
                 /\ d \in database_objects' <=> \E c \in Listeners(d)' : c.db
                 /\ objects'[d] # 0 => Listeners(d)' # {}
      <4>1. ~b.db
        BY <2>1
      <4> QED
        BY <1>1, <2>1, <2>4, <3>1, <3>2, <3>4, <4>1
    <3> QED
      BY <1>1, <3>3, <3>4 DEF OneBody
  <2>6. Named'
    BY <1>1, <1>2, <1>3, <1>7, <2>1 DEF Named, Begun
  <2>7. \A x : Listeners(x) \subseteq Listeners(x)' /\ \A c \in Listeners(x)' \ Listeners(x) : c.owner = None
    BY <1>7, <2>1 DEF Listeners
  <2>8. Served'
    BY <1>1, <1>3, <1>4, <2>7 DEF Served, Has
  <2>9. Departed'
    <3>1. \A t \in entered : t # None
      BY ActivationAssumption DEF TypeOK
    <3>2. \A x : DeleteRam(x) # m
      BY <1>2 DEF DeleteRam
    <3> QED
      BY <1>1, <1>2, <2>7, <3>1, <3>2 DEF Departed
  <2> QED
    BY <1>2, <1>5, <2>2, <2>3, <2>5, <2>6, <2>8, <2>9
<1> QED
  BY <1>1, <1>6, <1>7

LEMMA ActivateKeeps == ASSUME TypeOK, IInv, ActivateCallback PROVE TypeOK' /\ IInv'
<1> USE DEF IInv
<1>m. PICK m : m = Head(to_ss)
  OBVIOUS
<1> DEFINE d == m.do_id
<1>s. PICK s : s = queries[d]
  OBVIOUS
<1>1. /\ m \in ForSs /\ m.type = "VALUES" /\ m.full \in BOOLEAN /\ to_ss' \in Seq(SsMessage)
      /\ ForSs = ForSs' \union {m} /\ Apart' /\ d \in DoId
      /\ \A n \in ForSs' : ~Clash(m, n)
  BY <1>m, TakesIs, Kinds DEF ActivateCallback
<1>2. s # None /\ s \in Session /\ d \notin Working /\ d \notin silent
  BY <1>1, <1>s DEF Awaited, Answering, TypeOK
<1>3. PICK registers \in BOOLEAN :
          /\ m.full => registers
          /\ queries' = [queries EXCEPT ![d] = None]
          /\ built' = built + 1
          /\ participants' = participants \union {Body(d, s, TRUE, registers)}
          /\ IF registers
             THEN /\ objects' = [objects EXCEPT ![d] = built']
                  /\ database_objects' = database_objects \union {d}
                  /\ raced' = IF objects[d] # 0 THEN raced \union {d} ELSE raced
             ELSE UNCHANGED <<objects, database_objects, raced>>
          /\ to_ca' = IF m.full THEN Append(to_ca, Entrance(d, s)) ELSE to_ca
          /\ failed' = IF m.full THEN failed ELSE failed \union {s}
  BY <1>2, <1>m, <1>s DEF ActivateCallback
<1>4. UNCHANGED <<state, avatar_id, gets, generates, silent, refused, entered>>
  BY DEF ActivateCallback
<1>b. PICK b : b = Body(d, s, TRUE, registers)
  OBVIOUS
<1>5. /\ b.no = built + 1 /\ b.do_id = d /\ b.owner = s /\ b.db = TRUE /\ b.listens = registers
      /\ built \in Nat /\ participants' = participants \union {b}
  BY <1>3, <1>b DEF Body, TypeOK
<1>6. /\ built' \in Nat /\ participants' \subseteq Participant(built')
      /\ objects' \in [DoId -> 0..built'] /\ Numbered'
  BY <1>1, <1>2, <1>3, Built
<1>7. Begun(s, d)
  BY <1>1, <1>2, <1>s DEF Named
<1>8. ~Activating(s) /\ ~Entering(s) /\ s \notin entered /\ \A x \in DoId : queries[x] = s => x = d
  <2>1. \A x \in DoId : queries[x] = s => x = d
    BY <1>2, <1>7 DEF Named, Begun
  <2> QED
    BY <1>1, <1>2, <1>s, <2>1 DEF Once
<1>9. /\ queries' \in [DoId -> Session \union {None}] /\ queries'[d] = None
      /\ \A x \in DoId \ {d} : queries'[x] = queries[x]
  BY <1>1, <1>3 DEF TypeOK
<1>10. /\ to_ca' \in Seq(CaMessage)
       /\ ForCa' = IF m.full THEN ForCa \union {Entrance(d, s)} ELSE ForCa
  <2>1. Entrance(d, s) \in CaMessage
    BY <1>1, <1>2, MessageTypes
  <2>2. to_ca \in Seq(CaMessage)
    BY DEF TypeOK
  <2>3. CASE m.full
    BY <1>3, <2>1, <2>2, <2>3, Appended DEF ForCa
  <2>4. CASE ~m.full
    BY <1>3, <2>2, <2>4 DEF ForCa
  <2> QED
    BY <2>3, <2>4
<1>11. Entrance(d, s).to = s /\ Entrance(d, s).do_id = d
  BY DEF Entrance
<1>12. Working' = Working
  BY <1>4 DEF Working
<1>13. /\ \A x : Answering(x)' <=> Answering(x) /\ x # d
       /\ \A t : Activating(t)' <=> Activating(t)
       /\ \A t : Entering(t)' => Entering(t) \/ (t = s /\ m.full)
  BY <1>1, <1>10, <1>11 DEF Answering, Activating, Entering, Clash
<1>14. Awaited'
  BY <1>1, <1>2, <1>4, <1>9, <1>12, <1>13 DEF Awaited
<1>15. Once'
  <2>1. \A x \in DoId : queries'[x] # s
    BY <1>2, <1>8, <1>9
  <2>2. \A t \in Session, x \in DoId : queries'[x] = t => queries[x] = t
    BY <1>9, ActivationAssumption
  <2> QED
    BY <1>4, <1>8, <1>13, <2>1, <2>2 DEF Once
<1>16. Named'
  <2>1. (\A n \in ForSs : n.type = "ACTIVATE" => Begun(n.owner, n.do_id))'
    BY <1>1, <1>4 DEF Named, Begun
  <2>2. (\A x \in DoId : queries[x] # None => Begun(queries[x], x))'
    BY <1>4, <1>9 DEF Named, Begun
  <2>3. (\A n \in ForCa : Begun(n.to, n.do_id))'
    BY <1>4, <1>7, <1>10, <1>11 DEF Named, Begun
  <2>4. \A c \in participants' : c.owner # None => Begun(c.owner, c.do_id)'
    BY <1>4, <1>5, <1>7 DEF Named, Begun
  <2> QED
    BY <1>4, <2>1, <2>2, <2>3, <2>4 DEF Named, Begun
<1>17. /\ Listeners(d)' = IF registers THEN Listeners(d) \union {b} ELSE Listeners(d)
       /\ \A x \in DoId \ {d} : Listeners(x)' = Listeners(x)
       /\ \A x : Listeners(x) \subseteq Listeners(x)' /\ Listeners(x)' \subseteq Listeners(x) \union {b}
  <2>1. CASE registers
    <3>1. b.listens /\ b.do_id = d
      BY <1>5, <2>1
    <3> QED
      BY <1>5, <2>1, <3>1 DEF Listeners
  <2>2. CASE ~registers
    <3>1. ~b.listens
      BY <1>5, <2>2
    <3> QED
      BY <1>5, <2>2, <3>1 DEF Listeners
  <2> QED
    BY <2>1, <2>2
<1>18. OneBody'
  <2>1. CASE ~registers
    <3>1. UNCHANGED <<objects, database_objects, raced>>
      BY <1>3, <2>1
    <3>2. \A x \in DoId : Listeners(x)' = Listeners(x)
      BY <1>17, <2>1
    <3> QED
      BY <3>1, <3>2 DEF OneBody
  <2>2. CASE registers
    <3>1. objects[d] = 0 /\ d \notin raced => Listeners(d) = {} /\ d \notin database_objects
      <4>1. \A c \in Listeners(d) : c.no # 0
        BY Owners DEF Listeners
      <4> QED
        BY <1>1, <4>1 DEF OneBody
    <3>2. objects'[d] = built + 1 /\ \A x \in DoId \ {d} : objects'[x] = objects[x]
      BY <1>1, <1>3, <2>2 DEF TypeOK
    <3>3. /\ database_objects' = database_objects \union {d}
          /\ raced \subseteq raced' /\ (d \notin raced' => objects[d] = 0)
      BY <1>3, <2>2
    <3>4. d \notin raced' => Listeners(d)' = {b}
      BY <1>17, <2>2, <3>1, <3>3
    <3>5. ASSUME NEW x \in DoId \ raced', x # d
          PROVE  /\ \A c \in Listeners(x)' : c.no = objects'[x]
                 /\ x \in database_objects' <=> \E c \in Listeners(x)' : c.db
                 /\ objects'[x] # 0 => Listeners(x)' # {}
      BY <1>17, <3>2, <3>3, <3>5 DEF OneBody
    <3>6. ASSUME d \notin raced'
          PROVE  /\ \A c \in Listeners(d)' : c.no = objects'[d]
                 /\ d \in database_objects' <=> \E c \in Listeners(d)' : c.db
                 /\ objects'[d] # 0 => Listeners(d)' # {}
      <4>1. b.db /\ d \in database_objects'
        BY <1>5, <3>3
      <4> QED
        BY <1>5, <3>2, <3>4, <3>6, <4>1
    <3> QED
      BY <3>5, <3>6 DEF OneBody
  <2> QED
    BY <2>1, <2>2
<1>19. Served'
  <2> SUFFICES ASSUME NEW t \in Session,
                      state'[t] = "playing" \/ (state'[t] = "waiting" /\ Entering(t)')
               PROVE  Has(t)'
    BY DEF Served
  <2>1. Has(t) => Has(t)'
    BY <1>4, <1>10, <1>17 DEF Has
  <2>2. CASE state'[t] = "waiting" /\ Entering(t)' /\ ~Entering(t)
    <3>1. t = s /\ registers /\ avatar_id'[t] = d
      BY <1>3, <1>4, <1>7, <1>13, <2>2 DEF Begun
    <3> QED
      BY <1>5, <1>17, <3>1 DEF Has
  <2> QED
    BY <1>4, <2>1, <2>2 DEF Served
<1>20. Departed'
  <2> SUFFICES ASSUME NEW t \in entered, state[t] = "gone"
               PROVE  \/ avatar_id[t] \in raced'
                      \/ DeleteRam(avatar_id[t]) \in ForSs'
                      \/ ~\E c \in Listeners(avatar_id[t])' : c.owner = t
    BY <1>4 DEF Departed
  <2>1. t # s
    BY <1>8
  <2>2. raced \subseteq raced'
    BY <1>3
  <2>3. \A x : DeleteRam(x) # m
    BY <1>1 DEF DeleteRam
  <2>4. Listeners(avatar_id[t])' \subseteq Listeners(avatar_id[t]) \union {b}
    BY <1>4, <1>17
  <2>5. DeleteRam(avatar_id[t]) \in ForSs => DeleteRam(avatar_id[t]) \in ForSs'
    BY <1>1, <2>3
  <2> QED
    BY <1>5, <2>1, <2>2, <2>4, <2>5 DEF Departed
<1>21. TypeOK'
  <2>1. /\ database_objects' \subseteq DoId /\ raced' \subseteq DoId /\ failed' \subseteq Session
    BY <1>1, <1>2, <1>3 DEF TypeOK
  <2> QED
    BY <1>1, <1>4, <1>6, <1>9, <1>10, <2>1 DEF TypeOK
<1> QED
  BY <1>1, <1>6, <1>14, <1>15, <1>16, <1>18, <1>19, <1>20, <1>21

LEMMA DeleteRamKeeps == ASSUME TypeOK, IInv, HandleDeleteRam PROVE TypeOK' /\ IInv'
<1> USE DEF IInv
<1>m. PICK m : m = Head(to_ss)
  OBVIOUS
<1> DEFINE d == m.do_id
<1>1. /\ m \in ForSs /\ m.type = "DELETE_RAM" /\ to_ss' \in Seq(SsMessage)
      /\ ForSs = ForSs' \union {m} /\ Apart' /\ d \in DoId
  BY <1>m, TakesIs, Kinds DEF HandleDeleteRam
<1>2. /\ to_ca' \in Seq(CaMessage) /\ ForCa \subseteq ForCa'
      /\ \A n \in ForCa' : n \in ForCa \/ \E b \in Listeners(d) : b.owner # None /\ n = Deleted(d, b.owner)
      /\ participants' \subseteq participants
      /\ \A b \in participants \ participants' :
            /\ b \in Listeners(d)
            /\ b.owner # None => Deleted(d, b.owner) \in ForCa'
      /\ objects' \in [DoId -> 0..built] /\ database_objects' \subseteq DoId
      /\ \A x \in DoId \ {d} :
            objects'[x] = objects[x] /\ (x \in database_objects' <=> x \in database_objects)
  BY <1>m, DeleteIs
<1>3. d \notin raced => Listeners(d)' = {} /\ objects'[d] = 0 /\ d \notin database_objects'
  BY <1>m, DeleteClears
<1>4. UNCHANGED <<state, avatar_id, queries, built, gets, generates, silent, raced, refused, failed, entered>>
  BY DEF HandleDeleteRam
<1>5. Working' = Working
  BY <1>4 DEF Working
<1>6. /\ \A x : Answering(x)' <=> Answering(x)
      /\ \A t : Activating(t)' <=> Activating(t)
      /\ \A t : Entering(t)' => Entering(t)
  BY <1>1, <1>2 DEF Answering, Activating, Entering, Deleted
<1>7. Awaited' /\ Once'
  BY <1>4, <1>5, <1>6 DEF Awaited, Once
<1>8. Named'
  <2>1. \A b \in Listeners(d) : b.owner # None => Begun(Deleted(d, b.owner).to, Deleted(d, b.owner).do_id)
    BY DEF Named, Listeners, Deleted
  <2>2. \A n \in ForCa' : Begun(n.to, n.do_id)
    BY <1>2, <2>1 DEF Named
  <2> QED
    BY <1>1, <1>2, <1>4, <2>2 DEF Named, Begun
<1>9. Numbered'
  BY <1>2, FS_Subset DEF Numbered
<1>10. /\ \A x \in DoId \ {d} : Listeners(x)' = Listeners(x)
       /\ \A x : Listeners(x)' \subseteq Listeners(x)
  BY <1>2 DEF Listeners
<1>11. OneBody'
  <2>1. ASSUME NEW x \in DoId \ raced, x # d
        PROVE  /\ \A c \in Listeners(x)' : c.no = objects'[x]
               /\ x \in database_objects' <=> \E c \in Listeners(x)' : c.db
               /\ objects'[x] # 0 => Listeners(x)' # {}
    BY <1>2, <1>10, <2>1 DEF OneBody
  <2> QED
    BY <1>3, <1>4, <2>1 DEF OneBody
<1>12. Served'
  <2> SUFFICES ASSUME NEW t \in Session, Has(t)
               PROVE  Has(t)'
    BY <1>4, <1>6 DEF Served
  <2>1. CASE Deleted(avatar_id[t], t) \in ForCa
    BY <1>2, <1>4, <2>1 DEF Has
  <2>2. ASSUME NEW b \in Listeners(avatar_id[t]), b.owner = t
        PROVE  Has(t)'
    <3>1. CASE b \in participants'
      BY <1>4, <2>2, <3>1 DEF Has, Listeners
    <3>2. CASE b \notin participants'
      <4>1. b \in Listeners(d) /\ avatar_id[t] = d /\ b.owner # None
        BY <1>2, <2>2, <3>2, ActivationAssumption DEF Listeners
      <4> QED
        BY <1>2, <1>4, <2>2, <3>2, <4>1 DEF Has, Listeners
    <3> QED
      BY <3>1, <3>2
  <2> QED
    BY <2>1, <2>2 DEF Has
<1>13. Departed'
  <2> SUFFICES ASSUME NEW t \in entered, state[t] = "gone", avatar_id[t] \notin raced
               PROVE  \/ DeleteRam(avatar_id[t]) \in ForSs'
                      \/ ~\E c \in Listeners(avatar_id[t])' : c.owner = t
    BY <1>4 DEF Departed
  <2>1. DeleteRam(avatar_id[t]) = m => avatar_id[t] = d
    BY DEF DeleteRam
  <2>2. avatar_id[t] \in DoId
    BY DEF Named, Begun, TypeOK
  <2>3. CASE avatar_id[t] = d
    <3>1. Listeners(avatar_id[t])' = {}
      BY <1>3, <1>4, <2>3
    <3> QED
      BY <3>1
  <2>4. CASE avatar_id[t] # d
    <3>1. Listeners(avatar_id[t])' = Listeners(avatar_id[t])
      BY <1>4, <1>10, <2>2, <2>4
    <3> QED
      BY <1>1, <2>1, <2>4, <3>1 DEF Departed
  <2> QED
    BY <2>3, <2>4
<1>14. TypeOK'
  BY <1>1, <1>2, <1>4 DEF TypeOK
<1> QED
  BY <1>1, <1>7, <1>8, <1>9, <1>11, <1>12, <1>13, <1>14

-----------------------------------------------------------------------------
LEMMA NothingKeeps == ASSUME TypeOK, IInv, UNCHANGED vars PROVE TypeOK' /\ IInv'
<1>1. TypeOK'
  BY DEF TypeOK, vars, ssvars
<1>2. /\ ForSs' = ForSs /\ ForCa' = ForCa /\ Working' = Working
      /\ \A x : Listeners(x)' = Listeners(x)
  BY DEF ForSs, ForCa, Working, Listeners, vars, ssvars
<1>3. /\ \A x : Answering(x)' <=> Answering(x)
      /\ \A t : Activating(t)' <=> Activating(t)
      /\ \A t : Entering(t)' <=> Entering(t)
  BY <1>2 DEF Answering, Activating, Entering
<1>4. Apart' /\ Awaited' /\ Once'
  BY <1>2, <1>3 DEF IInv, Apart, Awaited, Once, vars, ssvars
<1>5. Named' /\ Numbered'
  BY <1>2 DEF IInv, Named, Begun, Numbered, vars, ssvars
<1>6. OneBody' /\ Served' /\ Departed'
  BY <1>2, <1>3 DEF IInv, OneBody, Served, Has, Departed, vars, ssvars
<1> QED
  BY <1>1, <1>4, <1>5, <1>6 DEF IInv

\* The inductive invariant: requests, queries, answers and entrances name the
\* session and the avatar they are for, each exists once, and whoever has an
\* avatar is on its way to hear of it or of its end.
THEOREM Invariance == Spec => [](TypeOK /\ IInv)
<1>1. TypeOK /\ IInv /\ [Next]_vars => TypeOK' /\ IInv'
  <2> SUFFICES ASSUME TypeOK, IInv, [Next]_vars
               PROVE  TypeOK' /\ IInv'
    OBVIOUS
  <2>1. CASE \E s \in Session : Purge(s) \/ Login(s) \/ ConnectionLost(s)
    BY <2>1, PurgeKeeps, LoginKeeps, ConnectionLostKeeps
  <2>2. CASE \E d \in DoId : SendGenerate(d)
    BY <2>2, SendGenerateKeeps
  <2>3. CASE Agent
    BY <2>3, EntranceKeeps, DeletedKeeps DEF Agent
  <2>4. CASE StateStep
    BY <2>4, DbGenerateKeeps, ActivateKeeps, GenerateKeeps, DeleteRamKeeps DEF StateStep
  <2>5. CASE DbAnswers
    BY <2>5, AnswerGetKeeps, LoseGetKeeps DEF DbAnswers
  <2>6. CASE UNCHANGED vars
    BY <2>6, NothingKeeps
  <2> QED
    BY <2>1, <2>2, <2>3, <2>4, <2>5, <2>6 DEF Next
<1> QED
  BY Initially, <1>1, PTL DEF Spec

\* The state keeps its type.
THEOREM TypeCorrect == Spec => []TypeOK
  BY Invariance, PTL

\* A pending activation waits for exactly one answer, and every answer is
\* waited for (handle_db_generate, activate_callback).
THEOREM AnswersMeetQueries == Spec => []AnswersExpected
<1>1. TypeOK /\ IInv => AnswersExpected
  <2> SUFFICES ASSUME TypeOK, IInv, NEW d \in DoId
               PROVE  Cardinality({k \in DOMAIN gets : gets[k] = d})
                        + Cardinality({k \in DOMAIN to_ss : to_ss[k].type = "VALUES" /\ to_ss[k].do_id = d})
                        + Cardinality(silent \intersect {d})
                      = IF queries[d] = None THEN 0 ELSE 1
    BY DEF AnswersExpected, Count
  <2> DEFINE G == {k \in DOMAIN gets : gets[k] = d}
             V == {k \in DOMAIN to_ss : to_ss[k].type = "VALUES" /\ to_ss[k].do_id = d}
             N == silent \intersect {d}
  <2>1. DOMAIN gets = 1..Len(gets) /\ DOMAIN to_ss = 1..Len(to_ss)
    BY DEF TypeOK
  <2>2. Cardinality(G) = IF d \in Working THEN 1 ELSE 0
    <3>1. d \in Working => \E k : G = {k}
      BY <2>1 DEF IInv, Awaited, Working, ToSet
    <3>2. d \notin Working => G = {}
      BY DEF Working, ToSet
    <3> QED
      BY <3>1, <3>2, FS_Singleton, FS_EmptySet
  <2>3. Cardinality(V) = IF Answering(d) THEN 1 ELSE 0
    <3>1. ASSUME Answering(d) PROVE \E k : V = {k}
      <4>1. PICK k \in V : TRUE
        BY <2>1, <3>1 DEF Answering, ForSs, ToSet
      <4>2. \A j \in V : j = k
        BY <2>1 DEF IInv, Apart, Clash
      <4> QED
        BY <4>1, <4>2
    <3>2. ~Answering(d) => V = {}
      BY DEF Answering, ForSs, ToSet
    <3> QED
      BY <3>1, <3>2, FS_Singleton, FS_EmptySet
  <2>4. Cardinality(N) = IF d \in silent THEN 1 ELSE 0
    <3>1. N = IF d \in silent THEN {d} ELSE {}
      OBVIOUS
    <3> QED
      BY <3>1, FS_Singleton, FS_EmptySet
  <2> HIDE DEF G, V, N
  <2>5. /\ queries[d] # None <=> d \in Working \/ Answering(d) \/ d \in silent
        /\ ~(d \in Working /\ Answering(d)) /\ ~(d \in Working /\ d \in silent)
        /\ ~(Answering(d) /\ d \in silent)
    BY DEF IInv, Awaited
  <2>6. Cardinality(G) + Cardinality(V) + Cardinality(N) = IF queries[d] = None THEN 0 ELSE 1
    BY <2>2, <2>3, <2>4, <2>5
  <2> QED
    BY <2>6 DEF G, V, N
<1> QED
  BY Invariance, <1>1, PTL

\* Unless an activation met an object that was generated directly, one
\* participant at most answers for an object, and it is the registered one
\* (activate_callback, handle_generate, annihilate).
THEOREM BodyIsOne == Spec => []OneBody
<1>1. IInv => OneBody
  BY DEF IInv
<1> QED
  BY Invariance, <1>1, PTL

\* A client that plays has its avatar, or will be told that it is deleted,
\* whoever deleted it (annihilate, handle_owned_object_entrance).
THEOREM PlayersHaveAvatars == Spec => []PlayerHasAvatar
<1>1. TypeOK /\ IInv => PlayerHasAvatar
  <2>1. TypeOK => \A s \in Session : Contains(to_ca, Deleted(avatar_id[s], s)) <=> Deleted(avatar_id[s], s) \in ForCa
    BY InSet DEF TypeOK, ForCa
  <2> QED
    BY <2>1 DEF IInv, Served, Has, PlayerHasAvatar
<1> QED
  BY Invariance, <1>1, PTL

\* No avatar is left behind by a client that was told of it, but where an
\* activation met an object that was generated directly (connection_lost).
THEOREM AvatarsHavePlayers == Spec => []AvatarHasPlayer
<1>1. TypeOK /\ IInv => AvatarHasPlayer
  <2>1. TypeOK => \A s \in Session : Contains(to_ss, DeleteRam(avatar_id[s])) <=> DeleteRam(avatar_id[s]) \in ForSs
    BY InSet DEF TypeOK, ForSs
  <2>2. TypeOK => entered \subseteq Session
    BY DEF TypeOK
  <2> QED
    BY <2>1, <2>2 DEF IInv, Departed, AvatarHasPlayer
<1> QED
  BY Invariance, <1>1, PTL

-----------------------------------------------------------------------------
(* The byte stream.  What a connection holds is a sequence of datagrams:     *)
(* those in its bytes, from the one that is being read, then, while somebody *)
(* writes them, those in the queue.                                          *)

Byte == [dg : Datagram, at : Nat]

StreamTypes ==
    /\ outgoing_q \in [Conn -> Seq(Datagram)]
    /\ writing \in [Conn -> BOOLEAN]
    /\ wire \in [Conn -> Seq(Byte)] /\ buf \in [Conn -> Seq(Byte)]
    /\ expected \in [Conn -> Nat]
    /\ open \in [Conn -> BOOLEAN]
    /\ running \in Conn \union {Nobody}
    /\ sends \in 0..MaxSends
    /\ sent \in [Conn -> Seq(Datagram)]
    /\ handled \in [Conn -> Seq(Datagram \union {Garbled})]

\* The bytes s are those of D: D[i] begins after the byte p[i].  Of the
\* first, whose length is expected, the header is gone.
Laid(D, p, s, e) ==
    /\ p \in [1..(Len(D) + 1) -> Int]
    /\ p[1] = IF e = 0 THEN 0 ELSE -HeaderSize
    /\ p[Len(D) + 1] = Len(s)
    /\ \A i \in 1..Len(D) :
          /\ p[i + 1] = p[i] + HeaderSize + Size[D[i]]
          /\ p[i + 1] <= Len(s)
    /\ \A i \in 1..Len(D) : \A k \in 1..(HeaderSize + Size[D[i]]) :
          p[i] + k >= 1 => s[p[i] + k] = [dg |-> D[i], at |-> k]
    /\ e > 0 => D # <<>> /\ Size[D[1]] = e

\* Of the datagrams A each that has a byte is the next in S, after h; with
\* all of them, S is through.
Ranked(A, n, h, S, all) ==
    /\ n \in [1..(Len(A) + 1) -> Nat]
    /\ n[1] = h
    /\ \A i \in 1..Len(A) :
          /\ NotEmpty(A[i]) => n[i + 1] = n[i] + 1 /\ n[i + 1] <= Len(S) /\ S[n[i + 1]] = A[i]
          /\ ~NotEmpty(A[i]) => n[i + 1] = n[i]
    /\ all => n[Len(A) + 1] = Len(S)

Pending(D, q, w) == IF w THEN D \o q ELSE D

Flows(s, q, w, e, h, S) ==
    \E D \in Seq(Datagram) :
        /\ \E p : Laid(D, p, s, e)
        /\ \E n : Ranked(Pending(D, q, w), n, h, S, w)

Flowing ==
    \A c \in Conn :
        Flows(buf[c] \o wire[c], outgoing_q[c], writing[c], expected[c], Len(handled[c]), sent[c])

\* The bytes of a datagram.
LEMMA BytesTypes ==
    ASSUME NEW d \in Datagram
    PROVE  /\ Bytes(d) \in Seq(Byte)
           /\ Len(Bytes(d)) = HeaderSize + Size[d]
           /\ \A k \in 1..(HeaderSize + Size[d]) : Bytes(d)[k] = [dg |-> d, at |-> k]
<1>1. HeaderSize + Size[d] \in Nat
  BY SizeAssumption DEF HeaderSize
<1>2. \A k \in 1..(HeaderSize + Size[d]) : [dg |-> d, at |-> k] \in Byte
  BY <1>1 DEF Byte
<1>3. Bytes(d) \in [1..(HeaderSize + Size[d]) -> Byte]
  BY <1>2 DEF Bytes
<1>4. Bytes(d) \in Seq(Byte)
  BY <1>1, <1>3, SeqDef
<1>5. DOMAIN Bytes(d) = 1..(HeaderSize + Size[d])
  BY DEF Bytes
<1>6. Len(Bytes(d)) = HeaderSize + Size[d]
  <2>1. Len(Bytes(d)) \in Nat /\ DOMAIN Bytes(d) = 1..Len(Bytes(d))
    BY <1>4, LenProperties
  <2> QED
    BY <1>1, <1>5, <2>1
<1> QED
  BY <1>4, <1>6 DEF Bytes

\* The first datagram leaves the stream ...
LEMMA LaidTail ==
    ASSUME NEW D \in Seq(Datagram), D # <<>>, NEW p, NEW s \in Seq(Byte), NEW e \in Nat,
           Laid(D, p, s, e), NEW m \in Nat, m <= Len(s), p[2] = m
    PROVE  \E r : Laid(Tail(D), r, SubSeq(s, m + 1, Len(s)), 0)
<1> DEFINE T == Tail(D)
           r == [i \in 1..(Len(T) + 1) |-> p[i + 1] - m]
           t == SubSeq(s, m + 1, Len(s))
<1>1. /\ T \in Seq(Datagram) /\ Len(T) = Len(D) - 1 /\ Len(D) \in Nat /\ Len(D) >= 1
      /\ \A i \in 1..Len(T) : T[i] = D[i + 1] /\ i + 1 \in 1..Len(D) /\ D[i + 1] \in Datagram
  BY HeadTailProperties, EmptySeq, ElementOfSeq, LenProperties
<1>2. /\ t \in Seq(Byte) /\ Len(t) = Len(s) - m
      /\ \A j \in 1..(Len(s) - m) : t[j] = s[m + j]
  BY SkipProperties
<1>3. Len(s) \in Nat /\ HeaderSize = 2 /\ \A d \in Datagram : Size[d] \in Nat
  BY SizeAssumption DEF HeaderSize
<1>4. /\ \A i \in 1..(Len(D) + 1) : p[i] \in Int
      /\ p[Len(D) + 1] = Len(s)
      /\ \A i \in 1..Len(D) : p[i + 1] = p[i] + HeaderSize + Size[D[i]] /\ p[i + 1] <= Len(s)
      /\ \A i \in 1..Len(D) : \A k \in 1..(HeaderSize + Size[D[i]]) :
             p[i] + k >= 1 => s[p[i] + k] = [dg |-> D[i], at |-> k]
  BY DEF Laid
<1>5. r \in [1..(Len(T) + 1) -> Int] /\ r[1] = 0 /\ r[Len(T) + 1] = Len(t)
  <2>1. ASSUME NEW i \in 1..(Len(T) + 1) PROVE p[i + 1] - m \in Int
    <3>1. i + 1 \in 1..(Len(D) + 1)
      BY <1>1
    <3>2. p[i + 1] \in Int
      BY <1>4, <3>1
    <3> QED
      BY <3>2
  <2>2. 1 \in 1..(Len(T) + 1) /\ Len(T) + 1 \in 1..(Len(T) + 1) /\ (Len(T) + 1) + 1 = Len(D) + 1
    BY <1>1
  <2>3. r[1] = p[1 + 1] - m /\ r[Len(T) + 1] = p[(Len(T) + 1) + 1] - m
    BY <2>2
  <2>4. r[1] = 0
    <3>1. 1 + 1 = 2 /\ m - m = 0
      OBVIOUS
    <3> QED
      BY <2>3, <3>1
  <2>5. r[Len(T) + 1] = Len(s) - m
    BY <1>4, <2>2, <2>3
  <2> HIDE DEF t
  <2> QED
    BY <1>2, <2>1, <2>4, <2>5
<1>6. ASSUME NEW i \in 1..Len(T)
      PROVE  r[i + 1] = r[i] + HeaderSize + Size[T[i]] /\ r[i + 1] <= Len(t)
  <2>1. r[i] = p[i + 1] - m /\ r[i + 1] = p[(i + 1) + 1] - m
    BY <1>1
  <2>2. p[(i + 1) + 1] = p[i + 1] + HeaderSize + Size[D[i + 1]] /\ p[(i + 1) + 1] <= Len(s)
    BY <1>1, <1>4
  <2>3. PICK a \in Int, b \in Int, z \in Nat : a = p[i + 1] /\ b = p[(i + 1) + 1] /\ z = Size[D[i + 1]]
    <3>1. i + 1 \in 1..(Len(D) + 1) /\ (i + 1) + 1 \in 1..(Len(D) + 1)
      BY <1>1
    <3>2. p[i + 1] \in Int /\ p[(i + 1) + 1] \in Int
      BY <1>4, <3>1
    <3>3. Size[D[i + 1]] \in Nat
      BY <1>1, <1>3
    <3> QED
      BY <3>2, <3>3
  <2>4. r[i] = a - m /\ r[i + 1] = b - m /\ b = a + 2 + z /\ b <= Len(s)
    BY <1>3, <2>1, <2>2, <2>3
  <2>5. r[i + 1] = r[i] + 2 + z /\ r[i + 1] <= Len(s) - m
    BY <1>3, <2>4
  <2>6. Size[T[i]] = z
    BY <1>1, <2>3
  <2> HIDE DEF T, t, r
  <2> QED
    BY <2>5, <2>6, <1>2, <1>3
<1>7. ASSUME NEW i \in 1..Len(T), NEW k \in 1..(HeaderSize + Size[T[i]]), r[i] + k >= 1
      PROVE  t[r[i] + k] = [dg |-> T[i], at |-> k]
  <2>1. r[i] = p[i + 1] - m /\ p[i + 1] \in Int /\ Size[D[i + 1]] \in Nat
    <3>1. i \in 1..(Len(T) + 1) /\ i + 1 \in 1..(Len(D) + 1)
      BY <1>1
    <3>2. r[i] = p[i + 1] - m
      BY <3>1
    <3>3. p[i + 1] \in Int
      BY <1>4, <3>1
    <3>4. Size[D[i + 1]] \in Nat
      BY <1>1, <1>3
    <3> QED
      BY <3>2, <3>3, <3>4
  <2>2. p[(i + 1) + 1] = p[i + 1] + HeaderSize + Size[D[i + 1]] /\ p[(i + 1) + 1] <= Len(s)
    BY <1>1, <1>4
  <2>3. k \in 1..(HeaderSize + Size[D[i + 1]]) /\ k \in Int
    BY <1>1, <1>3
  <2>4. p[i + 1] + k >= 1
    BY <1>7, <2>1, <2>3
  <2>5. s[p[i + 1] + k] = [dg |-> D[i + 1], at |-> k]
    BY <1>1, <1>4, <2>3, <2>4
  <2>6. r[i] + k \in 1..(Len(s) - m) /\ m + (r[i] + k) = p[i + 1] + k
    <3>1. PICK a \in Int, z \in Nat : a = p[i + 1] /\ z = Size[D[i + 1]]
      BY <2>1
    <3>2. r[i] = a - m /\ k \in 1..(2 + z) /\ a + 2 + z <= Len(s) /\ r[i] + k >= 1
      BY <1>3, <1>7, <2>1, <2>2, <2>3, <3>1
    <3>3. (a - m) + k \in 1..(Len(s) - m) /\ m + ((a - m) + k) = a + k
      BY <1>3, <3>2
    <3> QED
      BY <3>1, <3>2, <3>3
  <2>7. t[r[i] + k] = s[m + (r[i] + k)]
    BY <1>2, <2>6
  <2> QED
    BY <1>1, <2>5, <2>6, <2>7
<1> HIDE DEF T, t, r
<1>8. Laid(T, r, t, 0)
  BY <1>5, <1>6, <1>7 DEF Laid
<1> QED
  BY <1>8 DEF T, t

\* ... is read as far as its header ...
LEMMA LaidHeader ==
    ASSUME NEW D \in Seq(Datagram), D # <<>>, NEW p, NEW s \in Seq(Byte),
           Laid(D, p, s, 0), Size[D[1]] > 0, HeaderSize <= Len(s)
    PROVE  \E r : Laid(D, r, SubSeq(s, HeaderSize + 1, Len(s)), Size[D[1]])
<1> DEFINE r == [i \in 1..(Len(D) + 1) |-> p[i] - HeaderSize]
           t == SubSeq(s, HeaderSize + 1, Len(s))
<1>1. /\ Len(D) \in Nat /\ Len(D) >= 1
      /\ \A i \in 1..Len(D) : D[i] \in Datagram
  BY EmptySeq, ElementOfSeq, LenProperties
<1>2. Len(s) \in Nat /\ HeaderSize = 2 /\ \A d \in Datagram : Size[d] \in Nat
  BY SizeAssumption DEF HeaderSize
<1>3. /\ t \in Seq(Byte) /\ Len(t) = Len(s) - HeaderSize
      /\ \A j \in 1..(Len(s) - HeaderSize) : t[j] = s[HeaderSize + j]
  <2>1. HeaderSize \in Nat
    BY <1>2
  <2> QED
    BY <2>1, SkipProperties
<1>4. /\ \A i \in 1..(Len(D) + 1) : p[i] \in Int
      /\ p[1] = 0 /\ p[Len(D) + 1] = Len(s)
      /\ \A i \in 1..Len(D) : p[i + 1] = p[i] + HeaderSize + Size[D[i]] /\ p[i + 1] <= Len(s)
      /\ \A i \in 1..Len(D) : \A k \in 1..(HeaderSize + Size[D[i]]) :
             p[i] + k >= 1 => s[p[i] + k] = [dg |-> D[i], at |-> k]
  BY DEF Laid
<1>5. r \in [1..(Len(D) + 1) -> Int] /\ r[1] = -HeaderSize /\ r[Len(D) + 1] = Len(t)
  BY <1>1, <1>2, <1>3, <1>4
<1>6. ASSUME NEW i \in 1..Len(D)
      PROVE  r[i + 1] = r[i] + HeaderSize + Size[D[i]] /\ r[i + 1] <= Len(t)
  <2>1. r[i] = p[i] - HeaderSize /\ r[i + 1] = p[i + 1] - HeaderSize
    BY <1>1
  <2>2. PICK a \in Int, b \in Int, z \in Nat : a = p[i] /\ b = p[i + 1] /\ z = Size[D[i]]
    <3>1. i \in 1..(Len(D) + 1) /\ i + 1 \in 1..(Len(D) + 1)
      BY <1>1
    <3>2. p[i] \in Int /\ p[i + 1] \in Int
      BY <1>4, <3>1
    <3>3. Size[D[i]] \in Nat
      BY <1>1, <1>2
    <3> QED
      BY <3>2, <3>3
  <2>3. b = a + 2 + z /\ b <= Len(s)
    BY <1>2, <1>4, <2>2
  <2>4. r[i] = a - 2 /\ r[i + 1] = b - 2
    BY <1>2, <2>1, <2>2
  <2> HIDE DEF t, r
  <2>5. r[i + 1] = r[i] + 2 + z
    BY <2>3, <2>4
  <2>6. r[i + 1] <= Len(s) - 2
    BY <1>2, <2>3, <2>4
  <2> QED
    BY <2>2, <2>5, <2>6, <1>2, <1>3
<1>7. ASSUME NEW i \in 1..Len(D), NEW k \in 1..(HeaderSize + Size[D[i]]), r[i] + k >= 1
      PROVE  t[r[i] + k] = [dg |-> D[i], at |-> k]
  <2>1. r[i] = p[i] - HeaderSize /\ p[i] \in Int /\ Size[D[i]] \in Nat /\ k \in Int
    <3>1. i \in 1..(Len(D) + 1)
      BY <1>1
    <3>2. r[i] = p[i] - HeaderSize
      BY <3>1
    <3>3. p[i] \in Int
      BY <1>4, <3>1
    <3>4. Size[D[i]] \in Nat /\ k \in Int
      BY <1>1, <1>2
    <3> QED
      BY <3>2, <3>3, <3>4
  <2>2. p[i + 1] = p[i] + HeaderSize + Size[D[i]] /\ p[i + 1] <= Len(s)
    BY <1>4
  <2>3. r[i] + k \in 1..(Len(s) - HeaderSize) /\ HeaderSize + (r[i] + k) = p[i] + k /\ p[i] + k >= 1
    <3>1. PICK a \in Int, z \in Nat : a = p[i] /\ z = Size[D[i]]
      BY <2>1
    <3>2. r[i] = a - 2 /\ k \in 1..(2 + z) /\ a + 2 + z <= Len(s) /\ r[i] + k >= 1
      BY <1>2, <1>7, <2>1, <2>2, <3>1
    <3>3. (a - 2) + k \in 1..(Len(s) - 2) /\ 2 + ((a - 2) + k) = a + k /\ a + k >= 1
      BY <1>2, <3>2
    <3> QED
      BY <1>2, <3>1, <3>2, <3>3
  <2>4. t[r[i] + k] = s[HeaderSize + (r[i] + k)]
    BY <1>3, <2>3
  <2>5. s[p[i] + k] = [dg |-> D[i], at |-> k]
    BY <1>4, <2>3
  <2> QED
    BY <2>3, <2>4, <2>5
<1>8. Size[D[1]] # 0
  BY <1>1, <1>2
<1> HIDE DEF t, r
<1>9. Laid(D, r, t, Size[D[1]])
  BY <1>1, <1>2, <1>5, <1>6, <1>7, <1>8 DEF Laid
<1> QED
  BY <1>9 DEF t

\* ... or is written after the others.
LEMMA LaidWritten ==
    ASSUME NEW D \in Seq(Datagram), NEW p, NEW s \in Seq(Byte), NEW e \in Nat,
           Laid(D, p, s, e), NEW d \in Datagram
    PROVE  \E r : Laid(Append(D, d), r, s \o Bytes(d), e)
<1> DEFINE A == Append(D, d)
           t == s \o Bytes(d)
           r == [i \in 1..(Len(A) + 1) |-> IF i \in 1..(Len(D) + 1) THEN p[i] ELSE Len(t)]
<1>1. /\ A \in Seq(Datagram) /\ Len(A) = Len(D) + 1 /\ Len(D) \in Nat
      /\ \A i \in 1..Len(D) : A[i] = D[i] /\ D[i] \in Datagram
      /\ A[Len(D) + 1] = d
  BY AppendProperties, ElementOfSeq, LenProperties
<1>2. Len(s) \in Nat /\ HeaderSize = 2 /\ \A x \in Datagram : Size[x] \in Nat
  BY SizeAssumption DEF HeaderSize
<1>3. /\ Len(Bytes(d)) = HeaderSize + Size[d]
      /\ Len(t) = Len(s) + HeaderSize + Size[d]
      /\ \A j \in 1..Len(s) : t[j] = s[j]
      /\ \A k \in 1..(HeaderSize + Size[d]) : t[Len(s) + k] = [dg |-> d, at |-> k]
  <2>1. /\ Bytes(d) \in Seq(Byte) /\ Len(Bytes(d)) = HeaderSize + Size[d]
        /\ \A k \in 1..(HeaderSize + Size[d]) : Bytes(d)[k] = [dg |-> d, at |-> k]
    BY BytesTypes
  <2>2. /\ Len(t) = Len(s) + Len(Bytes(d))
        /\ \A i \in 1..(Len(s) + Len(Bytes(d))) :
              t[i] = IF i <= Len(s) THEN s[i] ELSE Bytes(d)[i - Len(s)]
    BY <2>1, ConcatProperties
  <2>3. \A j \in 1..Len(s) : t[j] = s[j]
    BY <1>2, <2>1, <2>2
  <2>4. ASSUME NEW k \in 1..(HeaderSize + Size[d])
        PROVE  t[Len(s) + k] = [dg |-> d, at |-> k]
    <3>1. /\ Len(s) + k \in 1..(Len(s) + Len(Bytes(d)))
          /\ ~(Len(s) + k <= Len(s)) /\ (Len(s) + k) - Len(s) = k
      BY <1>2, <2>1
    <3>2. t[Len(s) + k] = Bytes(d)[(Len(s) + k) - Len(s)]
      BY <2>2, <3>1
    <3> QED
      BY <2>1, <3>1, <3>2
  <2>5. Len(t) = Len(s) + HeaderSize + Size[d]
    BY <1>2, <2>1, <2>2
  <2> QED
    BY <2>1, <2>3, <2>4, <2>5
<1> HIDE DEF A, t
<1>4. /\ \A i \in 1..(Len(D) + 1) : p[i] \in Int
      /\ p[1] = (IF e = 0 THEN 0 ELSE -HeaderSize) /\ p[Len(D) + 1] = Len(s)
      /\ \A i \in 1..Len(D) : p[i + 1] = p[i] + HeaderSize + Size[D[i]] /\ p[i + 1] <= Len(s)
      /\ \A i \in 1..Len(D) : \A k \in 1..(HeaderSize + Size[D[i]]) :
             p[i] + k >= 1 => s[p[i] + k] = [dg |-> D[i], at |-> k]
      /\ e > 0 => D # <<>> /\ Size[D[1]] = e
  BY DEF Laid
<1>5. /\ r \in [1..(Len(A) + 1) -> Int] /\ r[Len(A) + 1] = Len(t)
      /\ \A i \in 1..(Len(D) + 1) : r[i] = p[i]
  BY <1>1, <1>2, <1>3, <1>4
<1> HIDE DEF r
<1>6. ASSUME NEW i \in 1..Len(A)
      PROVE  /\ r[i + 1] = r[i] + HeaderSize + Size[A[i]]
             /\ r[i + 1] <= Len(t)
             /\ \A k \in 1..(HeaderSize + Size[A[i]]) :
                   r[i] + k >= 1 => t[r[i] + k] = [dg |-> A[i], at |-> k]
  <2>1. CASE i = Len(D) + 1
    <3>1. A[i] = d /\ r[i] = Len(s) /\ r[i + 1] = Len(t)
      BY <1>1, <1>4, <1>5, <2>1
    <3>2. Size[d] \in Nat /\ Len(t) = Len(s) + 2 + Size[d] /\ Len(t) \in Nat
      BY <1>2, <1>3
    <3>3. r[i + 1] = r[i] + HeaderSize + Size[A[i]] /\ r[i + 1] <= Len(t)
      BY <1>2, <3>1, <3>2
    <3>4. \A k \in 1..(HeaderSize + Size[A[i]]) : t[r[i] + k] = [dg |-> A[i], at |-> k]
      BY <1>3, <3>1
    <3> QED
      BY <3>3, <3>4
  <2>2. CASE i # Len(D) + 1
    <3>1. /\ i \in 1..Len(D) /\ A[i] = D[i] /\ r[i] = p[i] /\ r[i + 1] = p[i + 1]
          /\ D[i] \in Datagram /\ p[i] \in Int
      <4>1. /\ i \in 1..Len(D) /\ i \in 1..(Len(D) + 1) /\ i + 1 \in 1..(Len(D) + 1)
        BY <1>1, <2>2
      <4>2. A[i] = D[i] /\ D[i] \in Datagram
        BY <1>1, <4>1
      <4>3. r[i] = p[i] /\ r[i + 1] = p[i + 1] /\ p[i] \in Int
        BY <1>4, <1>5, <4>1
      <4> QED
        BY <4>1, <4>2, <4>3
    <3>2. p[i + 1] = p[i] + HeaderSize + Size[D[i]] /\ p[i + 1] <= Len(s)
      BY <1>4, <3>1
    <3>3. ASSUME NEW k \in 1..(HeaderSize + Size[D[i]]), p[i] + k >= 1
          PROVE  t[p[i] + k] = [dg |-> D[i], at |-> k]
      <4>1. p[i] + k \in 1..Len(s)
        <5>1. PICK a \in Int, z \in Nat : a = p[i] /\ z = Size[D[i]]
          BY <1>2, <3>1
        <5>2. k \in 1..(2 + z) /\ a + 2 + z <= Len(s) /\ a + k >= 1
          BY <1>2, <3>2, <3>3, <5>1
        <5>3. a + k \in 1..Len(s)
          BY <1>2, <5>2
        <5> QED
          BY <5>1, <5>3
      <4> QED
        BY <1>3, <1>4, <3>1, <3>3, <4>1
    <3>4. Len(s) <= Len(t)
      BY <1>2, <1>3
    <3>5. p[i + 1] <= Len(t)
      <4>1. p[i + 1] \in Int
        BY <1>1, <1>4, <3>1
      <4>2. Size[d] \in Nat
        BY <1>2
      <4>3. Len(t) \in Int
        BY <1>2, <1>3, <4>2
      <4> QED
        BY <1>2, <3>2, <3>4, <4>1, <4>3
    <3> QED
      BY <3>1, <3>2, <3>3, <3>5
  <2> QED
    BY <2>1, <2>2
<1>7. r[1] = IF e = 0 THEN 0 ELSE -HeaderSize
  BY <1>1, <1>4, <1>5
<1>8. e > 0 => A # <<>> /\ Size[A[1]] = e
  <2> SUFFICES ASSUME e > 0 PROVE A # <<>> /\ Size[A[1]] = e
    OBVIOUS
  <2>1. D # <<>> /\ Size[D[1]] = e
    BY <1>4
  <2>2. 1 \in 1..Len(D) /\ Len(A) # 0
    BY <1>1, <2>1, EmptySeq
  <2> QED
    BY <1>1, <2>1, <2>2, EmptySeq
<1>9. Laid(A, r, t, e)
  BY <1>5, <1>6, <1>7, <1>8 DEF Laid
<1> QED
  BY <1>9 DEF A, t

\* A sequence whose members move from the head of one to the end of another.
LEMMA MovedOver ==
    ASSUME NEW B, NEW s \in Seq(B), NEW t \in Seq(B), t # <<>>
    PROVE  Append(s, Head(t)) \o Tail(t) = s \o t
<1>1. Head(t) \in B /\ Tail(t) \in Seq(B) /\ Len(Tail(t)) = Len(t) - 1
      /\ \A i \in 1..Len(Tail(t)) : Tail(t)[i] = t[i + 1]
  BY HeadTailProperties
<1>2. Len(s) \in Nat /\ Len(t) \in Nat /\ Len(t) >= 1 /\ Head(t) = t[1]
  BY LenProperties, EmptySeq
<1>3. PICK u : u = Append(s, Head(t))
  OBVIOUS
<1>4. /\ u \in Seq(B) /\ Len(u) = Len(s) + 1 /\ u[Len(s) + 1] = t[1]
      /\ \A i \in 1..Len(s) : u[i] = s[i]
  BY <1>1, <1>2, <1>3, AppendProperties
<1>5. /\ u \o Tail(t) \in Seq(B)
      /\ Len(u \o Tail(t)) = Len(u) + Len(Tail(t))
      /\ \A i \in 1..(Len(u) + Len(Tail(t))) :
            (u \o Tail(t))[i] = IF i <= Len(u) THEN u[i] ELSE Tail(t)[i - Len(u)]
  BY <1>1, <1>4, ConcatProperties
<1>6. /\ s \o t \in Seq(B)
      /\ Len(s \o t) = Len(s) + Len(t)
      /\ \A i \in 1..(Len(s) + Len(t)) : (s \o t)[i] = IF i <= Len(s) THEN s[i] ELSE t[i - Len(s)]
  BY ConcatProperties
<1>7. Len(u \o Tail(t)) = Len(s \o t)
  BY <1>1, <1>2, <1>4, <1>5, <1>6
<1>8. ASSUME NEW i \in 1..Len(u \o Tail(t))
      PROVE  (u \o Tail(t))[i] = (s \o t)[i]
  <2>1. i \in 1..(Len(s) + Len(t)) /\ i \in 1..(Len(u) + Len(Tail(t))) /\ i \in Int
    BY <1>2, <1>5, <1>6, <1>7
  <2>2. CASE i <= Len(s)
    BY <1>2, <1>4, <1>5, <1>6, <2>1, <2>2
  <2>3. CASE i = Len(s) + 1
    <3>1. (u \o Tail(t))[i] = u[i] /\ (s \o t)[i] = t[i - Len(s)] /\ i - Len(s) = 1
      BY <1>2, <1>4, <1>5, <1>6, <2>1, <2>3
    <3> QED
      BY <1>4, <2>3, <3>1
  <2>4. CASE i > Len(s) + 1
    <3>1. ~(i <= Len(u)) /\ ~(i <= Len(s))
      BY <1>2, <1>4, <2>1, <2>4
    <3>2. (u \o Tail(t))[i] = Tail(t)[i - Len(u)] /\ (s \o t)[i] = t[i - Len(s)]
      BY <1>5, <1>6, <2>1, <3>1
    <3>3. i - Len(u) \in 1..Len(Tail(t)) /\ (i - Len(u)) + 1 = i - Len(s)
      BY <1>1, <1>2, <1>4, <2>1, <2>4
    <3>4. Tail(t)[i - Len(u)] = t[(i - Len(u)) + 1]
      BY <1>1, <3>3
    <3> QED
      BY <3>2, <3>3, <3>4
  <2>5. i <= Len(s) \/ i = Len(s) + 1 \/ i > Len(s) + 1
    BY <1>2, <2>1
  <2> QED
    BY <2>2, <2>3, <2>4, <2>5
<1>9. u \o Tail(t) = s \o t
  BY <1>5, <1>6, <1>7, <1>8, SeqEqual
<1> QED
  BY <1>3, <1>9

\* What is taken from the front of two sequences is taken from the first.
LEMMA SkippedConcat ==
    ASSUME NEW B, NEW s \in Seq(B), NEW t \in Seq(B), NEW m \in Nat, m <= Len(s)
    PROVE  SubSeq(s, m + 1, Len(s)) \o t = SubSeq(s \o t, m + 1, Len(s \o t))
<1>1. PICK u : u = SubSeq(s, m + 1, Len(s))
  OBVIOUS
<1>2. /\ u \in Seq(B) /\ Len(u) = Len(s) - m
      /\ \A j \in 1..(Len(s) - m) : u[j] = s[m + j]
  BY <1>1, SkipProperties
<1>3. Len(s) \in Nat /\ Len(t) \in Nat
  BY LenProperties
<1>4. /\ s \o t \in Seq(B)
      /\ Len(s \o t) = Len(s) + Len(t)
      /\ \A i \in 1..(Len(s) + Len(t)) : (s \o t)[i] = IF i <= Len(s) THEN s[i] ELSE t[i - Len(s)]
  BY ConcatProperties
<1>5. PICK v : v = SubSeq(s \o t, m + 1, Len(s \o t))
  OBVIOUS
<1>6. /\ v \in Seq(B) /\ Len(v) = Len(s) + Len(t) - m
      /\ \A j \in 1..(Len(s) + Len(t) - m) : v[j] = (s \o t)[m + j]
  <2>1. m <= Len(s \o t)
    BY <1>3, <1>4
  <2>2. /\ v \in Seq(B) /\ Len(v) = Len(s \o t) - m
        /\ \A j \in 1..(Len(s \o t) - m) : v[j] = (s \o t)[m + j]
    BY <1>4, <1>5, <2>1, SkipProperties
  <2> QED
    BY <1>4, <2>2
<1>7. /\ u \o t \in Seq(B)
      /\ Len(u \o t) = Len(u) + Len(t)
      /\ \A i \in 1..(Len(u) + Len(t)) : (u \o t)[i] = IF i <= Len(u) THEN u[i] ELSE t[i - Len(u)]
  BY <1>2, ConcatProperties
<1>8. Len(u \o t) = Len(v)
  BY <1>2, <1>3, <1>6, <1>7
<1>9. ASSUME NEW i \in 1..Len(u \o t)
      PROVE  (u \o t)[i] = v[i]
  <2>1. /\ i \in Int /\ i \in 1..(Len(u) + Len(t)) /\ i \in 1..(Len(s) + Len(t) - m)
        /\ m + i \in 1..(Len(s) + Len(t))
    BY <1>2, <1>3, <1>7
  <2>2. v[i] = (s \o t)[m + i]
    BY <1>6, <2>1
  <2>3. CASE i <= Len(u)
    <3>1. /\ (u \o t)[i] = u[i] /\ i \in 1..(Len(s) - m)
          /\ (s \o t)[m + i] = s[m + i]
      BY <1>2, <1>3, <1>4, <1>7, <2>1, <2>3
    <3> QED
      BY <1>2, <2>2, <3>1
  <2>4. CASE i > Len(u)
    <3>1. /\ (u \o t)[i] = t[i - Len(u)]
          /\ (s \o t)[m + i] = t[(m + i) - Len(s)]
          /\ i - Len(u) = (m + i) - Len(s)
      BY <1>2, <1>3, <1>4, <1>7, <2>1, <2>4
    <3> QED
      BY <2>2, <3>1
  <2> QED
    BY <1>2, <1>3, <2>1, <2>3, <2>4
<1>10. u \o t = v
  BY <1>6, <1>7, <1>8, <1>9, SeqEqual
<1> QED
  BY <1>1, <1>5, <1>10

\* The front of a sequence stays when another follows it.
LEMMA ConcatFront ==
    ASSUME NEW B, NEW s \in Seq(B), NEW t \in Seq(B), NEW m \in Nat, m <= Len(s)
    PROVE  /\ s \o t \in Seq(B) /\ m <= Len(s \o t)
           /\ \A k \in 1..m : (s \o t)[k] = s[k]
<1>1. /\ s \o t \in Seq(B) /\ Len(s \o t) = Len(s) + Len(t)
      /\ \A i \in 1..(Len(s) + Len(t)) : (s \o t)[i] = IF i <= Len(s) THEN s[i] ELSE t[i - Len(s)]
  BY ConcatProperties
<1>2. Len(s) \in Nat /\ Len(t) \in Nat
  BY LenProperties
<1>3. \A k \in 1..m : k \in 1..(Len(s) + Len(t)) /\ k <= Len(s)
  BY <1>2
<1>4. m <= Len(s \o t)
  BY <1>1, <1>2
<1> QED
  BY <1>1, <1>3, <1>4

\* The first datagram that is pending is handled, or has no byte.
LEMMA RankedTail ==
    ASSUME NEW A \in Seq(Datagram), A # <<>>, NEW n, NEW h, NEW S \in Seq(Datagram), NEW all \in BOOLEAN,
           Ranked(A, n, h, S, all)
    PROVE  /\ \E m : Ranked(Tail(A), m, IF NotEmpty(A[1]) THEN h + 1 ELSE h, S, all)
           /\ NotEmpty(A[1]) => h + 1 <= Len(S) /\ S[h + 1] = A[1]
<1>1. /\ Len(A) \in Nat /\ Len(A) >= 1 /\ Tail(A) \in Seq(Datagram) /\ Len(Tail(A)) = Len(A) - 1
      /\ \A i \in 1..Len(Tail(A)) : Tail(A)[i] = A[i + 1] /\ i + 1 \in 1..Len(A)
  BY HeadTailProperties, LenProperties, EmptySeq
<1>2. /\ n[1] = h
      /\ \A i \in 1..(Len(A) + 1) : n[i] \in Nat
      /\ \A i \in 1..Len(A) :
            /\ NotEmpty(A[i]) => n[i + 1] = n[i] + 1 /\ n[i + 1] <= Len(S) /\ S[n[i + 1]] = A[i]
            /\ ~NotEmpty(A[i]) => n[i + 1] = n[i]
      /\ all => n[Len(A) + 1] = Len(S)
  BY DEF Ranked
<1>3. 1 \in 1..Len(A)
  BY <1>1
<1>4. n[2] = (IF NotEmpty(A[1]) THEN h + 1 ELSE h)
      /\ (NotEmpty(A[1]) => h + 1 <= Len(S) /\ S[h + 1] = A[1])
  <2>1. 1 + 1 = 2
    OBVIOUS
  <2>2. /\ NotEmpty(A[1]) => n[2] = n[1] + 1 /\ n[2] <= Len(S) /\ S[n[2]] = A[1]
        /\ ~NotEmpty(A[1]) => n[2] = n[1]
    BY <1>2, <1>3, <2>1
  <2> QED
    BY <1>2, <2>2
<1> DEFINE m == [i \in 1..(Len(Tail(A)) + 1) |-> n[i + 1]]
<1>5. m \in [1..(Len(Tail(A)) + 1) -> Nat]
  <2>1. \A i \in 1..(Len(Tail(A)) + 1) : i + 1 \in 1..(Len(A) + 1)
    BY <1>1
  <2> QED
    BY <1>2, <2>1
<1>6. m[1] = n[2]
  <2>1. 1 \in 1..(Len(Tail(A)) + 1) /\ 1 + 1 = 2
    BY <1>1
  <2> QED
    BY <2>1
<1>7. m[Len(Tail(A)) + 1] = n[Len(A) + 1]
  <2>1. Len(Tail(A)) + 1 \in 1..(Len(Tail(A)) + 1) /\ (Len(Tail(A)) + 1) + 1 = Len(A) + 1
    BY <1>1
  <2> QED
    BY <2>1
<1>8. ASSUME NEW i \in 1..Len(Tail(A))
      PROVE  m[i] = n[i + 1] /\ m[i + 1] = n[(i + 1) + 1]
  BY <1>1
<1> HIDE DEF m
<1>9. Ranked(Tail(A), m, n[2], S, all)
  BY <1>1, <1>2, <1>5, <1>6, <1>7, <1>8 DEF Ranked
<1> QED
  BY <1>4, <1>9

\* One more is sent.
LEMMA RankedSent ==
    ASSUME NEW A \in Seq(Datagram), NEW n, NEW h, NEW S \in Seq(Datagram), NEW d \in Datagram,
           Ranked(A, n, h, S, TRUE)
    PROVE  \E m : Ranked(Append(A, d), m, h, IF NotEmpty(d) THEN Append(S, d) ELSE S, TRUE)
<1>1. PICK B : B = Append(A, d)
  OBVIOUS
<1>2. /\ B \in Seq(Datagram) /\ Len(B) = Len(A) + 1 /\ Len(A) \in Nat
      /\ \A i \in 1..Len(A) : B[i] = A[i]
      /\ B[Len(A) + 1] = d
  BY <1>1, AppendProperties, LenProperties
<1>3. PICK R : R = IF NotEmpty(d) THEN Append(S, d) ELSE S
  OBVIOUS
<1>4. /\ Len(S) \in Nat /\ Len(R) = (IF NotEmpty(d) THEN Len(S) + 1 ELSE Len(S))
      /\ \A i \in 1..Len(S) : R[i] = S[i]
      /\ NotEmpty(d) => R[Len(S) + 1] = d
  BY <1>3, AppendProperties, LenProperties
<1>5. /\ n[1] = h
      /\ \A i \in 1..(Len(A) + 1) : n[i] \in Nat
      /\ \A i \in 1..Len(A) :
            /\ NotEmpty(A[i]) => n[i + 1] = n[i] + 1 /\ n[i + 1] <= Len(S) /\ S[n[i + 1]] = A[i]
            /\ ~NotEmpty(A[i]) => n[i + 1] = n[i]
      /\ n[Len(A) + 1] = Len(S)
  BY DEF Ranked
<1> DEFINE m == [i \in 1..(Len(B) + 1) |-> IF i \in 1..(Len(A) + 1) THEN n[i] ELSE Len(R)]
<1>6. m \in [1..(Len(B) + 1) -> Nat]
  <2>1. Len(R) \in Nat
    BY <1>4
  <2> QED
    BY <1>5, <2>1
<1>7. /\ \A i \in 1..(Len(A) + 1) : m[i] = n[i]
      /\ m[Len(B) + 1] = Len(R)
  BY <1>2
<1> HIDE DEF m
<1>8. ASSUME NEW i \in 1..Len(B)
      PROVE  /\ NotEmpty(B[i]) => m[i + 1] = m[i] + 1 /\ m[i + 1] <= Len(R) /\ R[m[i + 1]] = B[i]
             /\ ~NotEmpty(B[i]) => m[i + 1] = m[i]
  <2>1. CASE i = Len(A) + 1
    <3>1. B[i] = d /\ m[i] = Len(S) /\ m[i + 1] = Len(R)
      BY <1>2, <1>5, <1>7, <2>1
    <3> QED
      BY <1>4, <3>1
  <2>2. CASE i # Len(A) + 1
    <3>1. i \in 1..Len(A) /\ i \in 1..(Len(A) + 1) /\ i + 1 \in 1..(Len(A) + 1)
      BY <1>2, <2>2
    <3>2. B[i] = A[i] /\ m[i] = n[i] /\ m[i + 1] = n[i + 1] /\ n[i] \in Nat /\ n[i + 1] \in Nat
      BY <1>2, <1>5, <1>7, <3>1
    <3>3. /\ NotEmpty(A[i]) => n[i + 1] = n[i] + 1 /\ n[i + 1] <= Len(S) /\ S[n[i + 1]] = A[i]
          /\ ~NotEmpty(A[i]) => n[i + 1] = n[i]
      BY <1>5, <3>1
    <3>4. ASSUME NotEmpty(A[i])
          PROVE  n[i + 1] <= Len(R) /\ R[n[i + 1]] = A[i]
      <4>1. n[i + 1] \in 1..Len(S)
        BY <1>4, <3>2, <3>3, <3>4
      <4> QED
        BY <1>4, <3>3, <3>4, <4>1
    <3> QED
      BY <3>2, <3>3, <3>4
  <2> QED
    BY <2>1, <2>2
<1>9. m[1] = h
  BY <1>2, <1>5, <1>7
<1>10. Ranked(B, m, h, R, TRUE)
  BY <1>6, <1>7, <1>8, <1>9 DEF Ranked
<1> QED
  BY <1>1, <1>3, <1>10

\* Nobody writes any more: what is sent goes nowhere.
LEMMA RankedAlone ==
    ASSUME NEW A \in Seq(Datagram), NEW n, NEW h, NEW S \in Seq(Datagram), NEW d \in Datagram,
           Ranked(A, n, h, S, FALSE)
    PROVE  Ranked(A, n, h, IF NotEmpty(d) THEN Append(S, d) ELSE S, FALSE)
<1>1. PICK R : R = IF NotEmpty(d) THEN Append(S, d) ELSE S
  OBVIOUS
<1>2. /\ Len(S) \in Nat /\ Len(R) \in Nat /\ Len(S) <= Len(R)
      /\ \A i \in 1..Len(S) : R[i] = S[i]
  BY <1>1, AppendProperties, LenProperties
<1>3. ASSUME NEW i \in 1..Len(A), NotEmpty(A[i])
      PROVE  n[i + 1] <= Len(R) /\ R[n[i + 1]] = A[i]
  <2>1. Len(A) \in Nat
    BY LenProperties
  <2>2. n[i] \in Nat /\ n[i + 1] = n[i] + 1 /\ n[i + 1] <= Len(S) /\ S[n[i + 1]] = A[i]
    BY <1>3, <2>1 DEF Ranked
  <2>3. n[i + 1] \in 1..Len(S)
    BY <1>2, <2>2
  <2> QED
    BY <1>2, <2>2, <2>3
<1>4. Ranked(A, n, h, R, FALSE)
  BY <1>3 DEF Ranked
<1> QED
  BY <1>1, <1>4

LEMMA RankedCut ==
    ASSUME NEW D \in Seq(Datagram), NEW q \in Seq(Datagram), NEW n, NEW h, NEW S, NEW all \in BOOLEAN,
           Ranked(D \o q, n, h, S, all)
    PROVE  \E m : Ranked(D, m, h, S, FALSE)
<1>1. Len(D) \in Nat /\ Len(q) \in Nat
  BY LenProperties
<1>2. Len(D \o q) = Len(D) + Len(q) /\ \A i \in 1..Len(D) : (D \o q)[i] = D[i]
  BY <1>1, ConcatProperties
<1>3. \A i \in 1..Len(D) : i \in 1..Len(D \o q)
  BY <1>1, <1>2
<1>4. \A i \in 1..(Len(D) + 1) : i \in 1..(Len(D \o q) + 1)
  BY <1>1, <1>2
<1> DEFINE m == [i \in 1..(Len(D) + 1) |-> n[i]]
<1>5. m \in [1..(Len(D) + 1) -> Nat] /\ m[1] = h
  BY <1>1, <1>4 DEF Ranked
<1>6. \A i \in 1..Len(D) : m[i] = n[i] /\ m[i + 1] = n[i + 1]
  BY <1>1
<1> HIDE DEF m
<1>7. ASSUME NEW i \in 1..Len(D)
      PROVE  /\ NotEmpty(D[i]) => m[i + 1] = m[i] + 1 /\ m[i + 1] <= Len(S) /\ S[m[i + 1]] = D[i]
             /\ ~NotEmpty(D[i]) => m[i + 1] = m[i]
  BY <1>2, <1>3, <1>6 DEF Ranked
<1>8. Ranked(D, m, h, S, FALSE)
  BY <1>5, <1>7 DEF Ranked
<1> QED
  BY <1>8

-----------------------------------------------------------------------------
(* The steps of one connection.                                              *)

Sending(S, d) == IF NotEmpty(d) THEN Append(S, d) ELSE S

\* The last of the second sequence is the last of both.
LEMMA AppendedConcat ==
    ASSUME NEW B, NEW s \in Seq(B), NEW t \in Seq(B), NEW b \in B
    PROVE  s \o Append(t, b) = Append(s \o t, b) /\ s \o t \in Seq(B)
<1>1. PICK z \in Seq(B) : z = <<b>>
  <2>1. <<b>> \in [1..1 -> B] /\ 1 \in Nat
    OBVIOUS
  <2>2. <<b>> \in UNION {[1..n -> B] : n \in Nat}
    BY <2>1, Zenon
  <2>3. <<b>> \in Seq(B)
    BY <2>2, SeqDef, Zenon
  <2> QED
    BY <2>3
<1>2. s \o t \in Seq(B)
  BY ConcatProperties
<1>3. Append(t, b) = t \o z /\ Append(s \o t, b) = (s \o t) \o z
  BY <1>1, <1>2, AppendIsConcat
<1>4. (s \o t) \o z = s \o (t \o z)
  BY ConcatAssociative
<1> QED
  BY <1>2, <1>3, <1>4

LEMMA SendFlows ==
    ASSUME NEW s \in Seq(Byte), NEW q \in Seq(Datagram), NEW w \in BOOLEAN, NEW e \in Nat,
           NEW h \in Nat, NEW S \in Seq(Datagram), NEW d \in Datagram, Flows(s, q, w, e, h, S)
    PROVE  Flows(s, Append(q, d), w, e, h, Sending(S, d))
<1>0. PICK D \in Seq(Datagram) : (\E p : Laid(D, p, s, e)) /\ (\E n : Ranked(Pending(D, q, w), n, h, S, w))
  BY DEF Flows
<1>1. PICK p, n : Laid(D, p, s, e) /\ Ranked(Pending(D, q, w), n, h, S, w)
  BY <1>0
<1>2. \E m : Ranked(Pending(D, Append(q, d), w), m, h, Sending(S, d), w)
  <2>1. CASE w
    <3>1. D \o Append(q, d) = Append(D \o q, d) /\ D \o q \in Seq(Datagram)
      BY AppendedConcat
    <3>2. Ranked(D \o q, n, h, S, TRUE)
      BY <1>1, <2>1 DEF Pending
    <3>3. \E m : Ranked(Append(D \o q, d), m, h, Sending(S, d), TRUE)
      BY <3>1, <3>2, RankedSent DEF Sending
    <3> QED
      BY <2>1, <3>1, <3>3 DEF Pending
  <2>2. CASE ~w
    <3>1. Ranked(D, n, h, S, FALSE)
      BY <1>1, <2>2 DEF Pending
    <3>2. Ranked(D, n, h, Sending(S, d), FALSE)
      BY <3>1, RankedAlone DEF Sending
    <3> QED
      BY <2>2, <3>2 DEF Pending
  <2> QED
    BY <2>1, <2>2
<1> QED
  BY <1>1, <1>2 DEF Flows

LEMMA WriteFlows ==
    ASSUME NEW s \in Seq(Byte), NEW q \in Seq(Datagram), q # <<>>, NEW e \in Nat,
           NEW h \in Nat, NEW S \in Seq(Datagram), Flows(s, q, TRUE, e, h, S)
    PROVE  Flows(s \o Bytes(Head(q)), Tail(q), TRUE, e, h, S)
<1>0. PICK D \in Seq(Datagram) : (\E p : Laid(D, p, s, e)) /\ (\E n : Ranked(D \o q, n, h, S, TRUE))
  BY DEF Flows, Pending
<1>1. PICK p, n : Laid(D, p, s, e) /\ Ranked(D \o q, n, h, S, TRUE)
  BY <1>0
<1>2. Head(q) \in Datagram
  BY HeadTailProperties
<1>3. Append(D, Head(q)) \in Seq(Datagram)
  BY <1>2, AppendProperties
<1>4. \E r : Laid(Append(D, Head(q)), r, s \o Bytes(Head(q)), e)
  BY <1>1, <1>2, LaidWritten
<1>5. Ranked(Append(D, Head(q)) \o Tail(q), n, h, S, TRUE)
  BY <1>1, MovedOver
<1> QED
  BY <1>3, <1>4, <1>5 DEF Flows, Pending

LEMMA DropFlows ==
    ASSUME NEW s \in Seq(Byte), NEW q \in Seq(Datagram), NEW r, NEW e \in Nat,
           NEW h \in Nat, NEW S \in Seq(Datagram), Flows(s, q, TRUE, e, h, S)
    PROVE  Flows(s, r, FALSE, e, h, S)
<1>0. PICK D \in Seq(Datagram) : (\E p : Laid(D, p, s, e)) /\ (\E n : Ranked(D \o q, n, h, S, TRUE))
  BY DEF Flows, Pending
<1>1. PICK p, n : Laid(D, p, s, e) /\ Ranked(D \o q, n, h, S, TRUE)
  BY <1>0
<1>2. \E m : Ranked(D, m, h, S, FALSE)
  BY <1>1, RankedCut
<1> QED
  BY <1>1, <1>2 DEF Flows, Pending

\* What is pending after the first.
LEMMA PendingTail ==
    ASSUME NEW D \in Seq(Datagram), D # <<>>, NEW q \in Seq(Datagram), NEW w \in BOOLEAN
    PROVE  /\ Pending(D, q, w) \in Seq(Datagram) /\ Pending(D, q, w) # <<>>
           /\ Pending(D, q, w)[1] = D[1]
           /\ Tail(Pending(D, q, w)) = Pending(Tail(D), q, w)
<1>1. CASE ~w
  BY <1>1 DEF Pending
<1>2. CASE w
  <2>1. Len(D) \in Nat /\ Len(D) >= 1 /\ Len(q) \in Nat
    BY LenProperties, EmptySeq
  <2>2. /\ D \o q \in Seq(Datagram) /\ Len(D \o q) = Len(D) + Len(q)
        /\ \A i \in 1..(Len(D) + Len(q)) : (D \o q)[i] = IF i <= Len(D) THEN D[i] ELSE q[i - Len(D)]
    BY ConcatProperties
  <2>3. D \o q # <<>> /\ (D \o q)[1] = D[1]
    BY <2>1, <2>2, EmptySeq
  <2>4. Tail(D) = SubSeq(D, 1 + 1, Len(D)) /\ Tail(D \o q) = SubSeq(D \o q, 1 + 1, Len(D \o q))
    BY <2>2, <2>3, TailIsSubSeq
  <2>5. SubSeq(D, 1 + 1, Len(D)) \o q = SubSeq(D \o q, 1 + 1, Len(D \o q))
    <3>1. 1 \in Nat /\ 1 <= Len(D)
      BY <2>1
    <3> QED
      BY <3>1, SkippedConcat
  <2> QED
    BY <1>2, <2>2, <2>3, <2>4, <2>5 DEF Pending
<1> QED
  BY <1>1, <1>2

\* A stream that is not at its end begins with a datagram.
LEMMA FirstOf ==
    ASSUME NEW D \in Seq(Datagram), NEW p, NEW s \in Seq(Byte), NEW e \in Nat,
           Laid(D, p, s, e), Len(s) > 0 \/ e > 0
    PROVE  /\ D # <<>> /\ D[1] \in Datagram /\ Size[D[1]] \in Nat
           /\ e > 0 => Size[D[1]] = e
           /\ e = 0 => p[1] = 0 /\ p[2] = HeaderSize + Size[D[1]]
           /\ e > 0 => p[1] = -HeaderSize /\ p[2] = e
           /\ \A k \in 1..(HeaderSize + Size[D[1]]) :
                 p[1] + k >= 1 => s[p[1] + k] = [dg |-> D[1], at |-> k]
<1>1. D # <<>>
  <2>1. SUFFICES ASSUME D = <<>> PROVE FALSE
    OBVIOUS
  <2>2. Len(D) + 1 = 1
    BY <2>1, EmptySeq
  <2>3. e = 0
    BY <2>1 DEF Laid
  <2>4. p[1] = Len(s) /\ p[1] = 0
    BY <2>2, <2>3 DEF Laid
  <2> QED
    BY <2>3, <2>4
<1>2. 1 \in 1..Len(D) /\ D[1] \in Datagram
  BY <1>1, EmptySeq, ElementOfSeq
<1>3. Size[D[1]] \in Nat /\ HeaderSize = 2
  BY <1>2, SizeAssumption DEF HeaderSize
<1>4. p[2] = p[1] + HeaderSize + Size[D[1]]
  <2>1. 1 + 1 = 2
    OBVIOUS
  <2> QED
    BY <1>2, <2>1 DEF Laid
<1>5. /\ e > 0 => Size[D[1]] = e
      /\ e = 0 => p[1] = 0
      /\ e > 0 => p[1] = -HeaderSize
  BY DEF Laid
<1>6. e = 0 => p[2] = HeaderSize + Size[D[1]]
  BY <1>3, <1>4, <1>5
<1>7. e > 0 => p[2] = e
  BY <1>3, <1>4, <1>5
<1>8. \A k \in 1..(HeaderSize + Size[D[1]]) :
         p[1] + k >= 1 => s[p[1] + k] = [dg |-> D[1], at |-> k]
  BY <1>2 DEF Laid
<1> QED
  BY <1>1, <1>2, <1>3, <1>5, <1>6, <1>7, <1>8

LEMMA HeaderFlows ==
    ASSUME NEW s \in Seq(Byte), NEW q \in Seq(Datagram), NEW w \in BOOLEAN,
           NEW h \in Nat, NEW S \in Seq(Datagram), Flows(s, q, w, 0, h, S), HeaderSize <= Len(s)
    PROVE  /\ s[1].dg \in Datagram
           /\ Flows(SubSeq(s, HeaderSize + 1, Len(s)), q, w, Size[s[1].dg], h, S)
<1>0. PICK D \in Seq(Datagram) : (\E p : Laid(D, p, s, 0)) /\ (\E n : Ranked(Pending(D, q, w), n, h, S, w))
  BY DEF Flows
<1>1. PICK p, n : Laid(D, p, s, 0) /\ Ranked(Pending(D, q, w), n, h, S, w)
  BY <1>0
<1>2. Len(s) > 0 /\ HeaderSize = 2
  BY LenProperties DEF HeaderSize
<1>3. /\ D # <<>> /\ D[1] \in Datagram /\ Size[D[1]] \in Nat
      /\ p[1] = 0 /\ p[2] = HeaderSize + Size[D[1]]
      /\ \A k \in 1..(HeaderSize + Size[D[1]]) :
            p[1] + k >= 1 => s[p[1] + k] = [dg |-> D[1], at |-> k]
  <2>1. Laid(D, p, s, 0) /\ (Len(s) > 0 \/ 0 > 0) /\ 0 \in Nat
    BY <1>1, <1>2
  <2>2. /\ D # <<>> /\ D[1] \in Datagram /\ Size[D[1]] \in Nat
        /\ p[1] = 0 /\ p[2] = HeaderSize + Size[D[1]]
    BY <2>1, FirstOf
  <2>3. 1 \in 1..Len(D)
    BY <2>2, EmptySeq
  <2> QED
    BY <2>1, <2>2, <2>3 DEF Laid
<1>4. s[1] = [dg |-> D[1], at |-> 1]
  <2>1. 1 \in 1..(HeaderSize + Size[D[1]]) /\ p[1] + 1 = 1
    BY <1>2, <1>3
  <2> QED
    BY <1>3, <2>1
<1>5. CASE Size[D[1]] > 0
  <2>1. \E r : Laid(D, r, SubSeq(s, HeaderSize + 1, Len(s)), Size[D[1]])
    BY <1>1, <1>3, <1>5, LaidHeader
  <2>2. Flows(SubSeq(s, HeaderSize + 1, Len(s)), q, w, Size[D[1]], h, S)
    BY <1>1, <2>1 DEF Flows
  <2> QED
    BY <1>3, <1>4, <2>2
<1>6. CASE Size[D[1]] = 0
  <2>1. p[2] = HeaderSize /\ HeaderSize \in Nat
    BY <1>2, <1>3, <1>6
  <2>2. \E r : Laid(Tail(D), r, SubSeq(s, HeaderSize + 1, Len(s)), 0)
    BY <1>1, <1>3, <2>1, LaidTail
  <2>3. /\ Pending(D, q, w) \in Seq(Datagram) /\ Pending(D, q, w) # <<>>
        /\ Pending(D, q, w)[1] = D[1]
        /\ Tail(Pending(D, q, w)) = Pending(Tail(D), q, w)
    BY <1>3, PendingTail
  <2>4. ~NotEmpty(D[1])
    BY <1>6 DEF NotEmpty
  <2>5. \E m : Ranked(Pending(Tail(D), q, w), m, h, S, w)
    BY <1>1, <2>3, <2>4, RankedTail
  <2>6. Tail(D) \in Seq(Datagram)
    BY <1>3, HeadTailProperties
  <2>7. Size[s[1].dg] = 0 /\ s[1].dg \in Datagram
    BY <1>3, <1>4, <1>6
  <2>8. Flows(SubSeq(s, HeaderSize + 1, Len(s)), q, w, 0, h, S)
    BY <2>2, <2>5, <2>6 DEF Flows
  <2> QED
    BY <2>7, <2>8
<1> QED
  BY <1>3, <1>5, <1>6

LEMMA TakeFlows ==
    ASSUME NEW s \in Seq(Byte), NEW q \in Seq(Datagram), NEW w \in BOOLEAN, NEW e \in Nat, e > 0,
           NEW h \in Nat, NEW S \in Seq(Datagram), Flows(s, q, w, e, h, S), e <= Len(s)
    PROVE  /\ Flows(SubSeq(s, e + 1, Len(s)), q, w, 0, h + 1, S)
           /\ h + 1 <= Len(S) /\ S[h + 1] \in Datagram /\ Size[S[h + 1]] = e
           /\ \A k \in 1..e : s[k] = [dg |-> S[h + 1], at |-> k + HeaderSize]
<1>0. PICK D \in Seq(Datagram) : (\E p : Laid(D, p, s, e)) /\ (\E n : Ranked(Pending(D, q, w), n, h, S, w))
  BY DEF Flows
<1>1. PICK p, n : Laid(D, p, s, e) /\ Ranked(Pending(D, q, w), n, h, S, w)
  BY <1>0
<1>2. /\ D # <<>> /\ D[1] \in Datagram /\ Size[D[1]] = e
      /\ p[1] = -HeaderSize /\ p[2] = e
      /\ \A k \in 1..(HeaderSize + e) :
            p[1] + k >= 1 => s[p[1] + k] = [dg |-> D[1], at |-> k]
  <2>1. /\ D # <<>> /\ D[1] \in Datagram /\ Size[D[1]] = e
        /\ p[1] = -HeaderSize /\ p[2] = e
        /\ \A k \in 1..(HeaderSize + Size[D[1]]) :
              p[1] + k >= 1 => s[p[1] + k] = [dg |-> D[1], at |-> k]
    <3>1. Laid(D, p, s, e) /\ (Len(s) > 0 \/ e > 0)
      BY <1>1
    <3>2. /\ D # <<>> /\ D[1] \in Datagram
          /\ e > 0 => Size[D[1]] = e
          /\ e > 0 => p[1] = -HeaderSize /\ p[2] = e
      BY <3>1, FirstOf, Zenon
    <3>3. \A k \in 1..(HeaderSize + Size[D[1]]) :
             p[1] + k >= 1 => s[p[1] + k] = [dg |-> D[1], at |-> k]
      <4>1. 1 \in 1..Len(D)
        BY <3>2, EmptySeq
      <4> QED
        BY <3>1, <4>1 DEF Laid
    <3> QED
      BY <3>2, <3>3
  <2> QED
    BY <2>1
<1>3. HeaderSize = 2
  BY DEF HeaderSize
<1>4. ASSUME NEW k \in 1..e
      PROVE  s[k] = [dg |-> D[1], at |-> k + HeaderSize]
  <2>1. /\ k + HeaderSize \in 1..(HeaderSize + e)
        /\ p[1] + (k + HeaderSize) = k /\ k >= 1
    BY <1>2, <1>3
  <2> QED
    BY <1>2, <2>1
<1>5. \E r : Laid(Tail(D), r, SubSeq(s, e + 1, Len(s)), 0)
  BY <1>1, <1>2, LaidTail
<1>6. /\ Pending(D, q, w) \in Seq(Datagram) /\ Pending(D, q, w) # <<>>
      /\ Pending(D, q, w)[1] = D[1]
      /\ Tail(Pending(D, q, w)) = Pending(Tail(D), q, w)
  BY <1>2, PendingTail
<1>7. NotEmpty(D[1])
  BY <1>2 DEF NotEmpty
<1>8. /\ \E m : Ranked(Pending(Tail(D), q, w), m, h + 1, S, w)
      /\ h + 1 <= Len(S) /\ S[h + 1] = D[1]
  <2>1. PICK A : A = Pending(D, q, w)
    OBVIOUS
  <2>2. A \in Seq(Datagram) /\ A # <<>> /\ NotEmpty(A[1]) /\ Ranked(A, n, h, S, w)
    BY <1>1, <1>6, <1>7, <2>1
  <2>3. /\ \E m : Ranked(Tail(A), m, IF NotEmpty(A[1]) THEN h + 1 ELSE h, S, w)
        /\ h + 1 <= Len(S) /\ S[h + 1] = A[1]
    BY <2>2, RankedTail
  <2>4. \E m : Ranked(Tail(A), m, h + 1, S, w)
    BY <2>2, <2>3
  <2> QED
    BY <1>6, <2>1, <2>3, <2>4
<1>9. Tail(D) \in Seq(Datagram)
  BY <1>2, HeadTailProperties
<1>10. Flows(SubSeq(s, e + 1, Len(s)), q, w, 0, h + 1, S)
  BY <1>5, <1>8, <1>9 DEF Flows
<1> QED
  BY <1>2, <1>4, <1>8, <1>10

\* The handler is given a datagram that was sent.
LEMMA DeliveredIs ==
    ASSUME NEW b \in Seq(Byte), NEW d \in Datagram, Size[d] > 0, Size[d] <= Len(b),
           \A k \in 1..Size[d] : b[k] = [dg |-> d, at |-> k + HeaderSize]
    PROVE  Delivered(SubSeq(b, 1, Size[d])) = d
<1>1. Size[d] \in Nat /\ HeaderSize = 2 /\ Len(b) \in Nat
  BY SizeAssumption, LenProperties DEF HeaderSize
<1>2. PICK u : u = SubSeq(b, 1, Size[d])
  OBVIOUS
<1>3. /\ u \in Seq(Byte) /\ Len(u) = Size[d]
      /\ \A k \in 1..Size[d] : u[k] = b[k]
  <2>1. \A i \in 1..Size[d] : b[i] \in Byte
    BY <1>1, ElementOfSeq
  <2>2. /\ u \in Seq(Byte) /\ Len(u) = (IF 1 <= Size[d] THEN Size[d] - 1 + 1 ELSE 0)
        /\ \A i \in 1..(Size[d] - 1 + 1) : u[i] = b[1 + i - 1]
    BY <1>1, <1>2, <2>1, SubSeqProperties
  <2>3. Size[d] - 1 + 1 = Size[d] /\ \A i \in 1..Size[d] : 1 + i - 1 = i
    BY <1>1
  <2> QED
    BY <1>1, <2>2, <2>3
<1>4. PICK v : v = SubSeq(Bytes(d), HeaderSize + 1, HeaderSize + Size[d])
  OBVIOUS
<1>5. /\ v \in Seq(Byte) /\ Len(v) = Size[d]
      /\ \A k \in 1..Size[d] : v[k] = [dg |-> d, at |-> k + HeaderSize]
  <2>1. /\ Bytes(d) \in Seq(Byte) /\ Len(Bytes(d)) = HeaderSize + Size[d]
        /\ \A k \in 1..(HeaderSize + Size[d]) : Bytes(d)[k] = [dg |-> d, at |-> k]
    BY BytesTypes
  <2>2. HeaderSize \in Nat /\ HeaderSize <= Len(Bytes(d))
    BY <1>1, <2>1
  <2>3. v = SubSeq(Bytes(d), HeaderSize + 1, Len(Bytes(d)))
    BY <1>4, <2>1
  <2>4. /\ v \in Seq(Byte) /\ Len(v) = Len(Bytes(d)) - HeaderSize
        /\ \A j \in 1..(Len(Bytes(d)) - HeaderSize) : v[j] = Bytes(d)[HeaderSize + j]
    BY <2>1, <2>2, <2>3, SkipProperties
  <2>5. Len(Bytes(d)) - HeaderSize = Size[d]
    BY <1>1, <2>1
  <2>6. ASSUME NEW k \in 1..Size[d]
        PROVE  HeaderSize + k \in 1..(HeaderSize + Size[d]) /\ HeaderSize + k = k + HeaderSize
    BY <1>1
  <2>7. ASSUME NEW k \in 1..Size[d]
        PROVE  v[k] = [dg |-> d, at |-> k + HeaderSize]
    BY <2>1, <2>4, <2>5, <2>6
  <2> QED
    BY <2>4, <2>5, <2>7
<1>6. \A k \in 1..Size[d] : u[k] = v[k]
  BY <1>3, <1>5
<1>7. u = v
  BY <1>3, <1>5, <1>6, SeqEqual
<1>8. Head(u).dg = d
  <2>1. u # <<>> /\ 1 \in 1..Size[d]
    BY <1>1, <1>3, EmptySeq
  <2>2. Head(u) = u[1]
    BY <1>3, <2>1
  <2>3. u[1] = [dg |-> d, at |-> 1 + HeaderSize]
    BY <1>3, <2>1
  <2> QED
    BY <2>2, <2>3
<1> QED
  BY <1>2, <1>4, <1>7, <1>8 DEF Delivered

(***************************************************************************)
(* The invariant.                                                          *)
(***************************************************************************)
LEMMA StreamInitially == StreamInit => StreamTypes /\ Flowing /\ HandledInOrder
<1> SUFFICES ASSUME StreamInit PROVE StreamTypes /\ Flowing /\ HandledInOrder
  OBVIOUS
<1>1. /\ <<>> \in Seq(Datagram) /\ <<>> \in Seq(Byte)
      /\ <<>> \in Seq(Datagram \union {Garbled})
      /\ Len(<<>>) = 0
  BY EmptySeq
<1>2. StreamTypes
  BY <1>1, SizeAssumption DEF StreamInit, StreamTypes
<1>3. Flowing
  <2> SUFFICES ASSUME NEW c \in Conn
               PROVE  Flows(buf[c] \o wire[c], outgoing_q[c], writing[c], expected[c],
                            Len(handled[c]), sent[c])
    BY DEF Flowing
  <2>1. /\ buf[c] = <<>> /\ wire[c] = <<>> /\ outgoing_q[c] = <<>> /\ writing[c] = TRUE
        /\ expected[c] = 0 /\ handled[c] = <<>> /\ sent[c] = <<>>
    BY DEF StreamInit
  <2>2. <<>> \o <<>> = <<>>
    BY <1>1, ConcatEmptySeq
  <2>3. Laid(<<>>, [i \in 1..(0 + 1) |-> 0], <<>>, 0)
    BY <1>1 DEF Laid
  <2>4. Ranked(<<>>, [i \in 1..(0 + 1) |-> 0], 0, <<>>, TRUE)
    BY <1>1 DEF Ranked
  <2>5. Pending(<<>>, <<>>, TRUE) = <<>>
    BY <2>2 DEF Pending
  <2>6. Flows(<<>>, <<>>, TRUE, 0, 0, <<>>)
    BY <1>1, <2>3, <2>4, <2>5 DEF Flows
  <2> QED
    BY <1>1, <2>1, <2>2, <2>6
<1>4. HandledInOrder
  <2> SUFFICES ASSUME NEW c \in Conn PROVE IsPrefix(handled[c], sent[c])
    BY DEF HandledInOrder
  <2>1. handled[c] = <<>> /\ sent[c] = <<>>
    BY DEF StreamInit
  <2> QED
    BY <1>1, <2>1 DEF IsPrefix
<1> QED
  BY <1>2, <1>3, <1>4

\* The next in order follows a prefix.
LEMMA NextInOrder ==
    ASSUME NEW B, NEW C, B \subseteq C, NEW u \in Seq(C), NEW S \in Seq(B), IsPrefix(u, S), Len(u) + 1 <= Len(S)
    PROVE  IsPrefix(Append(u, S[Len(u) + 1]), S)
<1>1. Len(u) \in Nat /\ Len(S) \in Nat /\ S \in Seq(C)
  BY LenProperties, SeqMonotonic
<1>2. Len(u) + 1 \in 1..Len(S)
  BY <1>1
<1>3. SubSeq(u, 1, Len(u)) = u
  BY SubSeqFull
<1>4. u = SubSeq(S, 1, Len(u))
  BY <1>3 DEF IsPrefix
<1>5. S[Len(u) + 1] \in C
  BY <1>1, <1>2, ElementOfSeq
<1>6. PICK v : v = Append(u, S[Len(u) + 1])
  OBVIOUS
<1>7. v \in Seq(C) /\ Len(v) = Len(u) + 1
  BY <1>5, <1>6, AppendProperties
<1>8. SubSeq(v, 1, Len(v)) = v
  BY <1>7, SubSeqFull
<1>9. SubSeq(S, 1, Len(u) + 1) = SubSeq(S, 1, (Len(u) + 1) - 1) \o <<S[Len(u) + 1]>>
  <2>1. 1 \in 1..Len(S) /\ Len(u) + 1 \in 1..Len(S)
    BY <1>1, <1>2
  <2> QED
    BY <1>1, <2>1, SubSeqRecursiveSecond
<1>10. (Len(u) + 1) - 1 = Len(u)
  BY <1>1
<1>11. v = u \o <<S[Len(u) + 1]>>
  BY <1>5, <1>6, AppendIsConcat
<1>12. SubSeq(S, 1, Len(v)) = v
  BY <1>4, <1>7, <1>9, <1>10, <1>11
<1> QED
  BY <1>1, <1>6, <1>7, <1>8, <1>12 DEF IsPrefix

\* What is sent after it does not disturb a prefix.
LEMMA PrefixSent ==
    ASSUME NEW C, NEW u \in Seq(C), NEW S \in Seq(Datagram), NEW d \in Datagram, IsPrefix(u, S)
    PROVE  IsPrefix(u, Sending(S, d))
<1>1. CASE ~NotEmpty(d)
  BY <1>1 DEF Sending
<1>2. CASE NotEmpty(d)
  <2>1. PICK R : R = Append(S, d)
    OBVIOUS
  <2>2. /\ R \in Seq(Datagram) /\ Len(R) = Len(S) + 1 /\ Len(S) \in Nat /\ Len(u) \in Nat
        /\ \A i \in 1..Len(S) : R[i] = S[i]
    BY <2>1, AppendProperties, LenProperties
  <2>3. Len(u) <= Len(S) /\ SubSeq(u, 1, Len(u)) = SubSeq(S, 1, Len(u))
    BY DEF IsPrefix
  <2>4. SubSeq(R, 1, Len(u)) = SubSeq(S, 1, Len(u))
    <3>1. CASE Len(u) = 0
      BY <3>1, SubSeqEmpty
    <3>2. CASE Len(u) > 0
      <4>1. R = S \o <<d>> /\ <<d>> \in Seq(Datagram)
        BY <2>1, AppendIsConcat
      <4>2. 1 \in 1..Len(S) /\ Len(u) \in 1..Len(S)
        BY <2>2, <2>3, <3>2
      <4> QED
        BY <4>1, <4>2, SubSeqOfConcat1
    <3> QED
      BY <2>2, <3>1, <3>2
  <2>5. Len(u) <= Len(R)
    BY <2>2, <2>3
  <2> QED
    BY <1>2, <2>1, <2>3, <2>4, <2>5 DEF Sending, IsPrefix
<1> QED
  BY <1>1, <1>2

\* All but one connection are left alone.
LEMMA OthersFlow ==
    ASSUME StreamTypes, Flowing, HandledInOrder, NEW c \in Conn,
           \A x \in Conn \ {c} :
              /\ buf'[x] = buf[x] /\ wire'[x] = wire[x] /\ outgoing_q'[x] = outgoing_q[x]
              /\ writing'[x] = writing[x] /\ expected'[x] = expected[x]
              /\ handled'[x] = handled[x] /\ sent'[x] = sent[x],
           Flows(buf'[c] \o wire'[c], outgoing_q'[c], writing'[c], expected'[c], Len(handled'[c]), sent'[c]),
           IsPrefix(handled'[c], sent'[c])
    PROVE  Flowing' /\ HandledInOrder'
<1>1. ASSUME NEW x \in Conn
      PROVE  /\ Flows(buf'[x] \o wire'[x], outgoing_q'[x], writing'[x], expected'[x],
                      Len(handled'[x]), sent'[x])
             /\ IsPrefix(handled'[x], sent'[x])
  <2>1. CASE x = c
    BY <2>1
  <2>2. CASE x # c
    <3>1. /\ buf'[x] = buf[x] /\ wire'[x] = wire[x] /\ outgoing_q'[x] = outgoing_q[x]
          /\ writing'[x] = writing[x] /\ expected'[x] = expected[x]
          /\ handled'[x] = handled[x] /\ sent'[x] = sent[x]
      BY <2>2
    <3>2. /\ Flows(buf[x] \o wire[x], outgoing_q[x], writing[x], expected[x], Len(handled[x]), sent[x])
          /\ IsPrefix(handled[x], sent[x])
      BY DEF Flowing, HandledInOrder
    <3> QED
      BY <3>1, <3>2
  <2> QED
    BY <2>1, <2>2
<1> QED
  BY <1>1 DEF Flowing, HandledInOrder

StreamInv == StreamTypes /\ Flowing /\ HandledInOrder

LEMMA SendKeeps ==
    ASSUME StreamInv, NEW c \in Conn, NEW d \in Datagram, SendDatagram(c, d)
    PROVE  StreamInv'
<1> USE DEF StreamInv
<1>1. /\ outgoing_q[c] \in Seq(Datagram) /\ sent[c] \in Seq(Datagram) /\ writing[c] \in BOOLEAN
      /\ buf[c] \in Seq(Byte) /\ wire[c] \in Seq(Byte) /\ expected[c] \in Nat
      /\ handled[c] \in Seq(Datagram \union {Garbled}) /\ Len(handled[c]) \in Nat
  <2>1. handled[c] \in Seq(Datagram \union {Garbled})
    BY DEF StreamTypes
  <2>2. Len(handled[c]) \in Nat
    BY <2>1, LenProperties
  <2> QED
    BY <2>1, <2>2 DEF StreamTypes
<1>2. /\ outgoing_q' = [outgoing_q EXCEPT ![c] = Append(outgoing_q[c], d)]
      /\ sent' = [sent EXCEPT ![c] = Sending(sent[c], d)]
      /\ sends < MaxSends /\ sends' = sends + 1
      /\ UNCHANGED <<writing, wire, buf, expected, open, running, handled>>
  <2>1. sent = [sent EXCEPT ![c] = sent[c]]
    BY DEF StreamTypes
  <2> QED
    BY <2>1 DEF SendDatagram, Sending
<1>3. Append(outgoing_q[c], d) \in Seq(Datagram) /\ Sending(sent[c], d) \in Seq(Datagram)
  BY <1>1, AppendProperties DEF Sending
<1>4. StreamTypes'
  <2>1. sends' \in 0..MaxSends
    BY <1>2, SizeAssumption DEF StreamTypes
  <2>2. outgoing_q' \in [Conn -> Seq(Datagram)] /\ sent' \in [Conn -> Seq(Datagram)]
    BY <1>2, <1>3 DEF StreamTypes
  <2> QED
    BY <1>2, <2>1, <2>2 DEF StreamTypes
<1>5. outgoing_q'[c] = Append(outgoing_q[c], d) /\ sent'[c] = Sending(sent[c], d)
  BY <1>2 DEF StreamTypes
<1>6. Flows(buf'[c] \o wire'[c], outgoing_q'[c], writing'[c], expected'[c], Len(handled'[c]), sent'[c])
  <2>1. Flows(buf[c] \o wire[c], outgoing_q[c], writing[c], expected[c], Len(handled[c]), sent[c])
    BY DEF Flowing
  <2>2. buf[c] \o wire[c] \in Seq(Byte)
    BY <1>1, ConcatProperties
  <2>3. Flows(buf[c] \o wire[c], Append(outgoing_q[c], d), writing[c], expected[c],
              Len(handled[c]), Sending(sent[c], d))
    BY <1>1, <2>1, <2>2, SendFlows
  <2> QED
    BY <1>2, <1>5, <2>3
<1>7. IsPrefix(handled'[c], sent'[c])
  <2>1. IsPrefix(handled[c], sent[c])
    BY DEF HandledInOrder
  <2>2. IsPrefix(handled[c], Sending(sent[c], d))
    BY <1>1, <2>1, PrefixSent
  <2> QED
    BY <1>2, <1>5, <2>2
<1>8. \A x \in Conn \ {c} :
         /\ buf'[x] = buf[x] /\ wire'[x] = wire[x] /\ outgoing_q'[x] = outgoing_q[x]
         /\ writing'[x] = writing[x] /\ expected'[x] = expected[x]
         /\ handled'[x] = handled[x] /\ sent'[x] = sent[x]
  BY <1>2 DEF StreamTypes
<1> QED
  BY <1>4, <1>6, <1>7, <1>8, OthersFlow

LEMMA TransportKeeps ==
    ASSUME StreamInv, NEW c \in Conn, TransportDatagram(c)
    PROVE  StreamInv'
<1> USE DEF StreamInv
<1>1. /\ outgoing_q[c] \in Seq(Datagram) /\ outgoing_q[c] # <<>>
      /\ sent[c] \in Seq(Datagram) /\ writing[c] = TRUE
      /\ buf[c] \in Seq(Byte) /\ wire[c] \in Seq(Byte) /\ expected[c] \in Nat
      /\ Len(handled[c]) \in Nat
  <2>1. handled[c] \in Seq(Datagram \union {Garbled})
    BY DEF StreamTypes
  <2>2. Len(handled[c]) \in Nat
    BY <2>1, LenProperties
  <2> QED
    BY <2>2 DEF StreamTypes, TransportDatagram
<1>2. /\ outgoing_q' = [outgoing_q EXCEPT ![c] = Tail(outgoing_q[c])]
      /\ UNCHANGED <<buf, expected, open, running, sends, sent, handled>>
      /\ \/ writing' = [writing EXCEPT ![c] = FALSE] /\ wire' = wire
         \/ writing' = writing /\ wire' = [wire EXCEPT ![c] = wire[c] \o Bytes(Head(outgoing_q[c]))]
  BY DEF TransportDatagram
<1>3. /\ Head(outgoing_q[c]) \in Datagram /\ Tail(outgoing_q[c]) \in Seq(Datagram)
      /\ Bytes(Head(outgoing_q[c])) \in Seq(Byte)
      /\ wire[c] \o Bytes(Head(outgoing_q[c])) \in Seq(Byte)
  <2>1. Head(outgoing_q[c]) \in Datagram /\ Tail(outgoing_q[c]) \in Seq(Datagram)
    BY <1>1, HeadTailProperties
  <2>2. Bytes(Head(outgoing_q[c])) \in Seq(Byte)
    BY <2>1, BytesTypes
  <2> QED
    BY <1>1, <2>1, <2>2, ConcatProperties
<1>4. StreamTypes'
  BY <1>2, <1>3 DEF StreamTypes
<1>5. /\ outgoing_q'[c] = Tail(outgoing_q[c])
      /\ buf'[c] = buf[c] /\ expected'[c] = expected[c] /\ handled'[c] = handled[c] /\ sent'[c] = sent[c]
  BY <1>2 DEF StreamTypes
<1>6. Flows(buf[c] \o wire[c], outgoing_q[c], TRUE, expected[c], Len(handled[c]), sent[c])
  BY <1>1 DEF Flowing
<1>7. buf[c] \o wire[c] \in Seq(Byte)
  BY <1>1, ConcatProperties
<1>8. Flows(buf'[c] \o wire'[c], outgoing_q'[c], writing'[c], expected'[c], Len(handled'[c]), sent'[c])
  <2>1. CASE writing' = [writing EXCEPT ![c] = FALSE] /\ wire' = wire
    <3>1. writing'[c] = FALSE /\ wire'[c] = wire[c]
      BY <2>1 DEF StreamTypes
    <3>2. Flows(buf[c] \o wire[c], Tail(outgoing_q[c]), FALSE, expected[c], Len(handled[c]), sent[c])
      BY <1>1, <1>6, <1>7, DropFlows
    <3> QED
      BY <1>5, <3>1, <3>2
  <2>2. CASE writing' = writing /\ wire' = [wire EXCEPT ![c] = wire[c] \o Bytes(Head(outgoing_q[c]))]
    <3>1. writing'[c] = TRUE /\ wire'[c] = wire[c] \o Bytes(Head(outgoing_q[c]))
      BY <1>1, <2>2 DEF StreamTypes
    <3>2. Flows((buf[c] \o wire[c]) \o Bytes(Head(outgoing_q[c])), Tail(outgoing_q[c]), TRUE,
                expected[c], Len(handled[c]), sent[c])
      BY <1>1, <1>6, <1>7, WriteFlows
    <3>3. (buf[c] \o wire[c]) \o Bytes(Head(outgoing_q[c])) = buf[c] \o (wire[c] \o Bytes(Head(outgoing_q[c])))
      <4>1. PICK b \in Seq(Byte) : b = Bytes(Head(outgoing_q[c]))
        BY <1>3
      <4>2. PICK s \in Seq(Byte), t \in Seq(Byte) : s = buf[c] /\ t = wire[c]
        BY <1>1
      <4>3. (s \o t) \o b = s \o (t \o b)
        BY ConcatAssociative
      <4> QED
        BY <4>1, <4>2, <4>3
    <3> QED
      BY <1>5, <3>1, <3>2, <3>3
  <2> QED
    BY <1>2, <2>1, <2>2
<1>9. IsPrefix(handled'[c], sent'[c])
  BY <1>5 DEF HandledInOrder
<1>10. \A x \in Conn \ {c} :
         /\ buf'[x] = buf[x] /\ wire'[x] = wire[x] /\ outgoing_q'[x] = outgoing_q[x]
         /\ writing'[x] = writing[x] /\ expected'[x] = expected[x]
         /\ handled'[x] = handled[x] /\ sent'[x] = sent[x]
  BY <1>2 DEF StreamTypes
<1> QED
  BY <1>4, <1>8, <1>9, <1>10, OthersFlow

LEMMA ReceivedKeeps ==
    ASSUME StreamInv, NEW c \in Conn, DataReceived(c)
    PROVE  StreamInv'
<1> USE DEF StreamInv
<1>1. buf[c] \in Seq(Byte) /\ wire[c] \in Seq(Byte) /\ wire[c] # <<>>
  BY DEF StreamTypes, DataReceived
<1>2. /\ buf' = [buf EXCEPT ![c] = Append(buf[c], Head(wire[c]))]
      /\ wire' = [wire EXCEPT ![c] = Tail(wire[c])]
      /\ UNCHANGED <<outgoing_q, writing, expected, open, running, sends, sent, handled>>
  BY DEF DataReceived
<1>3. Append(buf[c], Head(wire[c])) \in Seq(Byte) /\ Tail(wire[c]) \in Seq(Byte)
  BY <1>1, HeadTailProperties, AppendProperties
<1>4. StreamTypes'
  BY <1>2, <1>3 DEF StreamTypes
<1>5. /\ buf'[c] = Append(buf[c], Head(wire[c])) /\ wire'[c] = Tail(wire[c])
      /\ outgoing_q'[c] = outgoing_q[c] /\ writing'[c] = writing[c]
      /\ expected'[c] = expected[c] /\ handled'[c] = handled[c] /\ sent'[c] = sent[c]
  BY <1>2 DEF StreamTypes
<1>6. buf'[c] \o wire'[c] = buf[c] \o wire[c]
  BY <1>1, <1>5, MovedOver
<1>7. Flows(buf'[c] \o wire'[c], outgoing_q'[c], writing'[c], expected'[c], Len(handled'[c]), sent'[c])
  BY <1>5, <1>6 DEF Flowing
<1>8. IsPrefix(handled'[c], sent'[c])
  BY <1>5 DEF HandledInOrder
<1>9. \A x \in Conn \ {c} :
         /\ buf'[x] = buf[x] /\ wire'[x] = wire[x] /\ outgoing_q'[x] = outgoing_q[x]
         /\ writing'[x] = writing[x] /\ expected'[x] = expected[x]
         /\ handled'[x] = handled[x] /\ sent'[x] = sent[x]
  BY <1>2 DEF StreamTypes
<1> QED
  BY <1>4, <1>7, <1>8, <1>9, OthersFlow

LEMMA HeaderKeeps ==
    ASSUME StreamInv, NEW c \in Conn, ReadHeader(c)
    PROVE  StreamInv'
<1> USE DEF StreamInv
<1>1. /\ outgoing_q[c] \in Seq(Datagram) /\ sent[c] \in Seq(Datagram) /\ writing[c] \in BOOLEAN
      /\ buf[c] \in Seq(Byte) /\ wire[c] \in Seq(Byte) /\ Len(handled[c]) \in Nat
      /\ Len(buf[c]) \in Nat /\ Len(wire[c]) \in Nat
  <2>1. handled[c] \in Seq(Datagram \union {Garbled}) /\ buf[c] \in Seq(Byte) /\ wire[c] \in Seq(Byte)
    BY DEF StreamTypes
  <2>2. Len(handled[c]) \in Nat /\ Len(buf[c]) \in Nat /\ Len(wire[c]) \in Nat
    BY <2>1, LenProperties
  <2> QED
    BY <2>1, <2>2 DEF StreamTypes
<1>2. /\ expected[c] = 0 /\ Len(buf[c]) > HeaderSize
      /\ expected' = [expected EXCEPT ![c] = Size[Head(buf[c]).dg]]
      /\ buf' = [buf EXCEPT ![c] = SubSeq(buf[c], HeaderSize + 1, Len(buf[c]))]
      /\ UNCHANGED <<outgoing_q, writing, wire, open, running, sends, sent, handled>>
  BY DEF ReadHeader
<1>3. HeaderSize = 2 /\ HeaderSize \in Nat /\ HeaderSize <= Len(buf[c])
  BY <1>1, <1>2 DEF HeaderSize
<1>4. /\ buf[c] \o wire[c] \in Seq(Byte) /\ HeaderSize <= Len(buf[c] \o wire[c])
      /\ (buf[c] \o wire[c])[1] = Head(buf[c])
  <2>1. /\ buf[c] \o wire[c] \in Seq(Byte) /\ HeaderSize <= Len(buf[c] \o wire[c])
        /\ \A k \in 1..HeaderSize : (buf[c] \o wire[c])[k] = buf[c][k]
    <3>1. PICK s \in Seq(Byte), t \in Seq(Byte) : s = buf[c] /\ t = wire[c]
      BY <1>1
    <3>2. HeaderSize <= Len(s)
      BY <1>3, <3>1
    <3>3. /\ s \o t \in Seq(Byte) /\ HeaderSize <= Len(s \o t)
          /\ \A k \in 1..HeaderSize : (s \o t)[k] = s[k]
      BY <1>3, <3>2, ConcatFront
    <3> QED
      BY <3>1, <3>3
  <2>2. 1 \in 1..HeaderSize /\ buf[c] # <<>>
    BY <1>1, <1>3, EmptySeq
  <2>3. Head(buf[c]) = buf[c][1]
    BY <1>1, <2>2
  <2> QED
    BY <2>1, <2>2, <2>3
<1>5. Flows(buf[c] \o wire[c], outgoing_q[c], writing[c], 0, Len(handled[c]), sent[c])
  BY <1>2 DEF Flowing
<1>6. /\ Head(buf[c]).dg \in Datagram
      /\ Flows(SubSeq(buf[c] \o wire[c], HeaderSize + 1, Len(buf[c] \o wire[c])), outgoing_q[c], writing[c],
               Size[Head(buf[c]).dg], Len(handled[c]), sent[c])
  <2>1. PICK s \in Seq(Byte) : s = buf[c] \o wire[c]
    BY <1>4
  <2>2. /\ s[1].dg \in Datagram
        /\ Flows(SubSeq(s, HeaderSize + 1, Len(s)), outgoing_q[c], writing[c], Size[s[1].dg],
                 Len(handled[c]), sent[c])
    BY <1>1, <1>4, <1>5, <2>1, HeaderFlows
  <2> QED
    BY <1>4, <2>1, <2>2
<1>7. SubSeq(buf[c], HeaderSize + 1, Len(buf[c])) \o wire[c]
        = SubSeq(buf[c] \o wire[c], HeaderSize + 1, Len(buf[c] \o wire[c]))
  BY <1>1, <1>3, SkippedConcat
<1>8. SubSeq(buf[c], HeaderSize + 1, Len(buf[c])) \in Seq(Byte) /\ Size[Head(buf[c]).dg] \in Nat
  BY <1>1, <1>3, <1>6, SkipProperties, SizeAssumption
<1>9. StreamTypes'
  BY <1>2, <1>8 DEF StreamTypes
<1>10. /\ buf'[c] = SubSeq(buf[c], HeaderSize + 1, Len(buf[c])) /\ wire'[c] = wire[c]
       /\ outgoing_q'[c] = outgoing_q[c] /\ writing'[c] = writing[c]
       /\ expected'[c] = Size[Head(buf[c]).dg] /\ handled'[c] = handled[c] /\ sent'[c] = sent[c]
  BY <1>2 DEF StreamTypes
<1>11. Flows(buf'[c] \o wire'[c], outgoing_q'[c], writing'[c], expected'[c], Len(handled'[c]), sent'[c])
  BY <1>6, <1>7, <1>10
<1>12. IsPrefix(handled'[c], sent'[c])
  BY <1>10 DEF HandledInOrder
<1>13. \A x \in Conn \ {c} :
         /\ buf'[x] = buf[x] /\ wire'[x] = wire[x] /\ outgoing_q'[x] = outgoing_q[x]
         /\ writing'[x] = writing[x] /\ expected'[x] = expected[x]
         /\ handled'[x] = handled[x] /\ sent'[x] = sent[x]
  BY <1>2 DEF StreamTypes
<1> QED
  BY <1>9, <1>11, <1>12, <1>13, OthersFlow

LEMMA HandleKeeps ==
    ASSUME StreamInv, NEW c \in Conn, HandleDatagram(c)
    PROVE  StreamInv'
<1> USE DEF StreamInv
<1>1. /\ outgoing_q[c] \in Seq(Datagram) /\ sent[c] \in Seq(Datagram) /\ writing[c] \in BOOLEAN
      /\ buf[c] \in Seq(Byte) /\ wire[c] \in Seq(Byte) /\ expected[c] \in Nat
      /\ handled[c] \in Seq(Datagram \union {Garbled}) /\ Len(handled[c]) \in Nat
      /\ Len(buf[c]) \in Nat /\ Len(wire[c]) \in Nat
  <2>1. handled[c] \in Seq(Datagram \union {Garbled}) /\ buf[c] \in Seq(Byte) /\ wire[c] \in Seq(Byte)
    BY DEF StreamTypes
  <2>2. Len(handled[c]) \in Nat /\ Len(buf[c]) \in Nat /\ Len(wire[c]) \in Nat
    BY <2>1, LenProperties
  <2> QED
    BY <2>1, <2>2 DEF StreamTypes
<1>2. /\ expected[c] > 0 /\ expected[c] <= Len(buf[c])
      /\ handled' = [handled EXCEPT ![c] = Append(handled[c], NextDatagram(c))]
      /\ expected' = [expected EXCEPT ![c] = 0]
      /\ buf' = [buf EXCEPT ![c] = SubSeq(buf[c], expected[c] + 1, Len(buf[c]))]
      /\ UNCHANGED <<outgoing_q, writing, wire, open, running, sends, sent>>
  BY <1>1 DEF HandleDatagram, Complete
<1>3. PICK d : d = sent[c][Len(handled[c]) + 1]
  OBVIOUS
<1>4. /\ buf[c] \o wire[c] \in Seq(Byte) /\ expected[c] <= Len(buf[c] \o wire[c])
      /\ \A k \in 1..expected[c] : (buf[c] \o wire[c])[k] = buf[c][k]
  <2>1. PICK s \in Seq(Byte), t \in Seq(Byte) : s = buf[c] /\ t = wire[c]
    BY <1>1
  <2>2. PICK m \in Nat : m = expected[c] /\ m <= Len(s)
    BY <1>1, <1>2, <2>1
  <2>3. /\ s \o t \in Seq(Byte) /\ m <= Len(s \o t)
        /\ \A k \in 1..m : (s \o t)[k] = s[k]
    BY <2>2, ConcatFront
  <2> QED
    BY <2>1, <2>2, <2>3
<1>5. Flows(buf[c] \o wire[c], outgoing_q[c], writing[c], expected[c], Len(handled[c]), sent[c])
  BY DEF Flowing
<1>6. /\ Flows(SubSeq(buf[c] \o wire[c], expected[c] + 1, Len(buf[c] \o wire[c])), outgoing_q[c], writing[c],
               0, Len(handled[c]) + 1, sent[c])
      /\ Len(handled[c]) + 1 <= Len(sent[c]) /\ d \in Datagram /\ Size[d] = expected[c]
      /\ \A k \in 1..expected[c] : (buf[c] \o wire[c])[k] = [dg |-> d, at |-> k + HeaderSize]
  <2>1. PICK s \in Seq(Byte) : s = buf[c] \o wire[c]
    BY <1>4
  <2>2. /\ Flows(SubSeq(s, expected[c] + 1, Len(s)), outgoing_q[c], writing[c],
                 0, Len(handled[c]) + 1, sent[c])
        /\ Len(handled[c]) + 1 <= Len(sent[c]) /\ d \in Datagram /\ Size[d] = expected[c]
        /\ \A k \in 1..expected[c] : s[k] = [dg |-> d, at |-> k + HeaderSize]
    <3>1. PICK h \in Nat : h = Len(handled[c])
      BY <1>1
    <3>2. PICK e \in Nat : e = expected[c]
      BY <1>1
    <3>3. PICK S \in Seq(Datagram) : S = sent[c]
      BY <1>1
    <3>4. Flows(s, outgoing_q[c], writing[c], e, h, S) /\ e > 0 /\ e <= Len(s)
      BY <1>2, <1>4, <1>5, <2>1, <3>1, <3>2, <3>3
    <3>5. /\ Flows(SubSeq(s, e + 1, Len(s)), outgoing_q[c], writing[c], 0, h + 1, S)
          /\ h + 1 <= Len(S) /\ S[h + 1] \in Datagram /\ Size[S[h + 1]] = e
          /\ \A k \in 1..e : s[k] = [dg |-> S[h + 1], at |-> k + HeaderSize]
      BY <1>1, <3>4, TakeFlows
    <3> QED
      BY <1>3, <3>1, <3>2, <3>3, <3>5
  <2> QED
    BY <2>1, <2>2
<1>7. NextDatagram(c) = d
  <2>1. \A k \in 1..Size[d] : buf[c][k] = [dg |-> d, at |-> k + HeaderSize]
    BY <1>4, <1>6
  <2>2. Size[d] > 0 /\ Size[d] <= Len(buf[c])
    BY <1>2, <1>6
  <2>3. Delivered(SubSeq(buf[c], 1, Size[d])) = d
    BY <1>1, <1>6, <2>1, <2>2, DeliveredIs
  <2> QED
    BY <1>6, <2>3 DEF NextDatagram
<1>8. SubSeq(buf[c], expected[c] + 1, Len(buf[c])) \o wire[c]
        = SubSeq(buf[c] \o wire[c], expected[c] + 1, Len(buf[c] \o wire[c]))
  BY <1>1, <1>2, SkippedConcat
<1>9. SubSeq(buf[c], expected[c] + 1, Len(buf[c])) \in Seq(Byte)
  BY <1>1, <1>2, SkipProperties
<1>10. /\ Append(handled[c], d) \in Seq(Datagram \union {Garbled})
       /\ Len(Append(handled[c], d)) = Len(handled[c]) + 1
  BY <1>1, <1>6, AppendProperties
<1>11. StreamTypes'
  BY <1>2, <1>7, <1>9, <1>10 DEF StreamTypes
<1>12. /\ buf'[c] = SubSeq(buf[c], expected[c] + 1, Len(buf[c])) /\ wire'[c] = wire[c]
       /\ outgoing_q'[c] = outgoing_q[c] /\ writing'[c] = writing[c]
       /\ expected'[c] = 0 /\ handled'[c] = Append(handled[c], d) /\ sent'[c] = sent[c]
  BY <1>2, <1>7 DEF StreamTypes
<1>13. Flows(buf'[c] \o wire'[c], outgoing_q'[c], writing'[c], expected'[c], Len(handled'[c]), sent'[c])
  BY <1>6, <1>8, <1>10, <1>12
<1>14. IsPrefix(handled'[c], sent'[c])
  <2>1. IsPrefix(handled[c], sent[c])
    BY DEF HandledInOrder
  <2>2. IsPrefix(Append(handled[c], sent[c][Len(handled[c]) + 1]), sent[c])
    <3>1. Datagram \subseteq Datagram \union {Garbled}
      OBVIOUS
    <3> QED
      BY <1>1, <1>6, <2>1, <3>1, NextInOrder
  <2> QED
    BY <1>3, <1>12, <2>2
<1>15. \A x \in Conn \ {c} :
         /\ buf'[x] = buf[x] /\ wire'[x] = wire[x] /\ outgoing_q'[x] = outgoing_q[x]
         /\ writing'[x] = writing[x] /\ expected'[x] = expected[x]
         /\ handled'[x] = handled[x] /\ sent'[x] = sent[x]
  BY <1>2 DEF StreamTypes
<1> QED
  BY <1>11, <1>13, <1>14, <1>15, OthersFlow

LEMMA ScheduleKeeps ==
    ASSUME StreamInv,
           UNCHANGED <<outgoing_q, writing, wire, buf, expected, sends, sent, handled>>,
           open' \in [Conn -> BOOLEAN], running' \in Conn \union {Nobody}
    PROVE  StreamInv'
<1>1. StreamTypes'
  BY DEF StreamInv, StreamTypes
<1>2. Flowing'
  BY DEF StreamInv, Flowing
<1>3. HandledInOrder'
  BY DEF StreamInv, HandledInOrder
<1> QED
  BY <1>1, <1>2, <1>3 DEF StreamInv

(* What is pending between the ends of a connection - in the queue, on the   *)
(* wire, in the buffer, from the datagram that is being read - is what was   *)
(* sent and not yet handled, in order, whoever has the event loop            *)
(* (OTPProtocol).                                                            *)
THEOREM StreamInvariance == StreamSpec => []StreamInv
<1>1. StreamInit => StreamInv
  BY StreamInitially DEF StreamInv
<1>2. StreamInv /\ [StreamNext]_streamVars => StreamInv'
  <2> SUFFICES ASSUME StreamInv, [StreamNext]_streamVars PROVE StreamInv'
    OBVIOUS
  <2>1. open \in [Conn -> BOOLEAN] /\ running \in Conn \union {Nobody}
    BY DEF StreamInv, StreamTypes
  <2>2. ASSUME NEW c \in Conn, NEW d \in Datagram, SendDatagram(c, d) PROVE StreamInv'
    BY <2>2, SendKeeps
  <2>3. ASSUME NEW c \in Conn, TransportDatagram(c) PROVE StreamInv'
    BY <2>3, TransportKeeps
  <2>4. ASSUME NEW c \in Conn, DataReceived(c) PROVE StreamInv'
    BY <2>4, ReceivedKeeps
  <2>5. ASSUME NEW c \in Conn, StreamLost(c) PROVE StreamInv'
    <3>1. open' \in [Conn -> BOOLEAN] /\ running' \in Conn \union {Nobody}
      BY <2>1, <2>5 DEF StreamLost
    <3> QED
      BY <2>5, <3>1, ScheduleKeeps DEF StreamLost
  <2>6. ASSUME NEW c \in Conn, Wake(c) PROVE StreamInv'
    <3>1. open' \in [Conn -> BOOLEAN] /\ running' \in Conn \union {Nobody}
      BY <2>1, <2>6 DEF Wake
    <3> QED
      BY <2>6, <3>1, ScheduleKeeps DEF Wake
  <2>7. ASSUME NEW c \in Conn, ReadHeader(c) PROVE StreamInv'
    BY <2>7, HeaderKeeps
  <2>8. ASSUME NEW c \in Conn, HandleDatagram(c) PROVE StreamInv'
    BY <2>8, HandleKeeps
  <2>9. ASSUME UNCHANGED streamVars PROVE StreamInv'
    BY <2>1, <2>9, ScheduleKeeps DEF streamVars
  <2>10. ASSUME NEW c \in Conn, RetryDatagram(c) PROVE StreamInv'
    BY <2>9, <2>10 DEF RetryDatagram
  <2>11. ASSUME NEW c \in Conn, Sleep(c) PROVE StreamInv'
    <3>1. open' \in [Conn -> BOOLEAN] /\ running' \in Conn \union {Nobody}
      BY <2>1, <2>11 DEF Sleep
    <3> QED
      BY <2>11, <3>1, ScheduleKeeps DEF Sleep
  <2> QED
    BY <2>2, <2>3, <2>4, <2>5, <2>6, <2>7, <2>8, <2>9, <2>10, <2>11 DEF StreamNext, Read
<1> QED
  BY <1>1, <1>2, PTL DEF StreamSpec

(* However the stream is cut into pieces, datagrams are handled whole and in *)
(* the order they were sent (transport_datagrams, handle_datagrams).         *)
THEOREM StreamInOrder == StreamSpec => []HandledInOrder
<1>1. StreamInv => HandledInOrder
  BY DEF StreamInv
<1> QED
  BY <1>1, StreamInvariance, PTL

-----------------------------------------------------------------------------
(* The numbers of channels.                                                  *)

Number == Nat \union {location_as_channel(l) : l \in Location \union Interest}

Routable == [type : {"SET_ZONE", "CHANGE_ZONE", "ENTERZONE"}, to : SUBSET Number, id : Object,
             new : Location]

\* The types of the state.
ChannelsTypeOK ==
    /\ loc \in [Object -> Location \union {Gone}]
    /\ channels \in [Object -> SUBSET Number]
    /\ interests \subseteq Interest
    /\ heard \subseteq Number
    /\ visible \in [Object -> Location \union Interest \union {Gone}]
    /\ routing \in Seq(Routable)
    /\ steps \in Nat
    /\ wide \subseteq Object

\* No object is its own parent; SET_ZONEs go to the object they are about and
\* entries to their location.
Addressed ==
    /\ \A o \in Object : loc[o] # Gone => loc[o][1] # o
    /\ \A i \in DOMAIN routing :
          /\ routing[i].type = "SET_ZONE" => routing[i].to = {routing[i].id}
          /\ routing[i].type = "ENTERZONE" => routing[i].to = {location_as_channel(routing[i].new)}

\* The client hears the locations of its interests.
Listening ==
    wide # Object => /\ \A l \in interests : ~TooLarge(l)
                     /\ heard = {location_as_channel(l) : l \in interests}

IsChange(m, o) == m.type = "CHANGE_ZONE" /\ m.id = o
IsEntry(m, o) == m.type = "ENTERZONE" /\ m.id = o

\* m tells those who look at l that o leaves.
Leaves(m, o, l) == IsChange(m, o) /\ location_as_channel(l) \in m.to

\* In what follows s is on its way, o is at `at` and shown at v, and the client
\* has the interests ints.

\* The entry of o's place is on its way, and no notice of a move after it.
EntryLast(s, o, at) ==
    \E i \in DOMAIN s : /\ IsEntry(s[i], o) /\ s[i].new = at
                        /\ \A j \in DOMAIN s : IsChange(s[j], o) => j < i

\* Where o is shown there is an interest, and o is there, or a notice says it left.
Seen(s, o, at, v, ints) ==
    v # Gone => v \in ints /\ (v = at \/ \E i \in DOMAIN s : Leaves(s[i], o, v))

\* Where a notice takes o, it still is, or a later notice says it left.
Onward(s, o, at) ==
    \A i \in DOMAIN s :
        IsChange(s[i], o) \/ IsEntry(s[i], o) =>
            /\ ~TooLarge(s[i].new)
            /\ \/ s[i].new = at \/ s[i].new[1] = 0
               \/ \E j \in DOMAIN s : j > i /\ Leaves(s[j], o, s[i].new)

\* Where o is, it is entering, unless it is shown there or is not to be, and
\* has no moves on their way.
Arriving(s, o, at, v, ints) ==
    \/ EntryLast(s, o, at)
    \/ /\ at \in ints => v = at
       /\ \A i \in DOMAIN s : IsChange(s[i], o) => at[1] = 0

Followed(s, o, at, v, ints) ==
    /\ at # Gone => ~TooLarge(at)
    /\ Seen(s, o, at, v, ints) /\ Onward(s, o, at) /\ Arriving(s, o, at, v, ints)

FollowedAll == \A o \in Object \ wide : Followed(routing, o, loc[o], visible[o], interests)

\* The inductive invariant.
ChannelsIInv == Addressed /\ Listening /\ ObjectsHear /\ FollowedAll

LEMMA BitNumber == Bit \in Nat /\ Bit > 0
BY ChannelsAssumption DEF Bit

\* The channel of a parent's children has the bit, and is the parent's number with it.
LEMMA ChildrenChannel ==
    ASSUME NEW p \in Nat
    PROVE  /\ parent_to_children(p) \in Nat
           /\ HasBit(parent_to_children(p))
           /\ p \in {parent_to_children(p), parent_to_children(p) - Bit}
<1>1. (p + Bit) \div Bit = (p \div Bit) + 1 /\ p \div Bit \in Nat
  BY BitNumber
<1>2. CASE HasBit(p)
  BY <1>2 DEF parent_to_children
<1>3. CASE ~HasBit(p)
  <2>1. parent_to_children(p) = p + Bit
    BY <1>3 DEF parent_to_children
  <2>2. (p \div Bit) % 2 # 1
    BY <1>3 DEF HasBit
  <2>3. ((p \div Bit) + 1) % 2 = 1
    BY <1>1, <2>2
  <2>4. HasBit(p + Bit)
    BY <1>1, <2>3 DEF HasBit
  <2>5. p + Bit \in Nat /\ p = p + Bit - Bit
    BY BitNumber
  <2> QED
    <3>1. parent_to_children(p) \in Nat /\ HasBit(parent_to_children(p))
      BY <2>1, <2>4, <2>5
    <3>2. p = parent_to_children(p) - Bit
      BY <2>1, BitNumber
    <3> QED
      BY <3>1, <3>2
<1> QED
  BY <1>2, <1>3

LEMMA Pairs ==
    ASSUME NEW A, NEW B, NEW l \in A \X B
    PROVE  l = <<l[1], l[2]>> /\ l[1] \in A /\ l[2] \in B
  OBVIOUS

LEMMA Places ==
    /\ \A l \in Location : l = <<l[1], l[2]>> /\ l[1] \in Nat /\ l[2] \in Nat /\ (l[1] # 0 => l[1] \in Object)
    /\ \A l \in Interest : l = <<l[1], l[2]>> /\ l[1] \in Object /\ l[1] # 0 /\ l[2] \in Nat
    /\ Object \subseteq Nat /\ 0 \notin Object
    /\ Gone \notin Location /\ Gone \notin Interest
    /\ \A l \in Location \union Interest : location_as_channel(l) \in Number
    /\ Nat \subseteq Number
<1>1. /\ Object \subseteq Nat \ {0} /\ Location \subseteq (Object \union {0}) \X Nat
      /\ Interest \subseteq Object \X Nat /\ Gone \notin Location \union Interest
  BY ChannelsAssumption
<1>2. Object \subseteq Nat /\ 0 \notin Object
  BY <1>1
<1>3. ASSUME NEW l \in Location PROVE l = <<l[1], l[2]>> /\ l[1] \in Nat /\ l[2] \in Nat /\ (l[1] # 0 => l[1] \in Object)
  <2>1. l \in (Object \union {0}) \X Nat
    BY <1>1
  <2>2. l = <<l[1], l[2]>> /\ l[1] \in Object \union {0} /\ l[2] \in Nat
    BY <2>1, Pairs
  <2> QED
    BY <2>2, <1>2
<1>4. ASSUME NEW l \in Interest PROVE l = <<l[1], l[2]>> /\ l[1] \in Object /\ l[1] # 0 /\ l[2] \in Nat
  <2>1. l \in Object \X Nat
    BY <1>1
  <2> QED
    BY <2>1, <1>2
<1>5. /\ \A l \in Location \union Interest : location_as_channel(l) \in Number
      /\ Nat \subseteq Number
  BY DEF Number
<1> QED
  BY <1>1, <1>2, <1>3, <1>4, <1>5

LEMMA Digits ==
    ASSUME NEW B \in Nat \ {0}, NEW a \in Nat, NEW b \in Nat, NEW c \in Nat, NEW d \in Nat,
           b < B, d < B, a * B + b = c * B + d
    PROVE  a = c /\ b = d
<1>1. ASSUME NEW x \in Nat, NEW y \in Nat, x < y PROVE x * B + B <= y * B
  <2>1. (x + 1) * B = x * B + B
    OBVIOUS
  <2>2. (x + 1) * B <= y * B
    BY <1>1
  <2> QED
    BY <2>1, <2>2
<1>2. a * B \in Nat /\ c * B \in Nat
  OBVIOUS
<1>3. ~(a < c) /\ ~(c < a)
  BY <1>1, <1>2
<1> QED
  BY <1>2, <1>3

\* Locations whose zones keep to their bits have channels of their own.
LEMMA LocationsDiffer ==
    ASSUME NEW l \in Location \union Interest, NEW k \in Location \union Interest,
           ~TooLarge(l), ~TooLarge(k), location_as_channel(l) = location_as_channel(k)
    PROVE  l = k
<1>1. /\ l = <<l[1], l[2]>> /\ l[1] \in Nat /\ l[2] \in Nat
      /\ k = <<k[1], k[2]>> /\ k[1] \in Nat /\ k[2] \in Nat
  BY Places
<1>2. l[1] * Bit + l[2] = k[1] * Bit + k[2]
  BY DEF location_as_channel
<1>3. l[2] < Bit /\ k[2] < Bit
  BY <1>1, BitNumber DEF TooLarge
<1>4. Bit \in Nat \ {0}
  BY BitNumber
<1>5. ASSUME NEW a \in Nat, NEW b \in Nat, NEW c \in Nat, NEW d \in Nat,
             b < Bit, d < Bit, a * Bit + b = c * Bit + d
      PROVE  a = c /\ b = d
  BY <1>4, <1>5, Digits
<1>6. l[1] = k[1] /\ l[2] = k[2]
  BY <1>1, <1>2, <1>3, <1>5
<1> QED
  BY <1>1, <1>6

-----------------------------------------------------------------------------
(* What a queue says of an object, when its head goes or more is appended.   *)

LEMMA Shifted ==
    ASSUME NEW M, NEW s \in Seq(M), s # <<>>
    PROVE  /\ Tail(s) \in Seq(M) /\ DOMAIN s \subseteq Nat
           /\ 1 \in DOMAIN s /\ Head(s) = s[1]
           /\ \A i \in DOMAIN Tail(s) : i \in Nat /\ i + 1 \in DOMAIN s /\ Tail(s)[i] = s[i + 1]
           /\ \A j \in DOMAIN s : j # 1 => j - 1 \in DOMAIN Tail(s) /\ Tail(s)[j - 1] = s[j]
<1>1. /\ Tail(s) \in Seq(M) /\ Len(Tail(s)) = Len(s) - 1 /\ Head(s) = s[1]
      /\ \A i \in 1..Len(Tail(s)) : Tail(s)[i] = s[i + 1]
  BY HeadTailProperties
<1>2. Len(s) \in Nat /\ Len(s) # 0 /\ DOMAIN s = 1..Len(s) /\ DOMAIN Tail(s) = 1..Len(Tail(s))
  BY <1>1, LenProperties, EmptySeq
<1> QED
  BY <1>1, <1>2

LEMMA Joined ==
    ASSUME NEW M, NEW s \in Seq(M), NEW t \in Seq(M)
    PROVE  /\ s \o t \in Seq(M) /\ DOMAIN s \subseteq Nat /\ DOMAIN t \subseteq Nat \ {0} /\ Len(s) \in Nat
           /\ \A i \in DOMAIN s : i \in DOMAIN (s \o t) /\ (s \o t)[i] = s[i] /\ i <= Len(s)
           /\ \A k \in DOMAIN t : Len(s) + k \in DOMAIN (s \o t) /\ (s \o t)[Len(s) + k] = t[k]
           /\ \A i \in DOMAIN (s \o t) : i \in Nat /\ (i \in DOMAIN s
                  \/ (i > Len(s) /\ i - Len(s) \in DOMAIN t /\ (s \o t)[i] = t[i - Len(s)]))
<1>1. /\ s \o t \in Seq(M) /\ Len(s \o t) = Len(s) + Len(t)
      /\ \A i \in 1..(Len(s) + Len(t)) : (s \o t)[i] = IF i <= Len(s) THEN s[i] ELSE t[i - Len(s)]
  BY ConcatProperties
<1>2. /\ Len(s) \in Nat /\ DOMAIN s = 1..Len(s) /\ Len(t) \in Nat /\ DOMAIN t = 1..Len(t)
      /\ DOMAIN (s \o t) = 1..(Len(s) + Len(t))
  BY <1>1, LenProperties
<1> QED
  BY <1>1, <1>2

About(m, o) == IsChange(m, o) \/ IsEntry(m, o)

\* A datagram that is not about the object goes.
LEMMA OtherGoes ==
    ASSUME NEW s \in Seq(Routable), s # <<>>, NEW o, NEW at, NEW v, NEW ints,
           ~About(Head(s), o), Followed(s, o, at, v, ints)
    PROVE  Followed(Tail(s), o, at, v, ints)
<1> DEFINE t == Tail(s)
<1>1. /\ DOMAIN s \subseteq Nat /\ 1 \in DOMAIN s /\ Head(s) = s[1]
      /\ \A i \in DOMAIN t : i \in Nat /\ i + 1 \in DOMAIN s /\ t[i] = s[i + 1]
      /\ \A j \in DOMAIN s : j # 1 => j - 1 \in DOMAIN t /\ t[j - 1] = s[j]
  BY Shifted
<1>2. ~About(s[1], o)
  BY <1>1
<1> HIDE DEF t
<1>3. \A j \in DOMAIN s : About(s[j], o) => j - 1 \in DOMAIN t /\ t[j - 1] = s[j]
  BY <1>1, <1>2
<1>4. Seen(t, o, at, v, ints)
  <2>1. \A i \in DOMAIN s : Leaves(s[i], o, v) => i - 1 \in DOMAIN t /\ Leaves(t[i - 1], o, v)
    BY <1>3 DEF Leaves, About
  <2> QED
    BY <2>1 DEF Followed, Seen
<1>5. Onward(t, o, at)
  <2> SUFFICES ASSUME NEW i \in DOMAIN t, About(t[i], o)
               PROVE  /\ ~TooLarge(t[i].new)
                      /\ \/ t[i].new = at \/ t[i].new[1] = 0
                         \/ \E j \in DOMAIN t : j > i /\ Leaves(t[j], o, t[i].new)
    BY DEF Onward, About
  <2>1. i \in Nat /\ i + 1 \in DOMAIN s /\ t[i] = s[i + 1]
    BY <1>1
  <2>2. /\ ~TooLarge(t[i].new)
        /\ \/ t[i].new = at \/ t[i].new[1] = 0
           \/ \E j \in DOMAIN s : j > i + 1 /\ Leaves(s[j], o, t[i].new)
    BY <2>1 DEF Followed, Onward, About
  <2>3. ASSUME NEW j \in DOMAIN s, j > i + 1, Leaves(s[j], o, t[i].new)
        PROVE  j - 1 \in DOMAIN t /\ j - 1 > i /\ Leaves(t[j - 1], o, t[i].new)
    <3>1. j - 1 \in DOMAIN t /\ t[j - 1] = s[j]
      BY <1>3, <2>3 DEF Leaves, About
    <3>2. j \in Nat
      BY <1>1
    <3> QED
      BY <2>1, <2>3, <3>1, <3>2
  <2> QED
    BY <2>2, <2>3
<1>6. Arriving(t, o, at, v, ints)
  <2>1. ASSUME EntryLast(s, o, at) PROVE EntryLast(t, o, at)
    <3>1. PICK i \in DOMAIN s : /\ IsEntry(s[i], o) /\ s[i].new = at
                                /\ \A j \in DOMAIN s : IsChange(s[j], o) => j < i
      BY <2>1 DEF EntryLast
    <3>2. i - 1 \in DOMAIN t /\ t[i - 1] = s[i]
      BY <1>3, <3>1 DEF About
    <3>3. \A j \in DOMAIN t : IsChange(t[j], o) => j < i - 1
      BY <1>1, <3>1
    <3> QED
      BY <3>1, <3>2, <3>3 DEF EntryLast
  <2>2. \A i \in DOMAIN t : i + 1 \in DOMAIN s /\ t[i] = s[i + 1]
    BY <1>1
  <2> QED
    BY <2>1, <2>2 DEF Followed, Arriving
<1> QED
  BY <1>4, <1>5, <1>6 DEF t, Followed

\* Datagrams that are not about the object are appended.
LEMMA OthersCome ==
    ASSUME NEW s \in Seq(Routable), NEW t \in Seq(Routable), NEW o, NEW at, NEW v, NEW ints,
           \A k \in DOMAIN t : ~About(t[k], o), Followed(s, o, at, v, ints)
    PROVE  Followed(s \o t, o, at, v, ints)
<1> DEFINE u == s \o t
<1>1. /\ DOMAIN s \subseteq Nat
      /\ \A i \in DOMAIN s : i \in DOMAIN u /\ u[i] = s[i]
      /\ \A i \in DOMAIN u : i \in DOMAIN s \/ (i - Len(s) \in DOMAIN t /\ u[i] = t[i - Len(s)])
  BY Joined
<1> HIDE DEF u
<1>2. \A i \in DOMAIN u : About(u[i], o) => i \in DOMAIN s
  BY <1>1
<1>3. Seen(u, o, at, v, ints)
  BY <1>1 DEF Followed, Seen
<1>4. Onward(u, o, at)
  BY <1>1, <1>2 DEF Followed, Onward, About
<1>5. Arriving(u, o, at, v, ints)
  <2>1. EntryLast(s, o, at) => EntryLast(u, o, at)
    BY <1>1, <1>2 DEF EntryLast, About
  <2> QED
    BY <1>1, <1>2, <2>1 DEF Followed, Arriving, About
<1> QED
  BY <1>3, <1>4, <1>5 DEF u, Followed

\* The object moves: the notice comes, and the entry if the new place has a parent.
LEMMA MoveComes ==
    ASSUME NEW s \in Seq(Routable), NEW t \in Seq(Routable), NEW o,
           NEW at \in Location \union {Gone}, NEW new \in Location, NEW v, NEW ints \in SUBSET Interest,
           Followed(s, o, at, v, ints), ~TooLarge(new),
           NEW p \in DOMAIN t, t[p] = Change(o, at, new),
           \A k \in DOMAIN t : IsChange(t[k], o) => k = p,
           \A k \in DOMAIN t : IsEntry(t[k], o) => t[k].new = new,
           new[1] # 0 => \E e \in DOMAIN t : e > p /\ IsEntry(t[e], o)
    PROVE  Followed(s \o t, o, new, v, ints)
<1> DEFINE u == s \o t
<1>1. /\ DOMAIN s \subseteq Nat /\ DOMAIN t \subseteq Nat \ {0} /\ Len(s) \in Nat
      /\ \A i \in DOMAIN s : i \in DOMAIN u /\ u[i] = s[i] /\ i <= Len(s)
      /\ \A k \in DOMAIN t : Len(s) + k \in DOMAIN u /\ u[Len(s) + k] = t[k]
      /\ \A i \in DOMAIN u : i \in Nat /\ (i \in DOMAIN s
             \/ (i > Len(s) /\ i - Len(s) \in DOMAIN t /\ u[i] = t[i - Len(s)]))
  BY Joined
<1> HIDE DEF u
<1>2. at # Gone /\ at[1] # 0 => Leaves(t[p], o, at)
  BY DEF Change, Leaves, IsChange
<1>3. t[p].new = new /\ IsChange(t[p], o)
  BY DEF Change, IsChange
<1>4. Seen(u, o, new, v, ints)
  <2> SUFFICES ASSUME v # Gone
               PROVE  v \in ints /\ \E i \in DOMAIN u : Leaves(u[i], o, v)
    BY DEF Seen
  <2>1. v \in ints /\ v[1] # 0
    BY Places DEF Followed, Seen
  <2>2. CASE v = at
    BY <1>1, <1>2, <2>1, <2>2
  <2>3. CASE v # at
    <3>1. PICK i \in DOMAIN s : Leaves(s[i], o, v)
      BY <2>3 DEF Followed, Seen
    <3> QED
      BY <1>1, <2>1, <3>1
  <2> QED
    BY <2>2, <2>3
<1>5. Onward(u, o, new)
  <2> SUFFICES ASSUME NEW i \in DOMAIN u, About(u[i], o)
               PROVE  /\ ~TooLarge(u[i].new)
                      /\ \/ u[i].new = new \/ u[i].new[1] = 0
                         \/ \E j \in DOMAIN u : j > i /\ Leaves(u[j], o, u[i].new)
    BY DEF Onward, About
  <2>1. CASE i \notin DOMAIN s
    <3>1. i - Len(s) \in DOMAIN t /\ u[i] = t[i - Len(s)]
      BY <1>1, <2>1
    <3>2. u[i].new = new
      BY <1>3, <3>1 DEF About
    <3> QED
      BY <3>2
  <2>2. CASE i \in DOMAIN s
    <3>1. u[i] = s[i] /\ i <= Len(s) /\ i \in Nat
      BY <1>1, <2>2
    <3>2. /\ ~TooLarge(u[i].new)
          /\ \/ u[i].new = at \/ u[i].new[1] = 0
             \/ \E j \in DOMAIN s : j > i /\ Leaves(s[j], o, u[i].new)
      BY <2>2, <3>1 DEF Followed, Onward, About
    <3>3. CASE u[i].new = at /\ at[1] # 0
      <4>1. u[i].new \in Location
        <5>1. s[i] \in Routable
          BY <2>2, ElementOfSeq, LenProperties
        <5> QED
          BY <3>1, <5>1 DEF Routable
      <4>2. Leaves(t[p], o, u[i].new)
        BY <1>2, <3>3, <4>1, Places
      <4>3. Len(s) + p \in DOMAIN u /\ u[Len(s) + p] = t[p] /\ Len(s) + p > i
        BY <1>1, <3>1
      <4> QED
        BY <3>2, <4>2, <4>3
    <3>4. ASSUME NEW j \in DOMAIN s, j > i, Leaves(s[j], o, u[i].new)
          PROVE  j \in DOMAIN u /\ Leaves(u[j], o, u[i].new)
      BY <1>1, <3>4
    <3> QED
      BY <3>2, <3>3, <3>4
  <2> QED
    BY <2>1, <2>2
<1>6. Arriving(u, o, new, v, ints)
  <2>1. CASE new[1] # 0
    <3>1. PICK e \in DOMAIN t : e > p /\ IsEntry(t[e], o)
      BY <2>1
    <3>2. /\ Len(s) + e \in DOMAIN u /\ IsEntry(u[Len(s) + e], o) /\ u[Len(s) + e].new = new
      BY <1>1, <3>1
    <3>3. ASSUME NEW j \in DOMAIN u, IsChange(u[j], o) PROVE j < Len(s) + e
      <4>1. CASE j \in DOMAIN s
        BY <1>1, <4>1
      <4>2. CASE j \notin DOMAIN s
        <5>1. j \in Nat /\ j - Len(s) \in DOMAIN t /\ IsChange(t[j - Len(s)], o)
          BY <1>1, <3>3, <4>2
        <5>2. j - Len(s) = p
          BY <5>1
        <5> QED
          BY <1>1, <3>1, <5>1, <5>2
      <4> QED
        BY <4>1, <4>2
    <3> QED
      BY <3>2, <3>3 DEF Arriving, EntryLast
  <2>2. CASE new[1] = 0
    <3>1. new \notin ints
      BY <2>2, Places
    <3> QED
      BY <2>2, <3>1 DEF Arriving
  <2> QED
    BY <2>1, <2>2
<1> QED
  BY <1>4, <1>5, <1>6 DEF u, Followed

-----------------------------------------------------------------------------
(* What the client hears, and its interests.                                 *)

\* What a client sees that hears the interests ints, of an object at v.
Witnessed(m, v, ints) ==
    IF m.to \intersect {location_as_channel(l) : l \in ints} = {} THEN v
    ELSE IF m.type = "ENTERZONE" THEN IF v = Gone THEN m.new ELSE v
    ELSE IF v = Gone \/ m.new \notin ints THEN Gone ELSE m.new

\* The client hears of a move, or does not.
LEMMA ChangeHeard ==
    ASSUME NEW s \in Seq(Routable), s # <<>>, NEW o, NEW at, NEW v, NEW ints \in SUBSET Interest,
           IsChange(Head(s), o), Followed(s, o, at, v, ints)
    PROVE  Followed(Tail(s), o, at, Witnessed(Head(s), v, ints), ints)
<1> DEFINE t == Tail(s)
           m == s[1]
           w == Witnessed(m, v, ints)
<1>1. /\ DOMAIN s \subseteq Nat /\ 1 \in DOMAIN s /\ Head(s) = s[1]
      /\ \A i \in DOMAIN t : i \in Nat /\ i + 1 \in DOMAIN s /\ t[i] = s[i + 1]
      /\ \A j \in DOMAIN s : j # 1 => j - 1 \in DOMAIN t /\ t[j - 1] = s[j]
  BY Shifted
<1>2. IsChange(m, o) /\ m.type # "ENTERZONE"
  BY <1>1 DEF IsChange
<1> HIDE DEF t
<1>3. w # Gone => \/ w = v /\ m.to \intersect {location_as_channel(l) : l \in ints} = {}
                  \/ w = m.new /\ w \in ints
  BY <1>2 DEF Witnessed
<1>4. Onward(t, o, at)
  <2> SUFFICES ASSUME NEW i \in DOMAIN t, About(t[i], o)
               PROVE  /\ ~TooLarge(t[i].new)
                      /\ \/ t[i].new = at \/ t[i].new[1] = 0
                         \/ \E j \in DOMAIN t : j > i /\ Leaves(t[j], o, t[i].new)
    BY DEF Onward, About
  <2>1. i \in Nat /\ i + 1 \in DOMAIN s /\ t[i] = s[i + 1]
    BY <1>1
  <2>2. /\ ~TooLarge(t[i].new)
        /\ \/ t[i].new = at \/ t[i].new[1] = 0
           \/ \E j \in DOMAIN s : j > i + 1 /\ Leaves(s[j], o, t[i].new)
    BY <2>1 DEF Followed, Onward, About
  <2>3. ASSUME NEW j \in DOMAIN s, j > i + 1, Leaves(s[j], o, t[i].new)
        PROVE  j - 1 \in DOMAIN t /\ j - 1 > i /\ Leaves(t[j - 1], o, t[i].new)
    <3>1. j \in Nat /\ j # 1
      BY <1>1, <2>1, <2>3
    <3> QED
      BY <1>1, <2>1, <2>3, <3>1
  <2> QED
    BY <2>2, <2>3
<1>5. \/ m.new = at \/ m.new[1] = 0 \/ \E j \in DOMAIN t : Leaves(t[j], o, m.new)
  <2>1. \/ m.new = at \/ m.new[1] = 0 \/ \E j \in DOMAIN s : j > 1 /\ Leaves(s[j], o, m.new)
    BY <1>1, <1>2 DEF Followed, Onward
  <2>2. ASSUME NEW j \in DOMAIN s, j > 1, Leaves(s[j], o, m.new)
        PROVE  j - 1 \in DOMAIN t /\ Leaves(t[j - 1], o, m.new)
    BY <1>1, <2>2
  <2> QED
    BY <2>1, <2>2
<1>6. Seen(t, o, at, w, ints)
  <2> SUFFICES ASSUME w # Gone
               PROVE  w \in ints /\ (w = at \/ \E i \in DOMAIN t : Leaves(t[i], o, w))
    BY DEF Seen
  <2>1. CASE w = m.new /\ w \in ints
    BY <1>5, <2>1, Places
  <2>2. CASE w = v /\ m.to \intersect {location_as_channel(l) : l \in ints} = {}
    <3>1. v \in ints /\ (v = at \/ \E i \in DOMAIN s : Leaves(s[i], o, v))
      BY <2>2 DEF Followed, Seen
    <3>2. ~Leaves(s[1], o, v)
      BY <2>2, <3>1 DEF Leaves
    <3>3. ASSUME NEW i \in DOMAIN s, Leaves(s[i], o, v)
          PROVE  i - 1 \in DOMAIN t /\ Leaves(t[i - 1], o, v)
      <4>1. i # 1
        BY <3>2, <3>3
      <4> QED
        BY <1>1, <3>3, <4>1
    <3> QED
      BY <2>2, <3>1, <3>3
  <2> QED
    BY <1>3, <2>1, <2>2
<1>7. Arriving(t, o, at, w, ints)
  <2>1. CASE EntryLast(s, o, at)
    <3>1. PICK i \in DOMAIN s : /\ IsEntry(s[i], o) /\ s[i].new = at
                                /\ \A j \in DOMAIN s : IsChange(s[j], o) => j < i
      BY <2>1 DEF EntryLast
    <3>2. i # 1
      BY <1>2, <3>1 DEF IsEntry
    <3>3. i - 1 \in DOMAIN t /\ t[i - 1] = s[i]
      BY <1>1, <3>2
    <3>4. \A j \in DOMAIN t : IsChange(t[j], o) => j < i - 1
      BY <1>1, <3>1
    <3> QED
      BY <3>1, <3>3, <3>4 DEF Arriving, EntryLast
  <2>2. CASE ~EntryLast(s, o, at)
    <3>1. at[1] = 0
      BY <1>1, <1>2, <2>2 DEF Followed, Arriving
    <3>2. at \notin ints
      BY <3>1, Places
    <3> QED
      BY <3>1, <3>2 DEF Arriving
  <2> QED
    BY <2>1, <2>2
<1> QED
  BY <1>1, <1>4, <1>6, <1>7 DEF t, Followed

\* The client hears of an entry, or does not.
LEMMA EntryHeard ==
    ASSUME NEW s \in Seq(Routable), s # <<>>, NEW o, NEW at, NEW v, NEW ints \in SUBSET Interest,
           IsEntry(Head(s), o), Followed(s, o, at, v, ints),
           Head(s).to = {location_as_channel(Head(s).new)}, \A l \in ints : ~TooLarge(l)
    PROVE  Followed(Tail(s), o, at, Witnessed(Head(s), v, ints), ints)
<1> DEFINE t == Tail(s)
           m == s[1]
           w == Witnessed(m, v, ints)
<1>1. /\ DOMAIN s \subseteq Nat /\ 1 \in DOMAIN s /\ Head(s) = s[1]
      /\ \A i \in DOMAIN t : i \in Nat /\ i + 1 \in DOMAIN s /\ t[i] = s[i + 1]
      /\ \A j \in DOMAIN s : j # 1 => j - 1 \in DOMAIN t /\ t[j - 1] = s[j]
  BY Shifted
<1> HIDE DEF t
<1>2. IsEntry(m, o) /\ m.type = "ENTERZONE" /\ m.new \in Location
  <2>1. m \in Routable
    BY <1>1, ElementOfSeq, LenProperties
  <2> QED
    BY <1>1, <2>1 DEF IsEntry, Routable
<1>3. ~TooLarge(m.new)
  BY <1>1, <1>2 DEF Followed, Onward
<1>4. m.to \intersect {location_as_channel(l) : l \in ints} # {} <=> m.new \in ints
  <2>1. m.to = {location_as_channel(m.new)}
    BY <1>1
  <2>2. ASSUME NEW l \in ints, location_as_channel(l) = location_as_channel(m.new) PROVE l = m.new
    BY <1>2, <1>3, <2>2, LocationsDiffer
  <2> QED
    BY <2>1, <2>2
<1>5. w = IF m.new \in ints /\ v = Gone THEN m.new ELSE v
  BY <1>2, <1>4 DEF Witnessed
<1>6. \A j \in DOMAIN s : IsChange(s[j], o) => j - 1 \in DOMAIN t /\ t[j - 1] = s[j]
  BY <1>1, <1>2 DEF IsChange, IsEntry
<1>7. Onward(t, o, at)
  <2> SUFFICES ASSUME NEW i \in DOMAIN t, About(t[i], o)
               PROVE  /\ ~TooLarge(t[i].new)
                      /\ \/ t[i].new = at \/ t[i].new[1] = 0
                         \/ \E j \in DOMAIN t : j > i /\ Leaves(t[j], o, t[i].new)
    BY DEF Onward, About
  <2>1. i \in Nat /\ i + 1 \in DOMAIN s /\ t[i] = s[i + 1]
    BY <1>1
  <2>2. /\ ~TooLarge(t[i].new)
        /\ \/ t[i].new = at \/ t[i].new[1] = 0
           \/ \E j \in DOMAIN s : j > i + 1 /\ Leaves(s[j], o, t[i].new)
    BY <2>1 DEF Followed, Onward, About
  <2>3. ASSUME NEW j \in DOMAIN s, j > i + 1, Leaves(s[j], o, t[i].new)
        PROVE  j - 1 \in DOMAIN t /\ j - 1 > i /\ Leaves(t[j - 1], o, t[i].new)
    <3>1. j \in Nat /\ j - 1 \in DOMAIN t /\ t[j - 1] = s[j]
      BY <1>1, <1>6, <2>3 DEF Leaves
    <3> QED
      BY <2>1, <2>3, <3>1
  <2> QED
    BY <2>2, <2>3
<1>8. Seen(t, o, at, w, ints)
  <2>1. \/ m.new = at \/ m.new[1] = 0 \/ \E j \in DOMAIN s : Leaves(s[j], o, m.new)
    BY <1>1, <1>2 DEF Followed, Onward
  <2>2. w # Gone => w \in ints /\ (w = at \/ \E j \in DOMAIN s : Leaves(s[j], o, w))
    <3>1. CASE w = v
      BY <3>1 DEF Followed, Seen
    <3>2. CASE w # v
      <4>1. w = m.new /\ w \in ints
        BY <1>5, <3>2
      <4>2. w[1] # 0
        BY <4>1, Places
      <4> QED
        BY <2>1, <4>1, <4>2
    <3> QED
      BY <3>1, <3>2
  <2>3. \A j \in DOMAIN s : Leaves(s[j], o, w) => j - 1 \in DOMAIN t /\ Leaves(t[j - 1], o, w)
    BY <1>6 DEF Leaves
  <2> QED
    BY <2>2, <2>3 DEF Seen
<1>9. Arriving(t, o, at, w, ints)
  <2>1. CASE EntryLast(t, o, at)
    BY <2>1 DEF Arriving
  <2>2. CASE ~EntryLast(t, o, at) /\ EntryLast(s, o, at)
    <3>1. PICK i \in DOMAIN s : /\ IsEntry(s[i], o) /\ s[i].new = at
                                /\ \A j \in DOMAIN s : IsChange(s[j], o) => j < i
      BY <2>2 DEF EntryLast
    <3>2. i = 1
      <4> SUFFICES ASSUME i # 1 PROVE EntryLast(t, o, at)
        BY <2>2
      <4>1. i - 1 \in DOMAIN t /\ t[i - 1] = s[i]
        BY <1>1
      <4>2. ASSUME NEW j \in DOMAIN t, IsChange(t[j], o) PROVE j < i - 1
        <5>1. j \in Nat /\ i \in Nat /\ j + 1 \in DOMAIN s /\ t[j] = s[j + 1]
          BY <1>1
        <5>2. j + 1 < i
          BY <3>1, <4>2, <5>1
        <5> QED
          BY <5>1, <5>2
      <4> QED
        <5>1. IsEntry(t[i - 1], o) /\ t[i - 1].new = at
          BY <3>1, <4>1
        <5> QED
          BY <4>1, <4>2, <5>1 DEF EntryLast
    <3>3. \A j \in DOMAIN s : ~IsChange(s[j], o)
      <4> SUFFICES ASSUME NEW j \in DOMAIN s, IsChange(s[j], o) PROVE FALSE
        OBVIOUS
      <4>1. j < 1 /\ j \in DOMAIN s
        BY <3>1, <3>2
      <4>2. DOMAIN s = 1..Len(s) /\ Len(s) \in Nat
        BY LenProperties
      <4> QED
        BY <4>1, <4>2
    <3>4. v # Gone => v = at
      BY <3>3 DEF Followed, Seen, Leaves
    <3>5. m.new = at
      BY <3>1, <3>2
    <3>6. at \in ints => w = at
      BY <1>5, <3>4, <3>5
    <3>7. \A k \in DOMAIN t : ~IsChange(t[k], o)
      BY <1>1, <3>3
    <3> QED
      BY <3>6, <3>7 DEF Arriving
  <2>3. CASE ~EntryLast(s, o, at)
    <3>1. /\ at \in ints => v = at
          /\ \A i \in DOMAIN s : IsChange(s[i], o) => at[1] = 0
      BY <2>3 DEF Followed, Arriving
    <3>2. at \in ints => w = at
      <4>1. CASE at \in ints
        <5>1. v = at /\ at # Gone
          BY <3>1, <4>1, Places
        <5> QED
          BY <1>5, <5>1
      <4> QED
        BY <4>1
    <3>3. \A i \in DOMAIN t : IsChange(t[i], o) => at[1] = 0
      BY <1>1, <3>1
    <3> QED
      BY <3>2, <3>3 DEF Arriving
  <2> QED
    BY <2>1, <2>2, <2>3
<1> QED
  BY <1>1, <1>7, <1>8, <1>9 DEF t, Followed

\* A new interest: the object is shown if it is there and not shown elsewhere.
LEMMA InterestComes ==
    ASSUME NEW s \in Seq(Routable), NEW o, NEW at, NEW v, NEW ints \in SUBSET Interest,
           NEW l \in Interest, Followed(s, o, at, v, ints)
    PROVE  Followed(s, o, at, IF v = Gone /\ at = l THEN l ELSE v, ints \union {l})
<1> DEFINE w == IF v = Gone /\ at = l THEN l ELSE v
           more == ints \union {l}
<1>1. Seen(s, o, at, w, more)
  BY DEF Followed, Seen
<1>2. Arriving(s, o, at, w, more)
  <2>1. CASE EntryLast(s, o, at)
    BY <2>1 DEF Arriving
  <2>2. CASE ~EntryLast(s, o, at)
    <3>1. /\ at \in ints => v = at
          /\ \A i \in DOMAIN s : IsChange(s[i], o) => at[1] = 0
      BY <2>2 DEF Followed, Arriving
    <3>2. ASSUME at \in more PROVE w = at
      <4>1. at[1] # 0 /\ at # Gone
        BY <3>2, Places
      <4>2. \A i \in DOMAIN s : ~Leaves(s[i], o, v)
        BY <3>1, <4>1 DEF Leaves
      <4>3. v # Gone => v = at
        BY <4>2 DEF Followed, Seen
      <4> QED
        BY <3>1, <3>2, <4>1, <4>3
    <3> QED
      BY <3>1, <3>2 DEF Arriving
  <2> QED
    BY <2>1, <2>2
<1> QED
  BY <1>1, <1>2 DEF Followed

\* An interest goes, and with it what was shown there.
LEMMA InterestGoes ==
    ASSUME NEW s \in Seq(Routable), NEW o, NEW at, NEW v, NEW ints \in SUBSET Interest,
           NEW l \in ints, Followed(s, o, at, v, ints)
    PROVE  Followed(s, o, at, IF v = l THEN Gone ELSE v, ints \ {l})
  BY DEF Followed, Seen, Arriving
-----------------------------------------------------------------------------
(* What is sent for objects that move.                                       *)

\* The orderings of a finite set list each element once.
LEMMA Listed ==
    ASSUME NEW T \in SUBSET Object, NEW order \in SetToSeqs(T)
    PROVE  \E n \in Nat : /\ order \in [1..n -> T] /\ Len(order) = n
                          /\ \A i, j \in 1..n : order[i] = order[j] => i = j
                          /\ \A x \in T : \E i \in 1..n : order[i] = x
<1> DEFINE D == 1..Cardinality(T)
<1>1. IsFiniteSet(T) /\ Cardinality(T) \in Nat
  BY FS_Subset, FS_CardinalityType, ChannelsAssumption
<1>2. order \in [D -> T] /\ \A i, j \in D : i # j => order[i] # order[j]
  BY DEF SetToSeqs
<1>3. order \in Injection(D, T)
  BY <1>2, Fun_IsInj
<1>4. Cardinality(D) = Cardinality(T)
  BY <1>1, FS_Interval
<1>5. order \in Surjection(D, T)
  BY <1>1, <1>3, <1>4, FS_Injection
<1>6. \A x \in T : \E i \in D : order[i] = x
  <2> HIDE DEF D
  <2> QED
    BY <1>5, Fun_SurjectionProperties
<1>7. order \in Seq(T) /\ Len(order) = Cardinality(T)
  BY <1>1, <1>2
<1> QED
  BY <1>1, <1>2, <1>6, <1>7

LEMMA NoticeTypes ==
    ASSUME NEW o \in Object, NEW old \in Location \union {Gone}, NEW new \in Location
    PROVE  Change(o, old, new) \in Routable /\ Entry(o, new) \in Routable
<1>1. location_as_channel(new) \in Number /\ new[1] \in Number
  BY Places
<1>2. old # Gone => location_as_channel(old) \in Number /\ old[1] \in Number
  BY Places
<1>3. Entry(o, new) \in Routable
  BY <1>1 DEF Entry, Routable
<1> DEFINE left == IF old = Gone \/ (old[1] = 0 /\ new[1] # 0) THEN {}
                   ELSE {old[1], location_as_channel(old)}
           joined == IF new[1] = 0 THEN {} ELSE {new[1]}
           to == left \union joined
<1>4. to \subseteq Number
  BY <1>1, <1>2
<1>5. Change(o, old, new) = [type |-> "CHANGE_ZONE", to |-> to, id |-> o, new |-> new]
  BY DEF Change
<1> HIDE DEF to
<1>6. [type |-> "CHANGE_ZONE", to |-> to, id |-> o, new |-> new] \in Routable
  BY <1>4 DEF Routable
<1> QED
  BY <1>3, <1>5, <1>6

\* The objects' notices, and their entries if the new place has a parent.
LEMMA NoticesAre ==
    ASSUME loc \in [Object -> Location \union {Gone}], NEW new \in Location, NEW n \in Nat,
           NEW order \in [1..n -> Object], Len(order) = n,
           \A i, j \in 1..n : order[i] = order[j] => i = j
    PROVE  LET t == Notices(order, new)
           IN  /\ t \in Seq(Routable)
               /\ \A k \in DOMAIN t :
                     \E i \in 1..n : t[k] \in {Change(order[i], loc[order[i]], new), Entry(order[i], new)}
               /\ \A i \in 1..n : \E p \in DOMAIN t :
                     /\ t[p] = Change(order[i], loc[order[i]], new)
                     /\ \A k \in DOMAIN t : IsChange(t[k], order[i]) => k = p
                     /\ new[1] # 0 => \E e \in DOMAIN t : e > p /\ IsEntry(t[e], order[i])
<1> DEFINE t == Notices(order, new)
           C(i) == Change(order[i], loc[order[i]], new)
           E(i) == Entry(order[i], new)
<1>1. \A i \in 1..n : C(i) \in Routable /\ E(i) \in Routable
  BY NoticeTypes
<1>2. \A i, j \in 1..n : /\ IsChange(C(i), order[j]) => i = j
                         /\ ~IsChange(E(i), order[j])
                         /\ IsEntry(E(i), order[i])
  BY DEF Change, Entry, IsChange, IsEntry
<1>3. CASE new[1] = 0
  <2>1. t = [i \in 1..n |-> C(i)]
    BY <1>3 DEF Notices
  <2> HIDE DEF t, C, E
  <2>2. t \in Seq(Routable) /\ DOMAIN t = 1..n /\ \A i \in 1..n : t[i] = C(i)
    BY <1>1, <2>1
  <2> QED
    BY <1>2, <1>3, <2>2 DEF t, C, E
<1>4. CASE new[1] # 0
  <2>1. t = [i \in 1..2 * n |-> IF i % 2 = 1 THEN C((i + 1) \div 2) ELSE Entry(order[(i + 1) \div 2], new)]
    BY <1>4 DEF Notices
  <2>2. t = [i \in 1..2 * n |-> IF i % 2 = 1 THEN C((i + 1) \div 2) ELSE E((i + 1) \div 2)]
    BY <2>1
  <2> HIDE DEF t, C, E
  <2>3. \A i \in 1..2 * n : (i + 1) \div 2 \in 1..n
    OBVIOUS
  <2>4. t \in Seq(Routable) /\ DOMAIN t = 1..2 * n
    <3>1. \A i \in 1..2 * n : (IF i % 2 = 1 THEN C((i + 1) \div 2) ELSE E((i + 1) \div 2)) \in Routable
      BY <1>1, <2>3
    <3> DEFINE N == 2 * n
               F(i) == IF i % 2 = 1 THEN C((i + 1) \div 2) ELSE E((i + 1) \div 2)
    <3>2. N \in Nat /\ t = [i \in 1..N |-> F(i)] /\ \A i \in 1..N : F(i) \in Routable
      BY <2>2, <3>1
    <3> HIDE DEF N, F
    <3>3. t \in Seq(Routable) /\ DOMAIN t = 1..N
      BY <3>2
    <3> QED
      BY <3>3 DEF N
  <2>5. \A k \in 1..2 * n : \E i \in 1..n :
            (k = 2 * i - 1 /\ t[k] = C(i)) \/ (k = 2 * i /\ t[k] = E(i))
    <3> SUFFICES ASSUME NEW k \in 1..2 * n
                 PROVE  \E i \in 1..n :
                            (k = 2 * i - 1 /\ t[k] = C(i)) \/ (k = 2 * i /\ t[k] = E(i))
      OBVIOUS
    <3> DEFINE i == (k + 1) \div 2
    <3>1. i \in 1..n /\ (IF k % 2 = 1 THEN k = 2 * i - 1 ELSE k = 2 * i)
      OBVIOUS
    <3>2. t[k] = IF k % 2 = 1 THEN C(i) ELSE E(i)
      BY <2>2
    <3> HIDE DEF i
    <3> QED
      BY <3>1, <3>2
  <2>6. ASSUME NEW i \in 1..n
        PROVE  /\ 2 * i - 1 \in 1..2 * n /\ t[2 * i - 1] = C(i)
               /\ 2 * i \in 1..2 * n /\ t[2 * i] = E(i)
    <3>1. 2 * i - 1 \in 1..2 * n /\ 2 * i \in 1..2 * n
      OBVIOUS
    <3>2. PICK j \in 1..n : \/ 2 * i - 1 = 2 * j - 1 /\ t[2 * i - 1] = C(j)
                            \/ 2 * i - 1 = 2 * j /\ t[2 * i - 1] = E(j)
      BY <2>5, <3>1
    <3>3. PICK k \in 1..n : \/ 2 * i = 2 * k - 1 /\ t[2 * i] = C(k)
                            \/ 2 * i = 2 * k /\ t[2 * i] = E(k)
      BY <2>5, <3>1
    <3>4. \A h \in 1..n : 2 * i - 1 # 2 * h /\ 2 * i # 2 * h - 1
                            /\ (2 * i - 1 = 2 * h - 1 => i = h) /\ (2 * i = 2 * h => i = h)
      OBVIOUS
    <3> QED
      BY <3>1, <3>2, <3>3, <3>4
  <2>7. \A k \in DOMAIN t : \E i \in 1..n : t[k] \in {C(i), E(i)}
    BY <2>4, <2>5
  <2>8. ASSUME NEW i \in 1..n
        PROVE  \E p \in DOMAIN t : /\ t[p] = C(i)
                                   /\ \A k \in DOMAIN t : IsChange(t[k], order[i]) => k = p
                                   /\ \E e \in DOMAIN t : e > p /\ IsEntry(t[e], order[i])
    <3>1. \A k \in DOMAIN t : IsChange(t[k], order[i]) => k = 2 * i - 1
      <4> SUFFICES ASSUME NEW k \in DOMAIN t, IsChange(t[k], order[i]) PROVE k = 2 * i - 1
        OBVIOUS
      <4>1. PICK j \in 1..n : \/ k = 2 * j - 1 /\ t[k] = C(j)
                              \/ k = 2 * j /\ t[k] = E(j)
        BY <2>4, <2>5
      <4>2. ~IsChange(E(j), order[i]) /\ (IsChange(C(j), order[i]) => j = i)
        BY <1>2 DEF C, E
      <4> QED
        BY <4>1, <4>2
    <3>2. IsEntry(t[2 * i], order[i])
      BY <1>2, <2>6 DEF C, E
    <3>3. 2 * i > 2 * i - 1
      OBVIOUS
    <3> QED
      BY <2>4, <2>6, <3>1, <3>2, <3>3
  <2> QED
    BY <2>4, <2>7, <2>8 DEF t, C, E
<1> QED
  BY <1>3, <1>4
-----------------------------------------------------------------------------
(* The channels of an object.                                                *)

LEMMA BitFlips ==
    ASSUME NEW p \in Nat, HasBit(p + Bit)
    PROVE  parent_to_children(p) = p + Bit
<1>1. (p + Bit) \div Bit = (p \div Bit) + 1 /\ p \div Bit \in Nat
  BY BitNumber
<1>2. ((p \div Bit) + 1) % 2 = 1
  BY <1>1 DEF HasBit
<1>3. (p \div Bit) % 2 # 1
  BY <1>1, <1>2
<1> QED
  BY <1>3 DEF HasBit, parent_to_children

\* An object hears its own channel, but for the exception, and its family's.
Hearing(o, at, c) ==
    /\ at # Gone /\ o \notin c => HasBit(o) /\ o - Bit \in Object /\ at[1] # o - Bit
    /\ c \ {o} = Family(at) \ {o}

\* An object that moves keeps to that.
LEMMA ResubscribedHears ==
    ASSUME ChannelsTypeOK, Addressed, ObjectsHear, NEW o \in Object, NEW new \in Location,
           loc[o] = Gone => o \in channels[o]
    PROVE  Hearing(o, new, Resubscribed(o, new))
<1> DEFINE old == loc[o]
           c == channels[o]
<1>1. /\ old # Gone => old[1] # o /\ old[1] \in Nat /\ (old[1] # 0 => old[1] \in Object)
      /\ new # Gone /\ new[1] \in Nat /\ o \in Nat /\ Bit \in Nat
  BY Places, BitNumber DEF Addressed, ChannelsTypeOK
<1>2. Hearing(o, old, c)
  BY DEF ObjectsHear, HearsItself, HearsFamily, Hearing
<1>3. CASE old # Gone /\ old[1] = new[1]
  <2>1. Resubscribed(o, new) = c /\ Family(new) = Family(old)
    BY <1>1, <1>3 DEF Resubscribed, Family
  <2> QED
    BY <1>1, <1>2, <1>3, <2>1 DEF Hearing
<1>4. CASE ~(old # Gone /\ old[1] = new[1])
  <2>1. Resubscribed(o, new) = (c \ Family(old)) \union Family(new)
    BY <1>4 DEF Resubscribed
  <2>2. ((c \ Family(old)) \union Family(new)) \ {o} = Family(new) \ {o}
    BY <1>2 DEF Hearing
  <2>3. ASSUME o \notin Family(new), o \notin c \/ o \in Family(old)
        PROVE  HasBit(o) /\ o - Bit \in Object /\ new[1] # o - Bit
    <3>1. old # Gone
      BY <2>3 DEF Family
    <3>2. CASE o \in Family(old)
      <4>1. old[1] # 0 /\ o = parent_to_children(old[1])
        BY <3>2 DEF Family
      <4>2. HasBit(o) /\ old[1] \in {o, o - Bit}
        BY <1>1, <3>1, <4>1, ChildrenChannel
      <4>3. old[1] = o - Bit /\ old[1] \in Object
        BY <1>1, <3>1, <4>1, <4>2
      <4> QED
        BY <1>4, <3>1, <4>2, <4>3
    <3>3. CASE o \notin c
      <4>1. HasBit(o) /\ o - Bit \in Object
        BY <1>2, <3>1, <3>3 DEF Hearing
      <4>2. o - Bit \in Nat /\ o - Bit # 0 /\ (o - Bit) + Bit = o
        BY <1>1, <4>1, Places
      <4>3. parent_to_children(o - Bit) = o
        BY <4>1, <4>2, BitFlips
      <4>4. new[1] # o - Bit
        BY <1>1, <2>3, <4>2, <4>3 DEF Family
      <4> QED
        BY <4>1, <4>4
    <3> QED
      BY <2>3, <3>2, <3>3
  <2> QED
    BY <2>1, <2>2, <2>3 DEF Hearing
<1> QED
  BY <1>3, <1>4

LEMMA HearingNumbers ==
    ASSUME ChannelsTypeOK, NEW o \in Object, NEW new \in Location
    PROVE  Resubscribed(o, new) \subseteq Number
<1>1. Family(new) \subseteq Number
  BY Places, ChildrenChannel DEF Family
<1>2. channels[o] \subseteq Number
  BY DEF ChannelsTypeOK
<1> QED
  BY <1>1, <1>2 DEF Resubscribed

\* Who hears the channel of d: d, and the children of a parent that shares it.
LEMMA WhoHears ==
    ASSUME ChannelsTypeOK, ObjectsHear, NEW o \in Object, NEW d \in channels[o], d # o
    PROVE  loc[o] # Gone /\ HasBit(d) /\ loc[o][1] \in {d, d - Bit}
<1>1. d \in Family(loc[o])
  BY DEF ObjectsHear, HearsFamily
<1>2. loc[o] # Gone /\ d = parent_to_children(loc[o][1])
  BY <1>1 DEF Family
<1>3. loc[o][1] \in Nat
  BY <1>2, Places DEF ChannelsTypeOK
<1> QED
  BY <1>2, <1>3, ChildrenChannel

-----------------------------------------------------------------------------
(* The steps.                                                                *)

LEMMA ChannelsInitially == ChannelsInit => ChannelsTypeOK /\ ChannelsIInv
<1> SUFFICES ASSUME ChannelsInit PROVE ChannelsTypeOK /\ ChannelsIInv
  OBVIOUS
<1>1. ChannelsTypeOK
  BY EmptySeq DEF ChannelsInit, ChannelsTypeOK
<1>2. routing = <<>> /\ DOMAIN routing = {}
  BY EmptySeq DEF ChannelsInit
<1>3. Addressed /\ Listening /\ ObjectsHear
  BY <1>2 DEF ChannelsInit, Addressed, Listening, ObjectsHear, HearsItself, HearsFamily, Family
<1>4. FollowedAll
  BY <1>2 DEF ChannelsInit, FollowedAll, Followed, Seen, Onward, Arriving
<1> QED
  BY <1>1, <1>3, <1>4 DEF ChannelsIInv

LEMMA GenerateAtKeeps ==
    ASSUME ChannelsTypeOK, ChannelsIInv, NEW o \in Object, NEW new \in Location, GenerateAt(o, new)
    PROVE  ChannelsTypeOK' /\ ChannelsIInv'
<1> DEFINE t == Notices(<<o>>, new)
<1>1. /\ loc[o] = Gone /\ new[1] # o /\ loc' = [loc EXCEPT ![o] = new]
      /\ channels' = [channels EXCEPT ![o] = Resubscribed(o, new) \union {o}]
      /\ routing' = routing \o t
      /\ wide' = IF TooLarge(new) THEN wide \union {o} ELSE wide
      /\ interests' = interests /\ heard' = heard /\ visible' = visible /\ steps' = steps
  BY DEF GenerateAt, interestVars
<1>2. /\ t \in Seq(Routable)
      /\ \A k \in DOMAIN t : t[k] \in {Change(o, Gone, new), Entry(o, new)}
      /\ \E p \in DOMAIN t : /\ t[p] = Change(o, Gone, new)
                             /\ \A k \in DOMAIN t : IsChange(t[k], o) => k = p
                             /\ new[1] # 0 => \E e \in DOMAIN t : e > p /\ IsEntry(t[e], o)
  <2> DEFINE order == <<o>>
  <2>1. order \in [1..1 -> Object] /\ Len(order) = 1 /\ order[1] = o /\ \A i \in 1..1 : order[i] = o
    OBVIOUS
  <2>2. \A i, j \in 1..1 : order[i] = order[j] => i = j
    OBVIOUS
  <2>3. 1 \in Nat /\ loc \in [Object -> Location \union {Gone}] /\ 1 \in 1..1
    BY DEF ChannelsTypeOK
  <2> HIDE DEF order
  <2>4. LET t_1 == Notices(order, new)
        IN  /\ t_1 \in Seq(Routable)
            /\ \A k \in DOMAIN t_1 :
                  \E i \in 1..1 : t_1[k] \in {Change(order[i], loc[order[i]], new), Entry(order[i], new)}
            /\ \A i \in 1..1 : \E p \in DOMAIN t_1 :
                  /\ t_1[p] = Change(order[i], loc[order[i]], new)
                  /\ \A k \in DOMAIN t_1 : IsChange(t_1[k], order[i]) => k = p
                  /\ new[1] # 0 => \E e \in DOMAIN t_1 : e > p /\ IsEntry(t_1[e], order[i])
    BY <2>1, <2>2, <2>3, NoticesAre
  <2>5. t = Notices(order, new)
    BY DEF order
  <2> HIDE DEF t
  <2> QED
    BY <1>1, <2>1, <2>3, <2>4, <2>5
<1> HIDE DEF t
<1>3. ChannelsTypeOK'
  <2>1. Resubscribed(o, new) \union {o} \subseteq Number
    BY HearingNumbers, Places
  <2>2. routing' \in Seq(Routable)
    BY <1>1, <1>2, ConcatProperties DEF ChannelsTypeOK
  <2>3. /\ loc' \in [Object -> Location \union {Gone}]
        /\ channels' \in [Object -> SUBSET Number]
        /\ wide' \subseteq Object
    BY <1>1, <2>1 DEF ChannelsTypeOK
  <2> QED
    BY <1>1, <2>2, <2>3 DEF ChannelsTypeOK
<1>4. \A i \in DOMAIN routing' : \/ i \in DOMAIN routing /\ routing'[i] = routing[i]
                                 \/ routing'[i] \in {Change(o, Gone, new), Entry(o, new)}
  BY <1>1, <1>2, Joined DEF ChannelsTypeOK
<1>5. Addressed'
  <2>1. \A x \in Object : loc'[x] # Gone => loc'[x][1] # x
    BY <1>1 DEF ChannelsIInv, Addressed, ChannelsTypeOK
  <2>2. \A m \in {Change(o, Gone, new), Entry(o, new)} :
            /\ m.type = "SET_ZONE" => m.to = {m.id}
            /\ m.type = "ENTERZONE" => m.to = {location_as_channel(m.new)}
    BY DEF Change, Entry
  <2> QED
    BY <1>4, <2>1, <2>2 DEF ChannelsIInv, Addressed
<1>6. Listening'
  BY <1>1 DEF ChannelsIInv, Listening, ChannelsTypeOK
<1>7. ObjectsHear'
  <2>1. \A x \in Object \ {o} : loc'[x] = loc[x] /\ channels'[x] = channels[x]
    BY <1>1 DEF ChannelsTypeOK
  <2>2. loc'[o] = new /\ channels'[o] = Resubscribed(o, new) \union {o}
    BY <1>1 DEF ChannelsTypeOK
  <2>3. Resubscribed(o, new) = (channels[o] \ Family(Gone)) \union Family(new)
    BY <1>1 DEF Resubscribed
  <2>4. channels[o] \ {o} = Family(Gone) \ {o} /\ Family(Gone) = {}
    BY <1>1 DEF ChannelsIInv, ObjectsHear, HearsFamily, Family
  <2>5. channels'[o] \ {o} = Family(new) \ {o} /\ o \in channels'[o]
    BY <2>2, <2>3, <2>4
  <2>6. HearsItself' /\ HearsFamily'
    <3>1. ASSUME NEW x \in Object PROVE channels'[x] \ {x} = Family(loc'[x]) \ {x}
      <4>1. CASE x = o
        BY <2>2, <2>5, <4>1
      <4>2. CASE x # o
        BY <2>1, <4>2 DEF ChannelsIInv, ObjectsHear, HearsFamily
      <4> QED
        BY <4>1, <4>2
    <3>2. ASSUME NEW x \in Object, loc'[x] # Gone, x \notin channels'[x]
          PROVE  HasBit(x) /\ x - Bit \in Object /\ loc'[x][1] # x - Bit
      <4>1. x # o
        BY <2>5, <3>2
      <4> QED
        BY <2>1, <3>2, <4>1 DEF ChannelsIInv, ObjectsHear, HearsItself
    <3>3. HearsFamily'
      BY <3>1 DEF HearsFamily, Family
    <3>4. HearsItself'
      BY <3>2 DEF HearsItself
    <3> QED
      BY <3>3, <3>4
  <2> QED
    BY <2>6 DEF ObjectsHear
<1>8. FollowedAll'
  <2> SUFFICES ASSUME NEW x \in Object \ wide'
               PROVE  Followed(routing', x, loc'[x], visible'[x], interests')
    BY DEF FollowedAll
  <2>1. x \notin wide /\ routing \in Seq(Routable) /\ interests \in SUBSET Interest
    BY <1>1 DEF ChannelsTypeOK
  <2>2. Followed(routing, x, loc[x], visible[x], interests)
    BY <2>1 DEF ChannelsIInv, FollowedAll
  <2>3. CASE x # o
    <3>1. \A k \in DOMAIN t : ~About(t[k], x)
      BY <1>2, <2>3 DEF About, IsChange, IsEntry, Change, Entry
    <3>2. Followed(routing \o t, x, loc[x], visible[x], interests)
      BY <1>2, <2>1, <2>2, <3>1, OthersCome
    <3>3. loc'[x] = loc[x]
      BY <1>1, <2>3 DEF ChannelsTypeOK
    <3> QED
      BY <1>1, <3>2, <3>3
  <2>4. CASE x = o
    <3>1. ~TooLarge(new)
      BY <1>1, <2>4
    <3>2. \A k \in DOMAIN t : IsEntry(t[k], o) => t[k].new = new
      BY <1>2 DEF Change, Entry, IsEntry
    <3>3. Followed(routing, o, Gone, visible[o], interests)
      BY <1>1, <2>2, <2>4
    <3>4. Followed(routing \o t, o, new, visible[o], interests)
      <4>1. PICK p \in DOMAIN t : /\ t[p] = Change(o, Gone, new)
                                  /\ \A k \in DOMAIN t : IsChange(t[k], o) => k = p
                                  /\ new[1] # 0 => \E e \in DOMAIN t : e > p /\ IsEntry(t[e], o)
        BY <1>2
      <4> QED
        BY <1>2, <2>1, <3>1, <3>2, <3>3, <4>1, MoveComes
    <3>5. loc'[o] = new
      BY <1>1 DEF ChannelsTypeOK
    <3> QED
      BY <1>1, <2>4, <3>4, <3>5
  <2> QED
    BY <2>3, <2>4
<1> QED
  BY <1>3, <1>5, <1>6, <1>7, <1>8 DEF ChannelsIInv

LEMMA SendSetZoneKeeps ==
    ASSUME ChannelsTypeOK, ChannelsIInv, NEW d \in Object, NEW new \in Location, SendSetZone(d, new)
    PROVE  ChannelsTypeOK' /\ ChannelsIInv'
<1> DEFINE m == [type |-> "SET_ZONE", to |-> {d}, id |-> d, new |-> new]
<1>1. /\ routing' = Append(routing, m) /\ steps' = steps + 1
      /\ loc' = loc /\ channels' = channels /\ interests' = interests /\ heard' = heard
      /\ visible' = visible /\ wide' = wide
  BY DEF SendSetZone, Bounded, objectVars, interestVars
<1>2. m \in Routable
  BY Places DEF Routable
<1>3. routing \in Seq(Routable) /\ <<m>> \in Seq(Routable)
  BY <1>2 DEF ChannelsTypeOK
<1>4. routing' = routing \o <<m>>
  BY <1>1, <1>2, <1>3, AppendIsConcat
<1>5. ChannelsTypeOK'
  <2>1. routing' \in Seq(Routable)
    BY <1>3, <1>4, ConcatProperties
  <2> QED
    BY <1>1, <2>1 DEF ChannelsTypeOK
<1>6. DOMAIN <<m>> = 1..1 /\ \A k \in DOMAIN <<m>> : <<m>>[k] = m
  OBVIOUS
<1>7. Addressed'
  <2>1. \A i \in DOMAIN routing' : (i \in DOMAIN routing /\ routing'[i] = routing[i]) \/ routing'[i] = m
    <3> DEFINE t == <<m>>
    <3>1. t \in Seq(Routable) /\ \A k \in DOMAIN t : t[k] = m
      BY <1>3, <1>6
    <3> HIDE DEF m, t
    <3> QED
      BY <1>3, <1>4, <3>1, Joined DEF t
  <2> QED
    BY <1>1, <2>1 DEF ChannelsIInv, Addressed
<1>8. Listening' /\ ObjectsHear'
  BY <1>1 DEF ChannelsIInv, Listening, ObjectsHear, HearsItself, HearsFamily, Family
<1>9. FollowedAll'
  <2> SUFFICES ASSUME NEW x \in Object \ wide
               PROVE  Followed(routing \o <<m>>, x, loc[x], visible[x], interests)
    BY <1>1, <1>4 DEF FollowedAll
  <2>1. \A k \in DOMAIN <<m>> : ~About(<<m>>[k], x)
    BY <1>6 DEF About, IsChange, IsEntry
  <2> QED
    BY <1>3, <2>1, OthersCome DEF ChannelsIInv, FollowedAll
<1> QED
  BY <1>5, <1>7, <1>8, <1>9 DEF ChannelsIInv

LEMMA AddInterestKeeps ==
    ASSUME ChannelsTypeOK, ChannelsIInv, NEW l \in Interest, AddInterest(l)
    PROVE  ChannelsTypeOK' /\ ChannelsIInv'
<1>1. /\ interests' = interests \union {l} /\ heard' = heard \union {location_as_channel(l)}
      /\ visible' = [o \in Object |-> IF visible[o] = Gone /\ loc[o] = l THEN l ELSE visible[o]]
      /\ wide' = IF TooLarge(l) THEN Object ELSE wide
      /\ loc' = loc /\ channels' = channels /\ routing' = routing /\ steps' = steps + 1
  BY DEF AddInterest, Bounded, objectVars
<1>2. ChannelsTypeOK'
  BY <1>1, Places DEF ChannelsTypeOK
<1>3. Addressed' /\ ObjectsHear'
  BY <1>1 DEF ChannelsIInv, Addressed, ObjectsHear, HearsItself, HearsFamily, Family
<1>4. Listening'
  <2> SUFFICES ASSUME wide' # Object
               PROVE  /\ \A k \in interests' : ~TooLarge(k)
                      /\ heard' = {location_as_channel(k) : k \in interests'}
    BY DEF Listening
  <2>1. wide # Object /\ ~TooLarge(l)
    BY <1>1
  <2>2. /\ \A k \in interests : ~TooLarge(k)
        /\ heard = {location_as_channel(k) : k \in interests}
    BY <2>1 DEF ChannelsIInv, Listening
  <2> QED
    BY <1>1, <2>1, <2>2
<1>5. FollowedAll'
  <2> SUFFICES ASSUME NEW x \in Object \ wide'
               PROVE  Followed(routing, x, loc[x], visible'[x], interests \union {l})
    BY <1>1 DEF FollowedAll
  <2>1. x \notin wide /\ routing \in Seq(Routable) /\ interests \in SUBSET Interest
    BY <1>1 DEF ChannelsTypeOK
  <2>2. Followed(routing, x, loc[x], visible[x], interests)
    BY <2>1 DEF ChannelsIInv, FollowedAll
  <2>3. visible'[x] = IF visible[x] = Gone /\ loc[x] = l THEN l ELSE visible[x]
    BY <1>1
  <2> QED
    BY <2>1, <2>2, <2>3, InterestComes
<1> QED
  BY <1>2, <1>3, <1>4, <1>5 DEF ChannelsIInv

LEMMA RemoveInterestKeeps ==
    ASSUME ChannelsTypeOK, ChannelsIInv, NEW l \in Interest, RemoveInterest(l)
    PROVE  ChannelsTypeOK' /\ ChannelsIInv'
<1>1. /\ l \in interests
      /\ interests' = interests \ {l} /\ heard' = heard \ {location_as_channel(l)}
      /\ visible' = [o \in Object |-> IF visible[o] = l THEN Gone ELSE visible[o]]
      /\ wide' = wide /\ loc' = loc /\ channels' = channels /\ routing' = routing /\ steps' = steps + 1
  BY DEF RemoveInterest, Bounded, objectVars
<1>2. ChannelsTypeOK'
  BY <1>1 DEF ChannelsTypeOK
<1>3. Addressed' /\ ObjectsHear'
  BY <1>1 DEF ChannelsIInv, Addressed, ObjectsHear, HearsItself, HearsFamily, Family
<1>4. Listening'
  <2> SUFFICES ASSUME wide # Object
               PROVE  /\ \A k \in interests' : ~TooLarge(k)
                      /\ heard' = {location_as_channel(k) : k \in interests'}
    BY <1>1 DEF Listening
  <2>1. /\ \A k \in interests : ~TooLarge(k)
        /\ heard = {location_as_channel(k) : k \in interests}
    BY DEF ChannelsIInv, Listening
  <2>2. \A k \in interests : location_as_channel(k) = location_as_channel(l) => k = l
    BY <1>1, <2>1, LocationsDiffer DEF ChannelsTypeOK
  <2>3. heard \ {location_as_channel(l)} = {location_as_channel(k) : k \in interests \ {l}}
    BY <2>1, <2>2
  <2> QED
    BY <1>1, <2>1, <2>3
<1>5. FollowedAll'
  <2> SUFFICES ASSUME NEW x \in Object \ wide
               PROVE  Followed(routing, x, loc[x], visible'[x], interests \ {l})
    BY <1>1 DEF FollowedAll
  <2>1. routing \in Seq(Routable) /\ interests \in SUBSET Interest
    BY DEF ChannelsTypeOK
  <2>2. Followed(routing, x, loc[x], visible[x], interests)
    BY <2>1 DEF ChannelsIInv, FollowedAll
  <2>3. visible'[x] = IF visible[x] = l THEN Gone ELSE visible[x]
    BY <1>1
  <2> QED
    BY <1>1, <2>1, <2>2, <2>3, InterestGoes
<1> QED
  BY <1>2, <1>3, <1>4, <1>5 DEF ChannelsIInv

LEMMA SetZoneKeeps ==
    ASSUME ChannelsTypeOK, ChannelsIInv, routing # <<>>, Head(routing).type = "SET_ZONE",
           SetZone(Head(routing)), UNCHANGED steps
    PROVE  ChannelsTypeOK' /\ ChannelsIInv'
<1> DEFINE m == Head(routing)
           hearing == {o \in Object : m.to \intersect channels[o] # {}}
           raising == {o \in hearing : o = m.new[1]}
           new == m.new
           rest == Tail(routing)
<1>1. PICK done \in (IF raising = {} THEN {hearing} ELSE SUBSET (hearing \ raising)) :
      \E order \in SetToSeqs({o \in done : loc[o] # new}) :
          /\ loc' = [o \in Object |-> IF o \in done THEN new ELSE loc[o]]
          /\ channels' = [o \in Object |-> IF o \in done THEN Resubscribed(o, new) ELSE channels[o]]
          /\ routing' = rest \o Notices(order, new)
          /\ wide' = IF TooLarge(new) THEN wide \union done ELSE wide
          /\ UNCHANGED interestVars
  BY DEF SetZone
<1> DEFINE moved == {o \in done : loc[o] # new}
<1>2. PICK order \in SetToSeqs(moved) :
          /\ loc' = [o \in Object |-> IF o \in done THEN new ELSE loc[o]]
          /\ channels' = [o \in Object |-> IF o \in done THEN Resubscribed(o, new) ELSE channels[o]]
          /\ routing' = rest \o Notices(order, new)
          /\ wide' = IF TooLarge(new) THEN wide \union done ELSE wide
          /\ UNCHANGED interestVars
  BY <1>1
<1>3. done \subseteq hearing \ raising /\ done \subseteq Object /\ moved \subseteq Object
  BY <1>1
<1>4. /\ routing \in Seq(Routable) /\ rest \in Seq(Routable) /\ m = routing[1] /\ 1 \in DOMAIN routing
      /\ \A i \in DOMAIN rest : i + 1 \in DOMAIN routing /\ rest[i] = routing[i + 1]
  BY Shifted DEF ChannelsTypeOK
<1>5. m \in Routable /\ new \in Location /\ m.to = {m.id} /\ m.id \in Object /\ m.type = "SET_ZONE"
  <2>1. m \in Routable
    BY <1>4, ElementOfSeq, LenProperties
  <2> QED
    BY <1>4, <2>1 DEF ChannelsIInv, Addressed, Routable
<1>6. ASSUME NEW o \in done PROVE o # new[1] /\ o \in Object /\ m.id \in channels[o]
  BY <1>3, <1>5
<1>7. /\ interests' = interests /\ heard' = heard /\ visible' = visible /\ steps' = steps
  BY <1>2 DEF interestVars
<1> DEFINE t == Notices(order, new)
<1> HIDE DEF hearing, raising, moved, m, new, rest
<1>8. PICK n \in Nat : /\ order \in [1..n -> moved] /\ Len(order) = n
                       /\ \A i, j \in 1..n : order[i] = order[j] => i = j
                       /\ \A x \in moved : \E i \in 1..n : order[i] = x
  BY <1>3, Listed
<1>9. /\ t \in Seq(Routable)
      /\ \A k \in DOMAIN t : \E o \in moved : t[k] \in {Change(o, loc[o], new), Entry(o, new)}
      /\ \A o \in moved : \E p \in DOMAIN t :
            /\ t[p] = Change(o, loc[o], new)
            /\ \A k \in DOMAIN t : IsChange(t[k], o) => k = p
            /\ new[1] # 0 => \E e \in DOMAIN t : e > p /\ IsEntry(t[e], o)
  <2>1. order \in [1..n -> Object]
    BY <1>3, <1>8
  <2>2. /\ t \in Seq(Routable)
        /\ \A k \in DOMAIN t :
              \E i \in 1..n : t[k] \in {Change(order[i], loc[order[i]], new), Entry(order[i], new)}
        /\ \A i \in 1..n : \E p \in DOMAIN t :
              /\ t[p] = Change(order[i], loc[order[i]], new)
              /\ \A k \in DOMAIN t : IsChange(t[k], order[i]) => k = p
              /\ new[1] # 0 => \E e \in DOMAIN t : e > p /\ IsEntry(t[e], order[i])
    <3>1. loc \in [Object -> Location \union {Gone}]
      BY DEF ChannelsTypeOK
    <3>2. Len(order) = n /\ \A i, j \in 1..n : order[i] = order[j] => i = j
      BY <1>8
    <3> QED
      BY <1>5, <2>1, <3>1, <3>2, NoticesAre
  <2> HIDE DEF t
  <2>3. \A i \in 1..n : order[i] \in moved
    BY <1>8
  <2>4. \A k \in DOMAIN t : \E o \in moved : t[k] \in {Change(o, loc[o], new), Entry(o, new)}
    BY <2>2, <2>3
  <2>5. ASSUME NEW o \in moved
        PROVE  \E p \in DOMAIN t :
                  /\ t[p] = Change(o, loc[o], new)
                  /\ \A k \in DOMAIN t : IsChange(t[k], o) => k = p
                  /\ new[1] # 0 => \E e \in DOMAIN t : e > p /\ IsEntry(t[e], o)
    <3>1. PICK i \in 1..n : order[i] = o
      BY <1>8
    <3> QED
      BY <2>2, <3>1
  <2> QED
    BY <2>2, <2>4, <2>5
<1> HIDE DEF t
<1>10. ChannelsTypeOK'
  <2>1. routing' \in Seq(Routable)
    BY <1>2, <1>4, <1>9, ConcatProperties DEF t
  <2>2. \A o \in done : Resubscribed(o, new) \subseteq Number
    BY <1>3, <1>5, HearingNumbers
  <2>3. /\ loc' \in [Object -> Location \union {Gone}]
        /\ channels' \in [Object -> SUBSET Number]
    BY <1>2, <1>5, <2>2 DEF ChannelsTypeOK
  <2>4. wide' \subseteq Object
    BY <1>2, <1>3 DEF ChannelsTypeOK
  <2> QED
    BY <1>7, <2>1, <2>3, <2>4 DEF ChannelsTypeOK
<1>11. \A i \in DOMAIN routing' :
          \/ \E j \in DOMAIN routing : routing'[i] = routing[j]
          \/ \E o \in moved : routing'[i] \in {Change(o, loc[o], new), Entry(o, new)}
  <2>1. routing' = rest \o t
    BY <1>2 DEF t
  <2>2. \A i \in DOMAIN routing' : \/ i \in DOMAIN rest /\ routing'[i] = rest[i]
                                   \/ \E k \in DOMAIN t : routing'[i] = t[k]
    <3>1. rest \in Seq(Routable) /\ t \in Seq(Routable)
      BY <1>4, <1>9
    <3> QED
      BY <2>1, <3>1, Joined
  <2> SUFFICES ASSUME NEW i \in DOMAIN routing'
               PROVE  \/ \E j \in DOMAIN routing : routing'[i] = routing[j]
                      \/ \E o \in moved : routing'[i] \in {Change(o, loc[o], new), Entry(o, new)}
    OBVIOUS
  <2>3. CASE i \in DOMAIN rest /\ routing'[i] = rest[i]
    BY <1>4, <2>3
  <2>4. CASE \E k \in DOMAIN t : routing'[i] = t[k]
    <3>1. PICK k \in DOMAIN t : routing'[i] = t[k]
      BY <2>4
    <3>2. PICK o \in moved : t[k] \in {Change(o, loc[o], new), Entry(o, new)}
      BY <1>9
    <3> QED
      BY <3>1, <3>2
  <2> QED
    BY <2>2, <2>3, <2>4
<1>12. Addressed'
  <2>1. ASSUME NEW x \in Object, loc'[x] # Gone PROVE loc'[x][1] # x
    <3>1. CASE x \in done
      BY <1>2, <1>6, <3>1
    <3>2. CASE x \notin done
      BY <1>2, <2>1, <3>2 DEF ChannelsIInv, Addressed
    <3> QED
      BY <3>1, <3>2
  <2>2. \A o \in moved : \A d \in {Change(o, loc[o], new), Entry(o, new)} :
            /\ d.type = "SET_ZONE" => d.to = {d.id}
            /\ d.type = "ENTERZONE" => d.to = {location_as_channel(d.new)}
    BY DEF Change, Entry
  <2>3. ASSUME NEW i \in DOMAIN routing'
        PROVE  /\ routing'[i].type = "SET_ZONE" => routing'[i].to = {routing'[i].id}
               /\ routing'[i].type = "ENTERZONE" => routing'[i].to = {location_as_channel(routing'[i].new)}
    <3>1. CASE \E j \in DOMAIN routing : routing'[i] = routing[j]
      BY <3>1 DEF ChannelsIInv, Addressed
    <3>2. CASE \E o \in moved : routing'[i] \in {Change(o, loc[o], new), Entry(o, new)}
      <4>1. PICK o \in moved : routing'[i] \in {Change(o, loc[o], new), Entry(o, new)}
        BY <3>2
      <4> HIDE DEF Addressed
      <4> QED
        BY <2>2, <4>1
    <3> QED
      BY <1>11, <3>1, <3>2
  <2> QED
    BY <2>1, <2>3 DEF Addressed
<1>13. Listening'
  <2>1. wide' # Object => wide # Object
    BY <1>2, <1>3 DEF ChannelsTypeOK
  <2> QED
    BY <1>7, <2>1 DEF ChannelsIInv, Listening
<1>14. ObjectsHear'
  <2>1. ASSUME NEW x \in Object PROVE Hearing(x, loc'[x], channels'[x])
    <3>1. CASE x \in done
      <4>1. loc'[x] = new /\ channels'[x] = Resubscribed(x, new)
        BY <1>2, <3>1
      <4>2. loc[x] = Gone => x \in channels[x]
        <5>1. m.id # x => loc[x] # Gone
          BY <1>6, <3>1, WhoHears DEF ChannelsIInv
        <5> QED
          BY <1>6, <3>1, <5>1
      <4> QED
        BY <1>5, <4>1, <4>2, ResubscribedHears DEF ChannelsIInv
    <3>2. CASE x \notin done
      <4>1. loc'[x] = loc[x] /\ channels'[x] = channels[x]
        BY <1>2, <3>2
      <4> QED
        BY <4>1 DEF ChannelsIInv, ObjectsHear, HearsItself, HearsFamily, Hearing
    <3> QED
      BY <3>1, <3>2
  <2>2. HearsItself'
    BY <2>1 DEF HearsItself, Hearing
  <2>3. HearsFamily'
    BY <2>1 DEF HearsFamily, Hearing, Family
  <2> QED
    BY <2>2, <2>3 DEF ObjectsHear
<1>15. FollowedAll'
  <2> SUFFICES ASSUME NEW x \in Object \ wide'
               PROVE  Followed(rest \o t, x, loc'[x], visible[x], interests)
    BY <1>2, <1>7 DEF FollowedAll, t
  <2>1. x \notin wide /\ interests \in SUBSET Interest
    BY <1>2 DEF ChannelsTypeOK
  <2>2. ~About(m, x)
    BY <1>5 DEF About, IsChange, IsEntry
  <2>3. Followed(routing, x, loc[x], visible[x], interests)
    BY <2>1 DEF ChannelsIInv, FollowedAll
  <2>4. Followed(rest, x, loc[x], visible[x], interests)
    BY <1>4, <2>2, <2>3, OtherGoes DEF m, rest
  <2>5. CASE x \in moved
    <3>1. x \in done /\ loc'[x] = new /\ ~TooLarge(new) /\ loc[x] \in Location \union {Gone}
      BY <1>2, <2>5 DEF moved, ChannelsTypeOK
    <3>2. \A k \in DOMAIN t : IsEntry(t[k], x) => t[k].new = new
      BY <1>9 DEF Change, Entry
    <3>3. PICK p \in DOMAIN t :
            /\ t[p] = Change(x, loc[x], new)
            /\ \A k \in DOMAIN t : IsChange(t[k], x) => k = p
            /\ new[1] # 0 => \E e \in DOMAIN t : e > p /\ IsEntry(t[e], x)
      BY <1>9, <2>5
    <3>4. /\ new \in Location /\ rest \in Seq(Routable) /\ t \in Seq(Routable)
          /\ interests \in SUBSET Interest /\ Followed(rest, x, loc[x], visible[x], interests)
      BY <1>4, <1>5, <1>9, <2>1, <2>4
    <3>5. Followed(rest \o t, x, new, visible[x], interests)
      BY <3>1, <3>2, <3>3, <3>4, MoveComes
    <3> QED
      BY <3>1, <3>5
  <2>6. CASE x \notin moved
    <3>1. loc'[x] = loc[x]
      BY <1>2, <2>6 DEF moved
    <3>2. \A k \in DOMAIN t : ~About(t[k], x)
      BY <1>9, <2>6 DEF About, IsChange, IsEntry, Change, Entry
    <3> QED
      BY <1>4, <1>9, <2>4, <3>1, <3>2, OthersCome
  <2> QED
    BY <2>5, <2>6
<1> QED
  BY <1>10, <1>12, <1>13, <1>14, <1>15 DEF ChannelsIInv

LEMMA NoticeKeeps ==
    ASSUME ChannelsTypeOK, ChannelsIInv, routing # <<>>, Head(routing).type # "SET_ZONE",
           Notice(Head(routing)), UNCHANGED steps
    PROVE  ChannelsTypeOK' /\ ChannelsIInv'
<1> DEFINE m == Head(routing)
           rest == Tail(routing)
<1>1. /\ visible' = IF m.to \intersect heard = {} THEN visible
                    ELSE [visible EXCEPT ![m.id] = Shown(m)]
      /\ routing' = rest /\ loc' = loc /\ channels' = channels /\ interests' = interests
      /\ heard' = heard /\ wide' = wide /\ steps' = steps
  BY DEF Notice, objectVars
<1>2. /\ routing \in Seq(Routable) /\ rest \in Seq(Routable) /\ m = routing[1] /\ 1 \in DOMAIN routing
      /\ \A i \in DOMAIN rest : i + 1 \in DOMAIN routing /\ rest[i] = routing[i + 1]
  BY Shifted DEF ChannelsTypeOK
<1>3. m \in Routable /\ m.id \in Object /\ m.new \in Location
      /\ (IsChange(m, m.id) \/ IsEntry(m, m.id))
  <2>1. m \in Routable
    BY <1>2, ElementOfSeq, LenProperties
  <2> QED
    BY <2>1 DEF Routable, IsChange, IsEntry
<1> HIDE DEF m, rest
<1>4. ChannelsTypeOK'
  <2>1. Shown(m) \in Location \union Interest \union {Gone}
    BY <1>3 DEF Shown, ChannelsTypeOK
  <2>2. visible' \in [Object -> Location \union Interest \union {Gone}]
    BY <1>1, <1>3, <2>1 DEF ChannelsTypeOK
  <2> QED
    BY <1>1, <1>2, <2>2 DEF ChannelsTypeOK
<1>5. Addressed' /\ Listening' /\ ObjectsHear'
  BY <1>1, <1>2 DEF ChannelsIInv, Addressed, Listening, ObjectsHear, HearsItself, HearsFamily, Family
<1>6. FollowedAll'
  <2> SUFFICES ASSUME NEW x \in Object \ wide
               PROVE  Followed(rest, x, loc[x], visible'[x], interests)
    BY <1>1 DEF FollowedAll
  <2>1. Followed(routing, x, loc[x], visible[x], interests) /\ interests \in SUBSET Interest
    BY DEF ChannelsIInv, FollowedAll, ChannelsTypeOK
  <2>2. CASE x # m.id
    <3>1. visible'[x] = visible[x]
      BY <1>1, <2>2 DEF ChannelsTypeOK
    <3>2. ~About(Head(routing), x)
      BY <2>2 DEF About, IsChange, IsEntry, m
    <3> QED
      BY <1>2, <2>1, <3>1, <3>2, OtherGoes DEF rest
  <2>3. CASE x = m.id
    <3>1. wide # Object
      OBVIOUS
    <3>2. /\ \A l \in interests : ~TooLarge(l)
          /\ heard = {location_as_channel(l) : l \in interests}
      BY <3>1 DEF ChannelsIInv, Listening
    <3>3. visible'[x] = Witnessed(m, visible[x], interests)
      BY <1>1, <1>3, <2>3, <3>2 DEF Witnessed, Shown, ChannelsTypeOK
    <3>4. CASE IsChange(m, x)
      BY <1>2, <2>1, <3>3, <3>4, ChangeHeard DEF m, rest
    <3>5. CASE IsEntry(m, x)
      <4>1. m.to = {location_as_channel(m.new)}
        BY <1>2, <3>5 DEF ChannelsIInv, Addressed, IsEntry
      <4> QED
        BY <1>2, <2>1, <3>2, <3>3, <3>5, <4>1, EntryHeard DEF m, rest
    <3> QED
      BY <1>3, <2>3, <3>4, <3>5
  <2> QED
    BY <2>2, <2>3
<1> QED
  BY <1>4, <1>5, <1>6 DEF ChannelsIInv

\* The inductive invariant of the numbers of channels.
THEOREM ChannelsInvariance == ChannelsSpec => [](ChannelsTypeOK /\ ChannelsIInv)
<1>1. ChannelsTypeOK /\ ChannelsIInv /\ [ChannelsNext]_channelsVars => (ChannelsTypeOK /\ ChannelsIInv)'
  <2> SUFFICES ASSUME ChannelsTypeOK, ChannelsIInv, [ChannelsNext]_channelsVars
               PROVE  (ChannelsTypeOK /\ ChannelsIInv)'
    OBVIOUS
  <2>1. CASE Route
    BY <2>1, SetZoneKeeps, NoticeKeeps DEF Route
  <2>2. ASSUME NEW o \in Object, NEW new \in Location, GenerateAt(o, new) \/ SendSetZone(o, new)
        PROVE  (ChannelsTypeOK /\ ChannelsIInv)'
    BY <2>2, GenerateAtKeeps, SendSetZoneKeeps
  <2>3. ASSUME NEW l \in Interest, AddInterest(l) \/ RemoveInterest(l)
        PROVE  (ChannelsTypeOK /\ ChannelsIInv)'
    BY <2>3, AddInterestKeeps, RemoveInterestKeeps
  <2>4. CASE UNCHANGED channelsVars
    BY <2>4 DEF channelsVars, objectVars, interestVars, ChannelsTypeOK, ChannelsIInv, Addressed,
                Listening, ObjectsHear, HearsItself, HearsFamily, Family, FollowedAll
  <2> QED
    BY <2>1, <2>2, <2>3, <2>4 DEF ChannelsNext
<1> QED
  BY ChannelsInitially, <1>1, PTL DEF ChannelsSpec

\* When everything is routed a client sees what its interests cover, where it
\* is, and nothing else, although channels are numbers that objects, families
\* and locations share (location_as_channel, parent_to_children; the handlers
\* of interests and of moves).
THEOREM ViewsMatch == ChannelsSpec => []ViewMatches
<1>1. ChannelsTypeOK /\ ChannelsIInv => ViewMatches
  <2> SUFFICES ASSUME ChannelsTypeOK, ChannelsIInv, routing = <<>>, NEW o \in Object \ wide
               PROVE  visible[o] = IF loc[o] \in interests THEN loc[o] ELSE Gone
    BY DEF ViewMatches
  <2>1. Followed(routing, o, loc[o], visible[o], interests) /\ DOMAIN routing = {}
    BY EmptySeq DEF ChannelsIInv, FollowedAll
  <2> QED
    BY <2>1 DEF Followed, Seen, Arriving, EntryLast
<1> QED
  BY <1>1, ChannelsInvariance, PTL

\* An object hears itself and its parent's children, but for one that left the
\* parent whose number with the bit it has (handle_location_change).
THEOREM EveryObjectHears == ChannelsSpec => []ObjectsHear
<1>1. ChannelsIInv => ObjectsHear
  BY DEF ChannelsIInv
<1> QED
  BY <1>1, ChannelsInvariance, PTL

\* A SET_ZONE moves only the object it is for, and the children of parents
\* whose channel is the number of that object (handle_datagram).
THEOREM ObjectsMoveAlone == ChannelsSpec => MovesAlone
<1> DEFINE Alone == \A o \in Object : loc[o] # Gone /\ loc'[o] # loc[o] =>
                       LET d == Head(routing).id
                       IN  o = d \/ (HasBit(d) /\ loc[o][1] \in {d, d - Bit})
<1>1. ChannelsTypeOK /\ ChannelsIInv /\ [ChannelsNext]_channelsVars => [Alone]_channelsVars
  <2> SUFFICES ASSUME ChannelsTypeOK, ChannelsIInv, [ChannelsNext]_channelsVars,
                      NEW o \in Object, loc[o] # Gone, loc'[o] # loc[o]
               PROVE  LET d == Head(routing).id
                      IN  o = d \/ (HasBit(d) /\ loc[o][1] \in {d, d - Bit})
    OBVIOUS
  <2>1. routing # <<>> /\ Head(routing).type = "SET_ZONE" /\ SetZone(Head(routing))
    <3>1. ASSUME NEW x \in Object, NEW new \in Location, GenerateAt(x, new) PROVE FALSE
      BY <3>1 DEF GenerateAt, ChannelsTypeOK
    <3> QED
      BY <3>1 DEF ChannelsNext, channelsVars, objectVars, Route, Notice, SendSetZone, AddInterest,
                  RemoveInterest
  <2> DEFINE m == Head(routing)
             hearing == {x \in Object : m.to \intersect channels[x] # {}}
  <2>2. o \in hearing
    BY <2>1 DEF SetZone
  <2>3. m = routing[1] /\ 1 \in DOMAIN routing
    BY <2>1, Shifted DEF ChannelsTypeOK
  <2>4. m.to = {m.id}
    BY <2>1, <2>3 DEF ChannelsIInv, Addressed
  <2>5. m.id \in channels[o]
    BY <2>2, <2>4
  <2> QED
    BY <2>5, WhoHears DEF ChannelsIInv
<1> QED
  BY <1>1, ChannelsInvariance, PTL DEF ChannelsSpec, MovesAlone
===============================================================================
