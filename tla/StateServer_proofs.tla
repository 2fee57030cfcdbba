--------------------------- MODULE StateServer_proofs ---------------------------
(* Proofs about StateServer, for any objects, zones, AIs and requests.       *)
EXTENDS StateServer, FiniteSetTheorems, FunctionTheorems, SequenceTheorems,
        WellFoundedInduction, NaturalsInduction, TLAPS

\* A notice that concerns child c.
IsNote(m, c) == m.type = "CHANGE_ZONE" /\ m.child = c

\* Whoever was told of an undisturbed child's move exists, and they are all
\* that ought to be told.
Proper(m) == m.type = "CHANGE_ZONE" /\ m.child \notin disturbed =>
                m.to = Told(m.old, m.new) /\ m.to \subseteq objects
Addressed == /\ \A i \in DOMAIN inbox : Proper(inbox[i])
             /\ \A i \in DOMAIN routing : Proper(routing[i])
             /\ \A i \in DOMAIN outbox : Proper(outbox[i])

\* m must find object t listening.
Awaits(m, t) == m.type = "CHANGE_ZONE" /\ m.child \notin disturbed /\ t \in m.to

\* Since the s-th message in outbox, or since before them, object t listens.
ListensSince(t, s) ==
    /\ IF s = 0 THEN t \in listening ELSE outbox[s] = SetMsg(t)
    /\ \A j \in s + 1 .. Len(outbox) : outbox[j] # RemoveMsg(t)
    /\ s > 0 => \A i \in DOMAIN routing : ~Awaits(routing[i], t)
    /\ \A j \in 1..s : ~Awaits(outbox[j], t)
Subscribed == \A t \in objects : \E s \in 0..Len(outbox) : ListensSince(t, s)

\* An undisturbed object has its parent.
HasParent == \A c \in objects \ disturbed : place[c].parent \in objects \union {NoParent}

-----------------------------------------------------------------------------
(* What a sequence of messages does to the whereabouts of a child *)

\* The notices about c in w lead from x to y, one by one and without a gap.
Step(c, m, x, y) == IF IsNote(m, c) THEN x = Under(m.old) /\ y = Under(m.new) ELSE x = y
Leads(c, w, x, y) == \E at : /\ at[0] = x /\ at[Len(w)] = y
                             /\ \A i \in 1..Len(w) : Step(c, w[i], at[i - 1], at[i])

LEMMA LeadsNowhere ==
    ASSUME NEW c, NEW x, NEW w, Len(w) \in Nat, \A i \in 1..Len(w) : ~IsNote(w[i], c)
    PROVE  Leads(c, w, x, x)
<1> DEFINE at == [i \in 0..Len(w) |-> x]
<1>1. at[0] = x /\ at[Len(w)] = x /\ \A i \in 1..Len(w) : at[i - 1] = at[i]
  OBVIOUS
<1> HIDE DEF at
<1>2. \A i \in 1..Len(w) : Step(c, w[i], at[i - 1], at[i])
  BY <1>1 DEF Step
<1> QED
  BY <1>1, <1>2 DEF Leads

LEMMA LeadsEmpty ==
    ASSUME NEW c, NEW x, NEW y
    PROVE  Leads(c, <<>>, x, y) <=> x = y
<1>1. Leads(c, <<>>, x, x)
  BY LeadsNowhere
<1>2. Leads(c, <<>>, x, y) => x = y
  BY DEF Leads
<1> QED
  BY <1>1, <1>2

LEMMA LeadsOne ==
    ASSUME NEW c, NEW m, NEW x, NEW y
    PROVE  Leads(c, <<m>>, x, y) <=> Step(c, m, x, y)
<1>0. Len(<<m>>) = 1 /\ <<m>>[1] = m
  OBVIOUS
<1>1. ASSUME Leads(c, <<m>>, x, y) PROVE Step(c, m, x, y)
  <2>1. PICK at : /\ at[0] = x /\ at[1] = y
                  /\ \A i \in 1..1 : Step(c, <<m>>[i], at[i - 1], at[i])
    BY <1>0, <1>1 DEF Leads
  <2>2. Step(c, <<m>>[1], at[1 - 1], at[1])
    BY <2>1
  <2> QED
    BY <1>0, <2>1, <2>2
<1>2. ASSUME Step(c, m, x, y) PROVE Leads(c, <<m>>, x, y)
  <2> DEFINE at == [i \in 0..1 |-> IF i = 0 THEN x ELSE y]
  <2>1. at[0] = x /\ at[1] = y
    OBVIOUS
  <2> HIDE DEF at
  <2>2. \A i \in 1..1 : Step(c, <<m>>[i], at[i - 1], at[i])
    <3> SUFFICES ASSUME NEW i \in 1..1 PROVE Step(c, <<m>>[i], at[i - 1], at[i])
      OBVIOUS
    <3>1. i = 1 /\ i - 1 = 0
      OBVIOUS
    <3> QED
      BY <1>0, <1>2, <2>1, <3>1
  <2> QED
    BY <1>0, <2>1, <2>2 DEF Leads
<1> QED
  BY <1>1, <1>2

LEMMA LeadsConcat ==
    ASSUME NEW c, NEW M, NEW v \in Seq(M), NEW w \in Seq(M), NEW x, NEW z
    PROVE  Leads(c, v \o w, x, z) <=> \E y : Leads(c, v, x, y) /\ Leads(c, w, y, z)
<1> DEFINE n == Len(v)
           k == Len(w)
           u == v \o w
<1>1. /\ n \in Nat /\ k \in Nat /\ Len(u) = n + k
      /\ \A i \in 1..n : u[i] = v[i]
      /\ \A i \in 1..k : u[n + i] = w[i]
  <2>1. n \in Nat /\ k \in Nat /\ Len(u) = n + k
    BY LenProperties, ConcatProperties
  <2>2. \A i \in 1..Len(u) : u[i] = IF i <= n THEN v[i] ELSE w[i - n]
    BY ConcatProperties
  <2> HIDE DEF n, k, u
  <2> QED
    BY <2>1, <2>2
<1> HIDE DEF n, k, u
<1>2. ASSUME Leads(c, u, x, z)
      PROVE  \E y : Leads(c, v, x, y) /\ Leads(c, w, y, z)
  <2>1. PICK at : /\ at[0] = x /\ at[n + k] = z
                  /\ \A i \in 1..(n + k) : Step(c, u[i], at[i - 1], at[i])
    BY <1>1, <1>2 DEF Leads
  <2>2. Leads(c, v, x, at[n])
    <3>1. \A i \in 1..n : Step(c, v[i], at[i - 1], at[i])
      BY <1>1, <2>1
    <3> QED
      BY <2>1, <3>1 DEF Leads, n
  <2>3. Leads(c, w, at[n], z)
    <3> DEFINE on == [i \in 0..k |-> at[n + i]]
    <3>1. on[0] = at[n] /\ on[k] = z /\ \A i \in 1..k : on[i] = at[n + i] /\ on[i - 1] = at[(n + i) - 1]
      BY <1>1, <2>1
    <3> HIDE DEF on
    <3>2. ASSUME NEW i \in 1..k
          PROVE  Step(c, w[i], on[i - 1], on[i])
      <4>1. n + i \in 1..(n + k)
        BY <1>1
      <4>2. Step(c, u[n + i], at[(n + i) - 1], at[n + i])
        BY <2>1, <4>1
      <4> QED
        BY <1>1, <3>1, <4>2
    <3> QED
      BY <3>1, <3>2 DEF Leads, k
  <2> QED
    BY <2>2, <2>3
<1>3. ASSUME NEW y, Leads(c, v, x, y), Leads(c, w, y, z)
      PROVE  Leads(c, u, x, z)
  <2>1. PICK at : at[0] = x /\ at[n] = y /\ \A i \in 1..n : Step(c, v[i], at[i - 1], at[i])
    BY <1>3 DEF Leads, n
  <2>2. PICK on : on[0] = y /\ on[k] = z /\ \A i \in 1..k : Step(c, w[i], on[i - 1], on[i])
    BY <1>3 DEF Leads, k
  <2> DEFINE all == [i \in 0..(n + k) |-> IF i <= n THEN at[i] ELSE on[i - n]]
  <2>3. /\ all[0] = x /\ all[n + k] = z
        /\ \A i \in 0..n : all[i] = at[i]
        /\ \A i \in 0..k : all[n + i] = on[i]
    <3>1. \A i \in 0..n : all[i] = at[i]
      BY <1>1
    <3>2. \A i \in 1..k : all[n + i] = on[i]
      BY <1>1
    <3>3. all[n + 0] = on[0]
      BY <1>1, <2>1, <2>2
    <3> HIDE DEF all
    <3>4. \A i \in 0..k : all[n + i] = on[i]
      <4> SUFFICES ASSUME NEW i \in 0..k PROVE all[n + i] = on[i]
        OBVIOUS
      <4>1. i = 0 \/ i \in 1..k
        BY <1>1
      <4> QED
        BY <3>2, <3>3, <4>1
    <3> QED
      BY <1>1, <2>1, <2>2, <3>1, <3>4
  <2> HIDE DEF all
  <2>4. ASSUME NEW i \in 1..(n + k)
        PROVE  Step(c, u[i], all[i - 1], all[i])
    <3>1. CASE i <= n
      <4>1. i \in 1..n /\ i \in 0..n /\ i - 1 \in 0..n
        BY <1>1, <3>1
      <4> QED
        BY <1>1, <2>1, <2>3, <4>1
    <3>2. CASE i > n
      <4> DEFINE j == i - n
      <4>1. j \in 1..k /\ j \in 0..k /\ j - 1 \in 0..k /\ n + j = i /\ n + (j - 1) = i - 1
        BY <1>1, <3>2
      <4> HIDE DEF j
      <4>2. u[i] = w[j] /\ all[i] = on[j] /\ all[i - 1] = on[j - 1]
        BY <1>1, <2>3, <4>1
      <4> QED
        BY <2>2, <4>1, <4>2
    <3> QED
      BY <1>1, <3>1, <3>2
  <2> QED
    BY <1>1, <2>3, <2>4 DEF Leads
<1> QED
  BY <1>2, <1>3 DEF u

\* The first message of a queue, and the rest.
LEMMA LeadsTail ==
    ASSUME NEW c, NEW M, NEW w \in Seq(M), w # <<>>, NEW x, NEW z
    PROVE  Leads(c, w, x, z) <=> \E y : Step(c, Head(w), x, y) /\ Leads(c, Tail(w), y, z)
<1>1. /\ w = <<Head(w)>> \o Tail(w)
      /\ <<Head(w)>> \in Seq(M) /\ Tail(w) \in Seq(M)
  BY HeadTailProperties
<1>2. Leads(c, <<Head(w)>> \o Tail(w), x, z)
        <=> \E y : Leads(c, <<Head(w)>>, x, y) /\ Leads(c, Tail(w), y, z)
  BY <1>1, LeadsConcat
<1> QED
  BY <1>1, <1>2, LeadsOne

LEMMA LeadsAppend ==
    ASSUME NEW c, NEW M, NEW w \in Seq(M), NEW m \in M, NEW x, NEW z
    PROVE  Leads(c, Append(w, m), x, z) <=> \E y : Leads(c, w, x, y) /\ Step(c, m, y, z)
<1>1. Append(w, m) = w \o <<m>> /\ <<m>> \in Seq(M)
  BY AppendIsConcat
<1>2. Leads(c, w \o <<m>>, x, z) <=> \E y : Leads(c, w, x, y) /\ Leads(c, <<m>>, y, z)
  BY <1>1, LeadsConcat
<1> QED
  BY <1>1, <1>2, LeadsOne

-----------------------------------------------------------------------------
(* What is sent up when objects are deleted *)

Message == Notice \union Control

LEMMA Bounds == /\ root \in DoId /\ NoParent \notin DoId /\ SS \notin DoId \union {NoParent}
                /\ RootZone \in Zone /\ NoAI \notin AI /\ Requests \subseteq Request
                /\ MaxRequests \in Nat /\ IsFiniteSet(DoId)
BY StateServerAssumption

LEMMA MessageTypes ==
    /\ \A t \in Channel : SetMsg(t) \in Control /\ RemoveMsg(t) \in Control
    /\ \A to \in SUBSET Channel, o \in DoId, new \in Place, old \in Place :
          ChangeZone(to, o, new, old) \in Notice
    /\ Unplaced \in Place
    /\ DoId \subseteq Channel
    /\ \A m \in Control : m.type # "CHANGE_ZONE"
    /\ \A m \in Notice : m.type = "CHANGE_ZONE"
    /\ \A m \in Request : m.type # "CHANGE_ZONE"
BY DEF SetMsg, RemoveMsg, Control, ChangeZone, Notice, Place, Unplaced, Channel, Request

LEMMA PlaceFields ==
    ASSUME NEW l \in Place
    PROVE  /\ l.parent \in DoId \union {NoParent} /\ l.zone \in Zone \union {0}
           /\ l = [parent |-> l.parent, zone |-> l.zone]
BY DEF Place

\* A set of naturals that is not empty has a least element.
LEMMA Least ==
    ASSUME NEW T \in SUBSET Nat, T # {}
    PROVE  \E k \in T : \A j \in T : k <= j
<1>1. PICK k \in T : \A j \in T : ~(<<j, k>> \in OpToRel(<, Nat))
  BY NatLessThanWellFounded, WFMin
<1>2. \A j \in T : ~(j < k)
  BY <1>1 DEF OpToRel
<1> QED
  BY <1>2

\* What object o sends up when it is deleted takes o, and nothing else, from
\* its place.
LEMMA FarewellIs ==
    ASSUME TypeOK, NEW o \in DoId
    PROVE  /\ Farewell(o) \in Seq(Message)
           /\ \A i \in 1..Len(Farewell(o)) :
                 \/ Farewell(o)[i] = RemoveMsg(o)
                 \/ /\ place[o].parent # NoParent
                    /\ Farewell(o)[i] = ChangeZone({place[o].parent}, o, Unplaced, place[o])
           /\ Leads(o, Farewell(o), Under(place[o]), {})
           /\ \A c \in DoId \ {o} : \A x : Leads(c, Farewell(o), x, x)
<1> DEFINE r == RemoveMsg(o)
           m == ChangeZone({place[o].parent}, o, Unplaced, place[o])
           f == Farewell(o)
<1>1. place[o] \in Place /\ place[o].parent \in DoId \union {NoParent}
  BY PlaceFields DEF TypeOK
<1>2. r \in Message /\ m \in Message /\ ~IsNote(r, o)
  <2>1. r \in Control /\ m \in Notice
    BY <1>1, MessageTypes DEF Channel
  <2> QED
    BY <2>1, MessageTypes DEF Message, IsNote
<1>3. IsNote(m, o) /\ m.old = place[o] /\ m.new = Unplaced /\ m.child = o
  BY DEF IsNote, ChangeZone
<1>4. ASSUME NEW c \in DoId \ {o}
      PROVE  ~IsNote(r, c) /\ ~IsNote(m, c)
  BY DEF IsNote, RemoveMsg, ChangeZone
<1>5. CASE place[o].parent = NoParent
  <2>1. f = <<r>>
    BY <1>5, ConcatEmptySeq DEF Farewell
  <2> HIDE DEF f, r, m
  <2>2. f \in Seq(Message) /\ Len(f) = 1 /\ f[1] = r
    BY <2>1, <1>2
  <2>3. Leads(o, f, Under(place[o]), {})
    BY <1>2, <1>5, <2>1, LeadsOne DEF Step, Under
  <2>4. \A c \in DoId \ {o} : \A x : Leads(c, f, x, x)
    BY <1>4, <2>1, LeadsOne DEF Step
  <2> QED
    BY <2>2, <2>3, <2>4 DEF f, r
<1>6. CASE place[o].parent # NoParent
  <2>1. f = <<m>> \o <<r>>
    BY <1>6 DEF Farewell
  <2> HIDE DEF f, r, m
  <2>2. <<m>> \in Seq(Message) /\ <<r>> \in Seq(Message)
    BY <1>2
  <2>3. f \in Seq(Message) /\ Len(f) = 2 /\ f[1] = m /\ f[2] = r
    <3> DEFINE u == <<m>>
               v == <<r>>
    <3>1. Len(u) = 1 /\ u[1] = m /\ Len(v) = 1 /\ v[1] = r
      OBVIOUS
    <3>2. u \in Seq(Message) /\ v \in Seq(Message) /\ f = u \o v
      BY <2>1, <2>2
    <3> HIDE DEF u, v
    <3>3. /\ f \in Seq(Message) /\ Len(f) = 2
          /\ \A i \in 1..2 : f[i] = IF i <= 1 THEN u[i] ELSE v[i - 1]
      BY <3>1, <3>2, ConcatProperties
    <3> QED
      BY <3>1, <3>3
  <2>4. Leads(o, f, Under(place[o]), {})
    <3>1. Leads(o, <<m>>, Under(place[o]), {})
      BY <1>3, LeadsOne DEF Step, Under, Unplaced
    <3>2. Leads(o, <<r>>, {}, {})
      BY <1>2, LeadsOne DEF Step
    <3> QED
      BY <2>1, <2>2, <3>1, <3>2, LeadsConcat
  <2>5. ASSUME NEW c \in DoId \ {o}, NEW x
        PROVE  Leads(c, f, x, x)
    <3>1. Leads(c, <<m>>, x, x) /\ Leads(c, <<r>>, x, x)
      BY <1>4, LeadsOne DEF Step
    <3> QED
      BY <2>1, <2>2, <3>1, LeadsConcat
  <2> QED
    BY <1>6, <2>3, <2>4, <2>5 DEF f, r, m
<1> QED
  BY <1>5, <1>6

\* FlattenSeq is a computation by recursion on the number of sequences.
LEMMA FlattenSteps ==
    ASSUME NEW seqs, NEW n \in Nat \ {0}, Len(seqs) = n
    PROVE  \E f : /\ f = [i \in 1..n |-> IF i = 1 THEN seqs[i] ELSE f[i - 1] \o seqs[i]]
                  /\ FlattenSeq(seqs) = f[n]
<1> DEFINE Next_(f, i) == IF i = 1 THEN seqs[i] ELSE f[i - 1] \o seqs[i]
           Found(k) == \E f : f = [i \in 1..k |-> Next_(f, i)]
           Short == {k \in Nat \ {0} : ~Found(k)}
<1>1. ASSUME Short # {} PROVE FALSE
  <2>1. PICK k \in Short : \A j \in Short : k <= j
    <3>1. Short \in SUBSET Nat
      OBVIOUS
    <3> HIDE DEF Short
    <3> QED
      BY <1>1, <3>1, Least
  <2>2. k \in Nat /\ k # 0 /\ ~Found(k)
    BY <2>1
  <2>3. CASE k = 1
    <3> DEFINE f == [i \in 1..k |-> seqs[i]]
    <3>1. f = [i \in 1..k |-> Next_(f, i)]
      BY <2>3
    <3> QED
      BY <2>2, <3>1
  <2>4. CASE k # 1
    <3> HIDE DEF Next_
    <3>1. Found(k - 1)
      <4> HIDE DEF Found
      <4>1. k - 1 \in Nat \ {0} /\ ~(k <= k - 1)
        BY <2>2, <2>4
      <4>2. k - 1 \notin Short
        BY <2>1, <4>1
      <4> QED
        BY <4>1, <4>2
    <3>2. PICK f : f = [i \in 1..(k - 1) |-> Next_(f, i)]
      BY <3>1
    <3> DEFINE g == [i \in 1..k |-> IF i = k THEN Next_(f, k) ELSE f[i]]
    <3>3. ASSUME NEW i \in 1..k
          PROVE  g[i] = Next_(g, i)
      <4>1. i # 1 => i - 1 \in 1..(k - 1) /\ g[i - 1] = f[i - 1]
        BY <2>2, <2>4
      <4>2. Next_(g, i) = Next_(f, i)
        <5> HIDE DEF g
        <5> QED
          BY <4>1 DEF Next_
      <4>3. CASE i = k
        BY <4>2, <4>3
      <4>4. CASE i # k
        <5>1. i \in 1..(k - 1) /\ g[i] = f[i]
          BY <2>2, <4>4
        <5>2. f[i] = Next_(f, i)
          BY <3>2, <5>1
        <5> QED
          BY <4>2, <5>1, <5>2
      <4> QED
        BY <4>3, <4>4
    <3>4. g = [i \in 1..k |-> g[i]]
      OBVIOUS
    <3> HIDE DEF g
    <3>5. g = [i \in 1..k |-> Next_(g, i)]
      BY <3>3, <3>4
    <3> QED
      BY <2>2, <3>5
  <2> QED
    BY <2>3, <2>4
<1>2. Found(n)
  <2> HIDE DEF Found
  <2> QED
    BY <1>1
<1> DEFINE flat == CHOOSE f : f = [i \in 1..n |-> Next_(f, i)]
<1>3. flat = [i \in 1..n |-> Next_(flat, i)]
  <2> HIDE DEF Next_
  <2> QED
    BY <1>2
<1>4. FlattenSeq(seqs) = flat[n]
  BY DEF FlattenSeq
<1> QED
  BY <1>3, <1>4

\* What is sent up when the objects in order are deleted, each once.
LEMMA FarewellsAre ==
    ASSUME TypeOK, NEW order \in Seq(DoId),
           \A i, j \in 1..Len(order) : i # j => order[i] # order[j]
    PROVE  LET more == FlattenSeq([i \in DOMAIN order |-> Farewell(order[i])])
           IN  /\ more \in Seq(Message)
               /\ \A i \in 1..Len(more) : \E o \in ToSet(order) :
                     \/ more[i] = RemoveMsg(o)
                     \/ /\ place[o].parent # NoParent
                        /\ more[i] = ChangeZone({place[o].parent}, o, Unplaced, place[o])
               /\ \A c \in DoId \intersect ToSet(order) : Leads(c, more, Under(place[c]), {})
               /\ \A c \in DoId \ ToSet(order) : \A x : Leads(c, more, x, x)
<1> DEFINE n == Len(order)
           seqs == [i \in DOMAIN order |-> Farewell(order[i])]
           more == FlattenSeq(seqs)
           Bye(m, o) == \/ m = RemoveMsg(o)
                        \/ /\ place[o].parent # NoParent
                           /\ m = ChangeZone({place[o].parent}, o, Unplaced, place[o])
           First(k) == {order[i] : i \in 1..k}
           Fine(s, k) == /\ s \in Seq(Message)
                         /\ \A i \in 1..Len(s) : \E o \in First(k) : Bye(s[i], o)
                         /\ \A c \in DoId \intersect First(k) : Leads(c, s, Under(place[c]), {})
                         /\ \A c \in DoId \ First(k) : \A x : Leads(c, s, x, x)
<1>1. n \in Nat /\ DOMAIN order = 1..n /\ \A i \in 1..n : order[i] \in DoId
  OBVIOUS
<1>2. ToSet(order) = First(n)
  BY <1>1 DEF ToSet
<1>3. seqs = [i \in 1..n |-> Farewell(order[i])]
  BY <1>1
<1>4. Len(seqs) = n
  <2> HIDE DEF n, seqs
  <2>1. seqs \in Seq({Farewell(order[i]) : i \in 1..n})
    BY <1>1, <1>3
  <2> QED
    BY <1>1, <1>3, <2>1
<1>5. CASE n = 0
  <2>1. order = <<>>
    BY <1>5, EmptySeq
  <2>2. seqs = <<>>
    BY <1>3, <1>5
  <2>3. more = <<>>
    BY <2>2 DEF FlattenSeq
  <2>4. First(n) = {}
    BY <1>5
  <2> HIDE DEF more, First
  <2>5. /\ <<>> \in Seq(Message) /\ Len(<<>>) = 0
        /\ \A c, x : Leads(c, <<>>, x, x)
    BY LeadsEmpty
  <2>6. Fine(more, n)
    BY <2>3, <2>4, <2>5
  <2> QED
    BY <1>2, <2>6 DEF more
<1>6. CASE n # 0
  <2>1. PICK f : /\ f = [i \in 1..n |-> IF i = 1 THEN seqs[i] ELSE f[i - 1] \o seqs[i]]
                 /\ more = f[n]
    <3>1. n \in Nat \ {0}
      BY <1>1, <1>6
    <3> HIDE DEF n, seqs
    <3> QED
      BY <1>4, <3>1, FlattenSteps
  <2> HIDE DEF seqs, more
  <2> DEFINE Bad == {k \in Nat \ {0} : k <= n /\ ~Fine(f[k], k)}
  <2>2. Fine(f[1], 1)
    <3>1. 1 \in 1..n
      BY <1>1, <1>6
    <3>2. f[1] = Farewell(order[1]) /\ order[1] \in DoId
      BY <1>1, <1>3, <2>1, <3>1
    <3>3. First(1) = {order[1]}
      OBVIOUS
    <3> HIDE DEF First
    <3>4. /\ f[1] \in Seq(Message)
          /\ \A i \in 1..Len(f[1]) : Bye(f[1][i], order[1])
          /\ Leads(order[1], f[1], Under(place[order[1]]), {})
          /\ \A c \in DoId \ {order[1]} : \A x : Leads(c, f[1], x, x)
      BY <3>2, FarewellIs
    <3> HIDE DEF Bye
    <3> QED
      BY <3>3, <3>4
  <2>3. ASSUME NEW k \in 2..n, Fine(f[k - 1], k - 1)
        PROVE  Fine(f[k], k)
    <3>1. k \in 1..n /\ k # 1 /\ k - 1 \in 1..n
      BY <1>1
    <3> DEFINE o == order[k]
               s == f[k - 1]
               t == Farewell(o)
    <3>2. f[k] = s \o t /\ o \in DoId
      BY <1>1, <1>3, <2>1, <3>1
    <3>3. First(k) = First(k - 1) \union {o} /\ o \notin First(k - 1)
      <4>1. \A i \in 1..k : i \in 1..(k - 1) \/ i = k
        BY <3>1, <1>1
      <4>2. \A i \in 1..(k - 1) : i \in 1..n /\ i # k /\ i \in 1..k
        BY <3>1, <1>1
      <4> QED
        BY <3>1, <4>1, <4>2
    <3>4. /\ t \in Seq(Message)
          /\ \A i \in 1..Len(t) : Bye(t[i], o)
          /\ Leads(o, t, Under(place[o]), {})
          /\ \A c \in DoId \ {o} : \A x : Leads(c, t, x, x)
      BY <3>2, FarewellIs
    <3>5. s \in Seq(Message)
      BY <2>3
    <3> HIDE DEF o, s, t, Bye, First
    <3>6. s \o t \in Seq(Message)
      BY <3>4, <3>5, ConcatProperties
    <3>7. \A i \in 1..Len(s \o t) : \E q \in First(k) : Bye((s \o t)[i], q)
      <4> SUFFICES ASSUME NEW i \in 1..Len(s \o t) PROVE \E q \in First(k) : Bye((s \o t)[i], q)
        OBVIOUS
      <4>1. Len(s) \in Nat /\ Len(t) \in Nat /\ i \in 1..(Len(s) + Len(t))
        BY <3>4, <3>5, ConcatProperties, LenProperties
      <4>2. CASE i <= Len(s)
        <5>1. (s \o t)[i] = s[i] /\ i \in 1..Len(s)
          BY <3>4, <3>5, <4>1, <4>2, ConcatProperties
        <5>2. \E q \in First(k - 1) : Bye(s[i], q)
          BY <2>3, <5>1 DEF s
        <5> QED
          BY <3>3, <5>1, <5>2
      <4>3. CASE i > Len(s)
        <5>1. (s \o t)[i] = t[i - Len(s)] /\ i - Len(s) \in 1..Len(t)
          BY <3>4, <3>5, <4>1, <4>3, ConcatProperties
        <5> QED
          BY <3>3, <3>4, <5>1
      <4> QED
        BY <4>1, <4>2, <4>3
    <3>8. ASSUME NEW c \in DoId \intersect First(k)
          PROVE  Leads(c, s \o t, Under(place[c]), {})
      <4>1. CASE c = o
        <5>1. Leads(c, s, Under(place[c]), Under(place[c]))
          BY <2>3, <3>3, <4>1 DEF s
        <5>2. Leads(c, t, Under(place[c]), {})
          BY <3>4, <4>1
        <5> QED
          BY <3>4, <3>5, <5>1, <5>2, LeadsConcat
      <4>2. CASE c # o
        <5>1. Leads(c, s, Under(place[c]), {})
          BY <2>3, <3>3, <4>2 DEF s
        <5>2. Leads(c, t, {}, {})
          BY <3>4, <4>2
        <5> QED
          BY <3>4, <3>5, <5>1, <5>2, LeadsConcat
      <4> QED
        BY <4>1, <4>2
    <3>9. ASSUME NEW c \in DoId \ First(k), NEW x
          PROVE  Leads(c, s \o t, x, x)
      <4>1. Leads(c, s, x, x)
        BY <2>3, <3>3 DEF s
      <4>2. Leads(c, t, x, x)
        BY <3>3, <3>4
      <4> QED
        BY <3>4, <3>5, <4>1, <4>2, LeadsConcat
    <3> QED
      BY <3>2, <3>6, <3>7, <3>8, <3>9
  <2>4. ASSUME Bad # {} PROVE FALSE
    <3>1. PICK k \in Bad : \A j \in Bad : k <= j
      <4>1. Bad \in SUBSET Nat
        OBVIOUS
      <4> HIDE DEF Bad
      <4> QED
        BY <2>4, <4>1, Least
    <3> HIDE DEF Fine
    <3>2. k \in Nat /\ k <= n /\ ~Fine(f[k], k) /\ k # 0
      BY <3>1
    <3>3. k # 1
      BY <2>2, <3>2
    <3>4. k \in 2..n /\ k - 1 \in Nat \ {0} /\ k - 1 <= n /\ k - 1 \notin Bad
      BY <1>1, <3>1, <3>2, <3>3
    <3> QED
      BY <2>3, <3>2, <3>4
  <2>5. Fine(more, n)
    <3> HIDE DEF Fine
    <3>1. n \in Nat \ {0} /\ n <= n /\ n \notin Bad
      BY <1>1, <1>6, <2>4
    <3>2. Fine(f[n], n)
      BY <3>1
    <3> QED
      BY <2>1, <3>2
  <2> QED
    BY <1>2, <2>5 DEF more, seqs
<1> QED
  BY <1>5, <1>6

-----------------------------------------------------------------------------
(* The steps of the state server *)

\* The kinds of requests.
LEMMA RequestFields ==
    ASSUME NEW m \in Notice \union Request
    PROVE  /\ m.type = "CHANGE_ZONE" => m \in Notice
           /\ m.type = "GENERATE" => m.do_id \in DoId /\ m.new \in Place
           /\ m.type = "SET_ZONE" => m.new \in Place
           /\ m.type = "ADD_AI" => m.do_id \in DoId /\ m.ai \in AI
BY DEF Notice, Request

LEMMA NoticeFields ==
    ASSUME NEW m \in Notice
    PROVE  /\ m.child \in DoId /\ m.new \in Place /\ m.old \in Place /\ m.to \in SUBSET Channel
           /\ m.type = "CHANGE_ZONE"
BY DEF Notice

\* A change of location moves the object and tells its parents, unless the
\* process hangs or the move is botched.
LEMMA LocationIs ==
    ASSUME TypeOK, NEW o \in DoId, NEW new \in Place, NEW more \in Seq(Control),
           LocationChange(o, new, more)
    PROVE  \/ hung' /\ UNCHANGED <<place, ai_channel, outbox, disturbed>>
           \/ /\ UNCHANGED hung
              /\ place' = [place EXCEPT ![o] = new]
              /\ ai_channel' \in [DoId -> AI \union {NoAI}]
              /\ \A q \in DoId \ {o} : ai_channel'[q] = ai_channel[q]
              /\ \/ outbox' = outbox \o more /\ (new = place[o] \/ o \in disturbed')
                 \/ outbox' = (outbox \o <<ChangeZone(Told(place[o], new), o, new, place[o])>>) \o more
              /\ disturbed \subseteq disturbed' /\ disturbed' \subseteq disturbed \union {o}
              /\ o \notin disturbed' => Told(place[o], new) \subseteq objects
<1> DEFINE old      == place[o]
           parentOf == [q \in DoId |-> IF q = o THEN new.parent ELSE place[q].parent]
           resolves == new.parent \notin {old.parent, NoParent} /\ o \notin explicit
           ai       == IF resolves THEN ResolveAI(new.parent, parentOf) ELSE ai_channel[o]
           botched  == ai = NoAI /\ ai_channel[o] # NoAI
           notice   == ChangeZone(Told(old, new), o, new, old)
           loops    == resolves /\ ResolveLoops(new.parent, parentOf)
<1>1. ai \in AI \union {NoAI}
  BY DEF ResolveAI, TypeOK
<1>2. IF loops
        THEN hung' = TRUE /\ UNCHANGED <<place, ai_channel, outbox, disturbed>>
        ELSE /\ place' = [place EXCEPT ![o] = new]
             /\ ai_channel' = [ai_channel EXCEPT ![o] = ai]
             /\ outbox' = IF botched \/ new = old THEN outbox \o more
                          ELSE outbox \o <<notice>> \o more
             /\ disturbed' = IF botched \/ ~(Told(old, new) \subseteq objects)
                               THEN disturbed \union {o} ELSE disturbed
             /\ UNCHANGED hung
  BY DEF LocationChange
<1> HIDE DEF ai, loops, notice
<1>3. ai_channel \in [DoId -> AI \union {NoAI}]
  BY DEF TypeOK
<1>4. CASE loops
  BY <1>2, <1>4
<1>5. CASE ~loops
  <2>1. /\ ai_channel' \in [DoId -> AI \union {NoAI}]
        /\ \A q \in DoId \ {o} : ai_channel'[q] = ai_channel[q]
    BY <1>1, <1>2, <1>3, <1>5
  <2>2. \/ outbox' = outbox \o more /\ (new = place[o] \/ o \in disturbed')
        \/ outbox' = (outbox \o <<notice>>) \o more
    BY <1>2, <1>5
  <2>3. /\ disturbed \subseteq disturbed' /\ disturbed' \subseteq disturbed \union {o}
        /\ o \notin disturbed' => Told(place[o], new) \subseteq objects
    BY <1>2, <1>5
  <2> QED
    BY <1>2, <1>5, <2>1, <2>2, <2>3 DEF notice
<1> QED
  BY <1>4, <1>5

LEMMA ToldType ==
    ASSUME NEW old \in Place, NEW new \in Place
    PROVE  Told(old, new) \in SUBSET DoId
BY PlaceFields DEF Told

\* What a change of location does to the types.
LEMMA LocationType ==
    ASSUME TypeOK, ~hung, NEW o \in DoId, NEW new \in Place, NEW more \in Seq(Control),
           LocationChange(o, new, more)
    PROVE  /\ place' \in [DoId -> Place]
           /\ ai_channel' \in [DoId -> AI \union {NoAI}]
           /\ outbox' \in Seq(Message)
           /\ hung' \in BOOLEAN
           /\ disturbed' \subseteq DoId
           /\ \A q \in DoId : q # o \/ hung' =>
                 place'[q] = place[q] /\ ai_channel'[q] = ai_channel[q]
<1> DEFINE notice == ChangeZone(Told(place[o], new), o, new, place[o])
<1>1. more \in Seq(Message) /\ outbox \in Seq(Message)
  BY DEF Message, TypeOK
<1>2. <<notice>> \in Seq(Message)
  <2>1. place[o] \in Place
    BY DEF TypeOK
  <2>2. Told(place[o], new) \in SUBSET Channel
    BY <2>1, ToldType, MessageTypes
  <2>3. notice \in Notice
    BY <2>1, <2>2, MessageTypes
  <2> QED
    BY <2>3 DEF Message
<1> HIDE DEF notice
<1>3. outbox \o more \in Seq(Message) /\ (outbox \o <<notice>>) \o more \in Seq(Message)
  BY <1>1, <1>2, ConcatProperties
<1>4. CASE hung' /\ UNCHANGED <<place, ai_channel, outbox, disturbed>>
  <2>1. hung' \in BOOLEAN
    BY LocationIs, <1>4 DEF LocationChange, TypeOK
  <2> QED
    BY <1>1, <1>4, <2>1 DEF TypeOK
<1>5. CASE /\ UNCHANGED hung
           /\ place' = [place EXCEPT ![o] = new]
           /\ ai_channel' \in [DoId -> AI \union {NoAI}]
           /\ \A q \in DoId \ {o} : ai_channel'[q] = ai_channel[q]
           /\ outbox' = outbox \o more \/ outbox' = (outbox \o <<notice>>) \o more
           /\ disturbed' \subseteq disturbed \union {o}
  BY <1>3, <1>5 DEF TypeOK
<1> QED
  BY <1>4, <1>5, LocationIs DEF notice

\* Every step of the state server takes the next datagram; the datagram
\* decides what it does with it.
LEMMA Typed ==
    ASSUME TypeOK, inbox # <<>>
    PROVE  Head(inbox) \in Notice \union Request /\ Tail(inbox) \in Seq(Notice \union Request)
BY HeadTailProperties DEF TypeOK

LEMMA GenerateType ==
    ASSUME TypeOK, ~hung, NEW m \in Request, m.type = "GENERATE", Generate(m)
    PROVE  /\ objects \subseteq objects' /\ objects' \subseteq DoId
           /\ place' \in [DoId -> Place]
           /\ ai_channel' \in [DoId -> AI \union {NoAI}]
           /\ outbox' \in Seq(Message)
           /\ hung' \in BOOLEAN
           /\ disturbed' \subseteq DoId
           /\ \A o \in DoId \ objects' : place'[o] = Unplaced /\ ai_channel'[o] = NoAI
<1> DEFINE o == m.do_id
<1>1. o \in DoId /\ m.new \in Place
  BY RequestFields
<1>2. CASE o \in objects \/ m.new.parent = o
  <2>1. UNCHANGED <<objects, place, ai_channel, hung, outbox, disturbed>>
    BY <1>2 DEF Generate
  <2> QED
    BY <2>1 DEF TypeOK, Message
<1>3. CASE ~(o \in objects \/ m.new.parent = o)
  <2>1. /\ LocationChange(o, m.new, <<SetMsg(o)>>)
        /\ objects' = IF hung' THEN objects ELSE objects \union {o}
    BY <1>3 DEF Generate
  <2>2. <<SetMsg(o)>> \in Seq(Control)
    <3>1. SetMsg(o) \in Control
      BY <1>1, MessageTypes
    <3> QED
      BY <3>1
  <2>3. /\ place' \in [DoId -> Place]
        /\ ai_channel' \in [DoId -> AI \union {NoAI}]
        /\ outbox' \in Seq(Message)
        /\ hung' \in BOOLEAN
        /\ disturbed' \subseteq DoId
        /\ \A q \in DoId : q # o \/ hung' =>
              place'[q] = place[q] /\ ai_channel'[q] = ai_channel[q]
    BY <1>1, <2>1, <2>2, LocationType
  <2>4. ASSUME NEW q \in DoId \ objects'
        PROVE  place'[q] = Unplaced /\ ai_channel'[q] = NoAI
    <3>1. q \notin objects /\ (q # o \/ hung')
      BY <2>1
    <3> QED
      BY <2>3, <3>1 DEF TypeOK
  <2> QED
    BY <1>1, <2>1, <2>3, <2>4 DEF TypeOK
<1> QED
  BY <1>2, <1>3

LEMMA SetZoneType ==
    ASSUME TypeOK, ~hung, NEW m \in Request, m.type = "SET_ZONE", NEW o \in objects, SetZone(o, m)
    PROVE  /\ place' \in [DoId -> Place]
           /\ ai_channel' \in [DoId -> AI \union {NoAI}]
           /\ outbox' \in Seq(Message)
           /\ hung' \in BOOLEAN
           /\ disturbed' \subseteq DoId
           /\ \A q \in DoId \ objects : place'[q] = Unplaced /\ ai_channel'[q] = NoAI
<1>1. o \in DoId /\ m.new \in Place
  BY RequestFields DEF TypeOK
<1>2. CASE m.new.parent = o \/ m.new = place[o]
  <2>1. UNCHANGED <<place, ai_channel, hung, outbox, disturbed>>
    BY <1>2 DEF SetZone
  <2> QED
    BY <2>1 DEF TypeOK, Message
<1>3. CASE ~(m.new.parent = o \/ m.new = place[o])
  <2>1. LocationChange(o, m.new, <<>>)
    BY <1>3 DEF SetZone
  <2>2. <<>> \in Seq(Control)
    OBVIOUS
  <2>3. /\ place' \in [DoId -> Place]
        /\ ai_channel' \in [DoId -> AI \union {NoAI}]
        /\ outbox' \in Seq(Message)
        /\ hung' \in BOOLEAN
        /\ disturbed' \subseteq DoId
        /\ \A q \in DoId : q # o \/ hung' =>
              place'[q] = place[q] /\ ai_channel'[q] = ai_channel[q]
    BY <1>1, <2>1, <2>2, LocationType
  <2> QED
    BY <2>3 DEF TypeOK
<1> QED
  BY <1>2, <1>3

\* The objects in order, each once, are deleted.
Once(order) == order \in Seq(DoId) /\ \A i, j \in 1..Len(order) : i # j => order[i] # order[j]

LEMMA Ordering ==
    ASSUME TypeOK, NEW S \in SUBSET objects, NEW order \in SetToSeqs(S)
    PROVE  Once(order) /\ ToSet(order) \subseteq objects
<1>1. IsFiniteSet(S) /\ Cardinality(S) \in Nat
  BY Bounds, FS_Subset, FS_CardinalityType DEF TypeOK
<1>2. /\ order \in [1..Cardinality(S) -> S]
      /\ \A i, j \in 1..Cardinality(S) : i # j => order[i] # order[j]
  BY DEF SetToSeqs
<1>3. order \in Seq(S) /\ Len(order) = Cardinality(S)
  BY <1>1, <1>2
<1>4. S \subseteq DoId
  BY DEF TypeOK
<1>5. order \in Seq(DoId)
  BY <1>3, <1>4
<1>6. ToSet(order) \subseteq objects
  BY <1>3 DEF ToSet
<1> QED
  BY <1>2, <1>3, <1>5, <1>6 DEF Once

LEMMA Single ==
    ASSUME TypeOK, NEW o \in objects
    PROVE  Once(<<o>>) /\ ToSet(<<o>>) = {o}
<1>1. o \in DoId
  BY DEF TypeOK
<1>2. Once(<<o>>)
  BY <1>1 DEF Once
<1>3. ToSet(<<o>>) = {o}
  BY DEF ToSet
<1> QED
  BY <1>2, <1>3

\* What is sent up when they are gone takes them, and nothing else, from their
\* places.
Dismisses(gone) ==
    \E more \in Seq(Message) :
       /\ outbox' = outbox \o more
       /\ \A i \in 1..Len(more) : \E o \in gone :
             \/ more[i] = RemoveMsg(o)
             \/ /\ place[o].parent # NoParent
                /\ more[i] = ChangeZone({place[o].parent}, o, Unplaced, place[o])
       /\ \A c \in gone : Leads(c, more, Under(place[c]), {})
       /\ \A c \in DoId \ gone : \A x : Leads(c, more, x, x)

\* What deleting them changes.
LEMMA AnnihilateIs ==
    ASSUME TypeOK, NEW order, Once(order), ToSet(order) \subseteq objects, Annihilate(order)
    PROVE  LET gone == ToSet(order)
           IN  /\ objects' = objects \ gone
               /\ place' = [o \in DoId |-> IF o \in gone THEN Unplaced ELSE place[o]]
               /\ ai_channel' = [o \in DoId |-> IF o \in gone THEN NoAI ELSE ai_channel[o]]
               /\ explicit' = explicit \ gone
               /\ zone_objects' = [o \in DoId |-> IF o \in gone THEN {} ELSE zone_objects[o]]
               /\ disturbed' = disturbed \union Bereaved(gone)
               /\ Dismisses(gone)
<1> DEFINE gone == ToSet(order)
           more == FlattenSeq([i \in DOMAIN order |-> Farewell(order[i])])
<1>1. /\ objects' = objects \ gone
      /\ place' = [o \in DoId |-> IF o \in gone THEN Unplaced ELSE place[o]]
      /\ ai_channel' = [o \in DoId |-> IF o \in gone THEN NoAI ELSE ai_channel[o]]
      /\ explicit' = explicit \ gone
      /\ zone_objects' = [o \in DoId |-> IF o \in gone THEN {} ELSE zone_objects[o]]
      /\ disturbed' = disturbed \union Bereaved(gone)
      /\ outbox' = outbox \o more
  BY DEF Annihilate
<1>2. /\ more \in Seq(Message)
      /\ \A i \in 1..Len(more) : \E o \in gone :
            \/ more[i] = RemoveMsg(o)
            \/ /\ place[o].parent # NoParent
               /\ more[i] = ChangeZone({place[o].parent}, o, Unplaced, place[o])
      /\ \A c \in DoId \intersect gone : Leads(c, more, Under(place[c]), {})
      /\ \A c \in DoId \ gone : \A x : Leads(c, more, x, x)
  BY FarewellsAre DEF Once
<1>3. DoId \intersect gone = gone
  BY DEF TypeOK
<1> HIDE DEF more, gone
<1>4. \A c \in gone : Leads(c, more, Under(place[c]), {})
  BY <1>2, <1>3
<1>5. Dismisses(gone)
  BY <1>1, <1>2, <1>4 DEF Dismisses
<1> QED
  BY <1>1, <1>5 DEF gone

LEMMA AnnihilateType ==
    ASSUME TypeOK, NEW order, Once(order), ToSet(order) \subseteq objects, Annihilate(order),
           inbox' \in Seq(Notice \union Request),
           UNCHANGED <<routing, listening, sent, hung, unanswered>>
    PROVE  TypeOK'
<1> DEFINE gone == ToSet(order)
<1>1. /\ objects' = objects \ gone
      /\ place' = [o \in DoId |-> IF o \in gone THEN Unplaced ELSE place[o]]
      /\ ai_channel' = [o \in DoId |-> IF o \in gone THEN NoAI ELSE ai_channel[o]]
      /\ explicit' = explicit \ gone
      /\ zone_objects' = [o \in DoId |-> IF o \in gone THEN {} ELSE zone_objects[o]]
      /\ disturbed' = disturbed \union Bereaved(gone)
  BY AnnihilateIs
<1>2. outbox' \in Seq(Notice \union Control)
  <2>1. \E more \in Seq(Message) : outbox' = outbox \o more
    BY AnnihilateIs DEF Dismisses
  <2> QED
    BY <2>1, ConcatProperties DEF TypeOK, Message
<1> HIDE DEF gone
<1>3. /\ place' \in [DoId -> Place]
      /\ ai_channel' \in [DoId -> AI \union {NoAI}]
      /\ zone_objects' \in [DoId -> SUBSET ((Zone \union {0}) \X DoId)]
      /\ \A o \in DoId \ objects' :
            place'[o] = Unplaced /\ ai_channel'[o] = NoAI /\ zone_objects'[o] = {}
  BY <1>1, MessageTypes DEF TypeOK
<1>4. objects' \subseteq DoId /\ explicit' \subseteq objects' /\ disturbed' \subseteq DoId
  BY <1>1 DEF TypeOK, Bereaved
<1> QED
  BY <1>2, <1>3, <1>4 DEF TypeOK

\* A parent's index after a notice: the child left, or entered, or both.
Leaving(m, p)  == IF p = m.old.parent THEN {<<m.old.zone, m.child>>} ELSE {}
Entering(m, p) == IF p = m.new.parent THEN {<<m.new.zone, m.child>>} ELSE {}

LEMMA ReindexIs ==
    ASSUME TypeOK, NEW m \in Notice, Reindex(m)
    PROVE  \E done \in SUBSET (m.to \intersect objects) :
              /\ zone_objects' = [p \in DoId |->
                    IF p \in done THEN (zone_objects[p] \ Leaving(m, p)) \union Entering(m, p)
                                  ELSE zone_objects[p]]
              /\ (\A p \in m.to \intersect objects : Leaving(m, p) \subseteq zone_objects[p])
                    => done = m.to \intersect objects
BY DEF Reindex, Leaving, Entering

LEMMA ReindexType ==
    ASSUME TypeOK, NEW m \in Notice, Reindex(m)
    PROVE  /\ zone_objects' \in [DoId -> SUBSET ((Zone \union {0}) \X DoId)]
           /\ \A o \in DoId \ objects : zone_objects'[o] = {}
<1>1. PICK done \in SUBSET (m.to \intersect objects) :
        zone_objects' = [p \in DoId |->
                    IF p \in done THEN (zone_objects[p] \ Leaving(m, p)) \union Entering(m, p)
                                  ELSE zone_objects[p]]
  BY ReindexIs
<1>2. \A p \in DoId : Entering(m, p) \subseteq (Zone \union {0}) \X DoId
  BY NoticeFields, PlaceFields DEF Entering
<1> QED
  BY <1>1, <1>2 DEF TypeOK

LEMMA ProcessType ==
    ASSUME TypeOK, Process
    PROVE  TypeOK'
<1> DEFINE m == Head(inbox)
<1>1. /\ m \in Notice \union Request /\ inbox' \in Seq(Notice \union Request) /\ ~hung
      /\ UNCHANGED <<routing, listening, sent>>
  BY Typed DEF Process
<1>2. CASE UNCHANGED <<objectVars, outbox, hung, historyVars>>
  BY <1>1, <1>2 DEF TypeOK, objectVars, historyVars
<1>3. CASE /\ m.type = "CHANGE_ZONE" /\ Reindex(m)
           /\ UNCHANGED <<objects, place, ai_channel, explicit, outbox, hung, historyVars>>
  BY <1>1, <1>3, RequestFields, ReindexType DEF TypeOK, historyVars
<1>4. CASE m.type = "GENERATE" /\ Generate(m) /\ UNCHANGED <<explicit, zone_objects, unanswered>>
  <2>1. m \in Request
    BY <1>1, <1>4, MessageTypes
  <2>2. /\ objects \subseteq objects' /\ objects' \subseteq DoId
        /\ place' \in [DoId -> Place]
        /\ ai_channel' \in [DoId -> AI \union {NoAI}]
        /\ outbox' \in Seq(Message)
        /\ hung' \in BOOLEAN
        /\ disturbed' \subseteq DoId
        /\ \A o \in DoId \ objects' : place'[o] = Unplaced /\ ai_channel'[o] = NoAI
    BY <1>1, <1>4, <2>1, GenerateType
  <2> QED
    BY <1>1, <1>4, <2>2 DEF TypeOK, Message
<1>5. CASE /\ m.type = "SET_ZONE" /\ \E o \in m.to \intersect objects : SetZone(o, m)
           /\ UNCHANGED <<objects, explicit, zone_objects, unanswered>>
  <2>1. m \in Request
    BY <1>1, <1>5, MessageTypes
  <2>2. /\ place' \in [DoId -> Place]
        /\ ai_channel' \in [DoId -> AI \union {NoAI}]
        /\ outbox' \in Seq(Message)
        /\ hung' \in BOOLEAN
        /\ disturbed' \subseteq DoId
        /\ \A q \in DoId \ objects : place'[q] = Unplaced /\ ai_channel'[q] = NoAI
    BY <1>1, <1>5, <2>1, SetZoneType
  <2> QED
    BY <1>1, <1>5, <2>2 DEF TypeOK, Message
<1>6. CASE /\ \E o \in m.to \intersect objects : Annihilate(<<o>>)
           /\ UNCHANGED <<hung, unanswered>>
  <2>1. PICK o \in objects : Annihilate(<<o>>)
    BY <1>6
  <2>2. Once(<<o>>) /\ ToSet(<<o>>) \subseteq objects
    BY Single
  <2> QED
    BY <1>1, <1>6, <2>1, <2>2, AnnihilateType
<1>7. CASE /\ \E o \in m.to \intersect objects : QueryZone(o, m)
           /\ UNCHANGED <<objectVars, outbox, hung, disturbed>>
  <2>1. unanswered' \in Nat
    BY <1>7 DEF QueryZone, TypeOK
  <2> QED
    BY <1>1, <1>7, <2>1 DEF TypeOK, objectVars
<1>8. CASE /\ m.type = "ADD_AI"
           /\ IF m.do_id \in objects
                THEN /\ ai_channel' = [ai_channel EXCEPT ![m.do_id] = m.ai]
                     /\ explicit' = explicit \union {m.do_id}
                ELSE UNCHANGED <<ai_channel, explicit>>
           /\ UNCHANGED <<objects, place, zone_objects, outbox, hung, historyVars>>
  <2>1. m.do_id \in DoId /\ m.ai \in AI
    BY <1>1, <1>8, RequestFields
  <2> QED
    BY <1>1, <1>8, <2>1 DEF TypeOK, historyVars
<1>9. CASE /\ \E order \in SetToSeqs({o \in objects : ai_channel[o] = m.ai}) : Annihilate(order)
           /\ UNCHANGED <<hung, unanswered>>
  <2>1. PICK order \in SetToSeqs({o \in objects : ai_channel[o] = m.ai}) : Annihilate(order)
    BY <1>9
  <2>2. Once(order) /\ ToSet(order) \subseteq objects
    BY Ordering
  <2> QED
    BY <1>1, <1>9, <2>1, <2>2, AnnihilateType
<1> QED
  BY <1>2, <1>3, <1>4, <1>5, <1>6, <1>7, <1>8, <1>9 DEF Process

LEMMA InitType == Init => TypeOK
<1> SUFFICES ASSUME Init PROVE TypeOK
  OBVIOUS
<1>1. /\ root \in DoId /\ [parent |-> NoParent, zone |-> RootZone] \in Place /\ Unplaced \in Place
  BY Bounds, MessageTypes DEF Place
<1>2. place \in [DoId -> Place] /\ place[root] \in Place
  BY <1>1 DEF Init
<1>3. outbox \in Seq(Notice \union Control)
  <2> DEFINE a == SetMsg(SS)
             b == ChangeZone({}, root, place[root], Unplaced)
             d == SetMsg(root)
  <2>1. SS \in Channel /\ root \in Channel
    BY <1>1 DEF Channel
  <2>2. a \in Control /\ d \in Control
    BY <2>1, MessageTypes
  <2>3. b \in Notice
    BY <1>1, <1>2, MessageTypes
  <2>4. outbox = <<a, b, d>>
    BY DEF Init
  <2> HIDE DEF a, b, d
  <2> QED
    BY <2>2, <2>3, <2>4
<1>4. zone_objects \in [DoId -> SUBSET ((Zone \union {0}) \X DoId)]
  BY DEF Init
<1>5. routing \in Seq(Notice \union Request) /\ inbox \in Seq(Notice \union Request)
  BY DEF Init
<1>6. \A o \in DoId \ objects : place[o] = Unplaced /\ ai_channel[o] = NoAI /\ zone_objects[o] = {}
  BY DEF Init
<1>7. /\ objects \subseteq DoId /\ ai_channel \in [DoId -> AI \union {NoAI}] /\ explicit \subseteq objects
      /\ listening \subseteq Channel /\ hung \in BOOLEAN /\ sent \in 0..MaxRequests
      /\ unanswered \in Nat /\ disturbed \subseteq DoId
  <2>1. sent \in 0..MaxRequests /\ unanswered \in Nat
    BY Bounds DEF Init
  <2>2. ai_channel \in [DoId -> AI \union {NoAI}]
    BY DEF Init
  <2>3. /\ objects \subseteq DoId /\ explicit \subseteq objects /\ listening \subseteq Channel
        /\ hung \in BOOLEAN /\ disturbed \subseteq DoId
    BY <1>1 DEF Init
  <2> QED
    BY <2>1, <2>2, <2>3
<1> QED
  BY <1>2, <1>3, <1>4, <1>5, <1>6, <1>7 DEF TypeOK

LEMMA ForwardType ==
    ASSUME TypeOK, Forward
    PROVE  TypeOK'
<1> DEFINE m == Head(outbox)
<1>1. m \in Notice \union Control /\ outbox' \in Seq(Notice \union Control)
  BY HeadTailProperties DEF Forward, TypeOK
<1>2. m.type = "CHANGE_ZONE" => m \in Notice
  BY <1>1, MessageTypes
<1>3. m.type # "CHANGE_ZONE" => m.channel \in Channel
  BY <1>1, MessageTypes DEF Control
<1>4. routing' \in Seq(Notice \union Request)
  <2>1. \/ m.type = "CHANGE_ZONE" /\ routing' = Append(routing, m)
        \/ routing' = routing
    BY DEF Forward
  <2>2. routing \in Seq(Notice \union Request)
    BY DEF TypeOK
  <2> HIDE DEF m
  <2> QED
    BY <1>2, <2>1, <2>2, AppendProperties
<1>5. listening' \subseteq Channel
  BY <1>3 DEF Forward, TypeOK
<1> QED
  BY <1>1, <1>4, <1>5 DEF Forward, TypeOK, objectVars, historyVars

LEMMA RouteType ==
    ASSUME TypeOK, Route
    PROVE  TypeOK'
<1>1. /\ Head(routing) \in Notice \union Request
      /\ routing' \in Seq(Notice \union Request)
  BY HeadTailProperties DEF Route, TypeOK
<1>2. inbox' \in Seq(Notice \union Request)
  BY <1>1, AppendProperties DEF Route, TypeOK
<1> QED
  BY <1>1, <1>2 DEF Route, TypeOK, objectVars, historyVars

LEMMA SendType ==
    ASSUME TypeOK, NEW r \in Requests, Send(r)
    PROVE  TypeOK'
<1>1. r \in Notice \union Request
  BY Bounds
<1>2. routing' \in Seq(Notice \union Request)
  BY <1>1, AppendProperties DEF Send, TypeOK
<1>3. sent' \in 0..MaxRequests
  BY Bounds DEF Send, TypeOK
<1> QED
  BY <1>2, <1>3 DEF Send, TypeOK, objectVars, historyVars

\* The state keeps its type; in particular an object that is not there has no
\* place, no AI and no children listed (handle_generate, annihilate).
THEOREM TypeCorrect == Spec => []TypeOK
<1>1. TypeOK /\ [Next]_vars => TypeOK'
  <2>1. TypeOK /\ UNCHANGED vars => TypeOK'
    BY DEF vars, TypeOK
  <2> QED
    BY <2>1, ProcessType, ForwardType, RouteType, SendType DEF Next
<1> QED
  BY <1>1, InitType, PTL DEF Spec

-----------------------------------------------------------------------------
(* The notices of a child lead to where it is *)

\* What is on its way leads from where child c's parents have it to where it is.
Chained(c) == \E y, z : /\ Leads(c, inbox, Indexed(c), y)
                        /\ Leads(c, routing, y, z)
                        /\ Leads(c, outbox, z, Located(c))

\* The inductive invariant.  That a notice is not lost, and meets its parents,
\* rests on who listens since when.
IInv == /\ Addressed /\ Subscribed /\ HasParent
        /\ \A c \in DoId \ disturbed : Chained(c)

Mail == Notice \union Request \union Control

LEMMA Sequences ==
    ASSUME TypeOK
    PROVE  /\ inbox \in Seq(Mail) /\ routing \in Seq(Mail) /\ outbox \in Seq(Mail)
           /\ \A i \in 1..Len(inbox) : inbox[i] \in Mail
           /\ \A i \in 1..Len(routing) : routing[i] \in Mail
           /\ \A i \in 1..Len(outbox) : outbox[i] \in Mail
           /\ DOMAIN inbox = 1..Len(inbox) /\ DOMAIN routing = 1..Len(routing)
           /\ DOMAIN outbox = 1..Len(outbox)
           /\ Len(inbox) \in Nat /\ Len(routing) \in Nat /\ Len(outbox) \in Nat
<1>1. inbox \in Seq(Mail) /\ routing \in Seq(Mail) /\ outbox \in Seq(Mail)
  BY DEF TypeOK, Mail
<1> QED
  BY <1>1

\* Positions on the way.
LEMMA WayIs ==
    ASSUME TypeOK
    PROVE  /\ Way \in Seq(Mail) /\ DOMAIN Way = 1..Len(Way)
           /\ Len(Way) = Len(inbox) + Len(routing) + Len(outbox)
           /\ \A i \in 1..Len(inbox) : i \in DOMAIN Way /\ Way[i] = inbox[i]
           /\ \A i \in 1..Len(routing) : /\ Len(inbox) + i \in DOMAIN Way
                                         /\ Way[Len(inbox) + i] = routing[i]
           /\ \A i \in 1..Len(outbox) : /\ Len(inbox) + Len(routing) + i \in DOMAIN Way
                                        /\ Way[Len(inbox) + Len(routing) + i] = outbox[i]
<1> DEFINE u == inbox \o routing
           a == Len(inbox)
           b == Len(routing)
           d == Len(outbox)
<1>1. /\ inbox \in Seq(Mail) /\ routing \in Seq(Mail) /\ outbox \in Seq(Mail)
      /\ a \in Nat /\ b \in Nat /\ d \in Nat
  BY Sequences
<1>2. /\ u \in Seq(Mail) /\ Len(u) = a + b
      /\ \A i \in 1..(a + b) : u[i] = IF i <= a THEN inbox[i] ELSE routing[i - a]
  BY <1>1, ConcatProperties
<1>3. Way = u \o outbox
  BY DEF Way
<1> HIDE DEF u
<1>4. /\ Way \in Seq(Mail) /\ Len(Way) = (a + b) + d
      /\ \A i \in 1..((a + b) + d) : Way[i] = IF i <= a + b THEN u[i] ELSE outbox[i - (a + b)]
  <2>1. /\ Way \in Seq(Mail) /\ Len(Way) = Len(u) + Len(outbox)
        /\ \A i \in 1..(Len(u) + Len(outbox)) :
              Way[i] = IF i <= Len(u) THEN u[i] ELSE outbox[i - Len(u)]
    <3>1. u \in Seq(Mail) /\ outbox \in Seq(Mail)
      BY <1>1, <1>2
    <3>2. /\ u \o outbox \in Seq(Mail) /\ Len(u \o outbox) = Len(u) + Len(outbox)
          /\ \A i \in 1..(Len(u) + Len(outbox)) :
                (u \o outbox)[i] = IF i <= Len(u) THEN u[i] ELSE outbox[i - Len(u)]
      BY <3>1, ConcatProperties
    <3> QED
      BY <1>3, <3>2
  <2> HIDE DEF a, b
  <2> QED
    BY <1>2, <2>1
<1>5. DOMAIN Way = 1..Len(Way)
  BY <1>4
<1> HIDE DEF a, b, d
<1>6. \A i \in 1..a : i \in DOMAIN Way /\ Way[i] = inbox[i]
  BY <1>1, <1>2, <1>4, <1>5
<1>7. \A i \in 1..b : a + i \in DOMAIN Way /\ Way[a + i] = routing[i]
  BY <1>1, <1>2, <1>4, <1>5
<1>8. \A i \in 1..d : a + b + i \in DOMAIN Way /\ Way[a + b + i] = outbox[i]
  BY <1>1, <1>2, <1>4, <1>5
<1> QED
  BY <1>1, <1>4, <1>5, <1>6, <1>7, <1>8 DEF a, b, d

\* Whichever queue a notice is in, it is in flight.
LEMMA Flying ==
    ASSUME TypeOK, NEW c
    PROVE  /\ \A i \in 1..Len(inbox) : IsNote(inbox[i], c) => inbox[i] \in InFlight(c)
           /\ \A i \in 1..Len(routing) : IsNote(routing[i], c) => routing[i] \in InFlight(c)
           /\ \A i \in 1..Len(outbox) : IsNote(outbox[i], c) => outbox[i] \in InFlight(c)
<1>1. \A i \in DOMAIN Way : IsNote(Way[i], c) => Way[i] \in InFlight(c)
  BY DEF InFlight, Notices, IsNote
<1> QED
  BY <1>1, WayIs

\* The state server takes the next datagram, which changes the index to what
\* the datagram leads to, and sends what leads on to where the child is now.
LEMMA ChainedOn ==
    ASSUME TypeOK, NEW c \in DoId, Chained(c), inbox # <<>>,
           inbox' = Tail(inbox), routing' = routing,
           NEW more \in Seq(Message), outbox' = outbox \o more,
           \A x : Step(c, Head(inbox), Indexed(c), x) => Indexed(c)' = x,
           Leads(c, more, Located(c), Located(c)')
    PROVE  Chained(c)'
<1>1. PICK y, z : /\ Leads(c, inbox, Indexed(c), y)
                  /\ Leads(c, routing, y, z)
                  /\ Leads(c, outbox, z, Located(c))
  BY DEF Chained
<1>2. PICK x : Step(c, Head(inbox), Indexed(c), x) /\ Leads(c, Tail(inbox), x, y)
  BY <1>1, LeadsTail, Sequences
<1>3. Leads(c, inbox', Indexed(c)', y)
  BY <1>2
<1>4. Leads(c, outbox', z, Located(c)')
  <2>1. more \in Seq(Mail) /\ outbox \in Seq(Mail)
    BY Sequences DEF Message, Mail
  <2> QED
    BY <1>1, <2>1, LeadsConcat
<1>5. /\ Leads(c, inbox', Indexed(c)', y)
      /\ Leads(c, routing', y, z)
      /\ Leads(c, outbox', z, Located(c)')
  BY <1>1, <1>3, <1>4
<1> QED
  BY <1>5 DEF Chained

\* A notice that has nobody to tell does not move its child.
LEMMA NobodyTold ==
    ASSUME NEW c, NEW m, Proper(m), c \notin disturbed, m.to = {}, NEW x, NEW y, Step(c, m, x, y)
    PROVE  x = y
<1>1. CASE IsNote(m, c)
  <2>1. Told(m.old, m.new) = {}
    BY <1>1 DEF Proper, IsNote
  <2>2. Under(m.old) = {} /\ Under(m.new) = {}
    BY <2>1 DEF Told, Under
  <2> QED
    BY <1>1, <2>2 DEF Step
<1>2. CASE ~IsNote(m, c)
  BY <1>2 DEF Step
<1> QED
  BY <1>1, <1>2

\* Nor does what is no notice.
LEMMA NoNote ==
    ASSUME NEW c, NEW m, ~IsNote(m, c), NEW x, NEW y, Step(c, m, x, y)
    PROVE  x = y
BY DEF Step

\* Objects that stay keep listening when more is sent that is not their leave.
LEMMA ListensOn ==
    ASSUME TypeOK, Subscribed, NEW t \in objects, NEW more \in Seq(Message),
           outbox' = outbox \o more, \A i \in 1..Len(more) : more[i] # RemoveMsg(t),
           UNCHANGED <<routing, listening>>, disturbed \subseteq disturbed'
    PROVE  \E s \in 0..Len(outbox') : ListensSince(t, s)'
<1>1. PICK s \in 0..Len(outbox) : ListensSince(t, s)
  BY DEF Subscribed
<1> DEFINE n == Len(outbox)
           k == Len(more)
<1>2. /\ n \in Nat /\ k \in Nat /\ Len(outbox') = n + k
      /\ \A i \in 1..(n + k) : outbox'[i] = IF i <= n THEN outbox[i] ELSE more[i - n]
  <2>1. outbox \in Seq(Message)
    BY DEF TypeOK, Message
  <2> QED
    BY <2>1, ConcatProperties, LenProperties
<1> HIDE DEF n, k
<1>4. s \in 0..n
  BY <1>1 DEF n
<1>5. IF s = 0 THEN t \in listening' ELSE outbox'[s] = SetMsg(t)
  BY <1>1, <1>2, <1>4 DEF ListensSince
<1>6. ASSUME NEW j \in s + 1 .. n + k
      PROVE  outbox'[j] # RemoveMsg(t)
  <2>1. CASE j <= n
    BY <1>1, <1>2, <1>4, <2>1 DEF ListensSince, n
  <2>2. CASE j > n
    BY <1>2, <1>4, <2>2 DEF k
  <2> QED
    BY <1>2, <1>4, <2>1, <2>2
<1>7. s > 0 => \A i \in DOMAIN routing' : ~Awaits(routing[i], t)'
  BY <1>1 DEF ListensSince, Awaits
<1>8. \A j \in 1..s : ~Awaits(outbox[j], t)'
  <2> SUFFICES ASSUME NEW j \in 1..s PROVE ~Awaits(outbox[j], t)'
    OBVIOUS
  <2>1. outbox'[j] = outbox[j]
    BY <1>2, <1>4
  <2>2. ~Awaits(outbox[j], t)
    BY <1>1 DEF ListensSince
  <2> QED
    BY <2>1, <2>2 DEF Awaits
<1>9. ListensSince(t, s)'
  <2>1. IF s = 0 THEN t \in listening' ELSE outbox'[s] = SetMsg(t)
    BY <1>5
  <2>2. \A j \in s + 1 .. Len(outbox') : outbox'[j] # RemoveMsg(t)
    BY <1>2, <1>6
  <2> QED
    BY <2>1, <2>2, <1>7, <1>8 DEF ListensSince
<1> QED
  BY <1>2, <1>4, <1>9

\* A queue without its first message.
LEMMA TailOf ==
    ASSUME NEW M, NEW w \in Seq(M), w # <<>>
    PROVE  /\ Len(w) \in Nat /\ Len(w) > 0 /\ Head(w) = w[1] /\ 1 \in DOMAIN w
           /\ Tail(w) \in Seq(M) /\ Len(Tail(w)) = Len(w) - 1
           /\ DOMAIN Tail(w) = 1..(Len(w) - 1)
           /\ \A i \in 1..(Len(w) - 1) : Tail(w)[i] = w[i + 1] /\ i + 1 \in DOMAIN w
OBVIOUS

\* The first, and the last, notice that moves the child.
LEMMA LeadsFrom ==
    ASSUME NEW c, NEW M, NEW w \in Seq(M), NEW x, NEW y, Leads(c, w, x, y), x # y
    PROVE  \E i \in 1..Len(w) : IsNote(w[i], c) /\ Under(w[i].old) = x
<1> DEFINE n == Len(w)
<1>1. n \in Nat
  OBVIOUS
<1>2. PICK at : /\ at[0] = x /\ at[n] = y
                /\ \A i \in 1..n : Step(c, w[i], at[i - 1], at[i])
  BY DEF Leads
<1> HIDE DEF n
<1> DEFINE T == {i \in 0..n : at[i] # x}
<1>3. n \in T
  BY <1>1, <1>2
<1>4. T \in SUBSET Nat
  OBVIOUS
<1>5. PICK k \in T : \A j \in T : k <= j
  <2> HIDE DEF T
  <2> QED
    BY <1>3, <1>4, Least
<1>6. k \in 1..n /\ at[k] # x /\ at[k - 1] = x
  <2>1. k \in 0..n /\ at[k] # x /\ k # 0
    BY <1>2, <1>5
  <2>2. k - 1 \in 0..n /\ ~(k <= k - 1)
    BY <1>1, <2>1
  <2> QED
    BY <1>1, <1>5, <2>1, <2>2
<1>7. Step(c, w[k], at[k - 1], at[k])
  BY <1>2, <1>6
<1>8. IsNote(w[k], c) /\ Under(w[k].old) = x
  BY <1>6, <1>7 DEF Step
<1> QED
  BY <1>6, <1>8 DEF n

LEMMA LeadsTo ==
    ASSUME NEW c, NEW M, NEW w \in Seq(M), NEW x, NEW y, Leads(c, w, x, y), x # y
    PROVE  \E i \in 1..Len(w) : IsNote(w[i], c) /\ Under(w[i].new) = y
<1> DEFINE n == Len(w)
<1>1. n \in Nat
  OBVIOUS
<1>2. PICK at : /\ at[0] = x /\ at[n] = y
                /\ \A i \in 1..n : Step(c, w[i], at[i - 1], at[i])
  BY DEF Leads
<1> HIDE DEF n
<1> DEFINE T == {i \in 0..n : at[n - i] # y}
<1>3. n \in T
  BY <1>1, <1>2
<1>4. T \in SUBSET Nat
  OBVIOUS
<1>5. PICK k \in T : \A j \in T : k <= j
  <2> HIDE DEF T
  <2> QED
    BY <1>3, <1>4, Least
<1> DEFINE i == (n - k) + 1
<1>6. i \in 1..n /\ at[i - 1] # y /\ at[i] = y
  <2>1. k \in 0..n /\ at[n - k] # y /\ k # 0
    BY <1>1, <1>2, <1>5
  <2>2. k - 1 \in 0..n /\ ~(k <= k - 1) /\ n - (k - 1) = i /\ i - 1 = n - k /\ i \in 1..n
    BY <1>1, <2>1
  <2> QED
    BY <1>5, <2>1, <2>2
<1> HIDE DEF i
<1>7. Step(c, w[i], at[i - 1], at[i])
  BY <1>2, <1>6
<1>8. IsNote(w[i], c) /\ Under(w[i].new) = y
  BY <1>6, <1>7 DEF Step
<1> QED
  BY <1>6, <1>8 DEF n

\* Notices are addressed as they should be when the state server has taken the
\* next datagram.
LEMMA AddressedOn ==
    ASSUME TypeOK, Addressed, inbox # <<>>, inbox' = Tail(inbox), routing' = routing,
           disturbed \subseteq disturbed', NEW more \in Seq(Message), outbox' = outbox \o more,
           \A c \in DoId \ disturbed' : \A m \in InFlight(c) : m.to \intersect objects \subseteq objects',
           \A i \in 1..Len(more) : Proper(more[i])'
    PROVE  Addressed'
<1> DEFINE Good(m) == m.type = "CHANGE_ZONE" /\ m.child \notin disturbed' =>
                         m.to = Told(m.old, m.new) /\ m.to \subseteq objects'
<1>1. ASSUME NEW m \in Mail, Proper(m), m.type = "CHANGE_ZONE" => m \in InFlight(m.child)
      PROVE  Good(m)
  <2>1. m.type = "CHANGE_ZONE" => m.child \in DoId
    BY MessageTypes, NoticeFields DEF Mail
  <2> QED
    BY <1>1, <2>1 DEF Proper
<1>2. /\ \A i \in 1..Len(inbox) : Good(inbox[i])
      /\ \A i \in 1..Len(routing) : Good(routing[i])
      /\ \A i \in 1..Len(outbox) : Good(outbox[i])
  <2>1. /\ \A i \in 1..Len(inbox) : inbox[i].type = "CHANGE_ZONE" => inbox[i] \in InFlight(inbox[i].child)
        /\ \A i \in 1..Len(routing) : routing[i].type = "CHANGE_ZONE" => routing[i] \in InFlight(routing[i].child)
        /\ \A i \in 1..Len(outbox) : outbox[i].type = "CHANGE_ZONE" => outbox[i] \in InFlight(outbox[i].child)
    BY Flying DEF IsNote
  <2> HIDE DEF Good
  <2> QED
    BY <1>1, <2>1, Sequences DEF Addressed
<1>3. \A i \in 1..Len(more) : Good(more[i])
  BY DEF Proper
<1> HIDE DEF Good
<1>4. \A i \in DOMAIN inbox' : Good(inbox'[i])
  <2>1. /\ DOMAIN inbox' = 1..(Len(inbox) - 1) /\ Len(inbox) \in Nat
        /\ \A i \in 1..(Len(inbox) - 1) : inbox'[i] = inbox[i + 1] /\ i + 1 \in 1..Len(inbox)
    BY TailOf, Sequences
  <2> QED
    BY <1>2, <2>1
<1>5. \A i \in DOMAIN routing' : Good(routing'[i])
  BY <1>2, Sequences
<1>6. \A i \in DOMAIN outbox' : Good(outbox'[i])
  <2>1. outbox \in Seq(Message)
    BY DEF TypeOK, Message
  <2>2. /\ DOMAIN outbox' = 1..(Len(outbox) + Len(more)) /\ Len(outbox) \in Nat /\ Len(more) \in Nat
        /\ \A i \in 1..(Len(outbox) + Len(more)) :
              outbox'[i] = IF i <= Len(outbox) THEN outbox[i] ELSE more[i - Len(outbox)]
    BY <2>1, ConcatProperties, LenProperties
  <2> SUFFICES ASSUME NEW i \in 1..(Len(outbox) + Len(more)) PROVE Good(outbox'[i])
    BY <2>2
  <2>3. CASE i <= Len(outbox)
    BY <1>2, <2>2, <2>3
  <2>4. CASE i > Len(outbox)
    <3>1. i - Len(outbox) \in 1..Len(more) /\ outbox'[i] = more[i - Len(outbox)]
      BY <2>2, <2>4
    <3> QED
      BY <1>3, <3>1
  <2> QED
    BY <2>2, <2>3, <2>4
<1> QED
  BY <1>4, <1>5, <1>6 DEF Addressed, Proper, Good, Told

\* What a step of the state server must do to keep the invariant.
LEMMA Kept ==
    ASSUME TypeOK, IInv, inbox # <<>>, inbox' = Tail(inbox), UNCHANGED <<routing, listening>>,
           disturbed \subseteq disturbed', NEW more \in Seq(Message), outbox' = outbox \o more,
           \A c \in DoId \ disturbed' : \A m \in InFlight(c) : m.to \intersect objects \subseteq objects',
           \A i \in 1..Len(more) : Proper(more[i])',
           \A t \in objects \intersect objects' : \A i \in 1..Len(more) : more[i] # RemoveMsg(t),
           \A t \in objects' \ objects : \E s \in 0..Len(outbox') : ListensSince(t, s)',
           HasParent',
           \A c \in DoId \ disturbed' : /\ \A x : Step(c, Head(inbox), Indexed(c), x) => Indexed(c)' = x
                                        /\ Leads(c, more, Located(c), Located(c)')
    PROVE  IInv'
<1>1. Addressed'
  BY AddressedOn DEF IInv
<1>2. Subscribed'
  <2> SUFFICES ASSUME NEW t \in objects' PROVE \E s \in 0..Len(outbox') : ListensSince(t, s)'
    BY DEF Subscribed
  <2>1. CASE t \in objects
    BY <2>1, ListensOn DEF IInv
  <2> QED
    BY <2>1
<1>3. ASSUME NEW c \in DoId \ disturbed'
      PROVE  Chained(c)'
  <2>1. Chained(c)
    BY DEF IInv
  <2> QED
    BY <2>1, ChainedOn
<1> QED
  BY <1>1, <1>2, <1>3 DEF IInv

\* The head of the state server's queue, as a notice of an undisturbed child.
LEMMA HeadNote ==
    ASSUME TypeOK, IInv, inbox # <<>>
    PROVE  Proper(Head(inbox)) /\ Head(inbox) \in Notice \union Request
BY TailOf, Typed DEF TypeOK, IInv, Addressed

LEMMA KeptSilently ==
    ASSUME TypeOK, IInv, inbox # <<>>, inbox' = Tail(inbox),
           UNCHANGED <<objects, outbox, disturbed, routing, listening>>, HasParent',
           \A c \in DoId \ disturbed' : /\ \A x : Step(c, Head(inbox), Indexed(c), x) => Indexed(c)' = x
                                        /\ Located(c)' = Located(c)
    PROVE  IInv'
<1> DEFINE more == <<>>
<1>1. more \in Seq(Message) /\ outbox' = outbox \o more /\ Len(more) = 0
  BY ConcatEmptySeq DEF TypeOK, Message
<1>2. \A c \in DoId \ disturbed' : Leads(c, more, Located(c), Located(c)')
  BY LeadsEmpty
<1> HIDE DEF more
<1>3. \A c \in DoId \ disturbed' : \A m \in InFlight(c) : m.to \intersect objects \subseteq objects'
  OBVIOUS
<1>4. \A i \in 1..Len(more) : FALSE
  BY <1>1
<1>5. \A i \in 1..Len(more) : Proper(more[i])'
  BY <1>4
<1>6. \A t \in objects \intersect objects' : \A i \in 1..Len(more) : more[i] # RemoveMsg(t)
  BY <1>4
<1>7. \A t \in objects' \ objects : \E s \in 0..Len(outbox') : ListensSince(t, s)'
  OBVIOUS
<1> QED
  BY <1>1, <1>2, <1>3, <1>5, <1>6, <1>7, Kept

\* A datagram that changes no location and no index, if it is no notice that
\* someone is to hear.
LEMMA QuietKeeps ==
    ASSUME TypeOK, IInv, inbox # <<>>, inbox' = Tail(inbox),
           UNCHANGED <<objects, place, zone_objects, outbox, disturbed, routing, listening>>,
           \/ Head(inbox).type # "CHANGE_ZONE"
           \/ Head(inbox).to \intersect objects = {}
    PROVE  IInv'
<1>1. HasParent'
  BY DEF IInv, HasParent
<1>3. ASSUME NEW c \in DoId \ disturbed'
      PROVE  /\ \A x : Step(c, Head(inbox), Indexed(c), x) => Indexed(c)' = x
             /\ Located(c)' = Located(c)
  <2>1. Indexed(c)' = Indexed(c) /\ Located(c)' = Located(c)
    BY DEF Indexed, Located
  <2>2. ASSUME NEW x, Step(c, Head(inbox), Indexed(c), x) PROVE Indexed(c) = x
    <3>1. CASE IsNote(Head(inbox), c)
      <4>1. Head(inbox).to = {}
        BY <3>1, HeadNote DEF Proper, IsNote
      <4>2. Proper(Head(inbox)) /\ c \notin disturbed
        BY HeadNote
      <4> QED
        BY <2>2, <4>1, <4>2, NobodyTold
    <3>2. CASE ~IsNote(Head(inbox), c)
      BY <2>2, <3>2, NoNote
    <3> QED
      BY <3>1, <3>2
  <2> QED
    BY <2>1, <2>2
<1> QED
  BY <1>1, <1>3, KeptSilently

\* A parent's index, and so where the parents have the child, after a notice.
LEMMA ReindexKeeps ==
    ASSUME TypeOK, IInv, inbox # <<>>, inbox' = Tail(inbox), Head(inbox).type = "CHANGE_ZONE",
           Reindex(Head(inbox)),
           UNCHANGED <<objects, place, outbox, disturbed, routing, listening>>
    PROVE  IInv'
<1>1. HasParent'
  BY DEF IInv, HasParent
<1>2. PICK m : m = Head(inbox)
  OBVIOUS
<1>3. m \in Notice /\ Proper(m) /\ m.child \in DoId /\ m.new \in Place /\ m.old \in Place
  BY <1>2, HeadNote, RequestFields, NoticeFields
<1>4. PICK done \in SUBSET (m.to \intersect objects) :
              /\ zone_objects' = [p \in DoId |->
                    IF p \in done THEN (zone_objects[p] \ Leaving(m, p)) \union Entering(m, p)
                                  ELSE zone_objects[p]]
              /\ (\A p \in m.to \intersect objects : Leaving(m, p) \subseteq zone_objects[p])
                    => done = m.to \intersect objects
  BY <1>2, <1>3, ReindexIs
<1>5. objects \subseteq DoId /\ \A p \in DoId : zone_objects[p] \subseteq (Zone \union {0}) \X DoId
  BY DEF TypeOK
<1>6. ASSUME NEW c \in DoId, c # m.child
      PROVE  Indexed(c)' = Indexed(c)
  <2>1. \A p \in objects : \A z : <<z, c>> \in zone_objects'[p] <=> <<z, c>> \in zone_objects[p]
    BY <1>4, <1>5, <1>6 DEF Leaving, Entering
  <2> QED
    BY <2>1 DEF Indexed
<1>7. ASSUME m.child \notin disturbed, Indexed(m.child) = Under(m.old)
      PROVE  Indexed(m.child)' = Under(m.new)
  <2> DEFINE c == m.child
  <2>1. m.to = Told(m.old, m.new) /\ m.to \subseteq objects
    BY <1>3, <1>7 DEF Proper, Notice
  <2>2. \A l \in Place : l.parent \in objects /\ <<l.zone, c>> \in zone_objects[l.parent]
                            <=> l \in Under(m.old)
    BY <1>7 DEF Indexed
  <2>3. \A p \in m.to : Leaving(m, p) \subseteq zone_objects[p]
    <3> SUFFICES ASSUME m.old.parent \in m.to
                 PROVE  <<m.old.zone, m.child>> \in zone_objects[m.old.parent]
      BY DEF Leaving
    <3>1. m.old.parent # NoParent
      BY <1>5, <2>1, Bounds
    <3>2. m.old \in Under(m.old)
      BY <3>1 DEF Under
    <3> QED
      BY <1>3, <2>2, <3>2
  <2>4. done = m.to
    BY <1>4, <2>1, <2>3
  <2>5. ASSUME NEW l \in Place
        PROVE  l.parent \in objects /\ <<l.zone, c>> \in zone_objects'[l.parent] <=> l \in Under(m.new)
    <3> DEFINE p == l.parent
    <3>1. l = [parent |-> p, zone |-> l.zone] /\ m.old = [parent |-> m.old.parent, zone |-> m.old.zone]
          /\ m.new = [parent |-> m.new.parent, zone |-> m.new.zone]
      BY <1>3, PlaceFields
    <3>2. p \in objects =>
            (<<l.zone, c>> \in zone_objects[p] <=> m.old.parent = p /\ m.old.zone = l.zone)
      BY <2>2, <3>1, Bounds, <1>5 DEF Under
    <3>3. p \in objects => p \in DoId
      BY <1>5
    <3>4. CASE p \in m.to
      <4>1. p \in objects /\ zone_objects'[p] = (zone_objects[p] \ Leaving(m, p)) \union Entering(m, p)
        BY <1>4, <2>1, <2>4, <3>3, <3>4
      <4>2. p # NoParent
        BY <4>1, <3>3, Bounds
      <4>3. <<l.zone, c>> \in zone_objects'[p] <=> m.new.parent = p /\ m.new.zone = l.zone
        BY <3>2, <4>1 DEF Leaving, Entering
      <4> QED
        BY <3>1, <4>1, <4>2, <4>3 DEF Under
    <3>5. CASE p \notin m.to
      <4>1. p = NoParent \/ (p # m.old.parent /\ p # m.new.parent)
        BY <2>1, <3>5 DEF Told
      <4>2. l \notin Under(m.new)
        BY <4>1 DEF Under
      <4>3. p \in objects => p # m.old.parent /\ zone_objects'[p] = zone_objects[p]
        BY <1>4, <2>4, <3>3, <3>5, <4>1, Bounds
      <4> QED
        BY <3>2, <4>2, <4>3
    <3> QED
      BY <3>4, <3>5
  <2>6. Under(m.new) \subseteq Place
    BY <1>3 DEF Under
  <2>7. Indexed(c)' = {l \in Place : l.parent \in objects /\ <<l.zone, c>> \in zone_objects'[l.parent]}
    BY DEF Indexed
  <2> HIDE DEF c
  <2>8. Indexed(c)' = Under(m.new)
    BY <2>5, <2>6, <2>7
  <2> QED
    BY <2>8 DEF c
<1>8. ASSUME NEW c \in DoId \ disturbed'
      PROVE  /\ \A x : Step(c, m, Indexed(c), x) => Indexed(c)' = x
             /\ Located(c)' = Located(c)
  <2>1. Located(c)' = Located(c)
    BY DEF Located
  <2>2. ASSUME NEW x, Step(c, m, Indexed(c), x) PROVE Indexed(c)' = x
    <3>1. CASE c = m.child
      <4>1. IsNote(m, c) /\ m.child \notin disturbed
        BY <1>3, <1>8, <3>1, NoticeFields DEF IsNote
      <4>2. Indexed(m.child) = Under(m.old) /\ x = Under(m.new)
        BY <2>2, <3>1, <4>1 DEF Step
      <4> QED
        BY <1>7, <3>1, <4>1, <4>2
    <3>2. CASE c # m.child
      BY <1>6, <2>2, <3>2 DEF Step, IsNote
    <3> QED
      BY <3>1, <3>2
  <2> QED
    BY <2>1, <2>2
<1> QED
  BY <1>1, <1>2, <1>8, KeptSilently

\* What is sent up when object o moves leads its parents to its new place.
Announces(o, new, more) ==
    \E pre \in Seq(Notice) :
       /\ outbox' = outbox \o (pre \o more)
       /\ \A i \in 1..Len(pre) : pre[i] = ChangeZone(Told(place[o], new), o, new, place[o])
       /\ o \notin disturbed' => Leads(o, pre, Under(place[o]), Under(new))
       /\ \A c \in DoId \ {o} : \A x : Leads(c, pre, x, x)

\* A change of location moves the object and announces it, unless the process
\* hangs.
LEMMA LocationSends ==
    ASSUME TypeOK, NEW o \in DoId, NEW new \in Place, NEW more \in Seq(Control),
           LocationChange(o, new, more)
    PROVE  \/ hung' /\ UNCHANGED <<place, ai_channel, outbox, disturbed>>
           \/ /\ UNCHANGED hung
              /\ place' = [place EXCEPT ![o] = new]
              /\ Announces(o, new, more)
              /\ disturbed \subseteq disturbed' /\ disturbed' \subseteq disturbed \union {o}
              /\ o \notin disturbed' => Told(place[o], new) \subseteq objects
<1> DEFINE notice == ChangeZone(Told(place[o], new), o, new, place[o])
<1>1. notice \in Notice
  <2>1. place[o] \in Place
    BY DEF TypeOK
  <2>2. Told(place[o], new) \in SUBSET Channel
    BY <2>1, ToldType, MessageTypes
  <2> QED
    BY <2>1, <2>2, MessageTypes
<1>2. more \in Seq(Message) /\ outbox \in Seq(Message)
  BY DEF TypeOK, Message
<1>3. /\ IsNote(notice, o) /\ notice.old = place[o] /\ notice.new = new
      /\ \A c \in DoId \ {o} : ~IsNote(notice, c)
  BY DEF IsNote, ChangeZone
<1>4. CASE hung' /\ UNCHANGED <<place, ai_channel, outbox, disturbed>>
  BY <1>4
<1>5. CASE /\ UNCHANGED hung
           /\ place' = [place EXCEPT ![o] = new]
           /\ outbox' = outbox \o more /\ (new = place[o] \/ o \in disturbed')
           /\ disturbed \subseteq disturbed' /\ disturbed' \subseteq disturbed \union {o}
           /\ o \notin disturbed' => Told(place[o], new) \subseteq objects
  <2> DEFINE pre == <<>>
  <2>1. pre \in Seq(Notice) /\ Len(pre) = 0 /\ pre \o more = more
    BY <1>2, ConcatEmptySeq
  <2>2. \A c, x : Leads(c, pre, x, x)
    BY LeadsEmpty
  <2> HIDE DEF pre
  <2>3. /\ outbox' = outbox \o (pre \o more)
        /\ \A i \in 1..Len(pre) : pre[i] = ChangeZone(Told(place[o], new), o, new, place[o])
        /\ o \notin disturbed' => Leads(o, pre, Under(place[o]), Under(new))
        /\ \A c \in DoId \ {o} : \A x : Leads(c, pre, x, x)
    BY <1>5, <2>1, <2>2
  <2>4. Announces(o, new, more)
    BY <2>1, <2>3 DEF Announces
  <2> QED
    BY <1>5, <2>4
<1>6. CASE /\ UNCHANGED hung
           /\ place' = [place EXCEPT ![o] = new]
           /\ outbox' = (outbox \o <<notice>>) \o more
           /\ disturbed \subseteq disturbed' /\ disturbed' \subseteq disturbed \union {o}
           /\ o \notin disturbed' => Told(place[o], new) \subseteq objects
  <2> DEFINE pre == <<notice>>
  <2>1. pre \in Seq(Notice) /\ Len(pre) = 1 /\ pre[1] = notice
    <3> HIDE DEF notice
    <3> QED
      BY <1>1
  <2>2. Leads(o, pre, Under(place[o]), Under(new))
    BY <1>3, LeadsOne DEF Step
  <2>3. \A c \in DoId \ {o} : \A x : Leads(c, pre, x, x)
    BY <1>3, LeadsOne DEF Step
  <2>4. outbox' = (outbox \o pre) \o more
    BY <1>6
  <2> HIDE DEF pre
  <2>5. (outbox \o pre) \o more = outbox \o (pre \o more)
    <3>1. pre \in Seq(Message)
      BY <2>1 DEF Message
    <3> QED
      BY <1>2, <3>1, ConcatAssociative
  <2>6. /\ outbox' = outbox \o (pre \o more)
        /\ \A i \in 1..Len(pre) : pre[i] = ChangeZone(Told(place[o], new), o, new, place[o])
        /\ o \notin disturbed' => Leads(o, pre, Under(place[o]), Under(new))
        /\ \A c \in DoId \ {o} : \A x : Leads(c, pre, x, x)
    BY <2>1, <2>2, <2>3, <2>4, <2>5
  <2>7. Announces(o, new, more)
    BY <2>1, <2>6 DEF Announces
  <2> QED
    BY <1>6, <2>7
<1> QED
  BY <1>4, <1>5, <1>6, LocationIs

\* What is said of a child's move is proper, and leads its parents on.
LEMMA MoveSends ==
    ASSUME TypeOK, IInv, NEW o \in DoId, NEW new \in Place, NEW more \in Seq(Control),
           \A i \in 1..Len(more) : \E t \in Channel : more[i] = SetMsg(t),
           NEW pre \in Seq(Notice),
           \A i \in 1..Len(pre) : pre[i] = ChangeZone(Told(place[o], new), o, new, place[o]),
           o \notin disturbed' => /\ Leads(o, pre, Under(place[o]), Under(new))
                                  /\ Told(place[o], new) \subseteq objects',
           \A c \in DoId \ {o} : \A x : Leads(c, pre, x, x)
    PROVE  /\ pre \o more \in Seq(Message)
           /\ \A i \in 1..Len(pre \o more) : /\ Proper((pre \o more)[i])'
                                             /\ \A t : (pre \o more)[i] # RemoveMsg(t)
           /\ o \notin disturbed' => Leads(o, pre \o more, Under(place[o]), Under(new))
           /\ \A c \in DoId \ {o} : \A x : Leads(c, pre \o more, x, x)
<1>1. pre \in Seq(Message) /\ more \in Seq(Message)
  BY DEF Message
<1> DEFINE all == pre \o more
<1>2. /\ all \in Seq(Message) /\ Len(all) = Len(pre) + Len(more) /\ Len(pre) \in Nat /\ Len(more) \in Nat
      /\ \A i \in 1..Len(all) : all[i] = IF i <= Len(pre) THEN pre[i] ELSE more[i - Len(pre)]
  BY <1>1, ConcatProperties, LenProperties
<1> HIDE DEF all
<1>3. ASSUME NEW i \in 1..Len(all)
      PROVE  \/ all[i] = ChangeZone(Told(place[o], new), o, new, place[o])
             \/ \E t \in Channel : all[i] = SetMsg(t)
  <2>1. CASE i <= Len(pre)
    BY <1>2, <2>1
  <2>2. CASE i > Len(pre)
    <3>1. i - Len(pre) \in 1..Len(more) /\ all[i] = more[i - Len(pre)]
      BY <1>2, <2>2
    <3> QED
      BY <3>1
  <2> QED
    BY <1>2, <2>1, <2>2
<1>4. ASSUME NEW i \in 1..Len(all)
      PROVE  /\ (all[i].type = "CHANGE_ZONE" /\ all[i].child \notin disturbed' =>
                    all[i].to = Told(all[i].old, all[i].new) /\ all[i].to \subseteq objects')
             /\ \A t : all[i] # RemoveMsg(t)
  <2>1. CASE all[i] = ChangeZone(Told(place[o], new), o, new, place[o])
    <3>1. /\ all[i].type = "CHANGE_ZONE" /\ all[i].to = Told(place[o], new) /\ all[i].child = o
          /\ all[i].old = place[o] /\ all[i].new = new
      BY <2>1 DEF ChangeZone
    <3>2. \A t : RemoveMsg(t).type = "REMOVE_CHANNEL"
      BY DEF RemoveMsg
    <3> QED
      BY <3>1, <3>2
  <2>2. CASE \E t \in Channel : all[i] = SetMsg(t)
    <3>1. all[i].type = "SET_CHANNEL"
      BY <2>2 DEF SetMsg
    <3>2. \A t : RemoveMsg(t).type = "REMOVE_CHANNEL"
      BY DEF RemoveMsg
    <3> QED
      BY <3>1, <3>2
  <2> QED
    BY <1>3, <2>1, <2>2
<1>5. \A i \in 1..Len(all) : Proper(all[i])'
  BY <1>4 DEF Proper, Told
<1>6. \A c, x : Leads(c, more, x, x)
  <2>1. \A c : \A i \in 1..Len(more) : ~IsNote(more[i], c)
    <3> SUFFICES ASSUME NEW c, NEW i \in 1..Len(more) PROVE ~IsNote(more[i], c)
      OBVIOUS
    <3>1. PICK t \in Channel : more[i] = SetMsg(t)
      OBVIOUS
    <3>2. SetMsg(t).type # "CHANGE_ZONE"
      BY DEF SetMsg
    <3> QED
      BY <3>1, <3>2 DEF IsNote
  <2> QED
    BY <1>2, <2>1, LeadsNowhere
<1>7. /\ o \notin disturbed' => Leads(o, all, Under(place[o]), Under(new))
      /\ \A c \in DoId \ {o} : \A x : Leads(c, all, x, x)
  BY <1>1, <1>6, LeadsConcat DEF all
<1> QED
  BY <1>2, <1>4, <1>5, <1>7 DEF all

LEMMA SetZoneKeeps ==
    ASSUME TypeOK, IInv, inbox # <<>>, inbox' = Tail(inbox), NEW m \in Request, m = Head(inbox),
           m.type = "SET_ZONE", NEW o \in objects, SetZone(o, m),
           UNCHANGED <<objects, zone_objects, routing, listening>>
    PROVE  IInv'
<1>1. o \in DoId /\ m.new \in Place
  BY RequestFields DEF TypeOK
<1>2. m.type # "CHANGE_ZONE"
  OBVIOUS
<1>3. CASE UNCHANGED <<place, outbox, disturbed>>
  BY <1>2, <1>3, QuietKeeps
<1>4. CASE LocationChange(o, m.new, <<>>) /\ ~UNCHANGED <<place, outbox, disturbed>>
  <2> DEFINE new == m.new
             more == <<>>
  <2>1. more \in Seq(Control) /\ Len(more) = 0
    OBVIOUS
  <2>2. \A i \in 1..Len(more) : \E t \in Channel : more[i] = SetMsg(t)
    BY <2>1
  <2>3. LocationChange(o, new, more)
    BY <1>4
  <2> HIDE DEF more, new
  <2>4. /\ place' = [place EXCEPT ![o] = new]
        /\ disturbed \subseteq disturbed' /\ disturbed' \subseteq disturbed \union {o}
        /\ o \notin disturbed' => Told(place[o], new) \subseteq objects
        /\ Announces(o, new, more)
    BY <1>1, <1>4, <2>1, <2>3, LocationSends DEF new
  <2>5. PICK pre \in Seq(Notice) :
                    /\ outbox' = outbox \o (pre \o more)
                    /\ \A i \in 1..Len(pre) :
                          pre[i] = ChangeZone(Told(place[o], new), o, new, place[o])
                    /\ o \notin disturbed' => Leads(o, pre, Under(place[o]), Under(new))
                    /\ \A c \in DoId \ {o} : \A x : Leads(c, pre, x, x)
    BY <2>4 DEF Announces
  <2> DEFINE all == pre \o more
  <2>6. /\ all \in Seq(Message)
        /\ \A i \in 1..Len(all) : Proper(all[i])' /\ \A t : all[i] # RemoveMsg(t)
        /\ o \notin disturbed' => Leads(o, all, Under(place[o]), Under(new))
        /\ \A c \in DoId \ {o} : \A x : Leads(c, all, x, x)
    BY <1>1, <2>1, <2>2, <2>4, <2>5, MoveSends DEF new
  <2>7. outbox' = outbox \o all
    BY <2>5
  <2> HIDE DEF all
  <2>8. place \in [DoId -> Place] /\ objects \subseteq DoId
    BY DEF TypeOK
  <2>9. HasParent'
    BY <2>4, <2>8, PlaceFields, <1>1 DEF HasParent, IInv, Told, new
  <2>10. ASSUME NEW c \in DoId \ disturbed'
         PROVE  /\ \A x : Step(c, Head(inbox), Indexed(c), x) => Indexed(c)' = x
                /\ Leads(c, all, Located(c), Located(c)')
    <3>1. Indexed(c)' = Indexed(c)
      BY DEF Indexed
    <3>2. ~IsNote(Head(inbox), c)
      BY <1>2 DEF IsNote
    <3>3. CASE c = o
      <4>1. Located(c) = Under(place[o]) /\ Located(c)' = Under(new)
        BY <2>4, <2>8, <3>3 DEF Located
      <4> QED
        BY <2>6, <3>1, <3>2, <3>3, <4>1, NoNote
    <3>4. CASE c # o
      <4>1. Located(c)' = Located(c)
        BY <2>4, <2>8, <3>4 DEF Located
      <4> QED
        BY <2>6, <3>1, <3>2, <3>4, <4>1, NoNote
    <3> QED
      BY <3>3, <3>4
  <2>11. /\ \A c \in DoId \ disturbed' : \A n \in InFlight(c) : n.to \intersect objects \subseteq objects'
         /\ \A t \in objects' \ objects : \E s \in 0..Len(outbox') : ListensSince(t, s)'
    OBVIOUS
  <2> QED
    BY <2>4, <2>6, <2>7, <2>9, <2>10, <2>11, Kept
<1> QED
  BY <1>3, <1>4 DEF SetZone

LEMMA GenerateKeeps ==
    ASSUME TypeOK, IInv, ~hung, inbox # <<>>, inbox' = Tail(inbox), NEW m \in Request, m = Head(inbox),
           m.type = "GENERATE", Generate(m), UNCHANGED <<zone_objects, routing, listening>>
    PROVE  IInv'
<1>1. m.do_id \in DoId /\ m.new \in Place
  BY RequestFields DEF TypeOK
<1>2. m.type # "CHANGE_ZONE"
  OBVIOUS
<1>3. CASE UNCHANGED <<objects, place, outbox, disturbed>>
  BY <1>2, <1>3, QuietKeeps
<1>4. CASE /\ m.do_id \notin objects /\ m.new.parent # m.do_id
           /\ LocationChange(m.do_id, m.new, <<SetMsg(m.do_id)>>)
           /\ objects' = IF hung' THEN objects ELSE objects \union {m.do_id}
           /\ ~UNCHANGED <<objects, place, outbox, disturbed>>
  <2> DEFINE o == m.do_id
             new == m.new
             more == <<SetMsg(o)>>
  <2>1. more \in Seq(Control) /\ Len(more) = 1 /\ more[1] = SetMsg(o)
    <3>1. SetMsg(o) \in Control
      BY <1>1, MessageTypes
    <3> QED
      BY <3>1
  <2>2. \A i \in 1..Len(more) : \E t \in Channel : more[i] = SetMsg(t)
    BY <1>1, <2>1 DEF Channel
  <2>3. LocationChange(o, new, more) /\ o \notin objects /\ new.parent # o
    BY <1>4
  <2> HIDE DEF more
  <2>4. /\ ~hung' /\ objects' = objects \union {o}
        /\ place' = [place EXCEPT ![o] = new]
        /\ disturbed \subseteq disturbed' /\ disturbed' \subseteq disturbed \union {o}
        /\ o \notin disturbed' => Told(place[o], new) \subseteq objects'
        /\ Announces(o, new, more)
    <3>1. \/ hung' /\ UNCHANGED <<place, ai_channel, outbox, disturbed>>
          \/ /\ UNCHANGED hung
             /\ place' = [place EXCEPT ![o] = new]
             /\ disturbed \subseteq disturbed' /\ disturbed' \subseteq disturbed \union {o}
             /\ o \notin disturbed' => Told(place[o], new) \subseteq objects
             /\ Announces(o, new, more)
      BY <1>1, <2>1, <2>3, LocationSends
    <3>2. ~hung'
      BY <1>4, <3>1
    <3> QED
      BY <1>4, <3>1, <3>2
  <2>5. PICK pre \in Seq(Notice) :
                    /\ outbox' = outbox \o (pre \o more)
                    /\ \A i \in 1..Len(pre) :
                          pre[i] = ChangeZone(Told(place[o], new), o, new, place[o])
                    /\ o \notin disturbed' => Leads(o, pre, Under(place[o]), Under(new))
                    /\ \A c \in DoId \ {o} : \A x : Leads(c, pre, x, x)
    BY <2>4 DEF Announces
  <2> DEFINE all == pre \o more
  <2>6. /\ all \in Seq(Message)
        /\ \A i \in 1..Len(all) : Proper(all[i])' /\ \A t : all[i] # RemoveMsg(t)
        /\ o \notin disturbed' => Leads(o, all, Under(place[o]), Under(new))
        /\ \A c \in DoId \ {o} : \A x : Leads(c, all, x, x)
    BY <1>1, <2>1, <2>2, <2>4, <2>5, MoveSends
  <2>7. outbox' = outbox \o all
    BY <2>5
  <2>8. /\ place \in [DoId -> Place] /\ objects \subseteq DoId
        /\ place[o] = Unplaced /\ zone_objects[o] = {}
    BY <1>1, <2>3 DEF TypeOK
  <2>9. Told(place[o], new) = {new.parent} \ {NoParent}
    BY <2>8 DEF Told, Unplaced
  <2>10. HasParent'
    <3> SUFFICES ASSUME NEW c \in objects' \ disturbed'
                 PROVE  place'[c].parent \in objects' \union {NoParent}
      BY DEF HasParent
    <3>1. CASE c = o
      BY <1>1, <2>4, <2>8, <2>9, <3>1
    <3>2. CASE c # o
      BY <2>4, <2>8, <3>2 DEF HasParent, IInv
    <3> QED
      BY <3>1, <3>2
  <2>11. ASSUME NEW c \in DoId \ disturbed'
         PROVE  /\ \A x : Step(c, Head(inbox), Indexed(c), x) => Indexed(c)' = x
                /\ Leads(c, all, Located(c), Located(c)')
    <3>1. Indexed(c)' = Indexed(c)
      BY <2>4, <2>8 DEF Indexed
    <3>2. ~IsNote(Head(inbox), c)
      BY <1>2 DEF IsNote
    <3>3. CASE c = o
      <4>1. Located(c) = {} /\ Under(place[o]) = {} /\ Located(c)' = Under(new)
        <5>1. Located(c) = {} /\ Under(Unplaced) = {}
          BY <2>3, <3>3 DEF Located, Under, Unplaced
        <5>2. c \in objects' /\ place'[c] = new
          BY <1>1, <2>4, <2>8, <3>3
        <5>3. Located(c)' = Under(place'[c])
          BY <5>2 DEF Located, Under
        <5> QED
          BY <2>8, <5>1, <5>2, <5>3
      <4> QED
        BY <2>6, <3>1, <3>2, <3>3, <4>1, NoNote
    <3>4. CASE c # o
      <4>1. Located(c)' = Located(c)
        BY <2>4, <2>8, <3>4 DEF Located
      <4> QED
        BY <2>6, <3>1, <3>2, <3>4, <4>1, NoNote
    <3> QED
      BY <3>3, <3>4
  <2>12. \E s \in 0..Len(outbox') : ListensSince(o, s)'
    <3>1. outbox \in Seq(Message) /\ pre \in Seq(Message) /\ more \in Seq(Message)
      BY <2>1, <2>5 DEF TypeOK, Message
    <3>2. /\ Len(all) = Len(pre) + 1 /\ all[Len(pre) + 1] = SetMsg(o) /\ Len(pre) \in Nat
          /\ \A i \in 1..Len(pre) : all[i] = pre[i]
      <4>1. /\ Len(all) = Len(pre) + Len(more) /\ Len(pre) \in Nat
            /\ \A i \in 1..(Len(pre) + Len(more)) :
                  all[i] = IF i <= Len(pre) THEN pre[i] ELSE more[i - Len(pre)]
        BY <3>1, ConcatProperties, LenProperties
      <4> HIDE DEF all
      <4> QED
        BY <2>1, <4>1
    <3> HIDE DEF all
    <3> DEFINE n == Len(outbox)
               k == Len(pre)
    <3>0. PICK s : s = n + k + 1
      OBVIOUS
    <3>3. /\ n \in Nat /\ k \in Nat /\ Len(outbox') = s /\ outbox'[s] = SetMsg(o)
          /\ \A i \in 1..n : outbox'[i] = outbox[i]
          /\ \A i \in 1..k : outbox'[n + i] = pre[i]
      <4>1. /\ n \in Nat /\ Len(all) \in Nat /\ Len(outbox') = n + Len(all)
            /\ \A i \in 1..(n + Len(all)) : outbox'[i] = IF i <= n THEN outbox[i] ELSE all[i - n]
        BY <2>6, <2>7, <3>1, ConcatProperties, LenProperties
      <4> HIDE DEF n, k
      <4>2. /\ Len(all) = k + 1 /\ all[k + 1] = SetMsg(o) /\ k \in Nat
            /\ \A i \in 1..k : all[i] = pre[i]
        BY <3>2 DEF k
      <4>3. n \in Nat /\ Len(outbox') = s /\ outbox'[s] = SetMsg(o)
        BY <3>0, <4>1, <4>2
      <4>4. \A i \in 1..n : outbox'[i] = outbox[i]
        BY <4>1, <4>2
      <4>5. \A i \in 1..k : outbox'[n + i] = pre[i]
        BY <4>1, <4>2
      <4> QED
        BY <4>2, <4>3, <4>4, <4>5
    <3> DEFINE Waits(w) == w.type = "CHANGE_ZONE" /\ w.child \notin disturbed' /\ o \in w.to
    <3>4. /\ \A i \in DOMAIN routing : ~Waits(routing[i])
          /\ \A i \in DOMAIN outbox : ~Waits(outbox[i])
      BY <2>3, <2>4 DEF IInv, Addressed, Proper
    <3>5. \A i \in 1..k : ~Waits(pre[i])
      <4>1. o \notin Told(place[o], new)
        BY <2>3, <2>9
      <4>2. ChangeZone(Told(place[o], new), o, new, place[o]).to = Told(place[o], new)
        BY DEF ChangeZone
      <4> QED
        BY <2>5, <4>1, <4>2
    <3>6. ~Waits(SetMsg(o))
      BY DEF SetMsg
    <3> HIDE DEF n, k, Waits
    <3>7. ASSUME NEW j \in 1..s PROVE ~Waits(outbox'[j])
      <4>1. CASE j \in 1..n
        <5>1. j \in DOMAIN outbox
          BY <4>1, Sequences DEF n
        <5> QED
          BY <3>3, <3>4, <4>1, <5>1
      <4>2. CASE j - n \in 1..k
        <5>1. outbox'[n + (j - n)] = pre[j - n] /\ n + (j - n) = j
          BY <3>3, <4>2
        <5> QED
          BY <3>5, <4>2, <5>1
      <4>3. CASE j = s
        BY <3>3, <3>6, <4>3
      <4>4. j \in 1..n \/ j - n \in 1..k \/ j = s
        BY <3>0, <3>3
      <4> QED
        BY <4>1, <4>2, <4>3, <4>4
    <3>8. \A i \in DOMAIN routing' : ~Awaits(routing[i], o)'
      BY <3>4 DEF Waits, Awaits
    <3>9. \A j \in 1..s : ~Awaits(outbox[j], o)'
      BY <3>7 DEF Waits, Awaits
    <3>10. s \in 0..Len(outbox') /\ s # 0 /\ \A j \in s + 1 .. Len(outbox') : FALSE
      BY <3>0, <3>3
    <3>11. ListensSince(o, s)'
      BY <3>3, <3>8, <3>9, <3>10 DEF ListensSince
    <3> QED
      BY <3>10, <3>11
  <2> HIDE DEF all
  <2>13. /\ \A c \in DoId \ disturbed' : \A n \in InFlight(c) : n.to \intersect objects \subseteq objects'
         /\ \A t \in objects' \ objects : \E s \in 0..Len(outbox') : ListensSince(t, s)'
    BY <2>4, <2>12
  <2> QED
    BY <2>4, <2>6, <2>7, <2>10, <2>11, <2>13, Kept
<1> QED
  BY <1>3, <1>4 DEF Generate

\* Objects are deleted, and say so to their parents.
LEMMA AnnihilateKeeps ==
    ASSUME TypeOK, IInv, inbox # <<>>, inbox' = Tail(inbox), Head(inbox).type # "CHANGE_ZONE",
           NEW order, Once(order), ToSet(order) \subseteq objects, Annihilate(order),
           UNCHANGED <<routing, listening>>
    PROVE  IInv'
<1>1. PICK gone : gone = ToSet(order)
  OBVIOUS
<1>2. /\ gone \subseteq objects /\ objects' = objects \ gone
      /\ place' = [o \in DoId |-> IF o \in gone THEN Unplaced ELSE place[o]]
      /\ zone_objects' = [o \in DoId |-> IF o \in gone THEN {} ELSE zone_objects[o]]
      /\ disturbed' = disturbed \union Bereaved(gone)
      /\ Dismisses(gone)
  BY <1>1, AnnihilateIs
<1>3. PICK more \in Seq(Message) :
         /\ outbox' = outbox \o more
         /\ \A i \in 1..Len(more) : \E o \in gone :
               \/ more[i] = RemoveMsg(o)
               \/ /\ place[o].parent # NoParent
                  /\ more[i] = ChangeZone({place[o].parent}, o, Unplaced, place[o])
         /\ \A c \in gone : Leads(c, more, Under(place[c]), {})
         /\ \A c \in DoId \ gone : \A x : Leads(c, more, x, x)
  BY <1>2 DEF Dismisses
<1>4. objects \subseteq DoId /\ place \in [DoId -> Place] /\ zone_objects \in [DoId -> SUBSET ((Zone \union {0}) \X DoId)]
  BY DEF TypeOK
<1>5. ASSUME NEW c \in DoId \ disturbed'
      PROVE  /\ c \notin disturbed
             /\ c \in objects => place[c].parent \in (objects \union {NoParent}) \ gone
             /\ \A m \in InFlight(c) : m.to \intersect gone = {}
  BY <1>2, <1>4, <1>5 DEF Bereaved, IInv, HasParent
<1>6. \A c \in DoId \ disturbed' : \A m \in InFlight(c) : m.to \intersect objects \subseteq objects'
  BY <1>2, <1>5
<1>7. HasParent'
  <2> SUFFICES ASSUME NEW c \in objects' \ disturbed'
               PROVE  place'[c].parent \in objects' \union {NoParent}
    BY DEF HasParent
  <2>1. c \in DoId \ disturbed' /\ c \in objects /\ place'[c] = place[c]
    BY <1>2, <1>4
  <2> QED
    BY <1>2, <1>5, <2>1
<1>8. \A i \in 1..Len(more) : Proper(more[i])'
  <2> SUFFICES ASSUME NEW i \in 1..Len(more), more[i].type = "CHANGE_ZONE", more[i].child \notin disturbed'
               PROVE  more[i].to = Told(more[i].old, more[i].new) /\ more[i].to \subseteq objects'
    BY DEF Proper, Told
  <2>1. PICK o \in gone : more[i] = RemoveMsg(o) \/ /\ place[o].parent # NoParent
                                                    /\ more[i] = ChangeZone({place[o].parent}, o, Unplaced, place[o])
    BY <1>3
  <2>2. RemoveMsg(o).type # "CHANGE_ZONE"
    BY DEF RemoveMsg
  <2>3. /\ place[o].parent # NoParent
        /\ more[i].to = {place[o].parent} /\ more[i].child = o /\ more[i].new = Unplaced
        /\ more[i].old = place[o]
    BY <2>1, <2>2 DEF ChangeZone
  <2>4. Told(place[o], Unplaced) = {place[o].parent}
    BY <2>3 DEF Told, Unplaced
  <2>5. o \in DoId \ disturbed' /\ o \in objects
    BY <1>2, <1>4, <2>3
  <2> QED
    BY <1>2, <1>5, <2>3, <2>4, <2>5
<1>9. \A t \in objects \intersect objects' : \A i \in 1..Len(more) : more[i] # RemoveMsg(t)
  <2> SUFFICES ASSUME NEW t \in objects', NEW i \in 1..Len(more) PROVE more[i] # RemoveMsg(t)
    OBVIOUS
  <2>1. PICK o \in gone : \/ more[i] = RemoveMsg(o)
                          \/ more[i] = ChangeZone({place[o].parent}, o, Unplaced, place[o])
    BY <1>3
  <2>2. t # o
    BY <1>2
  <2> QED
    BY <2>1, <2>2 DEF RemoveMsg, ChangeZone
<1>10. \A t \in objects' \ objects : \E s \in 0..Len(outbox') : ListensSince(t, s)'
  BY <1>2
<1>11. ASSUME NEW c \in DoId \ disturbed', NEW l \in Indexed(c)
       PROVE  l.parent \notin gone
  <2>1. PICK y, z : /\ Leads(c, inbox, Indexed(c), y)
                    /\ Leads(c, routing, y, z)
                    /\ Leads(c, outbox, z, Located(c))
    BY <1>5 DEF IInv, Chained
  <2>2. inbox \in Seq(Mail) /\ routing \in Seq(Mail) /\ outbox \in Seq(Mail)
    BY Sequences
  <2>3. ASSUME NEW m \in InFlight(c), Proper(m), IsNote(m, c), Under(m.old) = Indexed(c)
        PROVE  l.parent \notin gone
    <3>1. m.to = Told(m.old, m.new) /\ m.to \intersect gone = {}
      BY <1>5, <2>3 DEF Proper, IsNote
    <3>2. l = m.old /\ m.old.parent # NoParent
      BY <2>3 DEF Under
    <3> QED
      BY <3>1, <3>2 DEF Told
  <2>4. CASE Indexed(c) # y
    <3>1. PICK i \in 1..Len(inbox) : IsNote(inbox[i], c) /\ Under(inbox[i].old) = Indexed(c)
      BY <2>1, <2>2, <2>4, LeadsFrom
    <3>2. inbox[i] \in InFlight(c) /\ Proper(inbox[i])
      BY <3>1, Flying, Sequences DEF IInv, Addressed
    <3> QED
      BY <2>3, <3>1, <3>2
  <2>5. CASE Indexed(c) = y /\ y # z
    <3>1. PICK i \in 1..Len(routing) : IsNote(routing[i], c) /\ Under(routing[i].old) = Indexed(c)
      <4>0. Leads(c, routing, y, z) /\ y # z /\ routing \in Seq(Mail)
        BY <2>1, <2>2, <2>5
      <4>1. \E i \in 1..Len(routing) : IsNote(routing[i], c) /\ Under(routing[i].old) = y
        BY <4>0, LeadsFrom
      <4> QED
        BY <2>5, <4>1
    <3>2. routing[i] \in InFlight(c) /\ Proper(routing[i])
      BY <3>1, Flying, Sequences DEF IInv, Addressed
    <3> QED
      BY <2>3, <3>1, <3>2
  <2>6. CASE Indexed(c) = z /\ z # Located(c)
    <3>1. PICK i \in 1..Len(outbox) : IsNote(outbox[i], c) /\ Under(outbox[i].old) = Indexed(c)
      BY <2>1, <2>2, <2>6, LeadsFrom
    <3>2. outbox[i] \in InFlight(c) /\ Proper(outbox[i])
      BY <3>1, Flying, Sequences DEF IInv, Addressed
    <3> QED
      BY <2>3, <3>1, <3>2
  <2>7. CASE Indexed(c) = Located(c)
    <3>1. c \in objects /\ l = place[c]
      BY <2>7 DEF Located, Under
    <3> QED
      BY <1>5, <3>1
  <2> QED
    BY <2>4, <2>5, <2>6, <2>7
<1>12. ASSUME NEW c \in DoId \ disturbed'
       PROVE  /\ \A x : Step(c, Head(inbox), Indexed(c), x) => Indexed(c)' = x
              /\ Leads(c, more, Located(c), Located(c)')
  <2>1. Indexed(c)' = Indexed(c)
    <3>1. Indexed(c)' = {l \in Place : l.parent \in objects' /\ <<l.zone, c>> \in zone_objects'[l.parent]}
      BY DEF Indexed
    <3>2. \A l \in Place : l.parent \in objects' => zone_objects'[l.parent] = zone_objects[l.parent]
      BY <1>2, <1>4
    <3>3. \A l \in Place : l.parent \in objects' <=> l.parent \in objects /\ l.parent \notin gone
      BY <1>2
    <3> QED
      BY <1>11, <3>1, <3>2, <3>3 DEF Indexed
  <2>2. ~IsNote(Head(inbox), c)
    BY DEF IsNote
  <2>3. Leads(c, more, Located(c), Located(c)')
    <3>1. CASE c \in gone
      BY <1>2, <1>3, <3>1 DEF Located
    <3>2. CASE c \notin gone
      <4>1. Located(c)' = Located(c)
        BY <1>2, <3>2 DEF Located
      <4> QED
        BY <1>3, <3>2, <4>1
    <3> QED
      BY <3>1, <3>2
  <2> QED
    BY <2>1, <2>2, <2>3, NoNote
<1> QED
  BY <1>2, <1>3, <1>6, <1>7, <1>8, <1>9, <1>10, <1>12, Kept

LEMMA ProcessKeeps ==
    ASSUME TypeOK, IInv, Process
    PROVE  IInv'
<1>0. PICK m : m = Head(inbox)
  OBVIOUS
<1>1. /\ inbox # <<>> /\ inbox' = Tail(inbox) /\ ~hung /\ UNCHANGED <<routing, listening>>
      /\ m \in Notice \union Request
  BY <1>0, Typed DEF Process
<1>2. CASE /\ m.to \intersect (objects \union {SS}) = {}
           /\ UNCHANGED <<objectVars, outbox, hung, historyVars>>
  BY <1>0, <1>1, <1>2, QuietKeeps DEF objectVars, historyVars
<1>3. CASE /\ m.type = "CHANGE_ZONE" /\ Reindex(m)
           /\ UNCHANGED <<objects, place, ai_channel, explicit, outbox, hung, historyVars>>
  BY <1>0, <1>1, <1>3, ReindexKeeps DEF historyVars
<1>4. CASE m.type = "GENERATE" /\ Generate(m) /\ UNCHANGED <<explicit, zone_objects, unanswered>>
  <2>1. m \in Request
    BY <1>1, <1>4, MessageTypes
  <2> QED
    BY <1>0, <1>1, <1>4, <2>1, GenerateKeeps
<1>5. CASE /\ m.type = "SET_ZONE" /\ \E o \in m.to \intersect objects : SetZone(o, m)
           /\ UNCHANGED <<objects, explicit, zone_objects, unanswered>>
  <2>1. m \in Request
    BY <1>1, <1>5, MessageTypes
  <2> QED
    BY <1>0, <1>1, <1>5, <2>1, SetZoneKeeps
<1>6. CASE /\ m.type = "DELETE_RAM" /\ \E o \in m.to \intersect objects : Annihilate(<<o>>)
           /\ UNCHANGED <<hung, unanswered>>
  <2>1. PICK o \in objects : Annihilate(<<o>>)
    BY <1>6
  <2>2. Once(<<o>>) /\ ToSet(<<o>>) \subseteq objects
    BY Single
  <2> QED
    BY <1>0, <1>1, <1>6, <2>1, <2>2, AnnihilateKeeps
<1>7. CASE m.type = "QUERY_ZONE" /\ UNCHANGED <<objectVars, outbox, hung, disturbed>>
  BY <1>0, <1>1, <1>7, QuietKeeps DEF objectVars
<1>8. CASE m.type = "ADD_AI" /\ UNCHANGED <<objects, place, zone_objects, outbox, hung, historyVars>>
  BY <1>0, <1>1, <1>8, QuietKeeps DEF historyVars
<1>9. CASE /\ m.type = "SHARD_REST"
           /\ \E order \in SetToSeqs({o \in objects : ai_channel[o] = m.ai}) : Annihilate(order)
           /\ UNCHANGED <<hung, unanswered>>
  <2>1. PICK order \in SetToSeqs({o \in objects : ai_channel[o] = m.ai}) : Annihilate(order)
    BY <1>9
  <2>2. Once(order) /\ ToSet(order) \subseteq objects
    BY Ordering
  <2> QED
    BY <1>0, <1>1, <1>9, <2>1, <2>2, AnnihilateKeeps
<1> QED
  BY <1>0, <1>2, <1>3, <1>4, <1>5, <1>6, <1>7, <1>8, <1>9 DEF Process

\* An object that listens since s meets its notice; what the master does with
\* a control message changes neither the objects nor where they are.
LEMMA ForwardKeeps ==
    ASSUME TypeOK, IInv, Forward
    PROVE  IInv'
<1>0. PICK m : m = Head(outbox)
  OBVIOUS
<1>1. /\ outbox # <<>> /\ outbox' = Tail(outbox) /\ inbox' = inbox
      /\ IF m.type = "CHANGE_ZONE"
           THEN routing' = Append(routing, m) /\ UNCHANGED listening
           ELSE /\ listening' = IF m.type = "SET_CHANNEL" THEN listening \union {m.channel}
                                                          ELSE listening \ {m.channel}
                /\ UNCHANGED routing
      /\ UNCHANGED <<objects, place, zone_objects, disturbed>>
  BY <1>0 DEF Forward, objectVars, historyVars
<1>2. inbox \in Seq(Mail) /\ routing \in Seq(Mail) /\ outbox \in Seq(Mail)
  BY Sequences
<1> DEFINE n == Len(outbox)
<1>3. /\ n \in Nat /\ n > 0 /\ m = outbox[1] /\ Len(outbox') = n - 1 /\ DOMAIN outbox' = 1..(n - 1)
      /\ DOMAIN outbox = 1..n
      /\ \A i \in 1..(n - 1) : outbox'[i] = outbox[i + 1] /\ i + 1 \in 1..n
  BY <1>0, <1>1, <1>2, TailOf
<1>4. m \in Notice \union Control /\ m \in Mail
  BY <1>0, <1>1, HeadTailProperties DEF TypeOK, Mail
<1>5. \/ /\ m.type = "CHANGE_ZONE" /\ routing' = Append(routing, m)
         /\ DOMAIN routing' = 1..(Len(routing) + 1) /\ Len(routing) \in Nat
         /\ \A i \in 1..Len(routing) : routing'[i] = routing[i]
         /\ routing'[Len(routing) + 1] = m
      \/ m.type # "CHANGE_ZONE" /\ routing' = routing
  BY <1>1, <1>2, <1>4, AppendProperties
<1> HIDE DEF n
<1>6. Addressed'
  <2>1. Proper(m) /\ \A i \in DOMAIN inbox' : Proper(inbox'[i])
    BY <1>1, <1>3 DEF IInv, Addressed
  <2>2. \A i \in DOMAIN outbox' : Proper(outbox'[i])
    BY <1>3 DEF IInv, Addressed
  <2>3. \A i \in DOMAIN routing' : Proper(routing'[i])
    <3>1. \A i \in 1..Len(routing) : Proper(routing[i])
      BY Sequences DEF IInv, Addressed
    <3>2. CASE m.type = "CHANGE_ZONE"
      <4> SUFFICES ASSUME NEW i \in DOMAIN routing' PROVE Proper(routing'[i])
        OBVIOUS
      <4>1. (i \in 1..Len(routing) /\ routing'[i] = routing[i]) \/ routing'[i] = m
        BY <1>5, <3>2
      <4> QED
        BY <2>1, <3>1, <4>1
    <3>3. CASE m.type # "CHANGE_ZONE"
      BY <1>5, <3>3 DEF IInv, Addressed
    <3> QED
      BY <3>2, <3>3
  <2> QED
    BY <1>1, <2>1, <2>2, <2>3 DEF Addressed, Proper
<1>7. ASSUME NEW t \in objects'
      PROVE  \E s \in 0..Len(outbox') : ListensSince(t, s)'
  <2>1. PICK s \in 0..n : ListensSince(t, s)
    BY <1>1 DEF IInv, Subscribed, n
  <2>2. \A j \in s + 1 .. n : outbox[j] # RemoveMsg(t)
    BY <2>1 DEF ListensSince, n
  <2>3. \A x : Awaits(x, t)' <=> x.type = "CHANGE_ZONE" /\ x.child \notin disturbed /\ t \in x.to
    BY <1>1 DEF Awaits
  <2>4. CASE s <= 1
    <3>1. t \in listening'
      <4>1. CASE s = 0
        <5>1. t \in listening
          BY <2>1, <4>1 DEF ListensSince
        <5>2. m # RemoveMsg(t)
          BY <1>3, <2>2, <4>1
        <5>3. m.type = "REMOVE_CHANNEL" => m = RemoveMsg(m.channel)
          BY <1>4 DEF Control, Notice, RemoveMsg
        <5>4. m.type \in {"CHANGE_ZONE", "SET_CHANNEL", "REMOVE_CHANNEL"}
          BY <1>4 DEF Control, Notice
        <5> QED
          BY <1>1, <5>1, <5>2, <5>3, <5>4
      <4>2. CASE s = 1
        <5>1. m = SetMsg(t)
          BY <1>3, <2>1, <4>2 DEF ListensSince
        <5>2. m.type = "SET_CHANNEL" /\ m.channel = t
          BY <5>1 DEF SetMsg
        <5> QED
          BY <1>1, <5>2
      <4> QED
        BY <2>1, <2>4, <4>1, <4>2
    <3>2. \A j \in 1..(n - 1) : outbox'[j] # RemoveMsg(t)
      BY <1>3, <2>1, <2>2, <2>4
    <3>3. ListensSince(t, 0)'
      BY <1>3, <3>1, <3>2 DEF ListensSince
    <3> QED
      BY <1>3, <3>3
  <2>5. CASE s > 1
    <3>0. PICK r : r = s - 1
      OBVIOUS
    <3>1. r \in 1..(n - 1) /\ r # 0 /\ r + 1 = s /\ outbox'[r] = SetMsg(t)
      BY <1>3, <2>1, <2>5, <3>0 DEF ListensSince
    <3>2. \A j \in r + 1 .. n - 1 : outbox'[j] # RemoveMsg(t)
      BY <1>3, <2>1, <2>2, <3>1
    <3>3. \A j \in 1..s : ~Awaits(outbox[j], t)
      BY <2>1 DEF ListensSince
    <3>4. \A j \in 1..r : ~Awaits(outbox[j], t)'
      <4> SUFFICES ASSUME NEW j \in 1..r PROVE ~Awaits(outbox[j], t)'
        OBVIOUS
      <4>1. outbox'[j] = outbox[j + 1] /\ j + 1 \in 1..s
        BY <1>3, <2>1, <3>1
      <4>2. ~Awaits(outbox[j + 1], t)
        BY <3>3, <4>1
      <4> QED
        BY <1>1, <4>1, <4>2 DEF Awaits
    <3>5. \A i \in DOMAIN routing' : ~Awaits(routing[i], t)'
      <4>1. \A i \in 1..Len(routing) : ~Awaits(routing[i], t)
        BY <2>1, <2>5, Sequences DEF ListensSince
      <4>2. ~Awaits(m, t)
        BY <1>3, <2>1, <2>5, <3>3
      <4>3. \A i \in DOMAIN routing' : ~Awaits(routing'[i], t)
        <5>1. CASE m.type = "CHANGE_ZONE"
          <6> SUFFICES ASSUME NEW i \in DOMAIN routing' PROVE ~Awaits(routing'[i], t)
            OBVIOUS
          <6>1. (i \in 1..Len(routing) /\ routing'[i] = routing[i]) \/ routing'[i] = m
            BY <1>5, <5>1
          <6> QED
            BY <4>1, <4>2, <6>1
        <5>2. CASE m.type # "CHANGE_ZONE"
          BY <1>5, <4>1, <5>2, Sequences
        <5> QED
          BY <5>1, <5>2
      <4> QED
        BY <1>1, <4>3 DEF Awaits
    <3>6. ListensSince(t, r)'
      BY <1>3, <3>1, <3>2, <3>4, <3>5 DEF ListensSince
    <3> QED
      BY <1>3, <3>1, <3>6
  <2> QED
    BY <2>1, <2>4, <2>5
<1>8. HasParent'
  BY <1>1 DEF IInv, HasParent
<1>9. ASSUME NEW c \in DoId \ disturbed'
      PROVE  Chained(c)'
  <2>1. PICK y, z : /\ Leads(c, inbox, Indexed(c), y)
                    /\ Leads(c, routing, y, z)
                    /\ Leads(c, outbox, z, Located(c))
    BY <1>1 DEF IInv, Chained
  <2>2. Leads(c, outbox, z, Located(c)) /\ outbox \in Seq(Mail) /\ outbox # <<>>
    BY <1>1, <1>2, <2>1
  <2>3. PICK x : Step(c, Head(outbox), z, x) /\ Leads(c, Tail(outbox), x, Located(c))
    BY <2>2, LeadsTail
  <2>4. Leads(c, routing', y, x)
    <3>1. CASE m.type = "CHANGE_ZONE"
      BY <1>0, <1>2, <1>4, <1>5, <2>1, <2>3, <3>1, LeadsAppend
    <3>2. CASE m.type # "CHANGE_ZONE"
      BY <1>0, <1>5, <2>1, <2>3, <3>2 DEF Step, IsNote
    <3> QED
      BY <3>1, <3>2
  <2>5. Indexed(c)' = Indexed(c) /\ Located(c)' = Located(c)
    BY <1>1 DEF Indexed, Located
  <2>6. /\ Leads(c, inbox', Indexed(c)', y)
        /\ Leads(c, routing', y, x)
        /\ Leads(c, outbox', x, Located(c)')
    BY <1>1, <2>1, <2>3, <2>4, <2>5
  <2> QED
    BY <2>6 DEF Chained
<1>10. Subscribed'
  BY <1>7 DEF Subscribed
<1> QED
  BY <1>6, <1>8, <1>9, <1>10 DEF IInv

\* Whether the state server hears a datagram, or it had nobody to tell.
LEMMA RouteKeeps ==
    ASSUME TypeOK, IInv, Route
    PROVE  IInv'
<1>0. PICK m : m = Head(routing)
  OBVIOUS
<1>1. /\ routing # <<>> /\ routing' = Tail(routing) /\ outbox' = outbox /\ listening' = listening
      /\ inbox' = IF m.to \intersect listening # {} THEN Append(inbox, m) ELSE inbox
      /\ UNCHANGED <<objects, place, zone_objects, disturbed>>
  BY <1>0 DEF Route, objectVars, historyVars
<1>2. inbox \in Seq(Mail) /\ routing \in Seq(Mail) /\ outbox \in Seq(Mail)
  BY Sequences
<1>3. /\ m = routing[1] /\ 1 \in DOMAIN routing /\ m \in Mail
      /\ \A i \in DOMAIN routing' : routing'[i] = routing[i + 1] /\ i + 1 \in DOMAIN routing
  <2>1. m = routing[1] /\ 1 \in DOMAIN routing
        /\ \A i \in DOMAIN routing' : routing'[i] = routing[i + 1] /\ i + 1 \in DOMAIN routing
    BY <1>0, <1>1, <1>2, TailOf
  <2> QED
    BY <2>1, Sequences
<1>4. \A i \in DOMAIN inbox' : (i \in DOMAIN inbox /\ inbox'[i] = inbox[i]) \/ inbox'[i] = m
  <2>1. CASE inbox' = Append(inbox, m)
    BY <1>2, <1>3, <2>1, AppendProperties
  <2>2. CASE inbox' = inbox
    BY <2>2
  <2> QED
    BY <1>1, <2>1, <2>2
<1>5. Proper(m)
  BY <1>3 DEF IInv, Addressed
<1>6. Addressed'
  <2>1. /\ \A i \in DOMAIN inbox' : Proper(inbox'[i])
        /\ \A i \in DOMAIN routing' : Proper(routing'[i])
        /\ \A i \in DOMAIN outbox' : Proper(outbox'[i])
    BY <1>1, <1>3, <1>4, <1>5 DEF IInv, Addressed
  <2> QED
    BY <1>1, <2>1 DEF Addressed, Proper
<1>7. ASSUME NEW t \in objects'
      PROVE  \E s \in 0..Len(outbox') : ListensSince(t, s)'
  <2>1. PICK s \in 0..Len(outbox) : ListensSince(t, s)
    BY <1>1 DEF IInv, Subscribed
  <2>2. s > 0 => \A i \in DOMAIN routing' : ~Awaits(routing'[i], t)
    BY <1>3, <2>1 DEF ListensSince
  <2>3. s > 0 => \A i \in DOMAIN routing' : ~Awaits(routing[i], t)'
    BY <1>1, <2>2 DEF Awaits
  <2>4. \A j \in 1..s : ~Awaits(outbox[j], t)'
    BY <1>1, <2>1 DEF ListensSince, Awaits
  <2>5. ListensSince(t, s)'
    BY <1>1, <2>1, <2>3, <2>4 DEF ListensSince
  <2> QED
    BY <1>1, <2>5
<1>8. HasParent'
  BY <1>1 DEF IInv, HasParent
<1>9. ASSUME NEW c \in DoId \ disturbed', m.to \intersect listening = {}, NEW x, NEW y, Step(c, m, x, y)
      PROVE  x = y
  <2>1. CASE IsNote(m, c)
    <3>1. c \notin disturbed /\ m.to \subseteq objects
      BY <1>1, <1>5, <2>1 DEF Proper, IsNote
    <3>2. ASSUME NEW t \in m.to PROVE FALSE
      <4>1. PICK s \in 0..Len(outbox) : ListensSince(t, s)
        BY <3>1, <3>2 DEF IInv, Subscribed
      <4>2. Awaits(m, t)
        BY <2>1, <3>1, <3>2 DEF Awaits, IsNote
      <4>3. s = 0
        BY <1>3, <4>1, <4>2, Sequences DEF ListensSince
      <4> QED
        BY <1>9, <3>2, <4>1, <4>3 DEF ListensSince
    <3> QED
      BY <1>5, <1>9, <3>1, <3>2, NobodyTold
  <2>2. CASE ~IsNote(m, c)
    BY <1>9, <2>2, NoNote
  <2> QED
    BY <2>1, <2>2
<1>10. ASSUME NEW c \in DoId \ disturbed'
       PROVE  Chained(c)'
  <2>1. PICK y, z : /\ Leads(c, inbox, Indexed(c), y)
                    /\ Leads(c, routing, y, z)
                    /\ Leads(c, outbox, z, Located(c))
    BY <1>1 DEF IInv, Chained
  <2>2. Leads(c, routing, y, z) /\ routing \in Seq(Mail) /\ routing # <<>>
    BY <1>1, <1>2, <2>1
  <2>3. PICK x : Step(c, Head(routing), y, x) /\ Leads(c, Tail(routing), x, z)
    BY <2>2, LeadsTail
  <2>4. Leads(c, inbox', Indexed(c), x)
    <3>1. CASE m.to \intersect listening # {}
      BY <1>0, <1>1, <1>2, <1>3, <2>1, <2>3, <3>1, LeadsAppend
    <3>2. CASE m.to \intersect listening = {}
      BY <1>0, <1>1, <1>9, <2>1, <2>3, <3>2
    <3> QED
      BY <3>1, <3>2
  <2>5. Indexed(c)' = Indexed(c) /\ Located(c)' = Located(c)
    BY <1>1 DEF Indexed, Located
  <2>6. /\ Leads(c, inbox', Indexed(c)', x)
        /\ Leads(c, routing', x, z)
        /\ Leads(c, outbox', z, Located(c)')
    BY <1>1, <2>1, <2>3, <2>4, <2>5
  <2> QED
    BY <2>6 DEF Chained
<1>11. Subscribed'
  BY <1>7 DEF Subscribed
<1> QED
  BY <1>6, <1>8, <1>10, <1>11 DEF IInv

LEMMA SendKeeps ==
    ASSUME TypeOK, IInv, NEW m \in Requests, Send(m)
    PROVE  IInv'
<1>1. /\ routing' = Append(routing, m) /\ inbox' = inbox /\ outbox' = outbox /\ listening' = listening
      /\ UNCHANGED <<objects, place, zone_objects, disturbed>>
  BY DEF Send, objectVars, historyVars
<1>2. inbox \in Seq(Mail) /\ routing \in Seq(Mail) /\ outbox \in Seq(Mail)
  BY Sequences
<1>3. m \in Mail /\ m.type # "CHANGE_ZONE"
  BY Bounds, MessageTypes DEF Mail
<1>4. \A i \in DOMAIN routing' : (i \in DOMAIN routing /\ routing'[i] = routing[i]) \/ routing'[i] = m
  BY <1>1, <1>2, <1>3, AppendProperties
<1>5. Addressed'
  <2>1. \A i \in DOMAIN routing' : Proper(routing'[i])
    BY <1>3, <1>4 DEF IInv, Addressed, Proper
  <2> QED
    BY <1>1, <2>1 DEF IInv, Addressed, Proper
<1>6. ASSUME NEW t \in objects'
      PROVE  \E s \in 0..Len(outbox') : ListensSince(t, s)'
  <2>1. PICK s \in 0..Len(outbox) : ListensSince(t, s)
    BY <1>1 DEF IInv, Subscribed
  <2>2. ~Awaits(m, t)
    BY <1>3 DEF Awaits
  <2>3. s > 0 => \A i \in DOMAIN routing' : ~Awaits(routing'[i], t)
    BY <1>4, <2>1, <2>2 DEF ListensSince
  <2>4. s > 0 => \A i \in DOMAIN routing' : ~Awaits(routing[i], t)'
    BY <1>1, <2>3 DEF Awaits
  <2>5. \A j \in 1..s : ~Awaits(outbox[j], t)'
    BY <1>1, <2>1 DEF ListensSince, Awaits
  <2>6. ListensSince(t, s)'
    BY <1>1, <2>1, <2>4, <2>5 DEF ListensSince
  <2> QED
    BY <1>1, <2>6
<1>7. HasParent'
  BY <1>1 DEF IInv, HasParent
<1>8. ASSUME NEW c \in DoId \ disturbed'
      PROVE  Chained(c)'
  <2>1. PICK y, z : /\ Leads(c, inbox, Indexed(c), y)
                    /\ Leads(c, routing, y, z)
                    /\ Leads(c, outbox, z, Located(c))
    BY <1>1 DEF IInv, Chained
  <2>2. Step(c, m, z, z)
    BY <1>3 DEF Step, IsNote
  <2>3. Leads(c, routing', y, z)
    BY <1>1, <1>2, <1>3, <2>1, <2>2, LeadsAppend
  <2>4. Indexed(c)' = Indexed(c) /\ Located(c)' = Located(c)
    BY <1>1 DEF Indexed, Located
  <2>5. /\ Leads(c, inbox', Indexed(c)', y)
        /\ Leads(c, routing', y, z)
        /\ Leads(c, outbox', z, Located(c)')
    BY <1>1, <2>1, <2>3, <2>4
  <2> QED
    BY <2>5 DEF Chained
<1>9. Subscribed'
  BY <1>6 DEF Subscribed
<1> QED
  BY <1>5, <1>7, <1>8, <1>9 DEF IInv

LEMMA InitKeeps == Init => IInv
<1> SUFFICES ASSUME Init PROVE IInv
  OBVIOUS
<1> DEFINE greet == ChangeZone({}, root, place[root], Unplaced)
<1>1. /\ objects = {root} /\ disturbed = {} /\ inbox = <<>> /\ routing = <<>>
      /\ outbox = <<SetMsg(SS), greet, SetMsg(root)>>
      /\ root \in DoId /\ place[root].parent = NoParent
  BY Bounds DEF Init
<1>2. /\ greet.type = "CHANGE_ZONE" /\ greet.to = {} /\ greet.child = root
      /\ greet.new = place[root] /\ greet.old = Unplaced
  BY DEF ChangeZone
<1>3. \A t : SetMsg(t).type = "SET_CHANNEL" /\ RemoveMsg(t).type = "REMOVE_CHANNEL"
  BY DEF SetMsg, RemoveMsg
<1> HIDE DEF greet
<1>4. /\ Len(outbox) = 3 /\ DOMAIN outbox = 1..3
      /\ outbox[1] = SetMsg(SS) /\ outbox[2] = greet /\ outbox[3] = SetMsg(root)
  BY <1>1
<1>5. Addressed
  <2>1. Told(Unplaced, place[root]) = {} /\ Told(place[root], Unplaced) = {}
    BY <1>1 DEF Told, Unplaced
  <2>2. Proper(SetMsg(SS)) /\ Proper(SetMsg(root)) /\ Proper(greet)
    BY <1>2, <1>3, <2>1 DEF Proper
  <2>3. \A i \in DOMAIN outbox : i = 1 \/ i = 2 \/ i = 3
    BY <1>4
  <2>4. \A i \in DOMAIN outbox : Proper(outbox[i])
    BY <1>4, <2>2, <2>3
  <2>5. DOMAIN inbox = {} /\ DOMAIN routing = {}
    BY <1>1
  <2> QED
    BY <2>4, <2>5 DEF Addressed
<1>6. Subscribed
  <2>1. \A j \in 1..3 : ~Awaits(outbox[j], root)
    <3>1. \A j \in 1..3 : j = 1 \/ j = 2 \/ j = 3
      OBVIOUS
    <3> QED
      BY <1>2, <1>3, <1>4, <3>1 DEF Awaits
  <2>2. ListensSince(root, 3)
    BY <1>1, <1>4, <2>1 DEF ListensSince
  <2> QED
    BY <1>1, <1>4, <2>2 DEF Subscribed
<1>7. HasParent
  BY <1>1 DEF HasParent
<1>8. ASSUME NEW c \in DoId
      PROVE  Chained(c)
  <2>1. Indexed(c) = {} /\ Located(c) = {}
    BY <1>1 DEF Indexed, Located, Under, Init
  <2>2. Leads(c, outbox, {}, {})
    <3> DEFINE at == [i \in 0..3 |-> {}]
    <3>1. at[0] = {} /\ at[3] = {} /\ \A i \in 1..3 : at[i - 1] = {} /\ at[i] = {}
      OBVIOUS
    <3> HIDE DEF at
    <3>2. ASSUME NEW i \in 1..3 PROVE Step(c, outbox[i], {}, {})
      <4>1. Under(greet.old) = {} /\ Under(greet.new) = {}
        BY <1>1, <1>2 DEF Under, Unplaced
      <4>2. i = 1 \/ i = 2 \/ i = 3
        OBVIOUS
      <4> QED
        BY <1>3, <1>4, <4>1, <4>2 DEF Step, IsNote
    <3>3. \A i \in 1..3 : Step(c, outbox[i], at[i - 1], at[i])
      BY <3>1, <3>2
    <3> QED
      BY <1>4, <3>1, <3>3 DEF Leads
  <2> QED
    BY <1>1, <2>1, <2>2, LeadsEmpty DEF Chained
<1> QED
  BY <1>5, <1>6, <1>7, <1>8 DEF IInv

LEMMA Unmoved ==
    ASSUME IInv, UNCHANGED vars
    PROVE  IInv'
<1>1. UNCHANGED <<objects, place, zone_objects, disturbed, inbox, routing, outbox, listening>>
  BY DEF vars
<1>2. Addressed' /\ HasParent'
  BY <1>1 DEF IInv, Addressed, Proper, HasParent
<1>3. Subscribed'
  <2> SUFFICES ASSUME NEW t \in objects' PROVE \E s \in 0..Len(outbox') : ListensSince(t, s)'
    BY DEF Subscribed
  <2>1. PICK s \in 0..Len(outbox) : ListensSince(t, s)
    BY <1>1 DEF IInv, Subscribed
  <2>2. ListensSince(t, s)'
    BY <1>1, <2>1 DEF ListensSince, Awaits
  <2> QED
    BY <1>1, <2>2
<1>4. ASSUME NEW c \in DoId \ disturbed' PROVE Chained(c)'
  <2>1. Indexed(c)' = Indexed(c) /\ Located(c)' = Located(c)
    BY <1>1 DEF Indexed, Located
  <2> QED
    BY <1>1, <2>1 DEF IInv, Chained
<1> QED
  BY <1>2, <1>3, <1>4 DEF IInv

\* The inductive invariant: who is told of a move exists, who exists listens,
\* and notices lead from where parents have a child to where it is.
THEOREM Invariance == Spec => []IInv
<1>1. TypeOK /\ IInv /\ [Next]_vars => IInv'
  BY ProcessKeeps, ForwardKeeps, RouteKeeps, SendKeeps, Unmoved DEF Next
<1> QED
  BY <1>1, InitKeeps, TypeCorrect, PTL DEF Spec

\* Where the notices lead is told position by position.
LEMMA ChainTold ==
    ASSUME TypeOK, NEW c \in DoId, Chained(c)
    PROVE  /\ \A i \in Notices(c) : Under(Way[i].old) = Led(c, i - 1)
           /\ Led(c, Len(Way)) = Located(c)
<1> DEFINE N == Len(Way)
<1>1. inbox \in Seq(Mail) /\ routing \in Seq(Mail) /\ outbox \in Seq(Mail)
  BY Sequences
<1>2. Leads(c, Way, Indexed(c), Located(c))
  <2>1. PICK y, z : /\ Leads(c, inbox, Indexed(c), y)
                    /\ Leads(c, routing, y, z)
                    /\ Leads(c, outbox, z, Located(c))
    BY DEF Chained
  <2>2. PICK u : u = inbox \o routing
    OBVIOUS
  <2>3. u \in Seq(Mail) /\ Leads(c, u, Indexed(c), z)
    BY <1>1, <2>1, <2>2, LeadsConcat, ConcatProperties
  <2>4. Leads(c, u \o outbox, Indexed(c), Located(c))
    BY <1>1, <2>1, <2>3, LeadsConcat
  <2> QED
    BY <2>2, <2>4 DEF Way
<1>3. N \in Nat /\ DOMAIN Way = 1..N
  BY WayIs
<1>4. PICK at : /\ at[0] = Indexed(c) /\ at[N] = Located(c)
                /\ \A i \in 1..N : Step(c, Way[i], at[i - 1], at[i])
  BY <1>2 DEF Leads
<1>5. \A i : i \in Notices(c) <=> i \in 1..N /\ IsNote(Way[i], c)
  BY <1>3 DEF Notices, IsNote
<1> HIDE DEF N
<1> DEFINE past(n) == {i \in Notices(c) : i <= n}
<1>6. Led(c, 0) = at[0]
  <2>1. past(0) = {}
    BY <1>3, <1>5
  <2> QED
    BY <1>4, <2>1 DEF Led
<1>7. ASSUME NEW n \in 1..N, at[n - 1] = Led(c, n - 1)
      PROVE  at[n] = Led(c, n)
  <2>1. Step(c, Way[n], at[n - 1], at[n])
    BY <1>4
  <2>2. CASE IsNote(Way[n], c)
    <3>1. n \in past(n) /\ \A i \in past(n) : i \in Int /\ n >= i
      BY <1>3, <1>5, <2>2
    <3> HIDE DEF past
    <3>2. Max(past(n)) = n
      <4>1. \A k \in past(n) : (\A i \in past(n) : k >= i) => k = n
        BY <3>1
      <4> QED
        BY <3>1, <4>1 DEF Max
    <3>3. Led(c, n) = Under(Way[n].new)
      BY <3>1, <3>2 DEF Led, past
    <3> QED
      BY <2>1, <2>2, <3>3 DEF Step
  <2>3. CASE ~IsNote(Way[n], c)
    <3>1. past(n) = past(n - 1)
      BY <1>3, <1>5, <2>3
    <3>2. Led(c, n) = Led(c, n - 1)
      BY <3>1 DEF Led
    <3> QED
      BY <1>7, <2>1, <2>3, <3>2 DEF Step
  <2> QED
    BY <2>2, <2>3
<1> HIDE DEF past
<1>8. ASSUME NEW n \in 0..N PROVE at[n] = Led(c, n)
  <2> DEFINE Bad == {k \in 0..N : at[k] # Led(c, k)}
  <2>1. Bad \in SUBSET Nat
    BY <1>3
  <2>2. ASSUME Bad # {} PROVE FALSE
    <3>1. PICK k \in Bad : \A j \in Bad : k <= j
      <4> HIDE DEF Bad
      <4> QED
        BY <2>1, <2>2, Least
    <3>2. k \in 0..N /\ at[k] # Led(c, k)
      BY <3>1
    <3>3. k # 0
      BY <1>6, <3>2
    <3>4. k \in 1..N /\ k - 1 \in 0..N /\ ~(k <= k - 1)
      BY <1>3, <3>2, <3>3
    <3>5. at[k - 1] = Led(c, k - 1)
      BY <3>1, <3>4
    <3> QED
      BY <1>7, <3>2, <3>4, <3>5
  <2> QED
    BY <2>2
<1>9. ASSUME NEW i \in Notices(c) PROVE Under(Way[i].old) = Led(c, i - 1)
  <2>1. i \in 1..N /\ IsNote(Way[i], c) /\ i - 1 \in 0..N
    BY <1>3, <1>5
  <2>2. at[i - 1] = Under(Way[i].old)
    BY <1>4, <2>1 DEF Step
  <2> QED
    BY <1>8, <2>1, <2>2
<1>10. Led(c, N) = Located(c)
  BY <1>3, <1>4, <1>8
<1> QED
  BY <1>9, <1>10 DEF N

\* The notices of a child on their way lead, without a gap, from where its
\* parents have it to where it is, for every child no notice of which was lost
\* for lack of a parent (handle_location_change, annihilate, handle_datagram).
THEOREM ChainKept == Spec => []NoticeChain
<1>1. TypeOK /\ IInv => NoticeChain
  BY ChainTold DEF IInv, NoticeChain
<1> QED
  BY <1>1, TypeCorrect, Invariance, PTL

\* A zone query goes unanswered only while a notice that takes a deleted child
\* from its parent is on its way, or because of a child that is cut off from its
\* parent for good (handle_query_zone, annihilate).
THEOREM QueriesFailInWindow == Spec => QueryFailsOnlyInWindow
<1> DEFINE Window == unanswered' # unanswered =>
                        \E c \in DoId \ objects :
                           \/ c \in disturbed
                           \/ \E m \in InFlight(c) : Under(m.new) = {}
<1>1. TypeOK /\ IInv /\ [Next]_vars => [Window]_vars
  <2> SUFFICES ASSUME TypeOK, IInv, Next, unanswered' # unanswered
               PROVE  \E c \in DoId \ objects :
                         \/ c \in disturbed
                         \/ \E m \in InFlight(c) : Under(m.new) = {}
    OBVIOUS
  <2>1. Process
    BY DEF Next, Forward, Route, Send, historyVars
  <2>2. \E o \in objects : QueryZone(o, Head(inbox))
    BY <2>1 DEF Process, historyVars
  <2>3. PICK o \in objects : QueryZone(o, Head(inbox))
    BY <2>2
  <2>4. PICK e \in zone_objects[o] : e[2] \notin objects
    BY <2>3 DEF QueryZone, Listed
  <2> DEFINE c == e[2]
             l == [parent |-> o, zone |-> e[1]]
  <2>5. o \in DoId /\ c \in DoId \ objects /\ e[1] \in Zone \union {0} /\ e = <<e[1], c>>
    BY <2>4 DEF TypeOK
  <2>6. CASE c \in disturbed
    BY <2>5, <2>6
  <2>7. CASE c \notin disturbed
    <3>1. Indexed(c) # {}
      <4>1. l \in Place
        BY <2>5 DEF Place
      <4>2. l.parent \in objects /\ <<l.zone, c>> \in zone_objects[l.parent]
        BY <2>5
      <4> QED
        BY <4>1, <4>2 DEF Indexed
    <3>2. Located(c) = {}
      BY <2>5 DEF Located
    <3> HIDE DEF c
    <3>3. PICK y, z : /\ Leads(c, inbox, Indexed(c), y)
                      /\ Leads(c, routing, y, z)
                      /\ Leads(c, outbox, z, {})
      BY <2>5, <2>7, <3>2 DEF IInv, Chained
    <3>4. inbox \in Seq(Mail) /\ routing \in Seq(Mail) /\ outbox \in Seq(Mail)
      BY Sequences
    <3>5. \E m \in InFlight(c) : Under(m.new) = {}
      <4>1. CASE z # {}
        <5>1. \E i \in 1..Len(outbox) : IsNote(outbox[i], c) /\ Under(outbox[i].new) = {}
          BY <3>3, <3>4, <4>1, LeadsTo
        <5> QED
          BY <5>1, Flying
      <4>2. CASE z = {} /\ y # {}
        <5>1. Leads(c, routing, y, {}) /\ y # {}
          BY <3>3, <4>2
        <5>2. \E i \in 1..Len(routing) : IsNote(routing[i], c) /\ Under(routing[i].new) = {}
          BY <3>4, <5>1, LeadsTo
        <5> QED
          BY <5>2, Flying
      <4>3. CASE y = {}
        <5>1. Leads(c, inbox, Indexed(c), {})
          BY <3>3, <4>3
        <5>2. \E i \in 1..Len(inbox) : IsNote(inbox[i], c) /\ Under(inbox[i].new) = {}
          BY <3>1, <3>4, <5>1, LeadsTo
        <5> QED
          BY <5>2, Flying
      <4> QED
        BY <4>1, <4>2, <4>3
    <3> QED
      BY <2>5, <3>5
  <2> QED
    BY <2>6, <2>7
<1> QED
  BY <1>1, TypeCorrect, Invariance, PTL DEF Spec, QueryFailsOnlyInWindow
=============================================================================
