------------------------- MODULE ClientInterest_proofs -------------------------
(* Proofs about ClientInterest, for all objects, locations, handles and      *)
(* numbers of interests and changes.                                         *)
EXTENDS ClientInterest, FiniteSetTheorems, FunctionTheorems, SequenceTheorems,
        WellFoundedInduction, NaturalsInduction, TLAPS

-----------------------------------------------------------------------------
(* The operators *)

\* What the interests may be, and what the client may have of an object.
Interests == [Handle -> Interest \union {None}]
State     == [copy : Copy \union {Unseen}, pending : Seq(News)]

LEMMA Bounds == MaxRequests \in Nat /\ MaxEvents \in Nat /\ None \notin Interest /\ Unseen \notin Copy
                  /\ Nowhere \notin Location /\ Self \notin Location
BY InterestAssumption

LEMMA LocationsFinite == IsFiniteSet(Location)
<1> DEFINE f == [e \in Parent \X Zone |-> [parent |-> e[1], zone |-> e[2]]]
<1>1. f \in [Parent \X Zone -> Location]
  BY DEF Location
<1>2. ASSUME NEW l \in Location
      PROVE  \E e \in Parent \X Zone : f[e] = l
  <2>1. <<l.parent, l.zone>> \in Parent \X Zone /\ f[<<l.parent, l.zone>>] = l
    BY DEF Location
  <2> QED
    BY <2>1
<1>3. f \in Surjection(Parent \X Zone, Location)
  BY <1>1, <1>2, Fun_IsSurj
<1>4. IsFiniteSet(Parent \X Zone)
  BY InterestAssumption, FS_Product
<1> QED
  BY <1>3, <1>4, FS_Surjection

\* An ordering of a finite set is a sequence of its elements.
LEMMA Ordering ==
    ASSUME NEW S, NEW T, IsFiniteSet(T), S \subseteq T, NEW order \in SetToSeqs(S)
    PROVE  order \in Seq(S) /\ Len(order) \in Nat /\ DOMAIN order = 1..Len(order)
<1>1. IsFiniteSet(S) /\ Cardinality(S) \in Nat
  BY FS_Subset, FS_CardinalityType
<1>2. order \in [1..Cardinality(S) -> S]
  BY DEF SetToSeqs
<1>3. order \in Seq(S)
  BY <1>1, <1>2
<1> QED
  BY <1>3

\* A set of naturals that is not empty has a least element.
LEMMA Least ==
    ASSUME NEW T \in SUBSET Nat, T # {}
    PROVE  \E k \in T : \A j \in T : k <= j
<1>1. PICK k \in T : \A j \in T : ~(<<j, k>> \in OpToRel(<, Nat))
  BY NatLessThanWellFounded, WFMin
<1>2. \A j \in T : ~(j < k)
  BY <1>1 DEF OpToRel
<1> QED
  BY <1>2

\* A location has one parent and one zone.
LEMMA ZonesOf ==
    ASSUME NEW p, NEW q, NEW zs, NEW ys, NEW l \in Zones(p, zs), l \in Zones(q, ys)
    PROVE  p = q /\ \E z \in zs : z \in ys
<1>1. PICK z \in zs : l = [parent |-> p, zone |-> z]
  BY DEF Zones
<1>2. PICK y \in ys : l = [parent |-> q, zone |-> y]
  BY DEF Zones
<1>3. z = l.zone /\ y = l.zone /\ p = l.parent /\ q = l.parent
  BY <1>1, <1>2
<1> QED
  BY <1>3

LEMMA ZonesType ==
    ASSUME NEW p \in Parent, NEW zs \in SUBSET Zone
    PROVE  Zones(p, zs) \subseteq Location
BY DEF Zones, Location

LEMMA InterestFields ==
    ASSUME NEW i \in Interest
    PROVE  /\ i.parent \in Parent /\ i.zones \in SUBSET Zone /\ i.context \in Context
           /\ i.done \in BOOLEAN /\ i.pending_objects \in SUBSET Object /\ i # None
BY Bounds DEF Interest

LEMMA LocationsType ==
    ASSUME NEW i \in Interest \union {None}
    PROVE  Locations(i) \subseteq Location
BY InterestFields, ZonesType DEF Locations

\* Covered(ints) is the least set that contains the locations of each interest.
LEMMA CoveredBy ==
    ASSUME NEW ints, NEW C, \A h \in Handle : Locations(ints[h]) \subseteq C
    PROVE  Covered(ints) \subseteq C
BY DEF Covered

\* Covered contains the locations of each interest.
LEMMA Covers ==
    ASSUME NEW ints, NEW h \in Handle
    PROVE  Locations(ints[h]) \subseteq Covered(ints)
BY DEF Covered

LEMMA CoveredType ==
    ASSUME NEW ints \in Interests
    PROVE  Covered(ints) \subseteq Location
<1>1. \A h \in Handle : Locations(ints[h]) \subseteq Location
  BY LocationsType DEF Interests
<1> QED
  BY <1>1, CoveredBy

\* An interest with other pending objects covers the same and waits for the
\* same answer.
Alike(i, j) == /\ j.parent = i.parent /\ j.zones = i.zones /\ j.context = i.context

LEMMA Pended ==
    ASSUME NEW i \in Interest, NEW objs \in SUBSET Object
    PROVE  LET j == [i EXCEPT !.pending_objects = objs]
           IN  /\ j \in Interest /\ Alike(i, j) /\ j.done = i.done
               /\ j.pending_objects = objs
BY DEF Interest, Alike

LEMMA Closed ==
    ASSUME NEW i \in Interest
    PROVE  LET j == [i EXCEPT !.done = TRUE, !.pending_objects = {}]
           IN  j \in Interest /\ Alike(i, j) /\ j.done /\ j.pending_objects = {}
BY DEF Interest, Alike

\* Queueing an object for the interests in a location changes no more than
\* the pending objects of those that are open.
LEMMA Enlisted ==
    ASSUME NEW ints \in Interests, NEW o \in Object, NEW l
    PROVE  LET new == Enlist(ints, o, l)
           IN  /\ new \in Interests
               /\ \A h \in Handle :
                     /\ ints[h] = None => new[h] = None
                     /\ ints[h] # None =>
                          /\ new[h] # None /\ Alike(ints[h], new[h]) /\ new[h].done = ints[h].done
                          /\ new[h].pending_objects = IF h \in OpenAt(ints, l)
                               THEN ints[h].pending_objects \union {o} ELSE ints[h].pending_objects
<1> DEFINE new == Enlist(ints, o, l)
<1>1. ASSUME NEW h \in Handle
      PROVE  /\ new[h] \in Interest \union {None}
             /\ ints[h] = None => new[h] = None
             /\ ints[h] # None =>
                  /\ new[h] # None /\ Alike(ints[h], new[h]) /\ new[h].done = ints[h].done
                  /\ new[h].pending_objects = IF h \in OpenAt(ints, l)
                       THEN ints[h].pending_objects \union {o} ELSE ints[h].pending_objects
  <2>1. CASE h \in OpenAt(ints, l)
    <3>1. ints[h] \in Interest /\ ints[h] # None
      BY <2>1 DEF OpenAt, Locations, Interests
    <3>2. new[h] = [ints[h] EXCEPT !.pending_objects = ints[h].pending_objects \union {o}]
      BY <2>1 DEF Enlist
    <3>3. ints[h].pending_objects \union {o} \in SUBSET Object
      BY <3>1, InterestFields
    <3> HIDE DEF new
    <3> QED
      BY <2>1, <3>1, <3>2, <3>3, Pended, Bounds
  <2>2. CASE h \notin OpenAt(ints, l)
    <3>1. new[h] = ints[h] /\ ints[h] \in Interest \union {None}
      BY <2>2 DEF Enlist, Interests
    <3> QED
      BY <2>2, <3>1 DEF Alike
  <2> QED
    BY <2>1, <2>2
<1>2. new = [h \in Handle |-> new[h]]
  BY DEF Enlist
<1> HIDE DEF new
<1>3. new \in Interests
  BY <1>1, <1>2 DEF Interests
<1> QED
  BY <1>1, <1>3 DEF new

-----------------------------------------------------------------------------
(* What the client does with the datagrams about an object *)

\* The kinds of news.
LEMMA NewsFields ==
    ASSUME NEW m \in News
    PROVE  /\ m.obj \in Object
           /\ m.type \in {"ENTERZONE", "CHANGE_ZONE", "UPDATE_FIELD", "DELETE_RAM"}
           /\ m.type = "ENTERZONE" => m.at \in Location /\ m.val \in Value
           /\ m.type = "CHANGE_ZONE" => m \in Moves /\ m.new \in Location \union {Nowhere}
                                          /\ m.old \in Location \union {Nowhere}
           /\ m.type = "UPDATE_FIELD" => m.val \in Value
BY DEF News, Moves

\* If anything is pending, the first is an entry that an open interest is
\* waiting for.
Grounded(ints, st) ==
    st.pending # <<>> => st.pending[1].type = "ENTERZONE" /\ OpenAt(ints, st.pending[1].at) # {}

LEMMA Queueing ==
    ASSUME NEW st \in State, NEW m \in News
    PROVE  /\ QueuePending(st, m) \in State
           /\ QueuePending(st, m).copy = st.copy
           /\ QueuePending(st, m).pending = <<>> <=> st.pending = <<>>
           /\ st.pending # <<>> => QueuePending(st, m).pending[1] = st.pending[1]
<1>1. CASE st.pending = <<>>
  BY <1>1 DEF QueuePending
<1>2. CASE st.pending # <<>>
  <2> DEFINE now == Append(st.pending, m)
  <2>1. st.pending \in Seq(News) /\ st.copy \in Copy \union {Unseen}
    BY DEF State
  <2>2. now \in Seq(News) /\ now # <<>> /\ now[1] = st.pending[1]
    BY <1>2, <2>1, AppendProperties, EmptySeq
  <2>3. QueuePending(st, m) = [st EXCEPT !.pending = now]
    BY <1>2 DEF QueuePending
  <2> HIDE DEF now
  <2>4. /\ QueuePending(st, m) = [copy |-> st.copy, pending |-> now]
    BY <2>3 DEF State
  <2> QED
    BY <1>2, <2>1, <2>2, <2>4 DEF State
<1> QED
  BY <1>1, <1>2

LEMMA Copying ==
    ASSUME NEW st \in State, NEW c \in Copy \union {Unseen}
    PROVE  LET new == [st EXCEPT !.copy = c]
           IN  new \in State /\ new.copy = c /\ new.pending = st.pending
BY DEF State

\* A datagram puts an object into the queue only as an entry for an open
\* interest, and takes it out of the queue never.
LEMMA ReceivedIs ==
    ASSUME NEW ints \in Interests, NEW st \in State, NEW m \in News
    PROVE  LET new == Received(ints, st, m)
           IN  /\ new \in State
               /\ new.pending # <<>> =>
                     \/ st.pending # <<>> /\ new.pending[1] = st.pending[1]
                     \/ m.type = "ENTERZONE" /\ OpenAt(ints, m.at) # {} /\ new.pending = <<m>>
               /\ st.pending # <<>> => new.pending # <<>>
               /\ m.type = "ENTERZONE" /\ OpenAt(ints, m.at) # {} => new.pending = <<m>>
<1> DEFINE new == Received(ints, st, m)
<1>1. CASE m.type = "ENTERZONE"
  <2>1. new = Entered(ints, st, m)
    BY <1>1 DEF Received
  <2>2. CASE OpenAt(ints, m.at) # {}
    <3>1. new = [st EXCEPT !.pending = <<m>>]
      BY <2>1, <2>2 DEF Entered
    <3>2. <<m>> \in Seq(News) /\ <<m>> # <<>>
      OBVIOUS
    <3> HIDE DEF new
    <3>3. new \in State /\ new.pending = <<m>>
      BY <3>1, <3>2 DEF State
    <3> QED
      BY <1>1, <2>2, <3>2, <3>3 DEF new
  <2>3. CASE OpenAt(ints, m.at) = {} /\ st.copy # Unseen
    BY <1>1, <2>1, <2>3 DEF Entered
  <2>4. CASE OpenAt(ints, m.at) = {} /\ st.copy = Unseen
    <3> DEFINE c == [at |-> m.at, val |-> m.val]
    <3>1. c \in Copy
      BY <1>1, NewsFields DEF Copy
    <3>2. new = [st EXCEPT !.copy = c]
      BY <2>1, <2>4 DEF Entered
    <3> HIDE DEF c, new
    <3>3. new \in State /\ new.pending = st.pending
      BY <3>1, <3>2, Copying
    <3> QED
      BY <1>1, <2>4, <3>3 DEF new
  <2> QED
    BY <2>2, <2>3, <2>4
<1>2. CASE m.type = "CHANGE_ZONE"
  <2>1. new = Moved(ints, st, m)
    BY <1>2 DEF Received
  <2>2. CASE st.pending # <<>>
    BY <1>2, <2>1, <2>2, Queueing DEF Moved
  <2>3. CASE st.pending = <<>> /\ st.copy = Unseen
    BY <1>2, <2>1, <2>3 DEF Moved
  <2>4. CASE st.pending = <<>> /\ st.copy # Unseen /\ m.new \in Covered(ints)
    <3> DEFINE c == [st.copy EXCEPT !.at = m.new]
    <3>1. st.copy \in Copy /\ m.new \in Location
      BY <2>4, CoveredType DEF State
    <3>2. c \in Copy
      BY <3>1 DEF Copy
    <3>3. new = [st EXCEPT !.copy = c]
      BY <2>1, <2>4 DEF Moved, State
    <3> HIDE DEF c, new
    <3>4. new \in State /\ new.pending = st.pending
      BY <3>2, <3>3, Copying
    <3> QED
      BY <1>2, <2>4, <3>4 DEF new
  <2>5. CASE st.pending = <<>> /\ st.copy # Unseen /\ m.new \notin Covered(ints)
    BY <1>2, <2>1, <2>5, Copying DEF Moved, Disabled
  <2> QED
    BY <2>2, <2>3, <2>4, <2>5
<1>3. CASE m.type = "UPDATE_FIELD"
  <2>1. new = Updated(st, m)
    BY <1>3 DEF Received
  <2>2. CASE st.copy = Unseen
    BY <1>3, <2>1, <2>2, Queueing DEF Updated
  <2>3. CASE st.copy # Unseen
    <3> DEFINE c == [st.copy EXCEPT !.val = m.val]
    <3>1. st.copy \in Copy /\ m.val \in Value
      BY <1>3, <2>3, NewsFields DEF State
    <3>2. c \in Copy
      BY <3>1 DEF Copy
    <3>3. new = [st EXCEPT !.copy = c]
      BY <2>1, <2>3 DEF Updated, State
    <3> HIDE DEF c, new
    <3>4. new \in State /\ new.pending = st.pending
      BY <3>2, <3>3, Copying
    <3> QED
      BY <1>3, <2>3, <3>4 DEF new
  <2> QED
    BY <2>2, <2>3
<1>4. CASE m.type = "DELETE_RAM"
  <2>1. new = Deleted(st, m)
    BY <1>4 DEF Received
  <2>2. CASE st.copy = Unseen
    BY <1>4, <2>1, <2>2, Queueing DEF Deleted
  <2>3. CASE st.copy # Unseen
    BY <1>4, <2>1, <2>3, Copying DEF Deleted, Disabled
  <2> QED
    BY <2>2, <2>3
<1> QED
  BY <1>1, <1>2, <1>3, <1>4, NewsFields

LEMMA ReceivedGrounded ==
    ASSUME NEW ints \in Interests, NEW st \in State, NEW m \in News, Grounded(ints, st)
    PROVE  Grounded(ints, Received(ints, st, m))
<1> DEFINE new == Received(ints, st, m)
<1>1. new.pending # <<>> =>
        \/ st.pending # <<>> /\ new.pending[1] = st.pending[1]
        \/ m.type = "ENTERZONE" /\ OpenAt(ints, m.at) # {} /\ new.pending = <<m>>
  BY ReceivedIs
<1> HIDE DEF new
<1>2. Grounded(ints, new)
  BY <1>1 DEF Grounded
<1> QED
  BY <1>2 DEF new

\* Replaying an object's datagrams is a computation by recursion on their
\* number: there is such a function, ...
LEMMA ReplaySteps ==
    ASSUME NEW ints, NEW st, st.pending \in Seq(News)
    PROVE  LET n == Len(st.pending)
           IN  \E f : /\ f = [i \in 0..n |-> IF i = 0 THEN [st EXCEPT !.pending = <<>>]
                                             ELSE Received(ints, f[i - 1], st.pending[i])]
                      /\ Replayed(ints, st) = f[n]
<1> DEFINE n == Len(st.pending)
           Step(f, i) == IF i = 0 THEN [st EXCEPT !.pending = <<>>]
                         ELSE Received(ints, f[i - 1], st.pending[i])
           Reaches(k) == \E f : f = [i \in 0..k |-> Step(f, i)]
           Short == {k \in Nat : ~Reaches(k)}
<1>1. n \in Nat
  BY LenProperties
<1>2. ASSUME Short # {} PROVE FALSE
  <2>1. PICK k \in Short : \A j \in Short : k <= j
    <3>1. Short \in SUBSET Nat
      OBVIOUS
    <3> HIDE DEF Short
    <3> QED
      BY <1>2, <3>1, Least
  <2>2. k \in Nat /\ ~Reaches(k)
    BY <2>1
  <2>3. CASE k = 0
    <3> DEFINE f == [i \in 0..k |-> [st EXCEPT !.pending = <<>>]]
    <3>1. f = [i \in 0..k |-> Step(f, i)]
      BY <2>3
    <3> QED
      BY <2>2, <3>1
  <2>4. CASE k # 0
    <3>1. k - 1 \in Nat /\ Reaches(k - 1)
      BY <2>1, <2>2, <2>4
    <3> HIDE DEF Step
    <3>2. PICK f : f = [i \in 0..(k - 1) |-> Step(f, i)]
      BY <3>1
    <3> DEFINE g == [i \in 0..k |-> IF i = k THEN Step(f, k) ELSE f[i]]
    <3>3. ASSUME NEW i \in 0..k
          PROVE  g[i] = Step(g, i)
      <4>1. i # 0 => i - 1 \in 0..(k - 1) /\ g[i - 1] = f[i - 1]
        BY <2>2, <2>4
      <4>2. Step(g, i) = Step(f, i)
        <5> HIDE DEF g
        <5> QED
          BY <4>1 DEF Step
      <4>3. CASE i = k
        BY <4>2, <4>3
      <4>4. CASE i # k
        <5>1. i \in 0..(k - 1) /\ g[i] = f[i]
          BY <2>2, <4>4
        <5>2. f[i] = Step(f, i)
          BY <3>2, <5>1
        <5> QED
          BY <4>2, <5>1, <5>2
      <4> QED
        BY <4>3, <4>4
    <3>4. g = [i \in 0..k |-> g[i]]
      OBVIOUS
    <3> HIDE DEF g
    <3>5. g = [i \in 0..k |-> Step(g, i)]
      BY <3>3, <3>4
    <3> QED
      BY <2>2, <3>5
  <2> QED
    BY <2>3, <2>4
<1>3. Reaches(n)
  BY <1>1, <1>2
<1> DEFINE after == CHOOSE f : f = [i \in 0..n |-> Step(f, i)]
<1>4. after = [i \in 0..n |-> Step(after, i)]
  <2> HIDE DEF Step
  <2> QED
    BY <1>3
<1>5. Replayed(ints, st) = after[n]
  BY DEF Replayed
<1> QED
  BY <1>4, <1>5

\* ... and what it leaves pending is grounded.
LEMMA ReplayedIs ==
    ASSUME NEW ints \in Interests, NEW st \in State
    PROVE  LET new == Replayed(ints, st)
           IN  new \in State /\ Grounded(ints, new)
<1> DEFINE n == Len(st.pending)
<1>1. st.pending \in Seq(News) /\ n \in Nat
  BY LenProperties DEF State
<1>2. PICK f : /\ f = [i \in 0..n |-> IF i = 0 THEN [st EXCEPT !.pending = <<>>]
                                      ELSE Received(ints, f[i - 1], st.pending[i])]
               /\ Replayed(ints, st) = f[n]
  BY <1>1, ReplaySteps
<1> DEFINE Good(i) == f[i] \in State /\ Grounded(ints, f[i])
           Bad == {i \in Nat : i <= n /\ ~Good(i)}
<1>3. Good(0)
  <2>1. f[0] = [st EXCEPT !.pending = <<>>]
    BY <1>1, <1>2
  <2>2. <<>> \in Seq(News)
    OBVIOUS
  <2>3. f[0] \in State /\ f[0].pending = <<>>
    BY <2>1, <2>2 DEF State
  <2> QED
    BY <2>3 DEF Grounded
<1>4. ASSUME NEW i \in 1..n, Good(i - 1)
      PROVE  Good(i)
  <2>1. f[i] = Received(ints, f[i - 1], st.pending[i])
    <3>1. i \in 0..n /\ i # 0
      BY <1>1
    <3> HIDE DEF n
    <3> QED
      BY <1>2, <3>1, Zenon
  <2>2. st.pending[i] \in News
    BY <1>1
  <2> QED
    BY <1>4, <2>1, <2>2, ReceivedIs, ReceivedGrounded
<1>5. ASSUME Bad # {} PROVE FALSE
  <2>1. PICK k \in Bad : \A j \in Bad : k <= j
    <3>1. Bad \in SUBSET Nat
      OBVIOUS
    <3> HIDE DEF Bad
    <3> QED
      BY <1>5, <3>1, Least
  <2> HIDE DEF Good
  <2>2. k # 0 /\ k \in 1..n
    BY <1>1, <1>3, <2>1
  <2>3. k - 1 \in Nat /\ k - 1 <= n /\ k - 1 \notin Bad
    BY <1>1, <2>1, <2>2
  <2> QED
    BY <1>4, <2>1, <2>2, <2>3
<1>6. Good(n)
  <2> HIDE DEF Good
  <2> QED
    BY <1>1, <1>5
<1> QED
  BY <1>2, <1>6

-----------------------------------------------------------------------------
(* Type correctness *)

LEMMA ResubscribeType ==
    ASSUME TypeOK, NEW gone \in SUBSET Location, NEW wanted \in SUBSET Location,
           NEW query \in Seq(Queries), Resubscribe(gone, wanted, query)
    PROVE  /\ channels' = (channels \ gone) \union wanted
           /\ channels' \subseteq Location
           /\ left' \subseteq Location
           /\ uplink' \in Seq(Control \union Queries)
<1>1. PICK removed \in SetToSeqs(gone \ Shared),
           added \in SetToSeqs((wanted \ (channels \ gone)) \ Shared) :
        /\ channels' = (channels \ gone) \union wanted
        /\ left' = left \union gone
        /\ uplink' = uplink \o [i \in DOMAIN removed |-> RemoveMsg(removed[i])]
                            \o [i \in DOMAIN added |-> SetMsg(added[i])] \o query
  BY DEF Resubscribe
<1>2. /\ removed \in Seq(Location) /\ Len(removed) \in Nat /\ DOMAIN removed = 1..Len(removed)
      /\ added \in Seq(Location) /\ Len(added) \in Nat /\ DOMAIN added = 1..Len(added)
  <2>1. gone \ Shared \subseteq Location /\ (wanted \ (channels \ gone)) \ Shared \subseteq Location
    OBVIOUS
  <2>2. removed \in Seq(gone \ Shared) /\ added \in Seq((wanted \ (channels \ gone)) \ Shared)
    BY <2>1, LocationsFinite, Ordering
  <2>3. removed \in Seq(Location) /\ added \in Seq(Location)
    BY <2>1, <2>2
  <2> QED
    BY <2>3
<1> DEFINE off == [i \in DOMAIN removed |-> RemoveMsg(removed[i])]
           on  == [i \in DOMAIN added |-> SetMsg(added[i])]
<1>3. off \in Seq(Control \union Queries) /\ on \in Seq(Control \union Queries)
  <2>1. \A l \in Location : RemoveMsg(l) \in Control /\ SetMsg(l) \in Control
    BY DEF RemoveMsg, SetMsg, Control
  <2>2. /\ off \in [1..Len(removed) -> Control \union Queries]
        /\ on \in [1..Len(added) -> Control \union Queries]
    BY <1>2, <2>1
  <2> QED
    BY <1>2, <2>2
<1>4. uplink \in Seq(Control \union Queries) /\ query \in Seq(Control \union Queries)
  BY DEF TypeOK
<1>5. uplink' \in Seq(Control \union Queries)
  <2> HIDE DEF off, on
  <2>1. uplink' = ((uplink \o off) \o on) \o query
    BY <1>1 DEF off, on
  <2> QED
    BY <2>1, <1>3, <1>4, ConcatProperties
<1>6. channels \subseteq Location /\ left \subseteq Location
  BY DEF TypeOK
<1> QED
  BY <1>1, <1>5, <1>6

LEMMA HiddenType ==
    ASSUME TypeOK, NEW ls
    PROVE  Hidden(ls) \in [Object -> Copy \union {Unseen}]
BY DEF Hidden, TypeOK

LEMMA OthersAre ==
    ASSUME TypeOK, NEW h \in Handle
    PROVE  /\ Others(h) \in Interests
           /\ Others(h)[h] = None
           /\ \A g \in Handle \ {h} : Others(h)[g] = interests[g]
BY DEF Others, TypeOK, Interests

LEMMA RacesType ==
    /\ \A objs, ints : Outside(objs, ints) \subseteq Object
    /\ \A ints, q : Dropped(ints, q) \subseteq Object /\ Belated(ints, q) \subseteq Object
    /\ \A m : Outlived(m) \subseteq Object /\ Unheard(m) \subseteq Object
                /\ Overtaken(m) \subseteq Object /\ Misplaced(m) \subseteq Object
    /\ \A i \in Interest : Abandoned(i) \subseteq Object
<1>1. \A i \in Interest : Abandoned(i) \subseteq Object
  BY InterestFields DEF Abandoned
<1> QED
  BY <1>1 DEF Outside, Dropped, ToMove, Belated, Outlived, Unheard, Overtaken, Misplaced

LEMMA RemoveType ==
    ASSUME TypeOK, NEW h \in Handle, RemoveInterest(h)
    PROVE  TypeOK'
<1> DEFINE lonely == Locations(interests[h]) \ Covered(Others(h))
<1>1. interests[h] \in Interest /\ Locations(interests[h]) \subseteq Location
  BY LocationsType DEF RemoveInterest, TypeOK
<1>2. /\ channels' \subseteq Location
      /\ left' \subseteq Location
      /\ uplink' \in Seq(Control \union Queries)
  <2>1. Resubscribe(lonely, {}, <<>>)
    BY DEF RemoveInterest
  <2>2. lonely \in SUBSET Location /\ <<>> \in Seq(Queries) /\ {} \in SUBSET Location
    BY <1>1
  <2> HIDE DEF lonely
  <2> QED
    BY <2>1, <2>2, ResubscribeType
<1>3. interests' \in [Handle -> Interest \union {None}]
  BY OthersAre DEF RemoveInterest, Interests
<1>4. shown' \in [Object -> Copy \union {Unseen}]
  BY HiddenType DEF RemoveInterest
<1>5. strayed' \subseteq Object
  BY <1>1, RacesType DEF RemoveInterest, TypeOK
<1> QED
  BY <1>2, <1>3, <1>4, <1>5 DEF RemoveInterest, TypeOK, serverVars

\* An interest that is added, and what is unsubscribed when it alters another.
LEMMA AddedIs ==
    ASSUME TypeOK, NEW h \in Handle, NEW p \in Parent, NEW zs \in SUBSET Zone, NEW ai \in FromAI,
           AddInterest(h, p, zs, ai), ~(ai /\ AlterRaises(h, p))
    PROVE  LET old == interests[h]
               alters == old # None /\ ~AlterRaises(h, p)
               killed == IF alters THEN KilledZones(h, p, zs) ELSE {}
               gone   == IF alters THEN Zones(old.parent, killed) ELSE {}
               new    == [parent |-> p, zones |-> zs, context |-> requests + 1,
                          done |-> zs = {}, pending_objects |-> {}]
           IN  /\ new \in Interest /\ new # None
               /\ interests' = [interests EXCEPT ![h] = new]
               /\ interests' \in Interests
               /\ interests'[h] = new
               /\ \A g \in Handle \ {h} : interests'[g] = interests[g]
               /\ gone \in SUBSET Location
               /\ channels' = (channels \ gone) \union Zones(p, zs)
               /\ channels' \subseteq Location
               /\ left' \subseteq Location
               /\ uplink' \in Seq(Control \union Queries)
<1> DEFINE old    == interests[h]
           alters == old # None /\ ~AlterRaises(h, p)
           killed == IF alters THEN KilledZones(h, p, zs) ELSE {}
           gone   == IF alters THEN Zones(old.parent, killed) ELSE {}
           new    == [parent |-> p, zones |-> zs, context |-> requests + 1,
                      done |-> zs = {}, pending_objects |-> {}]
           query  == IF zs = {} /\ ~ai THEN <<>> ELSE <<Query(h, requests + 1, p, zs)>>
<1>1. requests + 1 \in Context
  BY Bounds DEF AddInterest, TypeOK, Context
<1>2. new \in Interest
  BY <1>1 DEF Interest
<1>3. interests' = [interests EXCEPT ![h] = new]
  BY DEF AddInterest
<1>4. Resubscribe(gone, Zones(p, zs), query)
  BY DEF AddInterest
<1>5. gone \in SUBSET Location
  <2>1. CASE alters
    <3>1. old \in Interest
      BY <2>1 DEF TypeOK
    <3>2. killed \subseteq old.zones
      BY <2>1 DEF KilledZones
    <3> HIDE DEF killed, old
    <3>3. old.parent \in Parent /\ killed \in SUBSET Zone
      BY <3>1, <3>2, InterestFields
    <3> QED
      BY <3>3, ZonesType
  <2>2. CASE ~alters
    BY <2>2
  <2> QED
    BY <2>1, <2>2
<1>6. query \in Seq(Queries)
  <2>1. Query(h, requests + 1, p, zs) \in Queries
    BY <1>1 DEF Query, Queries
  <2> QED
    BY <2>1
<1> HIDE DEF gone, new, query
<1>7. Zones(p, zs) \in SUBSET Location
  BY ZonesType
<1>8. /\ channels' = (channels \ gone) \union Zones(p, zs)
      /\ channels' \subseteq Location
      /\ left' \subseteq Location
      /\ uplink' \in Seq(Control \union Queries)
  BY <1>4, <1>5, <1>6, <1>7, ResubscribeType
<1>9. /\ interests' \in Interests
      /\ interests'[h] = new
      /\ \A g \in Handle \ {h} : interests'[g] = interests[g]
  BY <1>2, <1>3 DEF TypeOK, Interests
<1> QED
  BY <1>2, <1>3, <1>5, <1>8, <1>9, Bounds DEF gone, new

\* The interest that an ADD_INTEREST leaves.
Opened(p, zs) ==
    [parent |-> p, zones |-> zs, context |-> requests + 1, done |-> zs = {}, pending_objects |-> {}]

LEMMA InterestAdded ==
    ASSUME TypeOK, NEW h \in Handle, NEW p \in Parent, NEW zs \in SUBSET Zone, NEW ai \in FromAI,
           AddInterest(h, p, zs, ai), ~(ai /\ AlterRaises(h, p))
    PROVE  /\ Opened(p, zs) # None
           /\ interests' = [interests EXCEPT ![h] = Opened(p, zs)]
           /\ interests'[h] = Opened(p, zs)
           /\ \A g \in Handle \ {h} : interests'[g] = interests[g]
<1>1. requests + 1 \in Context
  BY Bounds DEF AddInterest, TypeOK, Context
<1>2. Opened(p, zs) \in Interest
  BY <1>1 DEF Interest, Opened
<1>3. interests' = [interests EXCEPT ![h] = Opened(p, zs)]
  BY DEF AddInterest, Opened
<1> QED
  BY <1>2, <1>3, Bounds DEF TypeOK, Interests

LEMMA AddType ==
    ASSUME TypeOK, NEW h \in Handle, NEW p \in Parent, NEW zs \in SUBSET Zone, NEW ai \in FromAI,
           AddInterest(h, p, zs, ai)
    PROVE  TypeOK'
<1>1. requests' \in 0..MaxRequests
  BY Bounds DEF AddInterest, TypeOK
<1>2. strayed' \subseteq Object
  <2>1. AlterRaises(h, p) => interests[h] \in Interest
    BY DEF AlterRaises, TypeOK
  <2>2. /\ Outside(shown', interests') \subseteq Object /\ Dropped(Others(h), queued') \subseteq Object
        /\ Belated(interests', queued') \subseteq Object
    BY RacesType
  <2>3. AlterRaises(h, p) => Abandoned(interests[h]) \subseteq Object
    BY <2>1, RacesType
  <2> QED
    BY <2>2, <2>3 DEF AddInterest, TypeOK
<1>3. CASE ai /\ AlterRaises(h, p)
  <2>1. /\ interests' = Others(h)
        /\ UNCHANGED <<shown, queued, channels, uplink, left>>
    BY <1>3 DEF AddInterest
  <2>2. interests' \in [Handle -> Interest \union {None}]
    BY <2>1, OthersAre DEF Interests
  <2>3. UNCHANGED <<routing, atServer, inbox, upstream, serverVars, events, unanswered>>
    BY DEF AddInterest
  <2> QED
    BY <1>1, <1>2, <2>1, <2>2, <2>3 DEF TypeOK, serverVars
<1>4. CASE ~(ai /\ AlterRaises(h, p))
  <2>1. /\ interests' \in [Handle -> Interest \union {None}]
        /\ channels' \subseteq Location
        /\ left' \subseteq Location
        /\ uplink' \in Seq(Control \union Queries)
    BY <1>4, AddedIs DEF Interests
  <2>2. shown' \in [Object -> Copy \union {Unseen}]
    BY <1>4, HiddenType DEF AddInterest
  <2>3. queued' \in [Object -> Seq(News)]
    <3>1. PICK away : queued' = [o \in Object |-> IF o \in away THEN <<>> ELSE queued[o]]
      <4> DEFINE alters == interests[h] # None /\ ~AlterRaises(h, p)
                 new == [parent |-> p, zones |-> zs, context |-> requests + 1,
                         done |-> zs = {}, pending_objects |-> {}]
                 ints == [interests EXCEPT ![h] = new]
                 needed == UNION {ints[g].pending_objects : g \in {g \in Handle : ints[g] # None}}
                 away == {o \in Object : alters /\ o \notin needed}
      <4>1. queued' = [o \in Object |-> IF alters /\ o \notin needed THEN <<>> ELSE queued[o]]
        BY <1>4 DEF AddInterest
      <4> HIDE DEF alters, needed
      <4>2. queued' = [o \in Object |-> IF o \in away THEN <<>> ELSE queued[o]]
        BY <4>1
      <4> HIDE DEF away
      <4> QED
        BY <4>2
    <3>2. <<>> \in Seq(News) /\ queued \in [Object -> Seq(News)]
      BY DEF TypeOK
    <3> QED
      BY <3>1, <3>2
  <2>4. UNCHANGED <<routing, atServer, inbox, upstream, serverVars, events, unanswered>>
    BY DEF AddInterest
  <2> QED
    BY <1>1, <1>2, <2>1, <2>2, <2>3, <2>4 DEF TypeOK, serverVars
<1> QED
  BY <1>3, <1>4

\* o waits in the queue for an open interest that will replay it.
HasReason(ints, o) == \E h \in Handle : /\ ints[h] # None
                                        /\ ~ints[h].done
                                        /\ o \in ints[h].pending_objects

\* An interest that is done has nothing left to replay.
DoneIsEmpty == \A h \in Handle : interests[h] # None /\ interests[h].done =>
                                    interests[h].pending_objects = {}

\* Interests of which none came or went or covers anything else.
Kept(new, now) == \A h \in Handle : /\ now[h] = None <=> new[h] = None
                                    /\ now[h] # None => Alike(now[h], new[h])

LEMMA StateType ==
    ASSUME TypeOK, NEW o \in Object
    PROVE  ObjectState(o) \in State
BY DEF TypeOK, ObjectState, State

\* The end of a query closes its interest and replays what it was waiting
\* for; of that, what still waits does so for another open interest.
LEMMA DoneIs ==
    ASSUME TypeOK, NEW m \in Answers, InterestDone(m)
    PROVE  /\ interests' \in Interests
           /\ Kept(interests', interests)
           /\ shown' \in [Object -> Copy \union {Unseen}]
           /\ queued' \in [Object -> Seq(News)]
           /\ DoneIsEmpty => DoneIsEmpty'
           /\ \A o \in Object : (queued[o] # <<>> => HasReason(interests, o))
                                  => (queued'[o] # <<>> => HasReason(interests', o))
<1>1. CASE interests[m.handle] = None \/ interests[m.handle].context # m.context \/ interests[m.handle].done
  <2>1. UNCHANGED <<interests, shown, queued>>
    BY <1>1 DEF InterestDone
  <2> QED
    BY <2>1 DEF TypeOK, Interests, Kept, DoneIsEmpty, HasReason, Alike
<1>2. CASE ~(interests[m.handle] = None \/ interests[m.handle].context # m.context \/ interests[m.handle].done)
  <2> DEFINE h == m.handle
             ints == [interests EXCEPT ![h].done = TRUE, ![h].pending_objects = {}]
             due == {o \in interests[h].pending_objects : queued[o] # <<>>}
             after == [o \in Object |-> IF o \in due THEN Replayed(ints, ObjectState(o)) ELSE ObjectState(o)]
             again(g) == {o \in due : after[o].pending # <<>> /\ g \in OpenAt(ints, after[o].pending[1].at)}
  <2>1. h \in Handle /\ interests[h] \in Interest /\ ~interests[h].done
    BY <1>2 DEF Answers, TypeOK
  <2>2. /\ interests' = [g \in Handle |-> IF ints[g] = None THEN None
                           ELSE [ints[g] EXCEPT !.pending_objects = @ \union again(g)]]
        /\ shown' = [o \in Object |-> after[o].copy]
        /\ queued' = [o \in Object |-> after[o].pending]
    BY <1>2 DEF InterestDone
  <2>3. /\ ints \in Interests
        /\ ints[h] \in Interest /\ Alike(interests[h], ints[h]) /\ ints[h].done /\ ints[h].pending_objects = {}
        /\ \A g \in Handle \ {h} : ints[g] = interests[g]
    <3> DEFINE i == [interests[h] EXCEPT !.done = TRUE, !.pending_objects = {}]
    <3>1. ints = [interests EXCEPT ![h] = i]
      BY <2>1 DEF TypeOK
    <3>2. i \in Interest /\ Alike(interests[h], i) /\ i.done /\ i.pending_objects = {}
      BY <2>1, Closed
    <3> HIDE DEF i, ints, h
    <3> QED
      BY <2>1, <3>1, <3>2 DEF TypeOK, Interests
  <2>4. due \subseteq Object
    BY <2>1, InterestFields
  <2> HIDE DEF ints
  <2>5. ASSUME NEW o \in Object
        PROVE  /\ after[o] \in State
               /\ o \in due => Grounded(ints, after[o])
               /\ o \notin due => after[o] = ObjectState(o)
    BY <2>3, StateType, ReplayedIs
  <2> HIDE DEF due, after, h
  <2>6. ASSUME NEW g \in Handle
        PROVE  /\ ints[g] = None => interests'[g] = None
               /\ ints[g] # None => /\ interests'[g] \in Interest
                                    /\ Alike(ints[g], interests'[g])
                                    /\ interests'[g].done = ints[g].done
                                    /\ interests'[g].pending_objects = ints[g].pending_objects \union again(g)
    <3>1. CASE ints[g] = None
      BY <2>2, <3>1
    <3>2. CASE ints[g] # None
      <4> DEFINE objs == ints[g].pending_objects \union again(g)
      <4>1. ints[g] \in Interest
        BY <2>3, <3>2 DEF Interests
      <4>2. objs \in SUBSET Object
        BY <2>4, <4>1, InterestFields
      <4> DEFINE j == [ints[g] EXCEPT !.pending_objects = objs]
      <4>3. interests'[g] = j
        BY <2>2, <3>2
      <4> HIDE DEF objs
      <4>4. /\ j \in Interest
            /\ Alike(ints[g], j)
            /\ j.done = ints[g].done
            /\ j.pending_objects = objs
        BY <4>1, <4>2, Pended
      <4> HIDE DEF j
      <4> QED
        BY <3>2, <4>3, <4>4 DEF objs
    <3> QED
      BY <3>1, <3>2
  <2>7. interests' \in Interests
    <3>1. \A g \in Handle : interests'[g] \in Interest \union {None}
      BY <2>6
    <3>2. interests' = [g \in Handle |-> interests'[g]]
      BY <2>2
    <3> QED
      BY <3>1, <3>2 DEF Interests
  <2>8. Kept(interests', interests)
    <3> SUFFICES ASSUME NEW g \in Handle
                 PROVE  /\ interests[g] = None <=> interests'[g] = None
                        /\ interests[g] # None => Alike(interests[g], interests'[g])
      BY DEF Kept
    <3>1. ints[g] = None <=> interests[g] = None
      BY <2>1, <2>3, Bounds
    <3>2. interests[g] # None => Alike(interests[g], ints[g])
      BY <2>3 DEF Alike
    <3> QED
      BY <2>6, <3>1, <3>2, Bounds DEF Alike
  <2>9. ASSUME NEW g \in Handle, NEW o \in again(g)
        PROVE  ints[g] # None /\ ~ints[g].done
    BY DEF OpenAt, Locations
  <2>10. DoneIsEmpty => DoneIsEmpty'
    <3> SUFFICES ASSUME DoneIsEmpty, NEW g \in Handle, interests'[g] # None, interests'[g].done
                 PROVE  interests'[g].pending_objects = {}
      BY DEF DoneIsEmpty
    <3>1. ints[g] # None /\ ints[g].done
      BY <2>6
    <3>2. again(g) = {}
      BY <2>9, <3>1
    <3>3. ints[g].pending_objects = {}
      BY <2>3, <3>1 DEF DoneIsEmpty
    <3> HIDE DEF again
    <3> QED
      BY <2>6, <3>1, <3>2, <3>3
  <2>11. ASSUME NEW o \in Object, queued[o] # <<>> => HasReason(interests, o), queued'[o] # <<>>
         PROVE  HasReason(interests', o)
    <3>1. queued'[o] = after[o].pending
      BY <2>2
    <3>2. CASE o \in due
      <4>1. PICK g \in Handle : g \in OpenAt(ints, after[o].pending[1].at)
        BY <2>5, <2>11, <3>1, <3>2 DEF Grounded, OpenAt
      <4>2. o \in again(g)
        BY <2>11, <3>1, <3>2, <4>1
      <4>3. ints[g] # None /\ ~ints[g].done
        BY <2>9, <4>2
      <4> HIDE DEF again
      <4>4. interests'[g] # None /\ ~interests'[g].done /\ o \in interests'[g].pending_objects
        BY <2>6, <4>2, <4>3, Bounds
      <4> QED
        BY <4>4 DEF HasReason
    <3>3. CASE o \notin due
      <4>1. queued'[o] = queued[o]
        <5>1. after[o] = ObjectState(o)
          BY <2>5, <3>3
        <5>2. ObjectState(o).pending = queued[o]
          BY DEF ObjectState
        <5> QED
          BY <3>1, <5>1, <5>2
      <4>2. PICK g \in Handle : interests[g] # None /\ ~interests[g].done /\ o \in interests[g].pending_objects
        BY <2>11, <4>1 DEF HasReason
      <4>3. g # h
        BY <2>11, <3>3, <4>1, <4>2 DEF due
      <4>4. ints[g] = interests[g]
        BY <2>3, <4>3
      <4> HIDE DEF again
      <4>5. interests'[g] # None /\ ~interests'[g].done /\ o \in interests'[g].pending_objects
        BY <2>6, <4>2, <4>4, Bounds
      <4> QED
        BY <4>5 DEF HasReason
    <3> QED
      BY <3>2, <3>3
  <2>12. /\ shown' \in [Object -> Copy \union {Unseen}]
         /\ queued' \in [Object -> Seq(News)]
    BY <2>2, <2>5 DEF State
  <2> QED
    BY <2>7, <2>8, <2>10, <2>11, <2>12
<1> QED
  BY <1>1, <1>2

\* An object's news puts it into the queue only for an open interest.
LEMMA NewsIs ==
    ASSUME TypeOK, NEW m \in News, ObjectNews(m)
    PROVE  /\ interests' \in Interests
           /\ Kept(interests', interests)
           /\ shown' \in [Object -> Copy \union {Unseen}]
           /\ queued' \in [Object -> Seq(News)]
           /\ DoneIsEmpty => DoneIsEmpty'
           /\ \A o \in Object : (queued[o] # <<>> => HasReason(interests, o))
                                  => (queued'[o] # <<>> => HasReason(interests', o))
<1> DEFINE st == Received(interests, ObjectState(m.obj), m)
<1>1. m.obj \in Object /\ interests \in Interests
  BY NewsFields DEF TypeOK, Interests
<1>2. /\ st \in State
      /\ st.pending # <<>> =>
            \/ queued[m.obj] # <<>>
            \/ m.type = "ENTERZONE" /\ OpenAt(interests, m.at) # {}
  <2>1. ObjectState(m.obj).pending = queued[m.obj]
    BY DEF ObjectState
  <2> QED
    BY <1>1, <2>1, StateType, ReceivedIs
<1>3. /\ shown' = [shown EXCEPT ![m.obj] = st.copy]
      /\ queued' = [queued EXCEPT ![m.obj] = st.pending]
      /\ interests' = IF m.type = "ENTERZONE" THEN Enlist(interests, m.obj, m.at) ELSE interests
  BY DEF ObjectNews
<1> HIDE DEF st
<1>4. /\ shown' \in [Object -> Copy \union {Unseen}]
      /\ queued' \in [Object -> Seq(News)]
  BY <1>1, <1>2, <1>3 DEF State, TypeOK
<1>5. CASE m.type = "ENTERZONE"
  <2>1. /\ interests' \in Interests
        /\ \A h \in Handle :
              /\ interests[h] = None => interests'[h] = None
              /\ interests[h] # None =>
                   /\ interests'[h] # None /\ Alike(interests[h], interests'[h])
                   /\ interests'[h].done = interests[h].done
                   /\ interests'[h].pending_objects = IF h \in OpenAt(interests, m.at)
                        THEN interests[h].pending_objects \union {m.obj} ELSE interests[h].pending_objects
    BY <1>1, <1>3, <1>5, Enlisted
  <2>2. Kept(interests', interests)
    BY <2>1 DEF Kept
  <2>3. DoneIsEmpty => DoneIsEmpty'
    BY <2>1 DEF DoneIsEmpty, OpenAt
  <2>4. ASSUME NEW o \in Object, queued[o] # <<>> => HasReason(interests, o), queued'[o] # <<>>
        PROVE  HasReason(interests', o)
    <3>1. CASE queued[o] # <<>>
      BY <2>1, <2>4, <3>1 DEF HasReason
    <3>2. CASE queued[o] = <<>>
      <4>1. o = m.obj /\ st.pending # <<>>
        BY <1>1, <1>3, <2>4, <3>2 DEF TypeOK
      <4>2. PICK h \in Handle : h \in OpenAt(interests, m.at)
        BY <1>2, <3>2, <4>1 DEF OpenAt
      <4>3. interests[h] # None /\ ~interests[h].done
        BY <4>2 DEF OpenAt, Locations
      <4> QED
        BY <2>1, <4>1, <4>2, <4>3 DEF HasReason
    <3> QED
      BY <3>1, <3>2
  <2> QED
    BY <1>4, <2>1, <2>2, <2>3, <2>4
<1>6. CASE m.type # "ENTERZONE"
  <2>1. interests' = interests
    BY <1>3, <1>6
  <2>2. \A o \in Object : queued'[o] # <<>> => queued[o] # <<>>
    BY <1>1, <1>2, <1>3, <1>6 DEF TypeOK
  <2> QED
    BY <1>1, <1>4, <2>1, <2>2 DEF Kept, Alike, DoneIsEmpty, HasReason
<1> QED
  BY <1>5, <1>6

\* What reaches the client is an answer or news of an object.
LEMMA Reaches ==
    ASSUME TypeOK, Receive
    PROVE  \/ UNCHANGED <<interests, shown, queued, strayed>>
           \/ /\ Head(inbox) \in Answers /\ InterestDone(Head(inbox))
              /\ strayed \subseteq strayed'
           \/ /\ Head(inbox) \in News /\ ObjectNews(Head(inbox))
              /\ strayed \subseteq strayed'
<1> DEFINE m == Head(inbox)
<1>1. m \in News \union Queries \union Answers
  BY HeadTailProperties DEF Receive, TypeOK
<1>2. CASE m.to \intersect (channels \union {Self}) = {}
  BY <1>2 DEF Receive
<1>3. CASE m.to \intersect (channels \union {Self}) # {}
  <2>1. m \notin Queries
    BY <1>3 DEF Queries
  <2>2. strayed \subseteq strayed'
    BY <1>3 DEF Receive
  <2>3. CASE m \in Answers
    <3>1. m.type = "DONE"
      BY <2>3 DEF Answers
    <3> QED
      BY <1>3, <2>2, <2>3, <3>1 DEF Receive
  <2>4. CASE m \in News
    <3>1. m.type # "DONE"
      BY <2>4, NewsFields
    <3> QED
      BY <1>3, <2>2, <2>4, <3>1 DEF Receive
  <2> QED
    BY <1>1, <2>1, <2>3, <2>4
<1> QED
  BY <1>2, <1>3

LEMMA ReceiveType ==
    ASSUME TypeOK, Receive
    PROVE  TypeOK'
<1>1. /\ interests' \in [Handle -> Interest \union {None}]
      /\ shown' \in [Object -> Copy \union {Unseen}]
      /\ queued' \in [Object -> Seq(News)]
  BY Reaches, DoneIs, NewsIs DEF TypeOK, Interests
<1>2. inbox' \in Seq(News \union Queries \union Answers)
  BY HeadTailProperties DEF Receive, TypeOK
<1>3. strayed' \subseteq Object
  BY RacesType DEF Receive, TypeOK
<1> QED
  BY <1>1, <1>2, <1>3 DEF Receive, TypeOK, serverVars

LEMMA ForwardType ==
    ASSUME TypeOK, Forward
    PROVE  TypeOK'
<1> DEFINE m == Head(uplink)
<1>1. m \in Control \union Queries /\ uplink' \in Seq(Control \union Queries)
  BY HeadTailProperties DEF Forward, TypeOK
<1>2. upstream' \subseteq Location
  BY <1>1 DEF Forward, TypeOK, Control, Queries
<1>3. routing' \in Seq(News \union Queries \union Answers)
  <2>1. m.type = "QUERY" => m \in News \union Queries \union Answers
    BY <1>1 DEF Control
  <2>2. routing' = routing \/ (m.type = "QUERY" /\ routing' = Append(routing, m))
    BY DEF Forward
  <2>3. routing \in Seq(News \union Queries \union Answers)
    BY DEF TypeOK
  <2> HIDE DEF m
  <2> QED
    BY <2>1, <2>2, <2>3, AppendProperties
<1> QED
  BY <1>1, <1>2, <1>3 DEF Forward, TypeOK, clientVars, serverVars

LEMMA RouteType ==
    ASSUME TypeOK, Route
    PROVE  TypeOK'
<1> DEFINE m == Head(routing)
<1>1. /\ m \in News \union Queries \union Answers
      /\ routing' \in Seq(News \union Queries \union Answers)
  BY HeadTailProperties DEF Route, TypeOK
<1>2. inbox' \in Seq(News \union Queries \union Answers)
  BY <1>1, AppendProperties DEF Route, TypeOK
<1>3. atServer' \in Seq(Moves \union Queries)
  <2>1. m.type \in {"QUERY", "CHANGE_ZONE"} => m \in Moves \union Queries
    BY <1>1 DEF News, Answers
  <2> QED
    BY <2>1, AppendProperties DEF Route, TypeOK
<1> QED
  BY <1>1, <1>2, <1>3 DEF Route, TypeOK, clientVars, serverVars

LEMMA EntryType ==
    ASSUME TypeOK, NEW o \in Object, NEW to \in SUBSET (Location \union {Self}), NEW l \in Location
    PROVE  Entry(o, to, l) \in News
BY DEF TypeOK, Entry, News

\* The answer to a query: entries up to the first child that is gone, if any.
LEMMA AnswerIs ==
    ASSUME TypeOK, NEW m \in Queries, AnswerQuery(m)
    PROVE  /\ routing' \in Seq(News \union Queries \union Answers)
           /\ unanswered' \subseteq Context
<1> DEFINE S == {e[2] : e \in {e \in index : e[1] \in Zones(m.parent, m.zones)}}
<1>1. S \subseteq Object
  BY DEF TypeOK
<1>2. PICK order \in SetToSeqs(S) :
        LET live(n)  == \A i \in 1..n : place[order[i]] # Nowhere
            n        == CHOOSE n \in 0..Len(order) : live(n) /\ (n = Len(order) \/ ~live(n + 1))
            entries  == [i \in 1..n |-> Entry(order[i], {Self}, place[order[i]])]
        IN  /\ routing' = routing \o entries \o (IF n = Len(order) THEN <<Done(m)>> ELSE <<>>)
            /\ unanswered' = IF n = Len(order) THEN unanswered ELSE unanswered \union {m.context}
  BY DEF AnswerQuery
<1>3. /\ order \in Seq(Object) /\ Len(order) \in Nat
      /\ \A i \in 1..Len(order) : order[i] \in Object
  <2>1. order \in Seq(S)
    BY <1>1, InterestAssumption, Ordering
  <2> HIDE DEF S
  <2>2. order \in Seq(Object)
    BY <1>1, <2>1
  <2> QED
    BY <2>2
<1> DEFINE live(n) == \A i \in 1..n : place[order[i]] # Nowhere
           Longest(n) == live(n) /\ (n = Len(order) \/ ~live(n + 1))
           n == CHOOSE n \in 0..Len(order) : Longest(n)
           entries == [i \in 1..n |-> Entry(order[i], {Self}, place[order[i]])]
<1>4. \E k \in 0..Len(order) : Longest(k)
  <2> DEFINE T == {k \in Nat : k = Len(order) \/ ~live(k + 1)}
  <2>1. PICK k \in T : \A j \in T : k <= j
    <3>1. T \in SUBSET Nat /\ Len(order) \in T
      BY <1>3
    <3> HIDE DEF T
    <3> QED
      BY <3>1, Least
  <2>2. k \in 0..Len(order)
    BY <1>3, <2>1
  <2>3. live(k)
    <3>1. CASE k = 0
      BY <3>1
    <3>2. CASE k # 0
      <4>1. k - 1 \in Nat /\ k - 1 \notin T /\ k - 1 + 1 = k
        BY <2>1, <2>2, <3>2
      <4> QED
        BY <4>1
    <3> QED
      BY <3>1, <3>2
  <2> HIDE DEF live
  <2> QED
    BY <2>1, <2>2, <2>3
<1>5. n \in 0..Len(order) /\ live(n)
  <2>1. n \in 0..Len(order) /\ Longest(n)
    <3> HIDE DEF Longest
    <3> QED
      BY <1>4
  <2> QED
    BY <2>1
<1>6. entries \in Seq(News)
  <2> HIDE DEF n
  <2>1. ASSUME NEW i \in 1..n
        PROVE  Entry(order[i], {Self}, place[order[i]]) \in News
    <3>1. order[i] \in Object /\ place[order[i]] # Nowhere
      BY <1>3, <1>5
    <3>2. place[order[i]] \in Location
      BY <3>1 DEF TypeOK
    <3> QED
      BY <3>1, <3>2, EntryType
  <2>2. n \in Nat
    BY <1>3, <1>5
  <2>3. entries \in [1..n -> News]
    BY <2>1
  <2> HIDE DEF entries
  <2> QED
    BY <2>2, <2>3
<1>7. Done(m) \in Answers /\ m.context \in Context
  BY DEF Done, Answers, Queries
<1>8. /\ routing' = (routing \o entries) \o (IF n = Len(order) THEN <<Done(m)>> ELSE <<>>)
      /\ unanswered' = IF n = Len(order) THEN unanswered ELSE unanswered \union {m.context}
  BY <1>2
<1> HIDE DEF entries, n
<1>9. /\ entries \in Seq(News \union Queries \union Answers)
      /\ (IF n = Len(order) THEN <<Done(m)>> ELSE <<>>) \in Seq(News \union Queries \union Answers)
  <2>1. <<Done(m)>> \in Seq(News \union Queries \union Answers)
    BY <1>7
  <2>2. <<>> \in Seq(News \union Queries \union Answers)
    OBVIOUS
  <2>3. entries \in Seq(News \union Queries \union Answers)
    BY <1>6
  <2> QED
    BY <2>1, <2>2, <2>3
<1> QED
  BY <1>7, <1>8, <1>9, ConcatProperties DEF TypeOK

LEMMA ServeType ==
    ASSUME TypeOK, Serve
    PROVE  TypeOK'
<1> DEFINE m == Head(atServer)
<1>1. m \in Moves \union Queries /\ atServer' \in Seq(Moves \union Queries)
  BY HeadTailProperties DEF Serve, TypeOK
<1>2. CASE m.type = "QUERY" /\ AnswerQuery(m) /\ strayed' = strayed \union Misplaced(m) /\ UNCHANGED index
  <2>1. m \in Queries
    BY <1>1, <1>2 DEF Moves
  <2>2. /\ routing' \in Seq(News \union Queries \union Answers)
        /\ unanswered' \subseteq Context
    BY <1>2, <2>1, AnswerIs
  <2>3. strayed' \subseteq Object
    BY <1>2, RacesType DEF TypeOK
  <2> QED
    BY <1>1, <1>2, <2>2, <2>3 DEF Serve, TypeOK, clientVars
<1>3. CASE m.type = "CHANGE_ZONE" /\ Reindex(m) /\ UNCHANGED <<routing, unanswered, strayed>>
  <2>1. m \in Moves
    BY <1>1, <1>3 DEF Queries
  <2>2. index' \subseteq Location \X Object
    BY <1>3, <2>1 DEF Reindex, TypeOK, Moves
  <2> QED
    BY <1>1, <1>3, <2>2 DEF Serve, TypeOK, clientVars
<1> QED
  BY <1>2, <1>3 DEF Serve

LEMMA EventType ==
    ASSUME TypeOK, NEW o \in Object, Annihilate(o) \/ UpdateField(o) \/ \E l \in Location : Move(o, l)
    PROVE  TypeOK'
<1>1. events + 1 \in Value /\ events' \in 0..MaxEvents /\ Happens
  <2>1. Happens
    BY DEF Annihilate, UpdateField, Move
  <2> QED
    BY <2>1, Bounds DEF Happens, TypeOK, Value
<1>2. /\ place' \in [Object -> Location \union {Nowhere}]
      /\ value' \in [Object -> Value]
      /\ routing' \in Seq(News \union Queries \union Answers)
  <2>1. routing \in Seq(News \union Queries \union Answers)
    BY DEF TypeOK
  <2>2. CASE Annihilate(o)
    <3> DEFINE a == ChangeZone(o, {}, Nowhere, place[o])
               b == DeleteRam(o)
    <3>1. place[o] \in Location
      BY <2>2 DEF Annihilate, TypeOK
    <3>2. a \in News /\ b \in News
      BY <3>1 DEF ChangeZone, DeleteRam, News, Moves
    <3>3. routing' = routing \o <<a, b>>
      BY <2>2 DEF Annihilate
    <3> HIDE DEF a, b
    <3>4. <<a, b>> \in Seq(News \union Queries \union Answers)
      BY <3>2
    <3>5. routing' \in Seq(News \union Queries \union Answers)
      BY <2>1, <3>3, <3>4, ConcatProperties
    <3> QED
      BY <2>2, <3>5 DEF Annihilate, TypeOK
  <2>3. CASE UpdateField(o)
    <3> DEFINE a == Update(o, events + 1)
    <3>1. place[o] \in Location
      BY <2>3 DEF UpdateField, TypeOK
    <3>2. a \in News
      BY <1>1, <3>1 DEF Update, News
    <3>3. routing' = Append(routing, a)
      BY <2>3 DEF UpdateField
    <3> HIDE DEF a
    <3>4. routing' \in Seq(News \union Queries \union Answers)
      BY <2>1, <3>2, <3>3, AppendProperties
    <3> QED
      BY <1>1, <2>3, <3>4 DEF UpdateField, TypeOK
  <2>4. ASSUME NEW l \in Location, Move(o, l)
        PROVE  /\ place' \in [Object -> Location \union {Nowhere}]
               /\ value' \in [Object -> Value]
               /\ routing' \in Seq(News \union Queries \union Answers)
    <3> DEFINE a == ChangeZone(o, IF place[o] = Nowhere THEN {} ELSE {place[o]}, l, place[o])
               b == Entry(o, {l}, l)
    <3>1. place[o] \in Location \union {Nowhere}
      BY DEF TypeOK
    <3>2. a \in News
      BY <3>1 DEF ChangeZone, News, Moves
    <3>3. b \in News
      BY EntryType
    <3>4. routing' = routing \o <<a, b>>
      BY <2>4 DEF Move
    <3> HIDE DEF a, b
    <3>5. <<a, b>> \in Seq(News \union Queries \union Answers)
      BY <3>2, <3>3
    <3>6. routing' \in Seq(News \union Queries \union Answers)
      BY <2>1, <3>4, <3>5, ConcatProperties
    <3> QED
      BY <2>4, <3>6 DEF Move, TypeOK
  <2> QED
    BY <2>2, <2>3, <2>4
<1> QED
  BY <1>1, <1>2 DEF Happens, TypeOK, clientVars

LEMMA InitType == Init => TypeOK
<1> SUFFICES ASSUME Init PROVE TypeOK
  OBVIOUS
<1>1. index \subseteq Location \X Object
  BY DEF Init
<1>2. /\ <<>> \in Seq(News) /\ <<>> \in Seq(Control \union Queries)
      /\ <<>> \in Seq(News \union Queries \union Answers) /\ <<>> \in Seq(Moves \union Queries)
  OBVIOUS
<1>3. 0 \in Value /\ 0 \in 0..MaxRequests /\ 0 \in 0..MaxEvents
  BY Bounds DEF Value
<1>4. /\ interests \in [Handle -> Interest \union {None}]
      /\ shown \in [Object -> Copy \union {Unseen}]
      /\ queued \in [Object -> Seq(News)]
      /\ value \in [Object -> Value]
  BY <1>2, <1>3 DEF Init
<1> QED
  BY <1>1, <1>2, <1>3, <1>4 DEF Init, TypeOK

\* The steps of everything but the client.
Elsewhere == \/ Forward \/ Route \/ Serve
             \/ \E o \in Object : Annihilate(o) \/ UpdateField(o) \/ \E l \in Location : Move(o, l)
             \/ UNCHANGED vars

LEMMA ElsewhereIs ==
    ASSUME TypeOK, Elsewhere
    PROVE  TypeOK' /\ UNCHANGED clientVars /\ strayed \subseteq strayed'
<1>1. TypeOK'
  <2>1. UNCHANGED vars => TypeOK'
    BY DEF vars, TypeOK
  <2> QED
    BY <2>1, ForwardType, RouteType, ServeType, EventType DEF Elsewhere
<1>2. CASE Forward \/ Route \/ Serve
  BY <1>1, <1>2 DEF Forward, Route, Serve
<1>3. CASE \E o \in Object : Annihilate(o) \/ UpdateField(o) \/ \E l \in Location : Move(o, l)
  <2>1. Happens
    BY <1>3 DEF Annihilate, UpdateField, Move
  <2> QED
    BY <1>1, <2>1 DEF Happens
<1>4. CASE UNCHANGED vars
  BY <1>1, <1>4 DEF vars, clientVars
<1> QED
  BY <1>2, <1>3, <1>4 DEF Elsewhere

\* The state of the client, the connections and the state server keeps its
\* type: in particular the client shows no object at a location that is none.
THEOREM TypeCorrect == Spec => []TypeOK
<1>1. TypeOK /\ [Next]_vars => TypeOK'
  <2> SUFFICES ASSUME TypeOK, [Next]_vars
               PROVE  TypeOK'
    OBVIOUS
  <2>1. CASE \E h \in Handle : RemoveInterest(h)
    BY <2>1, RemoveType
  <2>2. CASE \E h \in Handle, p \in Parent, zs \in SUBSET Zone, ai \in FromAI : AddInterest(h, p, zs, ai)
    BY <2>2, AddType
  <2>3. CASE Receive
    BY <2>3, ReceiveType
  <2>4. CASE Elsewhere
    BY <2>4, ElsewhereIs
  <2> QED
    BY <2>1, <2>2, <2>3, <2>4 DEF Next, Elsewhere
<1> QED
  BY <1>1, InitType, PTL DEF Spec

-----------------------------------------------------------------------------
(* What the client hears *)

\* A location that another interest covers is never unsubscribed: a killed
\* zone is none of the zones of another interest, whatever the parents.
LEMMA AddHeard ==
    ASSUME TypeOK, InterestsHeard, NEW h \in Handle, NEW p \in Parent, NEW zs \in SUBSET Zone,
           NEW ai \in FromAI, AddInterest(h, p, zs, ai)
    PROVE  InterestsHeard'
<1> DEFINE old    == interests[h]
           alters == old # None /\ ~AlterRaises(h, p)
           killed == IF alters THEN KilledZones(h, p, zs) ELSE {}
           gone   == IF alters THEN Zones(old.parent, killed) ELSE {}
           new    == [parent |-> p, zones |-> zs, context |-> requests + 1,
                      done |-> zs = {}, pending_objects |-> {}]
<1>1. CASE ai /\ AlterRaises(h, p)
  <2>1. interests' = Others(h) /\ channels' = channels
    BY <1>1 DEF AddInterest
  <2>2. \A g \in Handle : Locations(interests'[g]) \subseteq channels'
    BY <2>1, OthersAre, Covers DEF Locations, InterestsHeard
  <2> QED
    BY <2>2, CoveredBy DEF InterestsHeard
<1>2. CASE ~(ai /\ AlterRaises(h, p))
  <2>1. /\ new # None /\ interests'[h] = new
        /\ \A g \in Handle \ {h} : interests'[g] = interests[g]
        /\ channels' = (channels \ gone) \union Zones(p, zs)
    BY <1>2, AddedIs
  <2>2. Locations(interests'[h]) \subseteq channels'
    BY <2>1 DEF Locations
  <2>3. ASSUME NEW g \in Handle \ {h}
        PROVE  Locations(interests'[g]) \subseteq channels'
    <3>1. Locations(interests[g]) \subseteq channels
      BY Covers DEF InterestsHeard
    <3>2. ASSUME NEW l \in Locations(interests[g])
          PROVE  l \notin gone
      <4>1. interests[g] # None /\ l \in Zones(interests[g].parent, interests[g].zones)
        BY DEF Locations
      <4>2. SUFFICES ASSUME l \in gone PROVE FALSE
        OBVIOUS
      <4>3. alters /\ l \in Zones(old.parent, killed)
        BY <4>2
      <4>4. PICK z \in interests[g].zones : z \in killed
        BY <4>1, <4>3, ZonesOf
      <4>5. z \notin KilledZones(h, p, zs)
        BY <4>1, <4>4 DEF KilledZones
      <4> QED
        BY <4>3, <4>4, <4>5
    <3> QED
      BY <2>1, <3>1, <3>2
  <2> QED
    BY <2>2, <2>3, CoveredBy DEF InterestsHeard
<1> QED
  BY <1>1, <1>2

\* The channels after an interest was removed.
LEMMA RemovedIs ==
    ASSUME TypeOK, NEW h \in Handle, RemoveInterest(h)
    PROVE  /\ interests' = Others(h)
           /\ channels' = channels \ (Locations(interests[h]) \ Covered(Others(h)))
<1> DEFINE lonely == Locations(interests[h]) \ Covered(Others(h))
<1>1. Resubscribe(lonely, {}, <<>>) /\ interests' = Others(h)
  BY DEF RemoveInterest
<1>2. lonely \in SUBSET Location
  BY LocationsType DEF TypeOK
<1>3. <<>> \in Seq(Queries)
  OBVIOUS
<1> HIDE DEF lonely
<1>4. channels' = (channels \ lonely) \union {}
  BY <1>1, <1>2, <1>3, ResubscribeType
<1> QED
  BY <1>1, <1>4 DEF lonely

\* No datagram changes what the interests cover.
LEMMA ReceiveCovers ==
    ASSUME TypeOK, Receive
    PROVE  Covered(interests') = Covered(interests) /\ channels' = channels
<1>1. Kept(interests', interests)
  BY Reaches, DoneIs, NewsIs DEF Kept, Alike
<1>2. \A h \in Handle : Locations(interests'[h]) = Locations(interests[h])
  BY <1>1 DEF Kept, Alike, Locations
<1> QED
  BY <1>2 DEF Covered, Receive

\* Whatever is added, altered and removed, the client hears every location of
\* its interests (receive_add_interest, receive_remove_interest).
THEOREM Heard == Spec => []InterestsHeard
<1>1. Init => InterestsHeard
  BY DEF Init, InterestsHeard, Covered, Locations
<1>2. TypeOK /\ InterestsHeard /\ [Next]_vars => InterestsHeard'
  <2> SUFFICES ASSUME TypeOK, InterestsHeard, [Next]_vars
               PROVE  InterestsHeard'
    OBVIOUS
  <2>1. ASSUME NEW h \in Handle, RemoveInterest(h) PROVE InterestsHeard'
    <3>1. \A g \in Handle : Locations(Others(h)[g]) \subseteq Locations(interests[g])
      BY OthersAre DEF Locations
    <3>2. Covered(Others(h)) \subseteq channels
      BY <3>1, Covers, CoveredBy DEF InterestsHeard
    <3> QED
      BY <2>1, <3>2, RemovedIs DEF InterestsHeard
  <2>2. ASSUME NEW h \in Handle, NEW p \in Parent, NEW zs \in SUBSET Zone, NEW ai \in FromAI,
               AddInterest(h, p, zs, ai)
        PROVE  InterestsHeard'
    BY <2>2, AddHeard
  <2>3. CASE Receive
    BY <2>3, ReceiveCovers DEF InterestsHeard
  <2>4. CASE Elsewhere
    BY <2>4, ElsewhereIs DEF InterestsHeard, clientVars, Covered, Locations
  <2> QED
    BY <2>1, <2>2, <2>3, <2>4 DEF Next, Elsewhere
<1> QED
  BY <1>1, <1>2, TypeCorrect, PTL DEF Spec

\* With one parent what is unsubscribed is exactly what no interest covers
\* any more.
LEMMA AddHeardOnly ==
    ASSUME TypeOK, \A p, q \in Parent : p = q, NothingElseHeard,
           NEW h \in Handle, NEW p \in Parent, NEW zs \in SUBSET Zone,
           NEW ai \in FromAI, AddInterest(h, p, zs, ai)
    PROVE  NothingElseHeard'
<1> DEFINE old    == interests[h]
           alters == old # None /\ ~AlterRaises(h, p)
           killed == IF alters THEN KilledZones(h, p, zs) ELSE {}
           gone   == IF alters THEN Zones(old.parent, killed) ELSE {}
           new    == [parent |-> p, zones |-> zs, context |-> requests + 1,
                      done |-> zs = {}, pending_objects |-> {}]
<1>1. \A g \in Handle : interests[g] # None => interests[g].parent = p
  BY InterestFields DEF TypeOK
<1>2. ~AlterRaises(h, p)
  BY <1>1 DEF AlterRaises
<1>3. /\ new # None /\ interests'[h] = new
      /\ \A g \in Handle \ {h} : interests'[g] = interests[g]
      /\ channels' = (channels \ gone) \union Zones(p, zs)
  <2>1. channels' = (channels \ gone) \union Zones(p, zs)
    BY <1>2, AddedIs, ZenonT(30)
  <2>2. /\ new # None /\ interests'[h] = new
        /\ \A g \in Handle \ {h} : interests'[g] = interests[g]
    <3>1. new = Opened(p, zs)
      BY DEF Opened
    <3>2. ~(ai /\ AlterRaises(h, p))
      BY <1>2
    <3> HIDE DEF new
    <3> QED
      BY <3>1, <3>2, InterestAdded
  <2> QED
    BY <2>1, <2>2
<1>4. Zones(p, zs) \subseteq Covered(interests')
  <2>1. Locations(interests'[h]) = Zones(p, zs)
    BY <1>3 DEF Locations
  <2> QED
    BY <2>1, Covers
<1>5. ASSUME NEW l \in channels \ gone
      PROVE  l \in Covered(interests')
  <2>1. PICK g \in Handle : l \in Locations(interests[g])
    BY DEF NothingElseHeard, Covered
  <2>2. CASE g # h
    BY <1>3, <2>1, <2>2, Covers
  <2>3. CASE g = h
    <3>1. alters /\ l \in Zones(p, old.zones) /\ old.parent = p
      BY <1>1, <1>2, <2>1, <2>3 DEF Locations
    <3>2. PICK z \in old.zones : l = [parent |-> p, zone |-> z]
      BY <3>1 DEF Zones
    <3>3. CASE z \in zs
      BY <1>4, <3>2, <3>3 DEF Zones
    <3>4. CASE z \notin zs
      <4>1. z \notin KilledZones(h, p, zs)
        BY <1>5, <3>1, <3>2 DEF Zones
      <4>2. PICK f \in Handle \ {h} : interests[f] # None /\ z \in interests[f].zones
        BY <3>1, <3>4, <4>1 DEF KilledZones
      <4>3. l \in Locations(interests'[f])
        BY <1>1, <1>3, <3>2, <4>2 DEF Locations, Zones
      <4> QED
        BY <4>3, Covers
    <3> QED
      BY <3>3, <3>4
  <2> QED
    BY <2>2, <2>3
<1> QED
  BY <1>3, <1>4, <1>5 DEF NothingElseHeard

\* With one parent the client hears no location that no interest of it covers:
\* every subscription ends with the last interest that needs it.
THEOREM HeardOnly ==
    ASSUME \A p, q \in Parent : p = q
    PROVE  Spec => []NothingElseHeard
<1>1. Init => NothingElseHeard
  BY DEF Init, NothingElseHeard
<1>2. TypeOK /\ NothingElseHeard /\ [Next]_vars => NothingElseHeard'
  <2> SUFFICES ASSUME TypeOK, NothingElseHeard, [Next]_vars
               PROVE  NothingElseHeard'
    OBVIOUS
  <2>1. ASSUME NEW h \in Handle, RemoveInterest(h) PROVE NothingElseHeard'
    <3>1. /\ interests' = Others(h)
          /\ channels' = channels \ (Locations(interests[h]) \ Covered(Others(h)))
      BY <2>1, RemovedIs
    <3>2. ASSUME NEW l \in channels'
          PROVE  l \in Covered(Others(h))
      <4>1. PICK g \in Handle : l \in Locations(interests[g])
        BY <3>1 DEF NothingElseHeard, Covered
      <4>2. CASE g = h
        BY <3>1, <4>1, <4>2
      <4>3. CASE g # h
        BY <4>1, <4>3, OthersAre, Covers
      <4> QED
        BY <4>2, <4>3
    <3> QED
      BY <3>1, <3>2 DEF NothingElseHeard
  <2>2. ASSUME NEW h \in Handle, NEW p \in Parent, NEW zs \in SUBSET Zone, NEW ai \in FromAI,
               AddInterest(h, p, zs, ai)
        PROVE  NothingElseHeard'
    BY <2>2, AddHeardOnly
  <2>3. CASE Receive
    BY <2>3, ReceiveCovers DEF NothingElseHeard
  <2>4. CASE Elsewhere
    BY <2>4, ElsewhereIs DEF NothingElseHeard, clientVars, Covered, Locations
  <2> QED
    BY <2>1, <2>2, <2>3, <2>4 DEF Next, Elsewhere
<1> QED
  BY <1>1, <1>2, TypeCorrect, PTL DEF Spec

-----------------------------------------------------------------------------
(* What the client waits for *)

\* The inductive invariant: only an open interest will replay what waits.
Reasons == DoneIsEmpty /\ PendingHasReason

LEMMA AddReasons ==
    ASSUME TypeOK, Reasons, NEW h \in Handle, NEW p \in Parent, NEW zs \in SUBSET Zone,
           NEW ai \in FromAI, AddInterest(h, p, zs, ai)
    PROVE  Reasons'
<1> DEFINE old == interests[h]
           new == [parent |-> p, zones |-> zs, context |-> requests + 1,
                   done |-> zs = {}, pending_objects |-> {}]
<1>1. AlterRaises(h, p) =>
        strayed' = Object \/ strayed \union Abandoned(old) \subseteq strayed'
  BY DEF AddInterest
<1>2. strayed' = Object \/ strayed \subseteq strayed'
  BY DEF AddInterest
<1>3. CASE ai /\ AlterRaises(h, p)
  <2>1. interests' = Others(h) /\ UNCHANGED queued
    BY <1>3 DEF AddInterest
  <2>2. DoneIsEmpty'
    BY <2>1, OthersAre DEF Reasons, DoneIsEmpty
  <2>3. ASSUME NEW o \in Object \ strayed', queued'[o] # <<>>
        PROVE  HasReason(interests', o)
    <3>1. PICK g \in Handle : interests[g] # None /\ ~interests[g].done /\ o \in interests[g].pending_objects
      BY <1>2, <2>1, <2>3 DEF Reasons, PendingHasReason
    <3>2. g # h
      BY <1>1, <1>3, <2>1, <2>3, <3>1 DEF Abandoned
    <3> QED
      BY <2>1, <3>1, <3>2, OthersAre DEF HasReason
  <2> QED
    BY <2>2, <2>3 DEF Reasons, PendingHasReason, HasReason
<1>4. CASE ~(ai /\ AlterRaises(h, p))
  <2> DEFINE alters == old # None /\ ~AlterRaises(h, p)
             ints == [interests EXCEPT ![h] = new]
             needed == UNION {ints[g].pending_objects : g \in {g \in Handle : ints[g] # None}}
  <2>1. /\ new # None /\ interests' = ints /\ ints[h] = new
        /\ \A g \in Handle \ {h} : ints[g] = interests[g]
    <3>1. new = Opened(p, zs)
      BY DEF Opened
    <3> HIDE DEF new
    <3>2. new # None /\ interests' = ints
      BY <1>4, <3>1, InterestAdded
    <3>3. interests'[h] = new /\ \A g \in Handle \ {h} : interests'[g] = interests[g]
      BY <1>4, <3>1, InterestAdded
    <3> HIDE DEF ints
    <3> QED
      BY <3>2, <3>3
  <2>2. queued' = [o \in Object |-> IF alters /\ o \notin needed THEN <<>> ELSE queued[o]]
    BY <1>4 DEF AddInterest
  <2> HIDE DEF ints
  <2>3. DoneIsEmpty'
    BY <2>1 DEF Reasons, DoneIsEmpty
  <2>4. ASSUME NEW o \in Object \ strayed', queued'[o] # <<>>
        PROVE  HasReason(interests', o)
    <3>1. queued[o] # <<>> /\ (alters => o \in needed)
      BY <2>2, <2>4
    <3>2. CASE alters
      <4>1. PICK g \in Handle : ints[g] # None /\ o \in ints[g].pending_objects
        BY <3>1, <3>2
      <4>2. g # h /\ ints[g] = interests[g]
        BY <2>1, <4>1
      <4>3. ~interests[g].done
        BY <4>1, <4>2 DEF Reasons, DoneIsEmpty
      <4> QED
        BY <2>1, <4>1, <4>2, <4>3 DEF HasReason
    <3>3. CASE ~alters
      <4>1. PICK g \in Handle : interests[g] # None /\ ~interests[g].done /\ o \in interests[g].pending_objects
        BY <1>2, <2>4, <3>1 DEF Reasons, PendingHasReason
      <4>2. g # h
        BY <1>1, <2>4, <3>1, <3>3, <4>1 DEF Abandoned
      <4> QED
        BY <2>1, <4>1, <4>2 DEF HasReason
    <3> QED
      BY <3>2, <3>3
  <2> QED
    BY <2>3, <2>4 DEF Reasons, PendingHasReason, HasReason
<1> QED
  BY <1>3, <1>4

\* Whatever is added, altered, removed and answered, an object is pending only
\* for an open interest that will replay it, unless a race has hit the object
\* (handle_interest_done, handle_object_entrance, receive_add_interest).
THEOREM PendingEnds == Spec => []PendingHasReason
<1>1. Init => Reasons
  BY DEF Init, Reasons, DoneIsEmpty, PendingHasReason
<1>2. TypeOK /\ Reasons /\ [Next]_vars => Reasons'
  <2> SUFFICES ASSUME TypeOK, Reasons, [Next]_vars
               PROVE  Reasons'
    OBVIOUS
  <2>1. ASSUME NEW h \in Handle, RemoveInterest(h) PROVE Reasons'
    <3>1. /\ interests' = Others(h) /\ UNCHANGED queued
          /\ strayed' = strayed \union Abandoned(interests[h])
      BY <2>1 DEF RemoveInterest
    <3>2. DoneIsEmpty'
      BY <3>1, OthersAre DEF Reasons, DoneIsEmpty
    <3>3. ASSUME NEW o \in Object \ strayed', queued'[o] # <<>>
          PROVE  HasReason(interests', o)
      <4>1. PICK g \in Handle : interests[g] # None /\ ~interests[g].done /\ o \in interests[g].pending_objects
        BY <3>1, <3>3 DEF Reasons, PendingHasReason
      <4>2. g # h
        BY <3>1, <3>3, <4>1 DEF Abandoned
      <4> QED
        BY <3>1, <4>1, <4>2, OthersAre DEF HasReason
    <3> QED
      BY <3>2, <3>3 DEF Reasons, PendingHasReason, HasReason
  <2>2. ASSUME NEW h \in Handle, NEW p \in Parent, NEW zs \in SUBSET Zone, NEW ai \in FromAI,
               AddInterest(h, p, zs, ai)
        PROVE  Reasons'
    BY <2>2, AddReasons
  <2>3. CASE Receive
    <3>1. CASE UNCHANGED <<interests, shown, queued, strayed>>
      BY <3>1 DEF Reasons, DoneIsEmpty, PendingHasReason
    <3>2. CASE ~UNCHANGED <<interests, shown, queued, strayed>>
      <4>1. /\ DoneIsEmpty'
            /\ \A o \in Object : (queued[o] # <<>> => HasReason(interests, o))
                                   => (queued'[o] # <<>> => HasReason(interests', o))
            /\ strayed \subseteq strayed'
        BY <2>3, <3>2, Reaches, DoneIs, NewsIs DEF Reasons
      <4> QED
        BY <4>1 DEF Reasons, PendingHasReason, HasReason
    <3> QED
      BY <3>1, <3>2
  <2>4. CASE Elsewhere
    BY <2>4, ElsewhereIs DEF Reasons, DoneIsEmpty, PendingHasReason, clientVars
  <2> QED
    BY <2>1, <2>2, <2>3, <2>4 DEF Next, Elsewhere
<1>3. Reasons => PendingHasReason
  BY DEF Reasons
<1> QED
  BY <1>1, <1>2, <1>3, TypeCorrect, PTL DEF Spec

-----------------------------------------------------------------------------
(* What the client will be told of an object *)

\* The datagrams that come to the client, in order, and those that come to
\* the parents.
Pipe    == inbox \o routing
Serving == atServer \o routing
Routed  == upstream \union Shared

About(m, o)    == m.type \in {"ENTERZONE", "CHANGE_ZONE", "UPDATE_FIELD", "DELETE_RAM"} /\ m.obj = o
IsEntry(m, o)  == m.type = "ENTERZONE" /\ m.obj = o
IsMove(m, o)   == m.type = "CHANGE_ZONE" /\ m.obj = o
IsUpdate(m, o) == m.type = "UPDATE_FIELD" /\ m.obj = o
EntryOf(m, o, l) == IsEntry(m, o) /\ m.at = l /\ m.to = {l}

\* Who hears l learns from m that o is not there any more.
Leaves(m, o, l) == m.type \in {"CHANGE_ZONE", "DELETE_RAM"} /\ m.obj = o /\ l \in m.to

\* Between positions i and j of the datagrams s nothing takes o away from l.
Stays(s, i, j, o, l) == \A k \in i + 1 .. j - 1 : ~Leaves(s[k], o, l)

\* Who has value v of o before those between i and j, has w after them.
Tells(s, i, j, o, v, w) ==
    \/ w = v /\ \A k \in i + 1 .. j - 1 : ~IsUpdate(s[k], o)
    \/ \E k \in i + 1 .. j - 1 : /\ IsUpdate(s[k], o) /\ s[k].val = w
                                 /\ \A e \in k + 1 .. j - 1 : ~IsUpdate(s[e], o)

\* The datagram at j is right for who has been shown o at l with v before i.
\* T are the pairs of a position and a location whose entry cannot be missed.
Fits(s, T, i, j, o, l, v) ==
    /\ IsEntry(s[j], o) => s[j].at = l /\ Tells(s, i, j, o, v, s[j].val)
    /\ About(s[j], o) /\ ~IsEntry(s[j], o) => s[j].to \subseteq {l}
    /\ IsMove(s[j], o) /\ l \in s[j].to /\ <<j, s[j].new>> \in T =>
         (j + 1 <= Len(s) /\ IsEntry(s[j + 1], o) => Tells(s, i, j, o, v, s[j + 1].val))

\* Who has been shown o at l with value v before s[i + 1] is told no less and
\* nothing else than what happens to o, up to its place p and value w now.
Truth(s, T, i, o, l, v, p, w) ==
    /\ \A j \in i + 1 .. Len(s) : Stays(s, i, j, o, l) => Fits(s, T, i, j, o, l, v)
    /\ Stays(s, i, Len(s) + 1, o, l) => p = l /\ Tells(s, i, Len(s) + 1, o, v, w)

\* The value after m, and where a position is once the p-th is removed.
After(m, o, v)    == IF IsUpdate(m, o) THEN m.val ELSE v
Removed(s, r, p)  == /\ Len(s) \in Nat /\ Len(r) = Len(s) - 1 /\ p \in 1..Len(s)
                     /\ \A j \in 1..Len(r) : r[j] = IF j < p THEN s[j] ELSE s[j + 1]
Extended(s, r)    == /\ Len(s) \in Nat /\ Len(r) \in Nat /\ Len(s) <= Len(r)
                     /\ \A j \in 1..Len(s) : r[j] = s[j]

\* An entry is no update and takes nothing away.
LEMMA Kinds ==
    ASSUME NEW m, NEW o, NEW l
    PROVE  /\ IsEntry(m, o) => About(m, o) /\ ~IsUpdate(m, o) /\ ~Leaves(m, o, l) /\ ~IsMove(m, o)
           /\ IsUpdate(m, o) => About(m, o) /\ ~IsEntry(m, o) /\ ~Leaves(m, o, l) /\ ~IsMove(m, o)
           /\ IsMove(m, o) => About(m, o) /\ ~IsEntry(m, o) /\ ~IsUpdate(m, o)
           /\ Leaves(m, o, l) => About(m, o) /\ ~IsEntry(m, o) /\ ~IsUpdate(m, o) /\ l \in m.to
BY DEF IsEntry, About, IsUpdate, Leaves, IsMove

\* The first of the datagrams can be taken for itself.
LEMMA StaysStep ==
    ASSUME NEW s, NEW i \in Nat, NEW j \in Nat, i + 1 < j, NEW o, NEW l
    PROVE  Stays(s, i, j, o, l) <=> ~Leaves(s[i + 1], o, l) /\ Stays(s, i + 1, j, o, l)
<1>1. i + 1 .. j - 1 = {i + 1} \union ((i + 1) + 1 .. j - 1)
  OBVIOUS
<1> QED
  BY <1>1 DEF Stays

\* The value after the first of the datagrams is what the rest starts from.
LEMMA TellsStep ==
    ASSUME NEW s, NEW i \in Nat, NEW j \in Nat, i + 1 < j, NEW o, NEW v, NEW w
    PROVE  Tells(s, i, j, o, v, w) <=> Tells(s, i + 1, j, o, After(s[i + 1], o, v), w)
<1> DEFINE a == i + 1 .. j - 1
           b == (i + 1) + 1 .. j - 1
           Latest(k) == /\ IsUpdate(s[k], o) /\ s[k].val = w
                      /\ \A e \in k + 1 .. j - 1 : ~IsUpdate(s[e], o)
<1>1. a = {i + 1} \union b
  OBVIOUS
<1>2. Tells(s, i, j, o, v, w) <=> (w = v /\ \A k \in a : ~IsUpdate(s[k], o)) \/ \E k \in a : Latest(k)
  BY DEF Tells
<1>3. Tells(s, i + 1, j, o, After(s[i + 1], o, v), w)
        <=> (w = After(s[i + 1], o, v) /\ \A k \in b : ~IsUpdate(s[k], o)) \/ \E k \in b : Latest(k)
  BY DEF Tells
<1>4. Latest(i + 1) <=> IsUpdate(s[i + 1], o) /\ s[i + 1].val = w /\ \A k \in b : ~IsUpdate(s[k], o)
  OBVIOUS
<1> HIDE DEF a, b, Latest
<1> QED
  BY <1>1, <1>2, <1>3, <1>4 DEF After

\* Between a position and the next there is nothing.
LEMMA TellsNothing ==
    ASSUME NEW s, NEW i \in Nat, NEW o, NEW l, NEW v, NEW w
    PROVE  Stays(s, i, i + 1, o, l) /\ (Tells(s, i, i + 1, o, v, w) <=> w = v)
<1>1. i + 1 .. (i + 1) - 1 = {}
  OBVIOUS
<1> QED
  BY <1>1 DEF Stays, Tells

\* What fits after the first of the datagrams fits after it.
LEMMA FitsStep ==
    ASSUME NEW s, NEW T, NEW i \in Nat, NEW j \in Nat, i + 1 < j, NEW o, NEW l, NEW v
    PROVE  Fits(s, T, i, j, o, l, v) <=> Fits(s, T, i + 1, j, o, l, After(s[i + 1], o, v))
BY TellsStep DEF Fits

\* What is told stays true once a datagram that does not take o away is handled.
LEMMA TruthStep ==
    ASSUME NEW s, Len(s) \in Nat, NEW T, NEW i \in Nat, i < Len(s), NEW o, NEW l, NEW v, NEW p, NEW w,
           Truth(s, T, i, o, l, v, p, w), ~Leaves(s[i + 1], o, l)
    PROVE  Truth(s, T, i + 1, o, l, After(s[i + 1], o, v), p, w)
<1>1. ASSUME NEW j \in (i + 1) + 1 .. Len(s), Stays(s, i + 1, j, o, l)
      PROVE  Fits(s, T, i + 1, j, o, l, After(s[i + 1], o, v))
  <2>1. j \in Nat /\ i + 1 < j /\ j \in i + 1 .. Len(s)
    OBVIOUS
  <2>2. Stays(s, i, j, o, l)
    BY <1>1, <2>1, StaysStep
  <2>3. Fits(s, T, i, j, o, l, v)
    BY <2>1, <2>2 DEF Truth
  <2> QED
    BY <2>1, <2>3, FitsStep
<1>2. ASSUME Stays(s, i + 1, Len(s) + 1, o, l)
      PROVE  p = l /\ Tells(s, i + 1, Len(s) + 1, o, After(s[i + 1], o, v), w)
  <2>1. Len(s) + 1 \in Nat /\ i + 1 < Len(s) + 1
    OBVIOUS
  <2>2. Stays(s, i, Len(s) + 1, o, l)
    BY <1>2, <2>1, StaysStep
  <2>3. p = l /\ Tells(s, i, Len(s) + 1, o, v, w)
    BY <2>2 DEF Truth
  <2> QED
    BY <2>1, <2>3, TellsStep
<1> QED
  BY <1>1, <1>2 DEF Truth

\* Who has been shown o by an entry has been shown it before the next one.
LEMMA TruthBack ==
    ASSUME NEW s, Len(s) \in Nat, NEW T, NEW i \in Nat, i < Len(s), NEW o, NEW p, NEW w,
           IsEntry(s[i + 1], o), Truth(s, T, i + 1, o, s[i + 1].at, s[i + 1].val, p, w)
    PROVE  Truth(s, T, i, o, s[i + 1].at, s[i + 1].val, p, w)
<1> DEFINE l == s[i + 1].at
           v == s[i + 1].val
<1>1. ~IsUpdate(s[i + 1], o) /\ ~Leaves(s[i + 1], o, l) /\ ~IsMove(s[i + 1], o)
  BY Kinds
<1>2. After(s[i + 1], o, v) = v
  BY <1>1 DEF After
<1> HIDE DEF l, v
<1>3. ASSUME NEW j \in i + 1 .. Len(s), Stays(s, i, j, o, l)
      PROVE  Fits(s, T, i, j, o, l, v)
  <2>1. CASE j = i + 1
    <3>1. i + 1 .. j - 1 = {}
      BY <2>1
    <3>2. s[j].val = v
      BY <2>1 DEF v
    <3>3. Tells(s, i, j, o, v, s[j].val)
      BY <3>1, <3>2 DEF Tells
    <3> QED
      BY <1>1, <2>1, <3>3 DEF Fits, l, v
  <2>2. CASE j # i + 1
    <3>1. j \in Nat /\ i + 1 < j /\ j \in (i + 1) + 1 .. Len(s)
      BY <2>2
    <3>2. Stays(s, i + 1, j, o, l)
      BY <1>3, <3>1, StaysStep
    <3>3. Fits(s, T, i + 1, j, o, l, v)
      BY <3>1, <3>2 DEF Truth, l, v
    <3> QED
      BY <1>2, <3>1, <3>3, FitsStep
  <2> QED
    BY <2>1, <2>2
<1>4. ASSUME Stays(s, i, Len(s) + 1, o, l)
      PROVE  p = l /\ Tells(s, i, Len(s) + 1, o, v, w)
  <2>1. Len(s) + 1 \in Nat /\ i + 1 < Len(s) + 1
    OBVIOUS
  <2>2. Stays(s, i + 1, Len(s) + 1, o, l)
    BY <1>4, <2>1, StaysStep
  <2>3. p = l /\ Tells(s, i + 1, Len(s) + 1, o, v, w)
    BY <2>2 DEF Truth, l, v
  <2> QED
    BY <1>2, <2>1, <2>3, TellsStep
<1> QED
  BY <1>3, <1>4 DEF Truth, l, v

\* The less is certain, the less must be true.
LEMMA TruthLess ==
    ASSUME NEW s, NEW T, NEW U, U \subseteq T, NEW i, NEW o, NEW l, NEW v, NEW p, NEW w,
           Truth(s, T, i, o, l, v, p, w)
    PROVE  Truth(s, U, i, o, l, v, p, w)
BY DEF Truth, Fits

-----------------------------------------------------------------------------
(* Truth when a datagram is taken away, and when more come *)

Up(p, j)   == IF j < p THEN j ELSE j + 1
Down(p, j) == IF j < p THEN j ELSE j - 1

\* Which position is which, once the p-th is removed.
LEMMA Places ==
    ASSUME NEW s, NEW r, NEW p, Removed(s, r, p), NEW i \in 0..Len(s),
           NEW k \in Nat, k = Down(p, i), NEW j \in k + 1 .. Len(s)
    PROVE  /\ \A d \in k + 1 .. j - 1 :
                 Up(p, d) \in i + 1 .. Up(p, j) - 1 /\ Up(p, d) # p /\ r[d] = s[Up(p, d)]
           /\ \A e \in i + 1 .. Up(p, j) - 1 : e # p =>
                 /\ Down(p, e) \in k + 1 .. j - 1 /\ r[Down(p, e)] = s[e]
                 /\ \A d \in Down(p, e) + 1 .. j - 1 : Up(p, d) \in e + 1 .. Up(p, j) - 1
           /\ p \in i + 1 .. Up(p, j) - 1 <=> i < p /\ p <= j
           /\ Up(p, j) \in i + 1 .. Len(s) + 1 /\ Up(p, j) \in Nat
           /\ j <= Len(r) => Up(p, j) <= Len(s) /\ r[j] = s[Up(p, j)]
           /\ j = Len(r) + 1 => Up(p, j) = Len(s) + 1
<1>1. /\ Len(s) \in Nat /\ Len(r) \in Nat /\ Len(r) + 1 = Len(s) /\ p \in 1..Len(s)
      /\ \A d \in 1..Len(r) : r[d] = IF d < p THEN s[d] ELSE s[d + 1]
  BY DEF Removed
<1>2. ASSUME NEW d \in k + 1 .. j - 1
      PROVE  Up(p, d) \in i + 1 .. Up(p, j) - 1 /\ Up(p, d) # p /\ r[d] = s[Up(p, d)]
  <2>1. d \in 1..Len(r)
    BY <1>1
  <2>2. r[d] = s[Up(p, d)]
    BY <1>1, <2>1 DEF Up
  <2> QED
    BY <1>1, <2>2 DEF Up, Down
<1>3. ASSUME NEW e \in i + 1 .. Up(p, j) - 1, e # p
      PROVE  /\ Down(p, e) \in k + 1 .. j - 1 /\ r[Down(p, e)] = s[e]
             /\ \A d \in Down(p, e) + 1 .. j - 1 : Up(p, d) \in e + 1 .. Up(p, j) - 1
  <2>1. Down(p, e) \in k + 1 .. j - 1
    BY <1>1, <1>3 DEF Up, Down
  <2>2. r[Down(p, e)] = s[e]
    <3>1. Down(p, e) \in 1..Len(r)
      BY <1>1, <2>1
    <3>2. CASE e < p
      <4>1. Down(p, e) = e
        BY <3>2 DEF Down
      <4> QED
        BY <1>1, <3>1, <3>2, <4>1
    <3>3. CASE ~(e < p)
      <4>1. Down(p, e) = e - 1 /\ ~(e - 1 < p) /\ (e - 1) + 1 = e
        BY <1>1, <1>3, <3>3 DEF Down
      <4> QED
        BY <1>1, <3>1, <4>1
    <3> QED
      BY <3>2, <3>3
  <2>3. ASSUME NEW d \in Down(p, e) + 1 .. j - 1
        PROVE  Up(p, d) \in e + 1 .. Up(p, j) - 1
    BY <1>1, <1>3 DEF Up, Down
  <2> QED
    BY <2>1, <2>2, <2>3
<1>4. p \in i + 1 .. Up(p, j) - 1 <=> i < p /\ p <= j
  BY <1>1 DEF Up, Down
<1>5. Up(p, j) \in i + 1 .. Len(s) + 1 /\ Up(p, j) \in Nat
  BY <1>1 DEF Up, Down
<1>6. j <= Len(r) => Up(p, j) <= Len(s) /\ r[j] = s[Up(p, j)]
  BY <1>1 DEF Up, Down
<1>7. ASSUME j = Len(r) + 1
      PROVE  Up(p, j) = Len(s) + 1
  <2>1. Len(r) + 1 = Len(s) /\ p <= Len(s) /\ p \in Nat /\ Len(s) \in Nat
    BY <1>1
  <2>2. j = Len(s) /\ ~(j < p)
    BY <1>7, <2>1
  <2> QED
    BY <2>2 DEF Up
<1> QED
  BY <1>2, <1>3, <1>4, <1>5, <1>6, <1>7

\* A datagram that takes nothing away from l may be removed, ...
LEMMA StaysRemoved ==
    ASSUME NEW s, NEW r, NEW p, Removed(s, r, p), NEW i \in 0..Len(s),
           NEW k \in Nat, k = Down(p, i), NEW j \in k + 1 .. Len(s), NEW o, NEW l,
           i < p /\ p <= j => ~Leaves(s[p], o, l)
    PROVE  Stays(r, k, j, o, l) <=> Stays(s, i, Up(p, j), o, l)
<1>1. ASSUME Stays(r, k, j, o, l) PROVE Stays(s, i, Up(p, j), o, l)
  <2>1. ASSUME NEW e \in i + 1 .. Up(p, j) - 1 PROVE ~Leaves(s[e], o, l)
    <3>1. CASE e = p
      BY <3>1, Places
    <3>2. CASE e # p
      <4>1. Down(p, e) \in k + 1 .. j - 1 /\ r[Down(p, e)] = s[e]
        BY <3>2, Places
      <4> QED
        BY <1>1, <4>1 DEF Stays
    <3> QED
      BY <3>1, <3>2
  <2> QED
    BY <2>1 DEF Stays
<1>2. ASSUME Stays(s, i, Up(p, j), o, l) PROVE Stays(r, k, j, o, l)
  <2>1. ASSUME NEW d \in k + 1 .. j - 1 PROVE ~Leaves(r[d], o, l)
    <3>1. Up(p, d) \in i + 1 .. Up(p, j) - 1 /\ r[d] = s[Up(p, d)]
      BY Places
    <3> QED
      BY <1>2, <3>1 DEF Stays
  <2> QED
    BY <2>1 DEF Stays
<1> QED
  BY <1>1, <1>2

\* ... and one that does not change the value.
LEMMA TellsRemoved ==
    ASSUME NEW s, NEW r, NEW p, Removed(s, r, p), NEW i \in 0..Len(s),
           NEW k \in Nat, k = Down(p, i), NEW j \in k + 1 .. Len(s), NEW o, NEW v, NEW w,
           i < p /\ p <= j => ~IsUpdate(s[p], o),
           Tells(s, i, Up(p, j), o, v, w)
    PROVE  Tells(r, k, j, o, v, w)
<1>1. CASE w = v /\ \A e \in i + 1 .. Up(p, j) - 1 : ~IsUpdate(s[e], o)
  <2>1. ASSUME NEW d \in k + 1 .. j - 1 PROVE ~IsUpdate(r[d], o)
    <3>1. Up(p, d) \in i + 1 .. Up(p, j) - 1 /\ r[d] = s[Up(p, d)]
      BY Places
    <3> QED
      BY <1>1, <3>1
  <2> QED
    BY <1>1, <2>1 DEF Tells
<1>2. ASSUME NEW e \in i + 1 .. Up(p, j) - 1, IsUpdate(s[e], o), s[e].val = w,
             \A f \in e + 1 .. Up(p, j) - 1 : ~IsUpdate(s[f], o)
      PROVE  Tells(r, k, j, o, v, w)
  <2>1. e # p
    BY <1>2, Places
  <2>2. /\ Down(p, e) \in k + 1 .. j - 1 /\ r[Down(p, e)] = s[e]
        /\ \A d \in Down(p, e) + 1 .. j - 1 : Up(p, d) \in e + 1 .. Up(p, j) - 1
    BY <2>1, Places
  <2>3. ASSUME NEW d \in Down(p, e) + 1 .. j - 1 PROVE ~IsUpdate(r[d], o)
    <3>1. d \in k + 1 .. j - 1
      BY <2>2
    <3>2. Up(p, d) \in e + 1 .. Up(p, j) - 1 /\ r[d] = s[Up(p, d)]
      BY <2>2, <3>1, Places
    <3> QED
      BY <1>2, <3>2
  <2> QED
    BY <1>2, <2>2, <2>3 DEF Tells
<1> QED
  BY <1>1, <1>2 DEF Tells

\* A datagram that does not concern who has been shown o at l may be removed,
\* unless it is the entry behind a move from there.
LEMMA TruthRemoved ==
    ASSUME NEW s, NEW r, NEW p, Removed(s, r, p), NEW i \in 0..Len(s),
           NEW k \in Nat, k = Down(p, i), NEW o, NEW l, NEW v, NEW T, NEW U, NEW x, NEW w,
           Truth(s, T, i, o, l, v, x, w),
           i < p /\ Stays(s, i, p, o, l) => ~Leaves(s[p], o, l) /\ ~IsUpdate(s[p], o),
           \A j \in 1..Len(r) : \A y : <<j, y>> \in U => <<Up(p, j), y>> \in T,
           \A j \in k + 1 .. Len(r) : i < p /\ p = j + 1 /\ Stays(r, k, j, o, l) =>
              ~(IsMove(r[j], o) /\ l \in r[j].to /\ <<j, r[j].new>> \in U)
    PROVE  Truth(r, U, k, o, l, v, x, w)
<1>0. Len(s) \in Nat /\ Len(r) \in Nat /\ Len(r) + 1 = Len(s) /\ p \in 1..Len(s)
  BY DEF Removed
<1>1. ASSUME NEW j \in k + 1 .. Len(s), Stays(r, k, j, o, l)
      PROVE  /\ i < p /\ p <= j => ~Leaves(s[p], o, l) /\ ~IsUpdate(s[p], o)
             /\ Stays(s, i, Up(p, j), o, l)
  <2>1. ASSUME i < p, p <= j PROVE Stays(s, i, p, o, l)
    <3>1. ASSUME NEW e \in i + 1 .. p - 1 PROVE ~Leaves(s[e], o, l)
      <4>1. e \in k + 1 .. j - 1 /\ r[e] = s[e]
        BY <1>0, <2>1 DEF Removed, Down
      <4> QED
        BY <1>1, <4>1 DEF Stays
    <3> QED
      BY <3>1 DEF Stays
  <2>2. i < p /\ p <= j => ~Leaves(s[p], o, l) /\ ~IsUpdate(s[p], o)
    BY <2>1
  <2> QED
    BY <1>1, <2>2, StaysRemoved
<1>2. ASSUME NEW j \in k + 1 .. Len(r), Stays(r, k, j, o, l)
      PROVE  Fits(r, U, k, j, o, l, v)
  <2>1. j \in k + 1 .. Len(s) /\ j \in 1..Len(r) /\ j <= Len(r) /\ j \in Nat
    BY <1>0
  <2>2. /\ i < p /\ p <= j => ~IsUpdate(s[p], o)
        /\ Stays(s, i, Up(p, j), o, l)
    BY <1>1, <1>2, <2>1
  <2>3. Up(p, j) \in i + 1 .. Len(s) /\ r[j] = s[Up(p, j)]
    BY <1>0, <2>1, Places
  <2>4. Fits(s, T, i, Up(p, j), o, l, v)
    BY <2>2, <2>3 DEF Truth
  <2>5. ASSUME NEW y, Tells(s, i, Up(p, j), o, v, y)
        PROVE  Tells(r, k, j, o, v, y)
    BY <2>1, <2>2, <2>5, TellsRemoved
  <2>6. ASSUME IsMove(r[j], o), l \in r[j].to, <<j, r[j].new>> \in U, j + 1 <= Len(r), IsEntry(r[j + 1], o)
        PROVE  Tells(r, k, j, o, v, r[j + 1].val)
    <3>1. <<Up(p, j), s[Up(p, j)].new>> \in T
      BY <2>1, <2>3, <2>6
    <3>2. Up(p, j) + 1 <= Len(s) /\ r[j + 1] = s[Up(p, j) + 1]
      <4>1. ~(i < p /\ p = j + 1)
        BY <1>2, <2>6
      <4>2. j + 1 \in 1..Len(r) /\ p # j + 1
        BY <1>0, <2>1, <2>6, <4>1 DEF Down
      <4> QED
        BY <1>0, <2>1, <4>2 DEF Removed, Up
    <3>3. Tells(s, i, Up(p, j), o, v, s[Up(p, j) + 1].val)
      BY <2>3, <2>4, <2>6, <3>1, <3>2 DEF Fits
    <3> QED
      BY <2>5, <3>2, <3>3
  <2> QED
    BY <2>3, <2>4, <2>5, <2>6 DEF Fits
<1>3. ASSUME Stays(r, k, Len(r) + 1, o, l)
      PROVE  x = l /\ Tells(r, k, Len(r) + 1, o, v, w)
  <2>1. Len(r) + 1 \in k + 1 .. Len(s)
    BY <1>0 DEF Down
  <2>2. Up(p, Len(r) + 1) = Len(s) + 1
    BY <1>0 DEF Up
  <2>3. /\ i < p /\ p <= Len(r) + 1 => ~IsUpdate(s[p], o)
        /\ Stays(s, i, Len(s) + 1, o, l)
    BY <1>1, <1>3, <2>1, <2>2
  <2>4. x = l /\ Tells(s, i, Up(p, Len(r) + 1), o, v, w)
    BY <2>2, <2>3 DEF Truth
  <2> QED
    BY <2>1, <2>3, <2>4, TellsRemoved
<1> QED
  BY <1>2, <1>3 DEF Truth

\* What is said of the datagrams of s is said of them in r.
LEMMA PrefixSame ==
    ASSUME NEW s, NEW r, Extended(s, r), NEW i \in Nat, NEW j \in Nat, j <= Len(s) + 1,
           NEW o, NEW l, NEW v, NEW w
    PROVE  /\ Stays(r, i, j, o, l) <=> Stays(s, i, j, o, l)
           /\ Tells(r, i, j, o, v, w) <=> Tells(s, i, j, o, v, w)
<1>1. \A k \in i + 1 .. j - 1 : r[k] = s[k] /\ \A e \in k + 1 .. j - 1 : r[e] = s[e]
  BY DEF Extended
<1> QED
  BY <1>1 DEF Stays, Tells

\* Whoever it stays for beyond the end of s, it stays for in s.
LEMMA StaysBeyond ==
    ASSUME NEW s, NEW r, Extended(s, r), NEW i \in 0..Len(s), NEW j \in Nat, Len(s) < j,
           NEW o, NEW l, Stays(r, i, j, o, l)
    PROVE  Stays(s, i, Len(s) + 1, o, l)
<1>1. Len(s) \in Nat /\ \A k \in i + 1 .. (Len(s) + 1) - 1 : k \in i + 1 .. j - 1 /\ r[k] = s[k]
  BY DEF Extended
<1> QED
  BY <1>1 DEF Stays

\* The value at the end of s lasts until there is an update behind it.
LEMMA TellsBeyond ==
    ASSUME NEW s, NEW r, Extended(s, r), NEW i \in 0..Len(s), NEW j \in Nat, Len(s) < j,
           NEW o, NEW v, NEW w, Tells(s, i, Len(s) + 1, o, v, w),
           \A k \in Len(s) + 1 .. j - 1 : ~IsUpdate(r[k], o)
    PROVE  Tells(r, i, j, o, v, w)
<1>0. Len(s) \in Nat
  BY DEF Extended
<1>1. CASE w = v /\ \A k \in i + 1 .. (Len(s) + 1) - 1 : ~IsUpdate(s[k], o)
  <2>1. ASSUME NEW k \in i + 1 .. j - 1 PROVE ~IsUpdate(r[k], o)
    <3>1. CASE k <= Len(s)
      <4>1. k \in 1..Len(s) /\ k \in i + 1 .. (Len(s) + 1) - 1
        BY <1>0, <3>1
      <4> QED
        BY <1>1, <4>1 DEF Extended
    <3>2. CASE k > Len(s)
      BY <1>0, <3>2
    <3> QED
      BY <1>0, <3>1, <3>2
  <2> QED
    BY <1>1, <2>1 DEF Tells
<1>2. ASSUME NEW k \in i + 1 .. (Len(s) + 1) - 1, IsUpdate(s[k], o), s[k].val = w,
             \A e \in k + 1 .. (Len(s) + 1) - 1 : ~IsUpdate(s[e], o)
      PROVE  Tells(r, i, j, o, v, w)
  <2>1. k \in i + 1 .. j - 1 /\ r[k] = s[k]
    BY <1>0 DEF Extended
  <2>2. ASSUME NEW e \in k + 1 .. j - 1 PROVE ~IsUpdate(r[e], o)
    <3>1. CASE e <= Len(s)
      <4>1. e \in 1..Len(s) /\ e \in k + 1 .. (Len(s) + 1) - 1
        BY <1>0, <3>1
      <4> QED
        BY <1>2, <4>1 DEF Extended
    <3>2. CASE e > Len(s)
      BY <1>0, <3>2
    <3> QED
      BY <1>0, <3>1, <3>2
  <2> QED
    BY <1>2, <2>1, <2>2 DEF Tells
<1> QED
  BY <1>1, <1>2 DEF Tells

\* No certain move is the last of s.
PairedIn(s, o, T) == \A j \in 1..Len(s) : IsMove(s[j], o) /\ <<j, s[j].new>> \in T => j + 1 <= Len(s)
Within(U, T, n)   == \A j \in 1..n : \A y : <<j, y>> \in U => <<j, y>> \in T

\* What fits keeps fitting when more comes.
LEMMA FitsExtended ==
    ASSUME NEW s, NEW r, Extended(s, r), NEW i \in Nat, NEW j \in i + 1 .. Len(s), NEW o, NEW l, NEW v,
           NEW T, NEW U, Within(U, T, Len(s)), PairedIn(s, o, T), Fits(s, T, i, j, o, l, v)
    PROVE  Fits(r, U, i, j, o, l, v)
<1>1. j \in 1..Len(s) /\ r[j] = s[j] /\ j \in Nat /\ j <= Len(s) + 1
  BY DEF Extended
<1>2. \A w : Tells(r, i, j, o, v, w) <=> Tells(s, i, j, o, v, w)
  BY <1>1, PrefixSame
<1>3. ASSUME IsMove(r[j], o), l \in r[j].to, <<j, r[j].new>> \in U, IsEntry(r[j + 1], o)
      PROVE  Tells(r, i, j, o, v, r[j + 1].val)
  <2>1. <<j, s[j].new>> \in T
    BY <1>1, <1>3 DEF Within
  <2>2. j + 1 <= Len(s)
    BY <1>1, <1>3, <2>1 DEF PairedIn
  <2>3. r[j + 1] = s[j + 1]
    BY <1>1, <2>2 DEF Extended
  <2> QED
    BY <1>1, <1>2, <1>3, <2>1, <2>2, <2>3 DEF Fits
<1> QED
  BY <1>1, <1>2, <1>3 DEF Fits

\* What remains true of s when more comes.
Prefixed(s, r, U, i, o, l, v, x, w) ==
    /\ \A j \in i + 1 .. Len(s) : Stays(r, i, j, o, l) => Fits(r, U, i, j, o, l, v)
    /\ \A j \in Nat : Len(s) < j /\ Stays(r, i, j, o, l) =>
          x = l /\ Tells(s, i, Len(s) + 1, o, v, w)

\* What is told within s stays true when more comes.
LEMMA TruthPrefix ==
    ASSUME NEW s, NEW r, Extended(s, r), NEW i \in 0..Len(s), NEW o, NEW l, NEW v,
           NEW T, NEW U, Within(U, T, Len(s)), PairedIn(s, o, T), NEW x, NEW w,
           Truth(s, T, i, o, l, v, x, w)
    PROVE  Prefixed(s, r, U, i, o, l, v, x, w)
<1>0. Len(s) \in Nat
  BY DEF Extended
<1>1. ASSUME NEW j \in i + 1 .. Len(s), Stays(r, i, j, o, l)
      PROVE  Fits(r, U, i, j, o, l, v)
  <2>1. j \in Nat /\ j <= Len(s) + 1 /\ i \in Nat
    BY <1>0
  <2>2. Stays(s, i, j, o, l)
    BY <1>1, <2>1, PrefixSame
  <2>3. Fits(s, T, i, j, o, l, v)
    BY <2>2 DEF Truth
  <2> QED
    BY <2>1, <2>3, FitsExtended
<1>2. ASSUME NEW j \in Nat, Len(s) < j, Stays(r, i, j, o, l)
      PROVE  x = l /\ Tells(s, i, Len(s) + 1, o, v, w)
  BY <1>2, StaysBeyond DEF Truth
<1> QED
  BY <1>1, <1>2 DEF Prefixed

\* What comes behind may be entries of o at its place.
LEMMA TruthExtended ==
    ASSUME NEW s, NEW r, Extended(s, r), NEW i \in 0..Len(s), NEW o, NEW l, NEW v,
           NEW T, NEW U, Within(U, T, Len(s)), PairedIn(s, o, T), NEW x, NEW w,
           Truth(s, T, i, o, l, v, x, w),
           \A j \in Len(s) + 1 .. Len(r) : About(r[j], o) => IsEntry(r[j], o) /\ r[j].at = x /\ r[j].val = w
    PROVE  Truth(r, U, i, o, l, v, x, w)
<1>0. Len(s) \in Nat /\ Len(r) \in Nat /\ Len(s) <= Len(r)
  BY DEF Extended
<1>1. /\ \A j \in i + 1 .. Len(s) : Stays(r, i, j, o, l) => Fits(r, U, i, j, o, l, v)
      /\ \A j \in Nat : Len(s) < j /\ Stays(r, i, j, o, l) =>
            x = l /\ Tells(s, i, Len(s) + 1, o, v, w)
  <2>1. Prefixed(s, r, U, i, o, l, v, x, w)
    BY TruthPrefix, Zenon
  <2> QED
    BY <2>1 DEF Prefixed
<1>2. \A k \in Len(s) + 1 .. Len(r) : ~IsUpdate(r[k], o) /\ ~IsMove(r[k], o)
  BY Kinds
<1>3. ASSUME NEW j \in Nat, Len(s) < j, j <= Len(r) + 1, Stays(r, i, j, o, l)
      PROVE  x = l /\ Tells(r, i, j, o, v, w)
  <2>1. x = l /\ Tells(s, i, Len(s) + 1, o, v, w)
    BY <1>1, <1>3
  <2>2. \A k \in Len(s) + 1 .. j - 1 : ~IsUpdate(r[k], o)
    BY <1>0, <1>2, <1>3
  <2> QED
    BY <1>3, <2>1, <2>2, TellsBeyond
<1>4. ASSUME NEW j \in i + 1 .. Len(r), Stays(r, i, j, o, l)
      PROVE  Fits(r, U, i, j, o, l, v)
  <2>1. CASE j <= Len(s)
    BY <1>0, <1>1, <1>4, <2>1
  <2>2. CASE j > Len(s)
    <3>1. x = l /\ Tells(r, i, j, o, v, w)
      BY <1>0, <1>3, <1>4, <2>2
    <3>2. ~IsMove(r[j], o) /\ (About(r[j], o) => IsEntry(r[j], o) /\ r[j].at = x /\ r[j].val = w)
      BY <1>0, <1>2, <2>2
    <3> QED
      BY <3>1, <3>2, Kinds DEF Fits
  <2> QED
    BY <1>0, <2>1, <2>2
<1> QED
  BY <1>0, <1>3, <1>4 DEF Truth

\* ... or that it moves, and the entry of its new place, ...
LEMMA TruthMoved ==
    ASSUME NEW s, NEW r, Extended(s, r), NEW i \in 0..Len(s), NEW o, NEW l, NEW v,
           NEW T, NEW U, Within(U, T, Len(s)), PairedIn(s, o, T), NEW x, NEW w,
           Truth(s, T, i, o, l, v, x, w),
           Len(r) = Len(s) + 2, IsMove(r[Len(s) + 1], o), x = l => r[Len(s) + 1].to = {l},
           r[Len(s) + 2].val = w, NEW y, NEW u
    PROVE  Truth(r, U, i, o, l, v, y, u)
<1>0. Len(s) \in Nat
  BY DEF Extended
<1>1. /\ \A j \in i + 1 .. Len(s) : Stays(r, i, j, o, l) => Fits(r, U, i, j, o, l, v)
      /\ \A j \in Nat : Len(s) < j /\ Stays(r, i, j, o, l) =>
            x = l /\ Tells(s, i, Len(s) + 1, o, v, w)
  <2>1. Prefixed(s, r, U, i, o, l, v, x, w)
    BY TruthPrefix, Zenon
  <2> QED
    BY <2>1 DEF Prefixed
<1>2. ASSUME NEW j \in Nat, Len(s) + 1 < j, Stays(r, i, j, o, l)
      PROVE  FALSE
  <2>1. x = l
    BY <1>0, <1>1, <1>2
  <2>2. Leaves(r[Len(s) + 1], o, l)
    BY <2>1 DEF Leaves, IsMove
  <2>3. Len(s) + 1 \in i + 1 .. j - 1
    BY <1>0, <1>2
  <2> QED
    BY <1>2, <2>2, <2>3 DEF Stays
<1>3. ASSUME Stays(r, i, Len(s) + 1, o, l)
      PROVE  Fits(r, U, i, Len(s) + 1, o, l, v)
  <2>1. x = l /\ Tells(s, i, Len(s) + 1, o, v, w)
    BY <1>0, <1>1, <1>3
  <2>2. Tells(r, i, Len(s) + 1, o, v, w)
    BY <1>0, <2>1, PrefixSame
  <2>3. (Len(s) + 1) + 1 = Len(s) + 2
    BY <1>0
  <2> QED
    BY <2>1, <2>2, <2>3, Kinds DEF Fits
<1>4. ASSUME NEW j \in i + 1 .. Len(r), Stays(r, i, j, o, l)
      PROVE  Fits(r, U, i, j, o, l, v)
  BY <1>0, <1>1, <1>2, <1>3, <1>4
<1>5. ~Stays(r, i, Len(r) + 1, o, l)
  BY <1>0, <1>2
<1> QED
  BY <1>4, <1>5 DEF Truth

\* ... or that it is no more, ...
LEMMA TruthGone ==
    ASSUME NEW s, NEW r, Extended(s, r), NEW i \in 0..Len(s), NEW o, NEW l, NEW v,
           NEW T, NEW U, Within(U, T, Len(s)), PairedIn(s, o, T), NEW x, NEW w,
           Truth(s, T, i, o, l, v, x, w),
           Len(r) = Len(s) + 2, IsMove(r[Len(s) + 1], o), r[Len(s) + 1].to = {},
           r[Len(s) + 2].type = "DELETE_RAM", r[Len(s) + 2].obj = o, r[Len(s) + 2].to = {x}, NEW y, NEW u
    PROVE  Truth(r, U, i, o, l, v, y, u)
<1>0. Len(s) \in Nat
  BY DEF Extended
<1>1. /\ \A j \in i + 1 .. Len(s) : Stays(r, i, j, o, l) => Fits(r, U, i, j, o, l, v)
      /\ \A j \in Nat : Len(s) < j /\ Stays(r, i, j, o, l) =>
            x = l /\ Tells(s, i, Len(s) + 1, o, v, w)
  <2>1. Prefixed(s, r, U, i, o, l, v, x, w)
    BY TruthPrefix, Zenon
  <2> QED
    BY <2>1 DEF Prefixed
<1>2. Fits(r, U, i, Len(s) + 1, o, l, v)
  BY Kinds DEF Fits
<1>3. ASSUME Stays(r, i, Len(s) + 2, o, l)
      PROVE  Fits(r, U, i, Len(s) + 2, o, l, v)
  <2>1. x = l
    BY <1>0, <1>1, <1>3
  <2> QED
    BY <2>1 DEF Fits, IsEntry, IsMove
<1>4. ASSUME NEW j \in i + 1 .. Len(r), Stays(r, i, j, o, l)
      PROVE  Fits(r, U, i, j, o, l, v)
  BY <1>0, <1>1, <1>2, <1>3, <1>4
<1>5. ASSUME Stays(r, i, Len(r) + 1, o, l)
      PROVE  FALSE
  <2>1. x = l
    BY <1>0, <1>1, <1>5
  <2>2. Leaves(r[Len(s) + 2], o, l)
    BY <2>1 DEF Leaves
  <2>3. Len(s) + 2 \in i + 1 .. (Len(r) + 1) - 1
    BY <1>0
  <2> QED
    BY <1>5, <2>2, <2>3 DEF Stays
<1> QED
  BY <1>4, <1>5 DEF Truth

\* ... or its new value.
LEMMA TruthUpdated ==
    ASSUME NEW s, NEW r, Extended(s, r), NEW i \in 0..Len(s), NEW o, NEW l, NEW v,
           NEW T, NEW U, Within(U, T, Len(s)), PairedIn(s, o, T), NEW x, NEW w, NEW u,
           Truth(s, T, i, o, l, v, x, w),
           Len(r) = Len(s) + 1, IsUpdate(r[Len(s) + 1], o), r[Len(s) + 1].to = {x},
           r[Len(s) + 1].val = u
    PROVE  Truth(r, U, i, o, l, v, x, u)
<1>0. Len(s) \in Nat
  BY DEF Extended
<1>1. /\ \A j \in i + 1 .. Len(s) : Stays(r, i, j, o, l) => Fits(r, U, i, j, o, l, v)
      /\ \A j \in Nat : Len(s) < j /\ Stays(r, i, j, o, l) =>
            x = l /\ Tells(s, i, Len(s) + 1, o, v, w)
  <2>1. Prefixed(s, r, U, i, o, l, v, x, w)
    BY TruthPrefix, Zenon
  <2> QED
    BY <2>1 DEF Prefixed
<1>2. ASSUME Stays(r, i, Len(s) + 1, o, l)
      PROVE  Fits(r, U, i, Len(s) + 1, o, l, v)
  <2>1. x = l
    BY <1>0, <1>1, <1>2
  <2> QED
    BY <2>1, Kinds DEF Fits
<1>3. ASSUME NEW j \in i + 1 .. Len(r), Stays(r, i, j, o, l)
      PROVE  Fits(r, U, i, j, o, l, v)
  BY <1>0, <1>1, <1>2, <1>3
<1>4. Tells(r, i, Len(r) + 1, o, v, u)
  <2>1. Len(s) + 1 \in i + 1 .. (Len(r) + 1) - 1
    BY <1>0
  <2>2. (Len(s) + 1) + 1 .. (Len(r) + 1) - 1 = {}
    BY <1>0
  <2> QED
    BY <2>1, <2>2 DEF Tells
<1>5. Stays(r, i, Len(r) + 1, o, l) => x = l
  BY <1>0, <1>1
<1> QED
  BY <1>3, <1>4, <1>5 DEF Truth

\* Who is shown o at its place when all is told is told the truth.
LEMMA TruthNow ==
    ASSUME NEW s, Len(s) \in Nat, NEW T, NEW o, NEW x, NEW w
    PROVE  Truth(s, T, Len(s), o, x, w, x, w)
BY TellsNothing DEF Truth

-----------------------------------------------------------------------------
(* The inductive invariant of ViewExact *)

\* Unless a race has hit all objects.
Calm == strayed # Object

Coming(l) == \E i \in 1..Len(uplink) : uplink[i] = SetMsg(l)
Going(l)  == \E i \in 1..Len(uplink) : uplink[i] = RemoveMsg(l)

SharedQuiet == \A l \in Shared : ~Coming(l) /\ ~Going(l)

\* What the agent hears and what the master has it subscribed to differ by
\* what is on its way.
Mirror == \A l \in Location \ Shared :
    /\ Coming(l) => l \notin upstream
    /\ l \in channels => ~Going(l) /\ (Coming(l) \/ l \in upstream)
    /\ l \notin channels =>
         \/ \E i \in 1..Len(uplink) : /\ uplink[i] = RemoveMsg(l)
                                      /\ \A j \in i + 1 .. Len(uplink) : uplink[j] # SetMsg(l)
         \/ ~Coming(l) /\ l \notin upstream
    /\ Going(l) => l \in left
    /\ \A i, j \in 1..Len(uplink) : uplink[i] = SetMsg(l) /\ uplink[j] = SetMsg(l) => i = j

\* A query follows the subscriptions to its locations.
QueryOrder == \A k \in 1..Len(uplink) : uplink[k].type = "QUERY" =>
    \A l \in Zones(uplink[k].parent, uplink[k].zones) :
        /\ l \in channels \union left
        /\ \A j \in k + 1 .. Len(uplink) : uplink[j] # SetMsg(l)

\* Something of l has been on its way to the client, or is.
Touched(l) ==
    \/ \E i \in 1..Len(inbox) : l \in inbox[i].to
    \/ \E i \in 1..Len(Pipe) : /\ Pipe[i].type = "ENTERZONE" /\ Self \in Pipe[i].to
                               /\ Pipe[i].at = l /\ Pipe[i].obj \notin strayed
    \/ \E i \in 1..Len(Serving) : /\ Serving[i].type = "QUERY"
                                  /\ l \in Zones(Serving[i].parent, Serving[i].zones)

\* A subscription is on its way only to locations the client knows nothing of.
Clean == \A l \in Location : Touched(l) => ~Coming(l) /\ l \in (left \ channels) \union Routed

\* The answer to the last query of an interest, and whether it has been given.
AnswersFor(ints, m, h) == /\ m.type = "DONE" /\ m.handle = h
                          /\ ints[h] # None /\ ints[h].context = m.context
Answered(h) == /\ interests[h] # None
               /\ interests[h].done \/ \E i \in 1..Len(Pipe) : AnswersFor(interests, Pipe[i], h)

\* The subscriptions of an interest precede its answer.
DoneHeard == \A h \in Handle : Answered(h) => \A l \in Locations(interests[h]) : ~Coming(l)

Asks(ints, m, h) == /\ m.type = "QUERY" /\ m.handle = h
                    /\ ints[h] # None /\ ints[h].context = m.context
AsksRight(ints, m) == \A h \in Handle :
    Asks(ints, m, h) => m.parent = ints[h].parent /\ m.zones = ints[h].zones

\* Contexts are not used twice.
Numbered ==
    /\ \A h \in Handle : interests[h] # None => interests[h].context <= requests
    /\ \A i \in 1..Len(uplink) : uplink[i].type = "QUERY" => uplink[i].context <= requests /\ AsksRight(interests, uplink[i])
    /\ \A i \in 1..Len(Serving) : Serving[i].type = "QUERY" => Serving[i].context <= requests /\ AsksRight(interests, Serving[i])
    /\ \A i \in 1..Len(Pipe) : Pipe[i].type = "DONE" => Pipe[i].context <= requests

\* To whom a datagram about an object goes.
Addressed(m) ==
    /\ m.type = "ENTERZONE" => m.to \in {{Self}, {m.at}}
    /\ m.type = "CHANGE_ZONE" => m.to = {} \/ \E x \in Location : m.to = {x}
    /\ m.type \in {"UPDATE_FIELD", "DELETE_RAM"} => \E x \in Location : m.to = {x}
Plain == \A i \in 1..Len(Pipe) : Addressed(Pipe[i])

\* An interest in x is done before what stands at j reaches the client.
Certain(x, j) == \E h \in Handle :
    /\ x \in Locations(interests[h])
    /\ interests[h].done \/ \E d \in 1..j - 1 : d <= Len(Pipe) /\ AnswersFor(interests, Pipe[d], h)
Sure == {e \in (1..Len(Pipe)) \X Location : e[1] > Len(inbox) \/ Certain(e[2], e[1])}

\* A move is followed by the entry.
Paired(o) == \A i \in 1..Len(Pipe) :
    IsMove(Pipe[i], o) /\ <<i, Pipe[i].new>> \in Sure =>
        i + 1 <= Len(Pipe) /\ EntryOf(Pipe[i + 1], o, Pipe[i].new)

Told(i, o, l, v) == Truth(Pipe, Sure, i, o, l, v, place[o], value[o])

EntriesGood(o) == \A i \in 1..Len(Pipe) :
    IsEntry(Pipe[i], o) /\ (i > Len(inbox) \/ Pipe[i].at \in Routed) => Told(i, o, Pipe[i].at, Pipe[i].val)

\* What of an object can be pending.
QueueShape(o) ==
    /\ shown[o] # Unseen => shown[o].at \in Covered(interests)
    /\ shown[o] # Unseen /\ queued[o] # <<>> => queued[o][1].at = shown[o].at
    /\ \A k \in 1..Len(queued[o]) :
          /\ About(queued[o][k], o)
          /\ queued[o][k].type = "ENTERZONE" <=> k = 1
          /\ shown[o] # Unseen => queued[o][k].type \in {"ENTERZONE", "CHANGE_ZONE"}
          /\ queued[o][k].type = "CHANGE_ZONE" /\ queued[o][k].new \in Covered(interests) =>
                /\ k = Len(queued[o]) /\ Pipe # <<>>
                /\ EntryOf(Pipe[1], o, queued[o][k].new) /\ ~Coming(queued[o][k].new)

\* The client has o at l with v, if nothing else comes.
Has(c, q, l, v) ==
    /\ \A k \in 1..Len(q) : q[k].type \in {"ENTERZONE", "UPDATE_FIELD"}
    /\ IF c # Unseen THEN c = [at |-> l, val |-> v]
                     ELSE q # <<>> /\ q[1].at = l /\ q[Len(q)].val = v

Seen(o) == \A l \in Covered(interests) : \A v \in Value :
    Has(shown[o], queued[o], l, v) => ~Coming(l) /\ Told(0, o, l, v)

\* The parents list o at its place when they have handled all its moves.
Listed(o) ==
    /\ (\A k \in 1..Len(Serving) : ~IsMove(Serving[k], o)) /\ place[o] # Nowhere => <<place[o], o>> \in index
    /\ \A k \in 1..Len(Serving) :
          IsMove(Serving[k], o) /\ (\A j \in k + 1 .. Len(Serving) : ~IsMove(Serving[j], o))
            => Serving[k].new = place[o]

\* The client has o at its place, or will be shown it there.
Near(o) ==
    \/ /\ \E v \in Value : Has(shown[o], queued[o], place[o], v)
       /\ \A i \in 1..Len(Pipe) : ~Leaves(Pipe[i], o, place[o])
    \/ \E i \in 1..Len(Pipe) : /\ IsEntry(Pipe[i], o) /\ Pipe[i].at = place[o]
                               /\ \A j \in i + 1 .. Len(Pipe) : ~Leaves(Pipe[j], o, place[o])

\* What an interest was answered is complete, or will be when the object has
\* moved behind its query.
MovesLater(k, o) == \E j \in k + 1 .. Len(Serving) : IsMove(Serving[j], o)
Complete(o) == \A h \in Handle : place[o] \in Locations(interests[h]) =>
    /\ Answered(h) => Near(o)
    /\ \A k \in 1..Len(Serving) : Asks(interests, Serving[k], h) /\ MovesLater(k, o) => Near(o)

\* What the client, the master and the parents agree on, and what holds of an
\* object that no race has hit.
Subscribed == SharedQuiet /\ Numbered /\ Plain /\ (Calm => Mirror /\ QueryOrder /\ Clean /\ DoneHeard)
Followed(o) == Paired(o) /\ EntriesGood(o) /\ QueueShape(o) /\ Seen(o) /\ Listed(o) /\ Complete(o)

-----------------------------------------------------------------------------
(* What the steps do to the datagrams on their way *)

Datagrams == News \union Queries \union Answers

\* Taking the head of the first part removes the first position, ...
LEMMA HeadRemoved ==
    ASSUME NEW M, NEW s \in Seq(M), NEW t \in Seq(M), s # <<>>
    PROVE  Removed(s \o t, Tail(s) \o t, 1) /\ (s \o t)[1] = Head(s)
<1>1. /\ Tail(s) \in Seq(M) /\ Len(Tail(s)) = Len(s) - 1 /\ Len(s) \in Nat /\ Len(t) \in Nat
      /\ \A i \in 1 .. Len(Tail(s)) : Tail(s)[i] = s[i + 1]
      /\ Len(s) > 0 /\ Head(s) = s[1]
  BY HeadTailProperties
<1>2. /\ Len(s \o t) = Len(s) + Len(t)
      /\ \A i \in 1 .. Len(s) + Len(t) : (s \o t)[i] = IF i <= Len(s) THEN s[i] ELSE t[i - Len(s)]
  BY ConcatProperties
<1>3. /\ Len(Tail(s) \o t) = Len(Tail(s)) + Len(t)
      /\ \A i \in 1 .. Len(Tail(s)) + Len(t) :
            (Tail(s) \o t)[i] = IF i <= Len(Tail(s)) THEN Tail(s)[i] ELSE t[i - Len(Tail(s))]
  BY <1>1, ConcatProperties
<1>4. ASSUME NEW j \in 1 .. Len(Tail(s) \o t)
      PROVE  (Tail(s) \o t)[j] = IF j < 1 THEN (s \o t)[j] ELSE (s \o t)[j + 1]
  BY <1>1, <1>2, <1>3
<1>5. /\ Len(s \o t) \in Nat /\ Len(Tail(s) \o t) = Len(s \o t) - 1 /\ 1 \in 1..Len(s \o t)
      /\ (s \o t)[1] = Head(s)
  BY <1>1, <1>2, <1>3
<1> QED
  BY <1>4, <1>5 DEF Removed

\* The parts of a sequence may be joined in any order.
Regrouped(a, b, c) == a \o (b \o c) = (a \o b) \o c

LEMMA Regroup ==
    ASSUME NEW D, NEW a \in Seq(D), NEW b \in Seq(D), NEW c \in Seq(D)
    PROVE  Regrouped(a, b, c)
<1>1. (a \o b) \o c = a \o (b \o c)
  BY ConcatAssociative
<1> QED
  BY <1>1, Zenon DEF Regrouped

\* ... taking the head of the second part the position behind the first part, ...
LEMMA MiddleRemoved ==
    ASSUME NEW M, NEW s \in Seq(M), NEW t \in Seq(M), t # <<>>
    PROVE  Removed(s \o t, s \o Tail(t), Len(s) + 1) /\ (s \o t)[Len(s) + 1] = Head(t)
<1>1. /\ Tail(t) \in Seq(M) /\ Len(Tail(t)) = Len(t) - 1 /\ Len(s) \in Nat /\ Len(t) \in Nat
      /\ \A i \in 1 .. Len(Tail(t)) : Tail(t)[i] = t[i + 1]
      /\ Len(t) > 0 /\ Head(t) = t[1]
  BY HeadTailProperties
<1>2. /\ Len(s \o t) = Len(s) + Len(t)
      /\ \A i \in 1 .. Len(s) + Len(t) : (s \o t)[i] = IF i <= Len(s) THEN s[i] ELSE t[i - Len(s)]
  BY ConcatProperties
<1>3. /\ Len(s \o Tail(t)) = Len(s) + Len(Tail(t))
      /\ \A i \in 1 .. Len(s) + Len(Tail(t)) :
            (s \o Tail(t))[i] = IF i <= Len(s) THEN s[i] ELSE Tail(t)[i - Len(s)]
  BY <1>1, ConcatProperties
<1>4. ASSUME NEW j \in 1 .. Len(s \o Tail(t))
      PROVE  (s \o Tail(t))[j] = IF j < Len(s) + 1 THEN (s \o t)[j] ELSE (s \o t)[j + 1]
  <2>1. CASE j <= Len(s)
    BY <1>1, <1>2, <1>3, <2>1
  <2>2. CASE j > Len(s)
    <3>1. j - Len(s) \in 1 .. Len(Tail(t)) /\ j + 1 - Len(s) = (j - Len(s)) + 1
      BY <1>1, <1>3, <2>2
    <3>2. (s \o Tail(t))[j] = t[(j - Len(s)) + 1]
      BY <1>1, <1>3, <2>2, <3>1
    <3> QED
      BY <1>1, <1>2, <1>3, <2>2, <3>1, <3>2
  <2> QED
    BY <1>1, <1>3, <2>1, <2>2
<1> QED
  BY <1>1, <1>2, <1>3, <1>4 DEF Removed

\* ... and moving it to the first part changes nothing.
LEMMA ShiftMiddle ==
    ASSUME NEW M, NEW s \in Seq(M), NEW t \in Seq(M), t # <<>>
    PROVE  Append(s, Head(t)) \o Tail(t) = s \o t
<1>1. /\ Tail(t) \in Seq(M) /\ Head(t) \in M /\ t = <<Head(t)>> \o Tail(t)
  BY HeadTailProperties
<1>2. Append(s, Head(t)) = s \o <<Head(t)>> /\ <<Head(t)>> \in Seq(M)
  BY <1>1, AppendIsConcat
<1>3. Regrouped(s, <<Head(t)>>, Tail(t))
  BY <1>1, <1>2, Regroup
<1> QED
  BY <1>1, <1>2, <1>3, Zenon DEF Regrouped

\* A sequence with another one behind it, ...
LEMMA Longer ==
    ASSUME NEW M, NEW s \in Seq(M), NEW t \in Seq(M)
    PROVE  /\ Extended(s, s \o t) /\ s \o t \in Seq(M) /\ Len(s \o t) = Len(s) + Len(t)
           /\ \A j \in 1..Len(t) : (s \o t)[Len(s) + j] = t[j]
           /\ \A j \in Len(s) + 1 .. Len(s \o t) : j - Len(s) \in 1..Len(t) /\ (s \o t)[j] = t[j - Len(s)]
<1>1. /\ Len(s \o t) = Len(s) + Len(t) /\ s \o t \in Seq(M)
      /\ \A i \in 1 .. Len(s) + Len(t) : (s \o t)[i] = IF i <= Len(s) THEN s[i] ELSE t[i - Len(s)]
      /\ Len(s) \in Nat /\ Len(t) \in Nat
  BY ConcatProperties
<1>2. ASSUME NEW j \in 1..Len(t)
      PROVE  (s \o t)[Len(s) + j] = t[j]
  <2>1. (Len(s) + j) - Len(s) = j /\ Len(s) + j \in 1 .. Len(s) + Len(t) /\ ~(Len(s) + j <= Len(s))
    BY <1>1
  <2> QED
    BY <1>1, <2>1
<1>3. ASSUME NEW j \in Len(s) + 1 .. Len(s \o t)
      PROVE  j - Len(s) \in 1..Len(t) /\ (s \o t)[j] = t[j - Len(s)]
  BY <1>1
<1>4. Extended(s, s \o t)
  BY <1>1 DEF Extended
<1> QED
  BY <1>1, <1>2, <1>3, <1>4

\* ... or a single message.
LEMMA OneLonger ==
    ASSUME NEW M, NEW s \in Seq(M), NEW m \in M
    PROVE  LET r == s \o <<m>>
           IN  Extended(s, r) /\ Len(r) = Len(s) + 1 /\ r[Len(s) + 1] = m
<1> DEFINE t == <<m>>
<1>1. t \in Seq(M) /\ Len(t) = 1 /\ t[1] = m /\ 1 \in 1..Len(t)
  OBVIOUS
<1> HIDE DEF t
<1>2. /\ Extended(s, s \o t) /\ Len(s \o t) = Len(s) + Len(t)
      /\ \A j \in 1..Len(t) : (s \o t)[Len(s) + j] = t[j]
  BY <1>1, Longer
<1>3. Extended(s, s \o t) /\ Len(s \o t) = Len(s) + 1 /\ (s \o t)[Len(s) + 1] = m
  BY <1>1, <1>2
<1> QED
  BY <1>3, Zenon DEF t

\* The types and lengths of Pipe and Serving.
LEMMA PipeIs ==
    ASSUME TypeOK
    PROVE  /\ inbox \in Seq(Datagrams) /\ routing \in Seq(Datagrams) /\ atServer \in Seq(Datagrams)
           /\ Len(inbox) \in Nat /\ Len(routing) \in Nat /\ Len(atServer) \in Nat
           /\ Pipe \in Seq(Datagrams) /\ Len(Pipe) = Len(inbox) + Len(routing) /\ Len(Pipe) \in Nat
           /\ \A i \in 1..Len(Pipe) : Pipe[i] \in Datagrams
           /\ \A i \in 1..Len(inbox) : Pipe[i] = inbox[i] /\ i <= Len(Pipe)
           /\ Serving \in Seq(Datagrams) /\ Len(Serving) = Len(atServer) + Len(routing)
           /\ Len(Serving) \in Nat
           /\ \A i \in 1..Len(Serving) : Serving[i] \in Datagrams
<1>1. inbox \in Seq(Datagrams) /\ routing \in Seq(Datagrams)
  BY DEF TypeOK, Datagrams
<1>2. atServer \in Seq(Datagrams)
  <2>1. Moves \union Queries \subseteq Datagrams
    BY DEF News, Datagrams
  <2> QED
    BY <2>1 DEF TypeOK
<1>3. Len(inbox) \in Nat /\ Len(routing) \in Nat /\ Len(atServer) \in Nat
  BY <1>1, <1>2, LenProperties
<1>4. /\ Pipe \in Seq(Datagrams) /\ Len(Pipe) = Len(inbox) + Len(routing)
      /\ \A i \in 1..Len(inbox) : Pipe[i] = inbox[i] /\ i <= Len(Pipe)
  BY <1>1, <1>3, ConcatProperties DEF Pipe
<1>5. Serving \in Seq(Datagrams) /\ Len(Serving) = Len(atServer) + Len(routing)
  BY <1>1, <1>2, ConcatProperties DEF Serving
<1>6. \A i \in 1..Len(Pipe) : Pipe[i] \in Datagrams
  BY <1>4, ElementOfSeq
<1>7. \A i \in 1..Len(Serving) : Serving[i] \in Datagrams
  BY <1>5, ElementOfSeq
<1> QED
  BY <1>1, <1>2, <1>3, <1>4, <1>5, <1>6, <1>7

\* The kinds of datagrams.
LEMMA DatagramKinds ==
    ASSUME NEW m \in Datagrams
    PROVE  /\ m.type = "DONE" => m \in Answers /\ m.to = {Self}
           /\ m.type = "QUERY" => m \in Queries /\ m.to = {}
           /\ m.type = "CHANGE_ZONE" => m \in Moves
           /\ \A o : About(m, o) => m \in News /\ o \in Object /\ m.type \notin {"DONE", "QUERY"}
           /\ m \in Answers => m.type = "DONE" /\ m.to = {Self}
           /\ m \in Queries => m.type = "QUERY" /\ m.to = {}
           /\ m.to \subseteq Location \union {Self}
BY DEF Datagrams, News, Moves, Queries, Answers, About

\* Receive takes the first datagram away.
LEMMA ReceivePipe ==
    ASSUME TypeOK, Receive
    PROVE  /\ Removed(Pipe, Pipe', 1) /\ Pipe[1] = Head(inbox) /\ Pipe[1] \in Datagrams
           /\ Len(inbox) > 0 /\ Len(inbox)' = Len(inbox) - 1
           /\ Serving' = Serving
           /\ UNCHANGED <<channels, uplink, upstream, place, value, index, requests, left>>
<1>1. inbox # <<>> /\ inbox' = Tail(inbox) /\ routing' = routing
  BY DEF Receive
<1>2. Pipe' = Tail(inbox) \o routing
  BY <1>1 DEF Pipe
<1>3. /\ Removed(inbox \o routing, Tail(inbox) \o routing, 1)
      /\ (inbox \o routing)[1] = Head(inbox)
  BY <1>1, PipeIs, HeadRemoved
<1>4. Head(inbox) \in Datagrams /\ Len(Tail(inbox)) = Len(inbox) - 1 /\ Len(inbox) > 0
  BY <1>1, PipeIs, HeadTailProperties
<1>5. Removed(Pipe, Pipe', 1) /\ Pipe[1] = Head(inbox)
  BY <1>2, <1>3, Zenon DEF Pipe
<1>6. Serving' = Serving
  BY DEF Serving, Receive
<1> QED
  BY <1>1, <1>4, <1>5, <1>6 DEF Receive, serverVars

\* Forward takes the first message of the uplink, and queues it if it is a query.
LEMMA ForwardPipe ==
    ASSUME TypeOK, Forward
    PROVE  /\ Removed(uplink, uplink', 1) /\ uplink[1] = Head(uplink)
           /\ uplink[1] \in Control \union Queries
           /\ \/ /\ \/ uplink[1].type = "SET_CHANNEL" /\ upstream' = upstream \union {uplink[1].channel}
                    \/ uplink[1].type = "REMOVE_CHANNEL" /\ upstream' = upstream \ {uplink[1].channel}
                 /\ Pipe' = Pipe /\ Serving' = Serving
              \/ /\ uplink[1].type = "QUERY" /\ uplink[1] \in Queries /\ upstream' = upstream
                 /\ Extended(Pipe, Pipe') /\ Len(Pipe') = Len(Pipe) + 1 /\ Pipe'[Len(Pipe) + 1] = uplink[1]
                 /\ Extended(Serving, Serving') /\ Len(Serving') = Len(Serving) + 1
                 /\ Serving'[Len(Serving) + 1] = uplink[1]
           /\ UNCHANGED <<clientVars, inbox, place, value, index, requests, left, strayed>>
<1> DEFINE m == Head(uplink)
<1>1. uplink # <<>> /\ uplink' = Tail(uplink) /\ inbox' = inbox /\ atServer' = atServer
  BY DEF Forward
<1>2. uplink \in Seq(Control \union Queries)
  BY DEF TypeOK
<1>3. Removed(uplink, uplink', 1) /\ uplink[1] = m /\ m \in Control \union Queries
  <2>1. <<>> \in Seq(Control \union Queries)
    OBVIOUS
  <2>2. /\ Removed(uplink \o <<>>, Tail(uplink) \o <<>>, 1)
        /\ (uplink \o <<>>)[1] = Head(uplink)
    BY <1>1, <1>2, <2>1, HeadRemoved
  <2>3. Tail(uplink) \in Seq(Control \union Queries) /\ m \in Control \union Queries
    BY <1>1, <1>2, HeadTailProperties
  <2>4. uplink \o <<>> = uplink /\ Tail(uplink) \o <<>> = Tail(uplink)
    BY <1>2, <2>3, ConcatEmptySeq
  <2> QED
    BY <1>1, <2>2, <2>3, <2>4, Zenon
<1> HIDE DEF m
<1>4. CASE /\ \/ m.type = "SET_CHANNEL" /\ upstream' = upstream \union {m.channel}
              \/ m.type = "REMOVE_CHANNEL" /\ upstream' = upstream \ {m.channel}
           /\ UNCHANGED routing
  <2>1. Pipe' = Pipe /\ Serving' = Serving
    BY <1>1, <1>4 DEF Pipe, Serving
  <2> QED
    BY <1>3, <1>4, <2>1 DEF Forward, serverVars, m
<1>5. CASE m.type = "QUERY" /\ routing' = Append(routing, m) /\ UNCHANGED upstream
  <2>1. m \in Queries /\ m \in Datagrams /\ <<m>> \in Seq(Datagrams)
    BY <1>3, <1>5 DEF Control, Datagrams
  <2>2. routing' = routing \o <<m>>
    BY <1>5, <2>1, PipeIs, AppendIsConcat
  <2>3. Pipe' = Pipe \o <<m>> /\ Serving' = Serving \o <<m>>
    <3>1. /\ inbox \o (routing \o <<m>>) = (inbox \o routing) \o <<m>>
          /\ atServer \o (routing \o <<m>>) = (atServer \o routing) \o <<m>>
      <4> DEFINE t == <<m>>
      <4>1. t \in Seq(Datagrams) /\ inbox \in Seq(Datagrams) /\ routing \in Seq(Datagrams) /\ atServer \in Seq(Datagrams)
        BY <2>1, PipeIs
      <4> HIDE DEF t
      <4>2. Regrouped(inbox, routing, t) /\ Regrouped(atServer, routing, t)
        BY <4>1, Regroup
      <4> QED
        BY <4>2, Zenon DEF t, Regrouped
    <3> QED
      BY <1>1, <2>2, <3>1, Zenon DEF Pipe, Serving
  <2>5. /\ Extended(Pipe, Pipe') /\ Len(Pipe') = Len(Pipe) + 1 /\ Pipe'[Len(Pipe) + 1] = m
        /\ Extended(Serving, Serving') /\ Len(Serving') = Len(Serving) + 1
        /\ Serving'[Len(Serving) + 1] = m
    <3>1. LET r == Pipe \o <<m>> IN Extended(Pipe, r) /\ Len(r) = Len(Pipe) + 1 /\ r[Len(Pipe) + 1] = m
      BY <2>1, PipeIs, OneLonger, Zenon
    <3>2. LET r == Serving \o <<m>>
          IN  Extended(Serving, r) /\ Len(r) = Len(Serving) + 1 /\ r[Len(Serving) + 1] = m
      BY <2>1, PipeIs, OneLonger, Zenon
    <3> QED
      BY <2>3, <3>1, <3>2, Zenon
  <2> QED
    BY <1>3, <1>5, <2>1, <2>5 DEF Forward, serverVars, m
<1> QED
  BY <1>4, <1>5 DEF Forward, m

\* Route moves a datagram over to the agent, or it is not heard there.
LEMMA RoutePipe ==
    ASSUME TypeOK, Route
    PROVE  LET n == Len(inbox) + 1
           IN  /\ n \in 1..Len(Pipe) /\ Pipe[n] = Head(routing)
               /\ \/ /\ Pipe' = Pipe /\ Len(inbox)' = n /\ Pipe[n].to \intersect (Routed \union {Self}) # {}
                     /\ inbox'[n] = Pipe[n] /\ \A i \in 1..Len(inbox) : inbox'[i] = inbox[i]
                  \/ /\ Removed(Pipe, Pipe', n) /\ inbox' = inbox
                     /\ Pipe[n].to \intersect (Routed \union {Self}) = {}
               /\ \/ Serving' = Serving
                  \/ \E k \in 1..Len(Serving) : /\ Removed(Serving, Serving', k)
                                                /\ Serving[k].type \notin {"QUERY", "CHANGE_ZONE"}
               /\ UNCHANGED <<clientVars, uplink, upstream, place, value, index, requests, left, strayed>>
<1> DEFINE n == Len(inbox) + 1
           m == Head(routing)
<1>1. routing # <<>> /\ routing' = Tail(routing)
  BY DEF Route
<1>2. m \in Datagrams /\ Len(Tail(routing)) = Len(routing) - 1 /\ Len(routing) > 0 /\ Tail(routing) \in Seq(Datagrams)
  BY <1>1, PipeIs, HeadTailProperties
<1>3. /\ Removed(inbox \o routing, inbox \o Tail(routing), n) /\ (inbox \o routing)[n] = m
      /\ Append(inbox, m) \o Tail(routing) = inbox \o routing
  BY <1>1, PipeIs, MiddleRemoved, ShiftMiddle
<1>4. /\ Removed(atServer \o routing, atServer \o Tail(routing), Len(atServer) + 1)
      /\ (atServer \o routing)[Len(atServer) + 1] = m
      /\ Append(atServer, m) \o Tail(routing) = atServer \o routing
  BY <1>1, PipeIs, MiddleRemoved, ShiftMiddle
<1>5. n \in 1..Len(Pipe) /\ Pipe[n] = m
  <2>1. Pipe[n] = m
    BY <1>3, Zenon DEF Pipe
  <2> QED
    BY <1>2, <2>1, PipeIs
<1> HIDE DEF m
<1>6. \/ /\ Pipe' = Pipe /\ Len(inbox)' = n /\ m.to \intersect (Routed \union {Self}) # {}
         /\ inbox'[n] = m /\ \A i \in 1..Len(inbox) : inbox'[i] = inbox[i]
      \/ Removed(Pipe, Pipe', n) /\ inbox' = inbox /\ m.to \intersect (Routed \union {Self}) = {}
  <2>1. CASE m.to \intersect (Routed \union {Self}) # {}
    <3>1. inbox' = Append(inbox, m)
      BY <2>1 DEF Route, Routed, m
    <3>2. Pipe' = Pipe
      BY <1>1, <1>3, <3>1, Zenon DEF Pipe
    <3>3. /\ Len(Append(inbox, m)) = n /\ Append(inbox, m)[n] = m
          /\ \A i \in 1..Len(inbox) : Append(inbox, m)[i] = inbox[i]
      BY <1>2, PipeIs, AppendProperties
    <3> QED
      BY <2>1, <3>1, <3>2, <3>3
  <2>2. CASE m.to \intersect (Routed \union {Self}) = {}
    <3>1. inbox' = inbox
      BY <2>2 DEF Route, Routed, m
    <3>2. Pipe' = inbox \o Tail(routing)
      BY <1>1, <3>1 DEF Pipe
    <3>3. Removed(Pipe, Pipe', n)
      BY <1>3, <3>2, Zenon DEF Pipe
    <3> QED
      BY <2>2, <3>1, <3>3
  <2> QED
    BY <2>1, <2>2
<1>7. \/ Serving' = Serving
      \/ \E k \in 1..Len(Serving) : /\ Removed(Serving, Serving', k)
                                    /\ Serving[k].type \notin {"QUERY", "CHANGE_ZONE"}
  <2>1. CASE m.type \in {"QUERY", "CHANGE_ZONE"}
    <3>1. atServer' = Append(atServer, m)
      BY <2>1 DEF Route, m
    <3> QED
      BY <1>1, <1>4, <3>1, Zenon DEF Serving
  <2>2. CASE m.type \notin {"QUERY", "CHANGE_ZONE"}
    <3>1. atServer' = atServer
      BY <2>2 DEF Route, m
    <3>2. Serving' = atServer \o Tail(routing)
      BY <1>1, <3>1 DEF Serving
    <3>3. Removed(Serving, Serving', Len(atServer) + 1) /\ Serving[Len(atServer) + 1] = m
      BY <1>4, <3>2, Zenon DEF Serving
    <3>4. Len(atServer) + 1 \in 1..Len(Serving)
      BY <1>2, PipeIs
    <3> QED
      BY <2>2, <3>3, <3>4
  <2> QED
    BY <2>1, <2>2
<1> QED
  BY <1>5, <1>6, <1>7 DEF Route, serverVars, m

\* The orderings of a finite set list every element.
LEMMA OrderingsComplete ==
    ASSUME NEW S, IsFiniteSet(S), NEW order \in SetToSeqs(S)
    PROVE  /\ Cardinality(S) \in Nat
           /\ order \in [1 .. Cardinality(S) -> S]
           /\ \A i, j \in 1 .. Cardinality(S) : order[i] = order[j] => i = j
           /\ \A x \in S : \E i \in 1 .. Cardinality(S) : order[i] = x
<1> DEFINE D == 1 .. Cardinality(S)
<1>1. Cardinality(S) \in Nat
  BY FS_CardinalityType
<1>2. order \in [D -> S] /\ \A i, j \in D : i # j => order[i] # order[j]
  BY DEF SetToSeqs
<1>3. order \in Injection(D, S)
  BY <1>2, Fun_IsInj
<1>4. Cardinality(D) = Cardinality(S)
  BY <1>1, FS_Interval
<1>5. order \in Surjection(D, S)
  BY <1>3, <1>4, FS_Injection
<1> QED
  BY <1>1, <1>2, <1>5, Fun_SurjectionProperties

\* What is sent behind the rest.
LEMMA Sent ==
    ASSUME TypeOK, NEW w \in Seq(Datagrams), routing' = routing \o w, UNCHANGED <<inbox, atServer>>
    PROVE  /\ Extended(Pipe, Pipe') /\ Len(Pipe') = Len(Pipe) + Len(w)
           /\ \A j \in 1..Len(w) : Pipe'[Len(Pipe) + j] = w[j]
           /\ \A j \in Len(Pipe) + 1 .. Len(Pipe') : j - Len(Pipe) \in 1..Len(w) /\ Pipe'[j] = w[j - Len(Pipe)]
           /\ Extended(Serving, Serving') /\ Len(Serving') = Len(Serving) + Len(w)
           /\ \A j \in 1..Len(w) : Serving'[Len(Serving) + j] = w[j]
           /\ \A j \in Len(Serving) + 1 .. Len(Serving') :
                 j - Len(Serving) \in 1..Len(w) /\ Serving'[j] = w[j - Len(Serving)]
<1>1. inbox \in Seq(Datagrams) /\ routing \in Seq(Datagrams) /\ atServer \in Seq(Datagrams)
      /\ Pipe \in Seq(Datagrams) /\ Serving \in Seq(Datagrams)
  BY PipeIs
<1>2. Regrouped(inbox, routing, w) /\ Regrouped(atServer, routing, w)
  BY <1>1, Regroup
<1>3. Pipe' = inbox \o (routing \o w) /\ Serving' = atServer \o (routing \o w)
  BY Zenon DEF Pipe, Serving
<1>4. Pipe' = Pipe \o w /\ Serving' = Serving \o w
  BY <1>2, <1>3, Zenon DEF Regrouped, Pipe, Serving
<1>5. /\ Extended(Pipe, Pipe \o w) /\ Len(Pipe \o w) = Len(Pipe) + Len(w)
      /\ \A j \in 1..Len(w) : (Pipe \o w)[Len(Pipe) + j] = w[j]
      /\ \A j \in Len(Pipe) + 1 .. Len(Pipe \o w) : j - Len(Pipe) \in 1..Len(w) /\ (Pipe \o w)[j] = w[j - Len(Pipe)]
  BY <1>1, Longer
<1>6. /\ Extended(Serving, Serving \o w) /\ Len(Serving \o w) = Len(Serving) + Len(w)
      /\ \A j \in 1..Len(w) : (Serving \o w)[Len(Serving) + j] = w[j]
      /\ \A j \in Len(Serving) + 1 .. Len(Serving \o w) :
            j - Len(Serving) \in 1..Len(w) /\ (Serving \o w)[j] = w[j - Len(Serving)]
  BY <1>1, Longer
<1> QED
  BY <1>4, <1>5, <1>6, Zenon

\* What the answer to query m consists of.
Reply(r, m) == \/ r = Done(m)
               \/ \E o \in Object : /\ place[o] # Nowhere
                                    /\ \E l \in Zones(m.parent, m.zones) : <<l, o>> \in index
                                    /\ r = Entry(o, {Self}, place[o])

\* It consists of entries and the end, and if it ends it has an entry of each
\* object that is listed.
LEMMA Replies ==
    ASSUME TypeOK, NEW m \in Queries, AnswerQuery(m)
    PROVE  \E w \in Seq(Datagrams) :
              /\ routing' = routing \o w
              /\ \A j \in 1..Len(w) : Reply(w[j], m)
              /\ \A j \in 1..Len(w), o \in Object, l \in Zones(m.parent, m.zones) :
                    w[j].type = "DONE" /\ <<l, o>> \in index =>
                       place[o] # Nowhere /\ \E i \in 1..Len(w) : w[i] = Entry(o, {Self}, place[o])
<1> DEFINE S == {e[2] : e \in {e \in index : e[1] \in Zones(m.parent, m.zones)}}
<1>1. S \subseteq Object /\ \A o \in S : \E l \in Zones(m.parent, m.zones) : <<l, o>> \in index
  <2>1. \A e \in index : e = <<e[1], e[2]>> /\ e[2] \in Object
    BY DEF TypeOK
  <2> QED
    BY <2>1
<1>2. PICK order \in SetToSeqs(S) :
        LET live(n)  == \A i \in 1..n : place[order[i]] # Nowhere
            n        == CHOOSE n \in 0..Len(order) : live(n) /\ (n = Len(order) \/ ~live(n + 1))
            entries  == [i \in 1..n |-> Entry(order[i], {Self}, place[order[i]])]
        IN  /\ routing' = routing \o entries \o (IF n = Len(order) THEN <<Done(m)>> ELSE <<>>)
            /\ unanswered' = IF n = Len(order) THEN unanswered ELSE unanswered \union {m.context}
  BY DEF AnswerQuery
<1>3. IsFiniteSet(S)
  BY <1>1, InterestAssumption, FS_Subset
<1>4. /\ order \in Seq(Object) /\ Len(order) \in Nat
      /\ \A i \in 1..Len(order) : order[i] \in S
      /\ \A x \in S : \E i \in 1..Len(order) : order[i] = x
  <2>1. /\ Cardinality(S) \in Nat
        /\ order \in [1 .. Cardinality(S) -> S]
        /\ \A x \in S : \E i \in 1 .. Cardinality(S) : order[i] = x
    BY <1>3, OrderingsComplete
  <2> HIDE DEF S
  <2>2. order \in Seq(S) /\ Len(order) = Cardinality(S)
    BY <2>1
  <2>3. order \in Seq(Object)
    BY <1>1, <2>2
  <2> QED
    BY <2>1, <2>2, <2>3
<1> DEFINE live(n) == \A i \in 1..n : place[order[i]] # Nowhere
           Longest(n) == live(n) /\ (n = Len(order) \/ ~live(n + 1))
           n == CHOOSE n \in 0..Len(order) : Longest(n)
           entries == [i \in 1..n |-> Entry(order[i], {Self}, place[order[i]])]
           end == IF n = Len(order) THEN <<Done(m)>> ELSE <<>>
<1>5. \E k \in 0..Len(order) : Longest(k)
  <2> DEFINE T == {k \in Nat : k = Len(order) \/ ~live(k + 1)}
  <2>1. PICK k \in T : \A j \in T : k <= j
    <3>1. T \in SUBSET Nat /\ Len(order) \in T
      BY <1>4
    <3> HIDE DEF T
    <3> QED
      BY <3>1, Least
  <2>2. k \in 0..Len(order)
    BY <1>4, <2>1
  <2>3. live(k)
    <3>1. CASE k = 0
      BY <3>1
    <3>2. CASE k # 0
      <4>1. k - 1 \in Nat /\ k - 1 \notin T /\ k - 1 + 1 = k
        BY <2>1, <2>2, <3>2
      <4> QED
        BY <4>1
    <3> QED
      BY <3>1, <3>2
  <2> HIDE DEF live
  <2> QED
    BY <2>1, <2>2, <2>3
<1>6. n \in 0..Len(order) /\ live(n) /\ n \in Nat
  <2>1. n \in 0..Len(order) /\ Longest(n)
    <3> HIDE DEF Longest
    <3> QED
      BY <1>5, Zenon
  <2> HIDE DEF n, live
  <2> QED
    BY <1>4, <2>1
<1>7. routing' = (routing \o entries) \o end
  BY <1>2
<1> HIDE DEF n
<1>8. ASSUME NEW i \in 1..n
      PROVE  /\ order[i] \in Object /\ place[order[i]] # Nowhere
             /\ Entry(order[i], {Self}, place[order[i]]) \in Datagrams
             /\ Reply(Entry(order[i], {Self}, place[order[i]]), m)
  <2>1. order[i] \in S /\ order[i] \in Object /\ place[order[i]] # Nowhere
    BY <1>1, <1>4, <1>6
  <2>2. place[order[i]] \in Location
    BY <2>1 DEF TypeOK
  <2>3. Entry(order[i], {Self}, place[order[i]]) \in Datagrams
    BY <2>1, <2>2, EntryType DEF Datagrams
  <2>4. \E l \in Zones(m.parent, m.zones) : <<l, order[i]>> \in index
    BY <1>1, <2>1
  <2> QED
    BY <2>1, <2>3, <2>4 DEF Reply
<1>9. /\ entries \in Seq(Datagrams) /\ Len(entries) = n
      /\ \A i \in 1..n : entries[i] = Entry(order[i], {Self}, place[order[i]]) /\ Reply(entries[i], m)
  <2>1. entries \in [1..n -> Datagrams] /\ \A i \in 1..n : entries[i] = Entry(order[i], {Self}, place[order[i]])
    BY <1>8
  <2> HIDE DEF entries
  <2>2. entries \in Seq(Datagrams) /\ Len(entries) = n
    BY <1>6, <2>1
  <2> QED
    BY <1>8, <2>1, <2>2
<1>10. /\ end \in Seq(Datagrams) /\ \A j \in 1..Len(end) : end[j] = Done(m) /\ n = Len(order)
  <2>1. Done(m) \in Datagrams
    BY DEF Done, Answers, Queries, Datagrams
  <2>2. CASE n = Len(order)
    <3>1. end = <<Done(m)>>
      BY <2>2
    <3> HIDE DEF end
    <3> QED
      BY <2>1, <2>2, <3>1
  <2>3. CASE n # Len(order)
    <3>1. end = <<>>
      BY <2>3
    <3> HIDE DEF end
    <3> QED
      BY <3>1
  <2> QED
    BY <2>2, <2>3
<1> HIDE DEF entries, end
<1> DEFINE w == entries \o end
<1>11. /\ w \in Seq(Datagrams) /\ Len(w) = n + Len(end) /\ Len(end) \in Nat
       /\ \A j \in 1 .. n + Len(end) : w[j] = IF j <= n THEN entries[j] ELSE end[j - n]
  <2>1. entries \in Seq(Datagrams) /\ end \in Seq(Datagrams) /\ Len(entries) = n /\ Len(end) \in Nat
    BY <1>9, <1>10, LenProperties
  <2>2. /\ entries \o end \in Seq(Datagrams)
        /\ Len(entries \o end) = Len(entries) + Len(end)
        /\ \A j \in 1 .. Len(entries) + Len(end) :
              (entries \o end)[j] = IF j <= Len(entries) THEN entries[j] ELSE end[j - Len(entries)]
    BY <2>1, ConcatProperties
  <2> QED
    BY <2>1, <2>2
<1>12. routing' = routing \o w
  <2>1. routing \in Seq(Datagrams)
    BY PipeIs
  <2>2. Regrouped(routing, entries, end)
    BY <1>9, <1>10, <2>1, Regroup
  <2> QED
    BY <1>7, <2>2, Zenon DEF Regrouped
<1> HIDE DEF w
<1>13. ASSUME NEW j \in 1..Len(w)
       PROVE  Reply(w[j], m) /\ (w[j].type = "DONE" => n = Len(order))
  <2>1. CASE j <= n
    <3>1. w[j] = Entry(order[j], {Self}, place[order[j]]) /\ Reply(w[j], m)
      <4>1. j \in 1..n /\ w[j] = entries[j]
        BY <1>6, <1>11, <2>1
      <4> QED
        BY <1>9, <4>1
    <3> QED
      BY <3>1 DEF Entry
  <2>2. CASE j > n
    <3>1. j \in 1 .. n + Len(end) /\ ~(j <= n) /\ j - n \in 1..Len(end)
      BY <1>6, <1>11, <2>2
    <3>2. w[j] = end[j - n]
      BY <1>11, <3>1, Zenon
    <3> QED
      BY <1>10, <3>1, <3>2 DEF Reply
  <2> QED
    BY <1>6, <2>1, <2>2
<1>14. ASSUME NEW j \in 1..Len(w), NEW o \in Object, NEW l \in Zones(m.parent, m.zones),
              w[j].type = "DONE", <<l, o>> \in index
       PROVE  place[o] # Nowhere /\ \E i \in 1..Len(w) : w[i] = Entry(o, {Self}, place[o])
  <2>1. n = Len(order)
    BY <1>13, <1>14
  <2>2. o \in S
    <3>1. <<l, o>>[1] = l /\ <<l, o>>[2] = o
      OBVIOUS
    <3> QED
      BY <1>14, <3>1
  <2>3. PICK i \in 1..n : order[i] = o
    BY <1>4, <2>1, <2>2
  <2>4. i \in 1..Len(w) /\ w[i] = entries[i]
    BY <1>6, <1>11
  <2> QED
    BY <1>8, <1>9, <2>3, <2>4
<1> QED
  BY <1>11, <1>12, <1>13, <1>14

\* One and two datagrams sent behind the rest.
Behind(s, r, a, b) == /\ Extended(s, r) /\ Len(r) = Len(s) + 2
                      /\ r[Len(s) + 1] = a /\ r[Len(s) + 2] = b
BehindOne(s, r, a) == Extended(s, r) /\ Len(r) = Len(s) + 1 /\ r[Len(s) + 1] = a

\* Two datagrams sent come behind all others, for the client and the parents, ...
LEMMA TwoSent ==
    ASSUME TypeOK, NEW a \in Datagrams, NEW b \in Datagrams, routing' = routing \o <<a, b>>,
           UNCHANGED <<inbox, atServer>>
    PROVE  Behind(Pipe, Pipe', a, b) /\ Behind(Serving, Serving', a, b)
<1> DEFINE w == <<a, b>>
<1>1. w \in Seq(Datagrams) /\ Len(w) = 2 /\ w[1] = a /\ w[2] = b
  OBVIOUS
<1>2. routing' = routing \o w
  OBVIOUS
<1> HIDE DEF w
<1>3. /\ Extended(Pipe, Pipe') /\ Len(Pipe') = Len(Pipe) + Len(w)
      /\ \A j \in 1..Len(w) : Pipe'[Len(Pipe) + j] = w[j]
      /\ Extended(Serving, Serving') /\ Len(Serving') = Len(Serving) + Len(w)
      /\ \A j \in 1..Len(w) : Serving'[Len(Serving) + j] = w[j]
  BY <1>1, <1>2, Sent
<1>4. 1 \in 1..Len(w) /\ 2 \in 1..Len(w)
  BY <1>1
<1> QED
  BY <1>1, <1>3, <1>4 DEF Behind

\* ... and so does one.
LEMMA OneSent ==
    ASSUME TypeOK, NEW a \in Datagrams, routing' = Append(routing, a), UNCHANGED <<inbox, atServer>>
    PROVE  BehindOne(Pipe, Pipe', a) /\ BehindOne(Serving, Serving', a)
<1> DEFINE w == <<a>>
<1>1. w \in Seq(Datagrams) /\ Len(w) = 1 /\ w[1] = a
  OBVIOUS
<1>2. routing' = routing \o w
  BY PipeIs, AppendIsConcat
<1> HIDE DEF w
<1>3. /\ Extended(Pipe, Pipe') /\ Len(Pipe') = Len(Pipe) + Len(w)
      /\ \A j \in 1..Len(w) : Pipe'[Len(Pipe) + j] = w[j]
      /\ Extended(Serving, Serving') /\ Len(Serving') = Len(Serving) + Len(w)
      /\ \A j \in 1..Len(w) : Serving'[Len(Serving) + j] = w[j]
  BY <1>1, <1>2, Sent
<1>4. 1 \in 1..Len(w)
  BY <1>1
<1> QED
  BY <1>1, <1>3, <1>4 DEF BehindOne

\* What an event sends.
Sends(o) ==
    \/ \E l \in Location :
          /\ place' = [place EXCEPT ![o] = l] /\ value' = value
          /\ LET a == ChangeZone(o, IF place[o] = Nowhere THEN {} ELSE {place[o]}, l, place[o])
                 b == Entry(o, {l}, l)
             IN  Behind(Pipe, Pipe', a, b) /\ Behind(Serving, Serving', a, b)
    \/ /\ place[o] # Nowhere /\ place' = [place EXCEPT ![o] = Nowhere] /\ value' = value
       /\ LET a == ChangeZone(o, {}, Nowhere, place[o])
              b == DeleteRam(o)
          IN  Behind(Pipe, Pipe', a, b) /\ Behind(Serving, Serving', a, b)
    \/ /\ place[o] # Nowhere /\ place' = place /\ value' = [value EXCEPT ![o] = events + 1]
       /\ LET a == Update(o, events + 1)
          IN  BehindOne(Pipe, Pipe', a) /\ BehindOne(Serving, Serving', a)

Happening(o) == Annihilate(o) \/ UpdateField(o) \/ \E l \in Location : Move(o, l)

\* An event sends something and changes nothing of the client.
LEMMA EventPipe ==
    ASSUME TypeOK, NEW o \in Object, Happening(o)
    PROVE  /\ Sends(o)
           /\ UNCHANGED <<clientVars, uplink, inbox, upstream, index, requests, left, strayed>>
<1>1. Happens
  BY DEF Happening, Annihilate, UpdateField, Move
<1>2. UNCHANGED <<clientVars, uplink, inbox, atServer, upstream, index, requests, left, strayed>>
  BY <1>1 DEF Happens
<1>3. place[o] \in Location \union {Nowhere} /\ events + 1 \in Value
  BY <1>1, Bounds DEF TypeOK, Happens, Value
<1>4. CASE Annihilate(o)
  <2> DEFINE a == ChangeZone(o, {}, Nowhere, place[o])
             b == DeleteRam(o)
  <2>1. a \in Datagrams /\ b \in Datagrams
    BY <1>3, <1>4 DEF Annihilate, ChangeZone, DeleteRam, News, Moves, Datagrams
  <2>2. routing' = routing \o <<a, b>> /\ place[o] # Nowhere /\ place' = [place EXCEPT ![o] = Nowhere] /\ value' = value
    BY <1>4 DEF Annihilate
  <2> HIDE DEF a, b
  <2>3. Behind(Pipe, Pipe', a, b) /\ Behind(Serving, Serving', a, b)
    BY <1>2, <2>1, <2>2, TwoSent
  <2> QED
    BY <1>2, <2>2, <2>3, Zenon DEF Sends, a, b
<1>5. CASE UpdateField(o)
  <2> DEFINE a == Update(o, events + 1)
  <2>1. a \in Datagrams
    BY <1>3, <1>5 DEF UpdateField, Update, News, Datagrams
  <2>2. /\ routing' = Append(routing, a) /\ place[o] # Nowhere /\ place' = place
        /\ value' = [value EXCEPT ![o] = events + 1]
    BY <1>5 DEF UpdateField
  <2> HIDE DEF a
  <2>3. BehindOne(Pipe, Pipe', a) /\ BehindOne(Serving, Serving', a)
    BY <1>2, <2>1, <2>2, OneSent
  <2> QED
    BY <1>2, <2>2, <2>3, Zenon DEF Sends, a
<1>6. ASSUME NEW l \in Location, Move(o, l) PROVE Sends(o)
  <2> DEFINE a == ChangeZone(o, IF place[o] = Nowhere THEN {} ELSE {place[o]}, l, place[o])
             b == Entry(o, {l}, l)
  <2>1. a \in Datagrams /\ b \in Datagrams
    BY <1>3, EntryType DEF ChangeZone, News, Moves, Datagrams
  <2>2. routing' = routing \o <<a, b>> /\ place' = [place EXCEPT ![o] = l] /\ value' = value
    BY <1>6 DEF Move
  <2> HIDE DEF a, b
  <2>3. Behind(Pipe, Pipe', a, b) /\ Behind(Serving, Serving', a, b)
    BY <1>2, <2>1, <2>2, TwoSent
  <2> QED
    BY <2>2, <2>3, Zenon DEF Sends, a, b
<1> QED
  BY <1>2, <1>4, <1>5, <1>6 DEF Happening

\* What the state server does with a query m: Pipe grows by the answer, and
\* for the parents the query is gone and the answer comes behind.
Answering(m) ==
    /\ Extended(Pipe, Pipe')
    /\ \A j \in Len(Pipe) + 1 .. Len(Pipe') : Reply(Pipe'[j], m)
    /\ \A j \in Len(Pipe) + 1 .. Len(Pipe'), o \in Object, l \in Zones(m.parent, m.zones) :
          Pipe'[j].type = "DONE" /\ <<l, o>> \in index =>
             /\ place[o] # Nowhere
             /\ \E i \in Len(Pipe) + 1 .. Len(Pipe') : Pipe'[i] = Entry(o, {Self}, place[o])
    /\ \E u : /\ Removed(Serving, u, 1) /\ Extended(u, Serving')
              /\ \A k \in Len(u) + 1 .. Len(Serving') : Reply(Serving'[k], m)

\* Serve answers a query or lists a move, the first of what comes to the parents.
LEMMA ServePipe ==
    ASSUME TypeOK, Serve
    PROVE  /\ Len(Serving) > 0 /\ Serving[1] \in Moves \union Queries
           /\ \/ /\ Serving[1] \in Queries /\ Answering(Serving[1])
                 /\ index' = index /\ strayed' = strayed \union Misplaced(Serving[1])
              \/ /\ Serving[1] \in Moves /\ Reindex(Serving[1]) /\ Pipe' = Pipe
                 /\ Removed(Serving, Serving', 1) /\ strayed' = strayed
           /\ UNCHANGED <<clientVars, uplink, inbox, upstream, place, value, requests, left>>
<1> DEFINE m == Head(atServer)
           mid == Tail(atServer) \o routing
<1>1. atServer # <<>> /\ atServer' = Tail(atServer) /\ inbox' = inbox
      /\ UNCHANGED <<clientVars, uplink, inbox, upstream, place, value, requests, left>>
  BY DEF Serve
<1>2. m \in Moves \union Queries
  BY <1>1, HeadTailProperties DEF TypeOK
<1>3. Tail(atServer) \in Seq(Datagrams)
  BY <1>1, PipeIs, HeadTailProperties
<1>4. Removed(Serving, mid, 1) /\ Serving[1] = m
  BY <1>1, PipeIs, HeadRemoved DEF Serving
<1>5. Len(Serving) > 0 /\ Len(Serving) \in Nat
  BY <1>4 DEF Removed
<1> HIDE DEF m
<1>6. CASE m.type = "QUERY"
  <2>1. m \in Queries /\ AnswerQuery(m) /\ index' = index /\ strayed' = strayed \union Misplaced(m)
    BY <1>2, <1>6 DEF Serve, m, Moves
  <2>2. PICK w \in Seq(Datagrams) :
              /\ routing' = routing \o w
              /\ \A j \in 1..Len(w) : Reply(w[j], m)
              /\ \A j \in 1..Len(w), o \in Object, l \in Zones(m.parent, m.zones) :
                    w[j].type = "DONE" /\ <<l, o>> \in index =>
                       place[o] # Nowhere /\ \E i \in 1..Len(w) : w[i] = Entry(o, {Self}, place[o])
    BY <2>1, Replies
  <2>3. /\ inbox \in Seq(Datagrams) /\ routing \in Seq(Datagrams) /\ Pipe \in Seq(Datagrams) /\ mid \in Seq(Datagrams)
        /\ Len(Pipe) \in Nat /\ Len(w) \in Nat
    BY <1>3, PipeIs, ConcatProperties
  <2>4. Pipe' = Pipe \o w /\ Serving' = mid \o w
    <3>1. Regrouped(inbox, routing, w) /\ Regrouped(Tail(atServer), routing, w)
      BY <1>3, <2>3, Regroup
    <3> QED
      BY <1>1, <2>2, <3>1, Zenon DEF Pipe, Serving, Regrouped
  <2> HIDE DEF mid
  <2>5. /\ Extended(Pipe, Pipe \o w) /\ Len(Pipe \o w) = Len(Pipe) + Len(w)
        /\ \A j \in 1..Len(w) : (Pipe \o w)[Len(Pipe) + j] = w[j]
        /\ \A j \in Len(Pipe) + 1 .. Len(Pipe \o w) : j - Len(Pipe) \in 1..Len(w) /\ (Pipe \o w)[j] = w[j - Len(Pipe)]
    BY <2>3, Longer
  <2>6. /\ Extended(mid, mid \o w) /\ Len(mid \o w) = Len(mid) + Len(w)
        /\ \A j \in Len(mid) + 1 .. Len(mid \o w) : j - Len(mid) \in 1..Len(w) /\ (mid \o w)[j] = w[j - Len(mid)]
    BY <2>3, Longer
  <2>7. Extended(Pipe, Pipe') /\ \A j \in Len(Pipe) + 1 .. Len(Pipe') : Reply(Pipe'[j], m)
    BY <2>2, <2>4, <2>5
  <2>8. ASSUME NEW j \in Len(Pipe) + 1 .. Len(Pipe'), NEW o \in Object, NEW l \in Zones(m.parent, m.zones),
               Pipe'[j].type = "DONE", <<l, o>> \in index
        PROVE  /\ place[o] # Nowhere
               /\ \E i \in Len(Pipe) + 1 .. Len(Pipe') : Pipe'[i] = Entry(o, {Self}, place[o])
    <3>1. j - Len(Pipe) \in 1..Len(w) /\ w[j - Len(Pipe)].type = "DONE"
      BY <2>4, <2>5, <2>8
    <3>2. place[o] # Nowhere /\ \E i \in 1..Len(w) : w[i] = Entry(o, {Self}, place[o])
      BY <2>2, <2>8, <3>1
    <3>3. PICK i \in 1..Len(w) : w[i] = Entry(o, {Self}, place[o])
      BY <3>2
    <3>4. Len(Pipe) + i \in Len(Pipe) + 1 .. Len(Pipe') /\ Pipe'[Len(Pipe) + i] = w[i]
      BY <2>3, <2>4, <2>5
    <3> QED
      BY <3>2, <3>3, <3>4
  <2>9. /\ Removed(Serving, mid, 1) /\ Extended(mid, Serving')
        /\ \A k \in Len(mid) + 1 .. Len(Serving') : Reply(Serving'[k], m)
    BY <1>4, <2>2, <2>4, <2>6
  <2>10. Answering(m)
    BY <2>7, <2>8, <2>9 DEF Answering
  <2> QED
    BY <1>1, <1>4, <1>5, <2>1, <2>10
<1>7. CASE m.type = "CHANGE_ZONE"
  <2>1. m \in Moves /\ Reindex(m) /\ routing' = routing /\ strayed' = strayed
    BY <1>2, <1>7 DEF Serve, m, Queries
  <2>2. Pipe' = Pipe /\ Serving' = mid
    BY <1>1, <2>1 DEF Pipe, Serving
  <2> QED
    BY <1>1, <1>4, <1>5, <2>1, <2>2
<1> QED
  BY <1>6, <1>7 DEF Serve, m

-----------------------------------------------------------------------------
(* What the client has the master subscribe *)

Fresh(gone, wanted) == (wanted \ (channels \ gone)) \ Shared

\* What subscribing and unsubscribing, and asking with the query q if any,
\* sends to the master: each location once.
Resubscribed(gone, fresh, q) ==
    /\ Extended(uplink, uplink')
    /\ \A j \in Len(uplink) + 1 .. Len(uplink') :
          \/ \E l \in gone \ Shared : uplink'[j] = RemoveMsg(l)
          \/ \E l \in fresh : uplink'[j] = SetMsg(l)
          \/ j = Len(uplink') /\ q # <<>> /\ uplink'[j] = q[1]
    /\ \A l \in gone \ Shared : \E j \in Len(uplink) + 1 .. Len(uplink') : uplink'[j] = RemoveMsg(l)
    /\ \A l \in fresh : \E j \in Len(uplink) + 1 .. Len(uplink') : uplink'[j] = SetMsg(l)
    /\ \A i, j \in Len(uplink) + 1 .. Len(uplink') : \A l \in fresh :
          uplink'[i] = SetMsg(l) /\ uplink'[j] = SetMsg(l) => i = j

\* Subscriptions and unsubscriptions are told apart, and from queries.
LEMMA Messages ==
    /\ \A k, l : RemoveMsg(k) # SetMsg(l)
    /\ \A k, l : RemoveMsg(k) = RemoveMsg(l) => k = l
    /\ \A k, l : SetMsg(k) = SetMsg(l) => k = l
    /\ \A l : SetMsg(l).type = "SET_CHANNEL" /\ SetMsg(l).channel = l
    /\ \A l : RemoveMsg(l).type = "REMOVE_CHANNEL" /\ RemoveMsg(l).channel = l
    /\ \A l, m : m.type = "QUERY" => m # SetMsg(l) /\ m # RemoveMsg(l)
<1>1. /\ \A l : SetMsg(l).type = "SET_CHANNEL" /\ SetMsg(l).channel = l
      /\ \A l : RemoveMsg(l).type = "REMOVE_CHANNEL" /\ RemoveMsg(l).channel = l
  BY DEF SetMsg, RemoveMsg
<1>2. \A k, l : RemoveMsg(k) # SetMsg(l)
  BY <1>1
<1>3. \A k, l : RemoveMsg(k) = RemoveMsg(l) => k = l
  BY <1>1
<1>4. \A k, l : SetMsg(k) = SetMsg(l) => k = l
  BY <1>1
<1>5. \A l, m : m.type = "QUERY" => m # SetMsg(l) /\ m # RemoveMsg(l)
  BY <1>1
<1> QED
  BY <1>1, <1>2, <1>3, <1>4, <1>5

ConsistsOf(s, a, b, c, d) ==
    /\ Len(s) = Len(a) + Len(b) + Len(c) + Len(d)
    /\ \A i \in 1..Len(a) : s[i] = a[i]
    /\ \A i \in 1..Len(b) : s[Len(a) + i] = b[i]
    /\ \A i \in 1..Len(c) : s[Len(a) + Len(b) + i] = c[i]
    /\ \A i \in 1..Len(d) : s[Len(a) + Len(b) + Len(c) + i] = d[i]

\* The positions of a sequence of four parts.
LEMMA FourPieces ==
    ASSUME NEW M, NEW a \in Seq(M), NEW b \in Seq(M), NEW c \in Seq(M), NEW d \in Seq(M)
    PROVE  ConsistsOf(((a \o b) \o c) \o d, a, b, c, d)
<1>0. Len(a) \in Nat /\ Len(b) \in Nat /\ Len(c) \in Nat /\ Len(d) \in Nat
  OBVIOUS
<1>9. ASSUME NEW e \in Seq(M), NEW f \in Seq(M)
      PROVE  /\ e \o f \in Seq(M) /\ Len(e \o f) = Len(e) + Len(f)
             /\ \A i \in 1..Len(e) : (e \o f)[i] = e[i]
             /\ \A i \in 1..Len(f) : (e \o f)[Len(e) + i] = f[i]
  <2>1. /\ Extended(e, e \o f) /\ e \o f \in Seq(M) /\ Len(e \o f) = Len(e) + Len(f)
        /\ \A i \in 1..Len(f) : (e \o f)[Len(e) + i] = f[i]
    BY Longer
  <2> QED
    BY <2>1 DEF Extended
<1> DEFINE x == a \o b
<1>1. /\ x \in Seq(M) /\ Len(x) = Len(a) + Len(b) /\ \A i \in 1..Len(a) : x[i] = a[i]
      /\ \A i \in 1..Len(b) : x[Len(a) + i] = b[i]
  BY <1>9
<1> HIDE DEF x
<1> DEFINE y == x \o c
<1>2. /\ y \in Seq(M) /\ Len(y) = Len(x) + Len(c) /\ \A i \in 1..Len(x) : y[i] = x[i]
      /\ \A i \in 1..Len(c) : y[Len(x) + i] = c[i]
  BY <1>1, <1>9
<1> HIDE DEF y
<1> DEFINE s == y \o d
<1>3. /\ Len(s) = Len(y) + Len(d) /\ \A i \in 1..Len(y) : s[i] = y[i]
      /\ \A i \in 1..Len(d) : s[Len(y) + i] = d[i]
  BY <1>2, <1>9
<1> HIDE DEF s
<1>4. Len(y) = Len(a) + Len(b) + Len(c) /\ Len(s) = Len(a) + Len(b) + Len(c) + Len(d)
  BY <1>0, <1>1, <1>2, <1>3
<1>5. ASSUME NEW i \in 1..Len(a) PROVE s[i] = a[i]
  <2>1. i \in 1..Len(x) /\ i \in 1..Len(y)
    BY <1>0, <1>1, <1>4
  <2> QED
    BY <1>1, <1>2, <1>3, <2>1
<1>6. ASSUME NEW i \in 1..Len(b) PROVE s[Len(a) + i] = b[i]
  <2>1. Len(a) + i \in 1..Len(x) /\ Len(a) + i \in 1..Len(y)
    BY <1>0, <1>1, <1>4
  <2> QED
    BY <1>1, <1>2, <1>3, <2>1
<1>7. ASSUME NEW i \in 1..Len(c) PROVE s[Len(a) + Len(b) + i] = c[i]
  <2>1. Len(x) + i \in 1..Len(y)
    BY <1>0, <1>1, <1>4
  <2> QED
    BY <1>1, <1>2, <1>3, <2>1
<1>8. ASSUME NEW i \in 1..Len(d) PROVE s[Len(a) + Len(b) + Len(c) + i] = d[i]
  BY <1>3, <1>4
<1>10. ConsistsOf(s, a, b, c, d)
  BY <1>4, <1>5, <1>6, <1>7, <1>8 DEF ConsistsOf
<1> QED
  BY <1>10 DEF s, y, x

\* Resubscribe sends the unsubscriptions, the subscriptions and the query (subscribe_channel).
LEMMA ResubscribeIs ==
    ASSUME TypeOK, NEW gone \in SUBSET Location, NEW wanted \in SUBSET Location,
           NEW q \in Seq(Queries), Len(q) <= 1, Resubscribe(gone, wanted, q)
    PROVE  /\ Resubscribed(gone, Fresh(gone, wanted), q)
           /\ channels' = (channels \ gone) \union wanted /\ left' = left \union gone
<1> DEFINE G == gone \ Shared
           F == Fresh(gone, wanted)
           M == Control \union Queries
<1>1. PICK removed \in SetToSeqs(G), added \in SetToSeqs(F) :
        /\ channels' = (channels \ gone) \union wanted
        /\ left' = left \union gone
        /\ uplink' = uplink \o [i \in DOMAIN removed |-> RemoveMsg(removed[i])]
                            \o [i \in DOMAIN added |-> SetMsg(added[i])] \o q
  BY DEF Resubscribe, Fresh
<1>2. G \subseteq Location /\ F \subseteq Location /\ IsFiniteSet(G) /\ IsFiniteSet(F)
  <2>1. G \subseteq Location /\ F \subseteq Location
    BY DEF Fresh
  <2> HIDE DEF G, F
  <2> QED
    BY <2>1, LocationsFinite, FS_Subset
<1> HIDE DEF G, F
<1> DEFINE n == Cardinality(G)
           k == Cardinality(F)
           off == [i \in DOMAIN removed |-> RemoveMsg(removed[i])]
           on  == [i \in DOMAIN added |-> SetMsg(added[i])]
<1>3. /\ n \in Nat /\ removed \in [1..n -> G]
      /\ \A x \in G : \E i \in 1..n : removed[i] = x
  BY <1>2, OrderingsComplete
<1>4. /\ k \in Nat /\ added \in [1..k -> F]
      /\ \A i, j \in 1..k : added[i] = added[j] => i = j
      /\ \A x \in F : \E i \in 1..k : added[i] = x
  BY <1>2, OrderingsComplete
<1>5. /\ off \in Seq(M) /\ Len(off) = n /\ \A i \in 1..n : off[i] = RemoveMsg(removed[i])
      /\ on \in Seq(M) /\ Len(on) = k /\ \A i \in 1..k : on[i] = SetMsg(added[i])
  <2>1. \A l \in Location : RemoveMsg(l) \in M /\ SetMsg(l) \in M
    BY DEF RemoveMsg, SetMsg, Control
  <2>2. /\ off \in [1..n -> M] /\ \A i \in 1..n : off[i] = RemoveMsg(removed[i])
        /\ on \in [1..k -> M] /\ \A i \in 1..k : on[i] = SetMsg(added[i])
    BY <1>2, <1>3, <1>4, <2>1
  <2> HIDE DEF off, on, n, k, M
  <2> QED
    BY <1>3, <1>4, <2>2
<1>6. uplink \in Seq(M) /\ q \in Seq(M) /\ Len(q) \in Nat /\ Len(uplink) \in Nat
  BY DEF TypeOK
<1>7. uplink' = ((uplink \o off) \o on) \o q
  BY <1>1
<1> HIDE DEF off, on, n, k, M
<1> DEFINE u == Len(uplink)
<1>10. ConsistsOf(uplink', uplink, off, on, q)
  <2>1. uplink \in Seq(M) /\ off \in Seq(M) /\ on \in Seq(M) /\ q \in Seq(M)
    BY <1>5, <1>6
  <2>2. ConsistsOf(((uplink \o off) \o on) \o q, uplink, off, on, q)
    BY <2>1, FourPieces
  <2> QED
    BY <1>7, <2>2
<1> HIDE DEF u
<1>11. u \in Nat /\ n \in Nat /\ k \in Nat /\ Len(q) \in Nat /\ Len(uplink') = u + n + k + Len(q)
  BY <1>3, <1>4, <1>5, <1>6, <1>10 DEF u, ConsistsOf
<1>12. /\ \A i \in 1..u : uplink'[i] = uplink[i]
       /\ \A i \in 1..n : uplink'[u + i] = RemoveMsg(removed[i])
       /\ \A i \in 1..k : uplink'[u + n + i] = SetMsg(added[i])
       /\ \A i \in 1..Len(q) : uplink'[u + n + k + i] = q[i]
  BY <1>5, <1>10 DEF u, ConsistsOf
<1>13. Extended(uplink, uplink')
  BY <1>11, <1>12 DEF Extended, u
<1>14. ASSUME NEW j \in u + 1 .. Len(uplink')
       PROVE  \/ \E i \in 1..n : j = u + i
              \/ \E i \in 1..k : j = u + n + i
              \/ j = Len(uplink') /\ j = u + n + k + 1 /\ Len(q) = 1
  <2>1. CASE j <= u + n
    <3>1. j - u \in 1..n /\ j = u + (j - u)
      BY <1>11, <2>1
    <3> QED
      BY <3>1
  <2>2. CASE u + n < j /\ j <= u + n + k
    <3>1. j - (u + n) \in 1..k /\ j = u + n + (j - (u + n))
      BY <1>11, <2>2
    <3> QED
      BY <3>1
  <2>3. CASE u + n + k < j
    <3>1. u + n + k \in Nat /\ j \in Nat /\ j <= u + n + k + Len(q) /\ Len(q) <= 1 /\ Len(q) \in Nat
      BY <1>11
    <3>2. Len(q) = 1 /\ j = u + n + k + 1
      <4> DEFINE a == u + n + k
                 b == Len(q)
      <4>1. a \in Nat /\ b \in Nat /\ b <= 1 /\ j \in Nat /\ a < j /\ j <= a + b
        BY <2>3, <3>1
      <4> HIDE DEF a, b
      <4>2. b = 1 /\ j = a + 1
        BY <4>1
      <4> QED
        BY <4>2 DEF a, b
    <3> QED
      BY <1>11, <3>2
  <2> QED
    BY <1>11, <2>1, <2>2, <2>3
<1>15. ASSUME NEW j \in u + 1 .. Len(uplink')
       PROVE  \/ \E l \in G : uplink'[j] = RemoveMsg(l)
              \/ \E l \in F : uplink'[j] = SetMsg(l)
              \/ j = Len(uplink') /\ q # <<>> /\ uplink'[j] = q[1]
  <2>1. ASSUME NEW i \in 1..n, j = u + i PROVE \E l \in G : uplink'[j] = RemoveMsg(l)
    BY <1>3, <1>12, <2>1
  <2>2. ASSUME NEW i \in 1..k, j = u + n + i PROVE \E l \in F : uplink'[j] = SetMsg(l)
    BY <1>4, <1>12, <2>2
  <2>3. CASE j = Len(uplink') /\ j = u + n + k + 1 /\ Len(q) = 1
    <3>1. 1 \in 1..Len(q)
      BY <2>3
    <3>2. q # <<>>
      <4>1. Len(q) # Len(<<>>)
        BY <2>3
      <4> QED
        BY <4>1, Zenon
    <3> QED
      BY <1>12, <2>3, <3>1, <3>2
  <2> QED
    BY <1>14, <2>1, <2>2, <2>3
<1>16. ASSUME NEW l \in G PROVE \E j \in u + 1 .. Len(uplink') : uplink'[j] = RemoveMsg(l)
  <2>1. PICK i \in 1..n : removed[i] = l
    BY <1>3
  <2>2. u + i \in u + 1 .. Len(uplink')
    BY <1>11
  <2> QED
    BY <1>12, <2>1, <2>2
<1>17. ASSUME NEW l \in F PROVE \E j \in u + 1 .. Len(uplink') : uplink'[j] = SetMsg(l)
  <2>1. PICK i \in 1..k : added[i] = l
    BY <1>4
  <2>2. u + n + i \in u + 1 .. Len(uplink')
    BY <1>11
  <2> QED
    BY <1>12, <2>1, <2>2
<1>18. ASSUME NEW j \in u + 1 .. Len(uplink'), NEW l \in F, uplink'[j] = SetMsg(l)
       PROVE  \E i \in 1..k : j = u + n + i /\ added[i] = l
  <2>1. ASSUME NEW i \in 1..n, j = u + i PROVE FALSE
    BY <1>12, <1>18, <2>1, Messages
  <2>2. ASSUME NEW i \in 1..k, j = u + n + i PROVE added[i] = l
    BY <1>12, <1>18, <2>2, Messages
  <2>3. CASE j = Len(uplink') /\ j = u + n + k + 1 /\ Len(q) = 1
    <3>1. 1 \in 1..Len(q)
      BY <2>3
    <3>3. q[1] \in Queries
      BY <3>1, ElementOfSeq
    <3>2. uplink'[j] = q[1]
      BY <1>12, <2>3, <3>1
    <3> QED
      BY <1>18, <3>2, <3>3, Messages DEF Queries
  <2> QED
    BY <1>14, <2>1, <2>2, <2>3
<1>19. ASSUME NEW i \in u + 1 .. Len(uplink'), NEW j \in u + 1 .. Len(uplink'), NEW l \in F,
              uplink'[i] = SetMsg(l), uplink'[j] = SetMsg(l)
       PROVE  i = j
  BY <1>4, <1>18, <1>19
<1> QED
  BY <1>1, <1>13, <1>15, <1>16, <1>17, <1>19 DEF Resubscribed, G, F, u

\* A change of the interests, as the master sees it.
Asking(gone, wanted, q) ==
    /\ gone \in SUBSET Location /\ wanted \in SUBSET Location /\ gone \intersect wanted = {}
    /\ Resubscribed(gone, Fresh(gone, wanted), q)
    /\ channels' = (channels \ gone) \union wanted /\ left' = left \union gone
    /\ q # <<>> => q[1] \in Queries /\ Zones(q[1].parent, q[1].zones) = wanted
    /\ upstream' = upstream

\* It does not return to a location of an earlier visit in a hurry.
Patient(wanted) == wanted \intersect (left \ channels) = {} \/ Still

\* The subscriptions on their way are the earlier ones and the fresh ones.
LEMMA Comings ==
    ASSUME NEW gone, NEW wanted, NEW q, Asking(gone, wanted, q), Len(uplink) \in Nat, Len(uplink') \in Nat
    PROVE  /\ \A l : Coming(l)' <=> Coming(l) \/ l \in Fresh(gone, wanted)
           /\ \A l : Going(l)' <=> Going(l) \/ l \in gone \ Shared
           /\ \A i \in 1..Len(uplink') : (i \in 1..Len(uplink) /\ uplink'[i] = uplink[i]) \/ i \in Len(uplink) + 1 .. Len(uplink')
           /\ \A i \in 1..Len(uplink) : i \in 1..Len(uplink') /\ uplink'[i] = uplink[i]
<1> DEFINE n == Len(uplink)
           N == Len(uplink')
           F == Fresh(gone, wanted)
<1>1. n \in Nat /\ N \in Nat /\ n <= N /\ \A i \in 1..n : uplink'[i] = uplink[i]
  BY DEF Asking, Resubscribed, Extended
<1>2. /\ \A j \in n + 1 .. N :
            \/ \E l \in gone \ Shared : uplink'[j] = RemoveMsg(l)
            \/ \E l \in F : uplink'[j] = SetMsg(l)
            \/ j = N /\ q # <<>> /\ uplink'[j] = q[1]
      /\ \A l \in gone \ Shared : \E j \in n + 1 .. N : uplink'[j] = RemoveMsg(l)
      /\ \A l \in F : \E j \in n + 1 .. N : uplink'[j] = SetMsg(l)
  BY DEF Asking, Resubscribed
<1>3. q # <<>> => q[1].type = "QUERY"
  BY DEF Asking, Queries
<1> HIDE DEF F
<1>4. /\ \A i \in 1..N : i \in 1..n \/ i \in n + 1 .. N
      /\ \A i \in 1..n : i \in 1..N
      /\ \A i \in n + 1 .. N : i \in 1..N
  BY <1>1
<1> HIDE DEF n, N
<1>5. ASSUME NEW l
      PROVE  (\E i \in 1..N : uplink'[i] = SetMsg(l)) <=> (\E i \in 1..n : uplink[i] = SetMsg(l)) \/ l \in F
  <2>1. ASSUME NEW i \in 1..N, uplink'[i] = SetMsg(l), ~(i \in 1..n) PROVE l \in F
    BY <1>2, <1>3, <1>4, <2>1, Messages
  <2> QED
    BY <1>1, <1>2, <1>4, <2>1
<1>6. ASSUME NEW l
      PROVE  (\E i \in 1..N : uplink'[i] = RemoveMsg(l)) <=> (\E i \in 1..n : uplink[i] = RemoveMsg(l)) \/ l \in gone \ Shared
  <2>1. ASSUME NEW i \in 1..N, uplink'[i] = RemoveMsg(l), ~(i \in 1..n) PROVE l \in gone \ Shared
    BY <1>2, <1>3, <1>4, <2>1, Messages
  <2> QED
    BY <1>1, <1>2, <1>4, <2>1
<1> QED
  BY <1>1, <1>4, <1>5, <1>6 DEF Coming, Going, F, n, N

\* The master does not have, and nothing is on its way about, a fresh location.
LEMMA FreshIs ==
    ASSUME NEW gone, NEW wanted, NEW q, Asking(gone, wanted, q), Patient(wanted), Mirror,
           Len(uplink) \in Nat, NEW l \in Fresh(gone, wanted)
    PROVE  /\ l \in Location /\ l \in wanted /\ l \notin gone /\ l \notin channels /\ l \notin Shared
           /\ ~Coming(l) /\ ~Going(l) /\ l \notin upstream
           /\ l \notin left \/ Still
<1>1. l \in Location /\ l \in wanted /\ l \notin gone /\ l \notin channels /\ l \notin Shared
  BY DEF Fresh, Asking
<1>2. l \notin left \/ Still
  BY <1>1 DEF Patient
<1>3. ~Going(l)
  <2>1. CASE l \notin left
    BY <1>1, <2>1 DEF Mirror
  <2>2. CASE Still
    <3>1. Len(uplink) = 0
      BY <2>2 DEF Still
    <3>2. 1..Len(uplink) = {}
      BY <3>1
    <3> QED
      BY <3>2 DEF Going
  <2> QED
    BY <1>2, <2>1, <2>2
<1>4. ~Coming(l) /\ l \notin upstream
  BY <1>1, <1>3 DEF Mirror, Going
<1> QED
  BY <1>1, <1>2, <1>3, <1>4

\* What the client and the master have of the subscriptions stays matched, ...
LEMMA AskingMirror ==
    ASSUME NEW gone, NEW wanted, NEW q, Asking(gone, wanted, q), Patient(wanted), Mirror,
           Len(uplink) \in Nat, Len(uplink') \in Nat
    PROVE  Mirror'
<1> DEFINE F == Fresh(gone, wanted)
<1>0. /\ gone \in SUBSET Location /\ wanted \in SUBSET Location /\ gone \intersect wanted = {}
      /\ channels' = (channels \ gone) \union wanted /\ left' = left \union gone /\ upstream' = upstream
      /\ F = (wanted \ (channels \ gone)) \ Shared
  BY DEF Asking, Fresh
<1>1. /\ \A l : Coming(l)' <=> Coming(l) \/ l \in F
      /\ \A l : Going(l)' <=> Going(l) \/ l \in gone \ Shared
      /\ \A i \in 1..Len(uplink') : (i \in 1..Len(uplink) /\ uplink'[i] = uplink[i]) \/ i \in Len(uplink) + 1 .. Len(uplink')
      /\ \A i \in 1..Len(uplink) : i \in 1..Len(uplink') /\ uplink'[i] = uplink[i]
  BY Comings
<1>2. \A l \in F : l \notin channels /\ ~Coming(l) /\ ~Going(l) /\ l \notin upstream
  BY FreshIs
<1>3. /\ \A l \in gone \ Shared : \E j \in Len(uplink) + 1 .. Len(uplink') : uplink'[j] = RemoveMsg(l)
      /\ \A i, j \in Len(uplink) + 1 .. Len(uplink') : \A l \in F :
            uplink'[i] = SetMsg(l) /\ uplink'[j] = SetMsg(l) => i = j
  BY DEF Asking, Resubscribed
<1>4. \A j \in Len(uplink) + 1 .. Len(uplink') : \A l : uplink'[j] = SetMsg(l) => l \in F
  BY Messages DEF Asking, Resubscribed, Queries
<1> HIDE DEF F
<1>5. ASSUME NEW l \in Location \ Shared
      PROVE  /\ Coming(l)' => l \notin upstream'
             /\ l \in channels' => ~Going(l)' /\ (Coming(l)' \/ l \in upstream')
             /\ Going(l)' => l \in left'
  BY <1>0, <1>1, <1>2 DEF Mirror
<1>6. ASSUME NEW l \in Location \ Shared, l \notin channels'
      PROVE  \/ \E i \in 1..Len(uplink') : /\ uplink'[i] = RemoveMsg(l)
                                            /\ \A j \in i + 1 .. Len(uplink') : uplink'[j] # SetMsg(l)
             \/ ~Coming(l)' /\ l \notin upstream'
  <2>1. l \notin F
    BY <1>0, <1>6
  <2>2. CASE l \in gone
    <3>1. PICK i \in Len(uplink) + 1 .. Len(uplink') : uplink'[i] = RemoveMsg(l)
      BY <1>3, <2>2
    <3>2. i \in 1..Len(uplink') /\ \A j \in i + 1 .. Len(uplink') : j \in Len(uplink) + 1 .. Len(uplink')
      BY <3>1
    <3> QED
      BY <1>4, <2>1, <3>1, <3>2
  <2>3. CASE l \notin channels
    <3>1. CASE ~Coming(l) /\ l \notin upstream
      BY <1>0, <1>1, <2>1, <3>1
    <3>2. ASSUME NEW i \in 1..Len(uplink), uplink[i] = RemoveMsg(l),
                 \A j \in i + 1 .. Len(uplink) : uplink[j] # SetMsg(l)
          PROVE  \E k \in 1..Len(uplink') : /\ uplink'[k] = RemoveMsg(l)
                                            /\ \A j \in k + 1 .. Len(uplink') : uplink'[j] # SetMsg(l)
      <4>1. i \in 1..Len(uplink') /\ uplink'[i] = RemoveMsg(l)
        BY <1>1, <3>2
      <4>2. ASSUME NEW j \in i + 1 .. Len(uplink') PROVE uplink'[j] # SetMsg(l)
        <5>1. j \in 1..Len(uplink')
          BY <4>2
        <5>2. CASE j \in 1..Len(uplink) /\ uplink'[j] = uplink[j]
          <6>1. j \in i + 1 .. Len(uplink)
            BY <5>2
          <6> QED
            BY <3>2, <5>2, <6>1
        <5>3. CASE j \in Len(uplink) + 1 .. Len(uplink')
          BY <1>4, <2>1, <5>3
        <5> QED
          BY <1>1, <5>1, <5>2, <5>3
      <4> QED
        BY <4>1, <4>2
    <3> QED
      BY <2>3, <3>1, <3>2 DEF Mirror
  <2> QED
    BY <1>0, <1>6, <2>2, <2>3
<1>7. ASSUME NEW l \in Location \ Shared, NEW i \in 1..Len(uplink'), NEW j \in 1..Len(uplink'),
             uplink'[i] = SetMsg(l), uplink'[j] = SetMsg(l)
      PROVE  i = j
  <2>1. CASE l \in F
    <3>1. ~(i \in 1..Len(uplink) /\ uplink'[i] = uplink[i]) /\ ~(j \in 1..Len(uplink) /\ uplink'[j] = uplink[j])
      BY <1>2, <1>7, <2>1 DEF Coming
    <3> QED
      BY <1>1, <1>3, <1>7, <2>1, <3>1
  <2>2. CASE l \notin F
    <3>1. i \in 1..Len(uplink) /\ uplink'[i] = uplink[i] /\ j \in 1..Len(uplink) /\ uplink'[j] = uplink[j]
      BY <1>1, <1>4, <1>7, <2>2
    <3> QED
      BY <1>7, <3>1 DEF Mirror
  <2> QED
    BY <2>1, <2>2
<1> QED
  BY <1>5, <1>6, <1>7 DEF Mirror

\* ... and queries follow the subscriptions they need.
LEMMA AskingOrder ==
    ASSUME NEW gone, NEW wanted, NEW q, Asking(gone, wanted, q), Patient(wanted), Mirror, QueryOrder,
           Len(uplink) \in Nat, Len(uplink') \in Nat
    PROVE  QueryOrder'
<1> DEFINE F == Fresh(gone, wanted)
<1>0. /\ gone \in SUBSET Location /\ wanted \in SUBSET Location /\ gone \intersect wanted = {}
      /\ channels' = (channels \ gone) \union wanted /\ left' = left \union gone
      /\ q # <<>> => q[1].type = "QUERY" /\ Zones(q[1].parent, q[1].zones) = wanted
  BY DEF Asking, Queries
<1>1. /\ \A i \in 1..Len(uplink') : (i \in 1..Len(uplink) /\ uplink'[i] = uplink[i]) \/ i \in Len(uplink) + 1 .. Len(uplink')
  BY Comings
<1>2. \A j \in Len(uplink) + 1 .. Len(uplink') :
          \/ \E l : uplink'[j] = RemoveMsg(l)
          \/ \E l : uplink'[j] = SetMsg(l)
          \/ j = Len(uplink') /\ q # <<>> /\ uplink'[j] = q[1]
  BY DEF Asking, Resubscribed
<1>3. \A j \in Len(uplink) + 1 .. Len(uplink') : \A l : uplink'[j] = SetMsg(l) => l \in F
  BY Messages DEF Asking, Resubscribed, Queries
<1>4. \A l \in F : l \notin channels /\ (l \notin left \/ Still)
  BY FreshIs
<1> HIDE DEF F
<1>5. ASSUME NEW k \in 1..Len(uplink'), uplink'[k].type = "QUERY",
             NEW l \in Zones(uplink'[k].parent, uplink'[k].zones)
      PROVE  /\ l \in channels' \union left'
             /\ \A j \in k + 1 .. Len(uplink') : uplink'[j] # SetMsg(l)
  <2>1. CASE k \in 1..Len(uplink) /\ uplink'[k] = uplink[k]
    <3>1. /\ l \in channels \union left
          /\ \A j \in k + 1 .. Len(uplink) : uplink[j] # SetMsg(l)
      BY <1>5, <2>1 DEF QueryOrder
    <3>2. l \notin F
      <4>1. uplink # <<>>
        <5>1. Len(uplink) # Len(<<>>)
          BY <2>1
        <5> QED
          BY <5>1, Zenon
      <4> QED
        BY <1>4, <3>1, <4>1 DEF Still
    <3>3. ASSUME NEW j \in k + 1 .. Len(uplink') PROVE uplink'[j] # SetMsg(l)
      <4>1. j \in 1..Len(uplink')
        OBVIOUS
      <4>2. CASE j \in 1..Len(uplink) /\ uplink'[j] = uplink[j]
        <5>1. j \in k + 1 .. Len(uplink)
          BY <4>2
        <5> QED
          BY <3>1, <4>2, <5>1
      <4>3. CASE j \in Len(uplink) + 1 .. Len(uplink')
        BY <1>3, <3>2, <4>3
      <4> QED
        BY <1>1, <4>1, <4>2, <4>3
    <3> QED
      BY <1>0, <3>1, <3>3
  <2>2. CASE k \in Len(uplink) + 1 .. Len(uplink')
    <3>1. k = Len(uplink') /\ q # <<>> /\ uplink'[k] = q[1]
      BY <1>2, <1>5, <2>2, Messages
    <3>2. k + 1 .. Len(uplink') = {}
      BY <3>1
    <3> QED
      BY <1>0, <1>5, <3>1, <3>2
  <2> QED
    BY <1>1, <2>1, <2>2
<1> QED
  BY <1>5 DEF QueryOrder

\* No subscription to a shared location is ever sent.
LEMMA AskingShared ==
    ASSUME NEW gone, NEW wanted, NEW q, Asking(gone, wanted, q), SharedQuiet,
           Len(uplink) \in Nat, Len(uplink') \in Nat
    PROVE  SharedQuiet'
<1>1. /\ \A l : Coming(l)' <=> Coming(l) \/ l \in Fresh(gone, wanted)
      /\ \A l : Going(l)' <=> Going(l) \/ l \in gone \ Shared
  BY Comings
<1> QED
  BY <1>1 DEF SharedQuiet, Fresh

\* What a REMOVE_INTEREST does (receive_remove_interest).
LEMMA RemoveAsks ==
    ASSUME TypeOK, NEW h \in Handle, RemoveInterest(h)
    PROVE  /\ Asking(Locations(interests[h]) \ Covered(Others(h)), {}, <<>>) /\ Patient({})
           /\ interests' = Others(h) /\ shown' = Hidden(Locations(interests[h]) \ Covered(Others(h)))
           /\ strayed' = strayed \union Abandoned(interests[h]) /\ requests' = requests
           /\ UNCHANGED <<queued, inbox, routing, atServer, upstream, place, value, index>>
<1> DEFINE gone == Locations(interests[h]) \ Covered(Others(h))
<1>1. gone \in SUBSET Location /\ <<>> \in Seq(Queries) /\ Len(<<>>) <= 1
  <2>1. gone \in SUBSET Location
    BY LocationsType DEF TypeOK
  <2> HIDE DEF gone
  <2> QED
    BY <2>1
<1>2. Resubscribe(gone, {}, <<>>) /\ upstream' = upstream
  BY DEF RemoveInterest
<1> HIDE DEF gone
<1>3. {} \in SUBSET Location
  OBVIOUS
<1>4. /\ Resubscribed(gone, Fresh(gone, {}), <<>>)
      /\ channels' = (channels \ gone) \union {} /\ left' = left \union gone
  BY <1>1, <1>2, <1>3, ResubscribeIs
<1>5. Asking(gone, {}, <<>>)
  BY <1>1, <1>2, <1>4 DEF Asking
<1> QED
  BY <1>5 DEF Patient, gone, RemoveInterest, serverVars

\* The locations that an ADD_INTEREST unsubscribes.
Given(h, p, zs) ==
    IF interests[h] # None /\ ~AlterRaises(h, p)
      THEN Zones(interests[h].parent, KilledZones(h, p, zs)) ELSE {}

\* What an ADD_INTEREST asks for, if it does not raise (receive_add_interest).
LEMMA AddAsks ==
    ASSUME TypeOK, NEW h \in Handle, NEW p \in Parent, NEW zs \in SUBSET Zone, NEW ai \in FromAI,
           AddInterest(h, p, zs, ai), ~(ai /\ AlterRaises(h, p))
    PROVE  \E q \in Seq(Queries) :
              /\ Asking(Given(h, p, zs), Zones(p, zs), q)
              /\ q # <<>> => q[1] = Query(h, requests + 1, p, zs)
<1> DEFINE gone == Given(h, p, zs)
           query == Query(h, requests + 1, p, zs)
           q == IF zs = {} /\ ~ai THEN <<>> ELSE <<query>>
<1>1. /\ Resubscribe(gone, Zones(p, zs), q) /\ upstream' = upstream
      /\ UNCHANGED <<inbox, routing, atServer, upstream, place, value, index>>
  <2> DEFINE alters == interests[h] # None /\ ~AlterRaises(h, p)
             killed == IF alters THEN KilledZones(h, p, zs) ELSE {}
             away == IF alters THEN Zones(interests[h].parent, killed) ELSE {}
  <2>1. Resubscribe(away, Zones(p, zs), q)
    BY DEF AddInterest
  <2>2. away = gone
    BY DEF Given
  <2>3. UNCHANGED <<inbox, routing, atServer, upstream, place, value, index>>
    BY DEF AddInterest, serverVars
  <2> HIDE DEF away, gone, q
  <2> QED
    BY <2>1, <2>2, <2>3
<1>2. gone \in SUBSET Location
  <2>1. CASE interests[h] # None /\ ~AlterRaises(h, p)
    <3>1. interests[h] \in Interest
      BY <2>1 DEF TypeOK
    <3>2. KilledZones(h, p, zs) \subseteq interests[h].zones
      BY DEF KilledZones
    <3>3. interests[h].parent \in Parent /\ KilledZones(h, p, zs) \in SUBSET Zone
      BY <3>1, <3>2, InterestFields
    <3> QED
      BY <2>1, <3>3, ZonesType DEF Given
  <2>2. CASE ~(interests[h] # None /\ ~AlterRaises(h, p))
    BY <2>2 DEF Given
  <2> QED
    BY <2>1, <2>2
<1>3. gone \intersect Zones(p, zs) = {}
  <2> SUFFICES ASSUME NEW l \in gone, l \in Zones(p, zs) PROVE FALSE
    OBVIOUS
  <2>1. l \in Zones(interests[h].parent, KilledZones(h, p, zs))
    BY DEF Given
  <2>2. interests[h].parent = p /\ \E z \in KilledZones(h, p, zs) : z \in zs
    BY <2>1, ZonesOf
  <2> QED
    BY <2>2 DEF KilledZones
<1>4. query \in Queries /\ query.type = "QUERY" /\ query.parent = p /\ query.zones = zs
  <2>1. requests + 1 \in Context
    BY Bounds DEF AddInterest, TypeOK, Context
  <2> QED
    BY <2>1 DEF Query, Queries
<1> HIDE DEF query
<1>5. q \in Seq(Queries) /\ Len(q) <= 1 /\ (q # <<>> => q[1] = query)
  BY <1>4
<1>6. Zones(p, zs) \in SUBSET Location
  BY ZonesType
<1> HIDE DEF gone, q
<1>7. /\ Resubscribed(gone, Fresh(gone, Zones(p, zs)), q)
      /\ channels' = (channels \ gone) \union Zones(p, zs) /\ left' = left \union gone
  BY <1>1, <1>2, <1>5, <1>6, ResubscribeIs
<1>8. Asking(gone, Zones(p, zs), q)
  BY <1>1, <1>2, <1>3, <1>4, <1>5, <1>6, <1>7 DEF Asking
<1> QED
  BY <1>1, <1>5, <1>8 DEF gone, query

\* What an ADD_INTEREST leaves alone.
LEMMA AddKeeps ==
    ASSUME TypeOK, NEW h \in Handle, NEW p \in Parent, NEW zs \in SUBSET Zone, NEW ai \in FromAI,
           AddInterest(h, p, zs, ai)
    PROVE  /\ UNCHANGED <<inbox, routing, atServer, upstream, place, value, index>>
           /\ Pipe' = Pipe /\ Serving' = Serving /\ requests' = requests + 1
           /\ ai /\ AlterRaises(h, p) =>
                 interests' = Others(h) /\ UNCHANGED <<shown, queued, channels, uplink, left>>
           /\ strayed' # Object => Patient(Zones(p, zs)) /\ strayed \subseteq strayed'
<1>1. /\ UNCHANGED <<inbox, routing, atServer, upstream, place, value, index>>
      /\ requests' = requests + 1
  BY DEF AddInterest, serverVars
<1>2. ai /\ AlterRaises(h, p) =>
         interests' = Others(h) /\ UNCHANGED <<shown, queued, channels, uplink, left>>
  BY DEF AddInterest
<1>3. strayed' # Object => ~Hasty(Zones(p, zs)) /\ strayed \subseteq strayed'
  BY DEF AddInterest
<1> QED
  BY <1>1, <1>2, <1>3 DEF Pipe, Serving, Hasty, Patient

\* A REMOVE_INTEREST leaves what is on its way to the client alone.
LEMMA RemoveKeeps ==
    ASSUME TypeOK, NEW h \in Handle, RemoveInterest(h)
    PROVE  Pipe' = Pipe /\ Serving' = Serving
BY RemoveAsks DEF Pipe, Serving

-----------------------------------------------------------------------------
(* The subscriptions *)

\* The uplink is finite.
LEMMA UplinkLength == TypeOK => Len(uplink) \in Nat
BY LenProperties DEF TypeOK

\* And it stays so.
LEMMA UplinkNext == TypeOK' => Len(uplink') \in Nat
<1> SUFFICES ASSUME TypeOK'
             PROVE  Len(uplink') \in Nat
  OBVIOUS
<1>1. uplink' \in Seq(Control \union Queries)
  BY DEF TypeOK
<1> QED
  BY <1>1, LenProperties

\* Forwarding takes the first message away; the rest stays in its order.
LEMMA ForwardUplink ==
    ASSUME TypeOK, Forward
    PROVE  /\ Len(uplink) \in Nat /\ Len(uplink) > 0
           /\ \A i \in 1..Len(uplink') : i + 1 \in 1..Len(uplink) /\ uplink'[i] = uplink[i + 1]
           /\ \A i \in 1..Len(uplink) : i # 1 => i - 1 \in 1..Len(uplink') /\ uplink'[i - 1] = uplink[i]
           /\ 1 \in 1..Len(uplink)
           /\ \A i \in 1..Len(uplink') : \A j \in i + 1 .. Len(uplink') :
                 j + 1 \in (i + 1) + 1 .. Len(uplink) /\ uplink'[j] = uplink[j + 1]
<1>1. Removed(uplink, uplink', 1)
  BY ForwardPipe
<1> QED
  BY <1>1 DEF Removed

\* Forwarding a message keeps the subscriptions matched, ...
LEMMA ForwardMirror ==
    ASSUME TypeOK, Forward, SharedQuiet, Mirror
    PROVE  SharedQuiet' /\ Mirror' /\ (\A l : Coming(l)' => Coming(l))
<1>1. /\ \A i \in 1..Len(uplink') : i + 1 \in 1..Len(uplink) /\ uplink'[i] = uplink[i + 1]
      /\ \A i \in 1..Len(uplink) : i # 1 => i - 1 \in 1..Len(uplink') /\ uplink'[i - 1] = uplink[i]
      /\ 1 \in 1..Len(uplink)
      /\ \A i \in 1..Len(uplink') : \A j \in i + 1 .. Len(uplink') :
            j + 1 \in (i + 1) + 1 .. Len(uplink) /\ uplink'[j] = uplink[j + 1]
  BY ForwardUplink
<1>2. channels' = channels /\ left' = left
  BY ForwardPipe DEF clientVars
<1>3. (\A l : Coming(l)' => Coming(l)) /\ (\A l : Going(l)' => Going(l))
  BY <1>1 DEF Coming, Going
<1>4. ASSUME NEW l, Coming(l), uplink[1] # SetMsg(l) PROVE Coming(l)'
  BY <1>1, <1>4 DEF Coming
<1>5. \/ \E l \in Location : uplink[1] = SetMsg(l) /\ upstream' = upstream \union {l}
      \/ \E l \in Location : uplink[1] = RemoveMsg(l) /\ upstream' = upstream \ {l}
      \/ uplink[1].type = "QUERY" /\ upstream' = upstream
  <2>1. /\ uplink[1] \in Control \union Queries
        /\ \/ uplink[1].type = "SET_CHANNEL" /\ upstream' = upstream \union {uplink[1].channel}
           \/ uplink[1].type = "REMOVE_CHANNEL" /\ upstream' = upstream \ {uplink[1].channel}
           \/ uplink[1].type = "QUERY" /\ upstream' = upstream
    BY ForwardPipe
  <2>2. uplink[1].type = "SET_CHANNEL" => uplink[1].channel \in Location /\ uplink[1] = SetMsg(uplink[1].channel)
    BY <2>1 DEF Control, Queries, SetMsg
  <2>3. uplink[1].type = "REMOVE_CHANNEL" => uplink[1].channel \in Location /\ uplink[1] = RemoveMsg(uplink[1].channel)
    BY <2>1 DEF Control, Queries, RemoveMsg
  <2> QED
    BY <2>1, <2>2, <2>3
<1>6. ASSUME NEW l \in Location \ Shared
      PROVE  \A i, j \in 1..Len(uplink') : uplink'[i] = SetMsg(l) /\ uplink'[j] = SetMsg(l) => i = j
  <2>1. ASSUME NEW i \in 1..Len(uplink'), NEW j \in 1..Len(uplink'), uplink'[i] = SetMsg(l), uplink'[j] = SetMsg(l)
        PROVE  i = j
    <3>0. \A d, e \in 1..Len(uplink) : uplink[d] = SetMsg(l) /\ uplink[e] = SetMsg(l) => d = e
      BY DEF Mirror
    <3>1. i + 1 = j + 1
      BY <1>1, <2>1, <3>0
    <3> QED
      BY <3>1
  <2> QED
    BY <2>1
<1>7. ASSUME NEW l \in Location \ Shared
      PROVE  /\ Coming(l)' => l \notin upstream'
             /\ l \in channels' => ~Going(l)' /\ (Coming(l)' \/ l \in upstream')
             /\ l \notin channels' =>
                  \/ \E i \in 1..Len(uplink') : /\ uplink'[i] = RemoveMsg(l)
                                                /\ \A j \in i + 1 .. Len(uplink') : uplink'[j] # SetMsg(l)
                  \/ ~Coming(l)' /\ l \notin upstream'
             /\ Going(l)' => l \in left'
  <2>1. Coming(l)' => l \notin upstream'
    <3>1. CASE uplink[1] = SetMsg(l)
      <4>1. ~Coming(l)'
        <5> SUFFICES ASSUME NEW i \in 1..Len(uplink'), uplink'[i] = SetMsg(l) PROVE FALSE
          BY DEF Coming
        <5>0. \A d, e \in 1..Len(uplink) : uplink[d] = SetMsg(l) /\ uplink[e] = SetMsg(l) => d = e
          BY DEF Mirror
        <5>1. i + 1 \in 1..Len(uplink) /\ uplink[i + 1] = SetMsg(l) /\ 1 \in 1..Len(uplink)
          BY <1>1
        <5>2. i + 1 = 1
          BY <3>1, <5>0, <5>1
        <5> QED
          BY <5>2
      <4> QED
        BY <4>1
    <3>2. CASE uplink[1] # SetMsg(l)
      BY <1>3, <1>5, <3>2, Messages DEF Mirror
    <3> QED
      BY <3>1, <3>2
  <2>2. l \in channels' => ~Going(l)' /\ (Coming(l)' \/ l \in upstream')
    <3> SUFFICES ASSUME l \in channels' PROVE ~Going(l)' /\ (Coming(l)' \/ l \in upstream')
      OBVIOUS
    <3>1. ~Going(l) /\ (Coming(l) \/ l \in upstream)
      BY <1>2 DEF Mirror
    <3>2. uplink[1] # RemoveMsg(l)
      BY <1>1, <3>1 DEF Going
    <3>3. ~Going(l)'
      BY <1>3, <3>1
    <3>4. CASE uplink[1] = SetMsg(l)
      BY <1>5, <3>3, <3>4, Messages
    <3>5. CASE uplink[1] # SetMsg(l)
      <4>1. l \in upstream => l \in upstream'
        BY <1>5, <3>2
      <4> QED
        BY <1>4, <3>1, <3>3, <3>5, <4>1
    <3> QED
      BY <3>4, <3>5
  <2>3. ASSUME l \notin channels'
        PROVE  \/ \E i \in 1..Len(uplink') : /\ uplink'[i] = RemoveMsg(l)
                                             /\ \A j \in i + 1 .. Len(uplink') : uplink'[j] # SetMsg(l)
               \/ ~Coming(l)' /\ l \notin upstream'
    <3>1. CASE ~Coming(l) /\ l \notin upstream
      <4>1. uplink[1] # SetMsg(l)
        BY <1>1, <3>1 DEF Coming
      <4> QED
        BY <1>3, <1>5, <3>1, <4>1
    <3>2. ASSUME NEW i \in 1..Len(uplink), uplink[i] = RemoveMsg(l),
                 \A j \in i + 1 .. Len(uplink) : uplink[j] # SetMsg(l), i # 1
          PROVE  \E k \in 1..Len(uplink') : /\ uplink'[k] = RemoveMsg(l)
                                            /\ \A j \in k + 1 .. Len(uplink') : uplink'[j] # SetMsg(l)
      <4>1. i - 1 \in 1..Len(uplink') /\ uplink'[i - 1] = uplink[i] /\ (i - 1) + 1 = i
        BY <1>1, <3>2
      <4>2. \A j \in (i - 1) + 1 .. Len(uplink') : uplink'[j] # SetMsg(l)
        BY <1>1, <3>2, <4>1
      <4> QED
        BY <3>2, <4>1, <4>2
    <3>3. CASE uplink[1] = RemoveMsg(l) /\ \A j \in 1 + 1 .. Len(uplink) : uplink[j] # SetMsg(l)
      <4>0. \A i \in 1..Len(uplink') : i + 1 \in 1 + 1 .. Len(uplink)
        BY <1>1
      <4>1. ~Coming(l)'
        BY <1>1, <3>3, <4>0 DEF Coming
      <4>2. l \notin upstream'
        BY <1>5, <3>3, Messages
      <4> QED
        BY <4>1, <4>2
    <3> QED
      BY <1>2, <2>3, <3>1, <3>2, <3>3 DEF Mirror
  <2>4. Going(l)' => l \in left'
    BY <1>2, <1>3 DEF Mirror
  <2> QED
    BY <2>1, <2>2, <2>3, <2>4
<1>8. Mirror'
  BY <1>6, <1>7 DEF Mirror
<1>9. SharedQuiet'
  BY <1>3 DEF SharedQuiet
<1> QED
  BY <1>3, <1>8, <1>9

\* ... and the queries behind the subscriptions they need.
LEMMA ForwardOrder ==
    ASSUME TypeOK, Forward, QueryOrder
    PROVE  QueryOrder'
<1>1. /\ \A i \in 1..Len(uplink') : i + 1 \in 1..Len(uplink) /\ uplink'[i] = uplink[i + 1]
      /\ \A i \in 1..Len(uplink') : \A j \in i + 1 .. Len(uplink') :
            j + 1 \in (i + 1) + 1 .. Len(uplink) /\ uplink'[j] = uplink[j + 1]
  BY ForwardUplink
<1>2. channels' = channels /\ left' = left
  BY ForwardPipe DEF clientVars
<1> QED
  BY <1>1, <1>2 DEF QueryOrder

-----------------------------------------------------------------------------
(* What is on its way, whatever the order *)

\* The interests are older ones.
Fewer(now, new) == \A h \in Handle : new[h] # None => now[h] # None /\ Alike(now[h], new[h])

\* What a step may add to the datagrams: a query that is forwarded, what
\* answers the next query, or what an object announces.
Added(m) == \/ Len(uplink) > 0 /\ m = uplink[1] /\ m \in Queries
            \/ /\ Len(Serving) > 0 /\ Serving[1] \in Queries /\ Reply(m, Serving[1])
               /\ Misplaced(Serving[1]) \subseteq strayed'
            \/ \E o \in Object : About(m, o) /\ Addressed(m) /\ Self \notin m.to
PipeFrom    == \A i \in 1..Len(Pipe') : (\E j \in 1..Len(Pipe) : Pipe'[i] = Pipe[j]) \/ Added(Pipe'[i])
ServingFrom == \A i \in 1..Len(Serving') :
                  (\E j \in 1..Len(Serving) : Serving'[i] = Serving[j]) \/ Added(Serving'[i])

Progress == Receive \/ Forward \/ Route \/ Serve \/ \E o \in Object : Happening(o)

\* What is left of a sequence was in it, ...
LEMMA RemovedFrom ==
    ASSUME NEW s, NEW r, NEW p, Removed(s, r, p)
    PROVE  \A i \in 1..Len(r) : \E j \in 1..Len(s) : r[i] = s[j]
<1>1. /\ Len(s) \in Nat /\ Len(r) = Len(s) - 1 /\ p \in 1..Len(s)
      /\ \A j \in 1..Len(r) : r[j] = IF j < p THEN s[j] ELSE s[j + 1]
  BY DEF Removed
<1>2. \A j \in 1..Len(r) : j \in 1..Len(s) /\ j + 1 \in 1..Len(s)
  BY <1>1
<1> QED
  BY <1>1, <1>2

\* ... and what it is extended to is in it or behind it.
LEMMA ExtendedFrom ==
    ASSUME NEW s, NEW r, Extended(s, r)
    PROVE  /\ \A i \in 1..Len(r) : (i \in 1..Len(s) /\ r[i] = s[i]) \/ i \in Len(s) + 1 .. Len(r)
           /\ \A i \in 1..Len(s) : i \in 1..Len(r) /\ r[i] = s[i]
<1>1. Len(s) \in Nat /\ Len(r) \in Nat /\ Len(s) <= Len(r) /\ \A j \in 1..Len(s) : r[j] = s[j]
  BY DEF Extended
<1> QED
  BY <1>1

\* What is announced.
LEMMA BehindFrom ==
    ASSUME NEW s, NEW r, NEW a, NEW b, Behind(s, r, a, b) \/ BehindOne(s, r, a)
    PROVE  \A i \in 1..Len(r) : (i \in 1..Len(s) /\ r[i] = s[i]) \/ r[i] = a \/ (Behind(s, r, a, b) /\ r[i] = b)
<1>1. CASE Behind(s, r, a, b)
  <2>1. Extended(s, r) /\ Len(r) = Len(s) + 2 /\ r[Len(s) + 1] = a /\ r[Len(s) + 2] = b /\ Len(s) \in Nat
    BY <1>1 DEF Behind, Extended
  <2>2. \A i \in Len(s) + 1 .. Len(r) : i = Len(s) + 1 \/ i = Len(s) + 2
    BY <2>1
  <2> QED
    BY <1>1, <2>1, <2>2, ExtendedFrom
<1>2. CASE BehindOne(s, r, a)
  <2>1. Extended(s, r) /\ Len(r) = Len(s) + 1 /\ r[Len(s) + 1] = a /\ Len(s) \in Nat
    BY <1>2 DEF BehindOne, Extended
  <2>2. \A i \in Len(s) + 1 .. Len(r) : i = Len(s) + 1
    BY <2>1
  <2> QED
    BY <2>1, <2>2, ExtendedFrom
<1> QED
  BY <1>1, <1>2

\* The same for a single message.
LEMMA OneFrom ==
    ASSUME NEW s, NEW r, NEW a, BehindOne(s, r, a)
    PROVE  \A i \in 1..Len(r) : (i \in 1..Len(s) /\ r[i] = s[i]) \/ r[i] = a
<1>1. Extended(s, r) /\ Len(r) = Len(s) + 1 /\ r[Len(s) + 1] = a /\ Len(s) \in Nat
  BY DEF BehindOne, Extended
<1>2. \A i \in Len(s) + 1 .. Len(r) : i = Len(s) + 1
  BY <1>1
<1> QED
  BY <1>1, <1>2, ExtendedFrom

\* The datagrams of a move, a deletion and an update.
LEMMA Announced ==
    ASSUME TypeOK, NEW o \in Object
    PROVE  /\ \A l \in Location :
                 /\ LET a == ChangeZone(o, IF place[o] = Nowhere THEN {} ELSE {place[o]}, l, place[o])
                    IN  IsMove(a, o) /\ Addressed(a) /\ Self \notin a.to /\ a.new = l /\ a.obj = o
                        /\ a.to = IF place[o] = Nowhere THEN {} ELSE {place[o]}
                 /\ LET b == Entry(o, {l}, l)
                    IN  EntryOf(b, o, l) /\ Addressed(b) /\ Self \notin b.to /\ b.val = value[o] /\ b.obj = o
           /\ place[o] # Nowhere =>
                 /\ LET a == ChangeZone(o, {}, Nowhere, place[o])
                    IN  IsMove(a, o) /\ Addressed(a) /\ Self \notin a.to /\ a.new = Nowhere /\ a.to = {} /\ a.obj = o
                 /\ LET b == DeleteRam(o)
                    IN  b.type = "DELETE_RAM" /\ b.obj = o /\ Addressed(b) /\ b.to = {place[o]} /\ Self \notin b.to
                 /\ \A v : LET u == Update(o, v)
                           IN  IsUpdate(u, o) /\ Addressed(u) /\ u.to = {place[o]} /\ u.val = v /\ Self \notin u.to
                               /\ u.obj = o
<1>1. place[o] \in Location \union {Nowhere} /\ Self \notin Location
  BY Bounds DEF TypeOK
<1>2. ASSUME NEW l \in Location
      PROVE  LET a == ChangeZone(o, IF place[o] = Nowhere THEN {} ELSE {place[o]}, l, place[o])
             IN  IsMove(a, o) /\ Addressed(a) /\ Self \notin a.to /\ a.new = l /\ a.obj = o
                 /\ a.to = IF place[o] = Nowhere THEN {} ELSE {place[o]}
  BY <1>1 DEF ChangeZone, IsMove, Addressed
<1>3. ASSUME NEW l \in Location
      PROVE  LET b == Entry(o, {l}, l)
             IN  EntryOf(b, o, l) /\ Addressed(b) /\ Self \notin b.to /\ b.val = value[o] /\ b.obj = o
  BY <1>1 DEF Entry, EntryOf, IsEntry, Addressed
<1>4. place[o] # Nowhere =>
         LET a == ChangeZone(o, {}, Nowhere, place[o])
         IN  IsMove(a, o) /\ Addressed(a) /\ Self \notin a.to /\ a.new = Nowhere /\ a.to = {} /\ a.obj = o
  BY <1>1 DEF ChangeZone, IsMove, Addressed
<1>5. place[o] # Nowhere =>
         LET b == DeleteRam(o)
         IN  b.type = "DELETE_RAM" /\ b.obj = o /\ Addressed(b) /\ b.to = {place[o]} /\ Self \notin b.to
  BY <1>1 DEF DeleteRam, Addressed
<1>6. place[o] # Nowhere =>
         \A v : LET u == Update(o, v)
                IN  IsUpdate(u, o) /\ Addressed(u) /\ u.to = {place[o]} /\ u.val = v /\ Self \notin u.to /\ u.obj = o
  BY <1>1 DEF Update, IsUpdate, Addressed
<1> QED
  BY <1>2, <1>3, <1>4, <1>5, <1>6

\* An event adds what it announces, and nothing else.
LEMMA SendsFrom ==
    ASSUME TypeOK, NEW o \in Object, Sends(o)
    PROVE  PipeFrom /\ ServingFrom
<1>1. ASSUME NEW s, NEW r,
             \/ \E l \in Location :
                   LET a == ChangeZone(o, IF place[o] = Nowhere THEN {} ELSE {place[o]}, l, place[o])
                       b == Entry(o, {l}, l)
                   IN  Behind(s, r, a, b)
             \/ place[o] # Nowhere /\ Behind(s, r, ChangeZone(o, {}, Nowhere, place[o]), DeleteRam(o))
             \/ place[o] # Nowhere /\ BehindOne(s, r, Update(o, events + 1))
      PROVE  \A i \in 1..Len(r) : (\E j \in 1..Len(s) : r[i] = s[j]) \/ Added(r[i])
  <2>1. \A m : About(m, o) /\ Addressed(m) /\ Self \notin m.to => Added(m)
    BY DEF Added
  <2>2. \A m : IsMove(m, o) \/ (\E l : EntryOf(m, o, l)) \/ IsUpdate(m, o) \/ (m.type = "DELETE_RAM" /\ m.obj = o) => About(m, o)
    BY DEF IsMove, IsEntry, EntryOf, IsUpdate, About
  <2>3. ASSUME NEW a, NEW b, Behind(s, r, a, b) \/ BehindOne(s, r, a), Added(a), Behind(s, r, a, b) => Added(b)
        PROVE  \A i \in 1..Len(r) : (\E j \in 1..Len(s) : r[i] = s[j]) \/ Added(r[i])
    BY <2>3, BehindFrom
  <2>4. ASSUME NEW l \in Location,
               Behind(s, r, ChangeZone(o, IF place[o] = Nowhere THEN {} ELSE {place[o]}, l, place[o]), Entry(o, {l}, l))
        PROVE  \A i \in 1..Len(r) : (\E j \in 1..Len(s) : r[i] = s[j]) \/ Added(r[i])
    <3> DEFINE a == ChangeZone(o, IF place[o] = Nowhere THEN {} ELSE {place[o]}, l, place[o])
               b == Entry(o, {l}, l)
    <3>1. Added(a) /\ Added(b)
      BY <2>1, <2>2, Announced
    <3>2. Behind(s, r, a, b)
      BY <2>4
    <3> HIDE DEF a, b
    <3> QED
      BY <2>3, <3>1, <3>2
  <2>5. CASE place[o] # Nowhere /\ Behind(s, r, ChangeZone(o, {}, Nowhere, place[o]), DeleteRam(o))
    <3> DEFINE a == ChangeZone(o, {}, Nowhere, place[o])
               b == DeleteRam(o)
    <3>1. Added(a) /\ Added(b)
      BY <2>1, <2>2, <2>5, Announced
    <3>2. Behind(s, r, a, b)
      BY <2>5
    <3> HIDE DEF a, b
    <3> QED
      BY <2>3, <3>1, <3>2
  <2>6. CASE place[o] # Nowhere /\ BehindOne(s, r, Update(o, events + 1))
    <3> DEFINE a == Update(o, events + 1)
    <3>1. Added(a)
      BY <2>1, <2>2, <2>6, Announced
    <3>2. BehindOne(s, r, a)
      BY <2>6
    <3> HIDE DEF a
    <3> QED
      BY <3>1, <3>2, OneFrom
  <2> QED
    BY <1>1, <2>4, <2>5, <2>6
<1>2. \A i \in 1..Len(Pipe') : (\E j \in 1..Len(Pipe) : Pipe'[i] = Pipe[j]) \/ Added(Pipe'[i])
  BY <1>1 DEF Sends
<1>3. \A i \in 1..Len(Serving') : (\E j \in 1..Len(Serving) : Serving'[i] = Serving[j]) \/ Added(Serving'[i])
  BY <1>1 DEF Sends
<1> QED
  BY <1>2, <1>3 DEF PipeFrom, ServingFrom

\* No step of the system adds anything else than what Added allows.
LEMMA ProgressFrom ==
    ASSUME TypeOK, Progress
    PROVE  PipeFrom /\ ServingFrom
<1>1. CASE Receive
  <2>1. Removed(Pipe, Pipe', 1) /\ Serving' = Serving
    BY <1>1, ReceivePipe
  <2> QED
    BY <2>1, RemovedFrom DEF PipeFrom, ServingFrom
<1>2. CASE Forward
  <2>1. CASE Pipe' = Pipe /\ Serving' = Serving
    BY <2>1 DEF PipeFrom, ServingFrom
  <2>2. CASE /\ uplink[1] \in Queries
             /\ Extended(Pipe, Pipe') /\ Len(Pipe') = Len(Pipe) + 1 /\ Pipe'[Len(Pipe) + 1] = uplink[1]
             /\ Extended(Serving, Serving') /\ Len(Serving') = Len(Serving) + 1
             /\ Serving'[Len(Serving) + 1] = uplink[1]
    <3>1. Added(uplink[1])
      BY <1>2, <2>2, ForwardUplink DEF Added
    <3>2. /\ \A i \in 1..Len(Pipe') : (i \in 1..Len(Pipe) /\ Pipe'[i] = Pipe[i]) \/ Pipe'[i] = uplink[1]
          /\ \A i \in 1..Len(Serving') : (i \in 1..Len(Serving) /\ Serving'[i] = Serving[i]) \/ Serving'[i] = uplink[1]
      <4>1. BehindOne(Pipe, Pipe', uplink[1]) /\ BehindOne(Serving, Serving', uplink[1])
        BY <2>2 DEF BehindOne
      <4> QED
        BY <4>1, OneFrom
    <3> QED
      BY <3>1, <3>2 DEF PipeFrom, ServingFrom
  <2> QED
    BY <1>2, <2>1, <2>2, ForwardPipe
<1>3. CASE Route
  <2>1. Pipe' = Pipe \/ \E n : Removed(Pipe, Pipe', n)
    BY <1>3, RoutePipe
  <2>2. Serving' = Serving \/ \E n : Removed(Serving, Serving', n)
    BY <1>3, RoutePipe
  <2>3. PipeFrom
    BY <2>1, RemovedFrom DEF PipeFrom
  <2>4. ServingFrom
    BY <2>2, RemovedFrom DEF ServingFrom
  <2> QED
    BY <2>3, <2>4
<1>4. CASE Serve
  <2>1. CASE Pipe' = Pipe /\ Removed(Serving, Serving', 1)
    BY <2>1, RemovedFrom DEF PipeFrom, ServingFrom
  <2>2. CASE Serving[1] \in Queries /\ Answering(Serving[1])
    <3>0. Serving[1] \notin Moves /\ Len(Serving) > 0
      BY <1>4, <2>2, ServePipe DEF Queries, Moves
    <3>4. Misplaced(Serving[1]) \subseteq strayed'
      BY <1>4, <3>0, ServePipe
    <3>1. \A m : Reply(m, Serving[1]) => Added(m)
      BY <2>2, <3>0, <3>4 DEF Added
    <3>2. /\ Extended(Pipe, Pipe')
          /\ \A j \in Len(Pipe) + 1 .. Len(Pipe') : Reply(Pipe'[j], Serving[1])
          /\ \E u : /\ Removed(Serving, u, 1) /\ Extended(u, Serving')
                    /\ \A k \in Len(u) + 1 .. Len(Serving') : Reply(Serving'[k], Serving[1])
      BY <2>2 DEF Answering
    <3>3. PipeFrom
      BY <3>1, <3>2, ExtendedFrom DEF PipeFrom
    <3>5. ServingFrom
      BY <3>1, <3>2, RemovedFrom, ExtendedFrom DEF ServingFrom
    <3> QED
      BY <3>3, <3>5
  <2> QED
    BY <1>4, <2>1, <2>2, ServePipe
<1>5. ASSUME NEW o \in Object, Happening(o) PROVE PipeFrom /\ ServingFrom
  BY <1>5, EventPipe, SendsFrom
<1> QED
  BY <1>1, <1>2, <1>3, <1>4, <1>5 DEF Progress

-----------------------------------------------------------------------------
(* Queries and answers *)

\* Interests that are kept cover the same and are asked and answered for alike.
LEMMA KeptFewer ==
    ASSUME NEW now, NEW new, Kept(new, now)
    PROVE  /\ Fewer(now, new)
           /\ \A h \in Handle : Locations(new[h]) = Locations(now[h])
           /\ Covered(new) = Covered(now)
           /\ \A m : \A h \in Handle : /\ AnswersFor(new, m, h) <=> AnswersFor(now, m, h)
                                       /\ Asks(new, m, h) <=> Asks(now, m, h)
<1>1. \A h \in Handle : (now[h] = None <=> new[h] = None) /\ (now[h] # None => Alike(now[h], new[h]))
  BY DEF Kept
<1>2. Fewer(now, new)
  BY <1>1 DEF Fewer
<1>3. \A h \in Handle : Locations(new[h]) = Locations(now[h])
  BY <1>1 DEF Locations, Alike
<1>4. Covered(new) = Covered(now)
  BY <1>3 DEF Covered
<1>5. \A m : \A h \in Handle : /\ AnswersFor(new, m, h) <=> AnswersFor(now, m, h)
                               /\ Asks(new, m, h) <=> Asks(now, m, h)
  BY <1>1 DEF AnswersFor, Asks, Alike
<1> QED
  BY <1>2, <1>3, <1>4, <1>5

\* What no step but a change of the interests changes.
LEMMA ProgressKeeps ==
    ASSUME TypeOK, Progress
    PROVE  /\ Kept(interests', interests) /\ requests' = requests /\ channels' = channels
           /\ left' = left /\ strayed \subseteq strayed' /\ TypeOK'
           /\ \A i \in 1..Len(uplink') : \E j \in 1..Len(uplink) : uplink'[i] = uplink[j]
<1>1. ASSUME interests' = interests PROVE Kept(interests', interests)
  BY <1>1 DEF Kept, Alike
<1>2. ASSUME uplink' = uplink PROVE \A i \in 1..Len(uplink') : \E j \in 1..Len(uplink) : uplink'[i] = uplink[j]
  BY <1>2
<1>3. CASE Receive
  <2>1. Kept(interests', interests) /\ strayed \subseteq strayed'
    BY <1>1, <1>3, Reaches, DoneIs, NewsIs
  <2>2. UNCHANGED <<channels, uplink, requests, left>>
    BY <1>3, ReceivePipe
  <2> QED
    BY <1>2, <1>3, <2>1, <2>2, ReceiveType
<1>4. CASE Forward
  BY <1>1, <1>4, ForwardPipe, ForwardUplink, ForwardType DEF clientVars
<1>5. CASE Route
  BY <1>1, <1>2, <1>5, RoutePipe, RouteType DEF clientVars
<1>6. CASE Serve
  BY <1>1, <1>2, <1>6, ServePipe, ServeType DEF clientVars
<1>7. ASSUME NEW o \in Object, Happening(o)
      PROVE  /\ Kept(interests', interests) /\ requests' = requests /\ channels' = channels
             /\ left' = left /\ strayed \subseteq strayed' /\ TypeOK'
             /\ \A i \in 1..Len(uplink') : \E j \in 1..Len(uplink) : uplink'[i] = uplink[j]
  BY <1>1, <1>2, <1>7, EventPipe, EventType DEF clientVars, Happening
<1> QED
  BY <1>3, <1>4, <1>5, <1>6, <1>7 DEF Progress

\* A query asks for no more interests when there are fewer.
LEMMA AsksFewer ==
    ASSUME NEW now, NEW new, Fewer(now, new), NEW m
    PROVE  /\ \A h \in Handle : (Asks(new, m, h) => Asks(now, m, h)) /\ (AnswersFor(new, m, h) => AnswersFor(now, m, h))
           /\ AsksRight(now, m) => AsksRight(new, m)
<1>1. \A h \in Handle : new[h] # None => now[h] # None /\ Alike(now[h], new[h])
  BY DEF Fewer
<1>2. \A h \in Handle : (Asks(new, m, h) => Asks(now, m, h)) /\ (AnswersFor(new, m, h) => AnswersFor(now, m, h))
  BY <1>1 DEF Asks, AnswersFor, Alike
<1>3. ASSUME AsksRight(now, m), NEW h \in Handle, Asks(new, m, h)
      PROVE  m.parent = new[h].parent /\ m.zones = new[h].zones
  <2>1. Asks(now, m, h) /\ new[h] # None
    BY <1>2, <1>3 DEF Asks
  <2>2. m.parent = now[h].parent /\ m.zones = now[h].zones
    BY <1>3, <2>1 DEF AsksRight
  <2> QED
    BY <1>1, <2>1, <2>2 DEF Alike
<1> QED
  BY <1>2, <1>3 DEF AsksRight

\* What a reply is.
LEMMA ReplyIs ==
    ASSUME TypeOK, NEW m \in Queries, NEW r, Reply(r, m)
    PROVE  /\ r.to = {Self}
           /\ \/ r.type = "DONE" /\ r.handle = m.handle /\ r.context = m.context
              \/ /\ r.type = "ENTERZONE" /\ r.obj \in Object /\ place[r.obj] # Nowhere
                 /\ r.at = place[r.obj] /\ r.val = value[r.obj]
                 /\ \E l \in Zones(m.parent, m.zones) : <<l, r.obj>> \in index
BY DEF Reply, Done, Entry

\* The contexts of what is added are in use, and its addresses are as they should be.
LEMMA AddedIsNumbered ==
    ASSUME TypeOK, Numbered, NEW m, Added(m)
    PROVE  /\ m.type = "QUERY" => m.context <= requests /\ AsksRight(interests, m)
           /\ m.type = "DONE" => m.context <= requests
           /\ Addressed(m)
<1>1. CASE Len(uplink) > 0 /\ m = uplink[1] /\ m \in Queries
  <2>1. m.type = "QUERY" /\ 1 \in 1..Len(uplink)
    BY <1>1, UplinkLength DEF Queries
  <2> QED
    BY <1>1, <2>1 DEF Numbered, Addressed
<1>2. CASE Len(Serving) > 0 /\ Serving[1] \in Queries /\ Reply(m, Serving[1])
  <2>1. Serving[1].type = "QUERY" /\ 1 \in 1..Len(Serving)
    BY <1>2, PipeIs DEF Queries
  <2>2. Serving[1].context <= requests
    BY <2>1 DEF Numbered
  <2> QED
    BY <1>2, <2>2, ReplyIs DEF Addressed
<1>3. CASE \E o \in Object : About(m, o) /\ Addressed(m) /\ Self \notin m.to
  BY <1>3 DEF About
<1> QED
  BY <1>1, <1>2, <1>3 DEF Added

\* Contexts stay numbered in every step of the system, ...
LEMMA ProgressNumbered ==
    ASSUME TypeOK, Progress, Numbered
    PROVE  Numbered'
<1>1. /\ Kept(interests', interests) /\ requests' = requests
      /\ \A i \in 1..Len(uplink') : \E j \in 1..Len(uplink) : uplink'[i] = uplink[j]
  BY ProgressKeeps
<1>2. /\ \A i \in 1..Len(Pipe') : (\E j \in 1..Len(Pipe) : Pipe'[i] = Pipe[j]) \/ Added(Pipe'[i])
      /\ \A i \in 1..Len(Serving') : (\E j \in 1..Len(Serving) : Serving'[i] = Serving[j]) \/ Added(Serving'[i])
  BY ProgressFrom DEF PipeFrom, ServingFrom
<1>3. \A m : AsksRight(interests, m) => AsksRight(interests', m)
  BY <1>1, KeptFewer, AsksFewer
<1>4. \A h \in Handle : interests'[h] # None => interests'[h].context <= requests'
  BY <1>1 DEF Kept, Alike, Numbered
<1>5. \A i \in 1..Len(uplink') : uplink'[i].type = "QUERY" =>
         uplink'[i].context <= requests' /\ AsksRight(interests', uplink'[i])
  BY <1>1, <1>3 DEF Numbered
<1>6. \A i \in 1..Len(Serving') : Serving'[i].type = "QUERY" =>
         Serving'[i].context <= requests' /\ AsksRight(interests', Serving'[i])
  BY <1>1, <1>2, <1>3, AddedIsNumbered DEF Numbered
<1>7. \A i \in 1..Len(Pipe') : Pipe'[i].type = "DONE" => Pipe'[i].context <= requests'
  BY <1>1, <1>2, AddedIsNumbered DEF Numbered
<1> QED
  BY <1>4, <1>5, <1>6, <1>7 DEF Numbered

\* ... and datagrams well addressed.
LEMMA ProgressPlain ==
    ASSUME TypeOK, Progress, Numbered, Plain
    PROVE  Plain'
<1>1. \A i \in 1..Len(Pipe') : (\E j \in 1..Len(Pipe) : Pipe'[i] = Pipe[j]) \/ Added(Pipe'[i])
  BY ProgressFrom DEF PipeFrom
<1>2. \A i \in 1..Len(Pipe') : Addressed(Pipe'[i])
  BY <1>1, AddedIsNumbered DEF Plain
<1> QED
  BY <1>2 DEF Plain

\* What an ASKING adds to the uplink: a query only if it asks.
LEMMA AskingUplink ==
    ASSUME NEW gone, NEW wanted, NEW q, Asking(gone, wanted, q), Len(uplink) \in Nat
    PROVE  \A i \in 1..Len(uplink') : uplink'[i].type = "QUERY" =>
              (\E j \in 1..Len(uplink) : uplink'[i] = uplink[j]) \/ (q # <<>> /\ uplink'[i] = q[1])
<1>1. Extended(uplink, uplink') /\ Resubscribed(gone, Fresh(gone, wanted), q)
  BY DEF Asking, Resubscribed
<1>2. \A j \in Len(uplink) + 1 .. Len(uplink') :
          \/ \E l \in gone \ Shared : uplink'[j] = RemoveMsg(l)
          \/ \E l \in Fresh(gone, wanted) : uplink'[j] = SetMsg(l)
          \/ j = Len(uplink') /\ q # <<>> /\ uplink'[j] = q[1]
  BY <1>1 DEF Resubscribed
<1>3. \A l : RemoveMsg(l).type # "QUERY" /\ SetMsg(l).type # "QUERY"
  BY DEF RemoveMsg, SetMsg
<1> QED
  BY <1>1, <1>2, <1>3, ExtendedFrom

\* Without interest h there are fewer.
LEMMA OthersFewer ==
    ASSUME TypeOK, NEW h \in Handle
    PROVE  Fewer(interests, Others(h))
BY OthersAre DEF Fewer, Alike

\* Contexts stay numbered when an interest goes, ...
LEMMA RemoveNumbered ==
    ASSUME TypeOK, Numbered, NEW h \in Handle, RemoveInterest(h)
    PROVE  Numbered'
<1>1. /\ Asking(Locations(interests[h]) \ Covered(Others(h)), {}, <<>>)
      /\ interests' = Others(h) /\ requests' = requests /\ Pipe' = Pipe /\ Serving' = Serving
  BY RemoveAsks, RemoveKeeps
<1>2. Fewer(interests, interests')
  BY <1>1, OthersFewer
<1>3. \A m : AsksRight(interests, m) => AsksRight(interests', m)
  BY <1>2, AsksFewer
<1>4. \A h2 \in Handle : interests'[h2] # None => interests'[h2].context <= requests'
  BY <1>1, <1>2 DEF Fewer, Alike, Numbered
<1>5. \A i \in 1..Len(uplink') : uplink'[i].type = "QUERY" =>
         uplink'[i].context <= requests' /\ AsksRight(interests', uplink'[i])
  BY <1>1, <1>3, AskingUplink, UplinkLength DEF Numbered
<1>6. \A i \in 1..Len(Serving') : Serving'[i].type = "QUERY" =>
         Serving'[i].context <= requests' /\ AsksRight(interests', Serving'[i])
  BY <1>1, <1>3 DEF Numbered
<1>7. \A i \in 1..Len(Pipe') : Pipe'[i].type = "DONE" => Pipe'[i].context <= requests'
  BY <1>1 DEF Numbered
<1> QED
  BY <1>4, <1>5, <1>6, <1>7 DEF Numbered

\* Contexts are integers.
LEMMA ContextsType ==
    ASSUME TypeOK
    PROVE  /\ \A g \in Handle : interests[g] # None => interests[g].context \in Int
           /\ \A i \in 1..Len(uplink) : uplink[i].type = "QUERY" => uplink[i].context \in Int
           /\ \A i \in 1..Len(Serving) : Serving[i].type = "QUERY" => Serving[i].context \in Int
           /\ \A i \in 1..Len(Pipe) : Pipe[i].type = "DONE" => Pipe[i].context \in Int
<1>1. Context \subseteq Int
  BY Bounds DEF Context
<1>2. \A g \in Handle : interests[g] # None => interests[g].context \in Int
  BY <1>1 DEF TypeOK, Interest
<1>3. \A i \in 1..Len(uplink) : uplink[i] \in Control \union Queries
  BY UplinkLength, ElementOfSeq DEF TypeOK
<1>4. \A i \in 1..Len(uplink) : uplink[i].type = "QUERY" => uplink[i].context \in Int
  BY <1>1, <1>3 DEF Control, Queries
<1>5. \A m \in Datagrams : m.type \in {"QUERY", "DONE"} => m.context \in Int
  BY <1>1, DatagramKinds DEF Queries, Answers
<1> QED
  BY <1>2, <1>4, <1>5, PipeIs

\* ... and when one comes, with a context of its own.
LEMMA AddNumbered ==
    ASSUME TypeOK, Numbered, NEW h \in Handle, NEW p \in Parent, NEW zs \in SUBSET Zone, NEW ai \in FromAI,
           AddInterest(h, p, zs, ai)
    PROVE  Numbered'
<1>4. requests \in Nat
  BY Bounds DEF TypeOK
<1>1. Pipe' = Pipe /\ Serving' = Serving /\ requests' = requests + 1 /\ requests \in Nat
  BY <1>4, AddKeeps
<1>2. CASE ai /\ AlterRaises(h, p)
  <2>1. interests' = Others(h) /\ uplink' = uplink
    BY <1>2, AddKeeps
  <2>2. Fewer(interests, interests')
    BY <2>1, OthersFewer
  <2>3. \A m : AsksRight(interests, m) => AsksRight(interests', m)
    BY <2>2, AsksFewer
  <2>4. \A g \in Handle : interests'[g] # None => interests'[g].context <= requests'
    BY <1>1, <2>2, ContextsType DEF Fewer, Alike, Numbered
  <2>5. \A i \in 1..Len(uplink') : uplink'[i].type = "QUERY" =>
           uplink'[i].context <= requests' /\ AsksRight(interests', uplink'[i])
    BY <1>1, <2>1, <2>3, ContextsType DEF Numbered
  <2>6. \A i \in 1..Len(Serving') : Serving'[i].type = "QUERY" =>
           Serving'[i].context <= requests' /\ AsksRight(interests', Serving'[i])
    BY <1>1, <2>3, ContextsType DEF Numbered
  <2>7. \A i \in 1..Len(Pipe') : Pipe'[i].type = "DONE" => Pipe'[i].context <= requests'
    BY <1>1, ContextsType DEF Numbered
  <2> QED
    BY <2>4, <2>5, <2>6, <2>7 DEF Numbered
<1>3. CASE ~(ai /\ AlterRaises(h, p))
  <2>1. PICK q \in Seq(Queries) : /\ Asking(Given(h, p, zs), Zones(p, zs), q)
                                  /\ q # <<>> => q[1] = Query(h, requests + 1, p, zs)
    BY <1>3, AddAsks
  <2>2. /\ Opened(p, zs) # None /\ interests'[h] = Opened(p, zs)
        /\ \A g \in Handle \ {h} : interests'[g] = interests[g]
    BY <1>3, InterestAdded
  <2>3. Opened(p, zs).context = requests + 1 /\ Opened(p, zs).parent = p /\ Opened(p, zs).zones = zs
    BY DEF Opened
  <2>4. \A g \in Handle : interests'[g] # None => interests'[g].context <= requests'
    BY <1>1, <2>2, <2>3, ContextsType DEF Numbered
  <2>5. ASSUME NEW m, m.context \in Int, m.context <= requests, AsksRight(interests, m)
        PROVE  m.context <= requests' /\ AsksRight(interests', m)
    <3>1. m.context <= requests' /\ m.context # requests + 1
      BY <1>1, <2>5
    <3>2. \A g \in Handle : Asks(interests', m, g) => g # h /\ Asks(interests, m, g)
      BY <2>2, <2>3, <3>1 DEF Asks
    <3> QED
      BY <2>2, <2>5, <3>1, <3>2 DEF AsksRight
  <2>6. ASSUME q # <<>> PROVE q[1].context <= requests' /\ AsksRight(interests', q[1])
    BY <1>1, <2>1, <2>2, <2>3, <2>6 DEF AsksRight, Asks, Query
  <2>7. \A i \in 1..Len(uplink') : uplink'[i].type = "QUERY" =>
              (\E j \in 1..Len(uplink) : uplink'[i] = uplink[j]) \/ (q # <<>> /\ uplink'[i] = q[1])
    BY <2>1, AskingUplink, UplinkLength
  <2>8. \A i \in 1..Len(uplink') : uplink'[i].type = "QUERY" =>
           uplink'[i].context <= requests' /\ AsksRight(interests', uplink'[i])
    BY <2>5, <2>6, <2>7, ContextsType DEF Numbered
  <2>9. \A i \in 1..Len(Serving') : Serving'[i].type = "QUERY" =>
           Serving'[i].context <= requests' /\ AsksRight(interests', Serving'[i])
    BY <1>1, <2>5, ContextsType DEF Numbered
  <2>10. \A i \in 1..Len(Pipe') : Pipe'[i].type = "DONE" => Pipe'[i].context <= requests'
    BY <1>1, ContextsType DEF Numbered
  <2> QED
    BY <2>4, <2>8, <2>9, <2>10 DEF Numbered
<1> QED
  BY <1>2, <1>3

\* What the client takes for answered was, or the first datagram answers it.
LEMMA ReceiveDone ==
    ASSUME TypeOK, Receive, NEW h \in Handle, interests'[h] # None, interests'[h].done
    PROVE  interests[h] # None /\ (interests[h].done \/ AnswersFor(interests, Pipe[1], h))
<1>1. Pipe[1] = Head(inbox)
  BY ReceivePipe
<1>2. interests[h] # None
  BY Reaches, DoneIs, NewsIs DEF Kept
<1>3. CASE UNCHANGED <<interests, shown, queued, strayed>>
  BY <1>3
<1>4. CASE Head(inbox) \in News /\ ObjectNews(Head(inbox))
  <2> DEFINE m == Head(inbox)
  <2>1. interests' = IF m.type = "ENTERZONE" THEN Enlist(interests, m.obj, m.at) ELSE interests
    BY <1>4 DEF ObjectNews
  <2>2. m.obj \in Object /\ interests \in Interests
    BY <1>4, NewsFields DEF TypeOK, Interests
  <2> HIDE DEF m
  <2>3. CASE m.type = "ENTERZONE"
    <3>1. interests' = Enlist(interests, m.obj, m.at)
      BY <2>1, <2>3
    <3>2. \A k \in Handle : interests[k] # None => interests'[k].done = interests[k].done
      BY <2>2, <3>1, Enlisted
    <3> QED
      BY <1>2, <3>2
  <2> QED
    BY <1>2, <2>1, <2>3
<1>5. CASE Head(inbox) \in Answers /\ InterestDone(Head(inbox))
  <2> DEFINE m == Head(inbox)
             g == m.handle
             ints == [interests EXCEPT ![g].done = TRUE, ![g].pending_objects = {}]
             due == {o \in interests[g].pending_objects : queued[o] # <<>>}
             after == [o \in Object |-> IF o \in due THEN Replayed(ints, ObjectState(o)) ELSE ObjectState(o)]
             again(k) == {o \in due : after[o].pending # <<>> /\ k \in OpenAt(ints, after[o].pending[1].at)}
  <2>1. CASE UNCHANGED <<interests, shown, queued>>
    BY <1>2, <2>1
  <2>2. CASE ~(interests[g] = None \/ interests[g].context # m.context \/ interests[g].done)
    <3>1. interests' = [k \in Handle |-> IF ints[k] = None THEN None
                           ELSE [ints[k] EXCEPT !.pending_objects = @ \union again(k)]]
      BY <1>5, <2>2 DEF InterestDone
    <3>2. \A k \in Handle \ {g} : ints[k] = interests[k]
      BY DEF TypeOK
    <3>3. \A k \in Handle : interests[k] # None => interests[k] \in Interest
      BY DEF TypeOK
    <3> HIDE DEF ints, again
    <3>4. CASE h = g
      BY <1>1, <1>2, <1>5, <2>2, <3>4 DEF AnswersFor, Answers
    <3>5. CASE h # g
      <4>1. interests'[h] = [interests[h] EXCEPT !.pending_objects = @ \union again(h)]
        BY <1>2, <3>1, <3>2, <3>5
      <4>2. interests'[h].done = interests[h].done
        BY <1>2, <3>3, <4>1 DEF Interest
      <4> QED
        BY <1>2, <4>2
    <3> QED
      BY <3>4, <3>5
  <2> QED
    BY <1>5, <2>1, <2>2 DEF InterestDone
<1> QED
  BY <1>3, <1>4, <1>5, Reaches

\* An interest has been answered, unless what is added answers it.
LEMMA AnsweredFrom ==
    ASSUME TypeOK, Progress, NEW h \in Handle, Answered(h)'
    PROVE  \/ Answered(h)
           \/ /\ Len(Serving) > 0 /\ Serving[1] \in Queries /\ Asks(interests, Serving[1], h)
<1>1. /\ interests'[h] # None /\ interests[h] # None
      /\ interests'[h].done \/ \E i \in 1..Len(Pipe') : AnswersFor(interests', Pipe'[i], h)
  BY ProgressKeeps DEF Answered, Kept
<1>2. CASE interests'[h].done
  <2>1. CASE Receive
    <3>1. interests[h].done \/ AnswersFor(interests, Pipe[1], h)
      BY <1>1, <1>2, <2>1, ReceiveDone
    <3>2. 1 \in 1..Len(Pipe)
      <4>1. Removed(Pipe, Pipe', 1)
        BY <2>1, ReceivePipe
      <4> QED
        BY <4>1 DEF Removed
    <3> QED
      BY <1>1, <3>1, <3>2 DEF Answered
  <2>2. CASE ~Receive
    <3>1. interests' = interests
      BY <2>2, ForwardPipe, RoutePipe, ServePipe, EventPipe DEF Progress, clientVars
    <3> QED
      BY <1>1, <1>2, <3>1 DEF Answered
  <2> QED
    BY <2>1, <2>2
<1>3. ASSUME NEW i \in 1..Len(Pipe'), AnswersFor(interests', Pipe'[i], h)
      PROVE  \/ Answered(h)
             \/ /\ Len(Serving) > 0 /\ Serving[1] \in Queries /\ Asks(interests, Serving[1], h)
  <2>1. AnswersFor(interests, Pipe'[i], h)
    BY <1>3, ProgressKeeps, KeptFewer
  <2>2. CASE \E j \in 1..Len(Pipe) : Pipe'[i] = Pipe[j]
    BY <1>1, <2>1, <2>2 DEF Answered
  <2>3. CASE Added(Pipe'[i])
    <3>1. Pipe'[i].type = "DONE" /\ Pipe'[i].handle = h /\ Pipe'[i].context = interests[h].context
      BY <2>1 DEF AnswersFor
    <3>2. /\ Len(Serving) > 0 /\ Serving[1] \in Queries /\ Reply(Pipe'[i], Serving[1])
      BY <2>3, <3>1 DEF Added, About, Queries
    <3>3. Serving[1].type = "QUERY" /\ Serving[1].handle = h /\ Serving[1].context = interests[h].context
      BY <3>1, <3>2, ReplyIs DEF Queries
    <3> QED
      BY <1>1, <3>2, <3>3 DEF Asks
  <2> QED
    BY <2>2, <2>3, ProgressFrom DEF PipeFrom
<1> QED
  BY <1>1, <1>2, <1>3

\* No subscription to l is on its way, and it is not needed.
Settled(l) == ~Coming(l) /\ l \in (left \ channels) \union Routed

\* A location that is subscribed, or that nothing is to come of, is settled.
LEMMA RoutedIsSettled ==
    ASSUME SharedQuiet, Mirror, NEW l \in Location
    PROVE  /\ l \in Routed => Settled(l)
           /\ ~Coming(l) /\ l \in channels \union left => Settled(l)
<1>1. l \in Shared => ~Coming(l)
  BY DEF SharedQuiet
<1>2. l \notin Shared => (Coming(l) => l \notin upstream) /\ (l \in channels => Coming(l) \/ l \in upstream)
  BY DEF Mirror
<1> QED
  BY <1>1, <1>2 DEF Settled, Routed

\* The locations behind what is addressed.
LEMMA AddressedTo ==
    ASSUME NEW m \in Datagrams, Addressed(m), NEW l \in Location, l \in m.to
    PROVE  m.to = {l} /\ About(m, m.obj) /\ m.obj \in Object
<1>1. m.type \notin {"DONE", "QUERY"}
  BY DatagramKinds, Bounds
<1>2. m \in News
  BY <1>1 DEF Datagrams, Queries, Answers
<1>3. m.type = "ENTERZONE" => m.at \in Location
  BY <1>2, NewsFields
<1>4. m.type \in {"ENTERZONE", "CHANGE_ZONE", "UPDATE_FIELD", "DELETE_RAM"} /\ m.obj \in Object
  BY <1>2, NewsFields
<1> QED
  BY <1>3, <1>4, Bounds DEF Addressed, About

\* A settled location stays so in every step of the system.
LEMMA ProgressSettled ==
    ASSUME TypeOK, Progress, SharedQuiet, Mirror, NEW l \in Location, Settled(l)
    PROVE  Settled(l)'
<1>1. channels' = channels /\ left' = left
  BY ProgressKeeps
<1>2. CASE Forward
  <2>1. ~Coming(l)'
    BY <1>2, ForwardMirror DEF Settled
  <2>2. CASE l \in left \ channels
    BY <1>1, <2>1, <2>2 DEF Settled
  <2>3. CASE l \in Routed /\ l \in Shared
    BY <2>1, <2>3 DEF Settled, Routed
  <2>4. CASE l \in upstream /\ l \notin Shared
    <3>1. CASE uplink[1].type = "REMOVE_CHANNEL" /\ uplink[1].channel = l
      <4>1. uplink[1] = RemoveMsg(l)
        BY <1>2, <3>1, ForwardPipe DEF Control, Queries, RemoveMsg
      <4>2. Going(l)
        BY <1>2, <4>1, ForwardUplink DEF Going
      <4>3. l \in left /\ l \notin channels
        BY <2>4, <4>2 DEF Mirror
      <4> QED
        BY <1>1, <2>1, <4>3 DEF Settled
    <3>2. CASE ~(uplink[1].type = "REMOVE_CHANNEL" /\ uplink[1].channel = l)
      <4>1. l \in upstream'
        BY <1>2, <2>4, <3>2, ForwardPipe
      <4> QED
        BY <2>1, <4>1 DEF Settled, Routed
    <3> QED
      BY <3>1, <3>2
  <2> QED
    BY <2>2, <2>3, <2>4 DEF Settled, Routed
<1>3. CASE ~Forward
  <2>1. uplink' = uplink /\ upstream' = upstream
    BY <1>3, ReceivePipe, RoutePipe, ServePipe, EventPipe DEF Progress
  <2> QED
    BY <1>1, <2>1 DEF Settled, Routed, Coming
<1> QED
  BY <1>2, <1>3

\* Only what is settled is touched.
LEMMA ProgressTouched ==
    ASSUME TypeOK, Progress, SharedQuiet, Mirror, QueryOrder, Numbered, Plain, Clean, NEW l \in Location, Touched(l)'
    PROVE  Settled(l)
<1>0. Touched(l) => Settled(l)
  BY DEF Clean, Settled
<1>1. ASSUME NEW i \in 1..Len(inbox'), l \in inbox'[i].to
      PROVE  Settled(l)
  <2>1. CASE Route
    <3>1. CASE i \in 1..Len(inbox) /\ inbox'[i] = inbox[i]
      BY <1>0, <1>1, <3>1 DEF Touched
    <3>2. CASE ~(i \in 1..Len(inbox) /\ inbox'[i] = inbox[i])
      <4> DEFINE n == Len(inbox) + 1
      <4>1. /\ n \in 1..Len(Pipe) /\ Len(inbox)' = n /\ Pipe[n].to \intersect (Routed \union {Self}) # {}
            /\ inbox'[n] = Pipe[n] /\ i = n
        <5>1. \/ /\ Len(inbox)' = n /\ Pipe[n].to \intersect (Routed \union {Self}) # {}
                 /\ inbox'[n] = Pipe[n] /\ \A k \in 1..Len(inbox) : inbox'[k] = inbox[k]
              \/ inbox' = inbox
          BY <2>1, RoutePipe
        <5>2. n \in 1..Len(Pipe) /\ Len(inbox) \in Nat
          BY <2>1, RoutePipe, PipeIs
        <5>3. inbox' # inbox
          BY <1>1, <3>2
        <5>4. /\ Len(inbox)' = n /\ Pipe[n].to \intersect (Routed \union {Self}) # {}
              /\ inbox'[n] = Pipe[n] /\ \A k \in 1..Len(inbox) : inbox'[k] = inbox[k]
          BY <5>1, <5>3
        <5>5. i = n
          BY <1>1, <3>2, <5>2, <5>4
        <5> QED
          BY <5>2, <5>4, <5>5
      <4>2. Pipe[n] \in Datagrams /\ Addressed(Pipe[n])
        BY <4>1, PipeIs DEF Plain
      <4>3. Pipe[n].to = {l}
        BY <1>1, <4>1, <4>2, AddressedTo
      <4>4. l \in Routed
        BY <4>1, <4>3, Bounds
      <4> QED
        BY <4>4, RoutedIsSettled
    <3> QED
      BY <3>1, <3>2
  <2>2. CASE Receive
    <3>1. \E j \in 1..Len(inbox) : inbox'[i] = inbox[j]
      <4>1. inbox # <<>> /\ inbox' = Tail(inbox) /\ inbox \in Seq(Datagrams)
        BY <2>2, PipeIs DEF Receive
      <4>2. i + 1 \in 1..Len(inbox) /\ inbox'[i] = inbox[i + 1]
        BY <4>1, <1>1
      <4> QED
        BY <4>2
    <3> QED
      BY <1>0, <1>1, <3>1 DEF Touched
  <2>3. CASE ~Route /\ ~Receive
    <3>1. inbox' = inbox
      BY <2>3, ForwardPipe, ServePipe, EventPipe DEF Progress
    <3> QED
      BY <1>0, <1>1, <3>1 DEF Touched
  <2> QED
    BY <2>1, <2>2, <2>3
<1>2. ASSUME NEW m, Added(m), m.type = "ENTERZONE", Self \in m.to, m.at = l, m.obj \notin strayed'
      PROVE  Settled(l)
  <2>1. /\ Len(Serving) > 0 /\ Serving[1] \in Queries /\ Reply(m, Serving[1])
        /\ Misplaced(Serving[1]) \subseteq strayed'
    BY <1>2 DEF Added, Queries
  <2>2. /\ m.obj \in Object /\ place[m.obj] # Nowhere /\ m.at = place[m.obj]
        /\ \E k \in Zones(Serving[1].parent, Serving[1].zones) : <<k, m.obj>> \in index
    BY <1>2, <2>1, ReplyIs
  <2>3. m.obj \notin Misplaced(Serving[1])
    BY <1>2, <2>1
  <2>4. l \in Zones(Serving[1].parent, Serving[1].zones)
    BY <1>2, <2>2, <2>3 DEF Misplaced
  <2>5. 1 \in 1..Len(Serving) /\ Serving[1].type = "QUERY"
    BY <2>1, PipeIs DEF Queries
  <2> QED
    BY <1>0, <2>4, <2>5 DEF Touched
<1>3. ASSUME NEW i \in 1..Len(Pipe'), Pipe'[i].type = "ENTERZONE", Self \in Pipe'[i].to,
             Pipe'[i].at = l, Pipe'[i].obj \notin strayed'
      PROVE  Settled(l)
  <2>1. CASE \E j \in 1..Len(Pipe) : Pipe'[i] = Pipe[j]
    BY <1>0, <1>3, <2>1, ProgressKeeps DEF Touched
  <2> QED
    BY <1>2, <1>3, <2>1, ProgressFrom DEF PipeFrom
<1>4. ASSUME NEW i \in 1..Len(Serving'), Serving'[i].type = "QUERY",
             l \in Zones(Serving'[i].parent, Serving'[i].zones)
      PROVE  Settled(l)
  <2>1. CASE \E j \in 1..Len(Serving) : Serving'[i] = Serving[j]
    BY <1>0, <1>4, <2>1 DEF Touched
  <2>2. CASE Added(Serving'[i])
    <3>1. Len(uplink) > 0 /\ Serving'[i] = uplink[1] /\ uplink[1] \in Queries
      BY <1>4, <2>2, ReplyIs DEF Added, About
    <3>2. 1 \in 1..Len(uplink) /\ uplink[1].type = "QUERY" /\ Len(uplink) \in Nat
      BY <3>1, UplinkLength DEF Queries
    <3>3. l \in channels \union left /\ \A j \in 1 + 1 .. Len(uplink) : uplink[j] # SetMsg(l)
      BY <1>4, <3>1, <3>2 DEF QueryOrder
    <3>4. uplink[1] # SetMsg(l)
      BY <3>2, Messages
    <3>5. \A j \in 1..Len(uplink) : j = 1 \/ j \in 1 + 1 .. Len(uplink)
      BY <3>2
    <3>6. ~Coming(l)
      BY <3>3, <3>4, <3>5 DEF Coming
    <3> QED
      BY <3>3, <3>6, RoutedIsSettled
  <2> QED
    BY <2>1, <2>2, ProgressFrom DEF ServingFrom
<1> QED
  BY <1>1, <1>3, <1>4 DEF Touched

\* What has been on its way before a subscription is gone by then, and answers come behind it.
LEMMA ProgressClean ==
    ASSUME TypeOK, Progress, SharedQuiet, Mirror, QueryOrder, Numbered, Plain, Clean, DoneHeard
    PROVE  Clean' /\ DoneHeard'
<1>1. ASSUME NEW l \in Location, Touched(l)' PROVE Settled(l)'
  BY <1>1, ProgressTouched, ProgressSettled
<1>2. Clean'
  BY <1>1 DEF Clean, Settled
<1>3. ASSUME NEW h \in Handle, Answered(h)', NEW l \in Locations(interests'[h])
      PROVE  ~Coming(l)'
  <2>1. l \in Locations(interests[h])
    BY <1>3, ProgressKeeps, KeptFewer
  <2>2. \A k : Coming(k)' => Coming(k)
    <3>1. CASE Forward
      BY <3>1, ForwardMirror
    <3>2. CASE ~Forward
      <4>1. uplink' = uplink
        BY <3>2, ReceivePipe, RoutePipe, ServePipe, EventPipe DEF Progress
      <4> QED
        BY <4>1 DEF Coming
    <3> QED
      BY <3>1, <3>2
  <2>3. CASE Answered(h)
    BY <2>1, <2>2, <2>3 DEF DoneHeard
  <2>4. CASE Len(Serving) > 0 /\ Serving[1] \in Queries /\ Asks(interests, Serving[1], h)
    <3>1. 1 \in 1..Len(Serving) /\ Serving[1].type = "QUERY"
      BY <2>4, PipeIs DEF Queries
    <3>2. AsksRight(interests, Serving[1])
      BY <3>1 DEF Numbered
    <3>3. Serving[1].parent = interests[h].parent /\ Serving[1].zones = interests[h].zones /\ interests[h] # None
      BY <2>4, <3>2 DEF AsksRight, Asks
    <3>4. l \in Zones(Serving[1].parent, Serving[1].zones)
      BY <2>1, <3>3 DEF Locations
    <3>5. Touched(l) /\ l \in Location
      <4>1. l \in Location
        BY <2>1, LocationsType DEF TypeOK
      <4> QED
        BY <3>1, <3>4, <4>1 DEF Touched
    <3> QED
      BY <2>2, <3>5 DEF Clean
  <2> QED
    BY <1>3, <2>3, <2>4, AnsweredFrom
<1> QED
  BY <1>2, <1>3 DEF DoneHeard

\* What is on its way when the interests change.
LEMMA AskingClean ==
    ASSUME NEW gone, NEW wanted, NEW q, Asking(gone, wanted, q), Patient(wanted), TypeOK, TypeOK',
           SharedQuiet, Mirror, Clean, strayed \subseteq strayed', Serving' = Serving, Pipe' = Pipe, inbox' = inbox
    PROVE  Clean'
<1>0. Len(uplink) \in Nat /\ Len(uplink') \in Nat
  BY UplinkLength, UplinkNext
<1>1. /\ channels' = (channels \ gone) \union wanted /\ left' = left \union gone /\ upstream' = upstream
      /\ gone \intersect wanted = {} /\ wanted \in SUBSET Location
  BY DEF Asking
<1>2. \A l : Coming(l)' <=> Coming(l) \/ l \in Fresh(gone, wanted)
  BY <1>0, Comings
<1>3. ASSUME NEW l \in Location, Touched(l)' PROVE ~Coming(l)' /\ l \in (left' \ channels') \union Routed'
  <2>1. Touched(l)
    BY <1>3 DEF Touched
  <2>2. ~Coming(l) /\ l \in (left \ channels) \union Routed
    BY <2>1 DEF Clean
  <2>3. ~Still
    <3>1. ASSUME Still PROVE FALSE
      <4>1. inbox = <<>> /\ Pipe = <<>> /\ Serving = <<>>
        BY <3>1, PipeIs DEF Still, Pipe, Serving
      <4>2. Len(inbox) = 0 /\ Len(Pipe) = 0 /\ Len(Serving) = 0
        BY <4>1
      <4> QED
        BY <2>1, <4>2 DEF Touched
    <3> QED
      BY <3>1
  <2>4. l \notin Fresh(gone, wanted)
    <3>1. ASSUME l \in Fresh(gone, wanted) PROVE FALSE
      <4>1. l \notin channels /\ l \notin Shared /\ l \notin upstream /\ (l \notin left \/ Still)
        BY <1>0, <3>1, FreshIs
      <4> QED
        BY <2>2, <2>3, <4>1 DEF Routed
    <3> QED
      BY <3>1
  <2>5. ~Coming(l)'
    BY <1>2, <2>2, <2>4
  <2>6. CASE l \in Routed
    BY <1>1, <2>5, <2>6 DEF Routed
  <2>7. CASE l \in left \ channels /\ l \notin Routed
    <3>1. l \notin wanted
      BY <1>1, <2>4, <2>7 DEF Fresh, Routed
    <3> QED
      BY <1>1, <2>5, <2>7, <3>1
  <2> QED
    BY <2>2, <2>6, <2>7
<1> QED
  BY <1>3 DEF Clean

\* Removing an interest keeps all that is known of the subscriptions, ...
LEMMA RemoveClean ==
    ASSUME TypeOK, NEW h \in Handle, RemoveInterest(h), SharedQuiet, Mirror, QueryOrder, Clean, DoneHeard
    PROVE  SharedQuiet' /\ Mirror' /\ QueryOrder' /\ Clean' /\ DoneHeard'
<1> DEFINE gone == Locations(interests[h]) \ Covered(Others(h))
<1>1. /\ Asking(gone, {}, <<>>) /\ Patient({}) /\ interests' = Others(h) /\ strayed \subseteq strayed'
      /\ inbox' = inbox /\ Pipe' = Pipe /\ Serving' = Serving
  BY RemoveAsks, RemoveKeeps
<1>2. TypeOK' /\ Len(uplink) \in Nat /\ Len(uplink') \in Nat
  <2>1. TypeOK'
    BY RemoveType
  <2>2. Len(uplink') \in Nat
    BY <2>1 DEF TypeOK
  <2> QED
    BY <2>1, <2>2, UplinkLength
<1> HIDE DEF gone
<1>3. Mirror' /\ QueryOrder' /\ SharedQuiet'
  BY <1>1, <1>2, AskingMirror, AskingOrder, AskingShared
<1>4. Clean'
  BY <1>1, <1>2, AskingClean
<1>5. ASSUME NEW g \in Handle, Answered(g)', NEW l \in Locations(interests'[g]) PROVE ~Coming(l)'
  <2>1. interests'[g] = interests[g]
    BY <1>1, <1>5, OthersAre DEF Answered
  <2>2. Answered(g)
    BY <1>1, <1>5, <2>1 DEF Answered, AnswersFor
  <2>3. ~Coming(l)
    BY <1>5, <2>1, <2>2 DEF DoneHeard
  <2>4. l \notin Fresh(gone, {})
    BY DEF Fresh
  <2> QED
    BY <1>1, <1>2, <2>3, <2>4, Comings
<1> QED
  BY <1>3, <1>4, <1>5 DEF DoneHeard

\* ... and so does adding one, in no hurry.
LEMMA AddClean ==
    ASSUME TypeOK, InterestsHeard, NEW h \in Handle, NEW p \in Parent, NEW zs \in SUBSET Zone, NEW ai \in FromAI,
           AddInterest(h, p, zs, ai), Numbered, SharedQuiet, Mirror, QueryOrder, Clean, DoneHeard, Calm'
    PROVE  SharedQuiet' /\ Mirror' /\ QueryOrder' /\ Clean' /\ DoneHeard'
<1>1. /\ UNCHANGED <<inbox, upstream>> /\ Pipe' = Pipe /\ Serving' = Serving
      /\ Patient(Zones(p, zs)) /\ strayed \subseteq strayed' /\ TypeOK' /\ requests \in Nat
  <2>1. requests \in Nat
    BY Bounds DEF TypeOK
  <2> QED
    BY <2>1, AddKeeps, AddType DEF Calm
<1>2. CASE ai /\ AlterRaises(h, p)
  <2>1. interests' = Others(h) /\ UNCHANGED <<channels, uplink, left>>
    BY <1>2, AddKeeps
  <2>2. SharedQuiet' /\ Mirror' /\ QueryOrder'
    BY <1>1, <2>1 DEF SharedQuiet, Mirror, QueryOrder, Coming, Going
  <2>3. Clean'
    BY <1>1, <2>1 DEF Clean, Touched, Coming, Routed
  <2>4. ASSUME NEW g \in Handle, Answered(g)', NEW l \in Locations(interests'[g]) PROVE ~Coming(l)'
    <3>1. interests'[g] = interests[g]
      BY <2>1, <2>4, OthersAre DEF Answered
    <3>2. Answered(g)
      BY <1>1, <2>4, <3>1 DEF Answered, AnswersFor
    <3>3. ~Coming(l)
      BY <2>4, <3>1, <3>2 DEF DoneHeard
    <3> QED
      BY <2>1, <3>3 DEF Coming
  <2> QED
    BY <2>2, <2>3, <2>4 DEF DoneHeard
<1>3. CASE ~(ai /\ AlterRaises(h, p))
  <2> DEFINE gone == Given(h, p, zs)
             wanted == Zones(p, zs)
  <2>1. PICK q \in Seq(Queries) : /\ Asking(gone, wanted, q)
                                  /\ q # <<>> => q[1] = Query(h, requests + 1, p, zs)
    BY <1>3, AddAsks
  <2>2. /\ Opened(p, zs) # None /\ interests'[h] = Opened(p, zs)
        /\ \A g \in Handle \ {h} : interests'[g] = interests[g]
    BY <1>3, InterestAdded
  <2>3. Len(uplink) \in Nat /\ Len(uplink') \in Nat
    BY <1>1, UplinkLength, UplinkNext
  <2>4. Patient(wanted)
    BY <1>1
  <2> HIDE DEF gone, wanted
  <2>5. Mirror' /\ QueryOrder' /\ SharedQuiet'
    BY <2>1, <2>3, <2>4, AskingMirror, AskingOrder, AskingShared
  <2>6. Clean'
    BY <1>1, <2>1, <2>3, <2>4, AskingClean
  <2>7. ASSUME NEW g \in Handle, Answered(g)', NEW l \in Locations(interests'[g]) PROVE ~Coming(l)'
    <3>1. CASE g = h
      <4>1. Opened(p, zs).done = (zs = {}) /\ Opened(p, zs).context = requests + 1
            /\ Opened(p, zs).zones = zs /\ Opened(p, zs).parent = p
        BY DEF Opened
      <4>2. CASE zs = {}
        <5>1. Locations(interests'[g]) = {}
          BY <2>2, <3>1, <4>1, <4>2 DEF Locations, Zones
        <5> QED
          BY <2>7, <5>1
      <4>3. CASE zs # {}
        <5>1. PICK i \in 1..Len(Pipe) : AnswersFor(interests', Pipe[i], h)
          BY <1>1, <2>2, <2>7, <3>1, <4>1, <4>3 DEF Answered
        <5>2. Pipe[i].type = "DONE" /\ Pipe[i].context = requests + 1
          BY <2>2, <4>1, <5>1 DEF AnswersFor
        <5>3. requests + 1 <= requests
          BY <5>2 DEF Numbered
        <5> QED
          BY <1>1, <5>3
      <4> QED
        BY <4>2, <4>3
    <3>2. CASE g # h
      <4>1. interests'[g] = interests[g]
        BY <2>2, <3>2
      <4>2. Answered(g)
        BY <1>1, <2>7, <4>1 DEF Answered, AnswersFor
      <4>3. ~Coming(l) /\ l \in channels /\ l \notin gone
        <5>1. ~Coming(l)
          BY <2>7, <4>1, <4>2 DEF DoneHeard
        <5>2. l \in Covered(interests) /\ l \in Covered(interests')
          BY <2>7, <4>1, Covers
        <5>3. l \in channels'
          <6>1. InterestsHeard'
            BY AddHeard
          <6> QED
            BY <5>2, <6>1 DEF InterestsHeard
        <5>4. gone \intersect wanted = {} /\ channels' = (channels \ gone) \union wanted
          BY <2>1 DEF Asking
        <5> QED
          BY <5>1, <5>2, <5>3, <5>4 DEF InterestsHeard
      <4>4. l \notin Fresh(gone, wanted)
        BY <4>3 DEF Fresh
      <4> QED
        BY <2>1, <2>3, <4>3, <4>4, Comings
    <3> QED
      BY <3>1, <3>2
  <2> QED
    BY <2>5, <2>6, <2>7 DEF DoneHeard
<1> QED
  BY <1>2, <1>3

\* Forwarding sends no subscription to a shared location.
LEMMA ForwardQuiet ==
    ASSUME TypeOK, Forward, SharedQuiet
    PROVE  SharedQuiet'
<1>1. \A i \in 1..Len(uplink') : i + 1 \in 1..Len(uplink) /\ uplink'[i] = uplink[i + 1]
  BY ForwardUplink
<1>2. (\A l : Coming(l)' => Coming(l)) /\ (\A l : Going(l)' => Going(l))
  BY <1>1 DEF Coming, Going
<1> QED
  BY <1>2 DEF SharedQuiet

\* What the server's side of the subscriptions needs of the next step.
LEMMA ProgressSubscribed ==
    ASSUME TypeOK, Progress, Subscribed
    PROVE  Subscribed'
<1>1. Numbered /\ Plain /\ SharedQuiet /\ (Calm => Mirror /\ QueryOrder /\ Clean /\ DoneHeard)
  BY DEF Subscribed
<1>2. Numbered' /\ Plain'
  BY <1>1, ProgressNumbered, ProgressPlain
<1>3. Calm' => Calm
  BY ProgressKeeps DEF Calm, TypeOK
<1>4. SharedQuiet'
  <2>1. CASE Forward
    BY <1>1, <2>1, ForwardQuiet
  <2>2. CASE ~Forward
    <3>1. uplink' = uplink
      BY <2>2, ReceivePipe, RoutePipe, ServePipe, EventPipe DEF Progress
    <3> QED
      BY <1>1, <3>1 DEF SharedQuiet, Coming, Going
  <2> QED
    BY <2>1, <2>2
<1>5. ASSUME Calm PROVE Mirror' /\ QueryOrder'
  <2>1. CASE Forward
    BY <1>1, <1>5, <2>1, ForwardMirror, ForwardOrder
  <2>2. CASE ~Forward
    <3>1. uplink' = uplink /\ upstream' = upstream /\ left' = left /\ channels' = channels
      BY <2>2, ReceivePipe, RoutePipe, ServePipe, EventPipe, ProgressKeeps DEF Progress
    <3> QED
      BY <1>1, <1>5, <3>1 DEF Mirror, QueryOrder, Coming, Going
  <2> QED
    BY <2>1, <2>2
<1>6. ASSUME Calm PROVE Clean' /\ DoneHeard'
  BY <1>1, <1>6, ProgressClean
<1> QED
  BY <1>2, <1>3, <1>4, <1>5, <1>6 DEF Subscribed

\* ... or the removal of an interest, ...
LEMMA RemoveSubscribed ==
    ASSUME TypeOK, NEW h \in Handle, RemoveInterest(h), Subscribed
    PROVE  Subscribed'
<1>1. Numbered /\ Plain /\ SharedQuiet /\ (Calm => Mirror /\ QueryOrder /\ Clean /\ DoneHeard)
  BY DEF Subscribed
<1>2. Numbered' /\ Plain'
  BY <1>1, RemoveNumbered, RemoveKeeps DEF Plain
<1>3. Calm' => Calm
  BY RemoveAsks, RemoveType DEF Calm, TypeOK
<1>4. SharedQuiet'
  <2>1. Asking(Locations(interests[h]) \ Covered(Others(h)), {}, <<>>)
    BY RemoveAsks
  <2>2. Len(uplink) \in Nat /\ Len(uplink') \in Nat
    BY RemoveType, UplinkLength, UplinkNext
  <2> QED
    BY <1>1, <2>1, <2>2, AskingShared
<1>5. Calm => Mirror' /\ QueryOrder' /\ Clean' /\ DoneHeard'
  BY <1>1, RemoveClean
<1> QED
  BY <1>2, <1>3, <1>4, <1>5 DEF Subscribed

\* ... or the addition of one.
LEMMA AddSubscribed ==
    ASSUME TypeOK, InterestsHeard, NEW h \in Handle, NEW p \in Parent, NEW zs \in SUBSET Zone, NEW ai \in FromAI,
           AddInterest(h, p, zs, ai), Subscribed
    PROVE  Subscribed'
<1>1. Numbered /\ Plain /\ SharedQuiet /\ (Calm => Mirror /\ QueryOrder /\ Clean /\ DoneHeard)
  BY DEF Subscribed
<1>2. Pipe' = Pipe /\ TypeOK' /\ (Calm' => strayed \subseteq strayed')
  BY AddKeeps, AddType DEF Calm
<1>3. Numbered' /\ Plain'
  BY <1>1, <1>2, AddNumbered DEF Plain
<1>4. Calm' => Calm
  BY <1>2 DEF Calm, TypeOK
<1>5. SharedQuiet'
  <2>1. Len(uplink) \in Nat /\ Len(uplink') \in Nat
    BY <1>2, UplinkLength, UplinkNext
  <2>2. CASE ai /\ AlterRaises(h, p)
    <3>1. uplink' = uplink
      BY <2>2, AddKeeps
    <3> QED
      BY <1>1, <3>1 DEF SharedQuiet, Coming, Going
  <2>3. CASE ~(ai /\ AlterRaises(h, p))
    <3>1. PICK q \in Seq(Queries) : Asking(Given(h, p, zs), Zones(p, zs), q)
      BY <2>3, AddAsks
    <3> QED
      BY <1>1, <2>1, <3>1, AskingShared
  <2> QED
    BY <2>2, <2>3
<1>6. Calm' => Mirror' /\ QueryOrder' /\ Clean' /\ DoneHeard'
  BY <1>1, <1>4, AddClean
<1> QED
  BY <1>3, <1>5, <1>6 DEF Subscribed

-----------------------------------------------------------------------------
(* What the parents list *)

ListedIn(s, x, idx, o) ==
    /\ (\A k \in 1..Len(s) : ~IsMove(s[k], o)) /\ x # Nowhere => <<x, o>> \in idx
    /\ \A k \in 1..Len(s) :
          IsMove(s[k], o) /\ (\A j \in k + 1 .. Len(s) : ~IsMove(s[j], o)) => s[k].new = x

\* What comes behind the last move does not change what is listed, ...
LEMMA ListedExtended ==
    ASSUME NEW s, NEW r, Extended(s, r), NEW x, NEW idx, NEW o, ListedIn(s, x, idx, o),
           \A k \in Len(s) + 1 .. Len(r) : ~IsMove(r[k], o)
    PROVE  ListedIn(r, x, idx, o)
<1>1. Len(s) \in Nat /\ Len(r) \in Nat /\ Len(s) <= Len(r) /\ \A j \in 1..Len(s) : r[j] = s[j]
  BY DEF Extended
<1>2. (\A k \in 1..Len(r) : ~IsMove(r[k], o)) => (\A k \in 1..Len(s) : ~IsMove(s[k], o))
  BY <1>1
<1>3. ASSUME NEW k \in 1..Len(r), IsMove(r[k], o), \A j \in k + 1 .. Len(r) : ~IsMove(r[j], o)
      PROVE  r[k].new = x
  <2>1. k \in 1..Len(s) /\ r[k] = s[k]
    BY <1>1, <1>3
  <2>2. \A j \in k + 1 .. Len(s) : ~IsMove(s[j], o)
    BY <1>1, <1>3
  <2> QED
    BY <1>3, <2>1, <2>2 DEF ListedIn
<1> QED
  BY <1>2, <1>3 DEF ListedIn

\* ... nor does what is removed and is no move.
LEMMA ListedRemoved ==
    ASSUME NEW s, NEW r, NEW p, Removed(s, r, p), NEW x, NEW idx, NEW o, ListedIn(s, x, idx, o),
           ~IsMove(s[p], o)
    PROVE  ListedIn(r, x, idx, o)
<1>1. /\ Len(s) \in Nat /\ Len(r) = Len(s) - 1 /\ p \in 1..Len(s)
      /\ \A j \in 1..Len(r) : r[j] = IF j < p THEN s[j] ELSE s[j + 1]
  BY DEF Removed
<1>2. \A k \in 1..Len(s) : k # p => Down(p, k) \in 1..Len(r) /\ r[Down(p, k)] = s[k]
  BY <1>1 DEF Down
<1>3. (\A k \in 1..Len(r) : ~IsMove(r[k], o)) => (\A k \in 1..Len(s) : ~IsMove(s[k], o))
  BY <1>2
<1>4. ASSUME NEW k \in 1..Len(r), IsMove(r[k], o), \A j \in k + 1 .. Len(r) : ~IsMove(r[j], o)
      PROVE  r[k].new = x
  <2>1. Up(p, k) \in 1..Len(s) /\ r[k] = s[Up(p, k)]
    BY <1>1 DEF Up
  <2>2. ASSUME NEW j \in Up(p, k) + 1 .. Len(s), IsMove(s[j], o) PROVE FALSE
    <3>1. j # p /\ j \in 1..Len(s) /\ j > Up(p, k)
      BY <1>1, <2>1, <2>2
    <3>2. Down(p, j) \in k + 1 .. Len(r)
      BY <1>1, <3>1 DEF Up, Down
    <3> QED
      BY <1>2, <1>4, <2>2, <3>1, <3>2
  <2> QED
    BY <1>4, <2>1, <2>2 DEF ListedIn
<1> QED
  BY <1>3, <1>4 DEF ListedIn

\* The move that is handled is listed.
LEMMA ListedHandled ==
    ASSUME NEW s, NEW r, Removed(s, r, 1), NEW x, NEW idx, NEW idy, NEW o, ListedIn(s, x, idx, o),
           IsMove(s[1], o), s[1].new # Nowhere => <<s[1].new, o>> \in idy
    PROVE  ListedIn(r, x, idy, o)
<1>1. /\ Len(s) \in Nat /\ Len(r) = Len(s) - 1 /\ 1 \in 1..Len(s)
      /\ \A j \in 1..Len(r) : r[j] = s[j + 1]
  BY DEF Removed
<1>2. ASSUME \A k \in 1..Len(r) : ~IsMove(r[k], o) PROVE s[1].new = x
  <2>1. \A j \in 1 + 1 .. Len(s) : ~IsMove(s[j], o)
    <3>1. \A j \in 1 + 1 .. Len(s) : j - 1 \in 1..Len(r) /\ r[j - 1] = s[j]
      BY <1>1
    <3> QED
      BY <1>2, <3>1
  <2> QED
    BY <1>1, <2>1 DEF ListedIn
<1>3. ASSUME NEW k \in 1..Len(r), IsMove(r[k], o), \A j \in k + 1 .. Len(r) : ~IsMove(r[j], o)
      PROVE  r[k].new = x
  <2>1. k + 1 \in 1..Len(s) /\ r[k] = s[k + 1]
    BY <1>1
  <2>2. \A j \in (k + 1) + 1 .. Len(s) : j - 1 \in k + 1 .. Len(r) /\ r[j - 1] = s[j]
    BY <1>1
  <2>3. \A j \in (k + 1) + 1 .. Len(s) : ~IsMove(s[j], o)
    BY <1>3, <2>2
  <2> QED
    BY <1>3, <2>1, <2>3 DEF ListedIn
<1> QED
  BY <1>2, <1>3 DEF ListedIn

\* The move that is announced is the last one.
LEMMA ListedBehind ==
    ASSUME NEW s, NEW r, NEW a, NEW b, Behind(s, r, a, b), NEW x, NEW idx, NEW o,
           IsMove(a, o), ~IsMove(b, o), a.new = x
    PROVE  ListedIn(r, x, idx, o)
<1>1. /\ Len(s) \in Nat /\ Len(r) = Len(s) + 2 /\ r[Len(s) + 1] = a /\ r[Len(s) + 2] = b
  BY DEF Behind, Extended
<1>2. ~(\A k \in 1..Len(r) : ~IsMove(r[k], o))
  BY <1>1
<1>3. ASSUME NEW k \in 1..Len(r), IsMove(r[k], o), \A j \in k + 1 .. Len(r) : ~IsMove(r[j], o)
      PROVE  r[k].new = x
  <2>1. k = Len(s) + 1
    <3>1. k # Len(s) + 2
      BY <1>1, <1>3
    <3>2. ~(k < Len(s) + 1)
      BY <1>1, <1>3
    <3> QED
      BY <1>1, <3>1, <3>2
  <2> QED
    BY <1>1, <2>1
<1> QED
  BY <1>2, <1>3 DEF ListedIn

\* What is sent about o2 is no move of o.
LEMMA OthersSent ==
    ASSUME TypeOK, NEW o2 \in Object, Sends(o2), NEW o \in Object, o # o2
    PROVE  /\ place'[o] = place[o] /\ value'[o] = value[o]
           /\ Extended(Pipe, Pipe') /\ Extended(Serving, Serving')
           /\ \A j \in Len(Pipe) + 1 .. Len(Pipe') : ~About(Pipe'[j], o)
           /\ \A j \in Len(Serving) + 1 .. Len(Serving') : ~About(Serving'[j], o)
<1>1. ASSUME NEW s, NEW r, NEW a, NEW b, Behind(s, r, a, b), a.obj = o2, b.obj = o2
      PROVE  Extended(s, r) /\ \A j \in Len(s) + 1 .. Len(r) : ~About(r[j], o)
  <2>1. Extended(s, r) /\ Len(r) = Len(s) + 2 /\ r[Len(s) + 1] = a /\ r[Len(s) + 2] = b /\ Len(s) \in Nat
    BY <1>1 DEF Behind, Extended
  <2>2. \A i \in Len(s) + 1 .. Len(r) : i = Len(s) + 1 \/ i = Len(s) + 2
    BY <2>1
  <2> QED
    BY <1>1, <2>1, <2>2 DEF About
<1>2. ASSUME NEW s, NEW r, NEW a, BehindOne(s, r, a), a.obj = o2
      PROVE  Extended(s, r) /\ \A j \in Len(s) + 1 .. Len(r) : ~About(r[j], o)
  <2>1. Extended(s, r) /\ Len(r) = Len(s) + 1 /\ r[Len(s) + 1] = a /\ Len(s) \in Nat
    BY <1>2 DEF BehindOne, Extended
  <2>2. \A i \in Len(s) + 1 .. Len(r) : i = Len(s) + 1
    BY <2>1
  <2> QED
    BY <1>2, <2>1, <2>2 DEF About
<1>3. /\ \A to, l, x : ChangeZone(o2, to, l, x).obj = o2 /\ Entry(o2, to, l).obj = o2
      /\ DeleteRam(o2).obj = o2 /\ \A v : Update(o2, v).obj = o2
  BY DEF ChangeZone, Entry, DeleteRam, Update
<1>4. place'[o] = place[o] /\ value'[o] = value[o]
  BY DEF Sends, TypeOK
<1>5. CASE \E l \in Location :
              LET a == ChangeZone(o2, IF place[o2] = Nowhere THEN {} ELSE {place[o2]}, l, place[o2])
                  b == Entry(o2, {l}, l)
              IN  Behind(Pipe, Pipe', a, b) /\ Behind(Serving, Serving', a, b)
  BY <1>1, <1>3, <1>4, <1>5
<1>6. CASE LET a == ChangeZone(o2, {}, Nowhere, place[o2])
               b == DeleteRam(o2)
           IN  Behind(Pipe, Pipe', a, b) /\ Behind(Serving, Serving', a, b)
  BY <1>1, <1>3, <1>4, <1>6
<1>7. CASE LET a == Update(o2, events + 1)
           IN  BehindOne(Pipe, Pipe', a) /\ BehindOne(Serving, Serving', a)
  BY <1>2, <1>3, <1>4, <1>7
<1> QED
  BY <1>5, <1>6, <1>7 DEF Sends

\* What the object o announces when it moves to l, is deleted, or changes.
MovesTo(o, l, a, b) ==
    /\ place'[o] = l /\ value'[o] = value[o] /\ l \in Location /\ place[o] # l
    /\ IsMove(a, o) /\ a.new = l
    /\ place[o] # Nowhere => a.to = {place[o]}
    /\ place[o] = Nowhere => a.to = {}
    /\ EntryOf(b, o, l) /\ b.val = value[o]
Vanishes(o, a, b) ==
    /\ place[o] # Nowhere /\ place'[o] = Nowhere /\ value'[o] = value[o]
    /\ IsMove(a, o) /\ a.new = Nowhere /\ a.to = {}
    /\ b.type = "DELETE_RAM" /\ b.obj = o /\ b.to = {place[o]}
Changes(o, a) ==
    /\ place[o] # Nowhere /\ place'[o] = place[o] /\ value'[o] = events + 1
    /\ IsUpdate(a, o) /\ a.to = {place[o]} /\ a.val = events + 1

\* The three kinds of events.
LEMMA EventIs ==
    ASSUME TypeOK, NEW o \in Object, Happening(o)
    PROVE  \/ \E l \in Location : \E a, b : MovesTo(o, l, a, b) /\ Behind(Pipe, Pipe', a, b) /\ Behind(Serving, Serving', a, b)
           \/ \E a, b : Vanishes(o, a, b) /\ Behind(Pipe, Pipe', a, b) /\ Behind(Serving, Serving', a, b)
           \/ \E a : Changes(o, a) /\ BehindOne(Pipe, Pipe', a) /\ BehindOne(Serving, Serving', a)
<1>1. CASE \E l \in Location : Move(o, l)
  <2>1. PICK l \in Location : Move(o, l)
    BY <1>1
  <2> DEFINE to == IF place[o] = Nowhere THEN {} ELSE {place[o]}
             a == ChangeZone(o, to, l, place[o])
             b == Entry(o, {l}, l)
  <2>2. /\ place[o] # l /\ place' = [place EXCEPT ![o] = l] /\ value' = value
        /\ routing' = routing \o <<a, b>> /\ UNCHANGED <<inbox, atServer>>
    BY <2>1 DEF Move, Happens
  <2>3. to \subseteq Location /\ place[o] \in Location \union {Nowhere}
    BY DEF TypeOK
  <2>4. (place[o] # Nowhere => to = {place[o]}) /\ (place[o] = Nowhere => to = {})
    OBVIOUS
  <2> HIDE DEF to
  <2>5. IsMove(a, o) /\ a.new = l /\ a.to = to /\ a \in Moves
    BY <2>3 DEF ChangeZone, IsMove, Moves
  <2>6. EntryOf(b, o, l) /\ b.val = value[o]
    BY DEF Entry, EntryOf, IsEntry
  <2>7. b \in News
    BY EntryType
  <2>8. a \in Datagrams /\ b \in Datagrams
    BY <2>5, <2>7 DEF Datagrams, News
  <2>9. place'[o] = l /\ value'[o] = value[o]
    BY <2>2 DEF TypeOK
  <2> HIDE DEF a, b
  <2>10. Behind(Pipe, Pipe', a, b) /\ Behind(Serving, Serving', a, b)
    BY <2>2, <2>8, TwoSent
  <2>11. MovesTo(o, l, a, b)
    BY <2>2, <2>4, <2>5, <2>6, <2>9 DEF MovesTo
  <2> QED
    BY <2>10, <2>11
<1>2. CASE Annihilate(o)
  <2> DEFINE a == ChangeZone(o, {}, Nowhere, place[o])
             b == DeleteRam(o)
  <2>1. /\ place[o] # Nowhere /\ place' = [place EXCEPT ![o] = Nowhere] /\ value' = value
        /\ routing' = routing \o <<a, b>> /\ UNCHANGED <<inbox, atServer>>
    BY <1>2 DEF Annihilate, Happens
  <2>2. place[o] \in Location
    BY <2>1 DEF TypeOK
  <2>3. IsMove(a, o) /\ a.new = Nowhere /\ a.to = {} /\ a \in Moves
    BY <2>2 DEF ChangeZone, IsMove, Moves
  <2>4. b.type = "DELETE_RAM" /\ b.obj = o /\ b.to = {place[o]} /\ b \in News
    BY <2>2 DEF DeleteRam, News
  <2>5. a \in Datagrams /\ b \in Datagrams
    BY <2>3, <2>4 DEF Datagrams, News
  <2>6. place'[o] = Nowhere /\ value'[o] = value[o]
    BY <2>1 DEF TypeOK
  <2> HIDE DEF a, b
  <2>7. Behind(Pipe, Pipe', a, b) /\ Behind(Serving, Serving', a, b)
    BY <2>1, <2>5, TwoSent
  <2>8. Vanishes(o, a, b)
    BY <2>1, <2>3, <2>4, <2>6 DEF Vanishes
  <2> QED
    BY <2>7, <2>8
<1>3. CASE UpdateField(o)
  <2> DEFINE a == Update(o, events + 1)
  <2>1. /\ place[o] # Nowhere /\ place' = place /\ value' = [value EXCEPT ![o] = events + 1]
        /\ routing' = Append(routing, a) /\ UNCHANGED <<inbox, atServer>> /\ events < MaxEvents
    BY <1>3 DEF UpdateField, Happens
  <2>2. place[o] \in Location /\ events + 1 \in Value
    BY <2>1, Bounds DEF TypeOK, Value
  <2>3. IsUpdate(a, o) /\ a.to = {place[o]} /\ a.val = events + 1 /\ a \in News
    BY <2>2 DEF Update, IsUpdate, News
  <2>4. a \in Datagrams
    BY <2>3 DEF Datagrams
  <2>5. place'[o] = place[o] /\ value'[o] = events + 1
    BY <2>1 DEF TypeOK
  <2> HIDE DEF a
  <2>6. BehindOne(Pipe, Pipe', a) /\ BehindOne(Serving, Serving', a)
    BY <2>1, <2>4, OneSent
  <2>7. Changes(o, a)
    BY <2>1, <2>3, <2>5 DEF Changes
  <2> QED
    BY <2>6, <2>7
<1> QED
  BY <1>1, <1>2, <1>3 DEF Happening

\* The parents list what moves where it will be, ...
LEMMA EventListed ==
    ASSUME TypeOK, NEW o2 \in Object, Happening(o2), NEW o \in Object, Listed(o)
    PROVE  Listed(o)'
<1>1. Sends(o2) /\ index' = index
  BY EventPipe
<1>2. ListedIn(Serving, place[o], index, o)
  BY DEF Listed, ListedIn
<1>3. SUFFICES ListedIn(Serving', place'[o], index, o)
  BY <1>1, <1>3 DEF Listed, ListedIn
<1>4. CASE o # o2
  <2>1. /\ place'[o] = place[o] /\ Extended(Serving, Serving')
        /\ \A j \in Len(Serving) + 1 .. Len(Serving') : ~About(Serving'[j], o)
    BY <1>1, <1>4, OthersSent
  <2>2. \A j \in Len(Serving) + 1 .. Len(Serving') : ~IsMove(Serving'[j], o)
    BY <2>1 DEF IsMove, About
  <2> QED
    BY <1>2, <2>1, <2>2, ListedExtended
<1>5. CASE o = o2
  <2>1. ASSUME NEW l \in Location, NEW a, NEW b, MovesTo(o, l, a, b), Behind(Serving, Serving', a, b)
        PROVE  ListedIn(Serving', place'[o], index, o)
    <3>1. IsMove(a, o) /\ a.new = place'[o] /\ ~IsMove(b, o)
      BY <2>1 DEF MovesTo, EntryOf, IsEntry, IsMove
    <3> QED
      BY <2>1, <3>1, ListedBehind
  <2>2. ASSUME NEW a, NEW b, Vanishes(o, a, b), Behind(Serving, Serving', a, b)
        PROVE  ListedIn(Serving', place'[o], index, o)
    <3>1. IsMove(a, o) /\ a.new = place'[o] /\ ~IsMove(b, o)
      BY <2>2 DEF Vanishes, IsMove
    <3> QED
      BY <2>2, <3>1, ListedBehind
  <2>3. ASSUME NEW a, Changes(o, a), BehindOne(Serving, Serving', a)
        PROVE  ListedIn(Serving', place'[o], index, o)
    <3>1. ~IsMove(a, o) /\ place'[o] = place[o]
      BY <2>3 DEF Changes, IsMove, IsUpdate
    <3>2. Extended(Serving, Serving') /\ Len(Serving') = Len(Serving) + 1 /\ Serving'[Len(Serving) + 1] = a
          /\ Len(Serving) \in Nat
      BY <2>3 DEF BehindOne, Extended
    <3>3. \A k \in Len(Serving) + 1 .. Len(Serving') : k = Len(Serving) + 1
      BY <3>2
    <3> QED
      BY <1>2, <2>3, <3>1, <3>2, <3>3, ListedExtended
  <2> QED
    BY <1>5, <2>1, <2>2, <2>3, EventIs
<1> QED
  BY <1>4, <1>5

\* An answer moves nothing.
LEMMA ReplyNoMove ==
    ASSUME TypeOK, NEW m \in Queries, NEW r, Reply(r, m), NEW o
    PROVE  ~IsMove(r, o) /\ ~IsUpdate(r, o) /\ (\A l : ~Leaves(r, o, l)) /\ r.type # "QUERY"
BY ReplyIs DEF IsMove, IsUpdate, Leaves

\* ... whether the state server handles a move or a query, ...
LEMMA ServeListed ==
    ASSUME TypeOK, Serve, NEW o \in Object, Listed(o)
    PROVE  Listed(o)'
<1>1. Len(Serving) > 0 /\ place' = place
  BY ServePipe
<1>2. ListedIn(Serving, place[o], index, o)
  BY DEF Listed, ListedIn
<1>3. SUFFICES ListedIn(Serving', place[o], index', o)
  BY <1>1, <1>3 DEF Listed, ListedIn
<1>4. CASE Serving[1] \in Queries /\ Answering(Serving[1]) /\ index' = index
  <2>1. PICK u : /\ Removed(Serving, u, 1) /\ Extended(u, Serving')
                 /\ \A k \in Len(u) + 1 .. Len(Serving') : Reply(Serving'[k], Serving[1])
    BY <1>4 DEF Answering
  <2>2. ~IsMove(Serving[1], o)
    BY <1>4 DEF Queries, IsMove
  <2>3. ListedIn(u, place[o], index, o)
    BY <1>2, <2>1, <2>2, ListedRemoved
  <2>4. \A k \in Len(u) + 1 .. Len(Serving') : ~IsMove(Serving'[k], o)
    BY <1>4, <2>1, ReplyNoMove
  <2> QED
    BY <1>4, <2>1, <2>3, <2>4, ListedExtended
<1>5. CASE Serving[1] \in Moves /\ Reindex(Serving[1]) /\ Removed(Serving, Serving', 1)
  <2> DEFINE m == Serving[1]
  <2>1. index' = (index \ {<<m.old, m.obj>>}) \union (IF m.new = Nowhere THEN {} ELSE {<<m.new, m.obj>>})
    BY <1>5 DEF Reindex
  <2>2. CASE m.obj = o
    <3>1. IsMove(m, o)
      BY <1>5, <2>2 DEF Moves, IsMove
    <3>2. m.new # Nowhere => <<m.new, o>> \in index'
      BY <2>1, <2>2
    <3> QED
      BY <1>2, <1>5, <3>1, <3>2, ListedHandled
  <2>3. CASE m.obj # o
    <3>1. ~IsMove(m, o)
      BY <2>3 DEF IsMove
    <3>2. ListedIn(Serving', place[o], index, o)
      BY <1>2, <1>5, <3>1, ListedRemoved
    <3>3. <<place[o], o>> \in index => <<place[o], o>> \in index'
      BY <2>1, <2>3
    <3> QED
      BY <3>2, <3>3 DEF ListedIn
  <2> QED
    BY <2>2, <2>3
<1> QED
  BY <1>4, <1>5, ServePipe

\* ... in every step of the system.
LEMMA ProgressListed ==
    ASSUME TypeOK, Progress, NEW o \in Object, Listed(o)
    PROVE  Listed(o)'
<1>1. ListedIn(Serving, place[o], index, o)
  BY DEF Listed, ListedIn
<1>2. ASSUME ListedIn(Serving', place[o], index, o), place' = place, index' = index PROVE Listed(o)'
  BY <1>2 DEF Listed, ListedIn
<1>3. CASE Receive
  <2>1. Serving' = Serving /\ place' = place /\ index' = index
    BY <1>3, ReceivePipe
  <2> QED
    BY <1>1, <1>2, <2>1
<1>4. CASE Forward
  <2>1. place' = place /\ index' = index
    BY <1>4, ForwardPipe
  <2>2. CASE Serving' = Serving
    BY <1>1, <1>2, <2>1, <2>2
  <2>3. CASE /\ uplink[1].type = "QUERY"
             /\ Extended(Serving, Serving') /\ Len(Serving') = Len(Serving) + 1
             /\ Serving'[Len(Serving) + 1] = uplink[1]
    <3>1. \A k \in Len(Serving) + 1 .. Len(Serving') : ~IsMove(Serving'[k], o)
      <4>1. Len(Serving) \in Nat
        BY <2>3 DEF Extended
      <4>2. \A k \in Len(Serving) + 1 .. Len(Serving') : k = Len(Serving) + 1
        BY <2>3, <4>1
      <4> QED
        BY <2>3, <4>2 DEF IsMove
    <3> QED
      BY <1>1, <1>2, <2>1, <2>3, <3>1, ListedExtended
  <2> QED
    BY <1>4, <2>2, <2>3, ForwardPipe
<1>5. CASE Route
  <2>1. place' = place /\ index' = index
    BY <1>5, RoutePipe
  <2>2. CASE Serving' = Serving
    BY <1>1, <1>2, <2>1, <2>2
  <2>3. ASSUME NEW k \in 1..Len(Serving), Removed(Serving, Serving', k), Serving[k].type \notin {"QUERY", "CHANGE_ZONE"}
        PROVE  Listed(o)'
    <3>1. ~IsMove(Serving[k], o)
      BY <2>3 DEF IsMove
    <3> QED
      BY <1>1, <1>2, <2>1, <2>3, <3>1, ListedRemoved
  <2> QED
    BY <1>5, <2>2, <2>3, RoutePipe
<1>6. CASE Serve
  BY <1>6, ServeListed
<1> QED
  BY <1>3, <1>4, <1>5, <1>6, EventListed DEF Progress

-----------------------------------------------------------------------------
(* What is certain *)

CertainIn(ints, s, x, j) == \E h \in Handle :
    /\ x \in Locations(ints[h])
    /\ ints[h].done \/ \E d \in 1..j - 1 : d <= Len(s) /\ AnswersFor(ints, s[d], h)
SureIn(ints, s, n) == {e \in (1..Len(s)) \X Location : e[1] > n \/ CertainIn(ints, s, e[2], e[1])}

\* Sure as a function of the interests and the datagrams.
LEMMA SureIs == Sure = SureIn(interests, Pipe, Len(inbox))
  BY DEF Sure, SureIn, Certain, CertainIn

\* What it is for a pair to be certain.
LEMMA InSure ==
    ASSUME NEW ints, NEW s, NEW n, NEW j, NEW y
    PROVE  <<j, y>> \in SureIn(ints, s, n) <=>
              j \in 1..Len(s) /\ y \in Location /\ (j > n \/ CertainIn(ints, s, y, j))
BY DEF SureIn

\* What comes behind makes nothing certain that was not, ...
LEMMA SureExtended ==
    ASSUME NEW ints, NEW s, NEW r, Extended(s, r), NEW n \in Nat
    PROVE  Within(SureIn(ints, r, n), SureIn(ints, s, n), Len(s))
<1>1. Len(s) \in Nat /\ Len(r) \in Nat /\ Len(s) <= Len(r) /\ \A j \in 1..Len(s) : r[j] = s[j]
  BY DEF Extended
<1>2. ASSUME NEW j \in 1..Len(s), NEW y, <<j, y>> \in SureIn(ints, r, n)
      PROVE  <<j, y>> \in SureIn(ints, s, n)
  <2>1. y \in Location /\ (j > n \/ CertainIn(ints, r, y, j))
    BY <1>2, InSure
  <2>2. \A d \in 1..j - 1 : d <= Len(s) /\ r[d] = s[d]
    BY <1>1
  <2>3. CertainIn(ints, r, y, j) => CertainIn(ints, s, y, j)
    BY <2>2 DEF CertainIn
  <2> QED
    BY <2>1, <2>3, InSure
<1> QED
  BY <1>2 DEF Within

\* ... nor does routing a datagram, ...
LEMMA SureRouted ==
    ASSUME NEW ints, NEW s, NEW n \in Nat
    PROVE  SureIn(ints, s, n + 1) \subseteq SureIn(ints, s, n)
BY DEF SureIn

\* ... nor dropping it.
LEMMA SureDropped ==
    ASSUME NEW ints, NEW s, NEW r, NEW n \in Nat, Removed(s, r, n + 1)
    PROVE  \A j \in 1..Len(r) : \A y : <<j, y>> \in SureIn(ints, r, n) => <<Up(n + 1, j), y>> \in SureIn(ints, s, n)
<1>1. /\ Len(s) \in Nat /\ Len(r) = Len(s) - 1 /\ n + 1 \in 1..Len(s)
      /\ \A j \in 1..Len(r) : r[j] = IF j < n + 1 THEN s[j] ELSE s[j + 1]
  BY DEF Removed
<1>2. ASSUME NEW j \in 1..Len(r), NEW y, <<j, y>> \in SureIn(ints, r, n)
      PROVE  <<Up(n + 1, j), y>> \in SureIn(ints, s, n)
  <2>1. y \in Location /\ (j > n \/ CertainIn(ints, r, y, j))
    BY <1>2, InSure
  <2>2. Up(n + 1, j) \in 1..Len(s)
    BY <1>1 DEF Up
  <2>3. CASE j > n
    <3>1. Up(n + 1, j) > n
      BY <2>3 DEF Up
    <3> QED
      BY <2>1, <2>2, <3>1, InSure
  <2>4. CASE j <= n
    <3>1. Up(n + 1, j) = j
      BY <2>4 DEF Up
    <3>2. CertainIn(ints, r, y, j)
      BY <2>1, <2>4
    <3>3. \A d \in 1..j - 1 : d <= Len(s) /\ d <= Len(r) /\ r[d] = s[d]
      BY <1>1, <2>4
    <3>4. CertainIn(ints, s, y, j)
      BY <3>2, <3>3 DEF CertainIn
    <3> QED
      BY <2>1, <2>2, <3>1, <3>4, InSure
  <2> QED
    BY <2>3, <2>4
<1> QED
  BY <1>2

\* Each certain move of o is followed by its entry.
PairsIn(s, T, o) == \A i \in 1..Len(s) :
    IsMove(s[i], o) /\ <<i, s[i].new>> \in T => i + 1 <= Len(s) /\ EntryOf(s[i + 1], o, s[i].new)
\* The entries of o that the client will hear of are true.
GoodIn(s, T, n, R, o, x, w) == \A i \in 1..Len(s) :
    IsEntry(s[i], o) /\ (i > n \/ s[i].at \in R) => Truth(s, T, i, o, s[i].at, s[i].val, x, w)

\* Paired as a function of the datagrams, ...
LEMMA PairedIs == \A o : Paired(o) <=> PairsIn(Pipe, Sure, o)
  BY DEF Paired, PairsIn

\* ... and EntriesGood.
LEMMA GoodIs == \A o : EntriesGood(o) <=> GoodIn(Pipe, Sure, Len(inbox), Routed, o, place[o], value[o])
  BY DEF EntriesGood, GoodIn, Told

\* No certain move is the last of the datagrams.
LEMMA PairsLast ==
    ASSUME NEW s, NEW T, NEW o, PairsIn(s, T, o)
    PROVE  PairedIn(s, o, T)
BY DEF PairsIn, PairedIn

\* Pairs stay pairs when more comes in pairs, ...
LEMMA PairsExtended ==
    ASSUME NEW s, NEW r, Extended(s, r), NEW T, NEW U, Within(U, T, Len(s)), NEW o, PairsIn(s, T, o),
           \A j \in Len(s) + 1 .. Len(r) : IsMove(r[j], o) /\ <<j, r[j].new>> \in U =>
              j + 1 <= Len(r) /\ EntryOf(r[j + 1], o, r[j].new)
    PROVE  PairsIn(r, U, o)
<1>1. Len(s) \in Nat /\ Len(r) \in Nat /\ Len(s) <= Len(r) /\ \A j \in 1..Len(s) : r[j] = s[j]
  BY DEF Extended
<1>2. ASSUME NEW i \in 1..Len(r), IsMove(r[i], o), <<i, r[i].new>> \in U
      PROVE  i + 1 <= Len(r) /\ EntryOf(r[i + 1], o, r[i].new)
  <2>1. CASE i \in 1..Len(s)
    <3>1. r[i] = s[i] /\ <<i, s[i].new>> \in T
      BY <1>1, <1>2, <2>1 DEF Within
    <3>2. i + 1 <= Len(s) /\ EntryOf(s[i + 1], o, s[i].new)
      BY <1>2, <2>1, <3>1 DEF PairsIn
    <3>3. i + 1 \in 1..Len(s)
      BY <1>1, <2>1, <3>2
    <3> QED
      BY <1>1, <3>1, <3>2, <3>3
  <2>2. CASE i \in Len(s) + 1 .. Len(r)
    BY <1>2, <2>2
  <2> QED
    BY <1>1, <2>1, <2>2
<1> QED
  BY <1>2 DEF PairsIn

\* ... and when something is removed that is not the entry of one.
LEMMA PairsRemoved ==
    ASSUME NEW s, NEW r, NEW p, Removed(s, r, p), NEW T, NEW U, NEW o, PairsIn(s, T, o),
           \A j \in 1..Len(r) : \A y : <<j, y>> \in U => <<Up(p, j), y>> \in T,
           \A j \in 1..Len(s) : p = j + 1 =>
              ~(IsMove(s[j], o) /\ <<j, s[j].new>> \in T /\ EntryOf(s[p], o, s[j].new))
    PROVE  PairsIn(r, U, o)
<1>1. /\ Len(s) \in Nat /\ Len(r) = Len(s) - 1 /\ p \in 1..Len(s)
      /\ \A j \in 1..Len(r) : r[j] = IF j < p THEN s[j] ELSE s[j + 1]
  BY DEF Removed
<1>2. ASSUME NEW i \in 1..Len(r), IsMove(r[i], o), <<i, r[i].new>> \in U
      PROVE  i + 1 <= Len(r) /\ EntryOf(r[i + 1], o, r[i].new)
  <2>1. Up(p, i) \in 1..Len(s) /\ r[i] = s[Up(p, i)]
    BY <1>1 DEF Up
  <2>2. <<Up(p, i), s[Up(p, i)].new>> \in T
    BY <1>2, <2>1
  <2>3. Up(p, i) + 1 <= Len(s) /\ EntryOf(s[Up(p, i) + 1], o, s[Up(p, i)].new)
    BY <1>2, <2>1, <2>2 DEF PairsIn
  <2>4. Up(p, i) + 1 # p
    BY <1>2, <2>1, <2>2, <2>3
  <2>5. i + 1 <= Len(r) /\ r[i + 1] = s[Up(p, i) + 1]
    <3>1. CASE i < p
      <4>1. Up(p, i) = i /\ i + 1 < p
        BY <1>1, <2>1, <2>4, <3>1 DEF Up
      <4>2. i + 1 \in 1..Len(r)
        BY <1>1, <4>1
      <4> QED
        BY <1>1, <4>1, <4>2
    <3>2. CASE ~(i < p)
      <4>1. Up(p, i) = i + 1
        BY <3>2 DEF Up
      <4>2. i + 1 \in 1..Len(r) /\ ~(i + 1 < p)
        BY <1>1, <2>3, <3>2, <4>1
      <4> QED
        BY <1>1, <4>1, <4>2
    <3> QED
      BY <3>1, <3>2
  <2> QED
    BY <2>1, <2>3, <2>5
<1> QED
  BY <1>2 DEF PairsIn

\* The less is certain, the fewer pairs there must be.
LEMMA PairsLess ==
    ASSUME NEW s, NEW T, NEW U, U \subseteq T, NEW o, PairsIn(s, T, o)
    PROVE  PairsIn(s, U, o)
BY DEF PairsIn

\* When all that is told of o from now on is its entries at its place, who is
\* shown it there is told the truth.
LEMMA TruthNowAfter ==
    ASSUME NEW r, Len(r) \in Nat, NEW U, NEW k \in 0..Len(r), NEW o, NEW x, NEW w,
           \A j \in k + 1 .. Len(r) : About(r[j], o) => IsEntry(r[j], o) /\ r[j].at = x /\ r[j].val = w
    PROVE  Truth(r, U, k, o, x, w, x, w)
<1>1. \A j \in k + 1 .. Len(r) : ~IsUpdate(r[j], o) /\ ~IsMove(r[j], o)
  BY DEF About, IsEntry, IsUpdate, IsMove
<1>2. \A j \in k + 1 .. Len(r) + 1 : Tells(r, k, j, o, w, w)
  <2>1. ASSUME NEW j \in k + 1 .. Len(r) + 1 PROVE \A e \in k + 1 .. j - 1 : ~IsUpdate(r[e], o)
    <3>1. \A e \in k + 1 .. j - 1 : e \in k + 1 .. Len(r)
      OBVIOUS
    <3> QED
      BY <1>1, <3>1
  <2> QED
    BY <2>1 DEF Tells
<1>3. \A j \in k + 1 .. Len(r) : Fits(r, U, k, j, o, x, w)
  <2>1. ASSUME NEW j \in k + 1 .. Len(r) PROVE Fits(r, U, k, j, o, x, w)
    <3>1. IsEntry(r[j], o) => r[j].at = x /\ Tells(r, k, j, o, w, r[j].val)
      BY <1>2, Kinds
    <3>2. ~(About(r[j], o) /\ ~IsEntry(r[j], o)) /\ ~IsMove(r[j], o)
      BY <1>1
    <3> QED
      BY <3>1, <3>2 DEF Fits
  <2> QED
    BY <2>1
<1>4. Len(r) + 1 \in k + 1 .. Len(r) + 1
  OBVIOUS
<1> QED
  BY <1>2, <1>3, <1>4 DEF Truth

-----------------------------------------------------------------------------
(* What is told is true, whatever the master and the state server do *)

\* Sure after a step.
LEMMA SureIsNext == Sure' = SureIn(interests', Pipe', Len(inbox'))
  BY DEF Sure, SureIn, Certain, CertainIn

\* Pairs and entries, and what is told, over a step.
Keeps(o) ==
    /\ PairsIn(Pipe', Sure', o)
    /\ GoodIn(Pipe', Sure', Len(inbox'), Routed', o, place'[o], value'[o])
    /\ \A l \in Routed \intersect Location : \A v :
          Told(0, o, l, v) => Truth(Pipe', Sure', 0, o, l, v, place'[o], value'[o])

\* The types of entries.
LEMMA PipeEntries ==
    ASSUME TypeOK, NEW o
    PROVE  \A i \in 1..Len(Pipe) : IsEntry(Pipe[i], o) => Pipe[i].at \in Location /\ Pipe[i].val \in Value
<1>1. \A m \in Datagrams : IsEntry(m, o) => m.at \in Location /\ m.val \in Value
  <2>1. ASSUME NEW m \in Datagrams, IsEntry(m, o) PROVE m.at \in Location /\ m.val \in Value
    <3>1. m \in News /\ m.type = "ENTERZONE"
      BY <2>1 DEF Datagrams, Queries, Answers, IsEntry
    <3> QED
      BY <3>1, NewsFields
  <2> QED
    BY <2>1
<1> QED
  BY <1>1, PipeIs

\* Entries stay true when what comes behind keeps all that is told true.
LEMMA GoodExtended ==
    ASSUME NEW s, NEW r, Extended(s, r), NEW T, NEW U, NEW n \in Nat, n <= Len(s), NEW R, NEW Q, Q \subseteq R, NEW o,
           NEW x, NEW w, NEW y, NEW u, GoodIn(s, T, n, R, o, x, w),
           \A i \in 1..Len(s) : IsEntry(s[i], o) => s[i].at \in Location,
           \A i \in 0..Len(s) : \A l \in Location : \A v : Truth(s, T, i, o, l, v, x, w) => Truth(r, U, i, o, l, v, y, u),
           \A i \in Len(s) + 1 .. Len(r) : IsEntry(r[i], o) => Truth(r, U, i, o, r[i].at, r[i].val, y, u)
    PROVE  GoodIn(r, U, n, Q, o, y, u)
<1>1. Len(s) \in Nat /\ Len(r) \in Nat /\ Len(s) <= Len(r) /\ \A j \in 1..Len(s) : r[j] = s[j]
  BY DEF Extended
<1>2. ASSUME NEW i \in 1..Len(r), IsEntry(r[i], o), i > n \/ r[i].at \in Q
      PROVE  Truth(r, U, i, o, r[i].at, r[i].val, y, u)
  <2>1. CASE i \in 1..Len(s)
    <3>1. r[i] = s[i] /\ i \in 0..Len(s)
      BY <1>1, <2>1
    <3>2. Truth(s, T, i, o, s[i].at, s[i].val, x, w) /\ s[i].at \in Location
      BY <1>2, <2>1, <3>1 DEF GoodIn
    <3> QED
      BY <3>1, <3>2
  <2>2. CASE i \in Len(s) + 1 .. Len(r)
    BY <1>2, <2>2
  <2> QED
    BY <1>1, <2>1, <2>2
<1> QED
  BY <1>2 DEF GoodIn

\* A step behind which only entries of o at its place come, if anything about o.
LEMMA ExtendedKeeps ==
    ASSUME TypeOK, NEW o \in Object, Paired(o), EntriesGood(o),
           interests' = interests, inbox' = inbox, Routed' \subseteq Routed, Extended(Pipe, Pipe'),
           place'[o] = place[o], value'[o] = value[o],
           \A j \in Len(Pipe) + 1 .. Len(Pipe') : About(Pipe'[j], o) =>
              IsEntry(Pipe'[j], o) /\ Pipe'[j].at = place[o] /\ Pipe'[j].val = value[o]
    PROVE  Keeps(o)
<1>1. Within(Sure', Sure, Len(Pipe))
  BY SureIs, SureIsNext, SureExtended, PipeIs
<1>2. PairsIn(Pipe, Sure, o) /\ PairedIn(Pipe, o, Sure)
  BY PairedIs, PairsLast
<1>3. GoodIn(Pipe, Sure, Len(inbox), Routed, o, place[o], value[o])
  BY GoodIs
<1>4. Len(Pipe) \in Nat /\ Len(Pipe') \in Nat /\ Len(inbox) \in Nat /\ Len(inbox) <= Len(Pipe)
  BY PipeIs DEF Extended
<1>5. \A i \in 0..Len(Pipe) : \A l \in Location : \A v :
         Truth(Pipe, Sure, i, o, l, v, place[o], value[o]) => Truth(Pipe', Sure', i, o, l, v, place'[o], value'[o])
  <2>1. ASSUME NEW i \in 0..Len(Pipe), NEW l \in Location, NEW v, Truth(Pipe, Sure, i, o, l, v, place[o], value[o])
        PROVE  Truth(Pipe', Sure', i, o, l, v, place[o], value[o])
    BY <1>1, <1>2, <2>1, TruthExtended
  <2> QED
    BY <2>1
<1>6. \A i \in Len(Pipe) + 1 .. Len(Pipe') : IsEntry(Pipe'[i], o) =>
         Truth(Pipe', Sure', i, o, Pipe'[i].at, Pipe'[i].val, place'[o], value'[o])
  <2>1. ASSUME NEW i \in Len(Pipe) + 1 .. Len(Pipe'), IsEntry(Pipe'[i], o)
        PROVE  Truth(Pipe', Sure', i, o, Pipe'[i].at, Pipe'[i].val, place'[o], value'[o])
    <3>1. Pipe'[i].at = place[o] /\ Pipe'[i].val = value[o]
      BY <2>1, Kinds
    <3>2. \A j \in i + 1 .. Len(Pipe') : j \in Len(Pipe) + 1 .. Len(Pipe')
      BY <1>4
    <3>3. i \in 0..Len(Pipe')
      BY <1>4
    <3>4. \A j \in i + 1 .. Len(Pipe') : About(Pipe'[j], o) =>
              IsEntry(Pipe'[j], o) /\ Pipe'[j].at = place[o] /\ Pipe'[j].val = value[o]
      BY <3>2
    <3>5. Truth(Pipe', Sure', i, o, place[o], value[o], place[o], value[o])
      BY <1>4, <3>3, <3>4, TruthNowAfter
    <3> QED
      BY <3>1, <3>5
  <2> QED
    BY <2>1
<1>7. PairsIn(Pipe', Sure', o)
  <2>1. \A j \in Len(Pipe) + 1 .. Len(Pipe') : ~IsMove(Pipe'[j], o)
    BY Kinds
  <2> QED
    BY <1>1, <1>2, <2>1, PairsExtended
<1>8. GoodIn(Pipe', Sure', Len(inbox'), Routed', o, place'[o], value'[o])
  <2>1. \A i \in 1..Len(Pipe) : IsEntry(Pipe[i], o) => Pipe[i].at \in Location
    BY PipeEntries
  <2>2. Len(inbox') = Len(inbox)
    OBVIOUS
  <2>3. GoodIn(Pipe', Sure', Len(inbox), Routed', o, place'[o], value'[o])
    BY <1>3, <1>4, <1>5, <1>6, <2>1, GoodExtended
  <2> QED
    BY <2>2, <2>3
<1>9. ASSUME NEW l \in Routed \intersect Location, NEW v, Told(0, o, l, v)
      PROVE  Truth(Pipe', Sure', 0, o, l, v, place'[o], value'[o])
  BY <1>4, <1>5, <1>9 DEF Told
<1> QED
  BY <1>7, <1>8, <1>9 DEF Keeps

\* What an event announces keeps all that is told of o true, ...
LEMMA EventKeeps ==
    ASSUME TypeOK, NEW o \in Object, Paired(o), EntriesGood(o), NEW o2 \in Object, Happening(o2)
    PROVE  Keeps(o)
<1>0. interests' = interests /\ inbox' = inbox /\ Routed' = Routed /\ Sends(o2)
  BY EventPipe DEF clientVars, Routed
<1>1. CASE o # o2
  <2>1. /\ place'[o] = place[o] /\ value'[o] = value[o] /\ Extended(Pipe, Pipe')
        /\ \A j \in Len(Pipe) + 1 .. Len(Pipe') : ~About(Pipe'[j], o)
    BY <1>0, <1>1, OthersSent
  <2> QED
    BY <1>0, <2>1, ExtendedKeeps
<1>2. CASE o = o2
  <2>1. PairsIn(Pipe, Sure, o) /\ PairedIn(Pipe, o, Sure) /\ GoodIn(Pipe, Sure, Len(inbox), Routed, o, place[o], value[o])
    BY PairedIs, PairsLast, GoodIs
  <2>2. Len(Pipe) \in Nat /\ Len(inbox) \in Nat /\ Len(inbox) <= Len(Pipe)
    BY PipeIs
  <2>3. ASSUME Extended(Pipe, Pipe'),
               \A i \in 0..Len(Pipe) : \A l \in Location : \A v :
                 Truth(Pipe, Sure, i, o, l, v, place[o], value[o]) => Truth(Pipe', Sure', i, o, l, v, place'[o], value'[o]),
               \A i \in Len(Pipe) + 1 .. Len(Pipe') : IsEntry(Pipe'[i], o) =>
                 Truth(Pipe', Sure', i, o, Pipe'[i].at, Pipe'[i].val, place'[o], value'[o]),
               PairsIn(Pipe', Sure', o)
        PROVE  Keeps(o)
    <3>1. GoodIn(Pipe', Sure', Len(inbox'), Routed', o, place'[o], value'[o])
      <4>1. \A i \in 1..Len(Pipe) : IsEntry(Pipe[i], o) => Pipe[i].at \in Location
        BY PipeEntries
      <4>2. Len(inbox') = Len(inbox) /\ Routed' \subseteq Routed
        BY <1>0
      <4>3. GoodIn(Pipe', Sure', Len(inbox), Routed', o, place'[o], value'[o])
        BY <2>1, <2>2, <2>3, <4>1, <4>2, GoodExtended
      <4> QED
        BY <4>2, <4>3
    <3>2. ASSUME NEW l \in Routed \intersect Location, NEW v, Told(0, o, l, v)
          PROVE  Truth(Pipe', Sure', 0, o, l, v, place'[o], value'[o])
      BY <2>2, <2>3, <3>2 DEF Told
    <3> QED
      BY <2>3, <3>1, <3>2 DEF Keeps
  <2>4. ASSUME Extended(Pipe, Pipe') PROVE Within(Sure', Sure, Len(Pipe))
    BY <1>0, <2>2, <2>4, SureIs, SureIsNext, SureExtended
  <2>5. ASSUME NEW l \in Location, NEW a, NEW b, MovesTo(o, l, a, b), Behind(Pipe, Pipe', a, b) PROVE Keeps(o)
    <3>1. Extended(Pipe, Pipe') /\ Len(Pipe') = Len(Pipe) + 2 /\ Pipe'[Len(Pipe) + 1] = a /\ Pipe'[Len(Pipe) + 2] = b
      BY <2>5 DEF Behind
    <3>2. /\ place'[o] = l /\ value'[o] = value[o] /\ IsMove(a, o) /\ a.new = l /\ b.val = value[o]
          /\ (place[o] # Nowhere => a.to = {place[o]}) /\ EntryOf(b, o, l) /\ b.at = l /\ IsEntry(b, o)
      BY <2>5 DEF MovesTo, EntryOf
    <3>3. Within(Sure', Sure, Len(Pipe))
      BY <2>4, <3>1
    <3>4. ASSUME NEW i \in 0..Len(Pipe), NEW k \in Location, NEW v, Truth(Pipe, Sure, i, o, k, v, place[o], value[o])
          PROVE  Truth(Pipe', Sure', i, o, k, v, place'[o], value'[o])
      <4>1. place[o] = k => a.to = {k}
        BY <3>2, Bounds
      <4> QED
        BY <2>1, <3>1, <3>2, <3>3, <3>4, <4>1, TruthMoved
    <3>5. ASSUME NEW i \in Len(Pipe) + 1 .. Len(Pipe'), IsEntry(Pipe'[i], o)
          PROVE  Truth(Pipe', Sure', i, o, Pipe'[i].at, Pipe'[i].val, place'[o], value'[o])
      <4>1. i = Len(Pipe')
        <5>1. i = Len(Pipe) + 1 \/ i = Len(Pipe) + 2
          BY <2>2, <3>1
        <5>2. ~IsEntry(a, o)
          BY <3>2, Kinds
        <5> QED
          BY <3>1, <3>5, <5>1, <5>2
      <4>2. Pipe'[i].at = place'[o] /\ Pipe'[i].val = value'[o]
        BY <3>1, <3>2, <4>1
      <4>3. Len(Pipe') \in Nat
        BY <3>1 DEF Extended
      <4> QED
        BY <4>1, <4>2, <4>3, TruthNow
    <3>6. PairsIn(Pipe', Sure', o)
      <4>1. ASSUME NEW j \in Len(Pipe) + 1 .. Len(Pipe'), IsMove(Pipe'[j], o)
            PROVE  j + 1 <= Len(Pipe') /\ EntryOf(Pipe'[j + 1], o, Pipe'[j].new)
        <5>1. j = Len(Pipe) + 1 \/ j = Len(Pipe) + 2
          BY <2>2, <3>1
        <5>2. ~IsMove(b, o)
          BY <3>2, Kinds
        <5>3. j = Len(Pipe) + 1
          BY <3>1, <4>1, <5>1, <5>2
        <5>4. j + 1 = Len(Pipe) + 2
          BY <2>2, <5>3
        <5> QED
          BY <2>2, <3>1, <3>2, <5>3, <5>4
      <4> QED
        BY <2>1, <3>1, <3>3, <4>1, PairsExtended
    <3> QED
      BY <2>3, <3>1, <3>4, <3>5, <3>6
  <2>6. ASSUME NEW a, NEW b, Vanishes(o, a, b), Behind(Pipe, Pipe', a, b) PROVE Keeps(o)
    <3>1. Extended(Pipe, Pipe') /\ Len(Pipe') = Len(Pipe) + 2 /\ Pipe'[Len(Pipe) + 1] = a /\ Pipe'[Len(Pipe) + 2] = b
      BY <2>6 DEF Behind
    <3>2. /\ place'[o] = Nowhere /\ value'[o] = value[o] /\ IsMove(a, o) /\ a.new = Nowhere /\ a.to = {}
          /\ b.type = "DELETE_RAM" /\ b.obj = o /\ b.to = {place[o]}
      BY <2>6 DEF Vanishes
    <3>3. Within(Sure', Sure, Len(Pipe))
      BY <2>4, <3>1
    <3>4. ASSUME NEW i \in 0..Len(Pipe), NEW k \in Location, NEW v, Truth(Pipe, Sure, i, o, k, v, place[o], value[o])
          PROVE  Truth(Pipe', Sure', i, o, k, v, place'[o], value'[o])
      BY <2>1, <3>1, <3>2, <3>3, <3>4, TruthGone
    <3>5. \A i \in Len(Pipe) + 1 .. Len(Pipe') : ~IsEntry(Pipe'[i], o)
      <4>1. \A i \in Len(Pipe) + 1 .. Len(Pipe') : i = Len(Pipe) + 1 \/ i = Len(Pipe) + 2
        BY <2>2, <3>1
      <4>2. ~IsEntry(a, o) /\ ~IsEntry(b, o)
        BY <3>2, Kinds DEF IsEntry
      <4> QED
        BY <3>1, <4>1, <4>2
    <3>6. PairsIn(Pipe', Sure', o)
      <4>1. \A j \in Len(Pipe) + 1 .. Len(Pipe') : ~(IsMove(Pipe'[j], o) /\ <<j, Pipe'[j].new>> \in Sure')
        <5>1. \A j \in Len(Pipe) + 1 .. Len(Pipe') : j = Len(Pipe) + 1 \/ j = Len(Pipe) + 2
          BY <2>2, <3>1
        <5>2. ~IsMove(b, o)
          BY <3>2 DEF IsMove
        <5>3. \A j : <<j, Nowhere>> \notin Sure'
          BY SureIsNext, InSure, Bounds
        <5> QED
          BY <3>1, <3>2, <5>1, <5>2, <5>3
      <4> QED
        BY <2>1, <3>1, <3>3, <4>1, PairsExtended
    <3> QED
      BY <2>3, <3>1, <3>4, <3>5, <3>6
  <2>7. ASSUME NEW a, Changes(o, a), BehindOne(Pipe, Pipe', a) PROVE Keeps(o)
    <3>1. Extended(Pipe, Pipe') /\ Len(Pipe') = Len(Pipe) + 1 /\ Pipe'[Len(Pipe) + 1] = a
      BY <2>7 DEF BehindOne
    <3>2. /\ place'[o] = place[o] /\ value'[o] = events + 1 /\ IsUpdate(a, o) /\ a.to = {place[o]} /\ a.val = events + 1
      BY <2>7 DEF Changes
    <3>3. Within(Sure', Sure, Len(Pipe))
      BY <2>4, <3>1
    <3>4. ASSUME NEW i \in 0..Len(Pipe), NEW k \in Location, NEW v, Truth(Pipe, Sure, i, o, k, v, place[o], value[o])
          PROVE  Truth(Pipe', Sure', i, o, k, v, place'[o], value'[o])
      <4>1. Truth(Pipe', Sure', i, o, k, v, place[o], events + 1)
        BY <2>1, <3>1, <3>2, <3>3, <3>4, TruthUpdated
      <4> QED
        BY <3>2, <4>1
    <3>5. \A i \in Len(Pipe) + 1 .. Len(Pipe') : ~IsEntry(Pipe'[i], o) /\ ~IsMove(Pipe'[i], o)
      <4>1. \A i \in Len(Pipe) + 1 .. Len(Pipe') : i = Len(Pipe) + 1
        BY <2>2, <3>1
      <4>2. ~IsEntry(a, o) /\ ~IsMove(a, o)
        BY <3>2, Kinds
      <4> QED
        BY <3>1, <4>1, <4>2
    <3>6. PairsIn(Pipe', Sure', o)
      BY <2>1, <3>1, <3>3, <3>5, PairsExtended
    <3> QED
      BY <2>3, <3>1, <3>4, <3>5, <3>6
  <2> QED
    BY <1>2, <2>5, <2>6, <2>7, EventIs
<1> QED
  BY <1>1, <1>2

\* ... and so does an answer of the state server, ...
LEMMA ServeKeeps ==
    ASSUME TypeOK, NEW o \in Object, Paired(o), EntriesGood(o), Serve
    PROVE  Keeps(o)
<1>1. /\ interests' = interests /\ inbox' = inbox /\ Routed' = Routed /\ place' = place /\ value' = value
      /\ Len(Serving) > 0
  BY ServePipe DEF clientVars, Routed
<1>2. CASE Serving[1] \in Queries /\ Answering(Serving[1])
  <2>1. /\ Extended(Pipe, Pipe') /\ \A j \in Len(Pipe) + 1 .. Len(Pipe') : Reply(Pipe'[j], Serving[1])
    BY <1>2 DEF Answering
  <2>2. \A j \in Len(Pipe) + 1 .. Len(Pipe') : About(Pipe'[j], o) =>
              IsEntry(Pipe'[j], o) /\ Pipe'[j].at = place[o] /\ Pipe'[j].val = value[o]
    BY <1>2, <2>1, ReplyIs DEF About, IsEntry
  <2> QED
    BY <1>1, <2>1, <2>2, ExtendedKeeps
<1>3. CASE Pipe' = Pipe
  <2>1. Extended(Pipe, Pipe') /\ \A j \in Len(Pipe) + 1 .. Len(Pipe') : FALSE
    BY <1>3, PipeIs DEF Extended
  <2> QED
    BY <1>1, <2>1, ExtendedKeeps
<1> QED
  BY <1>2, <1>3, ServePipe

\* What has come through before a subscription is on its way.
LEMMA InboxSettled ==
    ASSUME TypeOK, Plain, Clean, NEW o \in Object \ strayed, NEW i \in 1..Len(inbox), IsEntry(Pipe[i], o)
    PROVE  ~Coming(Pipe[i].at)
<1>1. Pipe[i] = inbox[i] /\ i \in 1..Len(Pipe)
  BY PipeIs
<1>2. Pipe[i].to \in {{Self}, {Pipe[i].at}} /\ Pipe[i].at \in Location
  BY <1>1, PipeEntries DEF Plain, Addressed, IsEntry
<1>3. Touched(Pipe[i].at)
  <2>1. CASE Pipe[i].to = {Self}
    BY <1>1, <2>1 DEF Touched, IsEntry
  <2>2. CASE Pipe[i].to = {Pipe[i].at}
    BY <1>1, <2>2 DEF Touched
  <2> QED
    BY <1>2, <2>1, <2>2
<1> QED
  BY <1>2, <1>3 DEF Clean

\* ... a message that the master handles, ...
LEMMA ForwardKeeps ==
    ASSUME TypeOK, NEW o \in Object \ strayed, Paired(o), EntriesGood(o), Plain, Clean, Forward
    PROVE  Keeps(o)
<1>1. /\ interests' = interests /\ inbox' = inbox /\ place' = place /\ value' = value
      /\ uplink[1] \in Control \union Queries
  BY ForwardPipe DEF clientVars
<1>2. CASE /\ \/ uplink[1].type = "SET_CHANNEL" /\ upstream' = upstream \union {uplink[1].channel}
              \/ uplink[1].type = "REMOVE_CHANNEL" /\ upstream' = upstream \ {uplink[1].channel}
           /\ Pipe' = Pipe
  <2>1. Sure' = Sure
    BY <1>1, <1>2, SureIs, SureIsNext
  <2>2. PairsIn(Pipe', Sure', o) /\ GoodIn(Pipe, Sure, Len(inbox), Routed, o, place[o], value[o])
    BY <1>2, <2>1, PairedIs, GoodIs
  <2>3. ASSUME NEW i \in 1..Len(Pipe), IsEntry(Pipe[i], o), i > Len(inbox) \/ Pipe[i].at \in Routed'
        PROVE  i > Len(inbox) \/ Pipe[i].at \in Routed
    <3>1. CASE i > Len(inbox)
      BY <3>1
    <3>2. CASE ~(i > Len(inbox)) /\ Pipe[i].at \notin Routed
      <4>1. uplink[1].type = "SET_CHANNEL" /\ uplink[1].channel = Pipe[i].at
        BY <1>2, <2>3, <3>2 DEF Routed
      <4>2. uplink[1] = SetMsg(Pipe[i].at)
        BY <1>1, <4>1 DEF Control, Queries, SetMsg
      <4>3. Coming(Pipe[i].at)
        BY <4>2, ForwardUplink DEF Coming
      <4>4. i \in 1..Len(inbox)
        BY <3>2, PipeIs
      <4> QED
        BY <2>3, <4>3, <4>4, InboxSettled
    <3> QED
      BY <3>1, <3>2
  <2>4. GoodIn(Pipe', Sure', Len(inbox'), Routed', o, place'[o], value'[o])
    <3>1. Len(inbox') = Len(inbox) /\ place'[o] = place[o] /\ value'[o] = value[o]
      BY <1>1
    <3> QED
      BY <1>2, <2>1, <2>2, <2>3, <3>1 DEF GoodIn
  <2>5. ASSUME NEW l \in Routed \intersect Location, NEW v, Told(0, o, l, v)
        PROVE  Truth(Pipe', Sure', 0, o, l, v, place'[o], value'[o])
    BY <1>1, <1>2, <2>1, <2>5 DEF Told
  <2> QED
    BY <2>2, <2>4, <2>5 DEF Keeps
<1>3. CASE /\ uplink[1].type = "QUERY" /\ upstream' = upstream
           /\ Extended(Pipe, Pipe') /\ Len(Pipe') = Len(Pipe) + 1 /\ Pipe'[Len(Pipe) + 1] = uplink[1]
  <2>1. \A j \in Len(Pipe) + 1 .. Len(Pipe') : ~About(Pipe'[j], o)
    <3>1. \A j \in Len(Pipe) + 1 .. Len(Pipe') : j = Len(Pipe) + 1
      BY <1>3, PipeIs
    <3> QED
      BY <1>3, <3>1 DEF About
  <2>2. Routed' = Routed
    BY <1>3 DEF Routed
  <2> QED
    BY <1>1, <1>3, <2>1, <2>2, ExtendedKeeps
<1> QED
  BY <1>2, <1>3, ForwardPipe

\* An interest that is answered hears what the master routes to it.
LEMMA AnsweredRouted ==
    ASSUME TypeOK, InterestsHeard, Mirror, DoneHeard, NEW h \in Handle, Answered(h), NEW l \in Locations(interests[h])
    PROVE  l \in Routed /\ ~Coming(l) /\ l \in Location /\ l \in channels
<1>1. ~Coming(l)
  BY DEF DoneHeard
<1>2. l \in channels
  BY Covers DEF InterestsHeard
<1>3. l \in Location
  BY <1>2 DEF TypeOK
<1>4. l \notin Shared => l \in upstream
  BY <1>1, <1>2, <1>3 DEF Mirror
<1> QED
  BY <1>1, <1>2, <1>3, <1>4 DEF Routed

\* What is certain is heard.
LEMMA CertainRouted ==
    ASSUME TypeOK, InterestsHeard, Mirror, DoneHeard, NEW j, NEW l, CertainIn(interests, Pipe, l, j)
    PROVE  l \in Routed /\ ~Coming(l)
<1>1. PICK h \in Handle : /\ l \in Locations(interests[h])
                          /\ interests[h].done \/ \E d \in 1..j - 1 : d <= Len(Pipe) /\ AnswersFor(interests, Pipe[d], h)
  BY DEF CertainIn
<1>2. interests[h] # None
  BY <1>1 DEF Locations
<1>3. Answered(h)
  <2>1. CASE interests[h].done
    BY <1>2, <2>1 DEF Answered
  <2>2. ASSUME NEW d \in 1..j - 1, d <= Len(Pipe), AnswersFor(interests, Pipe[d], h) PROVE Answered(h)
    <3>1. d \in 1..Len(Pipe)
      BY <2>2, PipeIs
    <3> QED
      BY <1>2, <2>2, <3>1 DEF Answered
  <2> QED
    BY <1>1, <2>1, <2>2
<1> QED
  BY <1>1, <1>3, AnsweredRouted

\* ... and a datagram that it routes.
LEMMA RouteKeeps ==
    ASSUME TypeOK, InterestsHeard, NEW o \in Object, Paired(o), EntriesGood(o),
           Plain, Mirror, DoneHeard, Route
    PROVE  Keeps(o)
<1> DEFINE n == Len(inbox) + 1
<1>1. /\ interests' = interests /\ place' = place /\ value' = value /\ Routed' = Routed
      /\ n \in 1..Len(Pipe) /\ Len(inbox) \in Nat /\ Len(Pipe) \in Nat
  BY RoutePipe, PipeIs DEF clientVars, Routed
<1>2. PairsIn(Pipe, Sure, o) /\ GoodIn(Pipe, Sure, Len(inbox), Routed, o, place[o], value[o])
  BY PairedIs, GoodIs
<1>3. CASE Pipe' = Pipe /\ Len(inbox)' = n
  <2>1. Sure' \subseteq Sure
    BY <1>1, <1>3, SureIs, SureIsNext, SureRouted
  <2>2. PairsIn(Pipe', Sure', o)
    BY <1>2, <1>3, <2>1, PairsLess
  <2>3. \A i, l, v : Truth(Pipe, Sure, i, o, l, v, place[o], value[o]) => Truth(Pipe', Sure', i, o, l, v, place'[o], value'[o])
    BY <1>1, <1>3, <2>1, TruthLess
  <2>4. \A i \in 1..Len(Pipe) : i > Len(inbox') => i > Len(inbox)
    BY <1>1, <1>3
  <2>5. GoodIn(Pipe', Sure', Len(inbox'), Routed', o, place'[o], value'[o])
    BY <1>1, <1>2, <1>3, <2>3, <2>4 DEF GoodIn
  <2> QED
    BY <2>2, <2>3, <2>5 DEF Keeps, Told
<1>4. CASE /\ Removed(Pipe, Pipe', n) /\ inbox' = inbox /\ Pipe[n].to \intersect (Routed \union {Self}) = {}
  <2>1. \A j \in 1..Len(Pipe') : \A y : <<j, y>> \in Sure' => <<Up(n, j), y>> \in Sure
    BY <1>1, <1>4, SureIs, SureIsNext, SureDropped
  <2>2. \A j \in 1..Len(Pipe) : n = j + 1 =>
              ~(IsMove(Pipe[j], o) /\ <<j, Pipe[j].new>> \in Sure /\ EntryOf(Pipe[n], o, Pipe[j].new))
    <3>1. ASSUME NEW j \in 1..Len(Pipe), n = j + 1, IsMove(Pipe[j], o), <<j, Pipe[j].new>> \in Sure,
                 EntryOf(Pipe[n], o, Pipe[j].new)
          PROVE  FALSE
      <4>1. j = Len(inbox)
        BY <1>1, <3>1
      <4>2. CertainIn(interests, Pipe, Pipe[j].new, j)
        BY <1>1, <3>1, <4>1, SureIs, InSure
      <4>3. Pipe[j].new \in Routed
        BY <4>2, CertainRouted
      <4> QED
        BY <1>4, <3>1, <4>3 DEF EntryOf
    <3> QED
      BY <3>1
  <2>3. PairsIn(Pipe', Sure', o)
    BY <1>2, <1>4, <2>1, <2>2, PairsRemoved
  <2>4. ASSUME NEW i \in 0..Len(Pipe), i # n, NEW l \in Location, NEW v, i < n => l \in Routed,
               Truth(Pipe, Sure, i, o, l, v, place[o], value[o])
        PROVE  Truth(Pipe', Sure', Down(n, i), o, l, v, place'[o], value'[o])
    <3>1. ASSUME i < n, Stays(Pipe, i, n, o, l) PROVE ~Leaves(Pipe[n], o, l) /\ ~IsUpdate(Pipe[n], o)
      <4>1. l \in Routed /\ l \notin Pipe[n].to
        BY <1>4, <2>4, <3>1
      <4>2. ~Leaves(Pipe[n], o, l)
        BY <4>1 DEF Leaves
      <4>3. ASSUME IsUpdate(Pipe[n], o) PROVE FALSE
        <5>1. n \in i + 1 .. Len(Pipe)
          BY <1>1, <2>4, <3>1
        <5>2. Fits(Pipe, Sure, i, n, o, l, v)
          BY <2>4, <3>1, <5>1 DEF Truth
        <5>3. Pipe[n].to \subseteq {l}
          BY <4>3, <5>2, Kinds DEF Fits
        <5>4. \E x \in Location : Pipe[n].to = {x}
          BY <1>1, <4>3 DEF Plain, Addressed, IsUpdate
        <5> QED
          BY <4>1, <5>3, <5>4
      <4> QED
        BY <4>2, <4>3
    <3> DEFINE k == Down(n, i)
    <3>2. k \in Nat /\ k = Down(n, i)
      BY <1>1, <2>4 DEF Down
    <3> HIDE DEF k
    <3>3. \A j \in k + 1 .. Len(Pipe') : i < n /\ n = j + 1 /\ Stays(Pipe', k, j, o, l) =>
              ~(IsMove(Pipe'[j], o) /\ l \in Pipe'[j].to /\ <<j, Pipe'[j].new>> \in Sure')
      <4>1. ASSUME NEW j \in k + 1 .. Len(Pipe'), n = j + 1, IsMove(Pipe'[j], o), <<j, Pipe'[j].new>> \in Sure'
            PROVE  FALSE
        <5>1. j \in 1..Len(Pipe') /\ j \in 1..Len(Pipe) /\ j < n /\ Len(Pipe') = Len(Pipe) - 1
          BY <1>1, <1>4, <3>2, <4>1 DEF Removed
        <5>2. Pipe'[j] = Pipe[j] /\ Up(n, j) = j
          BY <1>4, <5>1 DEF Removed, Up
        <5>3. <<j, Pipe[j].new>> \in Sure
          BY <2>1, <4>1, <5>1, <5>2
        <5>4. EntryOf(Pipe[j + 1], o, Pipe[j].new)
          BY <1>2, <4>1, <5>1, <5>2, <5>3 DEF PairsIn
        <5> QED
          BY <2>2, <4>1, <5>1, <5>2, <5>3, <5>4
      <4> QED
        BY <4>1
    <3> HIDE DEF n
    <3>4. Truth(Pipe', Sure', k, o, l, v, place[o], value[o])
      BY <1>4, <2>1, <2>4, <3>1, <3>2, <3>3, TruthRemoved
    <3> QED
      BY <1>1, <3>2, <3>4
  <2>5. GoodIn(Pipe', Sure', Len(inbox'), Routed', o, place'[o], value'[o])
    <3>1. ASSUME NEW k \in 1..Len(Pipe'), IsEntry(Pipe'[k], o), k > Len(inbox) \/ Pipe'[k].at \in Routed
          PROVE  Truth(Pipe', Sure', k, o, Pipe'[k].at, Pipe'[k].val, place'[o], value'[o])
      <4> DEFINE i == Up(n, k)
      <4>1. i \in 1..Len(Pipe) /\ i # n /\ Pipe'[k] = Pipe[i] /\ Down(n, i) = k /\ (k > Len(inbox) => i > n)
            /\ (i < n => ~(k > Len(inbox)))
        BY <1>1, <1>4 DEF Removed, Up, Down
      <4> HIDE DEF i
      <4>2. i > Len(inbox) \/ Pipe[i].at \in Routed
        BY <1>1, <3>1, <4>1
      <4>3. Truth(Pipe, Sure, i, o, Pipe[i].at, Pipe[i].val, place[o], value[o]) /\ Pipe[i].at \in Location
        BY <1>2, <3>1, <4>1, <4>2, PipeEntries DEF GoodIn
      <4>4. i < n => Pipe[i].at \in Routed
        BY <1>1, <3>1, <4>1
      <4>5. i \in 0..Len(Pipe)
        BY <4>1
      <4> QED
        BY <2>4, <4>1, <4>3, <4>4, <4>5
    <3>2. Len(inbox') = Len(inbox)
      BY <1>4
    <3> QED
      BY <1>1, <3>1, <3>2 DEF GoodIn
  <2>6. ASSUME NEW l \in Routed \intersect Location, NEW v, Told(0, o, l, v)
        PROVE  Truth(Pipe', Sure', 0, o, l, v, place'[o], value'[o])
    <3>1. Down(n, 0) = 0 /\ 0 \in 0..Len(Pipe) /\ 0 # n
      BY <1>1 DEF Down
    <3>2. Truth(Pipe, Sure, 0, o, l, v, place[o], value[o])
      BY <2>6 DEF Told
    <3>3. Truth(Pipe', Sure', Down(n, 0), o, l, v, place'[o], value'[o])
      BY <2>4, <2>6, <3>1, <3>2
    <3> QED
      BY <3>1, <3>3
  <2> QED
    BY <2>3, <2>5, <2>6 DEF Keeps
<1> QED
  BY <1>3, <1>4, RoutePipe

-----------------------------------------------------------------------------
(* Nothing is missed, whatever the master and the state server do *)

NearIn(s, c, q, x, o) ==
    \/ /\ \E v \in Value : Has(c, q, x, v)
       /\ \A i \in 1..Len(s) : ~Leaves(s[i], o, x)
    \/ \E i \in 1..Len(s) : /\ IsEntry(s[i], o) /\ s[i].at = x
                            /\ \A j \in i + 1 .. Len(s) : ~Leaves(s[j], o, x)
\* A query of interest h is still to be handled before a move of o.
AskedBefore(s, ints, h, o) ==
    \E k \in 1..Len(s) : Asks(ints, s[k], h) /\ \E j \in k + 1 .. Len(s) : IsMove(s[j], o)

\* Near as a function of the datagrams, ...
LEMMA NearIs == \A o : Near(o) <=> NearIn(Pipe, shown[o], queued[o], place[o], o)
  BY DEF Near, NearIn

\* ... and Complete with both its reasons together.
LEMMA CompleteIs ==
    \A o : Complete(o) <=>
       \A h \in Handle : /\ place[o] \in Locations(interests[h])
                         /\ Answered(h) \/ AskedBefore(Serving, interests, h, o)
                         => Near(o)
<1>1. ASSUME NEW o, NEW h
      PROVE  (\A k \in 1..Len(Serving) : Asks(interests, Serving[k], h) /\ MovesLater(k, o) => Near(o))
               <=> (AskedBefore(Serving, interests, h, o) => Near(o))
  BY DEF AskedBefore, MovesLater
<1> QED
  BY <1>1 DEF Complete

\* Who is near stays so when more comes that does not take it away, ...
LEMMA NearExtended ==
    ASSUME NEW s, NEW r, Extended(s, r), NEW c, NEW q, NEW x, NEW o, NearIn(s, c, q, x, o),
           \A j \in Len(s) + 1 .. Len(r) : ~Leaves(r[j], o, x)
    PROVE  NearIn(r, c, q, x, o)
<1>1. Len(s) \in Nat /\ Len(r) \in Nat /\ Len(s) <= Len(r) /\ \A j \in 1..Len(s) : r[j] = s[j]
  BY DEF Extended
<1>2. ASSUME \A i \in 1..Len(s) : ~Leaves(s[i], o, x) PROVE \A i \in 1..Len(r) : ~Leaves(r[i], o, x)
  BY <1>1, <1>2
<1>3. ASSUME NEW i \in 1..Len(s), IsEntry(s[i], o), s[i].at = x, \A j \in i + 1 .. Len(s) : ~Leaves(s[j], o, x)
      PROVE  NearIn(r, c, q, x, o)
  <2>1. i \in 1..Len(r) /\ r[i] = s[i]
    BY <1>1
  <2>2. \A j \in i + 1 .. Len(r) : ~Leaves(r[j], o, x)
    BY <1>1, <1>3
  <2> QED
    BY <1>3, <2>1, <2>2 DEF NearIn
<1> QED
  BY <1>2, <1>3 DEF NearIn

\* ... and when something is removed that is not its entry.
LEMMA NearRemoved ==
    ASSUME NEW s, NEW r, NEW p, Removed(s, r, p), NEW c, NEW q, NEW x, NEW o, NearIn(s, c, q, x, o),
           ~(IsEntry(s[p], o) /\ s[p].at = x)
    PROVE  NearIn(r, c, q, x, o)
<1>1. /\ Len(s) \in Nat /\ Len(r) = Len(s) - 1 /\ p \in 1..Len(s)
      /\ \A j \in 1..Len(r) : r[j] = IF j < p THEN s[j] ELSE s[j + 1]
  BY DEF Removed
<1>2. \A j \in 1..Len(r) : Up(p, j) \in 1..Len(s) /\ r[j] = s[Up(p, j)]
  BY <1>1 DEF Up
<1>3. ASSUME \A i \in 1..Len(s) : ~Leaves(s[i], o, x) PROVE \A i \in 1..Len(r) : ~Leaves(r[i], o, x)
  BY <1>2, <1>3
<1>4. ASSUME NEW i \in 1..Len(s), IsEntry(s[i], o), s[i].at = x, \A j \in i + 1 .. Len(s) : ~Leaves(s[j], o, x)
      PROVE  NearIn(r, c, q, x, o)
  <2> DEFINE k == Down(p, i)
  <2>1. i # p
    BY <1>4
  <2>2. k \in 1..Len(r) /\ Up(p, k) = i
    BY <1>1, <2>1 DEF Up, Down
  <2>3. \A j \in k + 1 .. Len(r) : Up(p, j) \in i + 1 .. Len(s)
    BY <1>1, <2>1 DEF Up, Down
  <2> HIDE DEF k
  <2>4. \A j \in k + 1 .. Len(r) : j \in 1..Len(r)
    BY <1>1, <2>2
  <2>5. \A j \in k + 1 .. Len(r) : ~Leaves(r[j], o, x)
    BY <1>2, <1>4, <2>3, <2>4
  <2> QED
    BY <1>2, <1>4, <2>2, <2>5 DEF NearIn
<1> QED
  BY <1>3, <1>4 DEF NearIn

\* A query before a move was there before what comes behind, ...
LEMMA AskedExtended ==
    ASSUME NEW s, NEW r, Extended(s, r), NEW ints, NEW h, NEW o, AskedBefore(r, ints, h, o),
           \A j \in Len(s) + 1 .. Len(r) : ~IsMove(r[j], o)
    PROVE  AskedBefore(s, ints, h, o)
<1>1. Len(s) \in Nat /\ Len(r) \in Nat /\ Len(s) <= Len(r) /\ \A j \in 1..Len(s) : r[j] = s[j]
  BY DEF Extended
<1>2. PICK k \in 1..Len(r) : Asks(ints, r[k], h) /\ \E j \in k + 1 .. Len(r) : IsMove(r[j], o)
  BY DEF AskedBefore
<1>3. PICK j \in k + 1 .. Len(r) : IsMove(r[j], o)
  BY <1>2
<1>4. j <= Len(s)
  BY <1>1, <1>3
<1>5. k \in 1..Len(s) /\ r[k] = s[k] /\ j \in k + 1 .. Len(s) /\ r[j] = s[j]
  BY <1>1, <1>4
<1> QED
  BY <1>2, <1>3, <1>5 DEF AskedBefore

\* ... and before what is removed.
LEMMA AskedRemoved ==
    ASSUME NEW s, NEW r, NEW p, Removed(s, r, p), NEW ints, NEW h, NEW o, AskedBefore(r, ints, h, o)
    PROVE  AskedBefore(s, ints, h, o)
<1>1. /\ Len(s) \in Nat /\ Len(r) = Len(s) - 1 /\ p \in 1..Len(s)
      /\ \A j \in 1..Len(r) : r[j] = IF j < p THEN s[j] ELSE s[j + 1]
  BY DEF Removed
<1>2. \A j \in 1..Len(r) : Up(p, j) \in 1..Len(s) /\ r[j] = s[Up(p, j)]
  BY <1>1 DEF Up
<1>3. PICK k \in 1..Len(r) : Asks(ints, r[k], h) /\ \E j \in k + 1 .. Len(r) : IsMove(r[j], o)
  BY DEF AskedBefore
<1>4. PICK j \in k + 1 .. Len(r) : IsMove(r[j], o)
  BY <1>3
<1>5. j \in 1..Len(r) /\ Up(p, j) \in Up(p, k) + 1 .. Len(s)
  BY <1>1 DEF Up
<1> QED
  BY <1>2, <1>3, <1>4, <1>5 DEF AskedBefore

\* Where o is while an interest there is answered or about to be, is heard.
LEMMA TriggerRouted ==
    ASSUME TypeOK, InterestsHeard, Mirror, Clean, DoneHeard, Numbered, NEW o \in Object, NEW h \in Handle,
           NEW l \in Locations(interests[h]),
           Answered(h) \/ \E k \in 1..Len(Serving) : Asks(interests, Serving[k], h)
    PROVE  l \in Routed /\ ~Coming(l)
<1>1. CASE Answered(h)
  BY <1>1, AnsweredRouted
<1>2. ASSUME NEW k \in 1..Len(Serving), Asks(interests, Serving[k], h) PROVE l \in Routed /\ ~Coming(l)
  <2>1. Serving[k].type = "QUERY" /\ interests[h] # None
    BY <1>2 DEF Asks
  <2>2. Serving[k].parent = interests[h].parent /\ Serving[k].zones = interests[h].zones
    BY <1>2, <2>1 DEF Numbered, AsksRight
  <2>3. l \in Zones(Serving[k].parent, Serving[k].zones)
    BY <2>1, <2>2 DEF Locations
  <2>4. l \in channels /\ l \in Location
    BY Covers DEF InterestsHeard, TypeOK
  <2>5. ~Coming(l)
    BY <2>1, <2>3, <2>4 DEF Clean, Touched
  <2> QED
    BY <2>4, <2>5 DEF Mirror, Routed
<1> QED
  BY <1>1, <1>2

\* What the client had or will hear of o, it has or will hear of, over a step.
NearKept(o) ==
    \A h \in Handle :
       /\ place'[o] \in Locations(interests'[h])
       /\ Answered(h)' \/ AskedBefore(Serving', interests', h, o)
       => NearIn(Pipe', shown'[o], queued'[o], place'[o], o)

\* If what is near is kept near, nothing is missed.
LEMMA NearKeptIs ==
    ASSUME NEW o, NearKept(o)
    PROVE  Complete(o)'
<1>1. Near(o)' <=> NearIn(Pipe', shown'[o], queued'[o], place'[o], o)
  BY DEF Near, NearIn
<1>2. ASSUME NEW h \in Handle, place'[o] \in Locations(interests'[h]), Answered(h)' PROVE Near(o)'
  BY <1>1, <1>2 DEF NearKept
<1>3. ASSUME NEW h \in Handle, place'[o] \in Locations(interests'[h]),
             NEW k \in 1..Len(Serving'), Asks(interests', Serving'[k], h), MovesLater(k, o)'
      PROVE  Near(o)'
  <2>1. AskedBefore(Serving', interests', h, o)
    BY <1>3 DEF AskedBefore, MovesLater
  <2> QED
    BY <1>1, <1>3, <2>1 DEF NearKept
<1> QED
  BY <1>2, <1>3 DEF Complete

\* Only the state server answers.
LEMMA AnsweredAs ==
    ASSUME TypeOK, Forward \/ Route \/ (\E o2 \in Object : Happening(o2)), NEW h \in Handle, Answered(h)'
    PROVE  Answered(h)
<1>1. interests' = interests
  BY ForwardPipe, RoutePipe, EventPipe DEF clientVars
<1>2. ASSUME NEW i \in 1..Len(Pipe'), Pipe'[i].type = "DONE" PROVE \E j \in 1..Len(Pipe) : Pipe'[i] = Pipe[j]
  <2>1. CASE Forward
    <3>1. CASE Pipe' = Pipe
      BY <1>2, <3>1
    <3>2. CASE uplink[1].type = "QUERY" /\ Extended(Pipe, Pipe') /\ Len(Pipe') = Len(Pipe) + 1 /\ Pipe'[Len(Pipe) + 1] = uplink[1]
      <4>1. BehindOne(Pipe, Pipe', uplink[1])
        BY <3>2 DEF BehindOne
      <4> QED
        BY <1>2, <3>2, <4>1, OneFrom
    <3> QED
      BY <2>1, <3>1, <3>2, ForwardPipe
  <2>2. CASE Route
    <3>1. Pipe' = Pipe \/ \E n : Removed(Pipe, Pipe', n)
      BY <2>2, RoutePipe
    <3> QED
      BY <1>2, <3>1, RemovedFrom
  <2>3. ASSUME NEW o \in Object, Happening(o) PROVE \E j \in 1..Len(Pipe) : Pipe'[i] = Pipe[j]
    <3>1. ASSUME NEW a, NEW b, Behind(Pipe, Pipe', a, b), a.type # "DONE", b.type # "DONE"
          PROVE  \E j \in 1..Len(Pipe) : Pipe'[i] = Pipe[j]
      BY <1>2, <3>1, BehindFrom
    <3>2. ASSUME NEW a, BehindOne(Pipe, Pipe', a), a.type # "DONE"
          PROVE  \E j \in 1..Len(Pipe) : Pipe'[i] = Pipe[j]
      BY <1>2, <3>2, OneFrom
    <3>3. \A l, a, b : MovesTo(o, l, a, b) => a.type # "DONE" /\ b.type # "DONE"
      BY DEF MovesTo, IsMove, EntryOf, IsEntry
    <3>4. \A a, b : Vanishes(o, a, b) => a.type # "DONE" /\ b.type # "DONE"
      BY DEF Vanishes, IsMove
    <3>5. \A a : Changes(o, a) => a.type # "DONE"
      BY DEF Changes, IsUpdate
    <3> QED
      BY <2>3, <3>1, <3>2, <3>3, <3>4, <3>5, EventIs
  <2> QED
    BY <2>1, <2>2, <2>3
<1>3. interests[h] # None /\ (interests[h].done \/ \E i \in 1..Len(Pipe') : AnswersFor(interests, Pipe'[i], h))
  BY <1>1 DEF Answered
<1> QED
  BY <1>2, <1>3 DEF Answered, AnswersFor

\* Nothing is missed when the master handles a message, ...
LEMMA ForwardNear ==
    ASSUME TypeOK, NEW o \in Object, Complete(o), Forward
    PROVE  NearKept(o)
<1>1. UNCHANGED <<interests, shown, queued, place>>
  BY ForwardPipe DEF clientVars
<1>2. SUFFICES ASSUME NEW h \in Handle, place[o] \in Locations(interests[h]),
                      Answered(h)' \/ AskedBefore(Serving', interests, h, o)
               PROVE  NearIn(Pipe', shown[o], queued[o], place[o], o)
  BY <1>1, <1>2 DEF NearKept
<1>3. \/ Pipe' = Pipe /\ Serving' = Serving
      \/ /\ Extended(Pipe, Pipe') /\ Extended(Serving, Serving')
         /\ \A j \in Len(Pipe) + 1 .. Len(Pipe') : ~About(Pipe'[j], o)
         /\ \A j \in Len(Serving) + 1 .. Len(Serving') : ~About(Serving'[j], o)
  <2>1. CASE /\ uplink[1].type = "QUERY" /\ uplink[1] \in Queries /\ upstream' = upstream
             /\ Extended(Pipe, Pipe') /\ Len(Pipe') = Len(Pipe) + 1 /\ Pipe'[Len(Pipe) + 1] = uplink[1]
             /\ Extended(Serving, Serving') /\ Len(Serving') = Len(Serving) + 1
             /\ Serving'[Len(Serving) + 1] = uplink[1]
    <3>1. /\ \A j \in Len(Pipe) + 1 .. Len(Pipe') : j = Len(Pipe) + 1
          /\ \A j \in Len(Serving) + 1 .. Len(Serving') : j = Len(Serving) + 1
      BY <2>1, PipeIs
    <3>2. ~About(uplink[1], o)
      BY <2>1 DEF About
    <3> QED
      BY <2>1, <3>1, <3>2
  <2> QED
    BY <2>1, ForwardPipe
<1>4. Answered(h) \/ AskedBefore(Serving, interests, h, o)
  <2>1. AskedBefore(Serving', interests, h, o) => AskedBefore(Serving, interests, h, o)
    BY <1>3, AskedExtended, Kinds
  <2> QED
    BY <1>2, <2>1, AnsweredAs
<1>5. NearIn(Pipe, shown[o], queued[o], place[o], o)
  BY <1>2, <1>4, CompleteIs, NearIs
<1> QED
  BY <1>3, <1>5, NearExtended, Kinds

\* ... when it routes a datagram: what it drops, nobody waits for; ...
LEMMA RouteNear ==
    ASSUME TypeOK, InterestsHeard, Mirror, Clean, DoneHeard, Numbered, Plain, NEW o \in Object, Complete(o), Route
    PROVE  NearKept(o)
<1>1. UNCHANGED <<interests, shown, queued, place>>
  BY RoutePipe DEF clientVars
<1>2. SUFFICES ASSUME NEW h \in Handle, place[o] \in Locations(interests[h]),
                      Answered(h)' \/ AskedBefore(Serving', interests, h, o)
               PROVE  NearIn(Pipe', shown[o], queued[o], place[o], o)
  BY <1>1, <1>2 DEF NearKept
<1>3. Answered(h) \/ AskedBefore(Serving, interests, h, o)
  <2>1. AskedBefore(Serving', interests, h, o) => AskedBefore(Serving, interests, h, o)
    <3>1. Serving' = Serving \/ \E k : Removed(Serving, Serving', k)
      BY RoutePipe
    <3> QED
      BY <3>1, AskedRemoved
  <2> QED
    BY <1>2, <2>1, AnsweredAs
<1>4. NearIn(Pipe, shown[o], queued[o], place[o], o)
  BY <1>2, <1>3, CompleteIs, NearIs
<1>5. place[o] \in Routed
  <2>1. Answered(h) \/ \E k \in 1..Len(Serving) : Asks(interests, Serving[k], h)
    BY <1>3 DEF AskedBefore
  <2> QED
    BY <1>2, <2>1, TriggerRouted
<1>6. CASE Pipe' = Pipe
  BY <1>4, <1>6
<1>7. ASSUME NEW n, Removed(Pipe, Pipe', n), n \in 1..Len(Pipe), Pipe[n].to \intersect (Routed \union {Self}) = {}
      PROVE  NearIn(Pipe', shown[o], queued[o], place[o], o)
  <2>1. ~(IsEntry(Pipe[n], o) /\ Pipe[n].at = place[o])
    <3>1. ASSUME IsEntry(Pipe[n], o), Pipe[n].at = place[o] PROVE FALSE
      <4>1. Pipe[n].to \in {{Self}, {place[o]}}
        BY <1>7, <3>1 DEF Plain, Addressed, IsEntry
      <4> QED
        BY <1>5, <1>7, <4>1
    <3> QED
      BY <3>1
  <2> QED
    BY <1>4, <1>7, <2>1, NearRemoved
<1> QED
  BY <1>6, <1>7, RoutePipe

\* ... when the state server answers, with all that it lists; ...
LEMMA ServeNear ==
    ASSUME TypeOK, Numbered, NEW o \in Object, Complete(o), Listed(o), Serve
    PROVE  NearKept(o)
<1>1. UNCHANGED <<interests, shown, queued, place>> /\ Len(Serving) > 0 /\ Len(Serving) \in Nat /\ Len(Pipe) \in Nat
  BY ServePipe, PipeIs DEF clientVars
<1>2. SUFFICES ASSUME NEW h \in Handle, place[o] \in Locations(interests[h]),
                      Answered(h)' \/ AskedBefore(Serving', interests, h, o)
               PROVE  NearIn(Pipe', shown[o], queued[o], place[o], o)
  BY <1>1, <1>2 DEF NearKept
<1>3. ASSUME Answered(h) \/ AskedBefore(Serving, interests, h, o)
      PROVE  NearIn(Pipe, shown[o], queued[o], place[o], o)
  BY <1>2, <1>3, CompleteIs, NearIs
<1>4. CASE Serving[1] \in Queries /\ Answering(Serving[1])
  <2> DEFINE m == Serving[1]
  <2>1. PICK u : /\ Removed(Serving, u, 1) /\ Extended(u, Serving')
                 /\ \A k \in Len(u) + 1 .. Len(Serving') : Reply(Serving'[k], m)
    BY <1>4 DEF Answering
  <2>2. /\ Extended(Pipe, Pipe') /\ \A j \in Len(Pipe) + 1 .. Len(Pipe') : Reply(Pipe'[j], m)
    BY <1>4 DEF Answering
  <2>3. \A j \in Len(Pipe) + 1 .. Len(Pipe') : ~Leaves(Pipe'[j], o, place[o])
    BY <1>4, <2>2, ReplyNoMove
  <2>4. ASSUME Answered(h) \/ AskedBefore(Serving, interests, h, o)
        PROVE  NearIn(Pipe', shown[o], queued[o], place[o], o)
    BY <1>3, <2>2, <2>3, <2>4, NearExtended
  <2>5. AskedBefore(Serving', interests, h, o) => AskedBefore(Serving, interests, h, o)
    <3>1. \A k \in Len(u) + 1 .. Len(Serving') : ~IsMove(Serving'[k], o)
      BY <1>4, <2>1, ReplyNoMove
    <3> QED
      BY <2>1, <3>1, AskedExtended, AskedRemoved
  <2>6. ASSUME Answered(h)', ~Answered(h), ~AskedBefore(Serving, interests, h, o)
        PROVE  NearIn(Pipe', shown[o], queued[o], place[o], o)
    <3>1. PICK j \in Len(Pipe) + 1 .. Len(Pipe') : AnswersFor(interests, Pipe'[j], h)
      <4>1. interests[h] # None /\ ~interests[h].done /\ \E i \in 1..Len(Pipe') : AnswersFor(interests, Pipe'[i], h)
        BY <1>1, <2>6 DEF Answered
      <4>2. PICK i \in 1..Len(Pipe') : AnswersFor(interests, Pipe'[i], h)
        BY <4>1
      <4>3. ~(i \in 1..Len(Pipe) /\ Pipe'[i] = Pipe[i])
        BY <2>6, <4>1, <4>2 DEF Answered
      <4> QED
        BY <2>2, <4>2, <4>3, ExtendedFrom
    <3>2. Pipe'[j].type = "DONE" /\ Asks(interests, m, h)
      <4>1. Pipe'[j].type = "DONE" /\ Pipe'[j].handle = h /\ interests[h] # None /\ Pipe'[j].context = interests[h].context
        BY <3>1 DEF AnswersFor
      <4>2. Pipe'[j].handle = m.handle /\ Pipe'[j].context = m.context /\ m.type = "QUERY"
        BY <1>4, <2>2, <4>1, ReplyIs DEF Queries
      <4> QED
        BY <4>1, <4>2 DEF Asks
    <3>3. 1 \in 1..Len(Serving) /\ m.type = "QUERY"
      BY <1>1, <3>2 DEF Asks
    <3>4. place[o] \in Zones(m.parent, m.zones)
      <4>1. AsksRight(interests, m)
        BY <3>3 DEF Numbered
      <4> QED
        BY <1>2, <3>2, <4>1 DEF AsksRight, Asks, Locations
    <3>5. \A k \in 1..Len(Serving) : ~IsMove(Serving[k], o)
      <4>1. \A k \in 1 + 1 .. Len(Serving) : ~IsMove(Serving[k], o)
        BY <2>6, <3>2, <3>3 DEF AskedBefore
      <4>2. ~IsMove(m, o)
        BY <3>3 DEF IsMove
      <4>3. \A k \in 1..Len(Serving) : k = 1 \/ k \in 1 + 1 .. Len(Serving)
        BY <1>1
      <4> QED
        BY <4>1, <4>2, <4>3
    <3>6. place[o] # Nowhere /\ <<place[o], o>> \in index
      <4>1. place[o] \in Location
        BY <1>2, LocationsType DEF TypeOK
      <4> QED
        BY <3>5, <4>1, Bounds DEF Listed
    <3>7. PICK i \in Len(Pipe) + 1 .. Len(Pipe') : Pipe'[i] = Entry(o, {Self}, place[o])
      BY <1>4, <3>2, <3>4, <3>6 DEF Answering
    <3>8. IsEntry(Pipe'[i], o) /\ Pipe'[i].at = place[o]
      BY <3>7 DEF Entry, IsEntry
    <3>9. i \in 1..Len(Pipe') /\ \A k \in i + 1 .. Len(Pipe') : k \in Len(Pipe) + 1 .. Len(Pipe')
      BY <1>1, <2>2 DEF Extended
    <3> QED
      BY <2>3, <3>8, <3>9 DEF NearIn
  <2> QED
    BY <1>2, <2>4, <2>5, <2>6
<1>5. CASE Pipe' = Pipe /\ Removed(Serving, Serving', 1)
  <2>1. AskedBefore(Serving', interests, h, o) => AskedBefore(Serving, interests, h, o)
    BY <1>5, AskedRemoved
  <2>2. Answered(h)' => Answered(h)
    BY <1>1, <1>5 DEF Answered, AnswersFor
  <2> QED
    BY <1>2, <1>3, <1>5, <2>1, <2>2
<1> QED
  BY <1>4, <1>5, ServePipe

\* ... and when an object changes.
LEMMA EventNear ==
    ASSUME TypeOK, NEW o \in Object, Complete(o), NEW o2 \in Object, Happening(o2)
    PROVE  NearKept(o)
<1>1. UNCHANGED <<interests, shown, queued>> /\ Len(Pipe) \in Nat
  BY EventPipe, PipeIs DEF clientVars
<1>2. SUFFICES ASSUME NEW h \in Handle, place'[o] \in Locations(interests[h]),
                      Answered(h)' \/ AskedBefore(Serving', interests, h, o)
               PROVE  NearIn(Pipe', shown[o], queued[o], place'[o], o)
  BY <1>1, <1>2 DEF NearKept
<1>3. ASSUME place'[o] = place[o], Extended(Pipe, Pipe'), Extended(Serving, Serving'),
             \A j \in Len(Pipe) + 1 .. Len(Pipe') : ~Leaves(Pipe'[j], o, place[o]),
             \A j \in Len(Serving) + 1 .. Len(Serving') : ~IsMove(Serving'[j], o)
      PROVE  NearIn(Pipe', shown[o], queued[o], place'[o], o)
  <2>1. AskedBefore(Serving', interests, h, o) => AskedBefore(Serving, interests, h, o)
    BY <1>3, AskedExtended
  <2>2. Answered(h) \/ AskedBefore(Serving, interests, h, o)
    BY <1>2, <2>1, AnsweredAs
  <2>3. NearIn(Pipe, shown[o], queued[o], place[o], o)
    BY <1>2, <1>3, <2>2, CompleteIs, NearIs
  <2> QED
    BY <1>3, <2>3, NearExtended
<1>4. CASE o # o2
  <2>1. /\ place'[o] = place[o] /\ Extended(Pipe, Pipe') /\ Extended(Serving, Serving')
        /\ \A j \in Len(Pipe) + 1 .. Len(Pipe') : ~About(Pipe'[j], o)
        /\ \A j \in Len(Serving) + 1 .. Len(Serving') : ~About(Serving'[j], o)
    BY <1>4, EventPipe, OthersSent
  <2>2. /\ \A j \in Len(Pipe) + 1 .. Len(Pipe') : ~Leaves(Pipe'[j], o, place[o])
        /\ \A j \in Len(Serving) + 1 .. Len(Serving') : ~IsMove(Serving'[j], o)
    BY <2>1, Kinds
  <2> QED
    BY <1>3, <2>1, <2>2
<1>5. CASE o = o2
  <2>1. ASSUME NEW l \in Location, NEW a, NEW b, MovesTo(o, l, a, b), Behind(Pipe, Pipe', a, b)
        PROVE  NearIn(Pipe', shown[o], queued[o], place'[o], o)
    <3>1. Len(Pipe') = Len(Pipe) + 2 /\ Pipe'[Len(Pipe) + 2] = b /\ IsEntry(b, o) /\ b.at = place'[o]
      BY <2>1 DEF Behind, MovesTo, EntryOf
    <3>2. Len(Pipe) + 2 \in 1..Len(Pipe') /\ \A k \in (Len(Pipe) + 2) + 1 .. Len(Pipe') : FALSE
      BY <1>1, <3>1
    <3> QED
      BY <3>1, <3>2 DEF NearIn
  <2>2. ASSUME NEW a, NEW b, Vanishes(o, a, b)
        PROVE  NearIn(Pipe', shown[o], queued[o], place'[o], o)
    <3>1. place'[o] = Nowhere /\ place'[o] \in Location
      BY <1>2, <2>2, LocationsType DEF Vanishes, TypeOK
    <3> QED
      BY <3>1, Bounds
  <2>3. ASSUME NEW a, Changes(o, a), BehindOne(Pipe, Pipe', a), BehindOne(Serving, Serving', a)
        PROVE  NearIn(Pipe', shown[o], queued[o], place'[o], o)
    <3>1. place'[o] = place[o] /\ IsUpdate(a, o)
      BY <2>3 DEF Changes
    <3>2. Extended(Pipe, Pipe') /\ Extended(Serving, Serving')
      BY <2>3 DEF BehindOne
    <3>3. /\ \A j \in Len(Pipe) + 1 .. Len(Pipe') : Pipe'[j] = a
          /\ \A j \in Len(Serving) + 1 .. Len(Serving') : Serving'[j] = a
      <4>1. ASSUME NEW s, NEW r, BehindOne(s, r, a) PROVE \A j \in Len(s) + 1 .. Len(r) : r[j] = a
        <5>1. Len(s) \in Nat /\ Len(r) = Len(s) + 1 /\ r[Len(s) + 1] = a
          BY <4>1 DEF BehindOne, Extended
        <5>2. \A j \in Len(s) + 1 .. Len(r) : j = Len(s) + 1
          BY <5>1
        <5> QED
          BY <5>1, <5>2
      <4> QED
        BY <2>3, <4>1
    <3> QED
      BY <1>3, <3>1, <3>2, <3>3, Kinds
  <2> QED
    BY <1>5, <2>1, <2>2, <2>3, EventIs
<1> QED
  BY <1>4, <1>5

-----------------------------------------------------------------------------
(* The steps of the master and the state server *)

Outer == Forward \/ Route \/ Serve \/ \E o2 \in Object : Happening(o2)

\* What the client has does not change in these steps.
LEMMA OuterClient ==
    ASSUME TypeOK, Outer
    PROVE  /\ UNCHANGED <<interests, shown, queued, channels>> /\ Progress
           /\ SharedQuiet => \A l : Coming(l)' => Coming(l) \/ Forward
<1>1. UNCHANGED <<interests, shown, queued, channels>>
  BY ForwardPipe, RoutePipe, ServePipe, EventPipe DEF Outer, clientVars
<1>2. Progress
  BY DEF Outer, Progress
<1>3. ASSUME NEW l, Coming(l)', ~Forward PROVE Coming(l)
  <2>1. uplink' = uplink
    BY <1>3, RoutePipe, ServePipe, EventPipe DEF Outer
  <2> QED
    BY <1>3, <2>1 DEF Coming
<1> QED
  BY <1>1, <1>2, <1>3

\* What is kept is paired and good.
LEMMA KeepsIs ==
    ASSUME NEW o, Keeps(o)
    PROVE  Paired(o)' /\ EntriesGood(o)'
<1>1. Paired(o)'
  BY DEF Keeps, Paired, PairsIn
<1>2. EntriesGood(o)'
  BY DEF Keeps, EntriesGood, GoodIn, Told
<1> QED
  BY <1>1, <1>2

\* The first datagram stays the first, unless the client takes it or it is not for it.
LEMMA OuterFirst ==
    ASSUME TypeOK, InterestsHeard, Mirror, Outer, Pipe # <<>>, NEW o \in Object, NEW l \in Covered(interests),
           EntryOf(Pipe[1], o, l), ~Coming(l)
    PROVE  Pipe' # <<>> /\ Pipe'[1] = Pipe[1]
<1>0. Len(Pipe) \in Nat /\ Len(Pipe) # 0 /\ Len(inbox) \in Nat
  BY PipeIs, EmptySeq
<1>1. ASSUME Extended(Pipe, Pipe') PROVE Pipe' # <<>> /\ Pipe'[1] = Pipe[1]
  <2>1. Len(Pipe') > 0 /\ Pipe'[1] = Pipe[1]
    BY <1>0, <1>1 DEF Extended
  <2>2. Len(Pipe') # Len(<<>>)
    BY <1>0, <2>1
  <2> QED
    BY <2>1, <2>2
<1>2. CASE Forward
  BY <1>1, <1>2, ForwardPipe
<1>3. CASE Serve
  BY <1>1, <1>3, ServePipe DEF Answering
<1>4. ASSUME NEW o2 \in Object, Happening(o2) PROVE Extended(Pipe, Pipe')
  BY <1>4, EventIs DEF Behind, BehindOne
<1>5. CASE Route
  <2> DEFINE n == Len(inbox) + 1
  <2>1. CASE Pipe' = Pipe
    BY <2>1
  <2>2. CASE Removed(Pipe, Pipe', n) /\ Pipe[n].to \intersect (Routed \union {Self}) = {}
    <3>1. l \in channels /\ l \in Location
      BY DEF InterestsHeard, TypeOK
    <3>2. l \in Routed
      BY <3>1 DEF Mirror, Routed
    <3>3. n # 1
      BY <2>2, <3>2 DEF EntryOf
    <3>4. 1 \in 1..Len(Pipe') /\ Pipe'[1] = Pipe[1] /\ Len(Pipe') # 0
      BY <1>0, <2>2, <3>3 DEF Removed
    <3>5. Len(Pipe') # Len(<<>>)
      BY <3>4
    <3> QED
      BY <3>4, <3>5
  <2> QED
    BY <1>5, <2>1, <2>2, RoutePipe
<1> QED
  BY <1>1, <1>2, <1>3, <1>4, <1>5 DEF Outer

\* What is pending keeps its shape.
LEMMA OuterShape ==
    ASSUME TypeOK, InterestsHeard, SharedQuiet, Mirror, Outer, NEW o \in Object, QueueShape(o)
    PROVE  QueueShape(o)'
<1>1. UNCHANGED <<interests, shown, queued, channels>>
  BY OuterClient
<1>2. \A l : Coming(l)' => Coming(l)
  BY OuterClient, ForwardMirror
<1>3. \A l \in Covered(interests) : Pipe # <<>> /\ EntryOf(Pipe[1], o, l) /\ ~Coming(l) =>
         Pipe' # <<>> /\ EntryOf(Pipe'[1], o, l) /\ ~Coming(l)'
  BY <1>2, OuterFirst
<1> QED
  BY <1>1, <1>3 DEF QueueShape

\* What has been shown stays true.
LEMMA OuterSeen ==
    ASSUME TypeOK, InterestsHeard, SharedQuiet, Mirror, Outer, NEW o \in Object, Seen(o), Keeps(o)
    PROVE  Seen(o)'
<1>1. UNCHANGED <<interests, shown, queued, channels>>
  BY OuterClient
<1>2. \A l : Coming(l)' => Coming(l)
  BY OuterClient, ForwardMirror
<1>3. ASSUME NEW l \in Covered(interests), NEW v \in Value, Has(shown[o], queued[o], l, v)
      PROVE  ~Coming(l)' /\ Truth(Pipe', Sure', 0, o, l, v, place'[o], value'[o])
  <2>1. ~Coming(l) /\ Told(0, o, l, v)
    BY <1>3 DEF Seen
  <2>2. l \in channels /\ l \in Location
    BY DEF InterestsHeard, TypeOK
  <2>3. l \in Routed
    BY <2>1, <2>2 DEF Mirror, Routed
  <2> QED
    BY <1>2, <2>1, <2>2, <2>3 DEF Keeps
<1>4. \A l \in Covered(interests') : \A v \in Value : Has(shown'[o], queued'[o], l, v) =>
         ~Coming(l)' /\ Truth(Pipe', Sure', 0, o, l, v, place'[o], value'[o])
  BY <1>1, <1>3
<1> QED
  BY <1>4 DEF Seen, Told

\* Whatever the master and the state server do, an object stays followed.
LEMMA OuterFollowed ==
    ASSUME TypeOK, InterestsHeard, Subscribed, Outer, NEW o \in Object \ strayed', Followed(o)
    PROVE  Followed(o)'
<1>1. o \in Object \ strayed /\ Calm
  BY OuterClient, ProgressKeeps DEF Calm
<1>2. Numbered /\ Plain /\ SharedQuiet /\ Mirror /\ QueryOrder /\ Clean /\ DoneHeard
  BY <1>1 DEF Subscribed
<1>3. Paired(o) /\ EntriesGood(o) /\ QueueShape(o) /\ Seen(o) /\ Listed(o) /\ Complete(o)
  BY DEF Followed
<1>4. Keeps(o)
  BY <1>1, <1>2, <1>3, ForwardKeeps, RouteKeeps, ServeKeeps, EventKeeps DEF Outer
<1>5. NearKept(o)
  BY <1>1, <1>2, <1>3, ForwardNear, RouteNear, ServeNear, EventNear DEF Outer
<1>6. Listed(o)'
  BY <1>1, <1>3, OuterClient, ProgressListed
<1>7. QueueShape(o)' /\ Seen(o)'
  BY <1>1, <1>2, <1>3, <1>4, OuterShape, OuterSeen
<1> QED
  BY <1>4, <1>5, <1>6, <1>7, KeepsIs, NearKeptIs DEF Followed

-----------------------------------------------------------------------------
(* What is told is true when the client takes the first datagram *)

\* Receive changes no more of an interest than that it is done, ...
LEMMA ReceiveInterests ==
    ASSUME TypeOK, Receive
    PROVE  /\ \A h \in Handle : Locations(interests'[h]) = Locations(interests[h])
           /\ Covered(interests') = Covered(interests)
           /\ \A m : \A h \in Handle : /\ AnswersFor(interests', m, h) <=> AnswersFor(interests, m, h)
                                       /\ Asks(interests', m, h) <=> Asks(interests, m, h)
           /\ TypeOK' /\ (\A l : Coming(l)' <=> Coming(l))
<1>1. Kept(interests', interests) /\ TypeOK'
  BY ProgressKeeps DEF Progress
<1>2. \A l : Coming(l)' <=> Coming(l)
  BY ReceivePipe DEF Coming
<1> QED
  BY <1>1, <1>2, KeptFewer

\* ... and makes nothing certain that was not.
LEMMA ReceiveSure ==
    ASSUME TypeOK, Receive
    PROVE  \A j \in 1..Len(Pipe') : \A y : <<j, y>> \in Sure' => <<Up(1, j), y>> \in Sure
<1> SUFFICES ASSUME NEW j \in 1..Len(Pipe'), NEW y, <<j, y>> \in Sure' PROVE <<Up(1, j), y>> \in Sure
  OBVIOUS
<1>1. /\ Removed(Pipe, Pipe', 1) /\ Len(inbox') = Len(inbox) - 1 /\ Len(inbox) \in Nat /\ Len(Pipe) \in Nat
  BY ReceivePipe, PipeIs
<1>2. /\ Up(1, j) = j + 1 /\ j + 1 \in 1..Len(Pipe) /\ j \in Nat /\ 1 \in 1..j /\ 1 <= Len(Pipe)
      /\ \A d \in 1..j - 1 : Pipe'[d] = Pipe[d + 1] /\ d + 1 \in 1..j /\ d + 1 <= Len(Pipe)
  BY <1>1 DEF Removed, Up
<1>3. y \in Location /\ (j > Len(inbox') \/ CertainIn(interests', Pipe', y, j))
  BY SureIsNext, InSure
<1>4. CASE j > Len(inbox')
  <2>1. j + 1 > Len(inbox)
    BY <1>1, <1>2, <1>4
  <2> QED
    BY <1>2, <1>3, <2>1, SureIs, InSure
<1>5. CASE CertainIn(interests', Pipe', y, j)
  <2>1. PICK h \in Handle : /\ y \in Locations(interests'[h])
                            /\ \/ interests'[h].done
                               \/ \E d \in 1..j - 1 : d <= Len(Pipe') /\ AnswersFor(interests', Pipe'[d], h)
    BY <1>5 DEF CertainIn
  <2>2. y \in Locations(interests[h]) /\ interests'[h] # None
    BY <2>1, ReceiveInterests DEF Locations
  <2>3. CASE interests'[h].done
    <3>1. interests[h].done \/ AnswersFor(interests, Pipe[1], h)
      BY <2>2, <2>3, ReceiveDone
    <3>2. interests[h].done \/ \E d \in 1..j : d <= Len(Pipe) /\ AnswersFor(interests, Pipe[d], h)
      BY <1>2, <3>1
    <3>3. (j + 1) - 1 = j
      BY <1>2
    <3>4. CertainIn(interests, Pipe, y, j + 1)
      BY <2>2, <3>2, <3>3 DEF CertainIn
    <3> QED
      BY <1>2, <1>3, <3>4, SureIs, InSure
  <2>4. CASE \E d \in 1..j - 1 : d <= Len(Pipe') /\ AnswersFor(interests', Pipe'[d], h)
    <3>1. PICK d \in 1..j - 1 : AnswersFor(interests', Pipe'[d], h)
      BY <2>4
    <3>2. AnswersFor(interests, Pipe[d + 1], h) /\ d + 1 \in 1..j /\ d + 1 <= Len(Pipe)
      BY <1>2, <3>1, ReceiveInterests
    <3>3. (j + 1) - 1 = j
      BY <1>2
    <3>4. CertainIn(interests, Pipe, y, j + 1)
      BY <2>2, <3>2, <3>3 DEF CertainIn
    <3> QED
      BY <1>2, <1>3, <3>4, SureIs, InSure
  <2> QED
    BY <2>1, <2>3, <2>4
<1> QED
  BY <1>3, <1>4, <1>5

\* What is true behind the first datagram is true when the client has taken it.
LEMMA Consumed ==
    ASSUME TypeOK, Receive, NEW i \in 1..Len(Pipe), NEW o, NEW l, NEW v, NEW x, NEW w,
           Truth(Pipe, Sure, i, o, l, v, x, w)
    PROVE  Truth(Pipe', Sure', i - 1, o, l, v, x, w)
<1>1. Removed(Pipe, Pipe', 1) /\ Len(Pipe) \in Nat
  BY ReceivePipe, PipeIs
<1>2. i \in 0..Len(Pipe) /\ ~(i < 1) /\ i - 1 = Down(1, i) /\ i - 1 \in Nat
  BY <1>1 DEF Down
<1>3. \A j \in 1..Len(Pipe') : \A y : <<j, y>> \in Sure' => <<Up(1, j), y>> \in Sure
  BY ReceiveSure
<1>4. i < 1 /\ Stays(Pipe, i, 1, o, l) => ~Leaves(Pipe[1], o, l) /\ ~IsUpdate(Pipe[1], o)
  BY <1>2
<1>5. \A j \in (i - 1) + 1 .. Len(Pipe') : i < 1 /\ 1 = j + 1 /\ Stays(Pipe', i - 1, j, o, l) =>
              ~(IsMove(Pipe'[j], o) /\ l \in Pipe'[j].to /\ <<j, Pipe'[j].new>> \in Sure')
  BY <1>2
<1> DEFINE k == i - 1
<1>6. k \in Nat /\ k = Down(1, i)
  BY <1>2
<1>7. \A j \in k + 1 .. Len(Pipe') : i < 1 /\ 1 = j + 1 /\ Stays(Pipe', k, j, o, l) =>
              ~(IsMove(Pipe'[j], o) /\ l \in Pipe'[j].to /\ <<j, Pipe'[j].new>> \in Sure')
  BY <1>5
<1> HIDE DEF k
<1>8. Truth(Pipe', Sure', k, o, l, v, x, w)
  BY <1>1, <1>2, <1>3, <1>4, <1>6, <1>7, TruthRemoved
<1> QED
  BY <1>8 DEF k

\* Who is told the truth and is not to learn that o is gone is told it after.
LEMMA ToldAfter ==
    ASSUME TypeOK, Receive, NEW o, NEW l, NEW v, Told(0, o, l, v), ~Leaves(Pipe[1], o, l)
    PROVE  Truth(Pipe', Sure', 0, o, l, After(Pipe[1], o, v), place'[o], value'[o])
<1>1. Len(Pipe) \in Nat /\ 1 \in 1..Len(Pipe) /\ place' = place /\ value' = value
  BY ReceivePipe, PipeIs DEF Removed
<1>2. Truth(Pipe, Sure, 0, o, l, v, place[o], value[o])
  BY DEF Told
<1>3. 0 < Len(Pipe) /\ 0 \in Nat /\ 0 + 1 = 1 /\ 1 - 1 = 0
  BY <1>1
<1>4. Truth(Pipe, Sure, 1, o, l, After(Pipe[1], o, v), place[o], value[o])
  BY <1>1, <1>2, <1>3, TruthStep
<1>5. Truth(Pipe', Sure', 1 - 1, o, l, After(Pipe[1], o, v), place[o], value[o])
  BY <1>1, <1>4, Consumed
<1> QED
  BY <1>1, <1>3, <1>5

\* The pairs stay pairs once their first datagram is handled.
LEMMA ReceivePairs ==
    ASSUME TypeOK, Receive, NEW o, Paired(o), EntriesGood(o)
    PROVE  Paired(o)' /\ EntriesGood(o)'
<1>1. /\ Removed(Pipe, Pipe', 1) /\ Len(Pipe) \in Nat /\ Len(inbox') = Len(inbox) - 1 /\ Len(inbox) \in Nat
      /\ place' = place /\ value' = value /\ Routed' = Routed
  BY ReceivePipe, PipeIs DEF Routed
<1>2. \A j \in 1..Len(Pipe') : \A y : <<j, y>> \in Sure' => <<Up(1, j), y>> \in Sure
  BY ReceiveSure
<1>3. \A j \in 1..Len(Pipe) : 1 = j + 1 =>
              ~(IsMove(Pipe[j], o) /\ <<j, Pipe[j].new>> \in Sure /\ EntryOf(Pipe[1], o, Pipe[j].new))
  BY <1>1
<1>4. PairsIn(Pipe', Sure', o)
  BY <1>1, <1>2, <1>3, PairedIs, PairsRemoved
<1>5. ASSUME NEW i \in 1..Len(Pipe'), IsEntry(Pipe'[i], o), i > Len(inbox') \/ Pipe'[i].at \in Routed
      PROVE  Truth(Pipe', Sure', i, o, Pipe'[i].at, Pipe'[i].val, place[o], value[o])
  <2>1. Pipe'[i] = Pipe[i + 1] /\ i + 1 \in 1..Len(Pipe) /\ (i > Len(inbox') => i + 1 > Len(inbox)) /\ (i + 1) - 1 = i
    BY <1>1 DEF Removed
  <2>2. Truth(Pipe, Sure, i + 1, o, Pipe'[i].at, Pipe'[i].val, place[o], value[o])
    BY <1>5, <2>1, GoodIs DEF GoodIn
  <2>3. Truth(Pipe', Sure', (i + 1) - 1, o, Pipe'[i].at, Pipe'[i].val, place[o], value[o])
    BY <2>1, <2>2, Consumed
  <2> QED
    BY <2>1, <2>3
<1>6. GoodIn(Pipe', Sure', Len(inbox'), Routed', o, place'[o], value'[o])
  BY <1>1, <1>5 DEF GoodIn
<1>7. Paired(o)'
  BY <1>4 DEF Paired, PairsIn
<1>8. EntriesGood(o)'
  BY <1>6 DEF EntriesGood, GoodIn, Told
<1> QED
  BY <1>7, <1>8

-----------------------------------------------------------------------------
(* What the client has of an object, over one datagram and over a replay *)

Now(c, p) == [copy |-> c, pending |-> p]

\* What an entry does to what the client has (handle_object_entrance), ...
LEMMA EnteredIs ==
    ASSUME NEW ints, NEW c, NEW p, NEW m, m.type = "ENTERZONE"
    PROVE  Received(ints, Now(c, p), m) =
              IF OpenAt(ints, m.at) # {} THEN Now(c, <<m>>)
              ELSE IF c # Unseen THEN Now(c, p) ELSE Now([at |-> m.at, val |-> m.val], p)
<1>1. Received(ints, Now(c, p), m) = Entered(ints, Now(c, p), m)
  BY DEF Received
<1>2. CASE OpenAt(ints, m.at) # {}
  BY <1>1, <1>2 DEF Entered, Now
<1>3. CASE OpenAt(ints, m.at) = {} /\ c # Unseen
  BY <1>1, <1>3 DEF Entered, Now
<1>4. CASE OpenAt(ints, m.at) = {} /\ c = Unseen
  BY <1>1, <1>4 DEF Entered, Now
<1> QED
  BY <1>2, <1>3, <1>4

\* ... a move (handle_location_change), ...
LEMMA MovedIs ==
    ASSUME NEW ints, NEW c, NEW p, NEW m, m.type = "CHANGE_ZONE"
    PROVE  /\ p # <<>> => Received(ints, Now(c, p), m) = Now(c, Append(p, m))
           /\ p = <<>> /\ c = Unseen => Received(ints, Now(c, p), m) = Now(c, p)
           /\ p = <<>> /\ c # Unseen /\ c \in Copy /\ m.new \in Covered(ints) =>
                 Received(ints, Now(c, p), m) = Now([at |-> m.new, val |-> c.val], p)
           /\ p = <<>> /\ c # Unseen /\ m.new \notin Covered(ints) =>
                 Received(ints, Now(c, p), m) = Now(Unseen, p)
<1>1. Received(ints, Now(c, p), m) = Moved(ints, Now(c, p), m)
  BY DEF Received
<1>2. c \in Copy => [c EXCEPT !.at = m.new] = [at |-> m.new, val |-> c.val]
  BY DEF Copy
<1>3. p # <<>> => Moved(ints, Now(c, p), m) = Now(c, Append(p, m))
  BY DEF Moved, Now, QueuePending
<1>4. p = <<>> /\ c = Unseen => Moved(ints, Now(c, p), m) = Now(c, p)
  BY DEF Moved, Now
<1>5. p = <<>> /\ c # Unseen /\ m.new \in Covered(ints) => Moved(ints, Now(c, p), m) = Now([c EXCEPT !.at = m.new], p)
  BY DEF Moved, Now
<1>6. p = <<>> /\ c # Unseen /\ m.new \notin Covered(ints) => Moved(ints, Now(c, p), m) = Now(Unseen, p)
  BY DEF Moved, Now, Disabled
<1> QED
  BY <1>1, <1>2, <1>3, <1>4, <1>5, <1>6

\* ... and an update (handle_update_field).
LEMMA UpdatedIs ==
    ASSUME NEW ints, NEW c, NEW p, NEW m, m.type = "UPDATE_FIELD"
    PROVE  /\ c = Unseen /\ p = <<>> => Received(ints, Now(c, p), m) = Now(c, p)
           /\ c = Unseen /\ p # <<>> => Received(ints, Now(c, p), m) = Now(c, Append(p, m))
           /\ c # Unseen /\ c \in Copy => Received(ints, Now(c, p), m) = Now([at |-> c.at, val |-> m.val], p)
<1>1. Received(ints, Now(c, p), m) = Updated(Now(c, p), m)
  BY DEF Received
<1>2. c \in Copy => [c EXCEPT !.val = m.val] = [at |-> c.at, val |-> m.val]
  BY DEF Copy
<1>3. c # Unseen => Updated(Now(c, p), m) = Now([c EXCEPT !.val = m.val], p)
  BY DEF Updated, Now
<1>4. c = Unseen => Updated(Now(c, p), m) = QueuePending(Now(c, p), m)
  BY DEF Updated, Now
<1>5. QueuePending(Now(c, p), m) = IF p = <<>> THEN Now(c, p) ELSE Now(c, Append(p, m))
  BY DEF QueuePending, Now
<1> QED
  BY <1>1, <1>2, <1>3, <1>4, <1>5

\* What is not waited for, and takes it nowhere, shows no object again.
LEMMA StaysUnseen ==
    ASSUME NEW ints, NEW c, NEW m, m.type \in {"CHANGE_ZONE", "UPDATE_FIELD", "DELETE_RAM"},
           m.type = "CHANGE_ZONE" => c = Unseen \/ m.new \notin Covered(ints), m.type = "UPDATE_FIELD" => c = Unseen
    PROVE  Received(ints, Now(c, <<>>), m) = Now(Unseen, <<>>)
<1>1. CASE m.type = "CHANGE_ZONE"
  BY <1>1 DEF Received, Moved, Now, Disabled
<1>2. CASE m.type = "UPDATE_FIELD"
  BY <1>2 DEF Received, Updated, QueuePending, Now
<1>3. CASE m.type = "DELETE_RAM"
  BY <1>3 DEF Received, Deleted, QueuePending, Now, Disabled
<1> QED
  BY <1>1, <1>2, <1>3

\* What comes while something is pending is pending too, but an entry.
LEMMA StaysQueued ==
    ASSUME NEW ints, NEW c, NEW p, p # <<>>, NEW m, m.type \in {"CHANGE_ZONE", "UPDATE_FIELD", "DELETE_RAM"},
           m.type # "CHANGE_ZONE" => c = Unseen
    PROVE  Received(ints, Now(c, p), m) = Now(c, Append(p, m))
<1>1. CASE m.type = "CHANGE_ZONE"
  BY <1>1 DEF Received, Moved, QueuePending, Now
<1>2. CASE m.type = "UPDATE_FIELD"
  BY <1>2 DEF Received, Updated, QueuePending, Now
<1>3. CASE m.type = "DELETE_RAM"
  BY <1>3 DEF Received, Deleted, QueuePending, Now
<1> QED
  BY <1>1, <1>2, <1>3

\* What is pending of o is an entry and then other news of it, none of which
\* takes it to a location in C; and it is shown where the entry says, if at all.
Replayable(C, c, q, o) ==
    /\ q \in Seq(News) /\ q # <<>> /\ c \in Copy \union {Unseen}
    /\ c # Unseen => q[1].at = c.at
    /\ \A k \in 1..Len(q) :
          /\ About(q[k], o)
          /\ q[k].type = "ENTERZONE" <=> k = 1
          /\ c # Unseen => q[k].type \in {"ENTERZONE", "CHANGE_ZONE"}
          /\ q[k].type = "CHANGE_ZONE" => q[k].new \notin C

\* What the client has once the first k of q are replayed and nothing waits.
Departs(q, k) == \E j \in 2..k : q[j].type \in {"CHANGE_ZONE", "DELETE_RAM"}
CopyAt(c, q, k) == IF Departs(q, k) THEN Unseen
                   ELSE IF c # Unseen THEN c ELSE [at |-> q[1].at, val |-> q[k].val]

\* Whether o is gone after one datagram more.
LEMMA DepartsStep ==
    ASSUME NEW q, NEW k \in Nat \ {0}
    PROVE  Departs(q, k + 1) <=> Departs(q, k) \/ q[k + 1].type \in {"CHANGE_ZONE", "DELETE_RAM"}
<1>1. \A j : j \in 2..(k + 1) <=> j \in 2..k \/ j = k + 1
  OBVIOUS
<1> QED
  BY <1>1 DEF Departs

\* One datagram of a replay, as a step of the copy.
LEMMA CopyStep ==
    ASSUME NEW ints, NEW c, NEW q, NEW o, Replayable(Covered(ints), c, q, o),
           NEW k \in 1..Len(q), k + 1 \in 1..Len(q)
    PROVE  Received(ints, Now(CopyAt(c, q, k), <<>>), q[k + 1]) = Now(CopyAt(c, q, k + 1), <<>>)
<1> DEFINE m == q[k + 1]
<1>1. q \in Seq(News) /\ Len(q) \in Nat /\ k \in Nat \ {0} /\ k + 1 # 1
  BY LenProperties DEF Replayable
<1>2. /\ m.type \in {"CHANGE_ZONE", "UPDATE_FIELD", "DELETE_RAM"}
      /\ c # Unseen => m.type = "CHANGE_ZONE"
      /\ m.type = "CHANGE_ZONE" => m.new \notin Covered(ints)
  BY <1>1 DEF Replayable, About
<1>3. Departs(q, k + 1) <=> Departs(q, k) \/ m.type \in {"CHANGE_ZONE", "DELETE_RAM"}
  BY <1>1, DepartsStep
<1>4. CASE m.type \in {"CHANGE_ZONE", "DELETE_RAM"}
  <2>1. CopyAt(c, q, k + 1) = Unseen
    BY <1>3, <1>4 DEF CopyAt
  <2> HIDE DEF m
  <2>2. Received(ints, Now(CopyAt(c, q, k), <<>>), m) = Now(Unseen, <<>>)
    BY <1>2, <1>4, StaysUnseen
  <2> QED
    BY <2>1, <2>2 DEF m
<1>5. CASE m.type = "UPDATE_FIELD"
  <2>1. c = Unseen
    BY <1>2, <1>5
  <2>2. CASE Departs(q, k)
    <3>1. CopyAt(c, q, k) = Unseen /\ CopyAt(c, q, k + 1) = Unseen
      BY <1>3, <2>2 DEF CopyAt
    <3> HIDE DEF m
    <3>2. Received(ints, Now(CopyAt(c, q, k), <<>>), m) = Now(Unseen, <<>>)
      BY <1>2, <1>5, <3>1, StaysUnseen
    <3> QED
      BY <3>1, <3>2 DEF m
  <2>3. CASE ~Departs(q, k)
    <3>1. /\ CopyAt(c, q, k) = [at |-> q[1].at, val |-> q[k].val]
          /\ CopyAt(c, q, k + 1) = [at |-> q[1].at, val |-> m.val]
      BY <1>3, <1>5, <2>1, <2>3 DEF CopyAt
    <3>2. q[1] \in News /\ q[1].type = "ENTERZONE"
      BY <1>1 DEF Replayable
    <3>3. q[k] \in News /\ (q[k].type = "ENTERZONE" \/ q[k].type = "UPDATE_FIELD")
      <4>1. q[k].type \in {"ENTERZONE", "CHANGE_ZONE", "UPDATE_FIELD", "DELETE_RAM"} /\ (q[k].type = "ENTERZONE" <=> k = 1)
        BY <1>1 DEF Replayable, About
      <4>2. k # 1 => k \in 2..k
        BY <1>1
      <4> QED
        BY <1>1, <2>3, <4>1, <4>2 DEF Departs
    <3>4. CopyAt(c, q, k) \in Copy
      BY <3>1, <3>2, <3>3, NewsFields DEF Copy
    <3>5. CopyAt(c, q, k) # Unseen
      BY <3>4, Bounds
    <3>6. Received(ints, Now(CopyAt(c, q, k), <<>>), m) = Now([at |-> CopyAt(c, q, k).at, val |-> m.val], <<>>)
      BY <1>5, <3>4, <3>5, UpdatedIs
    <3>7. [at |-> CopyAt(c, q, k).at, val |-> m.val] = CopyAt(c, q, k + 1)
      BY <3>1
    <3> QED
      BY <3>6, <3>7
  <2> QED
    BY <2>2, <2>3
<1> QED
  BY <1>2, <1>4, <1>5

\* A claim about each position of a replay holds at its end.
LEMMA Climb ==
    ASSUME NEW n \in Nat, NEW S, 1 \in S, \A k \in 1..n : k \in S /\ k + 1 \in 1..n => k + 1 \in S
    PROVE  \A k \in 1..n : k \in S
<1> DEFINE Bad == {k \in 1..n : k \notin S}
<1>1. ASSUME Bad # {} PROVE FALSE
  <2>1. PICK k \in Bad : \A j \in Bad : k <= j
    <3>1. Bad \in SUBSET Nat
      OBVIOUS
    <3> HIDE DEF Bad
    <3> QED
      BY <1>1, <3>1, Least
  <2>2. k \in 1..n /\ k \notin S /\ k # 1
    BY <2>1
  <2>3. k - 1 \in 1..n /\ (k - 1) + 1 = k /\ ~(k <= k - 1)
    BY <2>2
  <2>4. k - 1 \in S
    BY <2>1, <2>3
  <2> QED
    BY <2>2, <2>3, <2>4
<1> QED
  BY <1>1

\* What o is replayed to: it waits as before, or it is what its news say.
LEMMA ReplayedAs ==
    ASSUME NEW ints, NEW c, NEW q, NEW o, Replayable(Covered(ints), c, q, o)
    PROVE  \/ Replayed(ints, Now(c, q)) = Now(c, q)
           \/ Replayed(ints, Now(c, q)) = Now(CopyAt(c, q, Len(q)), <<>>)
<1> DEFINE n == Len(q)
           st == Now(c, q)
<1>1. q \in Seq(News) /\ n \in Nat /\ n # 0 /\ 1 \in 1..n
  <2>1. q \in Seq(News) /\ Len(q) \in Nat /\ q # <<>>
    BY LenProperties DEF Replayable
  <2>2. Len(q) # 0
    BY <2>1, EmptySeq
  <2> QED
    BY <2>1, <2>2
<1>2. PICK f : /\ f = [i \in 0..n |-> IF i = 0 THEN [st EXCEPT !.pending = <<>>]
                                      ELSE Received(ints, f[i - 1], st.pending[i])]
               /\ Replayed(ints, st) = f[n]
  <2>1. st.pending = q
    BY DEF Now
  <2>2. st.pending \in Seq(News) /\ Len(st.pending) = n
    BY <1>1, <2>1
  <2> HIDE DEF st, n
  <2>3. \E f : /\ f = [i \in 0..Len(st.pending) |-> IF i = 0 THEN [st EXCEPT !.pending = <<>>]
                                      ELSE Received(ints, f[i - 1], st.pending[i])]
               /\ Replayed(ints, st) = f[Len(st.pending)]
    BY <2>2, ReplaySteps
  <2> QED
    BY <2>2, <2>3, Zenon
<1>3. f[0] = Now(c, <<>>) /\ \A i \in 1..n : f[i] = Received(ints, f[i - 1], q[i])
  <2>1. st.pending = q /\ [st EXCEPT !.pending = <<>>] = Now(c, <<>>)
    BY DEF Now
  <2>2. \A i \in 1..n : i \in 0..n /\ i # 0
    BY <1>1
  <2>3. 0 \in 0..n
    BY <1>1
  <2> HIDE DEF n, st
  <2>4. f[0] = [st EXCEPT !.pending = <<>>]
    BY <1>2, <2>3, Zenon
  <2>5. \A i \in 1..n : f[i] = Received(ints, f[i - 1], st.pending[i])
    BY <1>2, <2>2, Zenon
  <2> QED
    BY <2>1, <2>4, <2>5
<1> HIDE DEF n
<1>4. /\ q[1].type = "ENTERZONE" /\ f[1] = Received(ints, Now(c, <<>>), q[1])
      /\ \A k \in 1..n : k + 1 \in 1..n => /\ f[k + 1] = Received(ints, f[k], q[k + 1])
                                           /\ q[k + 1].type \in {"CHANGE_ZONE", "UPDATE_FIELD", "DELETE_RAM"}
                                           /\ c # Unseen => q[k + 1].type = "CHANGE_ZONE"
  <2>1. \A k \in 1..n : (k + 1) - 1 = k /\ k + 1 # 1
    BY <1>1
  <2>2. q[1].type = "ENTERZONE"
    BY <1>1 DEF Replayable, n
  <2>3. \A k \in 1..n : k # 1 => /\ q[k].type \in {"CHANGE_ZONE", "UPDATE_FIELD", "DELETE_RAM"}
                                 /\ c # Unseen => q[k].type = "CHANGE_ZONE"
    BY DEF Replayable, About, n
  <2>4. 1 - 1 = 0
    OBVIOUS
  <2>5. f[1] = Received(ints, f[1 - 1], q[1])
    BY <1>1, <1>3
  <2>6. \A k \in 1..n : k + 1 \in 1..n => f[k + 1] = Received(ints, f[k], q[k + 1])
    BY <1>3, <2>1
  <2> QED
    BY <1>3, <2>1, <2>2, <2>3, <2>4, <2>5, <2>6
<1>5. CASE OpenAt(ints, q[1].at) # {}
  <2> DEFINE S == {k \in Nat : f[k] = Now(c, SubSeq(q, 1, k))}
  <2>1. 1 \in S
    <3>1. f[1] = Now(c, <<q[1]>>)
      <4>1. q[1].type = "ENTERZONE"
        BY <1>4
      <4>2. Received(ints, Now(c, <<>>), q[1]) = Now(c, <<q[1]>>)
        <5>1. Received(ints, Now(c, <<>>), q[1]) = Entered(ints, Now(c, <<>>), q[1])
          BY <4>1 DEF Received
        <5>2. Entered(ints, Now(c, <<>>), q[1]) = Now(c, <<q[1]>>)
          BY <1>5 DEF Entered, Now
        <5> QED
          BY <5>1, <5>2, Zenon
      <4> QED
        BY <1>4, <4>2, Zenon
    <3>2. SubSeq(q, 1, 1) = <<q[1]>>
      <4>1. SubSeq(q, 1, 1) = SubSeq(q, 1, 1 - 1) \o <<q[1]>>
        BY <1>1, SubSeqRecursiveSecond DEF n
      <4>2. SubSeq(q, 1, 1 - 1) = <<>>
        BY SubSeqEmpty
      <4>3. q[1] \in News
        BY <1>1 DEF n
      <4>4. <<>> \o <<q[1]>> = <<q[1]>>
        BY <4>3, ConcatEmptySeq
      <4> QED
        BY <4>1, <4>2, <4>4
    <3> QED
      BY <3>1, <3>2
  <2>2. ASSUME NEW k \in 1..n, k \in S, k + 1 \in 1..n PROVE k + 1 \in S
    <3> DEFINE s == SubSeq(q, 1, k)
               m == q[k + 1]
    <3>1. s \in Seq(News) /\ Len(s) = k /\ s # <<>>
      <4>1. \A i \in 1..k : q[i] \in News
        BY <1>1 DEF n
      <4>2. SubSeq(q, 1, k) \in Seq(News) /\ Len(SubSeq(q, 1, k)) = IF 1 <= k THEN k - 1 + 1 ELSE 0
        BY <4>1, SubSeqProperties
      <4>3. Len(s) = k /\ k # Len(<<>>)
        BY <4>2
      <4> QED
        BY <4>2, <4>3
    <3>2. SubSeq(q, 1, k + 1) = Append(s, m)
      <4>1. SubSeq(q, 1, k + 1) = SubSeq(q, 1, (k + 1) - 1) \o <<q[k + 1]>>
        <5>1. 1 \in 1..Len(q) /\ k + 1 \in 1..Len(q)
          BY <1>1, <2>2 DEF n
        <5> QED
          BY <1>1, <5>1, SubSeqRecursiveSecond
      <4>2. (k + 1) - 1 = k /\ m \in News
        BY <1>1, <2>2 DEF n
      <4>3. s \o <<m>> = Append(s, m)
        BY <3>1, <4>2
      <4> QED
        BY <4>1, <4>2, <4>3
    <3>3. /\ f[k] = Now(c, s) /\ f[k + 1] = Received(ints, f[k], m)
          /\ m.type \in {"CHANGE_ZONE", "UPDATE_FIELD", "DELETE_RAM"} /\ (c # Unseen => m.type = "CHANGE_ZONE")
      BY <1>4, <2>2
    <3> HIDE DEF s, m
    <3>4. Received(ints, Now(c, s), m) = Now(c, Append(s, m))
      BY <3>1, <3>3, StaysQueued
    <3>5. k + 1 \in Nat
      BY <2>2
    <3> QED
      BY <3>2, <3>3, <3>4, <3>5
  <2> HIDE DEF S
  <2>3. \A k \in 1..n : k \in S
    BY <1>1, <2>1, <2>2, Climb
  <2>4. n \in 1..n
    BY <1>1
  <2>5. n \in S
    BY <2>3, <2>4
  <2>6. f[n] = Now(c, SubSeq(q, 1, n))
    BY <2>5 DEF S
  <2>7. SubSeq(q, 1, n) = q
    BY <1>1, SubSeqFull DEF n
  <2> QED
    BY <1>2, <2>6, <2>7
<1>6. CASE OpenAt(ints, q[1].at) = {}
  <2> DEFINE S == {k \in Nat : f[k] = Now(CopyAt(c, q, k), <<>>)}
  <2>1. 1 \in S
    <3>1. ~Departs(q, 1)
      BY DEF Departs
    <3>2. CopyAt(c, q, 1) = IF c # Unseen THEN c ELSE [at |-> q[1].at, val |-> q[1].val]
      BY <3>1 DEF CopyAt
    <3>3. q[1].type = "ENTERZONE"
      BY <1>4
    <3>4. Received(ints, Now(c, <<>>), q[1]) =
             IF c # Unseen THEN Now(c, <<>>) ELSE Now([at |-> q[1].at, val |-> q[1].val], <<>>)
      BY <1>6, <3>3, EnteredIs
    <3>5. f[1] = Now(CopyAt(c, q, 1), <<>>)
      BY <1>4, <3>2, <3>3, <3>4
    <3> QED
      BY <3>5
  <2>2. ASSUME NEW k \in 1..n, k \in S, k + 1 \in 1..n PROVE k + 1 \in S
    <3>1. f[k] = Now(CopyAt(c, q, k), <<>>) /\ f[k + 1] = Received(ints, f[k], q[k + 1])
      BY <1>4, <2>2
    <3>2. Received(ints, Now(CopyAt(c, q, k), <<>>), q[k + 1]) = Now(CopyAt(c, q, k + 1), <<>>)
      BY <2>2, CopyStep DEF n
    <3>3. k + 1 \in Nat
      BY <1>1
    <3> QED
      BY <3>1, <3>2, <3>3
  <2> HIDE DEF S
  <2>3. \A k \in 1..n : k \in S
    BY <1>1, <2>1, <2>2, Climb
  <2>4. n \in 1..n
    BY <1>1
  <2>5. n \in S
    BY <2>3, <2>4
  <2>6. f[n] = Now(CopyAt(c, q, n), <<>>)
    BY <2>5 DEF S
  <2> QED
    BY <1>2, <2>6 DEF n
<1> QED
  BY <1>5, <1>6

\* Replaying it takes nothing from the client and shows it nothing new.
LEMMA ReplayedHas ==
    ASSUME NEW ints, NEW c, NEW q, NEW o, Replayable(Covered(ints), c, q, o), NEW new, new = Replayed(ints, Now(c, q))
    PROVE  /\ new.pending = q \/ new.pending = <<>>
           /\ new.pending = q => new.copy = c
           /\ \A l, v : Has(new.copy, new.pending, l, v) <=> Has(c, q, l, v)
<1>1. q \in Seq(News) /\ Len(q) \in Nat /\ q # <<>>
  BY LenProperties DEF Replayable
<1>2. CASE new = Now(c, q)
  BY <1>2 DEF Now
<1>3. CASE new = Now(CopyAt(c, q, Len(q)), <<>>)
  <2>1. new.copy = CopyAt(c, q, Len(q)) /\ new.pending = <<>>
    BY <1>3 DEF Now
  <2>2. Departs(q, Len(q)) <=> ~\A k \in 1..Len(q) : q[k].type \in {"ENTERZONE", "UPDATE_FIELD"}
    <3>1. \A k \in 1..Len(q) : /\ q[k].type \in {"ENTERZONE", "CHANGE_ZONE", "UPDATE_FIELD", "DELETE_RAM"}
                               /\ q[k].type = "ENTERZONE" <=> k = 1
      BY DEF Replayable, About
    <3>2. \A k : k \in 2..Len(q) <=> k \in 1..Len(q) /\ k # 1
      BY <1>1
    <3> QED
      BY <3>1, <3>2 DEF Departs
  <2>3. <<>> # q /\ Len(<<>>) = 0 /\ \A k \in 1..Len(<<>>) : FALSE
    BY <1>1
  <2>4. CASE Departs(q, Len(q))
    <3>1. new.copy = Unseen
      BY <2>1, <2>4 DEF CopyAt
    <3> QED
      BY <2>1, <2>2, <2>4, <3>1 DEF Has
  <2>5. CASE ~Departs(q, Len(q)) /\ c # Unseen
    <3>1. new.copy = c
      BY <2>1, <2>5 DEF CopyAt
    <3>2. \A l, v : Has(c, <<>>, l, v) <=> c = [at |-> l, val |-> v]
      BY <2>3, <2>5 DEF Has
    <3>3. \A l, v : Has(c, q, l, v) <=> c = [at |-> l, val |-> v]
      BY <2>2, <2>5 DEF Has
    <3> QED
      BY <2>1, <2>3, <3>1, <3>2, <3>3
  <2>6. CASE ~Departs(q, Len(q)) /\ c = Unseen
    <3> DEFINE d == [at |-> q[1].at, val |-> q[Len(q)].val]
    <3>1. new.copy = d
      BY <2>1, <2>6 DEF CopyAt
    <3>2. d # Unseen
      <4>1. 1 \in 1..Len(q) /\ Len(q) \in 1..Len(q)
        <5>1. Len(q) # 0
          BY <1>1, EmptySeq
        <5> QED
          BY <1>1, <5>1
      <4>2. q[1] \in News /\ q[1].type = "ENTERZONE" /\ q[Len(q)] \in News /\ q[Len(q)].type \in {"ENTERZONE", "UPDATE_FIELD"}
        BY <1>1, <2>2, <2>6, <4>1 DEF Replayable
      <4>3. d \in Copy
        BY <4>2, NewsFields DEF Copy
      <4> QED
        BY <4>3, Bounds
    <3>3. \A l, v : d = [at |-> l, val |-> v] <=> q[1].at = l /\ q[Len(q)].val = v
      OBVIOUS
    <3> HIDE DEF d
    <3>4. \A l, v : Has(d, <<>>, l, v) <=> d = [at |-> l, val |-> v]
      BY <2>3, <3>2 DEF Has
    <3>5. \A l, v : Has(c, q, l, v) <=> q[1].at = l /\ q[Len(q)].val = v
      BY <1>1, <2>2, <2>6 DEF Has
    <3> QED
      BY <2>1, <2>3, <3>1, <3>3, <3>4, <3>5
  <2> QED
    BY <2>4, <2>5, <2>6
<1> QED
  BY <1>2, <1>3, ReplayedAs

-----------------------------------------------------------------------------
(* What the client does with the first datagram, for an object no race has hit *)

Heeded(m) == m.to \intersect (channels \union {Self}) # {}

Passes(o) == /\ shown'[o] = shown[o] /\ queued'[o] = queued[o]
             /\ ~About(Pipe[1], o) \/ ~Heeded(Pipe[1])
Learns(o) == /\ About(Pipe[1], o) /\ Heeded(Pipe[1])
             /\ Received(interests, Now(shown[o], queued[o]), Pipe[1]) = Now(shown'[o], queued'[o])
             /\ o \notin Outlived(Pipe[1]) \union Unheard(Pipe[1]) \union Overtaken(Pipe[1])
             /\ shown'[o] # Unseen => shown'[o].at \in Covered(interests)
Replays(o) == /\ ~About(Pipe[1], o) /\ queued[o] # <<>>
              /\ \E ints \in Interests :
                    /\ Covered(ints) = Covered(interests)
                    /\ Now(shown'[o], queued'[o]) = Replayed(ints, Now(shown[o], queued[o]))
              /\ shown'[o] # Unseen => shown'[o].at \in Covered(interests)

\* What a datagram about an object does to what the client has of o, ...
LEMMA NewsFor ==
    ASSUME TypeOK, NEW m \in News, ObjectNews(m), NEW o \in Object
    PROVE  /\ About(m, o) => Received(interests, Now(shown[o], queued[o]), m) = Now(shown'[o], queued'[o])
           /\ ~About(m, o) => shown'[o] = shown[o] /\ queued'[o] = queued[o]
<1> DEFINE st == Received(interests, ObjectState(m.obj), m)
<1>1. shown' = [shown EXCEPT ![m.obj] = st.copy] /\ queued' = [queued EXCEPT ![m.obj] = st.pending]
  BY DEF ObjectNews
<1>2. m.obj \in Object /\ (About(m, o) <=> m.obj = o)
  BY NewsFields DEF About
<1>3. st \in State
  BY <1>2, StateType, ReceivedIs DEF TypeOK, Interests
<1> HIDE DEF st
<1>4. st = Now(st.copy, st.pending)
  BY <1>3 DEF State, Now
<1>5. CASE m.obj = o
  <2>1. shown'[o] = st.copy /\ queued'[o] = st.pending
    BY <1>1, <1>5 DEF TypeOK
  <2>2. ObjectState(o) = Now(shown[o], queued[o])
    BY DEF ObjectState, Now
  <2> QED
    BY <1>2, <1>4, <1>5, <2>1, <2>2 DEF st
<1>6. CASE m.obj # o
  BY <1>1, <1>2, <1>6 DEF TypeOK
<1> QED
  BY <1>5, <1>6

\* ... what the answer to a query does, ...
LEMMA DoneFor ==
    ASSUME TypeOK, NEW m \in Answers, InterestDone(m), NEW o \in Object
    PROVE  \/ shown'[o] = shown[o] /\ queued'[o] = queued[o]
           \/ /\ queued[o] # <<>>
              /\ \E ints \in Interests :
                    /\ Covered(ints) = Covered(interests)
                    /\ Now(shown'[o], queued'[o]) = Replayed(ints, Now(shown[o], queued[o]))
<1> DEFINE g == m.handle
           ints == [interests EXCEPT ![g].done = TRUE, ![g].pending_objects = {}]
           due == {e \in interests[g].pending_objects : queued[e] # <<>>}
           after == [e \in Object |-> IF e \in due THEN Replayed(ints, ObjectState(e)) ELSE ObjectState(e)]
<1>1. CASE UNCHANGED <<interests, shown, queued>>
  BY <1>1
<1>2. CASE ~(UNCHANGED <<interests, shown, queued>>)
  <2>1. /\ interests[g] # None
        /\ shown' = [e \in Object |-> after[e].copy] /\ queued' = [e \in Object |-> after[e].pending]
    BY <1>2, Zenon DEF InterestDone
  <2>2. g \in Handle /\ interests[g] \in Interest
    BY <2>1 DEF TypeOK, Answers
  <2>3. ints \in Interests /\ Kept(ints, interests)
    <3>1. ints = [interests EXCEPT ![g] = [interests[g] EXCEPT !.done = TRUE, !.pending_objects = {}]]
      BY <2>2 DEF TypeOK
    <3>2. LET j == [interests[g] EXCEPT !.done = TRUE, !.pending_objects = {}] IN j \in Interest /\ Alike(interests[g], j) /\ j # None
      BY <2>2, Closed, Bounds
    <3> HIDE DEF ints
    <3>3. ints \in Interests
      BY <2>2, <3>1, <3>2 DEF TypeOK, Interests
    <3>4. \A h \in Handle : h # g => ints[h] = interests[h]
      BY <3>1 DEF TypeOK
    <3>5. ints[g] # None /\ Alike(interests[g], ints[g])
      BY <2>2, <3>1, <3>2 DEF TypeOK
    <3> QED
      BY <2>1, <3>3, <3>4, <3>5 DEF Kept, Alike
  <2>4. Covered(ints) = Covered(interests)
    BY <2>3, KeptFewer
  <2>5. shown'[o] = after[o].copy /\ queued'[o] = after[o].pending
    BY <2>1
  <2>6. ObjectState(o) = Now(shown[o], queued[o])
    BY DEF ObjectState, Now
  <2>7. CASE o \in due
    <3>1. after[o] = Replayed(ints, Now(shown[o], queued[o])) /\ queued[o] # <<>>
      BY <2>6, <2>7
    <3>2. after[o] \in State
      <4>1. Now(shown[o], queued[o]) \in State
        BY <2>6, StateType
      <4> HIDE DEF ints, due, after
      <4> QED
        BY <2>3, <3>1, <4>1, ReplayedIs
    <3> HIDE DEF ints, due, after
    <3>3. after[o] = Now(after[o].copy, after[o].pending)
      BY <3>2 DEF State, Now
    <3> QED
      BY <2>3, <2>4, <2>5, <3>1, <3>3
  <2>8. CASE o \notin due
    <3>1. after[o] = ObjectState(o)
      BY <2>8
    <3> HIDE DEF after
    <3> QED
      BY <2>5, <3>1 DEF ObjectState
  <2> QED
    BY <2>7, <2>8
<1> QED
  BY <1>1, <1>2

\* ... and so what Receive does.
LEMMA ReceiveFor ==
    ASSUME TypeOK, Receive, NEW o \in Object \ strayed'
    PROVE  \/ Passes(o) \/ Learns(o) \/ Replays(o)
<1> DEFINE m == Head(inbox)
<1>1. Pipe[1] = m /\ m \in Datagrams
  BY ReceivePipe
<1>2. CASE ~Heeded(m)
  <2>1. UNCHANGED <<shown, queued>>
    BY <1>2 DEF Receive, Heeded
  <2> QED
    BY <1>1, <1>2, <2>1 DEF Passes
<1>3. CASE Heeded(m)
  <2>1. /\ IF m.type = "DONE" THEN InterestDone(m) ELSE ObjectNews(m)
        /\ strayed' = strayed \union Outside(shown', interests') \union Outlived(m) \union Unheard(m) \union Overtaken(m)
    BY <1>3 DEF Receive, Heeded
  <2>2. shown'[o] # Unseen => shown'[o].at \in Covered(interests)
    BY <2>1, ReceiveInterests DEF Outside
  <2>3. m \in News \/ m \in Answers
    BY <1>1, <1>3 DEF Heeded, Datagrams, Queries
  <2>4. CASE m \in Answers
    <3>1. m.type = "DONE" /\ ~About(m, o)
      BY <2>4 DEF Answers, About
    <3> HIDE DEF m
    <3>2. InterestDone(m)
      BY <2>1, <3>1
    <3> QED
      BY <1>1, <2>2, <2>4, <3>1, <3>2, DoneFor DEF Passes, Replays
  <2>5. CASE m \in News
    <3>1. m.type # "DONE"
      BY <2>5, NewsFields
    <3> HIDE DEF m
    <3>2. ObjectNews(m)
      BY <2>1, <3>1
    <3>3. CASE About(m, o)
      BY <1>1, <1>3, <2>1, <2>2, <2>5, <3>2, <3>3, NewsFor DEF Learns
    <3>4. CASE ~About(m, o)
      BY <1>1, <2>5, <3>2, <3>4, NewsFor DEF Passes
    <3> QED
      BY <3>3, <3>4
  <2> QED
    BY <2>3, <2>4, <2>5
<1> QED
  BY <1>2, <1>3

-----------------------------------------------------------------------------
(* What the client has of an object is true, and nothing is missed *)

\* What is known of o before the client takes the next datagram.
Attends(o) == /\ InterestsHeard /\ Mirror /\ Plain /\ Clean /\ DoneHeard
              /\ Paired(o) /\ EntriesGood(o) /\ QueueShape(o) /\ Seen(o)

ShapeIn(c, q, C, s, o) ==
    /\ c # Unseen => c.at \in C
    /\ c # Unseen /\ q # <<>> => q[1].at = c.at
    /\ \A k \in 1..Len(q) :
          /\ About(q[k], o)
          /\ q[k].type = "ENTERZONE" <=> k = 1
          /\ c # Unseen => q[k].type \in {"ENTERZONE", "CHANGE_ZONE"}
          /\ q[k].type = "CHANGE_ZONE" /\ q[k].new \in C =>
                k = Len(q) /\ s # <<>> /\ EntryOf(s[1], o, q[k].new) /\ ~Coming(q[k].new)

\* What is to be known of o after: the shape of what is pending, what the
\* client has of it, and what it will be shown.
ShapeKept(o) == ShapeIn(shown'[o], queued'[o], Covered(interests), Pipe', o)
HasTruth(o)  == \A l \in Covered(interests) : \A v \in Value : Has(shown'[o], queued'[o], l, v) =>
                   ~Coming(l) /\ Truth(Pipe', Sure', 0, o, l, v, place'[o], value'[o])
StaysNear(o) == \A x \in Covered(interests) : NearIn(Pipe, shown[o], queued[o], x, o) =>
                   NearIn(Pipe', shown'[o], queued'[o], x, o)

\* QueueShape as a function of what the client has.
LEMMA ShapeIs == \A o : QueueShape(o) <=> ShapeIn(shown[o], queued[o], Covered(interests), Pipe, o)
BY DEF QueueShape, ShapeIn

\* The first datagram, and what is known of it.
LEMMA HeadIs ==
    ASSUME TypeOK, Receive, Plain
    PROVE  /\ Pipe[1] \in Datagrams /\ Addressed(Pipe[1]) /\ Removed(Pipe, Pipe', 1)
           /\ 1 \in 1..Len(inbox) /\ 1 \in 1..Len(Pipe) /\ Len(Pipe) \in Nat
           /\ place' = place /\ value' = value
<1>1. 1 \in 1..Len(Pipe) /\ Removed(Pipe, Pipe', 1)
  BY ReceivePipe DEF Removed
<1>2. 1 \in 1..Len(inbox)
  BY ReceivePipe, PipeIs
<1> QED
  BY <1>1, <1>2, ReceivePipe, PipeIs DEF Plain

\* Unless the datagram is an entry of o, nothing pending takes o to where the
\* client looks.
LEMMA NoReturn ==
    ASSUME TypeOK, Receive, NEW o, Attends(o), ~(IsEntry(Pipe[1], o) /\ Heeded(Pipe[1]))
    PROVE  \A k \in 1..Len(queued[o]) : queued[o][k].type = "CHANGE_ZONE" => queued[o][k].new \notin Covered(interests)
<1> SUFFICES ASSUME NEW k \in 1..Len(queued[o]), queued[o][k].type = "CHANGE_ZONE", queued[o][k].new \in Covered(interests)
             PROVE FALSE
  OBVIOUS
<1>1. EntryOf(Pipe[1], o, queued[o][k].new)
  BY DEF Attends, QueueShape
<1>2. queued[o][k].new \in channels
  BY DEF Attends, InterestsHeard
<1> QED
  BY <1>1, <1>2 DEF EntryOf, Heeded

\* The first datagram fits what the client has of o.
LEMMA HeadFits ==
    ASSUME TypeOK, Receive, NEW o, Attends(o), NEW l \in Covered(interests), NEW v \in Value,
           Has(shown[o], queued[o], l, v)
    PROVE  /\ Told(0, o, l, v) /\ ~Coming(l)
           /\ IsEntry(Pipe[1], o) => Pipe[1].at = l /\ Pipe[1].val = v
           /\ About(Pipe[1], o) /\ ~IsEntry(Pipe[1], o) => Pipe[1].to \subseteq {l}
           /\ IsMove(Pipe[1], o) /\ l \in Pipe[1].to /\ <<1, Pipe[1].new>> \in Sure =>
                (2 <= Len(Pipe) /\ IsEntry(Pipe[2], o) => Pipe[2].val = v)
<1>1. Told(0, o, l, v) /\ ~Coming(l)
  BY DEF Attends, Seen
<1>2. 1 \in 0 + 1 .. Len(Pipe) /\ 0 + 1 = 1 /\ 1 + 1 = 2 /\ 0 \in Nat
  BY HeadIs DEF Attends
<1>3. Stays(Pipe, 0, 1, o, l) /\ \A w : Tells(Pipe, 0, 1, o, v, w) <=> w = v
  <2>1. ASSUME NEW w
        PROVE  Stays(Pipe, 0, 1, o, l) /\ (Tells(Pipe, 0, 1, o, v, w) <=> w = v)
    <3>1. 0 + 1 .. 1 - 1 = {}
      OBVIOUS
    <3> QED
      BY <3>1 DEF Stays, Tells
  <2> QED
    BY <2>1
<1>4. Fits(Pipe, Sure, 0, 1, o, l, v)
  BY <1>1, <1>2, <1>3 DEF Told, Truth
<1> QED
  BY <1>1, <1>2, <1>3, <1>4 DEF Fits

\* A datagram that the client does not heed tells it nothing of what it has.
LEMMA SameHas ==
    ASSUME TypeOK, Receive, NEW o, Attends(o), ~About(Pipe[1], o) \/ ~Heeded(Pipe[1]),
           \A l, v : Has(shown'[o], queued'[o], l, v) <=> Has(shown[o], queued[o], l, v)
    PROVE  HasTruth(o) /\ StaysNear(o)
<1> DEFINE m == Pipe[1]
<1>0. Covered(interests) \subseteq channels /\ Covered(interests) \subseteq Location /\ Plain
  BY CoveredType DEF Attends, InterestsHeard, TypeOK, Interests
<1>1. m \in Datagrams /\ Addressed(m) /\ Removed(Pipe, Pipe', 1)
  BY <1>0, HeadIs
<1>2. ASSUME NEW l \in Covered(interests), NEW v \in Value, Has(shown'[o], queued'[o], l, v)
      PROVE  ~Coming(l) /\ Truth(Pipe', Sure', 0, o, l, v, place'[o], value'[o])
  <2>1. Has(shown[o], queued[o], l, v)
    BY <1>2
  <2>2. Told(0, o, l, v) /\ ~Coming(l) /\ (About(m, o) /\ ~IsEntry(m, o) => m.to \subseteq {l})
    BY <2>1, HeadFits
  <2>3. ~(l \in m.to /\ About(m, o))
    BY <1>0 DEF Heeded
  <2>4. ~Leaves(m, o, l)
    BY <2>3, Kinds
  <2>5. ~IsUpdate(m, o)
    <3>1. ASSUME IsUpdate(m, o) PROVE FALSE
      <4>1. \E x \in Location : m.to = {x}
        BY <1>1, <3>1 DEF Addressed, IsUpdate
      <4>2. m.to \subseteq {l} /\ About(m, o)
        BY <2>2, <3>1, Kinds
      <4> QED
        BY <2>3, <4>1, <4>2
    <3> QED
      BY <3>1
  <2>6. After(m, o, v) = v
    BY <2>5 DEF After
  <2> QED
    BY <2>2, <2>4, <2>6, ToldAfter
<1>3. ASSUME NEW x \in Covered(interests), NearIn(Pipe, shown[o], queued[o], x, o)
      PROVE  NearIn(Pipe', shown'[o], queued'[o], x, o)
  <2>1. ~(IsEntry(m, o) /\ m.at = x)
    <3>1. ASSUME IsEntry(m, o), m.at = x PROVE FALSE
      <4>1. m.to \in {{Self}, {x}} /\ About(m, o)
        BY <1>1, <3>1, Kinds DEF Addressed, IsEntry
      <4> QED
        BY <1>0, <4>1 DEF Heeded
    <3> QED
      BY <3>1
  <2>2. NearIn(Pipe', shown[o], queued[o], x, o)
    BY <1>1, <1>3, <2>1, NearRemoved
  <2> QED
    BY <2>2 DEF NearIn
<1> QED
  BY <1>2, <1>3 DEF HasTruth, StaysNear

\* What the client has of o stays followed if the datagram is not about it, ...
LEMMA PassesIs ==
    ASSUME TypeOK, Receive, NEW o, Attends(o), Passes(o)
    PROVE  ShapeKept(o) /\ HasTruth(o) /\ StaysNear(o)
<1>1. ~(IsEntry(Pipe[1], o) /\ Heeded(Pipe[1]))
  BY Kinds DEF Passes
<1>2. ShapeKept(o)
  BY <1>1, NoReturn DEF Passes, ShapeKept, Attends, QueueShape, ShapeIn
<1> QED
  BY <1>2, SameHas DEF Passes

\* ... and if it is replayed.
LEMMA ReplaysIs ==
    ASSUME TypeOK, Receive, NEW o \in Object, Attends(o), Replays(o)
    PROVE  ShapeKept(o) /\ HasTruth(o) /\ StaysNear(o)
<1>1. ~(IsEntry(Pipe[1], o) /\ Heeded(Pipe[1]))
  BY Kinds DEF Replays
<1>2. PICK ints \in Interests : /\ Covered(ints) = Covered(interests)
                                /\ Now(shown'[o], queued'[o]) = Replayed(ints, Now(shown[o], queued[o]))
  BY DEF Replays
<1>3. \A k \in 1..Len(queued[o]) : queued[o][k].type = "CHANGE_ZONE" => queued[o][k].new \notin Covered(interests)
  BY <1>1, NoReturn
<1>4. queued[o] \in Seq(News) /\ queued[o] # <<>> /\ shown[o] \in Copy \union {Unseen}
  BY DEF TypeOK, Replays
<1>5. ShapeIn(shown[o], queued[o], Covered(interests), Pipe, o)
  BY ShapeIs DEF Attends
<1>6. Replayable(Covered(ints), shown[o], queued[o], o)
  BY <1>2, <1>3, <1>4, <1>5 DEF Replayable, ShapeIn
<1> DEFINE new == Now(shown'[o], queued'[o])
<1>7. new.copy = shown'[o] /\ new.pending = queued'[o]
  BY DEF Now
<1>8. new = Replayed(ints, Now(shown[o], queued[o]))
  BY <1>2
<1> HIDE DEF new
<1>9. /\ new.pending = queued[o] \/ new.pending = <<>>
      /\ new.pending = queued[o] => new.copy = shown[o]
      /\ \A l, v : Has(new.copy, new.pending, l, v) <=> Has(shown[o], queued[o], l, v)
  BY <1>6, <1>8, ReplayedHas
<1>10. CASE queued'[o] = queued[o]
  <2>1. shown'[o] = shown[o]
    BY <1>7, <1>9, <1>10
  <2> QED
    BY <1>10, <2>1, PassesIs DEF Passes, Replays
<1>11. CASE queued'[o] = <<>>
  <2>1. \A l, v : Has(shown'[o], queued'[o], l, v) <=> Has(shown[o], queued[o], l, v)
    BY <1>7, <1>9
  <2>2. shown'[o] # Unseen => shown'[o].at \in Covered(interests)
    BY DEF Replays
  <2>3. \A k \in 1..Len(<<>>) : FALSE
    OBVIOUS
  <2>4. ShapeKept(o)
    BY <1>11, <2>2, <2>3 DEF ShapeKept, ShapeIn
  <2> QED
    BY <2>1, <2>4, SameHas DEF Replays
<1> QED
  BY <1>7, <1>9, <1>10, <1>11

\* What the client has of an object is its copy and what is pending.
LEMMA NowIs ==
    ASSUME NEW c, NEW p, NEW d, NEW q, Now(c, p) = Now(d, q)
    PROVE  c = d /\ p = q
<1>1. Now(c, p).copy = c /\ Now(c, p).pending = p /\ Now(d, q).copy = d /\ Now(d, q).pending = q
  BY DEF Now
<1> QED
  BY <1>1

\* The fields of a copy.
LEMMA CopyIs ==
    ASSUME NEW c \in Copy
    PROVE  /\ c # Unseen /\ c.at \in Location /\ c.val \in Value
           /\ \A l, v : c = [at |-> l, val |-> v] <=> l = c.at /\ v = c.val
<1>1. c = [at |-> c.at, val |-> c.val] /\ c.at \in Location /\ c.val \in Value
  BY DEF Copy
<1> QED
  BY <1>1, Bounds

\* An entry that comes through is true.
LEMMA EntryTrue ==
    ASSUME TypeOK, Receive, NEW o \in Object \ strayed, Attends(o), IsEntry(Pipe[1], o), Heeded(Pipe[1]),
           Pipe[1].at \in Covered(interests)
    PROVE  /\ ~Coming(Pipe[1].at)
           /\ Truth(Pipe', Sure', 0, o, Pipe[1].at, Pipe[1].val, place'[o], value'[o])
<1> DEFINE m == Pipe[1]
           l == m.at
<1>1. /\ m \in Datagrams /\ Addressed(m) /\ 1 \in 1..Len(inbox) /\ 1 \in 1..Len(Pipe) /\ m = inbox[1]
      /\ Plain /\ Clean /\ place' = place /\ value' = value
  BY HeadIs, PipeIs DEF Attends
<1>2. l \in channels /\ l \in Location
  BY DEF Attends, InterestsHeard, TypeOK
<1>3. Touched(l)
  <2>1. m.to \in {{Self}, {l}}
    BY <1>1 DEF Addressed, IsEntry
  <2>2. CASE m.to = {l}
    <3>1. l \in inbox[1].to
      BY <1>1, <2>2
    <3> QED
      BY <1>1, <3>1 DEF Touched
  <2>3. CASE m.to = {Self}
    <3>1. m.type = "ENTERZONE" /\ Self \in m.to /\ m.at = l /\ m.obj \notin strayed
      BY <2>3 DEF IsEntry
    <3> QED
      BY <1>1, <3>1 DEF Touched
  <2> QED
    BY <2>1, <2>2, <2>3
<1>4. ~Coming(l) /\ l \in Routed
  BY <1>1, <1>2, <1>3 DEF Clean
<1>5. Told(1, o, l, m.val)
  BY <1>1, <1>4 DEF Attends, EntriesGood
<1>6. Truth(Pipe', Sure', 1 - 1, o, l, m.val, place[o], value[o])
  BY <1>1, <1>5, Consumed DEF Told
<1>7. 1 - 1 = 0
  OBVIOUS
<1> QED
  BY <1>1, <1>4, <1>6, <1>7

\* After an entry the client has what it says, or will have it.
LEMMA LearnsEntry ==
    ASSUME TypeOK, Receive, NEW o \in Object \ strayed, Attends(o), Learns(o), IsEntry(Pipe[1], o)
    PROVE  /\ Pipe[1].at \in Covered(interests) /\ ShapeKept(o)
           /\ \A l, v : Has(shown'[o], queued'[o], l, v) <=> l = Pipe[1].at /\ v = Pipe[1].val
<1> DEFINE m == Pipe[1]
           c == shown[o]
           q == queued[o]
           x == m.at
<1>1. /\ m.type = "ENTERZONE" /\ m.obj = o /\ About(m, o) /\ m \in Datagrams /\ x \in Location /\ m.val \in Value
      /\ m \in News
  <2>1. m \in Datagrams
    BY HeadIs DEF Attends
  <2>2. m.type = "ENTERZONE" /\ m.obj = o /\ About(m, o)
    BY Kinds DEF IsEntry
  <2>3. m \in News
    BY <2>1, <2>2, DatagramKinds
  <2> HIDE DEF m
  <2>4. m.at \in Location /\ m.val \in Value
    BY <2>2, <2>3, NewsFields
  <2> QED
    BY <2>1, <2>2, <2>3, <2>4
<1>2. c \in Copy \union {Unseen} /\ q \in Seq(News)
  BY DEF TypeOK
<1>3. ShapeIn(c, q, Covered(interests), Pipe, o)
  BY ShapeIs DEF Attends
<1>4. Now(shown'[o], queued'[o]) = Received(interests, Now(c, q), m)
  BY DEF Learns
<1>5. q # <<>> => OpenAt(interests, x) # {} /\ o \notin ToMove
  BY <1>1 DEF Learns, Overtaken
<1>6. OpenAt(interests, x) # {} => x \in Covered(interests)
  BY DEF OpenAt, Covered
<1>7. <<m>>[1] = m /\ Len(<<m>>) = 1 /\ <<m>> # <<>> /\ Len(<<>>) = 0
  BY <1>1
<1> HIDE DEF m, c, q, x
<1>8. Received(interests, Now(c, q), m) =
         IF OpenAt(interests, x) # {} THEN Now(c, <<m>>)
         ELSE IF c # Unseen THEN Now(c, q) ELSE Now([at |-> x, val |-> m.val], q)
  BY <1>1, EnteredIs DEF x
<1>9. ASSUME NEW d, NEW p, shown'[o] = d, queued'[o] = p, p = <<>> \/ p = <<m>>, x \in Covered(interests),
             d # Unseen => d \in Copy /\ d.at = x /\ d.val = m.val, d = Unseen => p = <<m>>
      PROVE  /\ ShapeKept(o)
             /\ \A l, v : Has(d, p, l, v) <=> l = x /\ v = m.val
  <2>1. \A k \in 1..Len(p) : p[k] = m /\ k = 1
    <3>1. CASE p = <<>>
      <4>1. Len(p) = 0
        BY <1>7, <3>1
      <4> QED
        BY <4>1
    <3>2. CASE p = <<m>>
      <4>1. Len(p) = 1 /\ p[1] = m
        BY <1>7, <3>2
      <4> QED
        BY <4>1
    <3> QED
      BY <1>9, <3>1, <3>2
  <2>2. p # <<>> => p[1] = m
    BY <1>7, <1>9
  <2>3. ShapeKept(o)
    <3>1. ShapeIn(d, p, Covered(interests), Pipe', o)
      BY <1>1, <1>9, <2>1, <2>2 DEF ShapeIn, x
    <3> QED
      BY <1>9, <3>1 DEF ShapeKept
  <2>4. \A k \in 1..Len(p) : p[k].type \in {"ENTERZONE", "UPDATE_FIELD"}
    BY <1>1, <2>1
  <2>5. CASE d = Unseen
    BY <1>7, <1>9, <2>3, <2>4, <2>5 DEF Has, x
  <2>6. CASE d # Unseen
    <3>1. \A l, v : d = [at |-> l, val |-> v] <=> l = d.at /\ v = d.val
      BY <1>9, <2>6, CopyIs
    <3> QED
      BY <1>9, <2>3, <2>4, <2>6, <3>1 DEF Has
  <2> QED
    BY <2>3, <2>5, <2>6
<1>10. CASE c # Unseen
  <2>1. c \in Copy /\ c.at \in Covered(interests) /\ c.val \in Value
    BY <1>2, <1>3, <1>10, CopyIs DEF ShapeIn
  <2>2. \A k \in 1..Len(q) : q[k].type \in {"ENTERZONE", "UPDATE_FIELD"}
    <3>1. CASE q = <<>>
      BY <1>7, <3>1
    <3>2. CASE q # <<>>
      <4>1. \A k \in DOMAIN q : q[k].type # "CHANGE_ZONE"
        BY <1>5, <1>10, <3>2 DEF ToMove, c, q
      <4>2. \A k \in 1..Len(q) : k \in DOMAIN q /\ q[k].type \in {"ENTERZONE", "CHANGE_ZONE"}
        BY <1>2, <1>3, <1>10 DEF ShapeIn
      <4> QED
        BY <4>1, <4>2
    <3> QED
      BY <3>1, <3>2
  <2>3. Has(c, q, c.at, c.val)
    BY <1>10, <2>1, <2>2, CopyIs DEF Has
  <2>4. x = c.at /\ m.val = c.val
    <3>1. IsEntry(m, o)
      BY <1>1 DEF IsEntry
    <3>2. Has(shown[o], queued[o], c.at, c.val)
      BY <2>3 DEF c, q
    <3> QED
      BY <2>1, <3>1, <3>2, HeadFits DEF m, x
  <2>5. CASE OpenAt(interests, x) # {}
    <3>1. shown'[o] = c /\ queued'[o] = <<m>>
      BY <1>4, <1>8, <2>5, NowIs
    <3> QED
      BY <1>9, <1>10, <2>1, <2>4, <3>1 DEF x, m
  <2>6. CASE OpenAt(interests, x) = {}
    <3>1. shown'[o] = c /\ queued'[o] = <<>>
      BY <1>4, <1>5, <1>8, <1>10, <2>6, NowIs
    <3> QED
      BY <1>9, <1>10, <2>1, <2>4, <3>1 DEF x, m
  <2> QED
    BY <2>5, <2>6
<1>11. CASE c = Unseen /\ OpenAt(interests, x) # {}
  <2>1. shown'[o] = c /\ queued'[o] = <<m>>
    BY <1>4, <1>8, <1>11, NowIs
  <2> QED
    BY <1>6, <1>9, <1>11, <2>1 DEF x, m
<1>12. CASE c = Unseen /\ OpenAt(interests, x) = {}
  <2> DEFINE d == [at |-> x, val |-> m.val]
  <2>1. shown'[o] = d /\ queued'[o] = <<>>
    BY <1>4, <1>5, <1>8, <1>12, NowIs
  <2>2. d \in Copy /\ d.at = x /\ d.val = m.val
    BY <1>1 DEF Copy, x
  <2> HIDE DEF d
  <2>3. d # Unseen
    BY <2>2, CopyIs
  <2>4. x \in Covered(interests)
    BY <2>1, <2>2, <2>3 DEF Learns
  <2> QED
    BY <1>9, <2>1, <2>2, <2>3, <2>4 DEF x, m
<1> QED
  BY <1>10, <1>11, <1>12

\* ... and if it is entered, ...
LEMMA EntryIs ==
    ASSUME TypeOK, Receive, NEW o \in Object \ strayed, Attends(o), Learns(o), IsEntry(Pipe[1], o)
    PROVE  ShapeKept(o) /\ HasTruth(o) /\ StaysNear(o)
<1> DEFINE m == Pipe[1]
<1>1. /\ m.at \in Covered(interests) /\ ShapeKept(o)
      /\ \A l, v : Has(shown'[o], queued'[o], l, v) <=> l = m.at /\ v = m.val
  BY LearnsEntry
<1>2. ~Coming(m.at) /\ Truth(Pipe', Sure', 0, o, m.at, m.val, place'[o], value'[o])
  BY <1>1, EntryTrue DEF Learns
<1>3. HasTruth(o)
  BY <1>1, <1>2 DEF HasTruth
<1>4. Removed(Pipe, Pipe', 1) /\ m.val \in Value /\ 1 \in 1..Len(Pipe) /\ Len(Pipe) \in Nat
  BY HeadIs, PipeEntries DEF Attends
<1>5. ASSUME NEW x \in Covered(interests), NearIn(Pipe, shown[o], queued[o], x, o)
      PROVE  NearIn(Pipe', shown'[o], queued'[o], x, o)
  <2>1. CASE m.at # x
    <3>1. ~\E v \in Value : Has(shown[o], queued[o], x, v)
      BY <2>1, HeadFits
    <3>2. PICK i \in 1..Len(Pipe) : /\ IsEntry(Pipe[i], o) /\ Pipe[i].at = x
                                    /\ \A j \in i + 1 .. Len(Pipe) : ~Leaves(Pipe[j], o, x)
      BY <1>5, <3>1 DEF NearIn
    <3>3. i - 1 \in 1..Len(Pipe') /\ Pipe'[i - 1] = Pipe[i]
          /\ \A j \in (i - 1) + 1 .. Len(Pipe') : j + 1 \in i + 1 .. Len(Pipe) /\ Pipe'[j] = Pipe[j + 1]
      <4>1. i # 1
        BY <2>1, <3>2
      <4> QED
        BY <1>4, <4>1 DEF Removed
    <3> QED
      BY <3>2, <3>3 DEF NearIn
  <2>2. CASE m.at = x
    <3>1. Has(shown'[o], queued'[o], x, m.val)
      BY <1>1, <2>2
    <3>2. CASE \A i \in 1..Len(Pipe') : ~Leaves(Pipe'[i], o, x)
      BY <1>4, <3>1, <3>2 DEF NearIn
    <3>3. CASE \E i \in 1..Len(Pipe') : Leaves(Pipe'[i], o, x)
      <4>1. PICK e \in 1..Len(Pipe') : Leaves(Pipe'[e], o, x)
        BY <3>3
      <4>2. e + 1 \in 1..Len(Pipe) /\ Pipe'[e] = Pipe[e + 1] /\ e + 1 \in 1 + 1 .. Len(Pipe)
        BY <1>4 DEF Removed
      <4>3. PICK i \in 1..Len(Pipe) : /\ IsEntry(Pipe[i], o) /\ Pipe[i].at = x
                                      /\ \A j \in i + 1 .. Len(Pipe) : ~Leaves(Pipe[j], o, x)
        BY <1>5, <4>1, <4>2 DEF NearIn
      <4>4. i # 1
        BY <4>1, <4>2, <4>3
      <4>5. i - 1 \in 1..Len(Pipe') /\ Pipe'[i - 1] = Pipe[i]
            /\ \A j \in (i - 1) + 1 .. Len(Pipe') : j + 1 \in i + 1 .. Len(Pipe) /\ Pipe'[j] = Pipe[j + 1]
        BY <1>4, <4>4 DEF Removed
      <4> QED
        BY <4>3, <4>5 DEF NearIn
    <3> QED
      BY <3>2, <3>3
  <2> QED
    BY <2>1, <2>2
<1> QED
  BY <1>1, <1>3, <1>5 DEF StaysNear

\* A datagram that is queued behind the rest.
LEMMA AppendIs ==
    ASSUME NEW q \in Seq(News), NEW m \in News
    PROVE  /\ Len(Append(q, m)) = Len(q) + 1 /\ Append(q, m) # <<>>
           /\ \A k \in 1..Len(q) : Append(q, m)[k] = q[k]
           /\ Append(q, m)[Len(q) + 1] = m
           /\ q # <<>> => Append(q, m)[1] = q[1]
           /\ \A k \in 1..Len(Append(q, m)) : k \in 1..Len(q) \/ k = Len(q) + 1
           /\ Len(q) \in Nat
<1>1. Len(q) \in Nat
  BY LenProperties
<1>2. /\ Len(Append(q, m)) = Len(q) + 1 /\ Append(q, m) # <<>>
      /\ \A k \in 1..Len(q) : Append(q, m)[k] = q[k]
      /\ Append(q, m)[Len(q) + 1] = m
  BY AppendProperties
<1>3. q # <<>> => 1 \in 1..Len(q)
  <2>1. q # <<>> => Len(q) # 0
    BY EmptySeq
  <2> QED
    BY <1>1, <2>1
<1> QED
  BY <1>1, <1>2, <1>3

\* What is pending after another datagram has been put to it.
LEMMA ShapeAppended ==
    ASSUME NEW c, NEW q \in Seq(News), q # <<>>, NEW C, NEW s, NEW o, NEW r, ShapeIn(c, q, C, r, o), NEW m \in News,
           About(m, o), m.type # "ENTERZONE", c # Unseen => m.type = "CHANGE_ZONE",
           \A k \in 1..Len(q) : q[k].type = "CHANGE_ZONE" => q[k].new \notin C,
           m.type = "CHANGE_ZONE" /\ m.new \in C => s # <<>> /\ EntryOf(s[1], o, m.new) /\ ~Coming(m.new)
    PROVE  ShapeIn(c, Append(q, m), C, s, o)
<1> DEFINE p == Append(q, m)
<1>1. /\ Len(p) = Len(q) + 1 /\ p # <<>> /\ p[Len(q) + 1] = m /\ p[1] = q[1] /\ Len(q) \in Nat
      /\ \A k \in 1..Len(q) : p[k] = q[k]
      /\ \A k \in 1..Len(p) : k \in 1..Len(q) \/ k = Len(q) + 1
  BY AppendIs
<1>2. Len(q) # 0
  BY EmptySeq
<1> HIDE DEF p
<1>3. ASSUME NEW k \in 1..Len(p)
      PROVE  /\ About(p[k], o)
             /\ p[k].type = "ENTERZONE" <=> k = 1
             /\ c # Unseen => p[k].type \in {"ENTERZONE", "CHANGE_ZONE"}
             /\ p[k].type = "CHANGE_ZONE" /\ p[k].new \in C =>
                   k = Len(p) /\ s # <<>> /\ EntryOf(s[1], o, p[k].new) /\ ~Coming(p[k].new)
  <2>1. CASE k \in 1..Len(q)
    BY <1>1, <2>1 DEF ShapeIn
  <2>2. CASE k = Len(q) + 1
    <3>1. k # 1 /\ p[k] = m /\ k = Len(p)
      BY <1>1, <1>2, <2>2
    <3> QED
      BY <3>1
  <2> QED
    BY <1>1, <2>1, <2>2
<1>4. ShapeIn(c, p, C, s, o)
  BY <1>1, <1>3 DEF ShapeIn
<1> QED
  BY <1>4 DEF p

\* What is pending stays as it is when nothing in it is to happen where the client looks.
LEMMA ShapeSame ==
    ASSUME NEW c, NEW d, NEW q, NEW C, NEW s, NEW r, NEW o, ShapeIn(c, q, C, r, o),
           d # Unseen => c # Unseen /\ d.at = c.at,
           \A k \in 1..Len(q) : q[k].type = "CHANGE_ZONE" => q[k].new \notin C
    PROVE  ShapeIn(d, q, C, s, o)
BY DEF ShapeIn

\* Nothing pending has the right shape.
LEMMA ShapeEmpty ==
    ASSUME NEW c, NEW C, NEW s, NEW o, c # Unseen => c.at \in C
    PROVE  ShapeIn(c, <<>>, C, s, o)
<1>1. \A k \in 1..Len(<<>>) : FALSE
  OBVIOUS
<1> QED
  BY <1>1 DEF ShapeIn

\* A datagram that takes nothing and shows nothing new leaves what is coming.
LEMMA NearLater ==
    ASSUME TypeOK, Receive, NEW o, Attends(o), ~IsEntry(Pipe[1], o), Heeded(Pipe[1]), About(Pipe[1], o),
           Pipe[1].type \notin {"CHANGE_ZONE", "DELETE_RAM"} =>
              \A l \in Covered(interests) : \A v \in Value : Has(shown[o], queued[o], l, v) =>
                 \E w \in Value : Has(shown'[o], queued'[o], l, w)
    PROVE  StaysNear(o)
<1> DEFINE m == Pipe[1]
<1>1. /\ m \in Datagrams /\ Addressed(m) /\ Removed(Pipe, Pipe', 1) /\ 1 \in 1..Len(Pipe) /\ Len(Pipe) \in Nat
  BY HeadIs DEF Attends
<1> SUFFICES ASSUME NEW x \in Covered(interests), NearIn(Pipe, shown[o], queued[o], x, o)
             PROVE  NearIn(Pipe', shown'[o], queued'[o], x, o)
  BY DEF StaysNear
<1>2. CASE \E i \in 1..Len(Pipe) : /\ IsEntry(Pipe[i], o) /\ Pipe[i].at = x
                                    /\ \A j \in i + 1 .. Len(Pipe) : ~Leaves(Pipe[j], o, x)
  <2>1. PICK i \in 1..Len(Pipe) : /\ IsEntry(Pipe[i], o) /\ Pipe[i].at = x
                                  /\ \A j \in i + 1 .. Len(Pipe) : ~Leaves(Pipe[j], o, x)
    BY <1>2
  <2>2. i # 1
    BY <2>1
  <2>3. i - 1 \in 1..Len(Pipe') /\ Pipe'[i - 1] = Pipe[i]
        /\ \A j \in (i - 1) + 1 .. Len(Pipe') : j + 1 \in i + 1 .. Len(Pipe) /\ Pipe'[j] = Pipe[j + 1]
    BY <1>1, <2>2 DEF Removed
  <2> QED
    BY <2>1, <2>3 DEF NearIn
<1>3. CASE /\ \E v \in Value : Has(shown[o], queued[o], x, v)
           /\ \A i \in 1..Len(Pipe) : ~Leaves(Pipe[i], o, x)
  <2>1. PICK v \in Value : Has(shown[o], queued[o], x, v)
    BY <1>3
  <2>2. m.to \subseteq {x}
    BY <2>1, HeadFits
  <2>3. m.to = {x}
    BY <2>2 DEF Heeded
  <2>4. ~Leaves(m, o, x)
    BY <1>1, <1>3
  <2>5. m.type \notin {"CHANGE_ZONE", "DELETE_RAM"}
    BY <2>3, <2>4 DEF Leaves, About
  <2>6. \E w \in Value : Has(shown'[o], queued'[o], x, w)
    BY <2>1, <2>5
  <2>7. \A i \in 1..Len(Pipe') : ~Leaves(Pipe'[i], o, x)
    BY <1>1, <1>3, RemovedFrom
  <2> QED
    BY <2>6, <2>7 DEF NearIn
<1> QED
  BY <1>2, <1>3 DEF NearIn

\* ... and if it is updated, ...
LEMMA UpdateIs ==
    ASSUME TypeOK, Receive, NEW o \in Object \ strayed, Attends(o), Learns(o), IsUpdate(Pipe[1], o)
    PROVE  ShapeKept(o) /\ HasTruth(o) /\ StaysNear(o)
<1> DEFINE m == Pipe[1]
           c == shown[o]
           q == queued[o]
           C == Covered(interests)
<1>1. /\ m \in News /\ m.type = "UPDATE_FIELD" /\ About(m, o) /\ ~IsEntry(m, o) /\ Heeded(m) /\ m.val \in Value
      /\ \A l : ~Leaves(m, o, l)
  <2>1. m \in Datagrams
    BY HeadIs DEF Attends
  <2>2. m.type = "UPDATE_FIELD" /\ About(m, o) /\ ~IsEntry(m, o) /\ Heeded(m) /\ \A l : ~Leaves(m, o, l)
    BY Kinds DEF IsUpdate, Learns
  <2>3. m \in News
    BY <2>1, <2>2, DatagramKinds
  <2> HIDE DEF m
  <2> QED
    BY <2>2, <2>3, NewsFields
<1>2. c \in Copy \union {Unseen} /\ q \in Seq(News)
  BY DEF TypeOK
<1>3. ShapeIn(c, q, C, Pipe, o) /\ \A k \in 1..Len(q) : q[k].type = "CHANGE_ZONE" => q[k].new \notin C
  <2>1. ~(IsEntry(Pipe[1], o) /\ Heeded(Pipe[1]))
    BY <1>1
  <2> QED
    BY <2>1, ShapeIs, NoReturn DEF Attends
<1>4. Now(shown'[o], queued'[o]) = Received(interests, Now(c, q), m)
  BY DEF Learns
<1> DEFINE Result == /\ ShapeIn(shown'[o], queued'[o], C, Pipe', o)
                     /\ \A l, v : Has(shown'[o], queued'[o], l, v) => v = m.val /\ \E u \in Value : Has(c, q, l, u)
                     /\ \A l, u : Has(c, q, l, u) => Has(shown'[o], queued'[o], l, m.val)
<1>5. ASSUME c = Unseen /\ q = <<>> PROVE Result
  <2>1. Now(shown'[o], queued'[o]) = Now(c, q)
    <3> HIDE DEF m, c, q
    <3> QED
      BY <1>1, <1>4, <1>5, StaysUnseen
  <2>2. shown'[o] = c /\ queued'[o] = q
    <3> HIDE DEF c, q
    <3> QED
      BY <2>1, NowIs
  <2>3. \A l, v : ~Has(c, q, l, v)
    BY <1>5 DEF Has
  <2>4. ShapeIn(c, q, C, Pipe', o)
    BY <1>3, ShapeSame
  <2> HIDE DEF C, c, q, m
  <2> QED
    BY <2>2, <2>3, <2>4
<1>6. ASSUME c = Unseen /\ q # <<>> PROVE Result
  <2> DEFINE p == Append(q, m)
  <2>1. shown'[o] = c /\ queued'[o] = p
    <3> HIDE DEF m, c, q
    <3>1. Received(interests, Now(c, q), m) = Now(c, p)
      BY <1>1, <1>6, StaysQueued
    <3> HIDE DEF p
    <3> QED
      BY <1>4, <3>1, NowIs
  <2>2. ShapeIn(c, p, C, Pipe', o)
    <3> HIDE DEF c, q, m, C
    <3> QED
      BY <1>1, <1>2, <1>3, <1>6, ShapeAppended
  <2>3. /\ Len(p) = Len(q) + 1 /\ p # <<>> /\ p[Len(q) + 1] = m /\ p[1] = q[1] /\ Len(q) \in Nat
        /\ \A k \in 1..Len(q) : p[k] = q[k]
        /\ \A k \in 1..Len(p) : k \in 1..Len(q) \/ k = Len(q) + 1
    <3> HIDE DEF c, q, m, C
    <3> QED
      BY <1>1, <1>2, <1>6, AppendIs
  <2>4. Len(q) # 0 /\ Len(q) \in 1..Len(q) /\ q[Len(q)] \in News
    <3>1. Len(q) # 0
      BY <1>2, <1>6, EmptySeq
    <3>2. Len(q) \in 1..Len(q)
      BY <2>3, <3>1
    <3> QED
      BY <1>2, <3>1, <3>2
  <2> HIDE DEF p, c, q, m, C
  <2>5. (\A k \in 1..Len(p) : p[k].type \in {"ENTERZONE", "UPDATE_FIELD"}) <=>
           \A k \in 1..Len(q) : q[k].type \in {"ENTERZONE", "UPDATE_FIELD"}
    <3>1. \A k \in 1..Len(q) : k \in 1..Len(p)
      BY <2>3
    <3> QED
      BY <1>1, <2>3, <3>1
  <2>6. \A l, v : Has(c, p, l, v) <=> /\ \A k \in 1..Len(q) : q[k].type \in {"ENTERZONE", "UPDATE_FIELD"}
                                      /\ q[1].at = l /\ m.val = v
    BY <1>6, <2>3, <2>5 DEF Has
  <2>7. \A l, v : Has(c, q, l, v) <=> /\ \A k \in 1..Len(q) : q[k].type \in {"ENTERZONE", "UPDATE_FIELD"}
                                      /\ q[1].at = l /\ q[Len(q)].val = v
    BY <1>6 DEF Has
  <2>8. (\A k \in 1..Len(q) : q[k].type \in {"ENTERZONE", "UPDATE_FIELD"}) => q[Len(q)].val \in Value
    BY <2>4, NewsFields
  <2> QED
    BY <2>1, <2>2, <2>6, <2>7, <2>8
<1>7. ASSUME c # Unseen PROVE Result
  <2> DEFINE d == [at |-> c.at, val |-> m.val]
  <2>0. c \in Copy /\ c.at \in Location /\ c.val \in Value
    <3> HIDE DEF c
    <3> QED
      BY <1>2, <1>7, CopyIs
  <2>1. shown'[o] = d /\ queued'[o] = q
    <3> HIDE DEF m, c, q
    <3>1. Received(interests, Now(c, q), m) = Now(d, q)
      BY <1>1, <1>7, <2>0, UpdatedIs
    <3> HIDE DEF d
    <3> QED
      BY <1>4, <3>1, NowIs
  <2>2. d \in Copy /\ d.at = c.at /\ d.val = m.val
    BY <1>1, <2>0 DEF Copy
  <2> HIDE DEF d, c, q, m, C
  <2>3. d # Unseen /\ (\A l, v : d = [at |-> l, val |-> v] <=> l = c.at /\ v = m.val)
    BY <2>2, CopyIs
  <2>4. \A l, v : c = [at |-> l, val |-> v] <=> l = c.at /\ v = c.val
    BY <2>0, CopyIs
  <2>5. ShapeIn(d, q, C, Pipe', o)
    BY <1>3, <1>7, <2>2, ShapeSame
  <2>6. \A l, v : Has(d, q, l, v) <=> /\ \A k \in 1..Len(q) : q[k].type \in {"ENTERZONE", "UPDATE_FIELD"}
                                      /\ l = c.at /\ v = m.val
    BY <2>3 DEF Has
  <2>7. \A l, v : Has(c, q, l, v) <=> /\ \A k \in 1..Len(q) : q[k].type \in {"ENTERZONE", "UPDATE_FIELD"}
                                      /\ l = c.at /\ v = c.val
    BY <1>7, <2>4 DEF Has
  <2> QED
    BY <2>0, <2>1, <2>5, <2>6, <2>7
<1>8. Result
  <2> HIDE DEF Result
  <2> QED
    BY <1>5, <1>6, <1>7
<1>9. After(m, o, 0) = m.val /\ \A v : After(m, o, v) = m.val
  BY DEF After
<1>10. HasTruth(o)
  <2> SUFFICES ASSUME NEW l \in Covered(interests), NEW v \in Value, Has(shown'[o], queued'[o], l, v)
               PROVE  ~Coming(l) /\ Truth(Pipe', Sure', 0, o, l, v, place'[o], value'[o])
    BY DEF HasTruth
  <2>1. v = m.val
    BY <1>8
  <2>2. PICK u \in Value : Has(shown[o], queued[o], l, u)
    BY <1>8
  <2>3. Told(0, o, l, u) /\ ~Coming(l)
    BY <2>2, HeadFits
  <2>4. Truth(Pipe', Sure', 0, o, l, After(Pipe[1], o, u), place'[o], value'[o])
    BY <1>1, <2>3, ToldAfter
  <2> QED
    BY <1>9, <2>1, <2>3, <2>4
<1>11. \A l \in Covered(interests) : \A v \in Value : Has(shown[o], queued[o], l, v) =>
              \E w \in Value : Has(shown'[o], queued'[o], l, w)
  BY <1>1, <1>8
<1>12. StaysNear(o)
  BY <1>1, <1>11, NearLater
<1> QED
  BY <1>8, <1>10, <1>12 DEF ShapeKept

\* An entry follows a move to where an interest is done.
LEMMA MoveFollowed ==
    ASSUME TypeOK, Receive, NEW o \in Object \ strayed, Attends(o), IsMove(Pipe[1], o),
           DoneAt(interests, Pipe[1].new) # {}
    PROVE  /\ ~Coming(Pipe[1].new) /\ <<1, Pipe[1].new>> \in Sure
           /\ 2 <= Len(Pipe) /\ EntryOf(Pipe[2], o, Pipe[1].new)
           /\ Pipe' # <<>> /\ Pipe'[1] = Pipe[2]
           /\ Told(2, o, Pipe[1].new, Pipe[2].val)
<1> DEFINE l == Pipe[1].new
<1>1. PICK h \in Handle : l \in Locations(interests[h]) /\ interests[h].done
  BY DEF DoneAt
<1>2. Removed(Pipe, Pipe', 1) /\ 1 \in 1..Len(Pipe) /\ Len(Pipe) \in Nat
  BY HeadIs DEF Attends
<1>3. Answered(h)
  BY <1>1 DEF Answered, Locations
<1>4. l \in Routed /\ ~Coming(l) /\ l \in Location
  <2> HIDE DEF l
  <2> QED
    BY <1>1, <1>3, AnsweredRouted DEF Attends
<1>5. <<1, l>> \in Sure
  <2>1. CertainIn(interests, Pipe, l, 1)
    BY <1>1 DEF CertainIn
  <2> HIDE DEF l
  <2> QED
    BY <1>2, <1>4, <2>1, SureIs, InSure
<1>6. 1 + 1 <= Len(Pipe) /\ EntryOf(Pipe[1 + 1], o, l)
  BY <1>2, <1>5 DEF Attends, Paired
<1>7. 1 + 1 = 2
  OBVIOUS
<1>8. 2 <= Len(Pipe) /\ EntryOf(Pipe[2], o, l) /\ 2 \in 1..Len(Pipe)
  BY <1>2, <1>6, <1>7
<1>9. Pipe'[1] = Pipe[2] /\ Len(Pipe') # 0
  BY <1>2, <1>8 DEF Removed
<1>10. Pipe' # <<>>
  <2>1. Len(Pipe') # Len(<<>>)
    BY <1>9
  <2> QED
    BY <2>1
<1>11. Told(2, o, l, Pipe[2].val)
  BY <1>4, <1>8 DEF Attends, EntriesGood, EntryOf
<1> QED
  BY <1>4, <1>5, <1>8, <1>9, <1>10, <1>11

\* ... or if it is moved, ...
LEMMA MoveIs ==
    ASSUME TypeOK, Receive, NEW o \in Object \ strayed, Attends(o), Learns(o), IsMove(Pipe[1], o)
    PROVE  ShapeKept(o) /\ HasTruth(o) /\ StaysNear(o)
<1> DEFINE m == Pipe[1]
           c == shown[o]
           q == queued[o]
           C == Covered(interests)
<1>1. m \in News /\ m.type = "CHANGE_ZONE" /\ m.obj = o /\ About(m, o) /\ ~IsEntry(m, o) /\ Heeded(m)
  <2>1. m \in Datagrams
    BY HeadIs DEF Attends
  <2>2. m.type = "CHANGE_ZONE" /\ m.obj = o /\ About(m, o) /\ ~IsEntry(m, o) /\ Heeded(m)
    BY Kinds DEF IsMove, Learns
  <2> QED
    BY <2>1, <2>2, DatagramKinds
<1>2. c \in Copy \union {Unseen} /\ q \in Seq(News)
  BY DEF TypeOK
<1>3. ShapeIn(c, q, C, Pipe, o) /\ \A k \in 1..Len(q) : q[k].type = "CHANGE_ZONE" => q[k].new \notin C
  <2>1. ~(IsEntry(Pipe[1], o) /\ Heeded(Pipe[1]))
    BY <1>1
  <2> QED
    BY <2>1, ShapeIs, NoReturn DEF Attends
<1>4. Now(shown'[o], queued'[o]) = Received(interests, Now(c, q), m)
  BY DEF Learns
<1>5. StaysNear(o)
  BY <1>1, NearLater
<1>6. (c # Unseen \/ q # <<>>) /\ m.new \in C => DoneAt(interests, m.new) # {}
  BY <1>1 DEF Learns, Unheard
<1>7. CASE q # <<>>
  <2> DEFINE p == Append(q, m)
  <2>1. shown'[o] = c /\ queued'[o] = p
    <3> HIDE DEF m, c, q
    <3>1. Received(interests, Now(c, q), m) = Now(c, p)
      BY <1>1, <1>7, StaysQueued
    <3> HIDE DEF p
    <3> QED
      BY <1>4, <3>1, NowIs
  <2>2. m.type = "CHANGE_ZONE" /\ m.new \in C => Pipe' # <<>> /\ EntryOf(Pipe'[1], o, m.new) /\ ~Coming(m.new)
    BY <1>6, <1>7, MoveFollowed
  <2>3. ShapeIn(c, p, C, Pipe', o)
    <3> HIDE DEF c, q, m, C
    <3> QED
      BY <1>1, <1>2, <1>3, <1>7, <2>2, ShapeAppended
  <2>4. \A l, v : ~Has(c, p, l, v)
    <3> HIDE DEF c, q, m, C
    <3>1. p[Len(q) + 1] = m /\ Len(p) = Len(q) + 1 /\ Len(q) \in Nat
      BY <1>1, <1>2, AppendIs
    <3>2. Len(q) + 1 \in 1..Len(p)
      BY <3>1
    <3> QED
      BY <1>1, <3>1, <3>2 DEF Has
  <2> QED
    BY <1>5, <2>1, <2>3, <2>4 DEF ShapeKept, HasTruth
<1>8. CASE q = <<>> /\ (c = Unseen \/ m.new \notin C)
  <2>1. Received(interests, Now(c, q), m) = Now(Unseen, <<>>)
    <3> HIDE DEF m, c, q
    <3> QED
      BY <1>1, <1>8, StaysUnseen DEF C
  <2>2. shown'[o] = Unseen /\ queued'[o] = <<>>
    BY <1>4, <2>1, NowIs
  <2>3. \A l, v : ~Has(Unseen, <<>>, l, v)
    BY DEF Has
  <2>4. ShapeIn(Unseen, <<>>, C, Pipe', o)
    BY ShapeEmpty
  <2> QED
    BY <1>5, <2>2, <2>3, <2>4 DEF ShapeKept, HasTruth
<1>9. CASE q = <<>> /\ c # Unseen /\ m.new \in C
  <2> DEFINE d == [at |-> m.new, val |-> c.val]
             l == c.at
             v == c.val
  <2>1. c \in Copy /\ v \in Value /\ l \in C
    <3> HIDE DEF c
    <3> QED
      BY <1>2, <1>3, <1>9, CopyIs DEF ShapeIn
  <2>2. shown'[o] = d /\ queued'[o] = <<>>
    <3> HIDE DEF m, c, q
    <3>1. Received(interests, Now(c, q), m) = Now(d, <<>>)
      BY <1>1, <1>9, <2>1, MovedIs DEF C
    <3> HIDE DEF d
    <3> QED
      BY <1>4, <3>1, NowIs
  <2>3. Has(shown[o], queued[o], l, v)
    <3>1. \A k \in 1..Len(<<>>) : FALSE
      OBVIOUS
    <3> HIDE DEF c, q
    <3>2. c = [at |-> l, val |-> v]
      BY <2>1, CopyIs
    <3>3. Has(c, q, l, v)
      BY <1>9, <3>1, <3>2 DEF Has
    <3> QED
      BY <3>3 DEF c, q
  <2>4. /\ ~Coming(m.new) /\ <<1, m.new>> \in Sure
        /\ 2 <= Len(Pipe) /\ EntryOf(Pipe[2], o, m.new) /\ Told(2, o, m.new, Pipe[2].val)
    BY <1>6, <1>9, MoveFollowed
  <2>5. m.to \subseteq {l} /\ (l \in m.to => Pipe[2].val = v)
    <3>1. /\ About(Pipe[1], o) /\ ~IsEntry(Pipe[1], o) => Pipe[1].to \subseteq {l}
          /\ IsMove(Pipe[1], o) /\ l \in Pipe[1].to /\ <<1, Pipe[1].new>> \in Sure =>
                (2 <= Len(Pipe) /\ IsEntry(Pipe[2], o) => Pipe[2].val = v)
      BY <2>1, <2>3, HeadFits
    <3> QED
      BY <1>1, <2>4, <3>1 DEF EntryOf
  <2>6. Pipe[2].val = v
    <3>1. m.to # {}
      BY <1>1 DEF Heeded
    <3> QED
      BY <2>5, <3>1
  <2>7. Truth(Pipe', Sure', 0, o, m.new, v, place'[o], value'[o])
    <3>0. 2 \in 1..Len(Pipe) /\ 1 \in 1..Len(Pipe) /\ 1 < Len(Pipe) /\ Len(Pipe) \in Nat /\ place' = place /\ value' = value /\ 1 + 1 = 2 /\ 1 - 1 = 0
      BY <2>4, HeadIs DEF Attends
    <3>1. Truth(Pipe, Sure, 2, o, Pipe[2].at, Pipe[2].val, place[o], value[o]) /\ IsEntry(Pipe[2], o) /\ Pipe[2].at = m.new
      BY <2>4 DEF Told, EntryOf
    <3>2. Truth(Pipe, Sure, 1, o, Pipe[2].at, Pipe[2].val, place[o], value[o])
      <4>1. IsEntry(Pipe[1 + 1], o) /\ Truth(Pipe, Sure, 1 + 1, o, Pipe[1 + 1].at, Pipe[1 + 1].val, place[o], value[o])
        BY <3>0, <3>1
      <4>2. Truth(Pipe, Sure, 1, o, Pipe[1 + 1].at, Pipe[1 + 1].val, place[o], value[o])
        BY <3>0, <4>1, TruthBack
      <4> QED
        BY <3>0, <4>2
    <3>3. Truth(Pipe', Sure', 1 - 1, o, Pipe[2].at, Pipe[2].val, place[o], value[o])
      BY <3>0, <3>2, Consumed
    <3> QED
      BY <2>6, <3>0, <3>1, <3>3
  <2>8. \A k, w : Has(d, <<>>, k, w) => k = m.new /\ w = v
    <3>1. d \in Copy
      BY <1>9, <2>1, CoveredType DEF Copy, TypeOK, Interests
    <3>2. d # Unseen
      BY <3>1, Bounds
    <3> QED
      BY <3>2 DEF Has
  <2>9. ShapeIn(d, <<>>, C, Pipe', o)
    BY <1>9, ShapeEmpty
  <2>10. ASSUME NEW k \in C, NEW w \in Value, Has(shown'[o], queued'[o], k, w)
         PROVE  ~Coming(k) /\ Truth(Pipe', Sure', 0, o, k, w, place'[o], value'[o])
    <3>1. k = m.new /\ w = v
      BY <2>2, <2>8, <2>10
    <3> QED
      BY <2>4, <2>7, <3>1
  <2> QED
    BY <1>5, <2>2, <2>9, <2>10 DEF ShapeKept, HasTruth
<1> QED
  BY <1>7, <1>8, <1>9

\* ... or deleted, ...
LEMMA DeleteIs ==
    ASSUME TypeOK, Receive, NEW o \in Object \ strayed, Attends(o), Learns(o), Pipe[1].type = "DELETE_RAM"
    PROVE  ShapeKept(o) /\ HasTruth(o) /\ StaysNear(o)
<1> DEFINE m == Pipe[1]
           c == shown[o]
           q == queued[o]
           C == Covered(interests)
<1>1. m \in News /\ m.type = "DELETE_RAM" /\ m.obj = o /\ About(m, o) /\ ~IsEntry(m, o) /\ Heeded(m)
  <2>1. m \in Datagrams
    BY HeadIs DEF Attends
  <2>2. m.type = "DELETE_RAM" /\ m.obj = o /\ About(m, o) /\ ~IsEntry(m, o) /\ Heeded(m)
    BY DEF IsEntry, Learns, About
  <2> QED
    BY <2>1, <2>2, DatagramKinds
<1>2. c \in Copy \union {Unseen} /\ q \in Seq(News)
  BY DEF TypeOK
<1>3. ShapeIn(c, q, C, Pipe, o) /\ \A k \in 1..Len(q) : q[k].type = "CHANGE_ZONE" => q[k].new \notin C
  <2>1. ~(IsEntry(Pipe[1], o) /\ Heeded(Pipe[1]))
    BY <1>1
  <2> QED
    BY <2>1, ShapeIs, NoReturn DEF Attends
<1>4. Now(shown'[o], queued'[o]) = Received(interests, Now(c, q), m)
  BY DEF Learns
<1>5. StaysNear(o)
  BY <1>1, NearLater
<1>6. c # Unseen => q = <<>>
  BY <1>1 DEF Learns, Outlived
<1>7. CASE q # <<>>
  <2> DEFINE p == Append(q, m)
  <2>1. shown'[o] = c /\ queued'[o] = p
    <3> HIDE DEF m, c, q
    <3>1. Received(interests, Now(c, q), m) = Now(c, p)
      BY <1>1, <1>6, <1>7, StaysQueued
    <3> HIDE DEF p
    <3> QED
      BY <1>4, <3>1, NowIs
  <2>2. ShapeIn(c, p, C, Pipe', o)
    <3> HIDE DEF c, q, m, C
    <3> QED
      BY <1>1, <1>2, <1>3, <1>6, <1>7, ShapeAppended
  <2>3. \A l, v : ~Has(c, p, l, v)
    <3> HIDE DEF c, q, m, C
    <3>1. p[Len(q) + 1] = m /\ Len(p) = Len(q) + 1 /\ Len(q) \in Nat
      BY <1>1, <1>2, AppendIs
    <3>2. Len(q) + 1 \in 1..Len(p)
      BY <3>1
    <3> QED
      BY <1>1, <3>1, <3>2 DEF Has
  <2> QED
    BY <1>5, <2>1, <2>2, <2>3 DEF ShapeKept, HasTruth
<1>8. CASE q = <<>>
  <2>1. Received(interests, Now(c, q), m) = Now(Unseen, <<>>)
    <3> HIDE DEF m, c, q
    <3> QED
      BY <1>1, <1>8, StaysUnseen
  <2>2. shown'[o] = Unseen /\ queued'[o] = <<>>
    BY <1>4, <2>1, NowIs
  <2>3. \A l, v : ~Has(Unseen, <<>>, l, v)
    BY DEF Has
  <2>4. ShapeIn(Unseen, <<>>, C, Pipe', o)
    BY ShapeEmpty
  <2> QED
    BY <1>5, <2>2, <2>3, <2>4 DEF ShapeKept, HasTruth
<1> QED
  BY <1>7, <1>8

\* Whatever the client is told, an object stays followed, unless a race hits it.
LEMMA ReceiveFollowed ==
    ASSUME TypeOK, InterestsHeard, Subscribed, Receive, NEW o \in Object \ strayed', Followed(o)
    PROVE  Followed(o)'
<1>1. o \in Object \ strayed /\ Calm /\ Progress
  BY ProgressKeeps DEF Calm, Progress
<1>2. Paired(o) /\ EntriesGood(o) /\ QueueShape(o) /\ Seen(o) /\ Listed(o) /\ Complete(o)
  BY DEF Followed
<1>3. Attends(o)
  BY <1>1, <1>2 DEF Attends, Subscribed
<1>4. ShapeKept(o) /\ HasTruth(o) /\ StaysNear(o)
  <2>1. CASE Learns(o)
    <3>1. IsEntry(Pipe[1], o) \/ IsMove(Pipe[1], o) \/ IsUpdate(Pipe[1], o) \/ Pipe[1].type = "DELETE_RAM"
      BY <2>1 DEF Learns, About, IsEntry, IsMove, IsUpdate
    <3> QED
      BY <1>1, <1>3, <2>1, <3>1, EntryIs, MoveIs, UpdateIs, DeleteIs
  <2> QED
    BY <1>3, <2>1, PassesIs, ReplaysIs, ReceiveFor
<1>5. /\ Covered(interests') = Covered(interests) /\ (\A l : Coming(l)' <=> Coming(l))
      /\ \A h \in Handle : Locations(interests'[h]) = Locations(interests[h])
      /\ \A m : \A h \in Handle : /\ AnswersFor(interests', m, h) <=> AnswersFor(interests, m, h)
                                  /\ Asks(interests', m, h) <=> Asks(interests, m, h)
      /\ place' = place /\ value' = value /\ Serving' = Serving
  BY ReceiveInterests, ReceivePipe
<1>6. QueueShape(o)'
  BY <1>4, <1>5 DEF ShapeKept, ShapeIn, QueueShape
<1>7. Seen(o)'
  BY <1>4, <1>5 DEF HasTruth, Seen, Told
<1>8. Paired(o)' /\ EntriesGood(o)' /\ Listed(o)'
  BY <1>1, <1>2, ReceivePairs, ProgressListed
<1>9. NearKept(o)
  <2> SUFFICES ASSUME NEW h \in Handle, place'[o] \in Locations(interests'[h]),
                      Answered(h)' \/ AskedBefore(Serving', interests', h, o)
               PROVE  NearIn(Pipe', shown'[o], queued'[o], place'[o], o)
    BY DEF NearKept
  <2>1. place[o] \in Locations(interests[h]) /\ place[o] \in Covered(interests)
    BY <1>5, Covers
  <2>2. Answered(h)' => Answered(h)
    <3> SUFFICES ASSUME Answered(h)' PROVE Answered(h)
      OBVIOUS
    <3>1. /\ interests'[h] # None
          /\ interests'[h].done \/ \E i \in 1..Len(Pipe') : AnswersFor(interests', Pipe'[i], h)
      BY DEF Answered
    <3>2. /\ Removed(Pipe, Pipe', 1) /\ 1 \in 1..Len(Pipe) /\ Len(Pipe) \in Nat
      BY <1>3, HeadIs DEF Attends
    <3>3. CASE interests'[h].done
      BY <3>1, <3>2, <3>3, ReceiveDone DEF Answered
    <3>4. CASE \E i \in 1..Len(Pipe') : AnswersFor(interests', Pipe'[i], h)
      <4>1. PICK i \in 1..Len(Pipe') : AnswersFor(interests', Pipe'[i], h)
        BY <3>4
      <4>2. PICK j \in 1..Len(Pipe) : Pipe'[i] = Pipe[j]
        BY <3>2, RemovedFrom
      <4>3. AnswersFor(interests, Pipe[j], h)
        BY <1>5, <4>1, <4>2
      <4> QED
        BY <4>3 DEF Answered, AnswersFor
    <3> QED
      BY <3>1, <3>3, <3>4
  <2>3. AskedBefore(Serving', interests', h, o) => AskedBefore(Serving, interests, h, o)
    BY <1>5 DEF AskedBefore
  <2>4. Near(o)
    BY <1>2, <2>1, <2>2, <2>3, CompleteIs
  <2>5. NearIn(Pipe, shown[o], queued[o], place[o], o)
    BY <2>4, NearIs
  <2> QED
    BY <1>4, <1>5, <2>1, <2>5 DEF StaysNear
<1> QED
  BY <1>6, <1>7, <1>8, <1>9, NearKeptIs DEF Followed

-----------------------------------------------------------------------------
(* The changes of the interests *)

\* Nothing moves on its way, no more is certain, and no subscription to a
\* location that was covered sets out.
Unmoved == /\ UNCHANGED <<Pipe, Serving, place, value, index>> /\ Len(inbox') = Len(inbox) /\ Routed' = Routed
           /\ Sure' \subseteq Sure
           /\ \A l \in Covered(interests) : Coming(l)' => Coming(l)
\* o is no longer shown where no interest is, and where it is shown one is.
Trimmed(o) == /\ \/ shown'[o] = shown[o]
                 \/ shown'[o] = Unseen /\ shown[o] # Unseen /\ shown[o].at \notin Covered(interests')
              /\ shown'[o] # Unseen => shown'[o].at \in Covered(interests')
\* What is pending of o does not concern a location that is new, or it is dropped.
Filtered(o) == \/ /\ queued'[o] = queued[o]
                  /\ \A k \in 1..Len(queued[o]) : Where(queued[o][k]) \notin Covered(interests') \ Covered(interests)
               \/ queued'[o] = <<>> /\ o \notin ToMove
\* No interest is answered now that was not, and what it needs is not dropped.
Unanswered(o) == \A g \in Handle :
    place[o] \in Locations(interests'[g]) /\ (Answered(g)' \/ AskedBefore(Serving, interests', g, o)) =>
       /\ place[o] \in Locations(interests[g]) /\ (Answered(g) \/ AskedBefore(Serving, interests, g, o))
       /\ queued'[o] = queued[o] \/ queued[o] = <<>> \/ \A k \in 1..Len(queued[o]) : Where(queued[o][k]) # place[o]

\* What the client has after a change it had before, where it still looks.
LEMMA TrimmedHas ==
    ASSUME TypeOK, NEW o \in Object, QueueShape(o), Trimmed(o), Filtered(o),
           NEW l \in Covered(interests'), NEW v, Has(shown'[o], queued'[o], l, v)
    PROVE  Has(shown[o], queued[o], l, v) /\ l \in Covered(interests)
<1> DEFINE c == shown[o]
           q == queued[o]
<1>1. c \in Copy \union {Unseen} /\ q \in Seq(News) /\ Len(q) \in Nat
  BY LenProperties DEF TypeOK
<1>2. q # <<>> => 1 \in 1..Len(q)
  <2>1. q # <<>> => Len(q) # 0
    BY <1>1, EmptySeq
  <2> QED
    BY <1>1, <2>1
<1>3. /\ c # Unseen => c.at \in Covered(interests)
      /\ c # Unseen /\ q # <<>> => q[1].at = c.at
      /\ \A k \in 1..Len(q) : /\ q[k].type = "ENTERZONE" <=> k = 1
                              /\ c # Unseen => q[k].type \in {"ENTERZONE", "CHANGE_ZONE"}
  BY DEF QueueShape
<1>4. q # <<>> => Where(q[1]) = q[1].at
  BY <1>2, <1>3 DEF Where
<1> HIDE DEF q, c
<1>5. CASE shown'[o] = c /\ queued'[o] = q /\ \A k \in 1..Len(q) : Where(q[k]) \notin Covered(interests') \ Covered(interests)
  <2>1. Has(c, q, l, v)
    BY <1>5
  <2>2. CASE c # Unseen
    <3>1. c = [at |-> l, val |-> v]
      BY <2>1, <2>2 DEF Has
    <3> QED
      BY <1>3, <2>1, <2>2, <3>1 DEF c, q
  <2>3. CASE c = Unseen
    <3>1. q # <<>> /\ q[1].at = l
      BY <2>1, <2>3 DEF Has
    <3> QED
      BY <1>2, <1>4, <1>5, <2>1, <3>1 DEF c, q
  <2> QED
    BY <2>2, <2>3
<1>6. CASE shown'[o] = c /\ queued'[o] = <<>> /\ o \notin ToMove
  <2>1. c # Unseen /\ c = [at |-> l, val |-> v]
    BY <1>6 DEF Has
  <2>2. \A k \in 1..Len(q) : q[k].type \in {"ENTERZONE", "UPDATE_FIELD"}
    <3>1. \A k \in DOMAIN q : q[k].type # "CHANGE_ZONE"
      BY <1>6, <2>1 DEF ToMove, c, q
    <3>2. DOMAIN q = 1..Len(q)
      BY <1>1, LenProperties
    <3> QED
      BY <1>3, <2>1, <3>1, <3>2
  <2>3. Has(c, q, l, v)
    BY <2>1, <2>2 DEF Has
  <2>4. c.at = l
    BY <2>1
  <2> QED
    BY <1>3, <2>1, <2>3, <2>4 DEF c, q
<1>7. CASE shown'[o] = Unseen /\ c # Unseen /\ c.at \notin Covered(interests')
  <2>1. queued'[o] # <<>> /\ queued'[o][1].at = l
    BY <1>7 DEF Has
  <2>2. queued'[o] = q
    BY <2>1 DEF Filtered, q
  <2>3. l = c.at
    BY <1>3, <1>7, <2>1, <2>2
  <2> QED
    BY <1>7, <2>3
<1> QED
  BY <1>5, <1>6, <1>7 DEF Trimmed, Filtered, c, q

\* An object stays followed when the interests change in this way.
LEMMA ClientFollowed ==
    ASSUME TypeOK, NEW o \in Object, Followed(o), Unmoved, Trimmed(o), Filtered(o), Unanswered(o)
    PROVE  Followed(o)'
<1>0. /\ Paired(o) /\ EntriesGood(o) /\ QueueShape(o) /\ Seen(o) /\ Listed(o) /\ Complete(o)
      /\ Pipe' = Pipe /\ Serving' = Serving /\ place' = place /\ value' = value /\ index' = index /\ Len(inbox') = Len(inbox)
      /\ Routed' = Routed /\ Sure' \subseteq Sure
  BY DEF Followed, Unmoved
<1>1. Paired(o)'
  <2>1. PairsIn(Pipe', Sure', o)
    BY <1>0, PairedIs, PairsLess
  <2> QED
    BY <2>1 DEF Paired, PairsIn
<1>2. \A i, l, v : Told(i, o, l, v) => Truth(Pipe', Sure', i, o, l, v, place'[o], value'[o])
  BY <1>0, TruthLess DEF Told
<1>3. EntriesGood(o)'
  BY <1>0, <1>2 DEF EntriesGood, Told
<1>4. Listed(o)'
  BY <1>0 DEF Listed
<1>5. QueueShape(o)'
  <2>1. ASSUME NEW k \in 1..Len(queued'[o])
        PROVE  /\ About(queued'[o][k], o)
               /\ queued'[o][k].type = "ENTERZONE" <=> k = 1
               /\ shown'[o] # Unseen => queued'[o][k].type \in {"ENTERZONE", "CHANGE_ZONE"}
               /\ \A l \in Covered(interests') : queued'[o][k].type = "CHANGE_ZONE" /\ queued'[o][k].new = l =>
                     k = Len(queued'[o]) /\ Pipe' # <<>> /\ EntryOf(Pipe'[1], o, l) /\ ~Coming(l)'
    <3>1. CASE queued'[o] = queued[o]
      <4>1. k \in 1..Len(queued[o])
        BY <3>1
      <4>2. shown'[o] # Unseen => shown[o] # Unseen
        BY DEF Trimmed
      <4>3. queued[o][k].type = "CHANGE_ZONE" /\ queued[o][k].new \in Covered(interests') => queued[o][k].new \in Covered(interests)
        <5>1. queued[o][k].type = "CHANGE_ZONE" => Where(queued[o][k]) = queued[o][k].new
          BY DEF Where
        <5>2. queued[o] # <<>>
          <6>1. Len(<<>>) = 0
            OBVIOUS
          <6>2. Len(queued[o]) # 0
            BY <4>1
          <6> QED
            BY <6>1, <6>2
        <5>3. \A e \in 1..Len(queued[o]) : Where(queued[o][e]) \notin Covered(interests') \ Covered(interests)
          BY <3>1, <5>2 DEF Filtered
        <5> QED
          BY <4>1, <5>1, <5>3
      <4>4. \A l \in Covered(interests) : ~Coming(l) => ~Coming(l)'
        BY DEF Unmoved
      <4> QED
        BY <1>0, <3>1, <4>1, <4>2, <4>3, <4>4 DEF QueueShape
    <3>2. CASE queued'[o] = <<>>
      <4>1. Len(<<>>) = 0
        OBVIOUS
      <4>2. k \in 1..0
        BY <3>2, <4>1
      <4> QED
        BY <4>2
    <3> QED
      BY <3>1, <3>2 DEF Filtered
  <2>2. shown'[o] # Unseen => shown'[o].at \in Covered(interests')
    BY DEF Trimmed
  <2>3. shown'[o] # Unseen /\ queued'[o] # <<>> => queued'[o][1].at = shown'[o].at
    BY <1>0 DEF Trimmed, Filtered, QueueShape
  <2> QED
    BY <2>1, <2>2, <2>3 DEF QueueShape
<1>6. Seen(o)'
  <2>1. ASSUME NEW l \in Covered(interests'), NEW v \in Value, Has(shown'[o], queued'[o], l, v)
        PROVE  ~Coming(l)' /\ Truth(Pipe', Sure', 0, o, l, v, place'[o], value'[o])
    <3>1. Has(shown[o], queued[o], l, v) /\ l \in Covered(interests)
      BY <1>0, <2>1, TrimmedHas
    <3>2. ~Coming(l) /\ Told(0, o, l, v)
      BY <1>0, <3>1 DEF Seen
    <3> QED
      BY <1>2, <3>1, <3>2 DEF Unmoved
  <2> QED
    BY <2>1 DEF Seen, Told
<1>7. NearKept(o)
  <2> SUFFICES ASSUME NEW g \in Handle, place'[o] \in Locations(interests'[g]),
                      Answered(g)' \/ AskedBefore(Serving', interests', g, o)
               PROVE  NearIn(Pipe', shown'[o], queued'[o], place'[o], o)
    BY DEF NearKept
  <2>1. /\ place[o] \in Locations(interests[g]) /\ (Answered(g) \/ AskedBefore(Serving, interests, g, o))
        /\ queued'[o] = queued[o] \/ queued[o] = <<>> \/ \A k \in 1..Len(queued[o]) : Where(queued[o][k]) # place[o]
    BY <1>0 DEF Unanswered
  <2>2. NearIn(Pipe, shown[o], queued[o], place[o], o)
    BY <1>0, <2>1, CompleteIs, NearIs
  <2>3. place[o] \in Covered(interests')
    BY <1>0, Covers
  <2>4. ASSUME NEW v \in Value, Has(shown[o], queued[o], place[o], v)
        PROVE  Has(shown'[o], queued'[o], place[o], v)
    <3>1. shown[o] # Unseen => shown[o] = [at |-> place[o], val |-> v]
      BY <2>4 DEF Has
    <3>2. shown[o] # Unseen => shown[o].at = place[o]
      BY <3>1
    <3>3. shown'[o] = shown[o]
      BY <2>3, <3>2 DEF Trimmed
    <3>4. CASE queued'[o] = queued[o]
      BY <2>4, <3>3, <3>4
    <3>5. CASE queued'[o] = <<>> /\ queued[o] # <<>>
      <4>1. queued[o] \in Seq(News) /\ Len(queued[o]) # 0 /\ Len(queued[o]) \in Nat
        BY <3>5, EmptySeq, LenProperties DEF TypeOK
      <4>2. 1 \in 1..Len(queued[o])
        BY <4>1
      <4>3. Where(queued[o][1]) # place[o]
        BY <2>1, <3>5, <4>2
      <4>4. Where(queued[o][1]) = queued[o][1].at
        BY <1>0, <4>2 DEF QueueShape, Where
      <4>5. shown[o] # Unseen
        BY <2>4, <4>3, <4>4 DEF Has
      <4>6. \A k \in 1..Len(<<>>) : FALSE
        OBVIOUS
      <4> QED
        BY <3>1, <3>3, <3>5, <4>5, <4>6 DEF Has
    <3> QED
      BY <3>4, <3>5 DEF Filtered
  <2> QED
    BY <1>0, <2>2, <2>4 DEF NearIn
<1> QED
  BY <1>1, <1>3, <1>4, <1>5, <1>6, <1>7, NearKeptIs DEF Followed

\* Interest g stays, or nothing is certain of it.
Same(g) == interests'[g] = interests[g]
Idle(g) == \/ Locations(interests'[g]) = {}
           \/ ~Answered(g)' /\ \A k \in 1..Len(Serving) : ~Asks(interests', Serving[k], g)

\* Nothing is certain for an interest that is idle.
LEMMA IdleSure ==
    ASSUME Pipe' = Pipe, inbox' = inbox, \A g \in Handle : Same(g) \/ Idle(g)
    PROVE  Sure' \subseteq Sure
<1>1. ASSUME NEW x, NEW j, CertainIn(interests', Pipe, x, j)
      PROVE  CertainIn(interests, Pipe, x, j)
  <2>1. PICK g \in Handle :
             /\ x \in Locations(interests'[g])
             /\ interests'[g].done \/ \E d \in 1..j - 1 : d <= Len(Pipe) /\ AnswersFor(interests', Pipe[d], g)
    BY <1>1 DEF CertainIn
  <2>2. CASE Same(g)
    BY <2>1, <2>2 DEF Same, CertainIn, AnswersFor
  <2>3. CASE Idle(g)
    <3>1. interests'[g] # None
      BY <2>1 DEF Locations
    <3>2. \A d \in 1..j - 1 : d <= Len(Pipe) => d \in 1..Len(Pipe)
      BY LenProperties
    <3>3. Answered(g)'
      BY <2>1, <3>1, <3>2 DEF Answered
    <3> QED
      BY <2>1, <2>3, <3>3 DEF Idle
  <2> QED
    BY <2>2, <2>3
<1>2. Sure' = SureIn(interests', Pipe, Len(inbox)) /\ Sure = SureIn(interests, Pipe, Len(inbox))
  BY SureIs, SureIsNext
<1> QED
  BY <1>1, <1>2 DEF SureIn

\* An object stays followed when only idle interests change.
LEMMA ChangeFollowed ==
    ASSUME TypeOK, NEW o \in Object, Followed(o), Pipe' = Pipe, Serving' = Serving,
           UNCHANGED <<place, value, index, inbox, upstream>>,
           \A g \in Handle : Same(g) \/ Idle(g),
           \A l \in Covered(interests) : Coming(l)' => Coming(l),
           Trimmed(o), Filtered(o),
           \/ queued'[o] = queued[o]
           \/ \A g \in Handle : Same(g) => \A k \in 1..Len(queued[o]) : Where(queued[o][k]) \notin Locations(interests[g])
    PROVE  Followed(o)'
<1>1. Unmoved
  BY IdleSure DEF Unmoved, Routed
<1>2. Unanswered(o)
  <2> SUFFICES ASSUME NEW g \in Handle, place[o] \in Locations(interests'[g]),
                      Answered(g)' \/ AskedBefore(Serving, interests', g, o)
               PROVE  /\ place[o] \in Locations(interests[g]) /\ (Answered(g) \/ AskedBefore(Serving, interests, g, o))
                      /\ queued'[o] = queued[o] \/ queued[o] = <<>> \/ \A k \in 1..Len(queued[o]) : Where(queued[o][k]) # place[o]
    BY DEF Unanswered
  <2>1. ~Idle(g)
    BY DEF Idle, AskedBefore
  <2>2. interests'[g] = interests[g]
    BY <2>1 DEF Same
  <2>3. place[o] \in Locations(interests[g])
    BY <2>2
  <2>4. Answered(g)' => Answered(g)
    BY <2>2 DEF Answered, AnswersFor
  <2>5. AskedBefore(Serving, interests', g, o) => AskedBefore(Serving, interests, g, o)
    BY <2>2 DEF AskedBefore, Asks
  <2>6. queued'[o] = queued[o] \/ \A k \in 1..Len(queued[o]) : Where(queued[o][k]) # place[o]
    BY <2>2, <2>3 DEF Same
  <2> QED
    BY <2>3, <2>4, <2>5, <2>6
<1> QED
  BY <1>1, <1>2, ClientFollowed

\* When an interest goes, what is shown for it alone goes with it.
LEMMA GoneFollowed ==
    ASSUME TypeOK, NEW h \in Handle, NEW o \in Object, Followed(o), Pipe' = Pipe, Serving' = Serving,
           UNCHANGED <<place, value, index, inbox, upstream, queued>>, interests' = Others(h),
           \A l \in Covered(interests) : Coming(l)' => Coming(l),
           Trimmed(o)
    PROVE  Followed(o)'
<1>1. /\ Others(h)[h] = None
      /\ \A g \in Handle \ {h} : Others(h)[g] = interests[g]
  BY OthersAre
<1>2. \A g \in Handle : Same(g) \/ Idle(g)
  BY <1>1 DEF Same, Idle, Locations
<1>3. \A g \in Handle : Locations(Others(h)[g]) \subseteq Locations(interests[g])
  BY <1>1 DEF Locations
<1>4. Covered(interests') \subseteq Covered(interests)
  BY <1>3, Covers, CoveredBy
<1>5. Filtered(o)
  BY <1>4 DEF Filtered
<1> QED
  BY <1>2, <1>5, ChangeFollowed

\* Removing an interest (receive_remove_interest).
LEMMA RemoveFollowed ==
    ASSUME TypeOK, NEW h \in Handle, RemoveInterest(h), NEW o \in Object, Followed(o)
    PROVE  Followed(o)'
<1> DEFINE lonely == Locations(interests[h]) \ Covered(Others(h))
<1>1. /\ Asking(lonely, {}, <<>>) /\ interests' = Others(h) /\ shown' = Hidden(lonely)
      /\ UNCHANGED <<queued, inbox, routing, atServer, upstream, place, value, index>>
      /\ Pipe' = Pipe /\ Serving' = Serving
  BY RemoveAsks, RemoveKeeps
<1>2. Len(uplink) \in Nat /\ Len(uplink') \in Nat
  <2>1. TypeOK'
    BY RemoveType
  <2> QED
    BY <2>1, UplinkLength, UplinkNext
<1>3. shown'[o] = IF shown[o] # Unseen /\ shown[o].at \in lonely THEN Unseen ELSE shown[o]
  BY <1>1 DEF Hidden
<1>4. \A l \in Covered(interests) : l \notin lonely => l \in Covered(Others(h))
  <2> SUFFICES ASSUME NEW l \in Covered(interests), l \notin lonely, l \notin Covered(Others(h))
               PROVE  FALSE
    OBVIOUS
  <2>1. l \notin Locations(interests[h])
    OBVIOUS
  <2>2. PICK g \in Handle : l \in Locations(interests[g])
    BY DEF Covered
  <2>3. Others(h)[g] = interests[g]
    BY <2>1, <2>2, OthersAre
  <2>4. Locations(Others(h)[g]) \subseteq Covered(Others(h))
    BY Covers
  <2> QED
    BY <2>2, <2>3, <2>4
<1>5. \A l \in lonely : l \notin Covered(Others(h))
  OBVIOUS
<1> HIDE DEF lonely
<1>6. \A l \in Covered(interests) : Coming(l)' => Coming(l)
  <2>1. Fresh(lonely, {}) = {}
    BY DEF Fresh
  <2>2. \A l : Coming(l)' <=> Coming(l) \/ l \in Fresh(lonely, {})
    BY <1>1, <1>2, Comings
  <2> QED
    BY <2>1, <2>2
<1>7. Trimmed(o)
  <2>1. shown[o] # Unseen => shown[o].at \in Covered(interests)
    BY DEF Followed, QueueShape
  <2> QED
    BY <1>1, <1>3, <1>4, <1>5, <2>1 DEF Trimmed
<1> QED
  BY <1>1, <1>6, <1>7, GoneFollowed

\* The object is spared by the races that an ADD_INTEREST can be.
Spared(h, o) ==
    /\ shown'[o] # Unseen => shown'[o].at \in Covered(interests')
    /\ ToMove \intersect {o} # {} => queued'[o] # <<>>
    /\ queued[o] # <<>> /\ queued'[o] = <<>> =>
          \A k \in 1..Len(queued[o]) : Where(queued[o][k]) \notin Covered(Others(h))
    /\ \A k \in 1..Len(queued'[o]) : Where(queued'[o][k]) \notin Covered(interests') \ Covered(interests)

\* What has not strayed has been spared.
LEMMA AddSpares ==
    ASSUME TypeOK, TypeOK', NEW h \in Handle, NEW p \in Parent, NEW zs \in SUBSET Zone, NEW ai \in FromAI,
           AddInterest(h, p, zs, ai), NEW o \in Object \ strayed'
    PROVE  Spared(h, o)
<1>1. /\ o \notin Outside(shown', interests')
      /\ o \notin Dropped(Others(h), queued')
      /\ o \notin Belated(interests', queued')
  BY DEF AddInterest
<1>2. DOMAIN queued[o] = 1..Len(queued[o]) /\ DOMAIN queued'[o] = 1..Len(queued'[o])
  <2>1. queued[o] \in Seq(News) /\ queued'[o] \in Seq(News)
    BY DEF TypeOK
  <2> QED
    BY <2>1, LenProperties
<1>3. shown'[o] # Unseen => shown'[o].at \in Covered(interests')
  BY <1>1 DEF Outside
<1>4. ToMove \intersect {o} # {} => queued'[o] # <<>>
  BY <1>1 DEF Dropped
<1>5. queued[o] # <<>> /\ queued'[o] = <<>> =>
         \A k \in 1..Len(queued[o]) : Where(queued[o][k]) \notin Covered(Others(h))
  BY <1>1, <1>2 DEF Dropped
<1>6. \A k \in 1..Len(queued'[o]) : Where(queued'[o][k]) \notin Covered(interests') \ Covered(interests)
  BY <1>1, <1>2 DEF Belated
<1> QED
  BY <1>3, <1>4, <1>5, <1>6 DEF Spared

\* A new interest has not been answered.
LEMMA AddIdle ==
    ASSUME TypeOK, NEW h \in Handle, NEW p \in Parent, NEW zs \in SUBSET Zone, NEW ai \in FromAI,
           AddInterest(h, p, zs, ai), ~(ai /\ AlterRaises(h, p)), Numbered
    PROVE  Idle(h) /\ ~Same(h) /\ \A g \in Handle \ {h} : Same(g)
<1>1. /\ Opened(p, zs) # None /\ interests'[h] = Opened(p, zs)
      /\ \A g \in Handle \ {h} : interests'[g] = interests[g]
  BY InterestAdded
<1>2. Opened(p, zs).done = (zs = {}) /\ Opened(p, zs).context = requests + 1
      /\ Opened(p, zs).zones = zs /\ Opened(p, zs).parent = p
  BY DEF Opened
<1>3. Pipe' = Pipe /\ requests \in Nat /\ ~(requests + 1 <= requests)
  <2>1. requests \in Nat
    BY Bounds DEF TypeOK
  <2> QED
    BY <2>1, AddKeeps
<1>4. Idle(h)
  <2>1. CASE zs = {}
    <3>1. Locations(interests'[h]) = {}
      BY <1>1, <1>2, <2>1 DEF Locations, Zones
    <3> QED
      BY <3>1 DEF Idle
  <2>2. CASE zs # {}
    <3>1. ASSUME NEW i \in 1..Len(Pipe), AnswersFor(interests', Pipe[i], h) PROVE FALSE
      <4>1. Pipe[i].type = "DONE" /\ Pipe[i].context = requests + 1
        BY <1>1, <1>2, <3>1 DEF AnswersFor
      <4>2. requests + 1 <= requests
        BY <4>1 DEF Numbered
      <4> QED
        BY <1>3, <4>2
    <3>2. ASSUME NEW k \in 1..Len(Serving), Asks(interests', Serving[k], h) PROVE FALSE
      <4>1. Serving[k].type = "QUERY" /\ Serving[k].context = requests + 1
        BY <1>1, <1>2, <3>2 DEF Asks
      <4>2. requests + 1 <= requests
        BY <4>1 DEF Numbered
      <4> QED
        BY <1>3, <4>2
    <3>3. ~Answered(h)'
      <4>1. ~interests'[h].done
        BY <1>1, <1>2, <2>2
      <4> QED
        BY <1>3, <3>1, <4>1 DEF Answered
    <3> QED
      BY <3>2, <3>3 DEF Idle
  <2> QED
    BY <2>1, <2>2
<1>5. ~Same(h)
  <2> SUFFICES ASSUME Same(h) PROVE FALSE
    OBVIOUS
  <2>1. interests[h] # None /\ interests[h].context = requests + 1
    BY <1>1, <1>2 DEF Same
  <2>2. requests + 1 <= requests
    BY <2>1 DEF Numbered
  <2> QED
    BY <1>3, <2>2
<1> QED
  BY <1>1, <1>4, <1>5 DEF Same

\* What is hidden then is where no interest is any more.
LEMMA AddTrims ==
    ASSUME TypeOK, NEW h \in Handle, NEW p \in Parent, NEW zs \in SUBSET Zone, NEW ai \in FromAI,
           AddInterest(h, p, zs, ai), ~(ai /\ AlterRaises(h, p)),
           NEW o \in Object, QueueShape(o), Spared(h, o)
    PROVE  Trimmed(o)
<1> DEFINE old    == interests[h]
           alters == old # None /\ ~AlterRaises(h, p)
           killed == IF alters THEN KilledZones(h, p, zs) ELSE {}
<1>1. shown'[o] = IF shown[o] # Unseen /\ shown[o].at \in Zones(p, killed) THEN Unseen ELSE shown[o]
  BY DEF AddInterest, Hidden
<1>2. /\ Opened(p, zs) # None /\ interests'[h] = Opened(p, zs)
      /\ Opened(p, zs).zones = zs /\ Opened(p, zs).parent = p
      /\ \A g \in Handle \ {h} : interests'[g] = interests[g]
  <2>1. Opened(p, zs).zones = zs /\ Opened(p, zs).parent = p
    BY DEF Opened
  <2> QED
    BY <2>1, InterestAdded
<1>3. ASSUME NEW l \in Zones(p, killed), l \in Covered(interests) PROVE l \notin Covered(interests')
  <2> SUFFICES ASSUME l \in Covered(interests') PROVE FALSE
    OBVIOUS
  <2>1. alters /\ l \in Zones(p, KilledZones(h, p, zs))
    BY DEF Zones
  <2>2. PICK z \in KilledZones(h, p, zs) : l = [parent |-> p, zone |-> z]
    BY <2>1 DEF Zones
  <2>3. l.parent = p /\ l.zone = z
    BY <2>2
  <2>4. PICK g \in Handle : l \in Locations(interests'[g])
    BY DEF Covered
  <2>5. interests'[g] # None /\ z \in interests'[g].zones
    BY <2>3, <2>4 DEF Locations, Zones
  <2>6. CASE g # h
    BY <1>2, <2>2, <2>5, <2>6 DEF KilledZones
  <2>7. CASE g = h
    <3>1. z \in zs
      BY <1>2, <2>5, <2>7
    <3>2. old.parent # p
      BY <2>2, <3>1 DEF KilledZones
    <3>3. PICK f \in Handle : l \in Locations(interests[f])
      BY <1>3 DEF Covered
    <3>4. interests[f] # None /\ l.parent = interests[f].parent
      BY <3>3 DEF Locations, Zones
    <3>5. f = h
      BY <2>1, <3>2, <3>4 DEF AlterRaises
    <3> QED
      BY <2>3, <3>2, <3>4, <3>5
  <2> QED
    BY <2>6, <2>7
<1> HIDE DEF killed
<1>4. shown[o] # Unseen => shown[o].at \in Covered(interests)
  BY DEF QueueShape
<1> QED
  BY <1>1, <1>3, <1>4 DEF Trimmed, Spared

\* Adding or altering an interest (receive_add_interest).
LEMMA AddFollowed ==
    ASSUME TypeOK, InterestsHeard, NEW h \in Handle, NEW p \in Parent, NEW zs \in SUBSET Zone, NEW ai \in FromAI,
           AddInterest(h, p, zs, ai), Numbered, NEW o \in Object \ strayed', Followed(o)
    PROVE  Followed(o)'
<1>1. /\ UNCHANGED <<inbox, routing, atServer, upstream, place, value, index>>
      /\ Pipe' = Pipe /\ Serving' = Serving /\ TypeOK'
  BY AddKeeps, AddType
<1>2. Spared(h, o) /\ QueueShape(o)
  BY <1>1, AddSpares DEF Followed
<1>3. CASE ai /\ AlterRaises(h, p)
  <2>1. interests' = Others(h) /\ UNCHANGED <<shown, queued, channels, uplink, left>>
    BY <1>3, AddKeeps
  <2>2. \A l : Coming(l)' => Coming(l)
    BY <2>1 DEF Coming
  <2>3. Trimmed(o)
    BY <1>2, <2>1 DEF Trimmed, Spared
  <2> QED
    BY <1>1, <2>1, <2>2, <2>3, GoneFollowed
<1>4. CASE ~(ai /\ AlterRaises(h, p))
  <2>1. Trimmed(o) /\ Idle(h) /\ ~Same(h) /\ \A g \in Handle \ {h} : Same(g)
    BY <1>2, <1>4, AddTrims, AddIdle
  <2>2. queued'[o] = queued[o] \/ queued'[o] = <<>>
    BY <1>4 DEF AddInterest
  <2>3. Filtered(o)
    BY <1>2, <2>2 DEF Filtered, Spared
  <2>4. \/ queued'[o] = queued[o]
        \/ \A g \in Handle : Same(g) => \A k \in 1..Len(queued[o]) : Where(queued[o][k]) \notin Locations(interests[g])
    <3> SUFFICES ASSUME queued'[o] # queued[o], NEW g \in Handle, Same(g)
                 PROVE  \A k \in 1..Len(queued[o]) : Where(queued[o][k]) \notin Locations(interests[g])
      OBVIOUS
    <3>1. queued'[o] = <<>> /\ queued[o] # <<>>
      BY <2>2
    <3>2. Others(h)[g] = interests[g]
      BY <2>1, OthersAre
    <3>3. Locations(Others(h)[g]) \subseteq Covered(Others(h))
      BY Covers
    <3> QED
      BY <1>2, <3>1, <3>2, <3>3 DEF Spared
  <2>5. \A l \in Covered(interests) : Coming(l)' => Coming(l)
    <3> DEFINE gone == Given(h, p, zs)
               wanted == Zones(p, zs)
    <3>1. PICK q \in Seq(Queries) : Asking(gone, wanted, q)
      BY <1>4, AddAsks
    <3>2. Len(uplink) \in Nat /\ Len(uplink') \in Nat
      BY <1>1, UplinkLength, UplinkNext
    <3> HIDE DEF gone, wanted
    <3>3. gone \intersect wanted = {}
      BY <3>1 DEF Asking
    <3>4. \A l \in Covered(interests) : l \notin Fresh(gone, wanted)
      BY <3>3 DEF Fresh, InterestsHeard
    <3>5. \A l : Coming(l)' <=> Coming(l) \/ l \in Fresh(gone, wanted)
      BY <3>1, <3>2, Comings
    <3> QED
      BY <3>4, <3>5
  <2> QED
    BY <1>1, <2>1, <2>3, <2>4, <2>5, ChangeFollowed
<1> QED
  BY <1>3, <1>4

-----------------------------------------------------------------------------
(* What is shown when all is quiet *)

\* The inductive invariant: what no race has hit is followed.
Following == /\ Subscribed
             /\ \A o \in Object : Listed(o)
             /\ \A o \in Object \ strayed : Followed(o)

\* In the beginning there is nothing to follow.
LEMMA FollowingInit == Init => Following
<1> SUFFICES ASSUME Init PROVE Following
  OBVIOUS
<1>1. TypeOK
  BY InitType
<1>2. /\ uplink = <<>> /\ routing = <<>> /\ atServer = <<>> /\ inbox = <<>> /\ Len(<<>>) = 0
      /\ \A h \in Handle : interests[h] = None /\ Locations(interests[h]) = {}
      /\ \A o \in Object : shown[o] = Unseen /\ queued[o] = <<>>
      /\ channels = {} /\ upstream = {} /\ left = {}
  BY DEF Init, Locations
<1>3. Len(Pipe) = 0 /\ Len(Serving) = 0 /\ Pipe \in Seq(Datagrams)
  BY <1>1, <1>2, PipeIs
<1>4. \A i : i \notin 1..0
  OBVIOUS
<1>5. Covered(interests) = {}
  BY <1>2 DEF Covered
<1>6. (\A l : ~Coming(l)) /\ (\A l : ~Going(l))
  BY <1>2, <1>4 DEF Coming, Going
<1>7. Subscribed
  <2>1. SharedQuiet
    BY <1>6 DEF SharedQuiet
  <2>2. Numbered
    BY <1>2, <1>3, <1>4 DEF Numbered
  <2>3. Plain
    BY <1>3, <1>4 DEF Plain
  <2>4. Mirror
    BY <1>2, <1>4, <1>6 DEF Mirror
  <2>5. QueryOrder
    BY <1>2, <1>4 DEF QueryOrder
  <2>6. Clean
    BY <1>2, <1>3, <1>4 DEF Clean, Touched
  <2>7. DoneHeard
    BY <1>2 DEF DoneHeard, Answered
  <2> QED
    BY <2>1, <2>2, <2>3, <2>4, <2>5, <2>6, <2>7 DEF Subscribed
<1>8. ASSUME NEW o \in Object PROVE Listed(o)
  <2>1. place[o] # Nowhere => <<place[o], o>> \in index
    BY DEF Init
  <2> QED
    BY <1>3, <1>4, <2>1 DEF Listed
<1>9. ASSUME NEW o \in Object PROVE Followed(o)
  <2>1. Paired(o) /\ EntriesGood(o)
    BY <1>3, <1>4 DEF Paired, EntriesGood
  <2>2. QueueShape(o)
    BY <1>2, <1>4 DEF QueueShape
  <2>3. Seen(o)
    BY <1>5 DEF Seen
  <2>4. Complete(o)
    BY <1>2 DEF Complete
  <2> QED
    BY <1>8, <2>1, <2>2, <2>3, <2>4 DEF Followed
<1> QED
  BY <1>7, <1>8, <1>9 DEF Following

\* Every step keeps what no race has hit followed.
LEMMA FollowingNext == TypeOK /\ InterestsHeard /\ Following /\ [Next]_vars => Following'
<1> SUFFICES ASSUME TypeOK, InterestsHeard, Following, [Next]_vars PROVE Following'
  OBVIOUS
<1>1. /\ Subscribed /\ (\A o \in Object : Listed(o))
      /\ \A o \in Object \ strayed : Followed(o)
  BY DEF Following
<1>2. CASE Receive \/ Outer
  <2>1. Progress
    BY <1>2 DEF Progress, Outer
  <2>2. strayed \subseteq strayed'
    BY <2>1, ProgressKeeps
  <2>3. \A o \in Object \ strayed' : Followed(o)'
    BY <1>1, <1>2, <2>2, ReceiveFollowed, OuterFollowed
  <2>4. \A o \in Object : Listed(o)'
    BY <1>1, <2>1, ProgressListed
  <2>5. Subscribed'
    BY <1>1, <2>1, ProgressSubscribed
  <2> QED
    BY <2>3, <2>4, <2>5 DEF Following
<1>3. ASSUME NEW h \in Handle, RemoveInterest(h) PROVE Following'
  <2>1. strayed \subseteq strayed' /\ UNCHANGED <<place, index>> /\ Serving' = Serving
    BY <1>3, RemoveAsks, RemoveKeeps
  <2>2. \A o \in Object \ strayed' : Followed(o)'
    BY <1>1, <1>3, <2>1, RemoveFollowed
  <2>3. \A o \in Object : Listed(o)'
    BY <1>1, <2>1 DEF Listed
  <2>4. Subscribed'
    BY <1>1, <1>3, RemoveSubscribed
  <2> QED
    BY <2>2, <2>3, <2>4 DEF Following
<1>4. ASSUME NEW h \in Handle, NEW p \in Parent, NEW zs \in SUBSET Zone, NEW ai \in FromAI,
             AddInterest(h, p, zs, ai)
      PROVE  Following'
  <2>1. UNCHANGED <<place, index>> /\ Serving' = Serving
    BY <1>4, AddKeeps
  <2>2. ASSUME NEW o \in Object \ strayed' PROVE Followed(o)'
    <3>1. o \in Object \ strayed
      BY <1>4, AddKeeps
    <3> QED
      BY <1>1, <1>4, <3>1, AddFollowed DEF Subscribed
  <2>3. \A o \in Object : Listed(o)'
    BY <1>1, <2>1 DEF Listed
  <2>4. Subscribed'
    BY <1>1, <1>4, AddSubscribed
  <2> QED
    BY <2>2, <2>3, <2>4 DEF Following
<1>5. CASE UNCHANGED vars
  <2>1. UNCHANGED <<interests, shown, queued, channels, uplink, routing, atServer, inbox, upstream,
                    place, value, index, requests, left, strayed>>
    BY <1>5 DEF vars
  <2>2. Pipe' = Pipe /\ Serving' = Serving /\ Routed' = Routed
    BY <2>1 DEF Pipe, Serving, Routed
  <2>3. /\ \A l : Coming(l)' <=> Coming(l)
        /\ \A l : Going(l)' <=> Going(l)
    BY <2>1 DEF Coming, Going
  <2>4. Subscribed'
    <3>1. SharedQuiet => SharedQuiet'
      BY <2>3 DEF SharedQuiet
    <3>2. Numbered => Numbered'
      BY <2>1, <2>2 DEF Numbered, AsksRight, Asks
    <3>3. Plain => Plain'
      BY <2>2 DEF Plain
    <3>4. Mirror => Mirror'
      BY <2>1, <2>3 DEF Mirror
    <3>5. QueryOrder => QueryOrder'
      BY <2>1 DEF QueryOrder
    <3>6. Clean => Clean'
      BY <2>1, <2>2, <2>3 DEF Clean, Touched
    <3>7. DoneHeard => DoneHeard'
      BY <2>1, <2>2, <2>3 DEF DoneHeard, Answered, AnswersFor
    <3>8. Calm' => Calm
      BY <2>1 DEF Calm
    <3> QED
      BY <1>1, <3>1, <3>2, <3>3, <3>4, <3>5, <3>6, <3>7, <3>8 DEF Subscribed
  <2>5. \A o \in Object : Listed(o)'
    BY <1>1, <2>1, <2>2 DEF Listed
  <2>6. ASSUME NEW o \in Object \ strayed' PROVE Followed(o)'
    <3>1. Followed(o)
      BY <1>1, <2>1
    <3>2. \A g \in Handle : Same(g)
      BY <2>1 DEF Same
    <3>3. QueueShape(o)
      BY <3>1 DEF Followed
    <3>4. Trimmed(o) /\ Filtered(o)
      BY <2>1, <3>3 DEF Trimmed, Filtered, QueueShape
    <3> QED
      BY <2>1, <2>2, <2>3, <3>1, <3>2, <3>4, ChangeFollowed
  <2> QED
    BY <2>4, <2>5, <2>6 DEF Following
<1> QED
  BY <1>2, <1>3, <1>4, <1>5 DEF Next, Outer, Happening

\* When nothing is on its way and every interest is done, what is shown of an
\* object that is followed, and does not wait, is what the state server has.
LEMMA QuietShown ==
    ASSUME TypeOK, Quiet, PendingHasReason, NEW o \in Object \ strayed, Followed(o)
    PROVE  shown[o] = IF place[o] \in Covered(interests) THEN [at |-> place[o], val |-> value[o]] ELSE Unseen
<1>1. /\ inbox = <<>> /\ routing = <<>> /\ Len(<<>>) = 0
      /\ \A h \in Handle : interests[h] # None => interests[h].done
  BY DEF Quiet, Still
<1>2. Len(Pipe) = 0
  BY <1>1, PipeIs
<1>3. \A i : i \notin 1..0
  OBVIOUS
<1>4. queued[o] = <<>>
  BY <1>1 DEF PendingHasReason
<1>5. shown[o] \in Copy \union {Unseen}
  BY DEF TypeOK
<1>6. QueueShape(o) /\ Seen(o) /\ Complete(o)
  BY DEF Followed
<1>7. ASSUME NEW l \in Covered(interests), NEW v \in Value, shown[o] = [at |-> l, val |-> v], shown[o] # Unseen
      PROVE  place[o] = l /\ value[o] = v
  <2>1. Has(shown[o], queued[o], l, v)
    BY <1>1, <1>3, <1>4, <1>7 DEF Has
  <2>2. Truth(Pipe, Sure, 0, o, l, v, place[o], value[o])
    BY <1>6, <2>1 DEF Seen, Told
  <2>3. Stays(Pipe, 0, 1, o, l) /\ (Tells(Pipe, 0, 1, o, v, value[o]) <=> value[o] = v)
    <3>1. 0 \in Nat /\ 0 + 1 = 1
      OBVIOUS
    <3> QED
      BY <3>1, TellsNothing
  <2> QED
    BY <1>2, <2>2, <2>3 DEF Truth
<1>8. ASSUME shown[o] # Unseen
      PROVE  /\ shown[o] = [at |-> place[o], val |-> value[o]]
             /\ place[o] \in Covered(interests)
  <2>1. shown[o] \in Copy
    BY <1>5, <1>8
  <2>2. /\ shown[o] = [at |-> shown[o].at, val |-> shown[o].val]
        /\ shown[o].val \in Value
    BY <2>1 DEF Copy
  <2>3. shown[o].at \in Covered(interests)
    BY <1>6, <1>8 DEF QueueShape
  <2>4. place[o] = shown[o].at /\ value[o] = shown[o].val
    BY <1>7, <1>8, <2>2, <2>3
  <2> QED
    BY <2>2, <2>3, <2>4
<1>9. ASSUME place[o] \in Covered(interests)
      PROVE  shown[o] # Unseen
  <2>1. PICK h \in Handle : place[o] \in Locations(interests[h])
    BY <1>9 DEF Covered
  <2>2. interests[h] # None
    BY <2>1 DEF Locations
  <2>3. Answered(h)
    BY <1>1, <2>2 DEF Answered
  <2>4. Near(o)
    BY <1>6, <2>1, <2>3 DEF Complete
  <2>5. PICK v \in Value : Has(shown[o], queued[o], place[o], v)
    BY <1>2, <1>3, <2>4 DEF Near
  <2> QED
    BY <1>4, <2>5 DEF Has
<1> QED
  BY <1>8, <1>9

\* Once nothing is on its way and every interest is done, the client is shown
\* exactly the objects in the locations of its interests, where they are and
\* with their latest value, unless a race has hit the object
\* (handle_object_entrance, handle_interest_done, handle_location_change of the
\* client; handle_query_zone, handle_location_change of the state server).
THEOREM ViewIsExact == Spec => []ViewExact
<1>1. Following /\ TypeOK /\ PendingHasReason => ViewExact
  BY QuietShown DEF Following, ViewExact
<1> QED
  BY <1>1, FollowingInit, FollowingNext, TypeCorrect, Heard, PendingEnds, PTL DEF Spec
=============================================================================
