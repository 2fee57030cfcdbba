---------------------------- MODULE Uberdog_proofs ----------------------------
(* Proofs about Uberdog, for any calls, contexts, crashes and losses.        *)
(*                                                                           *)
(* The argument: questions and answers are on their way in the order of the  *)
(* calls, futures stand in the list in that order, and whoever's answer is   *)
(* still to come has its future in the list.  So the first future that       *)
(* matches an answer is that of the call that asked, or of an earlier one,   *)
(* whose own answer has already been.                                        *)
(*                                                                           *)
(* While nothing was lost and there was no restart the futures are, in       *)
(* order, the calls whose answers are still to come.  And nobody deletes the *)
(* object of an uberdog that came when no post remove was left.              *)
EXTENDS Uberdog, WellFoundedInduction, SequenceTheorems, TLAPS

Asked(r) == number[r] # 0

\* Calls are made once and numbered in the order they are made.
CallsNumbered ==
    /\ \A r \in Query : number[r] <= calls /\ (outcome[r] = "idle" <=> ~Asked(r))
    /\ \A r, s \in Query : Asked(r) /\ number[r] = number[s] => r = s

IsLocate(i) == i \in 1..Len(to_ss) /\ to_ss[i].type = "LOCATE"

\* Questions, answers and futures are in the order of the calls.
InOrder ==
    /\ \A i \in 1..Len(to_ss) : IsLocate(i) => Asked(to_ss[i].req)
    /\ \A i \in 1..Len(to_ud) : Asked(to_ud[i])
    /\ \A i \in 1..Len(futures) : Asked(futures[i])
    /\ \A i, j \in 1..Len(to_ss) :
          IsLocate(i) /\ IsLocate(j) /\ i < j => number[to_ss[i].req] < number[to_ss[j].req]
    /\ \A i, j \in 1..Len(to_ud) : i < j => number[to_ud[i]] < number[to_ud[j]]
    /\ \A i \in 1..Len(to_ud), j \in 1..Len(to_ss) :
          IsLocate(j) => number[to_ud[i]] < number[to_ss[j].req]
    /\ \A i, j \in 1..Len(futures) : i < j => number[futures[i]] < number[futures[j]]

HasFuture(r) == \E k \in 1..Len(futures) : futures[k] = r

\* Whoever's answer is still to come has its future in the list.
PendingHaveFutures ==
    alive /\ ~inherited =>
        /\ \A i \in 1..Len(to_ss) : IsLocate(i) => HasFuture(to_ss[i].req)
        /\ \A i \in 1..Len(to_ud) : HasFuture(to_ud[i])

IInv == TypeOK /\ CallsNumbered /\ InOrder /\ PendingHaveFutures /\ NeverOlder

-----------------------------------------------------------------------------
(* Lemmas about numbers and messages.                                        *)

LEMMA LocateIsMessage == \A r \in Query : Locate(r) \in Message
BY DEF Message

LEMMA MessageKinds ==
    ASSUME TypeOK, NEW i \in 1..Len(to_ss)
    PROVE  /\ to_ss[i] \in Message
           /\ to_ss[i].type = "LOCATE" => to_ss[i].req \in Query /\ to_ss[i] = Locate(to_ss[i].req)
<1>1. to_ss[i] \in Message
  BY DEF TypeOK
<1>2. CASE to_ss[i] \in {Generate, DeleteRam, PostRemove}
  BY <1>1, <1>2 DEF Generate, DeleteRam, PostRemove
<1>3. CASE \E r \in Query : to_ss[i] = Locate(r)
  BY <1>1, <1>3 DEF Locate
<1> QED
  BY <1>1, <1>2, <1>3 DEF Message

\* A set of numbers that is not empty has a least one.
LEMMA Least ==
    ASSUME NEW T \in SUBSET Nat, T # {}
    PROVE  \E k \in T : \A j \in T : k <= j
<1>1. PICK k \in T : \A j \in T : ~(<<j, k>> \in OpToRel(<, Nat))
  BY NatLessThanWellFounded, WFMin
<1>2. \A j \in T : ~(j < k)
  BY <1>1 DEF OpToRel
<1> QED
  BY <1>2

LEMMA FirstIsLeast ==
    ASSUME TypeOK, NEW a \in Query, Matching(a) # {}
    PROVE  FirstMatch(a) \in Matching(a) /\ \A j \in Matching(a) : FirstMatch(a) <= j
<1>1. Matching(a) \in SUBSET Nat
  BY DEF Matching
<1>2. \E k \in Matching(a) : \A j \in Matching(a) : k <= j
  BY <1>1, Least
<1> QED
  BY <1>2 DEF FirstMatch

LEMMA Initially == Init => IInv
<1> SUFFICES ASSUME Init PROVE IInv
  OBVIOUS
<1>1. TypeOK
  <2>1. to_ss \in Seq(Message) /\ to_ud \in Seq(Query) /\ futures \in Seq(Query) /\ control \in Seq(Control)
    BY DEF Init
  <2>2. outcome \in [Query -> Outcomes \union Query] /\ \A r \in Query : outcome[r] # "waiting"
    BY DEF Init, Outcomes
  <2>3. life \in 0..MaxLives /\ lost \in 0..MaxLost /\ posts \subseteq 1..life
    BY QueryAssumption DEF Init
  <2> QED
    BY <2>1, <2>2, <2>3 DEF Init, TypeOK
<1>2. CallsNumbered /\ InOrder /\ PendingHaveFutures
  BY DEF Init, CallsNumbered, InOrder, PendingHaveFutures, Asked, IsLocate
<1>3. NeverOlder
  BY DEF Init, NeverOlder, Answered, Outcomes
<1> QED
  BY <1>1, <1>2, <1>3 DEF IInv

-----------------------------------------------------------------------------
(* Steps.                                                                    *)

LEMMA OnUpstreamConnectStep == ASSUME IInv, OnUpstreamConnect PROVE IInv'
<1> USE DEF callvars, server, restarts, OnUpstreamConnect, IInv
<1>1. /\ to_ss' = Append(to_ss, Generate) /\ Generate.type # "LOCATE"
      /\ to_ss \in Seq(Message) /\ Generate \in Message
  BY DEF Generate, TypeOK, Message
<1>2. \A i \in 1..Len(to_ss') : IsLocate(i)' => IsLocate(i) /\ to_ss'[i] = to_ss[i]
  BY <1>1 DEF IsLocate
<1>3. TypeOK'
  <2>1. life' \in 0..MaxLives /\ life' > 0 /\ posts' \subseteq 1..life'
    BY QueryAssumption DEF TypeOK
  <2>2. to_ss' \in Seq(Message)
    BY <1>1
  <2> QED
    BY <2>1, <2>2 DEF TypeOK
<1>4. CallsNumbered'
  BY DEF CallsNumbered, Asked
<1>5. InOrder'
  BY <1>1, <1>2 DEF InOrder, Asked, IsLocate
<1>6. PendingHaveFutures'
  <2> SUFFICES ASSUME ~inherited' PROVE /\ \A i \in 1..Len(to_ss') : ~IsLocate(i)'
                                       /\ to_ud' = <<>>
    BY DEF PendingHaveFutures
  <2>1. to_ud = <<>> /\ \A r \in Query : ~Contains(to_ss, Locate(r))
    OBVIOUS
  <2>2. \A i \in 1..Len(to_ss) : ~IsLocate(i)
    BY <2>1, MessageKinds DEF Contains, IsLocate
  <2> QED
    BY <1>2, <2>1, <2>2 DEF IsLocate
<1>7. NeverOlder'
  BY DEF NeverOlder, Answered
<1> QED
  BY <1>3, <1>4, <1>5, <1>6, <1>7

LEMMA AddPostRemoveStep == ASSUME IInv, AddPostRemove PROVE IInv'
<1> USE DEF callvars, server, restarts, AddPostRemove, IInv
<1>1. TypeOK'
  <2>1. life \in 1..life
    BY QueryAssumption DEF TypeOK
  <2> QED
    BY <2>1 DEF TypeOK
<1>2. CallsNumbered' /\ NeverOlder'
  BY DEF CallsNumbered, Asked, NeverOlder, Answered
<1>3. InOrder'
  BY DEF InOrder, Asked, IsLocate
<1>4. PendingHaveFutures'
  BY DEF PendingHaveFutures, IsLocate, HasFuture
<1> QED
  BY <1>1, <1>2, <1>3, <1>4

LEMMA CrashStep == ASSUME IInv, Crash PROVE IInv'
<1> USE DEF callvars, server, restarts, Crash, IInv
<1>1. TypeOK'
  <2>1. outcome' \in [Query -> Outcomes \union Query] /\ \A r \in Query : outcome'[r] # "waiting"
    BY DEF TypeOK, Outcomes
  <2>2. futures' \in Seq(Query)
    OBVIOUS
  <2> QED
    BY <2>1, <2>2 DEF TypeOK
<1>2. CallsNumbered'
  BY DEF Asked, CallsNumbered, TypeOK
<1>3. InOrder'
  BY DEF InOrder, Asked, IsLocate
<1>4. PendingHaveFutures'
  BY DEF PendingHaveFutures
<1>5. NeverOlder'
  <2>1. \A r \in Answered' : r \in Answered /\ outcome'[r] = outcome[r]
    BY DEF Answered, Outcomes, TypeOK
  <2> QED
    BY <2>1 DEF NeverOlder
<1> QED
  BY <1>1, <1>2, <1>3, <1>4, <1>5

LEMMA ConnectionLostStep == ASSUME IInv, NEW n \in posts, ConnectionLost(n) PROVE IInv'
<1> USE DEF callvars, server, restarts, ConnectionLost, IInv
<1>1. /\ to_ss' = Append(to_ss, PostRemove) /\ PostRemove.type # "LOCATE"
      /\ to_ss \in Seq(Message) /\ PostRemove \in Message
  BY DEF PostRemove, TypeOK, Message
<1>2. \A i \in 1..Len(to_ss') : IsLocate(i)' => IsLocate(i) /\ to_ss'[i] = to_ss[i]
  BY <1>1 DEF IsLocate
<1>3. TypeOK'
  BY <1>1, QueryAssumption DEF TypeOK
<1>4. CallsNumbered'
  BY DEF CallsNumbered, Asked
<1>5. InOrder'
  BY <1>1, <1>2 DEF InOrder, Asked, IsLocate
<1>6. PendingHaveFutures'
  BY <1>1, <1>2 DEF PendingHaveFutures, HasFuture, IsLocate
<1>7. NeverOlder'
  BY DEF NeverOlder, Answered
<1> QED
  BY <1>3, <1>4, <1>5, <1>6, <1>7

\* The state server takes a message: those after it move up.
LEMMA Taken ==
    ASSUME IInv, to_ss # <<>>, to_ss' = Tail(to_ss)
    PROVE  /\ Len(to_ss') = Len(to_ss) - 1 /\ Len(to_ss') \in Nat
           /\ \A i \in 1..Len(to_ss') : /\ i + 1 \in 1..Len(to_ss) /\ to_ss'[i] = to_ss[i + 1]
                                        /\ IsLocate(i)' => IsLocate(i + 1)
<1>1. to_ss \in Seq(Message)
  BY DEF IInv, TypeOK
<1> QED
  BY <1>1 DEF IsLocate

LEMMA TakenStep ==
    ASSUME IInv, to_ss # <<>>, to_ss' = Tail(to_ss),
           registered' \in BOOLEAN, control' \in Seq(Control), lost' \in 0..MaxLost,
           UNCHANGED <<life, alive, posts, posting, listening, to_ud, futures, outcome, callvars, restarts>>
    PROVE  IInv'
<1> USE DEF callvars, server, restarts, IInv
<1>1. TypeOK'
  BY DEF TypeOK
<1>2. CallsNumbered'
  BY DEF CallsNumbered, Asked
<1>3. InOrder'
  <2>1. \A i \in 1..Len(to_ss') : IsLocate(i)' => number'[to_ss'[i].req] # 0
    BY Taken DEF InOrder, Asked
  <2>2. \A i, j \in 1..Len(to_ss') :
           IsLocate(i)' /\ IsLocate(j)' /\ i < j => number'[to_ss'[i].req] < number'[to_ss'[j].req]
    BY Taken DEF InOrder
  <2>3. \A i \in 1..Len(to_ud'), j \in 1..Len(to_ss') :
           IsLocate(j)' => number'[to_ud'[i]] < number'[to_ss'[j].req]
    BY Taken DEF InOrder
  <2> QED
    BY <2>1, <2>2, <2>3 DEF InOrder, Asked
<1>4. PendingHaveFutures'
  <2>1. \A q : HasFuture(q)' <=> HasFuture(q)
    BY DEF HasFuture
  <2> QED
    BY <2>1, Taken DEF PendingHaveFutures
<1>5. NeverOlder'
  BY DEF NeverOlder, Answered
<1> QED
  BY <1>1, <1>2, <1>3, <1>4, <1>5

LEMMA HandleLocateStep == ASSUME IInv, HandleLocate PROVE IInv'
<1> USE DEF callvars, server, restarts, HandleLocate, IInv
<1> DEFINE r == Head(to_ss).req
<1>1. to_ss \in Seq(Message) /\ to_ud \in Seq(Query) /\ 1 \in 1..Len(to_ss) /\ to_ss[1] = Head(to_ss)
  BY DEF TypeOK
<1>2. r \in Query /\ IsLocate(1) /\ to_ss[1].req = r
  BY <1>1, MessageKinds DEF IsLocate
<1>3. /\ Len(to_ud') = Len(to_ud) + 1 /\ to_ud'[Len(to_ud) + 1] = r
      /\ \A i \in 1..Len(to_ud) : to_ud'[i] = to_ud[i]
  BY <1>1, <1>2
<1> HIDE DEF r
<1>4. TypeOK'
  BY <1>2 DEF TypeOK, r
<1>5. CallsNumbered'
  BY DEF CallsNumbered, Asked
<1>6. InOrder'
  <2>1. Asked(r) /\ \A i \in 1..Len(to_ud) : number[to_ud[i]] < number[r]
    BY <1>1, <1>2 DEF InOrder
  <2>2. \A j \in 1..Len(to_ss') : IsLocate(j)' => number[r] < number[to_ss'[j].req]
    BY <1>1, <1>2, Taken DEF InOrder
  <2>3. \A i, j \in 1..Len(to_ud') : i < j => number[to_ud'[i]] < number[to_ud'[j]]
    BY <1>1, <1>3, <2>1 DEF InOrder
  <2>4. \A i \in 1..Len(to_ud'), j \in 1..Len(to_ss') :
           IsLocate(j)' => number[to_ud'[i]] < number[to_ss'[j].req]
    BY <1>1, <1>3, <2>2, Taken DEF InOrder
  <2>5. \A i \in 1..Len(to_ud') : Asked(to_ud'[i])
    BY <1>1, <1>3, <2>1 DEF InOrder
  <2>6. \A i \in 1..Len(to_ss') : IsLocate(i)' => Asked(to_ss'[i].req)
    BY Taken DEF InOrder
  <2>7. \A i, j \in 1..Len(to_ss') :
           IsLocate(i)' /\ IsLocate(j)' /\ i < j => number[to_ss'[i].req] < number[to_ss'[j].req]
    BY Taken DEF InOrder
  <2> QED
    BY <2>3, <2>4, <2>5, <2>6, <2>7 DEF InOrder, Asked
<1>7. PendingHaveFutures'
  <2> SUFFICES ASSUME alive, ~inherited
               PROVE  /\ \A i \in 1..Len(to_ss') : IsLocate(i)' => HasFuture(to_ss'[i].req)
                      /\ \A i \in 1..Len(to_ud') : HasFuture(to_ud'[i])
    BY DEF PendingHaveFutures, HasFuture
  <2>1. HasFuture(r)
    BY <1>1, <1>2 DEF PendingHaveFutures
  <2>2. \A i \in 1..Len(to_ss') : IsLocate(i)' => HasFuture(to_ss'[i].req)
    BY Taken DEF PendingHaveFutures
  <2>3. \A i \in 1..Len(to_ud') : i \in 1..Len(to_ud) \/ i = Len(to_ud) + 1
    BY <1>1, <1>3
  <2>4. \A i \in 1..Len(to_ud') : HasFuture(to_ud'[i])
    BY <1>3, <2>1, <2>3 DEF PendingHaveFutures
  <2> QED
    BY <2>2, <2>4
<1>8. NeverOlder'
  BY DEF NeverOlder, Answered
<1> QED
  BY <1>4, <1>5, <1>6, <1>7, <1>8

LEMMA QueryLocationStep == ASSUME IInv, NEW r \in Query, QueryLocation(r) PROVE IInv'
<1> USE DEF server, restarts, QueryLocation, IInv
<1>1. /\ to_ss \in Seq(Message) /\ to_ud \in Seq(Query) /\ futures \in Seq(Query)
      /\ outcome \in [Query -> Outcomes \union Query]
      /\ calls \in Nat /\ number \in [Query -> Nat]
  BY DEF TypeOK
<1>2. number[r] = 0 /\ number'[r] = calls + 1
  BY <1>1 DEF CallsNumbered, Asked
<1>3. \A q \in Query : Asked(q) => number'[q] = number[q] /\ number'[q] # 0 /\ number'[q] < number'[r]
  BY <1>1, <1>2 DEF CallsNumbered, Asked
<1>4. CallsNumbered'
  BY <1>1, <1>2, <1>3 DEF CallsNumbered, Asked
<1>5. /\ Len(to_ss') = Len(to_ss) + 1 /\ to_ss'[Len(to_ss) + 1] = Locate(r)
      /\ \A i \in 1..Len(to_ss) : to_ss'[i] = to_ss[i] /\ (IsLocate(i)' => IsLocate(i))
      /\ \A i \in 1..Len(to_ss') : i \in 1..Len(to_ss) \/ i = Len(to_ss) + 1
      /\ Locate(r).req = r
  BY <1>1 DEF IsLocate, Locate
<1>6. /\ Len(futures') = Len(futures) + 1 /\ futures'[Len(futures) + 1] = r
      /\ \A i \in 1..Len(futures) : futures'[i] = futures[i]
      /\ \A i \in 1..Len(futures') : i \in 1..Len(futures) \/ i = Len(futures) + 1
  BY <1>1
<1>7. TypeOK'
  <2>1. \A q \in Query : outcome'[q] = "waiting" => alive' /\ Contains(futures', q)
    <3>1. \A q \in Query : outcome[q] = "waiting" => \E k \in 1..Len(futures) : futures[k] = q
      BY DEF TypeOK, Contains
    <3>2. \A q \in Query : q # r => outcome'[q] = outcome[q]
      BY <1>1
    <3>3. Len(futures) + 1 \in 1..Len(futures') /\ \A k \in 1..Len(futures) : k \in 1..Len(futures')
      BY <1>1, <1>6
    <3>4. \A q \in Query : outcome'[q] = "waiting" => \E k \in 1..Len(futures') : futures'[k] = q
      BY <1>6, <3>1, <3>2, <3>3
    <3>5. alive'
      OBVIOUS
    <3> QED
      BY <3>4, <3>5 DEF Contains
  <2>2. to_ss' = Append(to_ss, Locate(r)) /\ Locate(r) \in Message
    BY LocateIsMessage
  <2>3. to_ss' \in Seq(Message)
    BY <1>1, <2>2
  <2> QED
    BY <1>1, <2>1, <2>3 DEF TypeOK, Outcomes
<1>8. InOrder'
  <2>1. \A i \in 1..Len(to_ss) : IsLocate(i) => to_ss[i].req \in Query
    BY MessageKinds DEF IsLocate
  <2>2. \A i \in 1..Len(to_ss') : IsLocate(i)' => number'[to_ss'[i].req] # 0
    <3>1. number'[r] # 0
      BY <1>1, <1>2
    <3>2. \A i \in 1..Len(to_ss) : IsLocate(i) => number'[to_ss[i].req] # 0
      BY <1>3, <2>1 DEF InOrder
    <3> QED
      BY <1>5, <3>1, <3>2 DEF Asked
  <2>3. \A i, j \in 1..Len(to_ss') :
           IsLocate(i)' /\ IsLocate(j)' /\ i < j => number'[to_ss'[i].req] < number'[to_ss'[j].req]
    <3>1. \A i, j \in 1..Len(to_ss) :
             IsLocate(i) /\ IsLocate(j) /\ i < j => number'[to_ss[i].req] < number'[to_ss[j].req]
      BY <1>3, <2>1 DEF InOrder
    <3>2. \A i \in 1..Len(to_ss) : IsLocate(i) => number'[to_ss[i].req] < number'[r]
      BY <1>3, <2>1 DEF InOrder
    <3>3. Len(to_ss) \in Nat
      BY <1>1
    <3> QED
      BY <1>5, <3>1, <3>2, <3>3
  <2>4. \A i \in 1..Len(to_ud'), j \in 1..Len(to_ss') :
           IsLocate(j)' => number'[to_ud'[i]] < number'[to_ss'[j].req]
    <3>1. \A i \in 1..Len(to_ud) : number'[to_ud'[i]] < number'[r]
      BY <1>1, <1>3 DEF InOrder
    <3>2. \A i \in 1..Len(to_ud), j \in 1..Len(to_ss) :
             IsLocate(j) => number'[to_ud'[i]] < number'[to_ss[j].req]
      BY <1>1, <1>3, <2>1 DEF InOrder
    <3>3. UNCHANGED to_ud
      BY <1>1
    <3> QED
      BY <1>5, <3>1, <3>2, <3>3
  <2>5. /\ \A i \in 1..Len(to_ud') : number'[to_ud'[i]] # 0
        /\ \A i, j \in 1..Len(to_ud') : i < j => number'[to_ud'[i]] < number'[to_ud'[j]]
    <3>1. \A i \in 1..Len(to_ud) : to_ud[i] \in Query /\ Asked(to_ud[i])
      BY <1>1 DEF InOrder
    <3>2. to_ud' = to_ud
      OBVIOUS
    <3>3. \A i \in 1..Len(to_ud) : number'[to_ud[i]] = number[to_ud[i]] /\ number'[to_ud[i]] # 0
      BY <1>3, <3>1
    <3> QED
      BY <3>2, <3>3 DEF InOrder, Asked
  <2>6. \A i \in 1..Len(futures') : number'[futures'[i]] # 0
    <3>1. \A i \in 1..Len(futures) : futures[i] \in Query /\ Asked(futures[i])
      BY <1>1 DEF InOrder
    <3>2. number'[r] # 0
      BY <1>1, <1>2
    <3> QED
      BY <1>3, <1>6, <3>1, <3>2 DEF Asked
  <2>7. \A i, j \in 1..Len(futures') : i < j => number'[futures'[i]] < number'[futures'[j]]
    <3>1. \A i \in 1..Len(futures) : futures[i] \in Query /\ Asked(futures[i])
      BY <1>1 DEF InOrder
    <3>2. \A i, j \in 1..Len(futures) : i < j => number'[futures[i]] < number'[futures[j]]
      BY <1>3, <3>1 DEF InOrder
    <3>3. \A i \in 1..Len(futures) : number'[futures[i]] < number'[r]
      BY <1>3, <3>1
    <3>4. Len(futures) \in Nat
      BY <1>1
    <3> QED
      BY <1>6, <3>2, <3>3, <3>4
  <2> QED
    BY <2>2, <2>3, <2>4, <2>5, <2>6, <2>7 DEF InOrder, Asked
<1>9. PendingHaveFutures'
  <2>1. HasFuture(r)' /\ \A q : HasFuture(q) => HasFuture(q)'
    BY <1>1, <1>6 DEF HasFuture
  <2> QED
    BY <1>1, <1>5, <2>1 DEF PendingHaveFutures
<1>10. NeverOlder'
  <2> SUFFICES ASSUME ~inherited', NEW q \in Answered'
               PROVE  number'[q] <= number'[outcome'[q]]
    BY DEF NeverOlder
  <2>1. q \in Answered /\ outcome'[q] = outcome[q] /\ q \in Query /\ outcome[q] \in Query
    BY <1>1 DEF Answered, Outcomes
  <2>2. number[q] <= number[outcome[q]] /\ Asked(q)
    BY <2>1 DEF NeverOlder, CallsNumbered, Outcomes, Answered
  <2>3. Asked(outcome[q])
    BY <1>1, <2>1, <2>2 DEF Asked
  <2> QED
    BY <1>3, <2>1, <2>2, <2>3
<1> QED
  BY <1>4, <1>7, <1>8, <1>9, <1>10

LEMMA TimeoutStep == ASSUME IInv, NEW r \in Query, Timeout(r) PROVE IInv'
<1> USE DEF callvars, server, restarts, Timeout, IInv
<1>1. TypeOK'
  BY DEF TypeOK, Outcomes
<1>2. CallsNumbered'
  BY DEF Asked, CallsNumbered, TypeOK
<1>3. InOrder'
  BY DEF InOrder, Asked, IsLocate
<1>4. PendingHaveFutures'
  BY DEF PendingHaveFutures, IsLocate, HasFuture
<1>5. NeverOlder'
  <2>1. \A q \in Answered' : q \in Answered /\ outcome'[q] = outcome[q]
    BY DEF Answered, Outcomes, TypeOK
  <2> QED
    BY <2>1 DEF NeverOlder
<1> QED
  BY <1>1, <1>2, <1>3, <1>4, <1>5

LEMMA Removal ==
    ASSUME NEW S, NEW s \in Seq(S), NEW n \in 1..Len(s)
    PROVE  /\ Len(RemoveAt(s, n)) = Len(s) - 1 /\ Len(RemoveAt(s, n)) \in Nat /\ RemoveAt(s, n) \in Seq(S)
           /\ \A i \in 1..Len(RemoveAt(s, n)) :
                RemoveAt(s, n)[i] = IF i < n THEN s[i] ELSE s[i + 1]
<1> DEFINE left  == SubSeq(s, 1, n - 1)
           right == SubSeq(s, n + 1, Len(s))
<1>1. /\ left \in Seq(S) /\ Len(left) = n - 1
      /\ \A i \in 1..(n - 1) : left[i] = s[i]
  OBVIOUS
<1>2. /\ right \in Seq(S) /\ Len(right) = Len(s) - n
      /\ \A i \in 1..(Len(s) - n) : right[i] = s[n + i]
  OBVIOUS
<1>3. RemoveAt(s, n) = left \o right
  BY DEF RemoveAt
<1> HIDE DEF left, right
<1>4. /\ left \o right \in Seq(S) /\ Len(left \o right) = Len(s) - 1
      /\ \A i \in 1..Len(left \o right) :
           (left \o right)[i] = IF i <= n - 1 THEN left[i] ELSE right[i - (n - 1)]
  <2>1. /\ left \o right \in Seq(S) /\ Len(left \o right) = Len(left) + Len(right)
        /\ \A i \in 1..(Len(left) + Len(right)) :
             (left \o right)[i] = IF i <= Len(left) THEN left[i] ELSE right[i - Len(left)]
    BY <1>1, <1>2, ConcatProperties
  <2>2. Len(left) + Len(right) = Len(s) - 1
    BY <1>1, <1>2
  <2> QED
    BY <1>1, <2>1, <2>2
<1>5. \A i \in 1..(Len(s) - 1) : (left \o right)[i] = IF i < n THEN s[i] ELSE s[i + 1]
  <2> SUFFICES ASSUME NEW i \in 1..(Len(s) - 1)
               PROVE  (left \o right)[i] = IF i < n THEN s[i] ELSE s[i + 1]
    OBVIOUS
  <2>1. CASE i < n
    BY <1>1, <1>4, <2>1
  <2>2. CASE ~(i < n)
    <3>1. i - (n - 1) \in 1..(Len(s) - n) /\ n + (i - (n - 1)) = i + 1
      BY <2>2
    <3>2. right[i - (n - 1)] = s[i + 1]
      BY <1>2, <3>1
    <3> QED
      BY <1>4, <2>2, <3>2
  <2> QED
    BY <2>1, <2>2
<1>6. Len(s) - 1 \in Nat
  OBVIOUS
<1> QED
  BY <1>3, <1>4, <1>5, <1>6

\* Routing a post remove takes it from the queue or makes it a deletion: the
\* other messages stay as they are, in their order.
LEMMA Routed ==
    ASSUME IInv, Route
    PROVE  /\ to_ss' \in Seq(Message)
           /\ \E up \in [1..Len(to_ss') -> 1..Len(to_ss)] :
                /\ \A i, j \in 1..Len(to_ss') : i < j => up[i] < up[j]
                /\ \A j \in 1..Len(to_ss') :
                      \/ to_ss'[j] = to_ss[up[j]]
                      \/ to_ss'[j] = DeleteRam /\ to_ss[up[j]] = PostRemove
                /\ \A i \in 1..Len(to_ss) : to_ss[i] # PostRemove => \E j \in 1..Len(to_ss') : up[j] = i
<1> DEFINE Moves(up) ==
             /\ up \in [1..Len(to_ss') -> 1..Len(to_ss)]
             /\ \A i, j \in 1..Len(to_ss') : i < j => up[i] < up[j]
             /\ \A j \in 1..Len(to_ss') :
                   \/ to_ss'[j] = to_ss[up[j]]
                   \/ to_ss'[j] = DeleteRam /\ to_ss[up[j]] = PostRemove
             /\ \A i \in 1..Len(to_ss) : to_ss[i] # PostRemove => \E j \in 1..Len(to_ss') : up[j] = i
<1>1. to_ss \in Seq(Message) /\ DeleteRam \in Message
  BY DEF IInv, TypeOK, Message
<1>2. PICK n \in 1..Len(to_ss) :
         /\ to_ss[n] = PostRemove
         /\ to_ss' = IF listening THEN [to_ss EXCEPT ![n] = DeleteRam] ELSE RemoveAt(to_ss, n)
  BY DEF Route
<1> SUFFICES to_ss' \in Seq(Message) /\ \E up : Moves(up)
  OBVIOUS
<1>3. CASE listening
  <2> DEFINE up == [j \in 1..Len(to_ss') |-> j]
  <2>1. /\ to_ss' \in Seq(Message) /\ Len(to_ss') = Len(to_ss) /\ Len(to_ss) \in Nat
        /\ \A j \in 1..Len(to_ss') : to_ss'[j] = IF j = n THEN DeleteRam ELSE to_ss[j]
    BY <1>1, <1>2, <1>3
  <2>2. up \in [1..Len(to_ss') -> 1..Len(to_ss)] /\ \A j \in 1..Len(to_ss') : up[j] = j
    BY <2>1
  <2> HIDE DEF up
  <2>3. \A i \in 1..Len(to_ss) : \E j \in 1..Len(to_ss') : up[j] = i
    BY <2>1, <2>2
  <2>4. Moves(up)
    BY <1>2, <2>1, <2>2, <2>3
  <2> QED
    BY <2>1, <2>4
<1>4. CASE ~listening
  <2> DEFINE up == [j \in 1..Len(to_ss') |-> IF j < n THEN j ELSE j + 1]
  <2>1. /\ to_ss' \in Seq(Message) /\ Len(to_ss') = Len(to_ss) - 1 /\ Len(to_ss) \in Nat
        /\ \A j \in 1..Len(to_ss') : to_ss'[j] = IF j < n THEN to_ss[j] ELSE to_ss[j + 1]
    <3>1. Len(to_ss) \in Nat /\ to_ss' = RemoveAt(to_ss, n)
      BY <1>1, <1>2, <1>4
    <3> QED
      BY <1>1, <3>1, Removal
  <2>2. up \in [1..Len(to_ss') -> 1..Len(to_ss)] /\ \A i, j \in 1..Len(to_ss') : i < j => up[i] < up[j]
    <3>1. Len(to_ss') = Len(to_ss) - 1 /\ Len(to_ss) \in Nat
      BY <2>1
    <3> QED
      BY <3>1
  <2>3. \A j \in 1..Len(to_ss') : to_ss'[j] = to_ss[up[j]]
    BY <2>1
  <2>4. ASSUME NEW i \in 1..Len(to_ss), i # n PROVE \E j \in 1..Len(to_ss') : up[j] = i
    <3>1. CASE i < n
      BY <2>1, <3>1
    <3>2. CASE i > n
      <4>1. i - 1 \in 1..Len(to_ss') /\ ~(i - 1 < n) /\ (i - 1) + 1 = i
        BY <2>1, <3>2
      <4> QED
        BY <4>1
    <3> QED
      BY <2>4, <3>1, <3>2
  <2> HIDE DEF up
  <2>5. Moves(up)
    BY <1>2, <2>2, <2>3, <2>4
  <2> QED
    BY <2>1, <2>5
<1> QED
  BY <1>3, <1>4

LEMMA RouteStep == ASSUME IInv, Route PROVE IInv'
<1> USE DEF callvars, server, restarts, IInv
<1>1. /\ to_ss' \in Seq(Message) /\ missed' \in BOOLEAN
      /\ UNCHANGED <<life, alive, posts, posting, server, to_ud, futures, outcome, callvars,
                     inherited, hasty, torn, lost>>
  BY Routed DEF Route, TypeOK
<1>2. PICK up \in [1..Len(to_ss') -> 1..Len(to_ss)] :
         /\ \A i, j \in 1..Len(to_ss') : i < j => up[i] < up[j]
         /\ \A j \in 1..Len(to_ss') : \/ to_ss'[j] = to_ss[up[j]]
                                      \/ to_ss'[j] = DeleteRam /\ to_ss[up[j]] = PostRemove
  BY Routed
<1>3. \A j \in 1..Len(to_ss') : IsLocate(j)' => IsLocate(up[j]) /\ to_ss'[j] = to_ss[up[j]]
  BY <1>2 DEF IsLocate, DeleteRam
<1>4. TypeOK'
  BY <1>1 DEF TypeOK
<1>5. CallsNumbered'
  BY <1>1 DEF CallsNumbered, Asked
<1>6. InOrder'
  <2>1. \A i \in 1..Len(to_ss') : IsLocate(i)' => number'[to_ss'[i].req] # 0
    <3> SUFFICES ASSUME NEW i \in 1..Len(to_ss'), IsLocate(i)' PROVE number'[to_ss'[i].req] # 0
      OBVIOUS
    <3>1. up[i] \in 1..Len(to_ss) /\ IsLocate(up[i]) /\ to_ss'[i] = to_ss[up[i]]
      BY <1>2, <1>3
    <3>2. number[to_ss[up[i]].req] # 0
      BY <3>1 DEF InOrder, Asked
    <3> QED
      BY <1>1, <3>1, <3>2
  <2>2. \A i, j \in 1..Len(to_ss') :
           IsLocate(i)' /\ IsLocate(j)' /\ i < j => number'[to_ss'[i].req] < number'[to_ss'[j].req]
    <3> SUFFICES ASSUME NEW i \in 1..Len(to_ss'), NEW j \in 1..Len(to_ss'), IsLocate(i)', IsLocate(j)', i < j
                 PROVE  number'[to_ss'[i].req] < number'[to_ss'[j].req]
      OBVIOUS
    <3>1. /\ up[i] \in 1..Len(to_ss) /\ up[j] \in 1..Len(to_ss) /\ up[i] < up[j]
          /\ IsLocate(up[i]) /\ to_ss'[i] = to_ss[up[i]]
          /\ IsLocate(up[j]) /\ to_ss'[j] = to_ss[up[j]]
      BY <1>2, <1>3
    <3>2. number[to_ss[up[i]].req] < number[to_ss[up[j]].req]
      BY <3>1 DEF InOrder
    <3> QED
      BY <1>1, <3>1, <3>2
  <2>3. \A i \in 1..Len(to_ud'), j \in 1..Len(to_ss') :
           IsLocate(j)' => number'[to_ud'[i]] < number'[to_ss'[j].req]
    <3> SUFFICES ASSUME NEW i \in 1..Len(to_ud), NEW j \in 1..Len(to_ss'), IsLocate(j)'
                 PROVE  number[to_ud[i]] < number[to_ss'[j].req]
      BY <1>1
    <3>1. up[j] \in 1..Len(to_ss) /\ IsLocate(up[j]) /\ to_ss'[j] = to_ss[up[j]]
      BY <1>2, <1>3
    <3> QED
      BY <3>1 DEF InOrder
  <2> QED
    BY <1>1, <2>1, <2>2, <2>3 DEF InOrder, Asked
<1>7. PendingHaveFutures'
  <2>1. \A q : HasFuture(q)' <=> HasFuture(q)
    BY <1>1 DEF HasFuture
  <2> QED
    BY <1>1, <1>2, <1>3, <2>1 DEF PendingHaveFutures
<1>8. NeverOlder'
  BY <1>1 DEF NeverOlder, Answered
<1> QED
  BY <1>4, <1>5, <1>6, <1>7, <1>8

LEMMA ReceiveControlStep == ASSUME IInv, ReceiveControl PROVE IInv'
<1> USE DEF callvars, server, restarts, ReceiveControl, IInv
<1>1. TypeOK'
  BY DEF TypeOK
<1>2. CallsNumbered' /\ NeverOlder'
  BY DEF CallsNumbered, Asked, NeverOlder, Answered
<1>3. InOrder'
  BY DEF InOrder, Asked, IsLocate
<1>4. PendingHaveFutures'
  BY DEF PendingHaveFutures, IsLocate, HasFuture
<1> QED
  BY <1>1, <1>2, <1>3, <1>4

\* An answer is taken by the first future that matches it: the call's own or
\* that of an earlier call, whose answer is not to come any more.
LEMMA CheckFuturesStep == ASSUME IInv, CheckFutures PROVE IInv'
<1> USE DEF callvars, server, restarts, IInv
<1> DEFINE a == Head(to_ud)
          k == FirstMatch(a)
<1>1. /\ to_ud \in Seq(Query) /\ futures \in Seq(Query) /\ to_ud # <<>> /\ to_ud' = Tail(to_ud)
      /\ outcome \in [Query -> Outcomes \union Query] /\ number \in [Query -> Nat]
      /\ UNCHANGED <<life, alive, posts, posting, server, to_ss, callvars, restarts, lost>>
  BY DEF CheckFutures, TypeOK
<1>2. /\ a \in Query /\ 1 \in 1..Len(to_ud) /\ to_ud[1] = a
      /\ Len(to_ud') = Len(to_ud) - 1 /\ Len(to_ud') \in Nat
      /\ \A i \in 1..Len(to_ud') : i + 1 \in 1..Len(to_ud) /\ to_ud'[i] = to_ud[i + 1]
  BY <1>1
<1>3. \A i \in 1..Len(to_ss') : IsLocate(i)' <=> IsLocate(i)
  BY <1>1 DEF IsLocate
<1>4. \A i \in 1..Len(to_ss) : IsLocate(i) => to_ss[i].req \in Query
  BY MessageKinds DEF IsLocate
\* What comes after the answer is about later calls.
<1>5. /\ \A i \in 1..Len(to_ud') : number[a] < number[to_ud'[i]]
      /\ \A i \in 1..Len(to_ss) : IsLocate(i) => number[a] < number[to_ss[i].req]
  BY <1>2 DEF InOrder
<1>6. /\ \A i \in 1..Len(to_ud') : number[to_ud'[i]] # 0
      /\ \A i, j \in 1..Len(to_ud') : i < j => number[to_ud'[i]] < number[to_ud'[j]]
      /\ \A i \in 1..Len(to_ud'), j \in 1..Len(to_ss) :
            IsLocate(j) => number[to_ud'[i]] < number[to_ss[j].req]
  <2>1. \A i \in 1..Len(to_ud') : number[to_ud'[i]] # 0
    BY <1>2 DEF InOrder, Asked
  <2>2. \A i, j \in 1..Len(to_ud') : i < j => i + 1 < j + 1
    BY <1>2
  <2>3. \A i, j \in 1..Len(to_ud') : i < j => number[to_ud'[i]] < number[to_ud'[j]]
    BY <1>2, <2>2 DEF InOrder
  <2>4. \A i \in 1..Len(to_ud'), j \in 1..Len(to_ss) : IsLocate(j) => number[to_ud'[i]] < number[to_ss[j].req]
    BY <1>2 DEF InOrder
  <2> QED
    BY <2>1, <2>3, <2>4
<1> HIDE DEF a
<1>7. CASE UNCHANGED <<futures, outcome>>
  <2>1. TypeOK'
    <3>1. to_ud' \in Seq(Query)
      BY <1>1
    <3>2. UNCHANGED <<life, alive, posts, posting, server, to_ss, callvars, restarts, lost>>
      BY <1>1
    <3> QED
      BY <1>7, <3>1, <3>2 DEF TypeOK
  <2>2. CallsNumbered'
    BY <1>1, <1>7 DEF CallsNumbered, Asked
  <2>3. InOrder'
    BY <1>1, <1>3, <1>6, <1>7 DEF InOrder, Asked
  <2>4. PendingHaveFutures'
    BY <1>1, <1>2, <1>3, <1>7 DEF PendingHaveFutures, HasFuture
  <2>5. NeverOlder'
    BY <1>1, <1>7 DEF NeverOlder, Answered
  <2> QED
    BY <2>1, <2>2, <2>3, <2>4, <2>5
<1>8. CASE alive /\ Matching(a) # {}
  <2>1. /\ futures' = RemoveAt(futures, k)
        /\ outcome' = IF Cancelled(futures[k]) THEN outcome ELSE [outcome EXCEPT ![futures[k]] = a]
    BY <1>8 DEF CheckFutures, a
  <2>2. k \in Matching(a) /\ \A j \in Matching(a) : k <= j
    BY <1>2, <1>8, FirstIsLeast
  <2> HIDE DEF k
  <2>3. k \in 1..Len(futures) /\ futures[k] \in Query /\ Matches(futures[k], a)
    BY <1>1, <2>2 DEF Matching
  <2>4. /\ Len(futures') = Len(futures) - 1 /\ Len(futures') \in Nat /\ futures' \in Seq(Query)
        /\ \A i \in 1..Len(futures') : futures'[i] = IF i < k THEN futures[i] ELSE futures[i + 1]
    BY <1>1, <2>1, <2>3, Removal
  <2>13. \A q \in Query :
            \/ outcome'[q] = outcome[q] /\ (q = futures[k] => outcome[q] = "raised")
            \/ q = futures[k] /\ outcome'[q] = a
    BY <1>1, <2>1, <2>3 DEF Cancelled
  <2>14. a # "waiting" /\ a # "idle"
    BY <1>2, QueryAssumption DEF Outcomes
  \* Of the others, no future is lost.
  <2>5. \A q : HasFuture(q) /\ q # futures[k] => HasFuture(q)'
    <3> SUFFICES ASSUME NEW i \in 1..Len(futures), futures[i] # futures[k]
                 PROVE  \E j \in 1..Len(futures') : futures'[j] = futures[i]
      BY DEF HasFuture
    <3>1. CASE i < k
      BY <2>3, <2>4, <3>1
    <3>2. CASE i > k
      <4>1. i - 1 \in 1..Len(futures') /\ ~(i - 1 < k)
        BY <2>3, <2>4, <3>2
      <4>2. futures'[i - 1] = futures[i]
        BY <2>4, <4>1
      <4> QED
        BY <4>1, <4>2
    <3> QED
      BY <2>3, <3>1, <3>2
  <2>6. TypeOK'
    <3>1. outcome' \in [Query -> Outcomes \union Query]
      <4>1. outcome' = outcome \/ outcome' = [outcome EXCEPT ![futures[k]] = a]
        BY <2>1
      <4> QED
        BY <1>1, <1>2, <4>1
    <3>2. \A q \in Query : outcome'[q] = "waiting" => alive' /\ Contains(futures', q)
      <4> SUFFICES ASSUME NEW q \in Query, outcome'[q] = "waiting", outcome[q] = "waiting"
                   PROVE  alive' /\ Contains(futures', q)
        BY <2>13, <2>14
      <4>1. alive /\ HasFuture(q)
        BY DEF TypeOK, Contains, HasFuture
      <4>2. q # futures[k]
        BY <2>13, <2>14
      <4> QED
        BY <1>1, <2>5, <4>1, <4>2 DEF HasFuture, Contains
    <3>3. to_ud' \in Seq(Query)
      BY <1>1
    <3>4. UNCHANGED <<life, alive, posts, posting, server, to_ss, callvars, restarts, lost>>
      BY <1>1
    <3> QED
      BY <2>4, <3>1, <3>2, <3>3, <3>4 DEF TypeOK
  <2>7. number[futures[k]] # 0
    BY <2>3 DEF InOrder, Asked
  <2>8. CallsNumbered'
    <3>1. \A q \in Query : outcome'[q] = "idle" <=> outcome[q] = "idle"
      BY <2>3, <2>7, <2>13, <2>14 DEF CallsNumbered, Asked
    <3> QED
      BY <1>1, <3>1 DEF CallsNumbered, Asked
  <2>9. InOrder'
    <3>1. \A i \in 1..Len(futures') : number[futures'[i]] # 0
      BY <2>3, <2>4 DEF InOrder, Asked
    <3>2. \A i, j \in 1..Len(futures') : i < j => number[futures'[i]] < number[futures'[j]]
      <4>1. \A i, j \in 1..Len(futures) : i < j => number[futures[i]] < number[futures[j]]
        BY DEF InOrder
      <4> SUFFICES ASSUME NEW i \in 1..Len(futures'), NEW j \in 1..Len(futures'), i < j
                   PROVE  number[futures'[i]] < number[futures'[j]]
        OBVIOUS
      <4> DEFINE i0 == IF i < k THEN i ELSE i + 1
                 j0 == IF j < k THEN j ELSE j + 1
      <4>2. i0 \in 1..Len(futures) /\ j0 \in 1..Len(futures) /\ i0 < j0
        BY <2>3, <2>4
      <4>3. futures'[i] = futures[i0] /\ futures'[j] = futures[j0]
        BY <2>4
      <4> HIDE DEF i0, j0
      <4> QED
        BY <4>1, <4>2, <4>3
    <3> QED
      BY <1>1, <1>3, <1>6, <3>1, <3>2 DEF InOrder, Asked
  \* The future that is taken is the call's own or an earlier one's.
  <2>10. ~inherited => number[futures[k]] <= number[a]
    <3> SUFFICES ASSUME ~inherited PROVE number[futures[k]] <= number[a]
      OBVIOUS
    <3>1. PICK i \in 1..Len(futures) : futures[i] = a
      BY <1>2, <1>8 DEF PendingHaveFutures, HasFuture
    <3>2. i \in Matching(a)
      BY <1>2, <3>1, QueryAssumption DEF Matching, Matches
    <3>3. k <= i
      BY <2>2, <3>2
    <3>4. CASE k = i
      BY <1>1, <1>2, <3>1, <3>4
    <3>5. CASE k < i
      BY <1>1, <1>2, <2>3, <3>1, <3>5 DEF InOrder
    <3> QED
      BY <2>3, <3>3, <3>4, <3>5
  <2>11. PendingHaveFutures'
    <3> SUFFICES ASSUME alive, ~inherited PROVE PendingHaveFutures'
      BY <1>1 DEF PendingHaveFutures
    <3>1. number[futures[k]] <= number[a]
      BY <2>10
    <3>2. \A q \in Query : number[a] < number[q] => q # futures[k]
      BY <1>1, <1>2, <2>3, <3>1
    <3>3. \A q \in Query : HasFuture(q) /\ number[a] < number[q] => HasFuture(q)'
      BY <2>5, <3>2
    <3>4. \A i \in 1..Len(to_ss) : IsLocate(i) => HasFuture(to_ss[i].req)
      BY DEF PendingHaveFutures
    <3>5. \A i \in 1..Len(to_ss) : IsLocate(i) => \E n \in 1..Len(futures') : futures'[n] = to_ss[i].req
      BY <1>4, <1>5, <3>3, <3>4 DEF HasFuture
    <3>6. \A i \in 1..Len(to_ud') : to_ud'[i] \in Query /\ HasFuture(to_ud'[i])
      BY <1>1, <1>2 DEF PendingHaveFutures
    <3>7. \A i \in 1..Len(to_ud') : \E n \in 1..Len(futures') : futures'[n] = to_ud'[i]
      BY <1>5, <3>3, <3>6 DEF HasFuture
    <3> QED
      BY <1>1, <1>3, <3>5, <3>7 DEF PendingHaveFutures, HasFuture
  <2>12. NeverOlder'
    <3> SUFFICES ASSUME ~inherited, NEW q \in Answered'
                 PROVE  number[q] <= number[outcome'[q]]
      BY <1>1 DEF NeverOlder
    <3>1. CASE q = futures[k] /\ outcome' # outcome
      BY <1>1, <2>1, <2>3, <2>10, <3>1
    <3>2. CASE outcome'[q] = outcome[q]
      BY <3>2 DEF NeverOlder, Answered
    <3> QED
      BY <1>1, <2>1, <2>3, <3>1, <3>2 DEF Answered
  <2> QED
    BY <2>6, <2>8, <2>9, <2>11, <2>12
<1> QED
  BY <1>7, <1>8 DEF CheckFutures, a

\* The inductive invariant: calls, questions, answers and futures are in one
\* order, and whoever waits has a future.
THEOREM Invariance == Spec => []IInv
<1>1. IInv /\ [Next]_vars => IInv'
  <2> SUFFICES ASSUME IInv, [Next]_vars PROVE IInv'
    OBVIOUS
  <2>1. CASE UNCHANGED vars
    BY <2>1 DEF vars, IInv, TypeOK, CallsNumbered, Asked, InOrder, IsLocate, PendingHaveFutures, HasFuture,
                NeverOlder, Answered
  <2>2. CASE HandleGenerate \/ Annihilate
    <3>1. control' \in Seq(Control) /\ registered' \in BOOLEAN
      <4>1. /\ control \in Seq(Control)
            /\ \A m \in Control : Append(control, m) \in Seq(Control)
            /\ "SET_CHANNEL" \in Control /\ "REMOVE_CHANNEL" \in Control
        BY DEF IInv, TypeOK, Control
      <4> QED
        BY <2>2, <4>1 DEF HandleGenerate, Annihilate
    <3>2. /\ to_ss # <<>> /\ to_ss' = Tail(to_ss) /\ lost' \in 0..MaxLost
          /\ UNCHANGED <<life, alive, posts, posting, listening, to_ud, futures, outcome, callvars, restarts>>
      BY <2>2 DEF HandleGenerate, Annihilate, IInv, TypeOK
    <3> QED
      BY <3>1, <3>2, TakenStep
  <2>3. CASE LoseLocate
    <3>1. lost' \in 0..MaxLost
      BY <2>3, QueryAssumption DEF LoseLocate, IInv, TypeOK
    <3> QED
      BY <2>3, <3>1, TakenStep DEF LoseLocate, callvars, server, restarts, IInv, TypeOK
  <2> QED
    BY <2>1, <2>2, <2>3, OnUpstreamConnectStep, AddPostRemoveStep, CrashStep, ConnectionLostStep,
       RouteStep, ReceiveControlStep, HandleLocateStep,
       CheckFuturesStep, QueryLocationStep, TimeoutStep DEF Next
<1> QED
  BY Initially, <1>1, PTL DEF Spec

\* Types; and whoever waits has a future (query_location).
THEOREM TypeCorrect == Spec => []TypeOK
<1>1. IInv => TypeOK
  BY DEF IInv
<1> QED
  BY Invariance, <1>1, PTL

\* No late, lost or foreign answer makes a call take what was read before it
\* asked, for any number of calls with any contexts (check_futures).
THEOREM AnswersAreFresh == Spec => []NeverOlder
<1>1. IInv => NeverOlder
  BY DEF IInv
<1> QED
  BY Invariance, <1>1, PTL

-----------------------------------------------------------------------------
(* An uberdog that has not been restarted.                                   *)

Pending(r) ==
    \/ \E i \in 1..Len(to_ud) : to_ud[i] = r
    \/ \E i \in 1..Len(to_ss) : IsLocate(i) /\ to_ss[i].req = r

\* Nothing happens before the first connection, only a restart inherits
\* answers, and while none is lost a future in the list waits for its own.
FirstLife ==
    /\ life = 0 => to_ss = <<>> /\ to_ud = <<>> /\ futures = <<>> /\ Answered = {}
    /\ life <= 1 => ~inherited
    /\ alive /\ lost = 0 /\ life = 1 => \A k \in 1..Len(futures) : Pending(futures[k])

Deletes(m) == m = DeleteRam \/ m = PostRemove

\* What the object depends on: whose generate or deletion comes last.
GenerateLeads ==
    \E i \in 1..Len(to_ss) : /\ to_ss[i] = Generate
                             /\ \A j \in 1..Len(to_ss) : j > i => ~Deletes(to_ss[j])
NothingDeletes == registered /\ \A i \in 1..Len(to_ss) : ~Deletes(to_ss[i])

ObjectStays ==
    alive /\ ~hasty => posts \subseteq {life} /\ (GenerateLeads \/ NothingDeletes)

\* What is appended to a queue leaves the rest of it where it was.
LEMMA Appended ==
    ASSUME NEW S, NEW s \in Seq(S), NEW m \in S
    PROVE  /\ Append(s, m) \in Seq(S) /\ Len(Append(s, m)) = Len(s) + 1 /\ Len(s) \in Nat
           /\ \A i \in 1..Len(s) : i \in 1..Len(Append(s, m)) /\ Append(s, m)[i] = s[i]
           /\ Append(s, m)[Len(s) + 1] = m
           /\ \A i \in 1..Len(Append(s, m)) : i \in 1..Len(s) \/ i = Len(s) + 1
OBVIOUS

\* A question that was pending is so when a message is added, and when the
\* first message is taken and is not that question.
LEMMA PendingAppended ==
    ASSUME IInv, NEW m \in Message, to_ss' = Append(to_ss, m), to_ud' = to_ud, NEW r, Pending(r)
    PROVE  Pending(r)'
<1>1. to_ss \in Seq(Message)
  BY DEF IInv, TypeOK
<1> QED
  BY <1>1, Appended DEF Pending, IsLocate

LEMMA PendingRouted ==
    ASSUME IInv, Route, to_ud' = to_ud, NEW r, Pending(r)
    PROVE  Pending(r)'
<1>1. CASE \E i \in 1..Len(to_ud) : to_ud[i] = r
  BY <1>1 DEF Pending
<1>2. ASSUME NEW i \in 1..Len(to_ss), IsLocate(i), to_ss[i].req = r PROVE Pending(r)'
  <2>1. to_ss[i] # PostRemove
    BY <1>2 DEF IsLocate, PostRemove
  <2>2. PICK j \in 1..Len(to_ss') : to_ss'[j] = to_ss[i]
    BY <2>1, Routed
  <2> QED
    BY <1>2, <2>2 DEF Pending, IsLocate
<1> QED
  BY <1>1, <1>2 DEF Pending

LEMMA PendingTaken ==
    ASSUME IInv, to_ss # <<>>, to_ss' = Tail(to_ss), NEW r, Pending(r),
           \/ to_ud' = to_ud /\ Head(to_ss).type # "LOCATE"
           \/ HandleLocate
    PROVE  Pending(r)'
<1>1. to_ss \in Seq(Message) /\ to_ud \in Seq(Query) /\ to_ss[1] = Head(to_ss) /\ 1 \in 1..Len(to_ss)
  BY DEF IInv, TypeOK
<1>2. ASSUME NEW i \in 1..Len(to_ss), IsLocate(i), to_ss[i].req = r, i # 1 PROVE Pending(r)'
  <2>1. i - 1 \in 1..Len(to_ss') /\ to_ss'[i - 1] = to_ss[i]
    BY <1>1, <1>2
  <2> QED
    BY <1>2, <2>1 DEF Pending, IsLocate
<1>3. CASE to_ud' = to_ud /\ Head(to_ss).type # "LOCATE"
  BY <1>1, <1>2, <1>3 DEF Pending, IsLocate
<1>4. CASE HandleLocate
  <2>1. to_ss[1].req \in Query
    BY <1>1, <1>4, MessageKinds DEF HandleLocate, IInv
  <2>2. to_ud' = Append(to_ud, to_ss[1].req)
    BY <1>1, <1>4 DEF HandleLocate
  <2>3. ASSUME NEW i \in 1..Len(to_ud), to_ud[i] = r PROVE Pending(r)'
    BY <1>1, <2>1, <2>2, <2>3, Appended DEF Pending
  <2>4. ASSUME to_ss[1].req = r PROVE Pending(r)'
    BY <1>1, <2>1, <2>2, <2>4, Appended DEF Pending
  <2> QED
    BY <1>2, <2>3, <2>4 DEF Pending
<1> QED
  BY <1>3, <1>4

\* Nobody gets an answer but by CheckFutures.
LEMMA NotAnswered ==
    ASSUME IInv, Crash \/ (\E r \in Query : QueryLocation(r) \/ Timeout(r))
    PROVE  \A q \in Answered' : q \in Answered /\ outcome'[q] = outcome[q]
<1>1. outcome \in [Query -> Outcomes \union Query]
  BY DEF IInv, TypeOK
<1>2. CASE Crash
  BY <1>1, <1>2 DEF Crash, Answered, Outcomes
<1>3. CASE \E r \in Query : QueryLocation(r) \/ Timeout(r)
  BY <1>1, <1>3 DEF QueryLocation, Timeout, Answered, Outcomes
<1> QED
  BY <1>2, <1>3

\* While futures and pending answers are the same calls, in one order, the
\* first future is that of the first answer.
LEMMA FirstFuture ==
    ASSUME IInv, alive, ~inherited, to_ud # <<>>,
           \A k \in 1..Len(futures) : Pending(futures[k])
    PROVE  /\ 1 \in 1..Len(futures) /\ futures[1] = Head(to_ud)
           /\ Matching(Head(to_ud)) # {} /\ FirstMatch(Head(to_ud)) = 1
<1> DEFINE a == Head(to_ud)
<1>1. /\ to_ud \in Seq(Query) /\ futures \in Seq(Query) /\ number \in [Query -> Nat]
      /\ 1 \in 1..Len(to_ud) /\ to_ud[1] = a /\ a \in Query
  BY DEF IInv, TypeOK
<1> HIDE DEF a
<1>2. PICK n \in 1..Len(futures) : futures[n] = a
  BY <1>1 DEF IInv, PendingHaveFutures, HasFuture
<1>3. 1 \in 1..Len(futures) /\ futures[1] \in Query
  BY <1>1, <1>2
<1>4. number[a] <= number[futures[1]]
  <2>1. CASE \E i \in 1..Len(to_ud) : to_ud[i] = futures[1]
    <3>1. PICK i \in 1..Len(to_ud) : to_ud[i] = futures[1]
      BY <2>1
    <3>2. i # 1 => number[a] < number[futures[1]]
      BY <1>1, <3>1 DEF IInv, InOrder
    <3> QED
      BY <1>1, <1>3, <3>1, <3>2
  <2>2. CASE \E i \in 1..Len(to_ss) : IsLocate(i) /\ to_ss[i].req = futures[1]
    <3>1. PICK i \in 1..Len(to_ss) : IsLocate(i) /\ to_ss[i].req = futures[1]
      BY <2>2
    <3>2. number[a] < number[to_ss[i].req]
      BY <1>1, <3>1 DEF IInv, InOrder
    <3> QED
      BY <1>1, <1>3, <3>1, <3>2
  <2> QED
    BY <1>3, <2>1, <2>2 DEF Pending
<1>5. n = 1
  <2> SUFFICES ASSUME 1 < n PROVE FALSE
    BY <1>2
  <2>1. number[futures[1]] < number[a]
    BY <1>2, <1>3 DEF IInv, InOrder
  <2> QED
    BY <1>1, <1>3, <1>4, <2>1
<1>6. 1 \in Matching(a)
  BY <1>1, <1>2, <1>3, <1>5 DEF Matching, Matches
<1>7. FirstMatch(a) \in Matching(a) /\ FirstMatch(a) <= 1
  BY <1>1, <1>6, FirstIsLeast DEF IInv
<1>8. FirstMatch(a) = 1
  BY <1>1, <1>7 DEF Matching
<1> QED
  BY <1>2, <1>3, <1>5, <1>6, <1>8 DEF a

LEMMA FirstAnswer ==
    ASSUME IInv, FirstLife, OwnAnswer, CheckFutures
    PROVE  FirstLife' /\ OwnAnswer'
<1> DEFINE a == Head(to_ud)
<1>1. /\ to_ud \in Seq(Query) /\ to_ud # <<>> /\ to_ud' = Tail(to_ud) /\ futures \in Seq(Query)
      /\ number \in [Query -> Nat] /\ outcome \in [Query -> Outcomes \union Query]
      /\ UNCHANGED <<life, alive, posts, posting, server, to_ss, calls, number, inherited, lost>>
  BY DEF CheckFutures, IInv, TypeOK, callvars, server, restarts
<1>2. life # 0 /\ (life <= 1 => ~inherited)
  BY <1>1 DEF FirstLife
<1>3. CASE ~(alive /\ lost = 0 /\ life = 1)
  <2>1. CASE UNCHANGED <<futures, outcome>>
    BY <1>1, <1>2, <1>3, <2>1 DEF FirstLife, OwnAnswer, Answered
  <2>2. CASE alive
    BY <1>1, <1>2, <1>3, <2>2 DEF FirstLife, OwnAnswer
  <2> QED
    BY <2>1, <2>2 DEF CheckFutures
<1>4. CASE alive /\ lost = 0 /\ life = 1
  <2>1. \A k \in 1..Len(futures) : Pending(futures[k])
    BY <1>4 DEF FirstLife
  <2>2. /\ 1 \in 1..Len(futures) /\ futures[1] = a
        /\ Matching(a) # {} /\ FirstMatch(a) = 1
    BY <1>1, <1>2, <1>4, <2>1, FirstFuture
  <2>3. /\ futures' = RemoveAt(futures, 1)
        /\ outcome' = IF Cancelled(a) THEN outcome ELSE [outcome EXCEPT ![a] = a]
    BY <1>4, <2>2 DEF CheckFutures
  <2>4. a \in Query /\ to_ud[1] = a
    BY <1>1
  <2> HIDE DEF a
  <2>5. OwnAnswer'
    BY <1>1, <1>4, <2>3, <2>4 DEF OwnAnswer, Answered
  <2>6. /\ Len(futures') = Len(futures) - 1
        /\ \A k \in 1..Len(futures') : /\ k + 1 \in 1..Len(futures) /\ futures'[k] = futures[k + 1]
                                       /\ futures'[k] # a
    <3>1. /\ Len(futures') = Len(futures) - 1 /\ Len(futures') \in Nat
          /\ \A k \in 1..Len(futures') : futures'[k] = IF k < 1 THEN futures[k] ELSE futures[k + 1]
      BY <1>1, <2>2, <2>3, Removal
    <3>2. \A k \in 1..Len(futures') : k + 1 \in 1..Len(futures) /\ futures'[k] = futures[k + 1] /\ 1 < k + 1
      <4> DEFINE n == Len(futures')
      <4>1. n \in Nat /\ Len(futures) = n + 1
        BY <1>1, <3>1
      <4> HIDE DEF n
      <4>2. \A k \in 1..n : ~(k < 1) /\ k + 1 \in 1..Len(futures) /\ 1 < k + 1
        BY <4>1
      <4> QED
        BY <3>1, <4>2 DEF n
    <3>3. \A k \in 1..Len(futures') : number[futures[1]] < number[futures[k + 1]]
      BY <2>2, <3>2 DEF IInv, InOrder
    <3>4. \A k \in 1..Len(futures') : futures[k + 1] # a
      BY <1>1, <2>2, <2>4, <3>3
    <3> QED
      BY <3>1, <3>2, <3>4
  <2>7. \A k \in 1..Len(futures') : Pending(futures[k])'
    <3> SUFFICES ASSUME NEW k \in 1..Len(futures') PROVE Pending(futures[k])'
      OBVIOUS
    <3>1. Pending(futures'[k]) /\ futures'[k] # a
      BY <2>1, <2>6
    <3>2. CASE \E i \in 1..Len(to_ss) : IsLocate(i) /\ to_ss[i].req = futures'[k]
      BY <1>1, <3>2 DEF Pending, IsLocate
    <3>3. CASE \E i \in 1..Len(to_ud) : to_ud[i] = futures'[k]
      <4>1. PICK i \in 1..Len(to_ud) : to_ud[i] = futures'[k]
        BY <3>3
      <4>2. i # 1
        BY <2>4, <3>1, <4>1
      <4>3. to_ud' = Tail(to_ud) /\ to_ud # <<>> /\ to_ud \in Seq(Query)
        BY <1>1
      <4>4. i - 1 \in 1..Len(to_ud') /\ to_ud'[i - 1] = to_ud[i]
        BY <4>1, <4>2, <4>3
      <4> QED
        BY <4>1, <4>4 DEF Pending
    <3> QED
      BY <3>1, <3>2, <3>3 DEF Pending
  <2> QED
    BY <1>1, <1>2, <1>4, <2>5, <2>7 DEF FirstLife
<1> QED
  BY <1>3, <1>4

LEMMA FirstLifeStep ==
    ASSUME IInv, FirstLife, OwnAnswer, [Next]_vars
    PROVE  FirstLife' /\ OwnAnswer'
<1> USE DEF callvars, server, restarts
<1>1. CASE UNCHANGED vars
  BY <1>1 DEF vars, FirstLife, OwnAnswer, Answered, Pending, IsLocate
<1>2. CASE OnUpstreamConnect
  <2>1. life \in Nat
    BY QueryAssumption DEF IInv, TypeOK
  <2>2. life' = life + 1 /\ UNCHANGED <<to_ud, futures, outcome, lost>>
    BY <1>2 DEF OnUpstreamConnect
  <2>3. life' # 0 /\ (life' <= 1 => life = 0)
    BY <2>1, <2>2
  <2>4. life' <= 1 => ~inherited' /\ futures' = <<>> /\ Answered' = {}
    <3> SUFFICES ASSUME life = 0 PROVE ~inherited' /\ futures' = <<>> /\ Answered' = {}
      BY <2>3
    <3>1. to_ss = <<>> /\ to_ud = <<>> /\ futures = <<>> /\ Answered = {} /\ ~inherited
      BY DEF FirstLife
    <3>2. \A r \in Query : ~Contains(to_ss, Locate(r))
      BY <3>1 DEF Contains
    <3> QED
      BY <1>2, <3>1, <3>2 DEF OnUpstreamConnect, Answered
  <2>5. life' = 1 => life' <= 1
    OBVIOUS
  <2> QED
    BY <2>3, <2>4, <2>5 DEF FirstLife, OwnAnswer
<1>3. CASE AddPostRemove
  BY <1>3 DEF AddPostRemove, FirstLife, OwnAnswer, Answered, Pending, IsLocate
<1>4. CASE Crash
  <2>1. life' = life /\ ~alive' /\ UNCHANGED <<to_ss, to_ud, inherited, lost>> /\ futures' = <<>>
    BY <1>4 DEF Crash
  <2> QED
    BY <1>4, <2>1, NotAnswered DEF FirstLife, OwnAnswer
<1>5. ASSUME NEW n \in posts, ConnectionLost(n) PROVE FirstLife' /\ OwnAnswer'
  <2>1. life # 0
    BY QueryAssumption DEF IInv, TypeOK
  <2>2. /\ to_ss' = Append(to_ss, PostRemove) /\ PostRemove \in Message
        /\ UNCHANGED <<life, alive, to_ud, futures, outcome, inherited, lost>>
    BY <1>5 DEF ConnectionLost, Message
  <2>3. \A r : Pending(r) => Pending(r)'
    BY <2>2, PendingAppended
  <2> QED
    BY <2>1, <2>2, <2>3 DEF FirstLife, OwnAnswer, Answered
<1>6. CASE HandleGenerate \/ Annihilate \/ HandleLocate
  <2>1. /\ to_ss # <<>> /\ to_ss' = Tail(to_ss) /\ UNCHANGED <<life, alive, futures, outcome, inherited, lost>>
        /\ \/ to_ud' = to_ud /\ Head(to_ss).type # "LOCATE"
           \/ HandleLocate
    BY <1>6 DEF HandleGenerate, Annihilate, HandleLocate, Generate, DeleteRam
  <2>2. \A r : Pending(r) => Pending(r)'
    BY <2>1, PendingTaken
  <2> QED
    BY <2>1, <2>2 DEF FirstLife, OwnAnswer, Answered
<1>7. CASE LoseLocate
  <2>1. to_ss # <<>> /\ lost' # 0 /\ UNCHANGED <<life, alive, futures, outcome, inherited>>
    BY <1>7, QueryAssumption DEF LoseLocate, IInv, TypeOK
  <2> QED
    BY <2>1 DEF FirstLife, OwnAnswer, Answered
<1>8. CASE CheckFutures
  BY <1>8, FirstAnswer
<1>9. ASSUME NEW r \in Query, QueryLocation(r) PROVE FirstLife' /\ OwnAnswer'
  <2>1. /\ life # 0 /\ to_ss \in Seq(Message) /\ futures \in Seq(Query) /\ Locate(r) \in Message
        /\ to_ss' = Append(to_ss, Locate(r)) /\ futures' = Append(futures, r)
        /\ UNCHANGED <<life, alive, to_ud, inherited, lost>>
    BY <1>9 DEF QueryLocation, IInv, TypeOK, Message
  <2>2. \A q : Pending(q) => Pending(q)'
    BY <2>1, PendingAppended
  <2>3. Pending(r)'
    <3>1. Len(to_ss) + 1 \in 1..Len(to_ss') /\ to_ss'[Len(to_ss) + 1] = Locate(r)
      BY <2>1
    <3> QED
      BY <3>1 DEF Pending, IsLocate, Locate
  <2>4. \A k \in 1..Len(futures') : \/ k \in 1..Len(futures) /\ futures'[k] = futures[k]
                                    \/ futures'[k] = r
    BY <2>1, Appended
  <2> QED
    BY <1>9, <2>1, <2>2, <2>3, <2>4, NotAnswered DEF FirstLife, OwnAnswer
<1>10. ASSUME NEW r \in Query, Timeout(r) PROVE FirstLife' /\ OwnAnswer'
  <2>1. UNCHANGED <<life, alive, futures, to_ss, to_ud, inherited, lost>>
    BY <1>10 DEF Timeout
  <2> QED
    BY <1>10, <2>1, NotAnswered DEF FirstLife, OwnAnswer, Pending, IsLocate
<1>11. CASE Route
  <2>1. life # 0
    BY <1>11 DEF Route, FirstLife
  <2>2. UNCHANGED <<life, alive, to_ud, futures, outcome, inherited, lost>>
    BY <1>11 DEF Route
  <2>3. \A r : Pending(r) => Pending(r)'
    BY <1>11, <2>2, PendingRouted
  <2> QED
    BY <2>1, <2>2, <2>3 DEF FirstLife, OwnAnswer, Answered
<1>12. CASE ReceiveControl
  BY <1>12 DEF ReceiveControl, FirstLife, OwnAnswer, Answered, Pending, IsLocate
<1> QED
  BY <1>1, <1>2, <1>3, <1>4, <1>5, <1>6, <1>7, <1>8, <1>9, <1>10, <1>11, <1>12 DEF Next

\* The object stays with its uberdog.
LEMMA ObjectStep == ASSUME IInv, ObjectStays, [Next]_vars PROVE ObjectStays'
<1> USE DEF callvars, server, restarts
<1>1. to_ss \in Seq(Message)
  BY DEF IInv, TypeOK
<1>2. ~Deletes(Generate) /\ Generate \in Message
  BY DEF Deletes, Generate, DeleteRam, PostRemove, Message
<1>3. CASE \/ UNCHANGED vars \/ CheckFutures \/ Crash \/ AddPostRemove \/ ReceiveControl
           \/ \E r \in Query : Timeout(r)
  BY <1>3 DEF vars, CheckFutures, Crash, AddPostRemove, ReceiveControl, Timeout,
      ObjectStays, GenerateLeads, NothingDeletes
<1>4. CASE OnUpstreamConnect
  <2>1. to_ss' = Append(to_ss, Generate) /\ posts' = posts /\ (~hasty' => posts = {})
    BY <1>4 DEF OnUpstreamConnect
  <2>2. GenerateLeads'
    <3>1. /\ Len(to_ss) + 1 \in 1..Len(to_ss') /\ to_ss'[Len(to_ss) + 1] = Generate
          /\ \A j \in 1..Len(to_ss') : ~(j > Len(to_ss) + 1)
      BY <1>1, <1>2, <2>1
    <3> QED
      BY <3>1 DEF GenerateLeads
  <2> QED
    BY <2>1, <2>2 DEF ObjectStays
<1>5. ASSUME NEW n \in posts, ConnectionLost(n) PROVE ObjectStays'
  BY <1>5 DEF ConnectionLost, ObjectStays
<1>6. ASSUME NEW r \in Query, QueryLocation(r) PROVE ObjectStays'
  <2>1. /\ to_ss' = Append(to_ss, Locate(r)) /\ Locate(r) \in Message /\ ~Deletes(Locate(r))
        /\ UNCHANGED <<life, alive, posts, registered, hasty>>
    BY <1>6 DEF QueryLocation, Message, Locate, Deletes, DeleteRam, PostRemove
  <2>2. GenerateLeads => GenerateLeads'
    BY <1>1, <2>1, Appended DEF GenerateLeads
  <2>3. NothingDeletes => NothingDeletes'
    BY <1>1, <2>1, Appended DEF NothingDeletes
  <2> QED
    BY <2>1, <2>2, <2>3 DEF ObjectStays
<1>7. CASE HandleGenerate \/ Annihilate \/ HandleLocate \/ LoseLocate
  <2>1. /\ to_ss # <<>> /\ to_ss' = Tail(to_ss) /\ UNCHANGED <<life, alive, posts, hasty>>
        /\ Head(to_ss) = to_ss[1] /\ 1 \in 1..Len(to_ss)
        /\ \A i \in 1..Len(to_ss') : i + 1 \in 1..Len(to_ss) /\ to_ss'[i] = to_ss[i + 1]
        /\ \A i \in 1..Len(to_ss) : i # 1 => i - 1 \in 1..Len(to_ss') /\ to_ss'[i - 1] = to_ss[i]
    <3>1. to_ss # <<>> /\ to_ss' = Tail(to_ss) /\ UNCHANGED <<life, alive, posts, hasty>>
      BY <1>7 DEF HandleGenerate, Annihilate, HandleLocate, LoseLocate
    <3> QED
      BY <1>1, <3>1
  <2>2. \/ Head(to_ss) = Generate /\ registered'
        \/ Head(to_ss) = DeleteRam
        \/ Head(to_ss) # Generate /\ registered' = registered
    BY <1>7 DEF HandleGenerate, Annihilate, HandleLocate, LoseLocate, Generate
  <2>3. ASSUME GenerateLeads PROVE GenerateLeads' \/ NothingDeletes'
    <3>1. PICK i \in 1..Len(to_ss) : /\ to_ss[i] = Generate
                                     /\ \A j \in 1..Len(to_ss) : j > i => ~Deletes(to_ss[j])
      BY <2>3 DEF GenerateLeads
    <3>2. CASE i = 1
      <4>1. registered'
        BY <1>2, <2>1, <2>2, <3>1, <3>2 DEF Deletes
      <4>2. \A j \in 1..Len(to_ss') : ~Deletes(to_ss'[j])
        BY <2>1, <3>1, <3>2
      <4> QED
        BY <4>1, <4>2 DEF NothingDeletes
    <3>3. CASE i # 1
      <4>1. i - 1 \in 1..Len(to_ss') /\ to_ss'[i - 1] = Generate
        BY <2>1, <3>1, <3>3
      <4>2. \A j \in 1..Len(to_ss') : j > i - 1 => ~Deletes(to_ss'[j])
        BY <2>1, <3>1
      <4> QED
        BY <4>1, <4>2 DEF GenerateLeads
    <3> QED
      BY <3>2, <3>3
  <2>4. ASSUME NothingDeletes PROVE NothingDeletes'
    <3>1. registered /\ \A i \in 1..Len(to_ss) : ~Deletes(to_ss[i])
      BY <2>4 DEF NothingDeletes
    <3>2. registered'
      BY <2>1, <2>2, <3>1 DEF Deletes
    <3>3. \A i \in 1..Len(to_ss') : ~Deletes(to_ss'[i])
      BY <2>1, <3>1
    <3> QED
      BY <3>2, <3>3 DEF NothingDeletes
  <2> QED
    BY <2>1, <2>3, <2>4 DEF ObjectStays
<1>8. CASE Route
  <2>1. PICK up \in [1..Len(to_ss') -> 1..Len(to_ss)] :
           /\ \A i, j \in 1..Len(to_ss') : i < j => up[i] < up[j]
           /\ \A j \in 1..Len(to_ss') : \/ to_ss'[j] = to_ss[up[j]]
                                        \/ to_ss'[j] = DeleteRam /\ to_ss[up[j]] = PostRemove
           /\ \A i \in 1..Len(to_ss) : to_ss[i] # PostRemove => \E j \in 1..Len(to_ss') : up[j] = i
    BY <1>8, Routed
  <2>2. \A j \in 1..Len(to_ss') : up[j] \in 1..Len(to_ss) /\ (Deletes(to_ss'[j]) => Deletes(to_ss[up[j]]))
    BY <2>1 DEF Deletes
  <2>3. UNCHANGED <<life, alive, posts, registered, hasty>>
    BY <1>8 DEF Route
  <2>4. ASSUME GenerateLeads PROVE GenerateLeads'
    <3>1. PICK i \in 1..Len(to_ss) : /\ to_ss[i] = Generate
                                     /\ \A j \in 1..Len(to_ss) : j > i => ~Deletes(to_ss[j])
      BY <2>4 DEF GenerateLeads
    <3>2. to_ss[i] # PostRemove
      BY <3>1 DEF Generate, PostRemove
    <3>3. PICK n \in 1..Len(to_ss') : up[n] = i
      BY <2>1, <3>2
    <3>4. to_ss'[n] = Generate
      BY <2>1, <3>1, <3>2, <3>3
    <3>5. \A j \in 1..Len(to_ss') : j > n => ~Deletes(to_ss'[j])
      BY <2>1, <2>2, <3>1, <3>3
    <3> QED
      BY <3>4, <3>5 DEF GenerateLeads, Deletes
  <2>5. NothingDeletes => NothingDeletes'
    BY <2>2, <2>3 DEF NothingDeletes, Deletes
  <2> QED
    BY <2>3, <2>4, <2>5 DEF ObjectStays
<1> QED
  BY <1>3, <1>4, <1>5, <1>6, <1>7, <1>8 DEF Next

\* While no question is lost and the uberdog is not restarted, a call that is
\* answered gets its own answer, whatever timed out around it (check_futures).
THEOREM AnswersAreOwn == Spec => []OwnAnswer
<1>1. Init => FirstLife /\ OwnAnswer
  BY DEF Init, FirstLife, OwnAnswer, Answered, Outcomes
<1>2. IInv /\ FirstLife /\ OwnAnswer /\ [Next]_vars => FirstLife' /\ OwnAnswer'
  BY FirstLifeStep
<1> QED
  BY Invariance, <1>1, <1>2, PTL DEF Spec

\* The post remove of an earlier connection does not delete the object of an
\* uberdog that came after it was carried out (on_upstream_connect).
THEOREM ObjectIsKept == Spec => []ObjectKept
<1>1. Init => ObjectStays
  BY DEF Init, ObjectStays
<1>2. IInv /\ ObjectStays /\ [Next]_vars => ObjectStays'
  BY ObjectStep
<1>3. IInv /\ ObjectStays => ObjectKept
  BY DEF ObjectStays, ObjectKept, GenerateLeads, NothingDeletes
<1> QED
  BY Invariance, <1>1, <1>2, <1>3, PTL DEF Spec
=============================================================================
