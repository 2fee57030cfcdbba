---------------------------- MODULE Database_proofs ----------------------------
(* Proofs about Database, for any requests, fields and size of the pool.     *)
EXTENDS Database, FiniteSetTheorems, TLAPS

\* What a write leaves in the table: the ids are those there were and, for a
\* create, its own; and every row has all fields.
LEMMA WrittenRows ==
    ASSUME RequestAssumption, rows \in [DOMAIN rows -> [Field -> Request \union {Null}]],
           NEW r \in Request
    PROVE  /\ DOMAIN Written(r) = IF r \in Create THEN DOMAIN rows \union {do_id[r]} ELSE DOMAIN rows
           /\ Written(r) \in [DOMAIN Written(r) -> [Field -> Request \union {Null}]]
<1>1. CASE r \in Create
  BY <1>1 DEF Written
<1>2. CASE r \notin Create
  BY <1>2 DEF Written
<1> QED
  BY <1>1, <1>2

LEMMA Initially == Init => IInv
<1> SUFFICES ASSUME Init PROVE IInv
  OBVIOUS
<1>1. IsFiniteSet(used) /\ Cardinality(used) = 0
  BY FS_EmptySet DEF Init
<1>2. TypeOK
  BY <1>1, RequestAssumption DEF Init, TypeOK, Steps, NoId, Request
<1>3. PoolAccounted
  BY <1>1, RequestAssumption DEF Init, PoolAccounted, Dead
<1>4. OrphansExplained /\ KindsApart /\ IdsApart
  BY RequestAssumption DEF Init, OrphansExplained, KindsApart, IdsApart, NoId, Request
<1> QED
  BY <1>2, <1>3, <1>4 DEF IInv

LEMMA ReceiveStep == ASSUME IInv, NEW r \in Request, Receive(r) PROVE IInv'
<1> USE RequestAssumption DEF Receive, Goto, IInv, TypeOK, Steps, NoId, Request
<1>1. TypeOK'
  BY DEF KindsApart, IdsApart
<1>2. PoolAccounted'
  BY DEF PoolAccounted, Dead, Incomplete
<1>3. OrphansExplained'
  BY DEF OrphansExplained, IdsApart, KindsApart
<1>4. KindsApart'
  BY DEF KindsApart
<1>5. IdsApart'
  BY DEF IdsApart, KindsApart
<1> QED
  BY <1>1, <1>2, <1>3, <1>4, <1>5

LEMMA RefuseStep == ASSUME IInv, NEW r \in Request, Refuse(r) PROVE IInv'
<1> USE RequestAssumption DEF Refuse, Goto, IInv, TypeOK, Steps, NoId, Request
<1>1. TypeOK'
  BY DEF KindsApart, IdsApart
<1>2. PoolAccounted'
  BY DEF PoolAccounted, Dead, Incomplete
<1>3. OrphansExplained'
  BY DEF OrphansExplained, IdsApart, KindsApart
<1>4. KindsApart'
  BY DEF KindsApart
<1>5. IdsApart'
  BY DEF IdsApart, KindsApart
<1> QED
  BY <1>1, <1>2, <1>3, <1>4, <1>5

LEMMA AcquireStep == ASSUME IInv, NEW r \in Request, Acquire(r) PROVE IInv'
<1> USE RequestAssumption DEF Acquire, Goto, IInv, TypeOK, Steps, NoId, Request
<1>1. TypeOK'
  <2>1. IsFiniteSet(used \union {r})
    BY FS_AddElement
  <2> QED
    BY <2>1 DEF KindsApart, IdsApart
<1>2. PoolAccounted'
  <2>1. r \notin used
    BY DEF PoolAccounted, Dead
  <2>2. Cardinality(used \union {r}) = Cardinality(used) + 1
    BY <2>1, FS_AddElement
  <2>3. Cardinality(used) \in Nat
    BY FS_CardinalityType
  <2>4. Cardinality(used') <= PoolSize
    BY <2>2, <2>3
  <2> QED
    BY <2>4 DEF PoolAccounted, Dead, Incomplete
<1>3. OrphansExplained'
  BY DEF OrphansExplained, IdsApart, KindsApart
<1>4. KindsApart'
  BY DEF KindsApart
<1>5. IdsApart'
  BY DEF IdsApart, KindsApart
<1> QED
  BY <1>1, <1>2, <1>3, <1>4, <1>5

LEMMA FinishStep == ASSUME IInv, NEW r \in Request, Finish(r) PROVE IInv'
<1> USE RequestAssumption DEF Finish, Goto, IInv, TypeOK, Steps, NoId, Request
<1>1. TypeOK'
  <2>1. IsFiniteSet(used \ {r})
    BY FS_RemoveElement
  <2> QED
    BY <2>1 DEF KindsApart, IdsApart
<1>2. PoolAccounted'
  <2>1. used' \in SUBSET used
    OBVIOUS
  <2>2. Cardinality(used') <= Cardinality(used) /\ IsFiniteSet(used')
    BY <2>1, FS_Subset
  <2>3. Cardinality(used') \in Nat /\ Cardinality(used) \in Nat
    BY <2>2, FS_CardinalityType
  <2>4. Cardinality(used') <= PoolSize
    BY <2>2, <2>3 DEF PoolAccounted
  <2> QED
    BY <2>4 DEF PoolAccounted, Dead, Incomplete
<1>3. OrphansExplained'
  BY DEF OrphansExplained, IdsApart, KindsApart
<1>4. KindsApart'
  BY DEF KindsApart
<1>5. IdsApart'
  BY DEF IdsApart, KindsApart
<1> QED
  BY <1>1, <1>2, <1>3, <1>4, <1>5

LEMMA InsertObjectStep == ASSUME IInv, NEW r \in Request, InsertObject(r) PROVE IInv'
<1> USE RequestAssumption DEF InsertObject, Goto, IInv, TypeOK, Steps, NoId, Request
<1>1. TypeOK'
  BY DEF KindsApart, IdsApart
<1>2. PoolAccounted'
  BY DEF PoolAccounted, Dead, Incomplete
<1>3. OrphansExplained'
  BY DEF OrphansExplained, IdsApart, KindsApart
<1>4. KindsApart'
  BY DEF KindsApart
<1>5. IdsApart'
  <2>1. r \in Create /\ auto_inc \notin objects /\ auto_inc # NoId
    BY DEF KindsApart
  <2>2. \A s \in Create : do_id[s] # auto_inc
    BY DEF IdsApart
  <2>3. pc[r] = "object" /\ result[r] = result'[r]
    OBVIOUS
  <2>4. \A s \in Create : do_id'[s] = IF s = r THEN auto_inc ELSE do_id[s]
    BY <2>1
  <2>5. \A s \in Create : do_id'[s] < auto_inc'
    BY <2>4 DEF IdsApart
  <2>6. \A s, t \in Create : s # t /\ do_id'[s] = do_id'[t] => do_id'[s] = NoId
    BY <2>2, <2>4 DEF IdsApart
  <2>7. auto_inc \notin DOMAIN rows
    BY <2>1 DEF IdsApart
  <2>8. DOMAIN rows' \subseteq objects'
    BY DEF IdsApart
  <2>9. result[r] = Null
    BY <2>1, <2>3 DEF IdsApart
  <2> QED
    BY <2>1, <2>3, <2>4, <2>5, <2>6, <2>7, <2>8, <2>9 DEF IdsApart
<1> QED
  BY <1>1, <1>2, <1>3, <1>4, <1>5

LEMMA CommitObjectStep == ASSUME IInv, NEW r \in Request, CommitObject(r) PROVE IInv'
<1> USE RequestAssumption DEF CommitObject, Goto, IInv, TypeOK, Steps, NoId, Request
<1>1. TypeOK'
  BY DEF KindsApart, IdsApart
<1>2. PoolAccounted'
  BY DEF PoolAccounted, Dead, Incomplete
<1>3. OrphansExplained'
  BY DEF OrphansExplained, IdsApart, KindsApart
<1>4. KindsApart'
  BY DEF KindsApart
<1>5. IdsApart'
  BY DEF IdsApart, KindsApart
<1> QED
  BY <1>1, <1>2, <1>3, <1>4, <1>5

LEMMA WriteRowStep == ASSUME IInv, NEW r \in Request, WriteRow(r) PROVE IInv'
<1> USE RequestAssumption DEF WriteRow, Goto, IInv, TypeOK, Steps, NoId, Request
<1>1. TypeOK'
  BY DEF KindsApart, IdsApart
<1>2. PoolAccounted'
  BY DEF PoolAccounted, Dead, Incomplete
<1>3. OrphansExplained'
  BY DEF OrphansExplained, IdsApart, KindsApart
<1>4. KindsApart'
  BY DEF KindsApart
<1>5. IdsApart'
  BY DEF IdsApart, KindsApart
<1> QED
  BY <1>1, <1>2, <1>3, <1>4, <1>5

LEMMA CommitRowStep == ASSUME IInv, NEW r \in Request, CommitRow(r) PROVE IInv'
<1> USE RequestAssumption DEF CommitRow, Goto, IInv, TypeOK, Steps, NoId, Request
<1>1. TypeOK'
  BY WrittenRows DEF KindsApart, IdsApart
<1>2. PoolAccounted'
  BY DEF PoolAccounted, Dead, Incomplete
<1>3. OrphansExplained'
  <2>1. DOMAIN rows \subseteq DOMAIN rows' /\ (r \in Create => do_id[r] \in DOMAIN rows')
    BY WrittenRows
  <2> SUFFICES ASSUME NEW i \in objects \ DOMAIN rows'
               PROVE  \E s \in Create : /\ do_id'[s] = i /\ result'[s] # i
                                        /\ pc'[s] \in {"row", "row_commit", "finish", "done", "dead"}
    BY DEF OrphansExplained
  <2>2. PICK s \in Create : /\ do_id[s] = i /\ result[s] # i
                            /\ pc[s] \in {"row", "row_commit", "finish", "done", "dead"}
    BY <2>1 DEF OrphansExplained
  <2>3. s # r
    BY <2>1, <2>2
  <2> QED
    BY <2>2, <2>3
<1>4. KindsApart'
  BY DEF KindsApart
<1>5. IdsApart'
  <2>1. DOMAIN rows' = IF r \in Create THEN DOMAIN rows \union {do_id[r]} ELSE DOMAIN rows
    BY WrittenRows
  <2>2. DOMAIN rows' \subseteq objects'
    BY <2>1 DEF IdsApart
  <2>3. ASSUME NEW s \in Create, s # r, pc[s] \in {"object_commit", "row", "row_commit"}
        PROVE  do_id[s] \notin DOMAIN rows'
    BY <2>1, <2>3 DEF IdsApart
  <2> QED
    BY <2>2, <2>3 DEF IdsApart, KindsApart
<1> QED
  BY <1>1, <1>2, <1>3, <1>4, <1>5

LEMMA QueryClassStep == ASSUME IInv, NEW r \in Request, QueryClass(r) PROVE IInv'
<1> USE RequestAssumption DEF QueryClass, Goto, IInv, TypeOK, Steps, NoId, Request
<1>1. TypeOK'
  BY DEF KindsApart, IdsApart
<1>2. PoolAccounted'
  BY DEF PoolAccounted, Dead, Incomplete
<1>3. OrphansExplained'
  BY DEF OrphansExplained, IdsApart, KindsApart
<1>4. KindsApart'
  BY DEF KindsApart
<1>5. IdsApart'
  BY DEF IdsApart, KindsApart
<1> QED
  BY <1>1, <1>2, <1>3, <1>4, <1>5

LEMMA SelectRowStep == ASSUME IInv, NEW r \in Request, SelectRow(r) PROVE IInv'
<1> USE RequestAssumption DEF SelectRow, Goto, IInv, TypeOK, Steps, NoId, Request
<1>1. TypeOK'
  BY DEF KindsApart, IdsApart
<1>2. PoolAccounted'
  BY DEF PoolAccounted, Dead, Incomplete
<1>3. OrphansExplained'
  BY DEF OrphansExplained, IdsApart, KindsApart
<1>4. KindsApart'
  BY DEF KindsApart
<1>5. IdsApart'
  BY DEF IdsApart, KindsApart
<1> QED
  BY <1>1, <1>2, <1>3, <1>4, <1>5

LEMMA IntegrityErrorStep == ASSUME IInv, NEW r \in Request, IntegrityError(r) PROVE IInv'
<1> USE RequestAssumption DEF IntegrityError, Goto, IInv, TypeOK, Steps, NoId, Request
<1>1. TypeOK'
  BY DEF KindsApart, IdsApart
<1>2. PoolAccounted'
  BY DEF PoolAccounted, Dead, Incomplete
<1>3. OrphansExplained'
  BY DEF OrphansExplained, IdsApart, KindsApart
<1>4. KindsApart'
  BY DEF KindsApart
<1>5. IdsApart'
  BY DEF IdsApart, KindsApart
<1> QED
  BY <1>1, <1>2, <1>3, <1>4, <1>5

LEMMA FaultStep == ASSUME IInv, NEW r \in Request, Fault(r) PROVE IInv'
<1> USE RequestAssumption DEF Fault, Goto, IInv, TypeOK, Steps, NoId, Request
<1>1. TypeOK'
  <2>1. rows' \in [DOMAIN rows' -> [Field -> Request \union {Null}]]
    <3>1. CASE rows' = rows
      BY <3>1
    <3>2. CASE rows' = Written(r)
      BY <3>2, WrittenRows
    <3> QED
      BY <3>1, <3>2
  <2>2. objects' \subseteq 1..(auto_inc' - 1)
    BY DEF KindsApart, IdsApart
  <2> QED
    BY <2>1, <2>2
<1>2. PoolAccounted'
  BY DEF PoolAccounted, Dead, Incomplete
<1>3. OrphansExplained'
  <2>1. /\ DOMAIN rows \subseteq DOMAIN rows'
        /\ objects' \subseteq objects \union {do_id[r]}
        /\ do_id[r] \in objects' => do_id[r] \in objects \/ pc[r] = "object_commit"
    BY WrittenRows
  <2> SUFFICES ASSUME NEW i \in objects' \ DOMAIN rows'
               PROVE  \E s \in Create : /\ do_id'[s] = i /\ result'[s] # i
                                        /\ pc'[s] \in {"row", "row_commit", "finish", "done", "dead"}
    BY DEF OrphansExplained
  <2>2. CASE i \in objects
    <3>1. PICK s \in Create : /\ do_id[s] = i /\ result[s] # i
                              /\ pc[s] \in {"row", "row_commit", "finish", "done", "dead"}
      BY <2>1, <2>2 DEF OrphansExplained
    <3> QED
      BY <3>1
  <2>3. CASE i \notin objects
    <3>1. i = do_id[r] /\ pc[r] = "object_commit"
      BY <2>1, <2>3
    <3>2. r \in Create /\ result[r] = Null
      BY <3>1 DEF KindsApart, IdsApart
    <3> QED
      BY <3>1, <3>2
  <2> QED
    BY <2>2, <2>3
<1>4. KindsApart'
  BY DEF KindsApart
<1>5. IdsApart'
  <2>1. /\ DOMAIN rows' \subseteq DOMAIN rows \union {do_id[r]}
        /\ DOMAIN rows' # DOMAIN rows => r \in Create /\ pc[r] = "row_commit"
        /\ objects \subseteq objects'
    BY WrittenRows
  <2>2. DOMAIN rows' \subseteq objects'
    BY <2>1 DEF IdsApart
  <2>3. ASSUME NEW s \in Create, s # r, pc[s] \in {"object_commit", "row", "row_commit"}
        PROVE  do_id[s] \notin DOMAIN rows' \union {NoId}
    BY <2>1, <2>3 DEF IdsApart
  <2>4. auto_inc' \in Nat /\ auto_inc <= auto_inc'
    OBVIOUS
  <2>5. \A s \in Create : do_id[s] < auto_inc'
    BY <2>4 DEF IdsApart
  <2> QED
    BY <2>1, <2>2, <2>3, <2>5 DEF IdsApart, KindsApart
<1> QED
  BY <1>1, <1>2, <1>3, <1>4, <1>5

\* The inductive invariant: kinds and ids apart, whoever fails and when.
THEOREM Invariance == Spec => []IInv
<1>1. IInv /\ [Next]_vars => IInv'
  <2> SUFFICES ASSUME IInv, [Next]_vars PROVE IInv'
    OBVIOUS
  <2>1. CASE UNCHANGED vars
    BY <2>1 DEF vars, IInv, TypeOK, PoolAccounted, OrphansExplained, KindsApart, IdsApart, Dead, Incomplete
  <2>2. ASSUME NEW r \in Request, Receive(r) \/ Step(r) PROVE IInv'
    BY <2>2, ReceiveStep, RefuseStep, AcquireStep, FinishStep, InsertObjectStep, CommitObjectStep,
       WriteRowStep, CommitRowStep, QueryClassStep, SelectRowStep, IntegrityErrorStep, FaultStep DEF Step
  <2> QED
    BY <2>1, <2>2 DEF Next
<1> QED
  BY Initially, <1>1, PTL DEF Spec

\* Types; and the ids of objects are ids that were given out.
THEOREM TypeCorrect == Spec => []TypeOK
<1>1. IInv => TypeOK
  BY DEF IInv
<1> QED
  BY Invariance, <1>1, PTL

\* Connections are borrowed and given back by their own tasks, and no more
\* are out than the pool has (pool.acquire, pool.release).
THEOREM Pool == Spec => []PoolAccounted
<1>1. IInv => PoolAccounted
  BY DEF IInv
<1> QED
  BY Invariance, <1>1, PTL

\* An id without an object belongs to a create that is at work or failed
\* (create_object).
THEOREM Orphans == Spec => []OrphansExplained
<1>1. IInv => OrphansExplained
  BY DEF IInv
<1> QED
  BY Invariance, <1>1, PTL


-----------------------------------------------------------------------------
(* The refinement: every step is a step of the store, or leaves it alone.    *)

target == [r \in Get \union Set |-> do_id[r]]
phase  == [r \in Request |-> Phase(pc[r])]

\* A task that goes from one statement to another.
LEMMA PhaseMoves ==
    ASSUME IInv, NEW r \in Request, NEW from, NEW to, Goto(r, from, to)
    PROVE  /\ phase[r] = Phase(from)
           /\ phase' = [phase EXCEPT ![r] = Phase(to)]
BY DEF IInv, TypeOK, Goto, phase

\* The target of a request is its id, which only creates are given later.
LEMMA TargetKept ==
    ASSUME RequestAssumption, \A r \in Get \union Set : do_id'[r] = do_id[r]
    PROVE  target' = target
BY DEF target

LEMMA PhaseNames ==
    /\ Phase("none") = "idle" /\ Phase("finish") = "decided"
    /\ Phase("done") = "answered" /\ Phase("dead") = "lost"
    /\ \A step \in {"acquire", "object", "object_commit", "class", "row", "row_commit"} :
          Phase(step) = "asked"
BY DEF Phase

\* A step between statements is not seen.
LEMMA Unseen ==
    ASSUME IInv, NEW r \in Request, NEW from, NEW to, Goto(r, from, to),
           Phase(from) = "asked", Phase(to) = "asked",
           UNCHANGED <<rows, result>>, target' = target
    PROVE  UNCHANGED Store!svars
<1>1. phase' = phase
  BY PhaseMoves DEF phase
<1> QED
  BY <1>1 DEF Store!svars, phase, target

\* The write of a create or of a set, as the store sees it.
LEMMA WriteIsSeen ==
    ASSUME IInv, NEW r \in Request, pc[r] = "row_commit", rows' = Written(r), target' = target
    PROVE  Store!Updates(r) \/ (\E i \in DOMAIN rows' : Store!Creates(r, i) /\ i = do_id[r])
<1> USE RequestAssumption DEF IInv, TypeOK
<1>1. r \notin Get
  BY DEF KindsApart
<1>2. CASE r \in Create
  <2>1. do_id[r] \notin DOMAIN rows \union {NoId}
    BY <1>2 DEF IdsApart
  <2>2. do_id[r] \in DOMAIN rows'
    BY <1>2, WrittenRows
  <2>3. Store!Creates(r, do_id[r])
    BY <1>2, <2>1 DEF Store!Creates, Store!NoId, NoId, Written
  <2> QED
    BY <2>2, <2>3
<1>3. CASE r \in Set
  <2>1. target[r] = do_id[r] /\ r \notin Create
    BY <1>3 DEF target
  <2>2. Store!Updates(r)
    BY <1>3, <2>1 DEF Store!Updates, Written, target
  <2> QED
    BY <2>2
<1> QED
  BY <1>1, <1>2, <1>3 DEF Request

\* Every step of the server is one of the store or none.
LEMMA Simulation == ASSUME IInv, [Next]_vars PROVE [Store!Next]_(Store!svars)
<1> USE RequestAssumption
<1>1. CASE UNCHANGED vars
  BY <1>1 DEF vars, Store!svars
<1>2. ASSUME NEW r \in Request, Receive(r) PROVE Store!Ask(r)
  <2>1. phase[r] = "idle" /\ phase' = [phase EXCEPT ![r] = "asked"]
    BY <1>2, PhaseMoves, PhaseNames DEF Receive
  <2>2. Store!Moves(r, "idle", "asked")
    BY <2>1 DEF Store!Moves, phase
  <2>3. UNCHANGED <<rows, result>> /\ \A q \in Request \ {r} : do_id'[q] = do_id[q]
    BY <1>2 DEF Receive, IInv, TypeOK
  <2>4. CASE r \in Create
    <3>1. target' = target
      BY <2>3, <2>4, TargetKept DEF RequestAssumption, Request
    <3> QED
      BY <2>2, <2>3, <2>4, <3>1 DEF Store!Ask, target
  <2>5. CASE r \notin Create
    <3>1. target' = [target EXCEPT ![r] = target'[r]]
      BY <2>3, <2>5 DEF target, Request
    <3> QED
      BY <2>2, <2>3, <2>5, <3>1 DEF Store!Ask, target
  <2> QED
    BY <2>4, <2>5
<1>3. ASSUME NEW r \in Request, Refuse(r) \/ CommitRow(r) \/ SelectRow(r) \/ IntegrityError(r)
      PROVE  Store!Decide(r)
  <2>1. target' = target
    BY <1>3, TargetKept DEF Refuse, CommitRow, SelectRow, IntegrityError
  <2>2. PICK from \in {"acquire", "object", "object_commit", "row", "row_commit"} : Goto(r, from, "finish")
    BY <1>3 DEF Refuse, CommitRow, SelectRow, IntegrityError
  <2>3. Store!Moves(r, "asked", "decided")
    BY <2>2, PhaseMoves, PhaseNames DEF Store!Moves, phase
  <2>4. CASE Refuse(r)
    BY <2>1, <2>3, <2>4 DEF Refuse, Incomplete, Store!Decide, Store!NoId, NoId, target
  <2>5. CASE SelectRow(r)
    <3>1. r \in Get /\ UNCHANGED rows /\ result' = [result EXCEPT ![r] = Selected(r)]
      BY <2>5 DEF SelectRow
    <3>2. Selected(r) = Store!Fetched(r)
      BY <3>1 DEF Selected, Store!Fetched, NoFields
    <3> QED
      BY <2>1, <2>3, <3>1, <3>2 DEF Store!Decide, target
  <2>6. CASE IntegrityError(r)
    <3>1. r \notin Get /\ UNCHANGED rows
      BY <2>6 DEF IntegrityError
    <3>2. CASE r \in Create
      BY <2>1, <2>3, <2>6, <3>1, <3>2 DEF IntegrityError, Store!Decide, Store!NoId, NoId, target
    <3>3. CASE r \in Set
      BY <2>1, <2>3, <2>6, <3>1, <3>3 DEF IntegrityError, Store!Decide, RequestAssumption, target
    <3> QED
      BY <3>1, <3>2, <3>3 DEF Request
  <2>7. CASE CommitRow(r)
    <3>1. pc[r] = "row_commit" /\ rows' = Written(r)
      BY <2>7 DEF CommitRow, Goto
    <3>2. result' = IF r \in Create THEN [result EXCEPT ![r] = do_id[r]] ELSE result
      BY <2>7 DEF CommitRow
    <3>3. CASE r \in Create
      <4>1. \E i \in DOMAIN rows' : Store!Creates(r, i) /\ i = do_id[r]
        BY <2>1, <3>1, <3>3, WriteIsSeen DEF Store!Updates, RequestAssumption
      <4> QED
        BY <2>1, <2>3, <3>2, <3>3, <4>1 DEF Store!Decide, target
    <3>4. CASE r \notin Create
      <4>1. Store!Updates(r)
        BY <2>1, <3>1, <3>4, WriteIsSeen DEF Store!Creates
      <4> QED
        BY <2>1, <2>3, <3>2, <3>4, <4>1 DEF Store!Decide, target
    <3> QED
      BY <3>3, <3>4
  <2> QED
    BY <1>3, <2>4, <2>5, <2>6, <2>7
<1>4. ASSUME NEW r \in Request, QueryClass(r) PROVE Store!Decide(r) \/ UNCHANGED Store!svars
  <2>1. target' = target /\ UNCHANGED rows
    BY <1>4, TargetKept DEF QueryClass
  <2>2. r \notin Create
    BY <1>4 DEF QueryClass, Goto, IInv, KindsApart
  <2>3. CASE do_id[r] \in objects
    <3>1. Goto(r, "class", "row") /\ UNCHANGED result
      BY <1>4, <2>3 DEF QueryClass
    <3> QED
      BY <2>1, <3>1, Unseen, PhaseNames
  <2>4. CASE do_id[r] \notin objects
    <3>1. Goto(r, "class", "finish")
      BY <1>4, <2>4 DEF QueryClass
    <3>2. Store!Moves(r, "asked", "decided")
      BY <3>1, PhaseMoves, PhaseNames DEF Store!Moves, phase
    <3>3. CASE r \in Get
      <4>1. result' = [result EXCEPT ![r] = NoFields]
        BY <1>4, <2>4, <3>3 DEF QueryClass
      <4>2. NoFields = Store!Fetched(r)
        BY <2>4, <3>3 DEF IInv, IdsApart, Store!Fetched, NoFields
      <4> QED
        BY <2>1, <3>2, <3>3, <4>1, <4>2 DEF Store!Decide, target
    <3>4. CASE r \in Set
      <4>1. UNCHANGED result
        BY <1>4, <3>4 DEF QueryClass, RequestAssumption
      <4> QED
        BY <2>1, <3>2, <3>4, <4>1 DEF Store!Decide, target
    <3> QED
      BY <2>2, <3>3, <3>4 DEF Request
  <2> QED
    BY <2>3, <2>4
<1>5. ASSUME NEW r \in Request, Acquire(r) \/ InsertObject(r) \/ CommitObject(r) \/ WriteRow(r)
      PROVE  UNCHANGED Store!svars
  <2>1. target' = target
    <3>1. InsertObject(r) => r \in Create
      BY DEF InsertObject, Goto, IInv, KindsApart
    <3>2. \A q \in Get \union Set : do_id'[q] = do_id[q]
      BY <1>5, <3>1 DEF Acquire, InsertObject, CommitObject, WriteRow, IInv, TypeOK, RequestAssumption, Request
    <3> QED
      BY <3>2, TargetKept
  <2>2. UNCHANGED <<rows, result>>
    BY <1>5 DEF Acquire, InsertObject, CommitObject, WriteRow
  <2>3. PICK from, to \in {"acquire", "object", "object_commit", "class", "row", "row_commit"} : Goto(r, from, to)
    BY <1>5 DEF Acquire, InsertObject, CommitObject, WriteRow
  <2> QED
    BY <2>1, <2>2, <2>3, Unseen, PhaseNames
<1>6. ASSUME NEW r \in Request, Finish(r) PROVE Store!Answer(r)
  <2>1. target' = target /\ UNCHANGED <<rows, result>>
    BY <1>6, TargetKept DEF Finish
  <2>2. Store!Moves(r, "decided", "answered")
    BY <1>6, PhaseMoves, PhaseNames DEF Finish, Store!Moves, phase
  <2> QED
    BY <2>1, <2>2 DEF Store!Answer, target
<1>7. ASSUME NEW r \in Request, Fault(r) PROVE Store!Lose(r)
  <2>1. target' = target /\ UNCHANGED result
    BY <1>7, TargetKept DEF Fault
  <2>2. PICK from \in {"object", "object_commit", "class", "row", "row_commit"} : Goto(r, from, "dead")
    BY <1>7 DEF Fault
  <2>3. Store!Moves(r, "asked", "lost")
    BY <2>2, PhaseMoves, PhaseNames DEF Store!Moves, phase
  <2>4. rows' = rows \/ (pc[r] = "row_commit" /\ rows' = Written(r))
    BY <1>7 DEF Fault
  <2>5. UNCHANGED rows \/ Store!Updates(r) \/ \E i \in DOMAIN rows' : Store!Creates(r, i)
    BY <2>1, <2>4, WriteIsSeen
  <2> QED
    BY <2>1, <2>3, <2>5 DEF Store!Lose, target
<1>8. ASSUME NEW r \in Request, Receive(r) \/ Step(r)
      PROVE  (\E q \in Store!Request : Store!Ask(q) \/ Store!Decide(q) \/ Store!Answer(q) \/ Store!Lose(q))
             \/ UNCHANGED Store!svars
  <2>1. r \in Store!Request
    BY DEF Store!Request, Request
  <2> QED
    BY <1>2, <1>3, <1>4, <1>5, <1>6, <1>7, <1>8, <2>1 DEF Step
<1> QED
  BY <1>1, <1>8 DEF Next, Store!Next

\* Requests take effect whole, one at a time, between their arrival and their
\* answer, whatever the statements of others in between and whoever fails
\* (create_object, query_object_fields, set_fields).
THEOREM Atomicity == Spec => AtomicRequests
<1>1. Init => Store!Init
  BY DEF Init, Store!Init, Store!NoId, NoId, Phase, Store!Request, Request
<1> QED
  BY <1>1, Invariance, Simulation, PTL DEF Spec, AtomicRequests, Store!Spec

=============================================================================
