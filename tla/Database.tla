------------------------------- MODULE Database -------------------------------
(***************************************************************************)
(* The database server and its SQL backend.  Every request is a task of    *)
(* its own that borrows a connection of the pool, sends its statements one *)
(* by one and gives the connection back; whatever stands between two       *)
(* awaits is one step.  A statement that fails in a way the code does not  *)
(* catch ends the task there and then: its connection is never given back  *)
(* and nobody is answered.                                                 *)
(***************************************************************************)
EXTENDS Naturals, FiniteSets

CONSTANTS
    Create, Get, Set,   \* the requests, by kind
    Field, Required,    \* the stored fields of the class, those it requires
    Names,              \* Names[r]: the fields that request r names
    Null,               \* a column without a value, a request without an answer
    PoolSize,           \* maxsize of the pool
    MaxId,              \* bound: the ids that requests ask for
    MaxFaults           \* bound: statements that fail uncaught

Request == Create \union Get \union Set

ASSUME RequestAssumption ==
    /\ Create \intersect (Get \union Set) = {}
    /\ Get \intersect Set = {}
    /\ Null \notin Request \union Nat
    /\ Names \in [Request -> SUBSET Field]
    /\ Required \subseteq Field
    /\ PoolSize \in Nat

VARIABLES
    pc,         \* where the task of each request stands
    do_id,      \* the id each request is about
    result,     \* what its answer will be
    objects,    \* the committed ids of table objects
    rows,       \* the committed rows of the class's table, by id
    auto_inc,   \* AUTO_INCREMENT of table objects
    used        \* the tasks that hold a connection of the pool (pool._used)

vars == <<pc, do_id, result, objects, rows, auto_inc, used>>

Steps == {"none", "acquire", "object", "object_commit", "class", "row", "row_commit",
          "finish", "done", "dead"}
NoId == 0
NoFields == [f \in {} |-> Null]

Init ==
    /\ pc = [r \in Request |-> "none"]
    /\ do_id = [r \in Request |-> NoId]
    /\ result = [r \in Request |-> Null]
    /\ objects = {}
    /\ rows = [i \in {} |-> Null]
    /\ auto_inc = 1
    /\ used = {}

Goto(r, from, to) ==
    /\ pc[r] = from
    /\ pc' = [pc EXCEPT ![r] = to]

Dead == {r \in Request : pc[r] = "dead"}

(***************************************************************************)
(* Tasks.                                                                  *)
(***************************************************************************)
Receive(r) ==
    /\ Goto(r, "none", "acquire")
    /\ \E i \in IF r \in Create THEN {NoId} ELSE 1..MaxId : do_id' = [do_id EXCEPT ![r] = i]
    /\ UNCHANGED <<result, objects, rows, auto_inc, used>>

(* OTPCreateFailed before a connection is taken.                           *)
Incomplete(r) == r \in Create /\ ~(Required \subseteq Names[r])

Refuse(r) ==
    /\ Incomplete(r)
    /\ Goto(r, "acquire", "finish")
    /\ result' = [result EXCEPT ![r] = NoId]
    /\ UNCHANGED <<do_id, objects, rows, auto_inc, used>>

\* Mutant: a connection is taken although all are out.
AcquireAlways(r) ==
    /\ ~Incomplete(r)
    /\ Goto(r, "acquire", IF r \in Create THEN "object" ELSE "class")
    /\ used' = used \union {r}
    /\ UNCHANGED <<do_id, result, objects, rows, auto_inc>>

Acquire(r) ==
    /\ ~Incomplete(r)
    /\ Cardinality(used) < PoolSize
    /\ Goto(r, "acquire", IF r \in Create THEN "object" ELSE "class")
    /\ used' = used \union {r}
    /\ UNCHANGED <<do_id, result, objects, rows, auto_inc>>

\* Mutant: the connection is closed but not given back.
FinishClosed(r) ==
    /\ Goto(r, "finish", "done")
    /\ UNCHANGED <<do_id, result, objects, rows, auto_inc, used>>

(* conn.close(), pool.release(conn) and, but for a set, the answer.        *)
Finish(r) ==
    /\ Goto(r, "finish", "done")
    /\ used' = used \ {r}
    /\ UNCHANGED <<do_id, result, objects, rows, auto_inc>>

(***************************************************************************)
(* Statements of a create.  An id is taken when the INSERT runs, whatever  *)
(* becomes of the transaction.                                             *)
(***************************************************************************)
InsertObject(r) ==
    /\ Goto(r, "object", "object_commit")
    /\ do_id' = [do_id EXCEPT ![r] = auto_inc]
    /\ auto_inc' = auto_inc + 1
    /\ UNCHANGED <<result, objects, rows, used>>

CommitObject(r) ==
    /\ Goto(r, "object_commit", "row")
    /\ objects' = objects \union {do_id[r]}
    /\ UNCHANGED <<do_id, result, rows, auto_inc, used>>

(* A task between a statement on a row and its commit locks the row.       *)
Locked(i) == \E r \in Request : pc[r] = "row_commit" /\ do_id[r] = i

(* The INSERT of a create or the UPDATE of a set.  Without a field to name *)
(* the statement is not SQL: see Fault.                                    *)
WriteRow(r) ==
    /\ r \notin Get
    /\ Names[r] # {}
    /\ ~Locked(do_id[r])
    /\ Goto(r, "row", "row_commit")
    /\ UNCHANGED <<do_id, result, objects, rows, auto_inc, used>>

\* Mutant: an update writes the whole row.
WrittenWhole(r) ==
    [i \in (IF r \in Create THEN DOMAIN rows \union {do_id[r]} ELSE DOMAIN rows) |->
        IF i = do_id[r] THEN [f \in Field |-> IF f \in Names[r] THEN r ELSE Null] ELSE rows[i]]

Written(r) ==
    IF r \in Create
    THEN [i \in DOMAIN rows \union {do_id[r]} |->
             IF i = do_id[r] THEN [f \in Field |-> IF f \in Names[r] THEN r ELSE Null] ELSE rows[i]]
    ELSE [i \in DOMAIN rows |->
             IF i = do_id[r] THEN [f \in Field |-> IF f \in Names[r] THEN r ELSE rows[i][f]] ELSE rows[i]]

CommitRow(r) ==
    /\ Goto(r, "row_commit", "finish")
    /\ rows' = Written(r)
    /\ result' = IF r \in Create THEN [result EXCEPT ![r] = do_id[r]] ELSE result
    /\ UNCHANGED <<do_id, objects, auto_inc, used>>

\* Mutant: the caller is given the id of the first transaction.
IntegrityErrorHidden(r) ==
    /\ r \notin Get
    /\ \E s \in {"object", "object_commit", "row", "row_commit"} : Goto(r, s, "finish")
    /\ auto_inc' = IF pc[r] = "object" THEN auto_inc + 1 ELSE auto_inc
    /\ result' = IF r \in Create THEN [result EXCEPT ![r] = do_id[r]] ELSE result
    /\ UNCHANGED <<do_id, objects, rows, used>>

(* The IntegrityError that both inserts and the update catch.              *)
IntegrityError(r) ==
    /\ r \notin Get
    /\ \E s \in {"object", "object_commit", "row", "row_commit"} : Goto(r, s, "finish")
    /\ auto_inc' = IF pc[r] = "object" THEN auto_inc + 1 ELSE auto_inc
    /\ result' = IF r \in Create THEN [result EXCEPT ![r] = NoId] ELSE result
    /\ UNCHANGED <<do_id, objects, rows, used>>

(***************************************************************************)
(* Queries.                                                                *)
(***************************************************************************)
QueryClass(r) ==
    /\ Goto(r, "class", IF do_id[r] \in objects THEN "row" ELSE "finish")
    /\ result' = IF r \in Get /\ do_id[r] \notin objects
                 THEN [result EXCEPT ![r] = NoFields] ELSE result
    /\ UNCHANGED <<do_id, objects, rows, auto_inc, used>>

(* The columns that are NULL are left out of the answer, and an object     *)
(* that is not found is answered with none.                                *)
Selected(r) ==
    IF do_id[r] \in DOMAIN rows
    THEN [f \in {g \in Names[r] : rows[do_id[r]][g] # Null} |-> rows[do_id[r]][f]]
    ELSE NoFields

SelectRow(r) ==
    /\ r \in Get
    /\ Names[r] # {}
    /\ Goto(r, "row", "finish")
    /\ result' = [result EXCEPT ![r] = Selected(r)]
    /\ UNCHANGED <<do_id, objects, rows, auto_inc, used>>

(***************************************************************************)
(* An exception that is not caught: a column or a table that is not there, *)
(* a field list that is empty, a lost connection.  A COMMIT whose reply is *)
(* lost may have been done.                                                *)
(***************************************************************************)
Fault(r) ==
    /\ Cardinality(Dead) < MaxFaults \/ (pc[r] = "row" /\ Names[r] = {})
    /\ \E s \in {"object", "object_commit", "class", "row", "row_commit"} : Goto(r, s, "dead")
    /\ \/ UNCHANGED <<objects, rows>>
       \/ pc[r] = "object_commit" /\ objects' = objects \union {do_id[r]} /\ rows' = rows
       \/ pc[r] = "row_commit" /\ rows' = Written(r) /\ objects' = objects
    /\ auto_inc' \in IF pc[r] = "object" THEN {auto_inc, auto_inc + 1} ELSE {auto_inc}
    /\ UNCHANGED <<do_id, result, used>>

Step(r) ==
    \/ Refuse(r) \/ Acquire(r) \/ Finish(r)
    \/ InsertObject(r) \/ CommitObject(r) \/ WriteRow(r) \/ CommitRow(r)
    \/ QueryClass(r) \/ SelectRow(r)
    \/ IntegrityError(r) \/ Fault(r)

Next == \E r \in Request : Receive(r) \/ Step(r)

(* The event loop resumes a task whose connection or reply is there, and   *)
(* the SQL server answers a statement or drops the connection.  Requests   *)
(* come to an end one after the other, so it is enough that some task goes *)
(* on while one can.                                                       *)
Fairness == WF_vars(\E r \in Request : Step(r))

Spec == Init /\ [][Next]_vars /\ Fairness

-----------------------------------------------------------------------------
TypeOK ==
    /\ pc \in [Request -> Steps]
    /\ do_id \in [Request -> Nat]
    /\ DOMAIN result = Request
    /\ \A r \in Create : result[r] \in {Null} \union Nat
    /\ objects \subseteq 1..(auto_inc - 1)
    /\ auto_inc \in Nat \ {0}
    /\ rows \in [DOMAIN rows -> [Field -> Request \union {Null}]]
    /\ used \subseteq Request /\ IsFiniteSet(used)

(* Every connection of the pool belongs to a task that is at work, or was  *)
(* leaked by a statement that failed uncaught; no task gives back a        *)
(* connection it does not hold, and none gives it back twice.              *)
PoolAccounted ==
    /\ Cardinality(used) <= PoolSize
    /\ Dead \subseteq used
    /\ \A r \in used \ Dead : pc[r] \in {"object", "object_commit", "class", "row", "row_commit", "finish"}
    /\ \A r \in Request \ used : pc[r] \in {"none", "acquire", "done"} \/ (pc[r] = "finish" /\ Incomplete(r))

(* Table objects holds an id without a row of the class only while its     *)
(* create is between the two transactions, or after it failed there: the   *)
(* first transaction is never undone.                                      *)
OrphansExplained ==
    \A i \in objects \ DOMAIN rows :
        \E r \in Create : do_id[r] = i /\ (result[r] # i) /\ pc[r] \in {"row", "row_commit", "finish", "done", "dead"}

(* Why: tasks keep to the statements of their kind, and the ids that       *)
(* creates were given are apart, whatever became of their transactions.    *)
KindsApart ==
    \A r \in Request :
        /\ pc[r] \in {"object", "object_commit"} => r \in Create
        /\ pc[r] = "class" => r \notin Create
        /\ pc[r] = "row_commit" => r \notin Get

IdsApart ==
    /\ DOMAIN rows \subseteq objects
    /\ \A r \in Create :
          /\ do_id[r] < auto_inc
          /\ \A s \in Create \ {r} : do_id[s] = do_id[r] => do_id[r] = NoId
          /\ pc[r] \notin {"finish", "done", "dead"} => result[r] = Null
          /\ pc[r] \in {"none", "acquire", "object"} => do_id[r] = NoId
          /\ pc[r] \in {"object_commit", "row", "row_commit"} =>
                do_id[r] \notin DOMAIN rows \union {NoId}
          /\ pc[r] \in {"row", "row_commit"} => do_id[r] \in objects

IInv == TypeOK /\ PoolAccounted /\ OrphansExplained /\ KindsApart /\ IdsApart

Phase(step) ==
    CASE step = "none"   -> "idle"
      [] step = "finish" -> "decided"
      [] step = "done"   -> "answered"
      [] step = "dead"   -> "lost"
      [] OTHER           -> "asked"

Store == INSTANCE ObjectStore WITH
            store  <- rows,
            target <- [r \in Get \union Set |-> do_id[r]],
            phase  <- [r \in Request |-> Phase(pc[r])]

(* For all the interleaving of their transactions, requests take effect    *)
(* one at a time, each at one moment before its answer.                    *)
AtomicRequests == Store!Spec

(* Time and again every request that the server read is over, answered    *)
(* unless its own statement failed, or so many statements did that the     *)
(* pool is empty for good.                                                 *)
RequestsEnd ==
    []<>(\/ \A r \in Request : pc[r] \in {"none", "done", "dead"}
         \/ Cardinality(Dead) >= PoolSize)
=============================================================================
