----------------------------- MODULE ObjectStore -----------------------------
(***************************************************************************)
(* What the database server promises its callers, without tasks, pools,    *)
(* tables or transactions: every request takes effect at one moment        *)
(* between its arrival and its answer, whole or not at all, and its answer *)
(* is the one of that moment.  A request may be lost on the way, with or   *)
(* without its effect, and is then never answered.                         *)
(***************************************************************************)
EXTENDS Naturals

CONSTANTS
    Create, Get, Set,   \* the requests, by kind
    Field,              \* the stored fields of an object
    Names,              \* Names[r]: the fields that request r names
    Null                \* a field without a value, a request without an answer

Request == Create \union Get \union Set

VARIABLES
    store,      \* the objects: a function from ids to their fields
    target,     \* the id that each get and set is about
    phase,      \* idle, asked, decided, answered or lost
    result      \* what a decided request is answered

svars == <<store, target, phase, result>>

NoId == 0

Init ==
    /\ store = [i \in {} |-> Null]
    /\ target = [r \in Get \union Set |-> NoId]
    /\ phase = [r \in Request |-> "idle"]
    /\ result = [r \in Request |-> Null]

Moves(r, from, to) ==
    /\ phase[r] = from
    /\ phase' = [phase EXCEPT ![r] = to]

(* A new object gets an id that no object has.                             *)
Creates(r, i) ==
    /\ r \in Create
    /\ i \notin DOMAIN store \union {NoId}
    /\ store' = [j \in DOMAIN store \union {i} |->
                    IF j = i THEN [f \in Field |-> IF f \in Names[r] THEN r ELSE Null] ELSE store[j]]

(* An update of an object that is not there changes nothing.               *)
Updates(r) ==
    /\ r \in Set
    /\ store' = [j \in DOMAIN store |->
                    IF j = target[r] THEN [f \in Field |-> IF f \in Names[r] THEN r ELSE store[j][f]]
                                     ELSE store[j]]

(* Of the fields that are asked for, those with a value.                   *)
Fetched(r) ==
    IF target[r] \in DOMAIN store
    THEN [f \in {g \in Names[r] : store[target[r]][g] # Null} |-> store[target[r]][f]]
    ELSE [f \in {} |-> Null]

Ask(r) ==
    /\ Moves(r, "idle", "asked")
    /\ \/ r \in Create /\ UNCHANGED target
       \/ r \notin Create /\ target' = [target EXCEPT ![r] = target'[r]]
    /\ UNCHANGED <<store, result>>

(* The moment of a request.  A create or a set that is refused has no      *)
(* effect; of the two only the create is told.                             *)
Decide(r) ==
    /\ Moves(r, "asked", "decided")
    /\ UNCHANGED target
    /\ \/ \E i \in DOMAIN store' : Creates(r, i) /\ result' = [result EXCEPT ![r] = i]
       \/ r \in Create /\ UNCHANGED store /\ result' = [result EXCEPT ![r] = NoId]
       \/ r \in Get /\ UNCHANGED store /\ result' = [result EXCEPT ![r] = Fetched(r)]
       \/ Updates(r) /\ UNCHANGED result
       \/ r \in Set /\ UNCHANGED <<store, result>>

Answer(r) == Moves(r, "decided", "answered") /\ UNCHANGED <<store, target, result>>

Lose(r) ==
    /\ Moves(r, "asked", "lost")
    /\ UNCHANGED <<target, result>>
    /\ UNCHANGED store \/ Updates(r) \/ \E i \in DOMAIN store' : Creates(r, i)

Next == \E r \in Request : Ask(r) \/ Decide(r) \/ Answer(r) \/ Lose(r)

Spec == Init /\ [][Next]_svars
=============================================================================
