------------------------------ MODULE Activation ------------------------------
(***************************************************************************)
(* How an avatar that is kept in the database comes to life and goes: the  *)
(* client's session at its client agent, the state server, and the         *)
(* database's answers.  The sessions of one account follow each other on   *)
(* the same avatar, and nothing keeps them apart.                          *)
(*                                                                         *)
(* Datagrams for the state server come in one order, to_ss, and those for  *)
(* the client agent in one order, to_ca.  A DELETE_RAM goes to the channel *)
(* of the object: it is nobody's when no participant listens to it.        *)
(***************************************************************************)
EXTENDS Naturals, Sequences, FiniteSets, SequencesExt

CONSTANTS
    DoId,           \* the stored objects
    Session,        \* the clients' connections
    None,           \* no object, no session
    MaxGenerates    \* bound: stored objects that another process generates itself

ASSUME ActivationAssumption == None \notin Session /\ MaxGenerates \in Nat

VARIABLES
    state,      \* of a session: new, purging, waiting, playing, closing or gone
    avatar_id,  \* the avatar of a session
    objects,    \* StateServer.objects: the number of the participant that is the object
    database_objects,
    queries,    \* StateServer.queries: the owner of a pending activation
    participants,   \* the DistributedObjects built and not removed
    built,      \* how many were built
    gets,       \* the GETs that the database works on
    to_ss, to_ca,
    generates,
    silent,     \* history: objects whose GET the database never answers
    raced,      \* history: objects that were activated on top of an object
    refused,    \* history: sessions whose activation was taken for a duplicate
    failed,     \* history: sessions whose object could not be built
    entered     \* history: sessions that were told of their avatar

ssvars == <<objects, database_objects, queries, participants, built>>
vars == <<state, avatar_id, ssvars, gets, to_ss, to_ca, generates, silent, raced, refused, failed, entered>>

Init ==
    /\ state = [s \in Session |-> "new"]
    /\ avatar_id = [s \in Session |-> None]
    /\ objects = [d \in DoId |-> 0]
    /\ database_objects = {}
    /\ queries = [d \in DoId |-> None]
    /\ participants = {} /\ built = 0
    /\ gets = <<>> /\ to_ss = <<>> /\ to_ca = <<>>
    /\ generates = 0
    /\ silent = {} /\ raced = {} /\ refused = {} /\ failed = {} /\ entered = {}

Activate(d, s)  == [type |-> "ACTIVATE", do_id |-> d, owner |-> s]
DeleteRam(d)    == [type |-> "DELETE_RAM", do_id |-> d]
Generate(d)     == [type |-> "GENERATE", do_id |-> d]
Values(d, full) == [type |-> "VALUES", do_id |-> d, full |-> full]
Entrance(d, s)  == [type |-> "ENTER_OWNER", do_id |-> d, to |-> s]
Deleted(d, s)   == [type |-> "DELETE_RAM", do_id |-> d, to |-> s]

(***************************************************************************)
(* The client agent.                                                       *)
(***************************************************************************)
(* A login that finds the account in use deletes the avatar first.         *)
Purge(s) ==
    /\ state[s] = "new"
    /\ \E d \in DoId :
          /\ avatar_id' = [avatar_id EXCEPT ![s] = d]
          /\ to_ss' = Append(to_ss, DeleteRam(d))
    /\ state' = [state EXCEPT ![s] = "purging"]
    /\ UNCHANGED <<ssvars, gets, to_ca, generates, silent, raced, refused, failed, entered>>

Login(s) ==
    /\ state[s] \in {"new", "purging"}
    /\ \E d \in IF state[s] = "new" THEN DoId ELSE {avatar_id[s]} :
          /\ avatar_id' = [avatar_id EXCEPT ![s] = d]
          /\ to_ss' = Append(to_ss, Activate(d, s))
    /\ state' = [state EXCEPT ![s] = "waiting"]
    /\ UNCHANGED <<ssvars, gets, to_ca, generates, silent, raced, refused, failed, entered>>

HandleOwnedObjectEntrance ==
    /\ to_ca # <<>> /\ Head(to_ca).type = "ENTER_OWNER"
    /\ LET s == Head(to_ca).to IN
          /\ entered' = IF state[s] = "gone" THEN entered ELSE entered \union {s}
          /\ state' = IF state[s] = "waiting" THEN [state EXCEPT ![s] = "playing"] ELSE state
    /\ to_ca' = Tail(to_ca)
    /\ UNCHANGED <<avatar_id, ssvars, gets, to_ss, generates, silent, raced, refused, failed>>

(* The client is booted: its tasks are cancelled and its transport closes, *)
(* and the session goes on hearing what is for it until it has closed.     *)
HandleDeleted ==
    /\ to_ca # <<>> /\ Head(to_ca).type = "DELETE_RAM"
    /\ LET s == Head(to_ca).to IN
          state' = IF state[s] = "gone" THEN state ELSE [state EXCEPT ![s] = "closing"]
    /\ to_ca' = Tail(to_ca)
    /\ UNCHANGED <<avatar_id, ssvars, gets, to_ss, generates, silent, raced, refused, failed, entered>>

\* Mutant: only a client that was booted deletes its avatar.
ConnectionLostBooted(s) ==
    /\ state[s] \in {"waiting", "playing", "closing"}
    /\ state' = [state EXCEPT ![s] = "gone"]
    /\ to_ss' = IF state[s] = "closing" THEN Append(to_ss, DeleteRam(avatar_id[s])) ELSE to_ss
    /\ UNCHANGED <<avatar_id, ssvars, gets, to_ca, generates, silent, raced, refused, failed, entered>>

(* Whatever closed the connection, the session deletes its avatar by id:   *)
(* also one that is no longer there, not yet there, or another session's.  *)
ConnectionLost(s) ==
    /\ state[s] \in {"waiting", "playing", "closing"}
    /\ state' = [state EXCEPT ![s] = "gone"]
    /\ to_ss' = Append(to_ss, DeleteRam(avatar_id[s]))
    /\ UNCHANGED <<avatar_id, ssvars, gets, to_ca, generates, silent, raced, refused, failed, entered>>

(***************************************************************************)
(* The database, and a process that generates a stored object by itself.   *)
(***************************************************************************)
AnswerGet(k) ==
    /\ \E full \in BOOLEAN : to_ss' = Append(to_ss, Values(gets[k], full))
    /\ gets' = RemoveAt(gets, k)
    /\ UNCHANGED <<state, avatar_id, ssvars, to_ca, generates, silent, raced, refused, failed, entered>>

LoseGet(k) ==
    /\ silent' = silent \union {gets[k]}
    /\ gets' = RemoveAt(gets, k)
    /\ UNCHANGED <<state, avatar_id, ssvars, to_ss, to_ca, generates, raced, refused, failed, entered>>

SendGenerate(d) ==
    /\ generates < MaxGenerates
    /\ generates' = generates + 1
    /\ to_ss' = Append(to_ss, Generate(d))
    /\ UNCHANGED <<state, avatar_id, ssvars, gets, to_ca, silent, raced, refused, failed, entered>>

(***************************************************************************)
(* The state server.                                                       *)
(***************************************************************************)
Takes(type) ==
    /\ to_ss # <<>> /\ Head(to_ss).type = type
    /\ to_ss' = Tail(to_ss)

\* Mutant: an activation that waits for its answer is not looked for.
DuplicateStored(d) == d \in database_objects

Duplicate(d) == queries[d] # None \/ d \in database_objects

HandleDbGenerate ==
    /\ Takes("ACTIVATE")
    /\ LET d == Head(to_ss).do_id
           s == Head(to_ss).owner
       IN  IF Duplicate(d)
           THEN refused' = refused \union {s} /\ UNCHANGED <<queries, gets>>
           ELSE /\ queries' = [queries EXCEPT ![d] = s]
                /\ gets' = Append(gets, d)
                /\ UNCHANGED refused
    /\ UNCHANGED <<state, avatar_id, objects, database_objects, participants, built, to_ca,
                   generates, silent, raced, failed, entered>>

Body(d, owner, db, listens) ==
    [no |-> built + 1, do_id |-> d, owner |-> owner, db |-> db, listens |-> listens]

\* Mutant: the owner is not told of its object.
ActivateUntold ==
    /\ Takes("VALUES")
    /\ LET d    == Head(to_ss).do_id
           s    == queries[d]
           full == Head(to_ss).full
       IN  IF s = None
           THEN UNCHANGED <<ssvars, failed>>
           ELSE /\ queries' = [queries EXCEPT ![d] = None]
                /\ built' = built + 1
                /\ participants' = participants \union {Body(d, s, TRUE, TRUE)}
                /\ objects' = [objects EXCEPT ![d] = built']
                /\ database_objects' = database_objects \union {d}
                /\ failed' = IF full THEN failed ELSE failed \union {s}
    /\ UNCHANGED <<state, avatar_id, gets, to_ca, generates, silent, raced, refused, entered>>

(* The values that came may lack a required field.  Building the object    *)
(* then raises: before it listens to its own channel and is registered, if *)
(* the field is one that its AI or its location is sent, or else when the  *)
(* owner is to be told.  The query is forgotten all the same.              *)
ActivateCallback ==
    /\ Takes("VALUES")
    /\ LET d    == Head(to_ss).do_id
           s    == queries[d]
           full == Head(to_ss).full
       IN  IF s = None
           THEN UNCHANGED <<ssvars, to_ca, raced, failed>>
           ELSE \E registers \in IF full THEN {TRUE} ELSE BOOLEAN :
                   /\ queries' = [queries EXCEPT ![d] = None]
                   /\ built' = built + 1
                   /\ participants' = participants \union {Body(d, s, TRUE, registers)}
                   /\ IF registers
                      THEN /\ objects' = [objects EXCEPT ![d] = built']
                           /\ database_objects' = database_objects \union {d}
                           /\ raced' = IF objects[d] # 0 THEN raced \union {d} ELSE raced
                      ELSE UNCHANGED <<objects, database_objects, raced>>
                   /\ to_ca' = IF full THEN Append(to_ca, Entrance(d, s)) ELSE to_ca
                   /\ failed' = IF full THEN failed ELSE failed \union {s}
    /\ UNCHANGED <<state, avatar_id, gets, generates, silent, refused, entered>>

HandleGenerate ==
    /\ Takes("GENERATE")
    /\ LET d == Head(to_ss).do_id IN
          IF objects[d] # 0
          THEN UNCHANGED <<objects, participants, built>>
          ELSE /\ built' = built + 1
               /\ participants' = participants \union {Body(d, None, FALSE, TRUE)}
               /\ objects' = [objects EXCEPT ![d] = built']
    /\ UNCHANGED <<state, avatar_id, database_objects, queries, gets, to_ca, generates, silent, raced,
                   refused, failed, entered>>

\* Mutants: database_objects keeps the object; the owner is not told.
AnnihilatedStored(server, b) ==
    [out |-> IF b.owner = None THEN server.out ELSE Append(server.out, Deleted(b.do_id, b.owner)),
     objects |-> [server.objects EXCEPT ![b.do_id] = 0], members |-> server.members \ {b},
     stored |-> server.stored, sound |-> server.sound]
AnnihilatedUntold(server, b) ==
    [out |-> server.out,
     objects |-> [server.objects EXCEPT ![b.do_id] = 0], members |-> server.members \ {b},
     stored |-> server.stored \ {b.do_id}, sound |-> server.sound]

(* The owner is told first.  An object that is not in objects any more     *)
(* raises, and neither it nor the participants after it are removed.       *)
Annihilated(server, b) ==
    IF ~server.sound THEN server
    ELSE LET told == IF b.owner = None THEN server.out
                     ELSE Append(server.out, Deleted(b.do_id, b.owner))
         IN  IF server.objects[b.do_id] = 0
             THEN [server EXCEPT !.out = told, !.sound = FALSE]
             ELSE [out     |-> told,
                   objects |-> [server.objects EXCEPT ![b.do_id] = 0],
                   members |-> server.members \ {b},
                   stored  |-> IF b.db THEN server.stored \ {b.do_id} ELSE server.stored,
                   sound   |-> b.db => b.do_id \in server.stored]

Listeners(d) == {b \in participants : b.do_id = d /\ b.listens}

HandleDeleteRam ==
    /\ Takes("DELETE_RAM")
    /\ \E order \in SetToSeqs(Listeners(Head(to_ss).do_id)) :
          LET before == [out |-> to_ca, objects |-> objects, members |-> participants,
                         stored |-> database_objects, sound |-> TRUE]
              after[n \in 0..Len(order)] ==
                  IF n = 0 THEN before ELSE Annihilated(after[n - 1], order[n])
              end == after[Len(order)]
          IN  /\ to_ca' = end.out
              /\ objects' = end.objects
              /\ participants' = end.members
              /\ database_objects' = end.stored
    /\ UNCHANGED <<state, avatar_id, queries, built, gets, generates, silent, raced, refused, failed, entered>>

Agent      == HandleOwnedObjectEntrance \/ HandleDeleted
StateStep  == HandleDbGenerate \/ ActivateCallback \/ HandleGenerate \/ HandleDeleteRam
DbAnswers  == \E k \in DOMAIN gets : AnswerGet(k) \/ LoseGet(k)

Next ==
    \/ \E s \in Session : Purge(s) \/ Login(s) \/ ConnectionLost(s)
    \/ \E d \in DoId : SendGenerate(d)
    \/ Agent \/ StateStep \/ DbAnswers

(* Queues are emptied, and a transport that is closing closes.             *)
Fairness ==
    /\ WF_vars(Agent) /\ WF_vars(StateStep) /\ WF_vars(DbAnswers)
    /\ \A s \in Session : WF_vars(state[s] = "closing" /\ ConnectionLost(s))

Spec == Init /\ [][Next]_vars /\ Fairness

-----------------------------------------------------------------------------
SsMessage ==
    [type : {"ACTIVATE"}, do_id : DoId, owner : Session]
      \union [type : {"DELETE_RAM", "GENERATE"}, do_id : DoId]
      \union [type : {"VALUES"}, do_id : DoId, full : BOOLEAN]
CaMessage == [type : {"ENTER_OWNER", "DELETE_RAM"}, do_id : DoId, to : Session]
Participant(n) ==
    [no : 1..n, do_id : DoId, owner : Session \union {None}, db : BOOLEAN, listens : BOOLEAN]

TypeOK ==
    /\ state \in [Session -> {"new", "purging", "waiting", "playing", "closing", "gone"}]
    /\ avatar_id \in [Session -> DoId \union {None}]
    /\ built \in Nat
    /\ objects \in [DoId -> 0..built]
    /\ database_objects \subseteq DoId
    /\ queries \in [DoId -> Session \union {None}]
    /\ participants \subseteq Participant(built)
    /\ gets \in Seq(DoId)
    /\ to_ss \in Seq(SsMessage) /\ to_ca \in Seq(CaMessage)
    /\ generates \in 0..MaxGenerates
    /\ silent \subseteq DoId /\ raced \subseteq DoId
    /\ refused \subseteq Session /\ failed \subseteq Session /\ entered \subseteq Session

Count(q, P(_)) == Cardinality({k \in DOMAIN q : P(q[k])})

(* A pending activation waits for exactly one answer, and every answer is  *)
(* waited for: none meets a query that is gone, and none that was meant    *)
(* for an earlier activation builds the object of a later one.             *)
AnswersExpected ==
    \A d \in DoId :
        Count(gets, LAMBDA g : g = d)
          + Count(to_ss, LAMBDA m : m.type = "VALUES" /\ m.do_id = d)
          + Cardinality(silent \intersect {d})
        = IF queries[d] = None THEN 0 ELSE 1

(* Unless an activation ran into an object that was generated directly,    *)
(* one participant at most answers for an object, it is the registered     *)
(* one, and database_objects says whether it came from the database - so   *)
(* a deleted avatar can be activated again.                                *)
OneBody ==
    \A d \in DoId \ raced :
        /\ \A b \in Listeners(d) : b.no = objects[d]
        /\ d \in database_objects <=> \E b \in Listeners(d) : b.db
        /\ objects[d] # 0 => Listeners(d) # {}

(* A client that plays has its avatar, or will be told that it is deleted: *)
(* also when another session of the account deleted it.                    *)
PlayerHasAvatar ==
    \A s \in Session : state[s] = "playing" =>
        \/ \E b \in Listeners(avatar_id[s]) : b.owner = s
        \/ Contains(to_ca, Deleted(avatar_id[s], s))

(* An avatar outlives its client only if the client went before it was     *)
(* told of the avatar; otherwise its deletion is on its way.               *)
AvatarHasPlayer ==
    \A s \in entered : state[s] = "gone" =>
        \/ avatar_id[s] \in raced
        \/ Contains(to_ss, DeleteRam(avatar_id[s]))
        \/ ~\E b \in Listeners(avatar_id[s]) : b.owner = s

(* Time and again no client waits for its avatar, except those whose       *)
(* request was taken for a duplicate, whose stored values do not make an   *)
(* object, or for whom the database never answers.                         *)
LoginServed ==
    []<>(\A s \in Session :
            state[s] = "waiting" => s \in refused \union failed \/ avatar_id[s] \in silent)
=============================================================================
