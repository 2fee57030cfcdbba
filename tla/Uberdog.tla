-------------------------------- MODULE Uberdog --------------------------------
(***************************************************************************)
(* An uberdog: the object it keeps on the state server across crashes and  *)
(* restarts, and the futures with which it waits for the state server to   *)
(* tell where an avatar is.                                                *)
(*                                                                         *)
(* What is on the master's queue for the state server, or was routed to    *)
(* it, is one sequence, to_ss, and so are the answers, to_ud.  Where on    *)
(* that way a datagram is matters for post removes only: the master looks  *)
(* up who subscribes to GLOBAL_ID when it routes one, and the state server *)
(* does so from when its SET_CHANNEL has come until its REMOVE_CHANNEL.    *)
(*                                                                         *)
(* The state server itself stays, with its objects.  It subscribes to      *)
(* STATESERVERS_CHANNEL before all else and hears every GENERATE; a LOCATE *)
(* may be lost, so that no answer comes.                                   *)
(***************************************************************************)
EXTENDS Naturals, Sequences, FiniteSets, SequencesExt

CONSTANTS
    Query,          \* the calls of query_location
    avId, context,  \* avId[r], context[r]: the arguments of call r
    MaxLives,       \* bound: how often the uberdog connects
    MaxLost         \* bound: LOCATEs that are lost

Outcomes == {"idle", "waiting", "raised"}

ASSUME QueryAssumption ==
    /\ Outcomes \intersect Query = {}
    /\ context \in [Query -> Nat]
    /\ MaxLives \in Nat /\ MaxLost \in Nat

VARIABLES
    life,       \* number of the uberdog's latest connection, 0 before the first
    alive,      \* whether the uberdog runs
    posts,      \* connections whose post remove the master still holds
    posting,    \* the latest connection's post remove has not reached the master
    registered, \* whether the state server has the uberdog's object
    control,    \* the state server's subscriptions to GLOBAL_ID on their way to the master
    listening,  \* whether the master has it subscribed
    to_ss, to_ud,
    futures,    \* the calls that left a future in the list, in order
    outcome,    \* of a call: idle, waiting, raised, or the call whose answer it got
    calls,      \* history: how many calls were made
    number,     \* history: which of them a call was, 0 if it was not made
    inherited,  \* history: it connected while answers to an earlier life were still to come
    hasty,      \* history: the latest connection was made before the loss of another was noticed
    torn,       \* history: the latest connection was lost before its post remove got through
    missed,     \* history: the post remove that was routed last did not reach the state server
    lost        \* history: LOCATEs that were lost

callvars == <<calls, number>>
server   == <<registered, control, listening>>
restarts == <<inherited, hasty, torn, missed>>
vars == <<life, alive, posts, posting, registered, control, listening, to_ss, to_ud, futures, outcome,
          calls, number, inherited, hasty, torn, missed, lost>>

Init ==
    /\ life = 0 /\ alive = FALSE
    /\ posts = {} /\ posting = FALSE
    /\ registered = FALSE /\ control = <<>> /\ listening = FALSE
    /\ to_ss = <<>> /\ to_ud = <<>>
    /\ futures = <<>>
    /\ outcome = [r \in Query |-> "idle"]
    /\ calls = 0 /\ number = [r \in Query |-> 0]
    /\ inherited = FALSE /\ hasty = FALSE /\ torn = FALSE /\ missed = FALSE /\ lost = 0

Generate  == [type |-> "GENERATE"]
DeleteRam == [type |-> "DELETE_RAM"]
\* A DELETE_RAM that the master has still to route.
PostRemove == [type |-> "POST_REMOVE"]
Locate(r) == [type |-> "LOCATE", req |-> r]
Message   == {Generate, DeleteRam, PostRemove} \union {Locate(r) : r \in Query}
Control   == {"SET_CHANNEL", "REMOVE_CHANNEL"}

(***************************************************************************)
(* The uberdog's object.                                                   *)
(***************************************************************************)
\* Mutant: the object is generated by the first connection only.
ConnectGeneratingOnce ==
    /\ ~alive /\ life < MaxLives
    /\ alive' = TRUE
    /\ life' = life + 1
    /\ hasty' = (posts # {})
    /\ posting' = TRUE /\ torn' = FALSE
    /\ to_ss' = IF life = 0 THEN Append(to_ss, Generate) ELSE to_ss
    /\ inherited' = (inherited \/ to_ud # <<>> \/ \E r \in Query : Contains(to_ss, Locate(r)))
    /\ UNCHANGED <<posts, server, to_ud, futures, outcome, callvars, missed, lost>>

OnUpstreamConnect ==
    /\ ~alive /\ life < MaxLives
    /\ alive' = TRUE
    /\ life' = life + 1
    /\ hasty' = (posts # {})
    /\ posting' = TRUE /\ torn' = FALSE
    /\ to_ss' = Append(to_ss, Generate)
    /\ inherited' = (inherited \/ to_ud # <<>> \/ \E r \in Query : Contains(to_ss, Locate(r)))
    /\ UNCHANGED <<posts, server, to_ud, futures, outcome, callvars, missed, lost>>

(* The post remove is a datagram of its own, after the generate: a crash   *)
(* may come between the two.                                               *)
AddPostRemove ==
    /\ alive /\ posting
    /\ posts' = posts \union {life}
    /\ posting' = FALSE
    /\ UNCHANGED <<life, alive, server, to_ss, to_ud, futures, outcome, callvars, restarts, lost>>

(* The process is gone with its futures and those who wait for them.       *)
Crash ==
    /\ alive
    /\ alive' = FALSE
    /\ torn' = posting
    /\ posting' = FALSE
    /\ futures' = <<>>
    /\ outcome' = [r \in Query |-> IF outcome[r] = "waiting" THEN "raised" ELSE outcome[r]]
    /\ UNCHANGED <<life, posts, server, to_ss, to_ud, callvars, inherited, hasty, missed, lost>>

\* Mutant: the post remove is dropped with the connection.
ConnectionDropped(n) ==
    /\ n \in posts
    /\ alive => n # life
    /\ posts' = posts \ {n}
    /\ UNCHANGED <<life, alive, posting, server, to_ss, to_ud, futures, outcome, callvars, restarts, lost>>

(* The master finds a connection lost and queues its post remove.          *)
ConnectionLost(n) ==
    /\ n \in posts
    /\ alive => n # life
    /\ posts' = posts \ {n}
    /\ to_ss' = Append(to_ss, PostRemove)
    /\ UNCHANGED <<life, alive, posting, server, to_ud, futures, outcome, callvars, restarts, lost>>

(* A post remove reaches who subscribes to GLOBAL_ID at that moment: it    *)
(* stays on the way to the state server, or is gone.                       *)
Route ==
    /\ \E i \in 1..Len(to_ss) :
          /\ to_ss[i] = PostRemove
          /\ \A j \in 1 .. i - 1 : to_ss[j] # PostRemove
          /\ to_ss' = IF listening THEN [to_ss EXCEPT ![i] = DeleteRam] ELSE RemoveAt(to_ss, i)
    /\ missed' = ~listening
    /\ UNCHANGED <<life, alive, posts, posting, server, to_ud, futures, outcome, callvars,
                   inherited, hasty, torn, lost>>

ReceiveControl ==
    /\ control # <<>>
    /\ listening' = (Head(control) = "SET_CHANNEL")
    /\ control' = Tail(control)
    /\ UNCHANGED <<life, alive, posts, posting, registered, to_ss, to_ud, futures, outcome, callvars,
                   restarts, lost>>

(***************************************************************************)
(* The state server.  An object subscribes to its channel when it is       *)
(* generated, which is done once, and unsubscribes when it is deleted.     *)
(* An answer has the sender and the context of the question, whether or    *)
(* not the avatar is known.                                                *)
(***************************************************************************)
HandleGenerate ==
    /\ to_ss # <<>> /\ Head(to_ss) = Generate
    /\ registered' = TRUE
    /\ control' = IF registered THEN control ELSE Append(control, "SET_CHANNEL")
    /\ to_ss' = Tail(to_ss)
    /\ UNCHANGED <<life, alive, posts, posting, listening, to_ud, futures, outcome, callvars, restarts, lost>>

Annihilate ==
    /\ to_ss # <<>> /\ Head(to_ss) = DeleteRam
    /\ registered' = FALSE
    /\ control' = IF registered THEN Append(control, "REMOVE_CHANNEL") ELSE control
    /\ to_ss' = Tail(to_ss)
    /\ UNCHANGED <<life, alive, posts, posting, listening, to_ud, futures, outcome, callvars, restarts, lost>>

HandleLocate ==
    /\ to_ss # <<>> /\ Head(to_ss).type = "LOCATE"
    /\ to_ud' = Append(to_ud, Head(to_ss).req)
    /\ to_ss' = Tail(to_ss)
    /\ UNCHANGED <<life, alive, posts, posting, server, futures, outcome, callvars, restarts, lost>>

LoseLocate ==
    /\ lost < MaxLost
    /\ to_ss # <<>> /\ Head(to_ss).type = "LOCATE"
    /\ lost' = lost + 1
    /\ to_ss' = Tail(to_ss)
    /\ UNCHANGED <<life, alive, posts, posting, server, to_ud, futures, outcome, callvars, restarts>>

(***************************************************************************)
(* Futures.                                                                *)
(***************************************************************************)
QueryLocation(r) ==
    /\ alive /\ ~posting
    /\ outcome[r] = "idle"
    /\ to_ss' = Append(to_ss, Locate(r))
    /\ futures' = Append(futures, r)
    /\ outcome' = [outcome EXCEPT ![r] = "waiting"]
    /\ calls' = calls + 1
    /\ number' = [number EXCEPT ![r] = calls']
    /\ UNCHANGED <<life, alive, posts, posting, server, to_ud, restarts, lost>>

\* Mutant: a call that timed out takes its future from the list.
TimeoutForgets(r) ==
    /\ outcome[r] = "waiting"
    /\ outcome' = [outcome EXCEPT ![r] = "raised"]
    /\ futures' = Remove(futures, r)
    /\ UNCHANGED <<life, alive, posts, posting, server, to_ss, to_ud, callvars, restarts, lost>>

(* wait_for cancels the future and raises; the future stays in the list.   *)
Timeout(r) ==
    /\ outcome[r] = "waiting"
    /\ outcome' = [outcome EXCEPT ![r] = "raised"]
    /\ UNCHANGED <<life, alive, posts, posting, server, to_ss, to_ud, futures, callvars, restarts, lost>>

Cancelled(r) == outcome[r] = "raised"

(* A future without a context takes any answer about its avatar.           *)
Matches(r, answer) ==
    /\ avId[r] = avId[answer]
    /\ context[r] = 0 \/ context[r] = context[answer]

Matching(answer) == {k \in 1..Len(futures) : Matches(futures[k], answer)}
\* Mutant: the list is searched from its end.
LastMatch(answer) == CHOOSE k \in Matching(answer) : \A j \in Matching(answer) : j <= k

FirstMatch(answer) == CHOOSE k \in Matching(answer) : \A j \in Matching(answer) : k <= j

(* The first future that matches is taken from the list before it is set:  *)
(* one that was cancelled raises, and the answer is gone.                  *)
CheckFutures ==
    /\ to_ud # <<>>
    /\ to_ud' = Tail(to_ud)
    /\ LET answer == Head(to_ud)
           k      == FirstMatch(answer)
       IN  IF ~alive \/ Matching(answer) = {}
           THEN UNCHANGED <<futures, outcome>>
           ELSE /\ futures' = RemoveAt(futures, k)
                /\ outcome' = IF Cancelled(futures[k]) THEN outcome
                              ELSE [outcome EXCEPT ![futures[k]] = answer]
    /\ UNCHANGED <<life, alive, posts, posting, server, to_ss, callvars, restarts, lost>>

Next ==
    \/ OnUpstreamConnect \/ AddPostRemove \/ Crash \/ \E n \in posts : ConnectionLost(n)
    \/ Route \/ ReceiveControl
    \/ HandleGenerate \/ Annihilate \/ HandleLocate \/ LoseLocate \/ CheckFutures
    \/ \E r \in Query : QueryLocation(r) \/ Timeout(r)

(* The master notices a loss and the queues are emptied.                   *)
Fairness ==
    /\ WF_vars(\E n \in posts : ConnectionLost(n))
    /\ WF_vars(Route) /\ WF_vars(ReceiveControl)
    /\ WF_vars(HandleGenerate \/ Annihilate \/ HandleLocate)
    /\ WF_vars(CheckFutures)

Spec == Init /\ [][Next]_vars /\ Fairness

-----------------------------------------------------------------------------
(* Types; and whoever waits for an answer has a future that can get it.    *)
TypeOK ==
    /\ life \in 0..MaxLives /\ alive \in BOOLEAN /\ (alive => life > 0)
    /\ posts \subseteq 1..life /\ posting \in BOOLEAN
    /\ registered \in BOOLEAN /\ listening \in BOOLEAN /\ control \in Seq(Control)
    /\ to_ss \in Seq(Message)
    /\ to_ud \in Seq(Query) /\ futures \in Seq(Query)
    /\ calls \in Nat /\ number \in [Query -> Nat]
    /\ outcome \in [Query -> Outcomes \union Query]
    /\ inherited \in BOOLEAN /\ hasty \in BOOLEAN /\ torn \in BOOLEAN /\ missed \in BOOLEAN
    /\ lost \in 0..MaxLost
    /\ \A r \in Query : outcome[r] = "waiting" => alive /\ Contains(futures, r)

Answered  == {r \in Query : outcome[r] \notin Outcomes}

(* Late answers, answers that came too late for a retry, and answers to    *)
(* the same question of another call: none of them passes for the answer   *)
(* to a later call, so what a call gets was read after it asked.  Only an  *)
(* uberdog that comes back while answers to its earlier life are on their  *)
(* way may take one, and then every later answer for the one before.       *)
NeverOlder ==
    ~inherited => \A r \in Answered : number[r] <= number[outcome[r]]

(* While nothing is lost and the uberdog does not restart, a call that     *)
(* gets an answer gets its own, though others time out before and after.   *)
OwnAnswer == lost = 0 /\ life = 1 => \A r \in Answered : outcome[r] = r

(* An uberdog that was started after the loss of its last connection was   *)
(* noticed has its object; the post remove of the old one does not delete  *)
(* the new one's.                                                          *)
ObjectKept == alive /\ ~hasty /\ to_ss = <<>> => registered

(* An uberdog that is gone for good leaves no object behind, unless it was *)
(* lost between its generate and its post remove, or its post remove was   *)
(* routed when the master did not have the state server subscribed to the  *)
(* object's channel: not yet, or not any more since an earlier deletion.   *)
ObjectGoesWithUberdog == []<>(alive \/ ~registered \/ torn \/ missed)
=============================================================================
