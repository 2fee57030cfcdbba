# OpenOTP in TLA+

This directory specifies the server cluster of OpenOTP: the processes under
`src/otp/` that let Toontown clients, AI servers and databases talk to each
other. The modules are translated from the Python source, model-checked with
TLC on small instances, and partly proved with TLAPS for every instance.
`PROJECT.json` maps each definition to the lines it stands for.

1. [Inventory](#1-inventory)
2. [Plan](#2-plan)
3. [What is modelled](#3-what-is-modelled)
4. [Runs](#4-runs): what each one checks, its bounds, its mutants
5. [Fairness](#5-fairness)
6. [Proofs](#6-proofs)
7. [Where code and intent differ](#7-where-code-and-intent-differ)
8. [Not modelled](#8-not-modelled)

## 1. Inventory

Every process is one asyncio event loop. Between two `await`s nothing else
runs, so a handler is one atomic step; the interleavings are those of tasks
(one that reads, one that handles and one that writes each connection, one that
routes) and of processes (master, state server, client agent, uberdogs,
database server), which exchange datagrams over TCP.

```
 clients --- client agent ---+                +--- database server --- MySQL
                             |                |
 AI servers -----------------+--- master -----+--- state server
                             |    message     |
 uberdogs -------------------+    director    +--- ...
```

### Master message director (`messagedirector.py`, `networking.py`)

*State.* The connected participants; for each its own set of channels
(`MDParticipant.channels`) and its post removes; `channel_subscriptions`, from a
channel to the participants that hear it; the queue `q`; per connection the bytes
received and the datagrams to be written.
*Operations.* A control message (`SET_CHANNEL`, `REMOVE_CHANNEL`,
`ADD_/REMOVE_RANGE`, `ADD_/CLEAR_POST_REMOVE`) acts when it is received; anything
else is put in `q` and routed later, to whoever hears one of its channels *then*.
Losing a connection unsubscribes it and queues its post removes.
*Hard.* Control overtakes data. A range message changes one side of the
subscription only. A connection may break at any point between its last datagram
and its last words.
*Correct when* the two sides of a subscription agree, each receiver sees a
sender's datagrams in order and once, last words follow everything else and are
published if and only if the connection is lost, and a connection that is gone
hears nothing.

### Downstream message directors (`messagedirector.py`)

The same tables inside a state server or a client agent, whose participants are
distributed objects or clients.
*State.* The tables, and one upstream connection to the master.
*Operations.* A `SET_CHANNEL` goes up for the first local subscriber of a channel,
a `REMOVE_CHANNEL` for the last; datagrams from upstream are handed to the local
subscribers, in set order, inside one `try`.
*Hard.* Members come and go in any order while those messages are on their way;
redundant removes; the upstream connection breaks and is never made again.
*Correct when* what is on its way to the master always amounts to what the members
want, and an answer to a member that still listens is not lost.

### Channel allocator (`networking.py`)

*State.* `_used_channels`, `_freed_channels`, the cursor `_next_channel`.
*Operations.* `new_channel_id` (recursive), `free_channel_id` (without a caller).
*Hard.* The interesting branches are only reached after a million clients, if ever.
*Correct when* a channel is never handed out twice and asking never fails.

### State server (`stateserver.py`, `zone.py`)

*State.* The distributed objects: location, AI channel, owner, field values; each
parent's own index `zone_objects` of its children; pending activations
(`queries`, `database_objects`).
*Operations.* Generate, `SET_ZONE`, `CHANGE_ZONE`, `DELETE_RAM`, field updates and
queries, zone queries, `ADD_AI`, `SET_OWNER`, `SHARD_REST`, activation of a stored
object.
*Hard.* A parent learns where its children are from notices that travel up to the
master and back: its index lags. Parents are generated after, and deleted before,
their children. Hierarchies may form cycles. A handler that raises half-way leaves
its earlier changes in place. Activation waits for the database.
*Correct when* an index differs from the objects' locations by exactly the notices
on their way, and becomes exact when they have arrived; when a query gets its answer.

### Client protocol and client agent (`clientprotocol.py`, `clientagent.py`)

*State.* Per client: its session state, interests, visible, owned and pending
objects with queued datagrams, its channel and the channels it hears.
*Operations.* Login and avatar selection (abstract methods, implemented outside this
repository), adding, altering and removing interests, entries, updates and
deletions from the state server, disconnection.
*Hard.* An interest is open while the state server's answers trickle in; deletions
and updates for objects that are not visible yet are queued; interests are altered
while they are open; datagrams still arrive after `disconnect()`; the logout of
an avatar races with its next login.
*Correct when* a client sees an object if and only if an interest covers it, entries
precede updates, and nothing is replayed for an interest that is gone.

*Owned objects.* A client may own objects, and move them: it believes its own move at
once, tells the state server, and ignores the notice of it. AIs move the object, too,
delete it, and give it to another client, of which the old owner hears nothing.
*Hard.* The owner's moves cross the notices of others; an exception in one client keeps
a deletion from the others of its agent.
*Correct when* the owner knows where its object is, now or when what is on its way has
arrived, and other clients see the object where it is.

### Framing (`networking.py`)

*State.* Per connection the datagrams to be written, the bytes received and not yet
read, the length that was read; per process one event loop.
*Operations.* `send_datagram`, `transport_datagrams`, `data_received`,
`handle_datagrams`, `connection_lost`.
*Hard.* Partial and empty datagrams; a datagram too long for its header raises in the
writing task; a handler that raises leaves its datagram in the buffer and the loop
tries it again without a pause, and with it stands the whole process.
*Correct when* each datagram is handled once, whole and in order, however the bytes
are cut up, and in the end.

### Uberdogs (`uberdog.py`)

*State.* Futures of outstanding requests, the global object, its post remove.
*Operations.* Connecting (generate the object, ask for its removal), `query_location`
with a timeout, `check_futures`.
*Hard.* A timeout races with the late answer, which meets a future that was cancelled
or another call's; a restart races with the post remove of the previous connection; a post
remove reaches only those who subscribe when it is routed.
*Correct when* a call gets no answer older than its question, the object is there as
long as the uberdog is and goes with it.

### Database server (`dbserver.py`, `dbbackend.py`)

*State.* Two tables, `objects` and one for the class; a pool of five connections.
*Operations.* Create, get and set: each a task that borrows a connection.
*Hard.* Tasks interleave between any two statements; an object is created in two
transactions; only `IntegrityError` is caught, and whatever else is raised leaks the
connection.
*Correct when* requests behave as if they were done one at a time, failures leave no
object that someone was told of, and the pool does not run dry without failures.

### Others

Channel arithmetic (`zone.py`, `util.py`): pure functions on numbers, whose
ranges overlap for large zones and ids; who subscribes to them then hears what is meant for
others, and loses with one what it needs of the other. Configuration (`src/par/`), launcher,
constants and message numbers: no behaviour of their own.

The hazards, each at its line, are in `PROJECT.json` with the properties that
catch them, or the reason why none does.

## 2. Plan

Most important first: everything depends on the bus, then on the directors
between the bus and the objects, then on the objects' locations.

| # | module | composes | state |
|---|--------|----------|-------|
| 1 | `ChannelAllocator` | | done, proved |
| 2 | `MessageDirector` | `SubscriptionTable` | done, truncated datagrams included; safety proved |
| 3 | `ChannelRelay` | `SubscriptionTable` | done, safety proved |
| 4 | `StateServer` | | locations done, safety proved |
| 5 | `ClientInterest` | client agent, master, state server | interests done, safety proved |
| 6 | `Activation` | client sessions, state server, database | done, safety proved |
| 7 | `Framing` | | done, safety proved |
| 8 | `Uberdog` | uberdog, master, state server | done; `NeverOlder`, `OwnAnswer`, `ObjectKept` proved |
| 9 | `ObjectStore`, `Database` | the second implements the first | done, the refinement proved |
| 10 | `Ownership` | clients of one agent, state server | done, safety proved |
| 11 | `Channels` | state server, client | done, safety proved |

*Abstract specifications.* `ObjectStore` is what the database server promises, and
`Database` implements it. Still worth stating: (a) a bus, publish and subscribe with
atomic delivery in each sender's order, implemented by `MessageDirector`; (b) a
map from channel to interested members, implemented by `ChannelRelay` through
`WillHear`; (c) a lagged index, a set of located children and a queue of moves,
implemented by `StateServer`.

*Theorems worth proving next.* The refinements above: every invariant that a run
checks is proved.

## 3. What is modelled

### `ChannelAllocator`

Each recursive call of `new_channel_id` is a `Probe` step, from `mode = "busy"`
until the innermost one returns (`"idle"`) or raises (`"overflow"`). All three
branches of the code are there: channel free, cursor within the range, wrap-around or
`OverflowError`. `granted` is a history of what was returned. `AllocatorInit`,
`AllocatorNext`, `AllocatorSpec` and the like, `StreamInit`, `StreamNext`, `StreamSpec` of
`Framing` and `ChannelsInit`, `ChannelsNext`, `ChannelsSpec` of `Channels` have names of their own so
that one module of proofs can extend the three and `Activation`.

### `SubscriptionTable`

The operators of `MessageDirector` (the Python class) on its dictionary, shared
by the two modules below. `UnsubscribedAll` follows the code in walking the
participant's *own* channels.

### `MessageDirector`

| action | code |
|--------|------|
| `Connect` | `UpstreamServer.new_client`, the constructor of `MDProtocol` |
| `Arrive` | bytes of one whole datagram from the peer |
| `ReceiveDatagram` | `handle_datagrams` and `MDProtocol.receive_datagram`, one disjunct per message |
| `ConnectionLost` | `connection_lost`: drop what is unread, `remove_participant`, then `post_remove` |
| `Route` | `route`, `process_datagram` |
| `Transmit` | `transport_datagrams` |

A member of `Participant` is one connection, not one peer: a peer that comes back
is another member. A datagram is its sender, its channels, a number that
stands for the payload, and a mark for post removes. A datagram without channels is one that
was cut off (`Readable`): reading its channels raises outside the `try` of
`process_datagram`, and `routing`, the task, is over. `delivered`, `routed`, `promised` and
`ranged` are histories, which the actions never read.

### `ChannelRelay`

Several directors under one master. `Subscribe`, `Unsubscribe` and `MemberLeaves`
are the director's tables with the control message they send; `known` keeps
which channels are keys of the dictionary, because unsubscribing from one that is not
raises `KeyError`. `Handle` is the master taking the next message of a connection.
`Ask`, `Answer` and `Process` follow a question and its answer: a client's
`receive_add_interest` is the example in the code. The master's queue is the set `open`:
answers come from other processes, in any order. `Process` may stop after any
of the receivers, as an exception in one of them does. `ConnectionLost`
leaves the director alive and disconnected, as the code does.

### `StateServer`

The objects' locations, AI channels and indexes, and the three queues between the
state server and the master. `Process` handles the next datagram, with one disjunct per
message type; `Forward` and `Route` are the master; `Send` is any other process.
`LocationChange` is `handle_location_change` with its two bad ends: the move
that raises after the location was assigned (`botched`), and the search for an AI
channel that never returns (`hung`). What is sent to AIs, clients and owners is
left out: no handler of the state server reacts to it. `disturbed` is a history
of the children whose parent was missing or deleted on their path; the
properties are about the others.

### `ClientInterest`

One client that plays and owns nothing, its agent's connection to the master, and the
state server's end of the conversation.

| action | code |
|--------|------|
| `AddInterest` | `receive_add_interest`, from the client or from an AI; a new interest, or one altered |
| `RemoveInterest` | `receive_remove_interest` |
| `Receive` | the agent's `process_datagram`: `InterestDone` is `handle_interest_done`, `ObjectNews` the other branches of `handle_datagram` |
| `Forward`, `Route` | the master: control at once, data through `q` |
| `Serve` | the parent objects: `AnswerQuery` is `handle_query_zone`, `Reindex` handles their children's notices |
| `Move`, `Annihilate`, `UpdateField` | `handle_location_change`, `annihilate`, `handle_one_update` |

What the client has of an object is a pair of the copy it was shown and the datagrams
that are pending; `Entered`, `Moved`, `Updated` and `Deleted` are the handlers on
that pair, and `Replayed` does them one after the other with what was pending, as a recursive
function. The replay is with the
interest already done, but for another open interest the entry is queued again, as in
the code. Altering an interest to another parent raises when there is another interest
(the zones are a list, which has no `difference`). `handle_datagrams` then tries a
client's datagram again, at once, and finds the old interest gone; an AI's datagram
is dropped. `AddInterest` models both.

`ViewExact` is what the whole mechanism is for. The code does not achieve it always:
the module names each race in which it does not (`Outside`, `Outlived`, `Unheard`,
`Overtaken`, `Abandoned`, `Dropped`, `Belated`, `Hasty` and `Misplaced`), and the history `strayed` keeps
the objects they have hit, which `ViewExact` and `PendingHasReason` leave out. Every name
stands for a counterexample of TLC, or for a step at which the proof would not go through, that
was followed back into the code; no
race is excluded that does not go wrong in some behaviour. That there are no others is the
theorem `ViewIsExact` (section 6). `Hasty` marks all
objects; the others only those concerned.

### `Ownership`

One object and the clients of one agent, any of which may own it.

| action | code |
|--------|------|
| `ClientLocation` | `receive_client_location`: the record in `owned_objects` first, then `SET_ZONE` |
| `ProcessMove`, `SetZone` | the state server takes the `SET_ZONE` of a client, or of an AI: `handle_location_change` |
| `SetOwner`, `Generate`, `Annihilate` | `handle_set_owner`, `activate_callback` (or `handle_generate`), `annihilate` |
| `Deliver` | the agent's `process_datagram` and its clients' `handle_datagram`: `ObjectEntrance`, `OwnedEntrance`, `LocationChange`, `Deleted` are the handlers |

`up[c]` and `to_ca` are the two directions between a client and the state server, in
order, as `MessageDirector` has it. The object takes a `SET_ZONE` from anybody; the old owner
keeps its record and may go on sending them, and so may an owner whose object is gone. A
client whose own channel is the sender ignores the message; `Deleted` ends the agent's loop
over its clients where one of them raises `KeyError`, which it does for an object that it owns and
does not see.

Two histories name what goes wrong. `crossed` has the clients whose own move crossed a
notice: the client took the notice on top of its own newer move, or moved while the
notice was on its way, and its record stays wrong until a notice that crosses
nothing. `missed` has the clients which an exception in another cost a deletion: they go on
showing an object that is gone.

### `Channels`

The functions of `zone.py` on numbers (`ZONE_BITS`, a bitwise or), and the objects and
a client that subscribe to the results. Everything is heard by number: `SetZone` is
every object that hears the channel of the `SET_ZONE`, since none of them asks for which object it
is; `Notice` is a client that shows what it hears, wherever that is; `RemoveInterest` gives up
a number, also when another interest has the same. `routing` is the master with both directors.
The bitwise or is taken where it matters, which is when a zone has more than its bits or an
id has the bit of `parent_to_children`; where the operands share no bit it is a sum
(`location_as_channel`, `parent_to_children`). The objects that hear one `SET_ZONE` handle it in any
order.
`wide` is a history of the objects that a zone of `2^ZONE_BITS` or more has touched, all of them
when a client's interest is such a zone. With the real 16 bits, the bit of
`parent_to_children` is set in half of the ids that are handed out. Nobody sends anything to
a children's channel as such, so that all its effects are those of `MovesAlone` and
`HearsItself`.

### `Activation`

The sessions of one account follow each other on the same stored avatar.

| action | code |
|--------|------|
| `Purge`, `Login` | external: what the login and avatar handlers of the missing subclass must do |
| `HandleOwnedObjectEntrance`, `HandleDeleted`, `ConnectionLost` | the client's branches of `handle_datagram`, `disconnect` included, and `connection_lost` |
| `HandleDbGenerate`, `ActivateCallback`, `HandleGenerate`, `HandleDeleteRam` | the state server's handlers |
| `AnswerGet`, `LoseGet` | the database: a full answer, one without a required field, or none |
| `SendGenerate` | external: a process that generates the stored object by itself |

`participants` are the `DistributedObject`s, `objects` the registry: they differ when
an object could not be built, or was built on top of another. A participant is built
before it listens to its own channel; the missing field decides which of the two has
happened when it raises. `Annihilated` is `annihilate`, done for those who hear a
`DELETE_RAM` one after the other (`after` in `HandleDeleteRam`), in any order and cut short by
the first `KeyError`.

The properties say where the code keeps its word. An activation that runs into an
object generated directly (`raced`) leaves a participant nobody can remove.
A session that asks while the last activation is not over is taken for a duplicate
(`refused`) and waits for ever, and so does one whose answer does not make an object
(`failed`) or never comes (`silent`): `LoginServed` lets nobody else wait.

### `Framing`

The sending and the receiving end of each connection to one process, whose reading
tasks share its event loop: `running` is the task that has it. `TransportDatagram` is
`transport_datagrams`, with the task ending (`writing`) on a length that two bytes do
not hold; `Wake`, `ReadHeader`, `HandleDatagram`, `RetryDatagram` and `Sleep` are the
branches of `handle_datagrams`. Bytes carry their datagram and their place in it, so
that a reader that lost the boundaries would hand over something `Garbled`. `sent` is a history
of the datagrams that have a byte: the others are taken for a missing header.

### `Uberdog`

`OnUpstreamConnect` and `AddPostRemove` are the two datagrams of
`on_upstream_connect`; `Crash` may come between them. `ConnectionLost` is the master
noticing that an old connection is gone, at any time after the restart: it queues the post
remove. `Route` is the moment at which it leaves that queue. It then goes to those whom the
master has subscribed to the uberdog's id (`listening`), and the state server is one of them from when the
`SET_CHANNEL` of the object it generated has come (`HandleGenerate`, `ReceiveControl`) until
the `REMOVE_CHANNEL` of its deletion (`Annihilate`). A post remove that is routed outside that
time deletes nothing, although the `GENERATE` before it is handled later: `missed` marks this, and
`torn` an uberdog lost before its post remove got through. In both cases the object may stay for good.
The two lanes, `to_ss` for data and `control` for subscriptions, are the reason why all
this can cross: control acts at once, data waits for `Route`. `QueryLocation`, `Timeout` and `CheckFutures` are `query_location` and
`check_futures`; the state server answers what it hears in order (`HandleLocate`), or
is not there to hear it (`LoseLocate`). `number` and `calls` number the calls as they
are made. `inherited` marks a restart while an answer was on its way: such an answer
finds the futures of the new process, which have the same avatars and may have the
same contexts, and from then on each may get the answer before its own. `NeverOlder`
holds in every other case, in particular after any timeouts: the futures that stay in
the list soak up the late answers.

### `ObjectStore` and `Database`

`ObjectStore` is the database server as its callers see it: each request is asked,
decided at one moment, and answered, or lost. `Database` is the code: every request is a
task at a place `pc`, and each step is one statement, together with what runs up to the
next `await`.

| action | code |
|--------|------|
| `Receive` | the three handlers that create a task |
| `Refuse`, `Acquire`, `Finish` | the missing field, `pool.acquire`, `pool.release` and the answer |
| `InsertObject`, `CommitObject` | `create_object`'s first transaction |
| `WriteRow`, `CommitRow` | its second, and the `UPDATE` of `set_fields` |
| `QueryClass`, `SelectRow` | `_query_dclass` and the `SELECT` of `query_object_fields` |
| `IntegrityError` | what both transactions and the update catch |
| `Fault` | any other exception: the task ends, its connection is not released |

`store` is the class's table, and a request's moment is its `COMMIT` or its last
`SELECT`. The statement `SELECT  FROM` or `UPDATE ... SET` of an empty field list is not SQL, so that
a request without fields always ends in `Fault`. Ids come from `AUTO_INCREMENT` and
are not given back by a transaction that failed.

*Interaction.* `StateServer` contains the two facts about the master
that `MessageDirector` establishes in detail: control acts at once and data later, and order
is kept per sender. `ChannelRelay` establishes that a director's members
may be treated as subscribers of the master, which `StateServer` relies on
when it lets `listening` follow the objects. `Activation` and `Uberdog` take from
`MessageDirector` and `Framing` that what one process sends another arrives in order, and
`Activation` takes from `Database` that the answer to a `GET` comes once, or never after a
fault.

## 4. Runs

The properties of each passing run have a mutant in `PROJECT.json`: a plausible bug,
defined next to the code it changes, under which the same run fails.

| run | instance | shows |
|-----|----------|-------|
| `allocator` | range 5..7, 6 grants | `NeverReissued`, although the cursor leaves the range |
| `md_mixed` | 2 connections, 2 channels, 3 datagrams, with ranges and truncated ones | `SubscriptionMirror`, `SenderOrder`, `PostRemovesFollowLoss`, `LastWordsRouted` |
| `relay` | 2 directors, 3 members, 1 channel, backlog 3, 2 requests | `RelayFaithful`, `NoAnswerLost`, `InterestConverges` |
| `framing` | 2 connections, an empty, a long, an oversize and a raising datagram, 3 sends | `HandledInOrder`, `EverythingHandled` |
| `ss_churn` | root, a parent, a child, an AI; parents and AIs go, cycles form; 4 requests | `NoticeChain`, `QueryFailsOnlyInWindow`, `IndexSettles`, `TypeOK` |
| `ci_view` | 1 object, 1 parent with 2 zones, 2 handles; 2 interests added or altered, 2 changes | `ViewExact`, `PendingHasReason`, `InterestsHeard`, `NothingElseHeard`, `TypeOK` |
| `ci_parents` | 2 parents, 1 zone each, one of them heard by another client; 2 interests, from the client or an AI; 1 change | `ViewExact`, `InterestCompletes` |
| `activation` | 1 avatar, 3 sessions, 1 direct generate | `AnswersExpected`, `OneBody`, `PlayerHasAvatar`, `AvatarHasPlayer`, `LoginServed` |
| `ownership` | 2 clients of one agent, one that sees both locations and one that sees only the second; 6 moves, gifts, generates and deletions | `OwnerKnowsPlace`, `SightExact`, `OwnerSettles` |
| `channels` | 2 bits for zones; objects 1, 5 = 1 with the bit, and 8; 5 locations, one too large a zone; 5 `SET_ZONE`s and changes of interest | `ViewMatches`, `ObjectsHear`, `MovesAlone` |
| `uberdog` | 3 calls about one avatar (2 with one context, 1 with none), 3 lives, 1 lost question | `NeverOlder`, `OwnAnswer`, `ObjectKept`, `ObjectGoesWithUberdog` |
| `database` | 3 creates, 1 get, 2 sets, 2 fields (1 required), pool of 2, 2 faults | `AtomicRequests`, `PoolAccounted`, `OrphansExplained`, `RequestsEnd` |

*Why the bounds are enough.*
`MaxGrants` is twice the range. Three datagrams are a subscription, and
a datagram, a removal, a range or a post remove from one or both peers, so that each of them can
overtake or follow each other, and the proofs cover longer behaviours; two channels let a datagram reach one receiver twice and let a
range cover one channel of two. A sender may hear itself. In `relay` two members of one director share a
channel, which is what first and last subscriber mean, the other director answers for
the master's other connections, and a backlog of three lets
set, remove and request be on their way together; the proofs cover the rest. Three objects give a child two
possible parents, one of them movable, and cycles of two; four requests generate both,
move one and delete one with all notices still on their way. The client handles
objects one by one, so that one object shows what can happen to each; two interests
overlap in it, or one replaces the other while it is open, and two changes let it move
away and come back, or vanish and be generated elsewhere, while a query is answered.
In `ci_parents` the second request alters the first interest to the other parent, or sets a
second one beside it. Zones and
handles are interchangeable in `ci_view`, which takes their symmetry. The proofs cover
longer behaviours, more objects and more interests. Three sessions are one that goes, one
that comes before the state server has heard of it, and one that comes after; avatars are
handled apart from each other. Two connections share an event loop, and the three
datagrams fit the longest, the shortest and the one that stops everything on either. Two
clients are an old and a new owner, or an owner and one that looks on; of two locations one is
in everybody's view and one is not; six steps are a generate, a gift, a move of each, a
deletion, and a generate again. In
`channels` a parent has the bit, another is the same id without it, and a third object is
the child of either; of the three zones in one parent two share a channel; an AI acts while at most
one notice is on its way, and generates are bounded by the objects. The
calls of an uberdog compete for answers only when they are about one avatar; three of them
give a late answer an earlier and a later call, with equal, different and no contexts. Three
lives let the object be generated, deleted and generated again while a third connection comes,
so that the state server's subscription comes, goes and comes back.
Three creates over two connections let one wait for the pool; two sets that overlap in one
field, with a get, are what atomicity is about; two faults can empty the pool. Deadlock
checking is off where the environment stops at its bound, as each cfg says.

`RelayFaithful` has no exception for a channel that is unknown, redundantly
removed or taken by `unsubscribe_all` in arbitrary order: that is its content.
`NoticeChain` says of each notice on its way, by its position, that it starts where the one before
it has led. `SubscriptionMirror`, and `DepartedHearNothing` that is proved from it, exclude channels that the connection
itself named in a range message, because there the code does leave a ghost
subscription; `QueryFailsOnlyInWindow` says exactly when a zone query goes
unanswered: while the notice of a deleted child is on its way to its parent, or for ever
because of a child that is cut off from it.

## 5. Fairness

Weak fairness of the tasks of the processes, and of nothing else.
`route`, `handle_datagrams` and `transport_datagrams` are loops around an `await` on a
queue or an event, so the event loop runs them again when there is work:
`WF(Route)`, `WF(ReceiveDatagram)`, `WF(Transmit)`, `WF(Handle)`, `WF(Process)`,
`WF(Forward)`, and in `ClientInterest` `WF(Receive)` and `WF(Serve)`, in
`Ownership` `WF(Deliver)` and `WF(ProcessMove)`. No fairness is assumed of peers, members, connections and answers: they may
stop for ever. `Activation` and `Uberdog` ask the same of each queue, that a transport which
was told to close does so, and that the master notices a lost connection, as TCP
does when the process at the other end is gone. In `Uberdog` these are the two queues with the
state server, its subscriptions on their way to the master (`ReceiveControl`), and the post removes
on the master's own queue (`Route`). In `Activation` a `GET` is answered or
lost. `Database` asks only that some task goes on while one can: requests do not come back,
so that every task gets its turn. `Framing` asks for strong fairness of `Wake` and
`DataReceived`: asyncio runs ready callbacks in the order they became ready, so a
sleeper's turn comes although the loop is taken and given back in between; a handler that
is tried again for ever never gives it back, and `Hung` is the exception for it. `Process` of the state server is not enabled once it hangs, and
`IndexSettles` says so. `InterestCompletes` allows for a query that met a deleted
object: `handle_query_zone` raises `KeyError` and nothing answers. `InterestConverges` allows for the connection breaking.

## 6. Proofs

Checked by `tlapm` (SMT, Zenon, PTL), for every value of the constants that
satisfies the module's `ASSUME`.

**`ClientAgent_proofs`**, about what keeps the clients of an agent apart.

- *`ChannelAllocator`*: `CursorLeads`, and from it `NoReissue` (`NeverReissued`), `NoOverflow`
  (`NeverOverflows`), `Consecutive` (`GrantsConsecutive`) and `ChannelTypes`. Assumption:
  `AllocatorAssumption`. `NeverReissued` alone is not inductive: it says nothing of where the
  cursor is. `CursorAhead` adds that every used channel is below the cursor and that every
  granted channel is used, and that the cursor is as far from `min_channel` as there were
  grants. Then a probe always finds the channel free, the other branches are dead, and the new
  channel differs from all earlier ones.
- *`Activation`*: `TypeCorrect`, and from `Invariance` `AnswersMeetQueries` (`AnswersExpected`),
  `BodyIsOne` (`OneBody`), `PlayersHaveAvatars` (`PlayerHasAvatar`) and `AvatarsHavePlayers`
  (`AvatarHasPlayer`). Assumption: `ActivationAssumption`. `OneBody` is nearly inductive by
  itself: it needs that participants are numbered (`Numbered`). The others need to know where a
  session's one request is: `Apart` (no two requests of a session and no two answers about an
  object travel at once), `Awaited` (a pending activation waits for exactly one of the database, its
  answer, and nothing), `Named` (whoever asked keeps to its avatar) and `Once` (of a
  session that was told, nothing is left on the way). `Served` and `Departed` say of what is under
  way what `PlayerHasAvatar` and `AvatarHasPlayer` say of what has arrived. `DELETE_RAM` is a loop over
  the listeners: what holds after each turn (`DeletingStep`) holds at its end by the least
  counterexample (`Computation`), and `DeleteClears` says what is left of an object with one body.
- *`Framing`*: `StreamInOrder` (`HandledInOrder`), for datagrams of any sizes. Assumption:
  `SizeAssumption`. `HandledInOrder` says nothing of the bytes. `Flowing` does: what a connection
  holds between `sent` and `handled` is a sequence of datagrams. `Laid` puts the first of them on the
  byte stream, which is the buffer and the wire together, one behind the other without a gap;
  of the one that is being read, `expected` is the length and the header is gone. `Ranked` counts them,
  with those in the queue while the task writes: each that has a byte is the next in `sent`, after
  what was handled. `data_received` then changes nothing, and the other steps append a
  datagram, take one from the front (`LaidTail`, `RankedTail`) or only its header (`LaidHeader`).

- *`Channels`*: `ChannelsInvariance` (types and `ChannelsIInv`), and from it `ViewsMatch`
  (`ViewMatches`), `EveryObjectHears` (`ObjectsHear`) and `ObjectsMoveAlone` (`MovesAlone`), for any
  ids, parents, zones and number of bits. Assumption: `ChannelsAssumption`; that a power of two is a
  number is part of it, because the provers know no powers. The arithmetic is in two lemmas: two
  locations whose zones fit have different channels (`LocationsDiffer`, from `Digits`), and a
  children's channel is its parent's id or that with the bit, and has the bit (`ChildrenChannel`). `ViewMatches`
  speaks of an empty queue. `FollowedAll` speaks of any, for each object by itself: where it is shown, and
  wherever a notice on its way takes it, it still is, or a later notice says that it left
  (`Seen`, `Onward`); its place is shown, or its entry comes after all its moves (`Arriving`). Notices about
  another object leave that alone (`OtherGoes`, `OthersCome`), a move adds its own (`MoveComes`), and
  what the client hears takes one from the front (`ChangeHeard`, `EntryHeard`). `ObjectsHear` is inductive
  with the types (`ResubscribedHears`); `MovesAlone` follows from it and from who is told of what
  (`Addressed`).

**`ChannelRelay_proofs`.** `TypeCorrect`, `Faithful` (`RelayFaithful`),
`Invariance`, and `AnswersArrive` (`NoAnswerLost`). Assumption: `RelayAssumption`.
`TypeOK` contains the agreement of the two sides of a director's table, which the test for
the last subscriber needs.

- *`RelayFaithful`.* `Hears(s, c, b)` says whether a sequence of messages ends in a
  subscription: the last message about `c` decides, and without one the present
  state `b` does. Three lemmas carry the proof: appending messages that say nothing about `c`
  changes nothing, appending one that does decides it, and handling the head moves
  its effect into `b`. Each action then appends the message its test calls for. For
  `MemberLeaves`, the appended messages are a permutation of removals of distinct channels.
- *`NoAnswerLost`* is not inductive: when the master answers, the director has to be
  subscribed at that moment. `RequestsCovered` adds that the asker of a waiting request still
  hears its channel, so no message about the channel was sent after the request;
  by `RelayFaithful` the director is then subscribed when the master
  takes the request, and stays so. `RequestsNumbered` (requests have distinct
  numbers and travel on their own director's connection) keeps an old request from
  being taken for the new one.

`IInv` is the conjunction. Its parts were checked by TLC before they were proved.

**`StateServer_proofs`.** `TypeCorrect` (`TypeOK`), `ChainKept` (`NoticeChain`) and
`QueriesFailInWindow` (`QueryFailsOnlyInWindow`), for any objects, zones and requests.
Assumption: `StateServerAssumption`. A notice must find the parents it is for, or the chain
breaks. So `Addressed` says that whoever is told of the move of an undisturbed child is there and
is all who ought to be told, and `Subscribed` that each object that is there listens, or will when
its `SET_CHANNEL` is taken, since before any notice for it reaches the master (`ListensSince`);
`HasParent` that an undisturbed object has its parent. With them `Chained` is inductive: `Leads`
says that a queue leads from one whereabouts of a child to another, and the notices do so over the three
queues, from where the parents have it to where it is. Lemmas on `Leads` for concatenation, the head
and messages that are no notice of the child carry the steps. `NoticeChain` follows because between two
notices nothing changes, and a query that fails has met a child whose chain leads nowhere, where some
notice must have taken it.

**`ClientInterest_proofs`.** `TypeCorrect` (`TypeOK`), `Heard` (`InterestsHeard`), `HeardOnly`
(`NothingElseHeard`), `PendingEnds` (`PendingHasReason`) and `ViewIsExact` (`ViewExact`). Assumption: `InterestAssumption`.
Only `AddInterest` and `RemoveInterest` touch channels. A zone that is killed is none of
another interest's zones, even when the parents differ, so that no location another interest covers
is unsubscribed: `InterestsHeard`. That nothing else is heard holds with one parent, which is
`HeardOnly`'s hypothesis: with two, the zones of another parent's interest keep a killed
location subscribed, and the property, as its comment says, is about one.
`PendingHasReason` needs that an interest without zones is done (`DoneIsEmpty`): everything that touches an
interest later, `Enlist` and `InterestDone` with its replay, keeps its locations (`Alike`), and
the replay queues an object again only where another open interest will replay it (`Grounded`).
The loop of the replay is handled like that of `DELETE_RAM`.

`ViewIsExact` holds for any objects, locations, interests, requests and changes. `ViewExact` speaks of
the moment when nothing is on its way any more; `Following` says of every other moment where that
will lead. `Pipe` is what the client will still hear, the inbox and behind it what the master has not
routed yet; `Serving` is what the parents will still handle. `Following` has three parts.

- *`Subscribed`*, of the agent, the master and the queries. The master has the agent subscribed to
  what it hears, but for what is on the uplink (`Mirror`); a query comes after the subscriptions to its
  locations (`QueryOrder`), and so does its answer (`DoneHeard`); no subscription is under way to a location
  of which something is on its way to the client (`Clean`), which `Hasty` breaks; contexts are not used twice
  (`Numbered`), and datagrams are addressed to the location they tell of, or to the client (`Plain`).
- *`Listed`*, of every object: where the parents list it, and what moves they have yet to handle.
- *`Followed`*, of an object that no race has hit. If the client has the object at a location and
  with a value, shown or to be replayed, then what is in `Pipe` leads from there to where it is
  (`Seen`). `Truth` says that: while the object stays within the location, each entry, move and
  deletion fits what the datagrams before it have told. The same holds after each entry in `Pipe`
  (`EntriesGood`), a move is followed by its entry (`Paired`), and what is pending is an entry and
  what happened to it since (`QueueShape`). `Complete` is the converse: an interest that was answered,
  or will be when the object's moves are behind the query, has the object or an entry of it on its way.

None of the parts is inductive alone: that a deletion or a move is heard depends on `Mirror` at the moment it
is routed, and that an entry is in an answer on `Listed` when the parent handles the query. Each action
changes the queues in one of three ways, a datagram removed from the front, one appended, or
one passed from one queue to the next, and for each of them there are lemmas about `Stays`, `Tells`, `Fits`
and `Truth` (`FitsStep`, `TruthBack`, `Places`, `HeadRemoved`, `MiddleRemoved`, `Longer`). They show
of every part what the step does to it; the races in
`strayed` are the cases in which one of the parts would fail. The replay at `DONE` is a fold over what is
pending: `EnteredIs` and the lemmas after it say what the client then has. The proof found one
of the races that the module names (`Belated`), and what `Unheard`, `Overtaken` and `Dropped`
have to cover beyond what the small instances show.

**`Database_proofs`.** `Pool` (`PoolAccounted`), `Orphans` (`OrphansExplained`),
`Atomicity` (`AtomicRequests`), and `TypeCorrect`. Assumption: `RequestAssumption`.
`IInv` adds to them that tasks keep to the statements of their kind (`KindsApart`) and
that creates have different ids, below `auto_inc`, in the tables only once they are
committed (`IdsApart`): without it the second transaction of a create might meet the row of
another, and its step would not be a `Creates` of the abstract store. The refinement maps
each step: the initial states agree; `Receive` is `Ask`; `CommitRow`, `SelectRow`,
a `QueryClass` that finds nothing, `Refuse` and `IntegrityError` are `Decide`; `Finish` is
`Answer`; `Fault` is `Lose`, with or without the effect of a `COMMIT` whose reply was lost; all
others stutter.

**`Uberdog_proofs`.** `AnswersAreFresh` (`NeverOlder`), `AnswersAreOwn` (`OwnAnswer`), `ObjectIsKept`
(`ObjectKept`) and `TypeCorrect`. Assumption:
`QueryAssumption`. `NeverOlder` follows from where things are, not from what was answered:
questions and answers travel in the order of the calls, futures stand in the list in that
order (`InOrder`), and whoever's answer is still to come has its future in the list
(`PendingHaveFutures`). The first future that matches an answer is then the call's own or an
earlier one's. Taking an earlier one's keeps the invariant, because the earlier answer has
passed already. `PendingHaveFutures` is what the mutant `TimeoutForgets` breaks. `Removal` and
`FirstIsLeast` are the lemmas about the list. `AnswersAreOwn` (`OwnAnswer`) adds, for an uberdog that
was not restarted and lost no question, that every future in the list waits for an answer of its own
(`FirstLife`): the first that matches is then the answer's. `ObjectIsKept` (`ObjectKept`) rests on what is
on its way to the state server: behind the last deletion there is a generate, or nothing
deletes and the object is there (`ObjectStays`). A post remove that is not yet routed counts as
a deletion there. Routing it takes it from the middle of the queue or makes it a deletion, and
`Routed` says that all other messages keep their order, by a map from the new places to the old ones.

**`MessageDirector_proofs`.** `TypeCorrect` (`TypeOK`), `Mirror` (`SubscriptionMirror`),
`GoneHearNothing` (`DepartedHearNothing`), `PostRemovesPublished`
(`PostRemovesFollowLoss`) and `OrderKept` (`SenderOrder`). Assumption:
`DirectorAssumption`. `SubscriptionMirror` is inductive with the types; a connection that is
gone has an empty set of channels, and the mirror gives `DepartedHearNothing`. `SenderOrder`
speaks of what has arrived, and datagrams may still arrive that are under way: `Order` says the same
of the whole path. Datagrams are numbered as they are sent (`Numbered`), no number is used
twice (`NumbersUsed`), what a connection carries is its peer's own (`Authored`), and the numbers
grow from what was delivered over what is to be written to `q` (`Paths`). A post remove has its
number from the moment it is asked for, but comes after all other datagrams of its sender, so that
`Before` compares the marks before the numbers; `PostRemovesFollowLoss` keeps a sender from
adding anything behind it.

**`Ownership_proofs`.** `OwnersKnow` (`OwnerKnowsPlace`), `SightIsExact` (`SightExact`) and `TypeCorrect`. Assumption:
`OwnershipAssumption`. The strengthening is `OwnerServed`: an owner has a record of its object
or its entrance is on the way, and no message that tells of the object brings anybody's record to
no location. Hence a notice that a client hears takes effect, and the last one in `to_ca`
decides (`Leads`). What remains is how each message changes that: one that tells the owner of the
new place ends the sequence, one that it does not hear leaves the rest as it was, and
delivering the first message moves its effect into the record. `SightIsExact` (`SightExact`) is about
the clients that look on. The messages on their way take the object from place to place without a
gap, and each move is followed by the entry of the new place (`Chained`); who does not own the object,
nor is about to, sends no moves (`Marked`); such a client sees the object where it was before
the first of those messages (`Sight`), and delivering one moves the view along.

The type invariants of all modules are proved; `StateServer` and
`ClientInterest` have theirs checked by a run as well.

The obligations of `ClientInterest_proofs` take a quarter of an hour on a small machine; those of the other
modules a few minutes each.

**Only model-checked.** All liveness properties:
fairness, and the ENABLED it is defined by, are beyond this prover. So is induction over data, since the library's induction theorems take an operator as
a parameter; the recursive function `Ancestor` is therefore left to TLC, and of `BitOr` the proofs about
`Channels` only use which operands it is given. No module declares a RECURSIVE operator.

## 7. Where code and intent differ

The runs and theorems describe what the code does; in these places it is not what its own
text suggests.

- *Channel range.* `new_channel_id` moves the cursor up after each grant and only wraps around,
  or raises `OverflowError`, when the channel under the cursor is in use, which it never is
  (`Consecutive`, `NoOverflow`): with the range 5..7 the fourth client gets channel 8.
  `src/local.par:13-14` gives a `MIN_CHANNEL` and a `MAX_CHANNEL`, and
  `networking.py:200-203` is written to stay between them.
- *Exceptions in the properties.* Each history that a property excludes (`ranged`, `strayed`,
  `crossed`, `missed`, `raced`, `wide` and the others) marks behaviours in which the code
  does not keep what the property says; the module's comments say how.

## 8. Not modelled

- *Malformed datagrams* other than those without a readable list of channels: a handler that
  meets one raises, which is `Raising` in `Framing` and the `try` in `ChannelRelay`.
- *`QUERY_OBJECT_ALL`* of the state server, and what it sends to
  AIs: no code in the repository sends the first, or reacts to the last. Fields are one
  broadcast value in `ClientInterest`.
- *A client's own updates*, and objects of uberdogs. `Ownership` leaves the clients' interests as
  they are and resolves the AI channel at once. The
  parent's own entry, which precedes its children's in an answer, is left out in
  `ClientInterest`.
- *Login and avatar handlers*: abstract methods, no code in the repository. `Activation`
  says what they must do for an avatar to be activated.
- *`create_toon`, `query_account`*: the database server calls them, and they are not in the
  repository; creates are modelled from `DBServer.create_object`. `query_object_all` and
  `set_field` have no caller. `DELETE_STORED_OBJECT` does nothing.
- *A state server that is lost* while uberdogs run. `Uberdog` lets a question be lost, as one is when
  no state server is there to hear it, but takes each `GENERATE` as heard: the state server
  stays, with its objects and its subscription to `STATESERVERS_CHANNEL`.
- *`receive_update`* of an uberdog: it calls a method of a subclass that is not there.
- *Channel collisions* outside `Channels`: the other modules take channels as distinct, which
  `Channels` shows for zones below 2^16 and ids whose bit 16 is clear; nothing in the
  repository sees to either. The functions of `util.py` have no caller.
- *Client agent.* Its class puts together parts that are modelled, and adds counters.
- *Configuration, launcher, logging, constants*: nothing happens there after start-up.
