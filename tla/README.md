# A TLA+ verification of frclib-nt4

`frclib-nt4` is a NetworkTables 4 server and client in Rust.  Peers connect to a server over
WebSockets, publish and subscribe to named topics, and exchange timestamped values; the server
keeps every table of who publishes and who is interested in what.  This directory holds TLA+
models of that program, TLC configurations that check them on small instances, and theorems with
machine-checked proofs.  Source paths below are relative to the repository (`src/src/...`); line
numbers refer to the commit the models were written from.

## 1. The system

### Components

| Component | Code | State it keeps | Operations | What makes it correct |
|---|---|---|---|---|
| topic tables | `server/inner.rs` 134-160, 718-815 | `topics`, `topic_map`, `pub_count`, `topic_sub_map`, `topic_value_map`, `metatopic_value_map`, the counters | `add_topic`, `remove_topic` | an id stands for one name and is never reused; the tables that hold the same index agree; a topic that exists counts its publishers |
| publishing | `server/inner.rs` 386-512, 689-716, 820-896 | `pubuid_to_topicidx`, `announced_topics` of each client | `inner_publish_topic`, `inner_unpublish_topic`, `set_properties`, `announce_topic` | a topic lives as long as somebody publishes it; a publisher learns the id |
| client registry | `server/inner.rs` 241-376 | `clients`, `client_map`, `client_metatopic_map`, `$clients` | `connect_client`, `disconnect_client`, close messages | a name of its own for every client; a client that leaves takes everything of its own along and nothing of others |
| subscriptions | `server/inner.rs` 525-686 | `subscriptions`, `subuid_to_subidx`, the lists in `topic_sub_map` | `subscribe`, `unsubscribe` | a list names only live subscriptions; whoever covers a topic hears of it, first its id, then values |
| values | `server/inner.rs` 994-1056, `server/util.rs`, `server/runner.rs` 201-274 | `topic_value_map`, `sub_values`, `sub_send_timestamps` | `set_value`, `get_value`, the `send_out` task | newest value wins; every queued value is taken; nothing is sent for an id the client was not told; a subscription ends up with the newest |
| message parser | `server/runner.rs` 63-198 | none of its own; the channel all connections feed | one handler per message, in one task | a message is handled once and whole; a bad one harms nobody else |
| connections | `server/runner.rs` 284-597 | one task per connection, its two channels, kill switch | `request`, `handle_connection`, time answers | an ended connection leads to `disconnect_client` |
| server handle | `server/handles.rs` | a weak pointer to the server | `publish_topic`, `set_topic_value`, `set_topic_props`, ... | the same as for peers |
| metatopic values | `spec/metatopic.rs` | entries of `$clients`, `$clientpub`, `$serverpub`, ... | `merge`, `reduce` | a list has exactly what its owner publishes |
| locks | everywhere in `server/` | some fifteen `tokio::sync::Mutex`es | the order in which operations take them | no cycle |
| client core | `client/inner.rs` | `announced_topics`, `subscriptions`, `client_published_topics`, `server_published_topics`, time offset | socket task, `on_open`, `handle_message`, `handle_value`, `handle_disconnect` | after a reconnection the server knows everything again; a subscriber gets what it asked for |
| client handle | `client/async_handle.rs`, `blocking_handle.rs` | shares the core's | `publish_topic`, `unpublish`, `subscribe_w_options`, `unsubscribe` | what is released does not come back |
| time sync | `client/inner.rs` 101-189, `server/runner.rs` 461-500 | offset, last timestamps | `update_time`, `handle_new_timestamp` | the offset stays close to the truth, no overflow |
| bimap, wire types, configuration, errors | `bimap.rs`, `spec/`, `*/config.rs`, `*/error.rs` | none | conversions | - |

### How they interact

Every connection task forwards what it receives, tagged with the client's index, into **one**
channel that the parser task drains; the parser calls the operations of `InnerServer`, which lock
one table after another, never all of them together.  The handle calls the same operations from
the embedding program's tasks.  Towards a client, operations put messages into the client's
bounded channel, whose receiver lives in the connection task: when that task returns, the receiver
is dropped and every later send fails.  `set_value` does not send; it queues the value in the
`sub_values` of each subscription in the topic's list, and the `send_out` task takes those values
from time to time.  When a connection ends, its task sends a close message through the parser's
channel, and the parser is to call `disconnect_client`.

### What is hard

* One call is a sequence of lock-protected steps, several of which can fail, and an error returns
  from the middle without undoing what was done (`remove_topic` 772-791, `announce_topic` 892,
  `disconnect_client` 274 and 282).
* Tables hold each other's indices and the code unwraps the result of looking them up (`set_value`
  1012-1015, `send_out` 246): a missing entry kills the task that met it.
* `pub_count` is a `u16` which is decremented in two places and incremented in none.
* The locks are taken in different orders: `announce_topic` holds `topics` and waits for `clients`, the
  parser holds `clients` over a binary frame and waits for `topics`.
* `add_topic`, `set_value` and `announce_topic` look something up, unlock, and use it under another lock.
* Channels are bounded, their senders wait with locks held, a connection that is about to end no longer
  drains the channel others wait for, and nothing times out a write to a peer that does not read.
* A value is queued under one lock and stored under another; only the second step compares timestamps.
* Whether a client hears of a topic depends on the order of publishing, subscribing and connecting.
* Ids travel to peers and are used long after; names come back, ids must not.
* The client keeps one channel for everything it sends.  While it is disconnected nobody drains it, the
  timestamp task and the program's calls go on filling it, and on the next connection `on_open` sends to
  it from the very task that is to drain it.
* The client's clock starts anew with every connection, while requests and answers of before are under way.
* A call of the client first queues its message and then updates its table, so a reconnection between the
  two re-publishes without it; ids are given out anew by every connection.

`PROJECT.json` lists each hazard at its line, with the properties that would show it going wrong.

## 2. The modules

| Module | What it is |
|---|---|
| `TopicRegistry` | the topic tables as one record value; `add_topic`, `remove_topic` and the count as operators on it |
| `NTServer` | the state of `InnerServer` and one action per operation; the properties |
| `NameDirectory` | the abstract specification of the ids the tables hand out |
| `NTServerDocs` | what a comment of the repository says of the server and the code does not do |
| `RegistryRaces` | the topic tables again, lock by lock, with the parser and the program's tasks at once |
| `ServerLocks` | every operation as the list of mutexes it takes and keeps; deadlocks |
| `ValueFlow` | one topic's values: `set_value`, the queues of subscriptions, `send_out` |
| `Connection` | `handle_connection`, the channels around it, and how the parser, `send_out` and a publishing handle wait for room in them |
| `NTClient` | the client: program's calls, timestamp task, socket task, reconnection, and what a server may do to it |
| `TimeSync` | the client's clock and the requests that set it |
| `NTServerProofs`, `NTServerIdsProofs`, `RegistryRacesProofs`, `ServerLocksProofs`, `ValueFlowProofs`, `ConnectionProofs`, `NTClientProofs`, `TimeSyncProofs` | the inductive invariants and the theorems |
| `MC...` | the values of the constants for TLC |

The server is seen at four grains.  `NTServer` has all of its tables and takes an operation as one
step; `RegistryRaces` has the topic tables and splits operations at their locks; `ServerLocks` has no
tables and only the locks; `Connection` has only the channels.  `ValueFlow` follows one topic's values
through all that `NTServer` abstracts them to.

### State of the server

The record `reg` of `NTServer` has a field for each topic table, under the table's name in the
code.  A Rust map is a total function with `None` for keys that are not there.  `flags` is the set
of publish properties that are true, `publishers` the entries of the metatopics that list
publications, `valued` the topics with an entry in `topic_value_map`.  A topic name is a pair
`<<kind, what>>`: the code builds names with `format!` from a kind and the name of a topic or a client, and
takes them apart only to look for a `$`.

Client names are a set of their own, because `connect_client` looks into them.  A peer asks for one of
`AskedNames`; if it is contained in the names of `k` connected clients (`str::contains`, the constant
`NamesContaining`), it becomes `format!("{}@{}", name, k)`, the constant `Numbered`.  Nothing is assumed of
these: what a peer asks for may be what another is given.

`connected` holds the keys of `clients` and `client_map` (which change together), `names`, `pubs`,
`subs`, `announced` the fields of `ConnectedClient`, `metatopics` is `client_metatopic_map`,
`clients_mte` the value of `$clients`.  `subscriptions` keeps a subscription's client and what it
covers: `Subscription::cares_about` is the constant `Matches`, a set of names for each pattern.
`ended` are the clients whose connection task has returned, `closed` those whose last message, the
close, the parser has met.  `told` is history: which Announce messages have been put into a client's
channel.

### Actions of the server

| Action of `NTServer` | Code |
|---|---|
| `Connect` | `connect_client`, called after the handshake |
| `ConnectionEnds` | `handle_connection` returns, for whatever reason |
| `CloseDropped` | the parser meets the close message of `handle_connection`, a JSON object where it wants an array, logs and drops it |
| `CloseHandled`, `DisconnectStep`, `DisconnectMetas` | a close inside an array (any peer may send it) and `disconnect_client`: taking the client out, one turn of its loop for each pubuid, the metatopics |
| `Publish`, `HandlePublish` | `inner_publish_topic` from a message; `publish_topic` of the handle, which also calls `set_value` |
| `Unpublish` | `inner_unpublish_topic` |
| `SetValue` | a value in a binary message: `set_value` |
| `SetProperties` | `set_properties`, from a message or the handle |
| `Subscribe`, `Unsubscribe` | `subscribe`, `unsubscribe` |
| `SendOut` | `send_out` takes the values of one subscription |

An operation with several results (a hash set visited in some order until a send fails) is a set of
outcome records, from which the action chooses one.  An operation is otherwise a single step;
`disconnect_client` is split because it holds the `clients` lock for its whole loop, during which the
actions that need this lock are disabled (`ClientsFree`) and the others go on.

`Publish` and its like call `add_topic` and `announce_topic` as the code does: the two metatopics of
a new topic are announced one after the other before the publisher is answered, and an error of an
announcement ends everything that was to come after it.  `OverflowChecks` selects the build: with
checks an underflow of `pub_count` panics the task, without them the count becomes 65535.

### Races

In `RegistryRaces` a task is a record: where it stands (`at`), for whom it acts, the name and the index
it works on, and, while `add_topic` is at the metatopics of an ordinary name, that topic's index (`main`).
A step is what the task does from getting a lock to getting the next one after letting it go:

| Actions | Code |
|---|---|
| `Look`, `Insert`, `Count`, `Map`, `List` | `add_topic`: the lookup, `topics` with `counters`, `pub_count`, `topic_map`, `topic_sub_map` |
| `Announce`, `Respond`, `Audience`, `Tell` | `announce_topic`: the topic, the answer to the publisher, who covers the name, the sends |
| `Publish`, `Register` | `inner_publish_topic` before and after these |
| `SetValue`, `Check`, `Queue`, `Store` | `set_value` from a binary frame, or as the end of the handle's `publish_topic` |
| `Unpublish`, `Release`, `Cleanse` | `inner_unpublish_topic` and `remove_topic` |
| `Subscribe`, `Unsubscribe` | one step each: they keep every guard until they have the last |

`ClientsFree` and `CountFree` stand for the locks held over several steps.  An `unwrap` that fails leaves
the task `panicked`.  `met` records which tasks were at one name at the same time, so that properties can
say what a disagreement needs.

### Locks

A point of `ServerLocks` is one `lock!(...).await`: the lock it waits for, the locks the task keeps once it
goes on (a temporary guard is gone by the next point, one in an `if let` or a `match` lives to its end, a
named one to the end of its scope), how many points it may skip then (a branch), and whether it may return
there.  `Connect`, `Disconnect`, `PublishThen`, `Unpublish`, `SetProperties`, `SetValue`, `Subscribe`,
`Unsubscribe` and `SendPass` are lists of points; `Call` begins one and `Step` goes to its next point.

### Values

`ValueFlow` numbers the values of a topic in the order in which they are added to the queues.

| Action | Code |
|---|---|
| `Add`, `Store` | the two critical sections of `set_value`: `add_value` to each subscription in the list, and the comparison of timestamps under `topic_value_map` |
| `Subscribe` | `subscribe`, which sends the stored value itself |
| `Unsubscribe`, `Disconnect` | `unsubscribe`; `disconnect_client`, which leaves the subscription and its queue in place for ever |
| `TimePasses` | the time since a subscription was sent to, with respect to its period: `early`, within a millisecond `before` or `after` its end, `late` |
| `Pass`, `EmptyPass` | a pass of `send_out`; one without subscriptions, whose sleep for a negative time is a panic |

`given` is what has been put into the client's channel, which ends the story of a value on this module's
side; that the connection drops it there is the subject of `Connection`.

### Connections

`Connection` has a connection's state (`conn`), its peer's, how many answers are in the time channel or
wait for room there, the outgoing loop, the kill switch, and the client's channel `out`; then the channel
to the parser, in three parts, as tokio has it: the messages in it (`inq`), those who wait for room in
their order (`waiting`), and those who were given room and have not been polled since (`granted`).

| Action | Code |
|---|---|
| `Connect`, `Receive`, `ReceiveTime`, `HandOver` | `broadcast_incoming`: each message has a handler, all handlers are polled side by side |
| `IncomingEnds`, `TakeOut`, `OutClosed`, `TakeTime`, `Tick`, `Written`, `Close` | the ends of its parts, the outgoing loop, and the close message |
| `PeerCloses` | the peer's close frame; `PeerBreaks`, `PeerStalls`, `PeerResumes` are external |
| `ParserTakes`, `ParserLocks`, `ParserDisconnects`, `ParserSends` | the parser, as far as it takes messages, waits for `clients`, and sends to clients with that lock held |
| `SenderLocks`, `SenderSends` | the same of `send_out` |
| `HandleLocks`, `HandleSends` | the same of `publish_topic` called through a handle, whose `announce_topic` sends to clients from the program's task |

When the `select!` of `handle_connection` is over, its futures are not dropped before the function returns:
handlers that wait for room, or have been given it, stay where they are without being polled while the
close message waits behind them.

### The client

`NTClient` models what one `InnerClient` shares between the program's handles, the timestamp task and
the socket task, and steps at the granularity of their awaits, because there the tasks interleave.

| Variable | Code |
|---|---|
| `chan` | the channel to the socket task (`ChanCap`, 100 in the code), from message to message |
| `published`, `subs`, `announced` | the keys of `client_published_topics` and `subscriptions`; `announced_topics` as a map from ids to names, without its constant entry -1 |
| `streams`, `unread` | the `SubscriptionStream`s the program still has, and how many messages wait in each (`StreamCap`, 256) |
| `next_pub`, `next_sub` | `topic_counter`, `sub_counter` |
| `calls` | the program's calls in progress: their uid, and whether they are to `send`, to `record`, or have `panicked` |
| `ticker`, `sock`, `work` | where the timestamp task and the socket task are, and the message in the hands of the latter |
| `panic` | the oneshot channel of `check_task_panic` |
| `up`, `wire`, `srv`, `ids` | external: the connection, the server's messages under way, what it has been told, and what its ids mean |
| `released`, `raced`, `missed` | history: pubuids given back, what `on_open` missed because it was being recorded, recorded subscriptions that a value taken off the connection passed by |

Locks are not variables: who holds one follows from where the tasks are (`AnnouncedFree`, `TablesFree`).
`Init` is the state in which `start` returns.

| Action | Code |
|---|---|
| `Call` | the beginning of a method of the handle: `check_task_panic`, which consumes the error it reports, and a new uid |
| `Send` | `send_message(...)`: waits for room, panics if the receiver is gone |
| `Record` | the update of the table after the message was queued |
| `Read`, `DropStream` | the program with its streams |
| `Tick`, `TickSends` | the timestamp task: `update_time` locks `announced_topics`, then waits for room |
| `Transmit`, `Receive`, `NoticeBreak` | the `select!` of the socket task; what it sends on a broken connection is lost |
| `HandleAnnounce`, `HandleUnAnnounce`, `HandleValue`, `Deliver`, `HandleTime`, `Retime` | `handle_message`, `handle_value`, `send_value_to_subscriber`, `handle_new_timestamp` |
| `Reconnect`, `Open`, `OpenTime`, `OpenBatch` | `handle_disconnect` when an attempt succeeds, and `on_open`: forget the ids, prepare one message with everything published and subscribed, queue a time message, queue the prepared one |
| `Die` | the end of the socket task after `should_reconnect` said no |
| `Break`, `Server...` | external: a connection breaks with any suffix of what was under way; a server announces topics to subscribers under ids no other topic has at the time, takes them back, sends values and time |

### The client's clock

`TimeSync` has the true time, when the server started and when the client's clock did (`start_instant`), the
offset between them as the client has computed it, and the requests and answers on their way.  `Ask`,
`AskEnds` are a turn of the timestamp task, which holds `announced_topics` between them; `Open` is `on_open`
as far as it concerns the clock; `Receive` and `Retry` are the branch of `handle_value` for an answer, with
the wait for the same lock between the two attempts; `Offsets` is the arithmetic of `handle_new_timestamp`,
empty when one of its checked subtractions fails.  `Lose` breaks the connection with what is under way, and
the server may have started anew.

## 3. What TLC checks

### The server's tables

Common to the two runs of `NTServer`: one ordinary topic `t`, 2 clients beside the server's own, 1 pubuid
and 1 subuid.  The pattern `exact` covers `t` only and `prefix` every name there can be, metatopics
included.  Neither run turns the deadlock check off.

| Run | Instance | Shows |
|---|---|---|
| `subscriptions` | peers ask for `a` or `a@1`, both patterns, `exact` asked for with `topics_only`, 2 subscriptions ever, plain topics; nobody is disconnected, connections may end; 10 topic indices | `ValueOnlyAfterAnnounce`, `PublisherKnowsTopic`, `SubscribersToldWhileAllStay`: ids travel before they are used, and whoever covers a topic is sent its id; `SubOwnership`: an unsubscribe hits its own subscription, with a subuid that is used again while it is live |
| `leaving` | peers ask for `a`, `prefix`, 1 subscription ever, retained topics, close messages, wrapping counts; 11 topic indices | the tables stay typed and sound (`TypeOK`, `MappedHasVector`, `SubscribersKnown`, `LiveTopicCounted`, `ValueOnlyAfterAnnounce`) although `remove_topic` and `disconnect_client` stop halfway, counts wrap, and disconnected clients' subscriptions stay in the lists; `PublicationsListed`: no unpublish, disconnect or removed topic takes another's entry away; `DirectorySpec`: the tables implement the abstract directory |

The asked names of `subscriptions` are such that names come out the same: who asks for `a@1` keeps it, and
who asks for `a` then is renamed to it, because `a` is contained in one name.  In `leaving` every client
asks for the same name, so that suffixes repeat after a disconnect.

Three topic indices are the server's own metatopics, two go to each client, three to each creation of `t` and
its metatopics.  10 of them let `t` be published while both clients are there (3 + 4 + 3), but not created
twice with a client there; 11 let a client see `t` removed and created again under a new id (3 + 2 + 3 + 3).
`leaving` has 11.  `subscriptions` keeps 10, since it grows from minutes to far more with 11: what a second id
for `t` could break, a list or an index left from the first, is checked in `leaving` and proved for any number.

The bounds are enough for what these properties need: a second publisher of a topic, a topic removed
and created again under a new id with a subscription to it, a client that reuses a subuid, a
subscriber whose connection has ended between two that are alive, a disconnect of a client with a
publication of a topic that is removed, half removed, or already removed by somebody else.  Nothing
in the code compares indices or depends on how many topics there are beyond that.

Property updates clear in `subscriptions`, and set in `leaving`, the flag that is so already: no table depends on
the flags of a topic that is there.  With the flags changed both runs were found to hold as well, with
two to three times the states.

Two properties have a hypothesis because the code needs it.  `SubscribersToldWhileAllStay` speaks of times
without a disconnect, since announcing stops at a client that is gone.  `PublicationsListed` speaks of clients
whose name was given to no other (`NameOfItsOwn`): two of one name share a metatopic, and if they
publish a topic under the same pubuid the first to unpublish takes the other's entry away.

### Races, locks and channels

| Run | Instance | Shows |
|---|---|---|
| `races` | the parser and 1 handle, 2 clients (symmetric), 4 operations, 2 subscriptions | `SubscriberToldOrAboutToBe`: of a subscribe and a publish at the same time one finds the other; `ValueOnlyAfterAnnounce`, `TablesAgree`, `PanicsNeedARace`: what holds whatever the interleaving, and which meetings of two tasks at one name are needed for the rest |
| `locks` | the parser, `send_out`, a connection and a handle, each with any sequence of operations | `DeadlocksNeedParser`: every circle of waiting tasks has the parser in it; `PeersNeverDeadlock`: no operation waits for a lock of its own task, and messages and new connections alone never stop each other; the types with it: one owner for each lock |
| `connection` | 2 connections, 2 messages to the parser and 1 to a client, each peer does one thing that counts (and any close, break or resumption), 1 pass of `send_out`, 1 publish of a handle, 1 message that makes the parser act | `CloseIsLast`: nothing of a connection reaches the parser after its close message, although its handlers are still there; `KilledConnectionsEnd`; `ServerGoesOn`: the parser finishes every message and every ended connection is reported; the exceptions, which the code has, are below |

`TablesAgree` and `PanicsNeedARace` name their exceptions because the code has them: two publishers that
both miss a new name insert it twice; an unpublish that removes a topic whose metatopics are not there yet
tears it; a publisher that finds the name before its creator has made the list lets `set_value` unwrap a
list that is missing; a `subscribe` that returns early leaves its index in lists.  Four operations reach each
of these (the `met` history has all its kinds in the run), and 6 indices hold two creations of a topic
with its metatopics.  An underflow of `pub_count` takes more operations than 4 here; `NTServer` has it.

In `locks` nothing is bounded but the number of tasks: operations follow each other for ever.  One task of
each kind is enough for the shortest circles, and the theorems say the rest.

`Standstill` in `connection` is what the code cannot get out of: all room in the channel to the parser is
taken by handlers that nobody polls any more and by messages the parser does not take, because it waits for
room towards a connection that is waiting for room itself, or because `send_out` or a handle does with the
`clients` lock that the parser needs.  The run reaches it with each of the three in that place.  That all room
is stranded with an empty channel takes a message more for every place; it is reached with a channel of 1, and
with 2 needs more messages than the bounds have.  A channel of 2 is what lets a message and the close message
of the same connection be in it together, in one order or the other.

The other exception is a peer that never reads again: its connection waits in a write, which has no timeout
and at whose end alone the kill switch is looked at (`Blocked`).  Then that connection does not end
(`KilledConnectionsEnd` excepts it), and once its channel is full whoever tells it something waits for ever
with `clients` held, so that the server stops with it (`WaitsFor`, excepted in `ServerGoesOn`).  A peer that
reads again, at any time, is covered by the properties.  The deadlock check is off because a server whose peers
have done everything the bounds allow does nothing more.

**Fairness.** `Connection` assumes that tasks are polled while they can go on: weak fairness of each
`handle_connection` as the one task it is, of the parser, of `send_out` and of a handle's call once it has the
lock.  It assumes nothing of peers: not of their messages, closes and breaks, and not that they read.  An idle parser
is always able to take a message, and a waiting task keeps its place, so weak fairness is all that is
needed.  `KilledConnectionsEnd` and `ServerGoesOn` are written with `[]<>`: that something is not so again and
again is the same as that it always comes to an end when it is.

### Values and the clock

| Run | Instance | Shows |
|---|---|---|
| `values` | 2 writers, 1 subscription, 3 values with timestamps up to 3, each option set by one kind of subscription and not by another | `StoredIsNewest`: whoever stores last, the newest stays; `FollowsTopic`: a subscription gets the values set since it was made once and in order, with `all` every one that is set in time, and without it the last of those or one set after it; `CaughtUp`: what a subscription ends with is the topic's value, with the two exceptions named there; `ValuesGoOut` |
| `time_sync` | 4 ticks, 2 turns of the timestamp task, 1 break with or without a new server | `NeverAhead`: the client never takes the server's time to be later than it is; `LagBounded`: behind by one and a half times the trip of the answer that set it; `SetAgain`: after a reset an answer sets it again while the connection lasts |

Three values make every order of two stores and a third value that meets one of them; subscriptions do not
touch each other's queues, so that one is enough, and with two of them the invariants were found to hold as
well for 2 values and timestamps up to 2.  `CaughtUp` has the exceptions because the code has them: a value
added before, and stored after, a subscription was made reaches it neither way; values that are not set in
the order of their timestamps are queued all the same.  Of such a value, one that comes too late (`InTime` is
false), no property asks that it be sent or that it be not: `handles.rs` 141 says that to set it has no effect,
and `add_value` keeps it.  `ValuesGoOut` excludes `topics_only` subscriptions,
whose values are queued and never taken, and a `send_out` that has panicked: `soonest_offset` keeps a
negative value if the last subscription goes right then.

Four ticks let an answer take two of them in each connection, or be so late that its subtraction
fails; two turns of the task give one request for each connection beside that of `on_open`.  `Ahead` only
shifts the server's clock; the theorems have it arbitrary.

**Fairness.** `ValueFlow`: `send_out` makes its passes and time passes.  `TimeSync`: tasks are polled, and an
open connection delivers; it need not stay open, and the timestamp task need not ask.

### The client

| Run | Instance | Shows |
|---|---|---|
| `client` | 1 task of the program, 3 calls, 1 pubuid, 1 subuid, 2 topics announced under 1 id, streams of 1 message, 2 connections | `TypeOK`: no stream or channel exceeds its capacity; `RightTopic`: a value is delivered under the name the server meant, although an id changes hands within a connection and between two; `NoGaps`: a value that the client takes off a connection reaches every recorded subscription it is for, or ends it, also after a reconnection; `Resynced`: once the channel is empty the server knows everything published and subscribed, except what was between `Send` and `Record` when `on_open` looked |
| `client_calls` | 2 tasks, 3 calls, 1 turn of the timestamp task, a channel of 2 messages, 2 connections, the client may give up, fairness | `OpenEnds`: `on_open` comes to its end; `CallsEnd`: a call returns or, once the socket task is dead, panics; both except at a `Standstill`, and `CallsEnd` while an outage lasts with the channel full |

Two connections are what is needed for state of the first to meet the second; one id for two topics makes
every clash of ids happen that can; a stream of one message is full after one value.  `NoGaps` does not
speak of two kinds of values, which are lost while the subscription goes on: those under way when a connection
breaks, and those that come while a subscribe is between queueing its message and recording the subscription
(`async_handle.rs` 197).

The channel of `client_calls` is filled by the calls and the timestamp task during an outage, as the 100 places
of the code are by some eight minutes of one message every 5 seconds, or sooner by calls.  What follows is
`Standstill`: the channel is full, and the socket task, which alone empties it, waits for room itself
(in `on_open` for the time message or the batch, or in the request for another time), or for
`announced_topics` while the timestamp task holds it and waits for room.  The run reaches all five forms,
and shows that besides them only an outage that lasts makes a call wait for ever, and nothing makes `on_open`.
`Resynced` has its exception (`raced`) because the code
has it: a `publish_topic` whose message goes to the old connection and whose entry comes after `on_open` is
unknown to the new server.  The deadlock check is off in the runs of the client: a program with no calls
left on a client that has given up does nothing more.

**Fairness.** Tasks are polled while they can go on, and `tokio`'s mutexes and bounded channels serve
waiters first come, first served: strong fairness of `Send`, `Record` and of the socket task as a whole
says that a step possible again and again is taken.  `select!` picks at random among what is ready, so
`Transmit`, which makes room, has strong fairness of its own.  The timestamp task, once it holds its lock, gets weak
fairness only.  Nothing is assumed of the program's next call, the server, the connection or the next
attempt to connect.

### Where comments and code disagree

Three runs each check one statement of a comment and find a behaviour that refutes it:

| Run | The comment | What happens |
|---|---|---|
| `doc_pub_count` | a count of the publishers of each topic; at 0 the topic is removed (`inner.rs` 136) | the second publisher is not counted: the first to stop removes the topic under the other |
| `doc_thread_safe` | the inner server can be shared between threads, each mutable field being in a mutex (`inner.rs` 122) | two tasks take two locks in opposite orders and wait for each other for ever |
| `doc_values` | values persist "to be sent to the client on sub period" (`util.rs` 159) | `broadcast_outgoing` drops every binary message that is not a flush marker, and nothing sends one (`runner.rs` 540) |

Further disagreements were met while modelling, and are visible in the definitions named.  On the server: a
subscription is not in the list of a topic that came after it (`AddTopic`, against `inner.rs` 152); the close
message does not parse, and the client stays connected for ever (`CloseDropped`, against `runner.rs` 589);
removing a client's metatopics fails halfway, so both names and the `$clients` entry stay
(`DisconnectMetas`, against `inner.rs` 250); a retained topic is removed by two publishers that stop, because
the extra count is taken by one of them (`InitialCount`, against `topic.rs` 56 and 59); a client that was told
of a topic before gets no Announce in answer to its publish (`Respond`, against `messages.rs` 68); names are
given twice, since the suffix is how many clients of the moment have names that contain the asked one: to who
asks for `a@1` and then to who asks for `a`, and again after a disconnect (`ClientName`, against `inner.rs` 324);
a new topic never overwrites a `None`, for an index is not handed out again (`InsertTopic` and `DirectorySpec`,
against `inner.rs` 132; the same of subscriptions, `next_sub`, against `inner.rs` 150); a value with an earlier
timestamp is not stored, but is queued for subscribers all the same (`Add`, against `handles.rs` 141).

On the client: `on_open` "must not fail" and may wait for ever (`OpenTime`, against `client/inner.rs` 191);
the error of an ended socket task is taken by whoever asks first, the timestamp task included, and every
later call panics (`Call`, against `client/inner.rs` 47 and 63).

## 4. What is proved

All theorems hold for all values of the constants that satisfy the named assumptions of the module they are
about (the bounds are numbers, the sets are of the right kind, and `None` is none of the values it stands
beside).

### The server's tables (`NTServerProofs`, `NTServerIdsProofs`)

| Theorem | Says |
|---|---|
| `ServerInvariant` | `Spec => []IInv`, the inductive invariant |
| `TablesTyped` | `Spec => []TypeOK` |
| `LiveTopicsCounted` | `Spec => []LiveTopicCounted` |
| `MappedTopicsHaveLists` | `Spec => []MappedHasVector` |
| `NotifiedSubscribersKnown` | `Spec => []SubscribersKnown` |
| `TopicIdsNeverReused` | `Spec => DirectorySpec`: the server implements `NameDirectory` |
| `IdsInvariant` | `Spec => []IdsInv`, the second inductive invariant |
| `AnnouncedBeforeValues` | `Spec => []ValueOnlyAfterAnnounce` |
| `SubscriptionsOwned` | `Spec => []SubOwnership` |
| `PublishersTold` | `Spec => []PublisherKnowsTopic` |
| `PublicationsAreListed` | `Spec => []PublicationsListed` |
| `SubscribersAreTold` | `Spec => []SubscribersToldWhileAllStay`, if `PublishNames` has ordinary names only |

`TypeOK` is not inductive.  A subscribe adds to a list that might be absent; an unpublish on a count
without a topic might remove a topic that has another index; a disconnect uses the metatopics and the
pubuids it found when it began.  The invariant `IInv` therefore adds

* `RegistryInv(reg)`: what the tables know of each other - a name maps to an index below the counter,
  no two names to one index, an index that is mapped or has a topic has a list, a topic that is there
  counts 1 or 2, and nothing is known of indices not handed out yet;
* `ListsIn(reg, Known)`: lists name subscriptions that exist and have a place for values only;
* `ClientsHaveMetas`: every connected client has its two metatopic indices;
* `LeavingSound`: the client being removed has left, and what is left to visit are pubuids it has.

`NTServerProofs` first shows, without reference to clients, that each operator on the tables
keeps `RegistryInv` and makes a step that `NameDirectory` allows.  It then has one lemma for each
action, that it keeps `IInv` and makes such a step or none; `NextInv` puts these together, and
the theorems follow by temporal reasoning.  The outcome sets of `AddTopic` and `PublishOutcomes` are
treated by lemmas that say what every outcome has in common.

`NTServerIdsProofs` is about who has been sent which id.  Its `IdsInv` rests on `IInv` and adds three parts
to the three properties it is for: `SubsFresh` (no subscription at or above `next_sub`, so that a new one is
nobody's), `AnnouncedTold` (what `announced_topics` records was sent, so that a publisher that is not told
again need not be), and `ListedTold` (a subscription in the list of a topic that is there belongs to a
client that has been sent the id or no longer listens, so that `set_value` may queue for the whole list).
The last is kept because no operation but `subscribe` and `unsubscribe` changes the list of a topic that is
there - `ListsKept`, shown for every operator on the tables - and `subscribe` announces every topic in whose
list it puts itself.

`PublicationsListed` is about all clients at once: an unpublish takes an entry out of the list that its
client's `$clientpub` name leads to, and nothing in `unpublish` says that the list is not somebody else's.
`ListingsInv` says when it is not: clients are numbered without gaps, each connected one has the metatopic of
its name (`MetasNamed`), and from a name that was given to nobody else follows a list that is nobody else's
(`ListingsApart`).  That names are distinct is not proved, since it is false: it is the hypothesis
`NameOfItsOwn` of the property, about each client by itself, and holds on to the names of clients that have
left.  That the list is still there is `ListingsKept`: no operator on the tables removes, moves or clears the
metatopic of a client, also when one is half removed in a disconnect.

`SubscribersToldWhileAllStay` needs to know when announcing goes to its end.  `ToldInv` adds, while nobody is
taken out, that names and topics lead to one another (`Straight`) and that a name is there together with its
metatopics or not at all (`Complete`): then `add_topic` finds either all of them or none, and announces those
it adds.  `Complete` is where the hypothesis comes from.  A peer may publish the name of a metatopic, `$pub$x`
say, and give it up; then the name stays in the tables without a topic, a later `add_topic` of `x` stops when it
comes to announce `$pub$x`, and `x` itself is announced to nobody.  TLC finds this behaviour once
`$pub$` names are among those clients publish, so the runs and the theorem leave them out.

### The races (`RegistryRacesProofs`)

| Theorem | Says |
|---|---|
| `Invariant` | `Spec => []IInv` |
| `TypeCorrect` | `Spec => []TypeOK` |
| `ToldOrAboutToBe` | `Spec => []SubscriberToldOrAboutToBe` |
| `ValuesFollowAnnounces` | `Spec => []ValueOnlyAfterAnnounce` |
| `TablesAgreeAtRest` | `Spec => []TablesAgree` |
| `PanicsAreRaces` | `Spec => []PanicsNeedARace` |

They hold for any number of tasks, clients, topics and subscriptions.  What has to be shown is that whatever a
task keeps while it holds no lock - an index, a name, the topic whose metatopics it is adding, the clients it
will tell - still fits tables that the others have changed meanwhile.  `IInv` has one part for each kind of
thing a task can rely on:

* `TasksInv`: what a task keeps at each of its stages, and what it has done so far;
* `Fresh` and `FreshSubs`: nothing is known of an index that has not been handed out, so what a task inserts is
  its own;
* `TablesInv`: how far the tables agree about an index, given who is at work on it - somebody is between
  `Insert` and `List`, the parser is taking it away, or nobody is - and that an index has one creator (`Owners`);
* `Listed`: a subscription in a list has a queue, and its client has been told;
* `Apart`: while no two tasks have met at a name, nobody else holds what is being created or taken away;
* the two properties about who is told.

A step of one task is shown to leave what another relies on by lemmas that say what the steps of a kind
have in common (`AddFrame`, `PeopleFrame`, `ReleaseQuiet`, `Removal`); `Moves` does the same for the task
that makes the step.  Where the code really loses something, by inserting a name twice or removing a topic that
is being created, the history variable `met` says so, and the invariant promises nothing about that name.

### Locks (`ServerLocksProofs`)

| Theorem | Says |
|---|---|
| `LocksInvariant` | `Spec => []IInv` |
| `LocksTyped` | `Spec => []TypeOK`: no lock has two owners |
| `EveryDeadlockHasParser` | `Spec => []DeadlocksNeedParser`, for any number of connections and handles |
| `PeersAloneGoOn` | `Spec => []PeersNeverDeadlock`, likewise |

`IInv` says of every task that what it has before it is `Good`: a list of points each of which is `Allowed`
with the locks that are kept when the task comes to it.  `Allowed` is where the argument is: the point's lock
is not one the task holds; every task but the parser takes locks in the order of `Rank`; and what is held
with a connection's `counters` is waited for by nobody else.  Lists of points are put together by
concatenation, for which `GoodConcat` and its like give the rules, and each operation is shown `Good` from
its parts.  A circle of waiting tasks without the parser would have a highest rank, whose owner waits for a
higher one; and the set of tasks need not be finite for that, because there are six ranks.

### Values (`ValueFlowProofs`)

| Theorem | Says |
|---|---|
| `ValuesInvariant` | `Spec => []IInv` |
| `ValuesTyped` | `Spec => []TypeOK`, with it that a subscription without `all` keeps one value at most |
| `StoredStaysNewest` | `Spec => []StoredIsNewest`, for any number of writers |
| `SubscriptionsCatchUp` | `Spec => []CaughtUp`, for any number of subscriptions |
| `SubscriptionsFollow` | `Spec => []FollowsTopic`, likewise |

`IInv` adds `OneWriter` (a value added and not stored is in one writer's hands), `NothingBefore`, and
`EndsWithLast`: what a subscription has had and is to have ends with the value added last, if one was added
since it was made; otherwise, unless it missed one, with what it began with, and nobody is between the two
sections of `set_value`.  `CaughtUp` follows: with timestamps in order the value added last is the newest,
and the newest is the one stored.

`FollowsTopic` rests on `FollowInv`, a second invariant beside `IInv`: `Chain` says of what a subscription has had,
with what it is to have, that it grows, that only its first value may be from before the subscription, and
then only among those it has had, and that with `all` it leaves nothing out.  That is more than
`FollowsTopic` asks, which leaves open what becomes of values that come too late.  A value that is added comes after
all of them, without `all` in place of one that was still to be taken, and a pass of `send_out` moves values
from one half to the other without changing the whole (`SameChain`).

### Connections (`ConnectionProofs`)

| Theorem | Says |
|---|---|
| `ConnectionInvariant` | `Spec => []IInv` |
| `ChannelsKeepCapacity` | `Spec => []TypeOK`, with it that no channel exceeds its capacity and nobody waits beside free room |
| `CloseComesLast` | `Spec => []CloseIsLast` |

They hold for any number of connections and any capacities.  `CloseIsLast` is not inductive: what comes in
from a connection must not find a close message of its own in the channel, and what is there when it ends must
find itself in front of it.  `ClosesAreDone` says that a close
message there is of a connection that is done, which neither receives nor hands over.  `AnswersAsked` bounds the
answers by the questions, and `Addressed` says that whoever is told something is a client.  `Share`, which gives
room to those who wait, is shown to keep the capacity and to leave nobody waiting in vain (`ShareFacts`).
`Without`, which takes what is of one connection out of a sequence, is a recursive function: that it exists, and
that it keeps nothing else than it says, is shown by induction over the positions, which `Steps` gets
from the least element of a set of numbers (`Least`).

### The client (`NTClientProofs`)

| Theorem | Says |
|---|---|
| `ClientTyped` | `Spec => []TypeOK`, with it that no stream exceeds its capacity |
| `StreamsHaveNoGaps` | `Spec => []NoGaps` |
| `ValuesUnderRightTopic` | `Spec => []RightTopic` |
| `ServerResynced` | `Spec => []Resynced` |

`NoGaps` is not inductive: a subscribe on its way to `Record` could bring back a subuid that a value has
passed by, and a value could pass by all if its id were unknown or meant another topic; that it does not is
`LinkInv`, below.  `IInv` adds `SubUIDsFresh` - a subuid in the table, lost, or on its way to the table is below the
counter, and one on its way is neither in the table nor lost nor on the way twice - and `WorkOK`, what
the message in the socket task's hands is at each of its places.

`RightTopic` speaks of the moment when the client has read everything the server has sent.  `LinkInv` says it
of every moment: the messages under way, read in their order, explain how `announced` becomes what the server's
`ids` mean; `on_open` forgets the ids, and a new connection begins with nothing under way, so a reused id is
never read under its old meaning.

`Resynced` becomes `SyncInv`: what is in a table is known to the server, or in the channel, or in the batch
that `on_open` prepares, or was being recorded while it collected (`raced`); and what is under way undoes only
what the program has released or unsubscribed.  The tables are updated after the message is queued, which
is why calls in progress are part of it.

### The clock (`TimeSyncProofs`)

| Theorem | Says |
|---|---|
| `ClockInvariant` | `Spec => []IInv` |
| `ClockTyped` | `Spec => []TypeOK` |
| `ClientNeverAhead` | `Spec => []NeverAhead` |
| `ClientLagBounded` | `Spec => []LagBounded` |

`IInv` adds `UnderWay`: a request says no earlier time than it was sent at, because `start_instant` only
moves on, and an answer has the server's time of a moment between its request and now; and `OffsetBounded`:
while connected the offset is at most what the server's clock showed when the client's started, and at
least that less one and a half trips once an answer has set it.  That the code subtracts half of the trip
where the protocol adds it is what keeps the first bound when an answer meets a clock that has started
anew, and what makes the second as wide as it is.

### Checked by TLC only

Liveness, which is out of the prover's reach: `OpenEnds`, `CallsEnd`, `KilledConnectionsEnd`, `ServerGoesOn`,
`ValuesGoOut`, `SetAgain`.  Every invariant that a passing run checks is proved, and so is the refinement of
`NameDirectory`.

## 5. What is abstracted or left out

### Of the server

* Values are reduced in `NTServer` and `RegistryRaces` to whether there is one.  `ValueFlow` has one topic,
  and of a value its timestamp.
* Batches: a text message with several commands is several steps, which other tasks may separate in the
  code as well.  Malformed frames change nothing in these tables; one that makes the parser panic leaves
  its tasks as in `RegistryRaces`, and `Connection` goes on with a parser that lives.
* `get_topic_idx` always returns `Err` (1036), so the handle's calls that start with it change nothing
  and are no actions; dead functions (`announce_all_topics_for`, `un_announce_topics`) are none either.
* `announce_all_topics_for` has no caller, so a client that connects is told nothing by itself.
* Channels have room everywhere but in `Connection`; locks are free everywhere but in `ServerLocks`.
* `RegistryRaces` has the steps in which operations on topics differ from `NTServer`'s; it has no clients
  that come and go and no `$clients`.  `connect_client` looks its identity up, awaits the application's
  callback and inserts much later (`inner.rs` 311); but an identity has the address of the connection, which no
  other has at the time, and the name is made unique under the lock it is inserted under.
* Queues of subscriptions whose client is gone are kept for ever and grow with `all` (`runner.rs` 242);
  `ValueFlow` has them (`left`), and says nothing of memory.
* Timestamps are small numbers; their conversion from 64 to 32 bits (`client/inner.rs` 162) is not modelled.
* The HTTP upgrade (`request`), the `start` functions, configuration and errors.
* `BiMap` is used as a plain map from left to right: entries its right-to-left map keeps after an overwrite
  are never looked at.

### Of the client

* `start` before it returns, the end of a client by dropping its handles, property
  messages (sent like any other, recorded nowhere), encodings.  In `NTClient` the arithmetic of the time
  offset is a choice between success and a reset (`HandleTime`); `TimeSync` has it.  An outcome of
  `should_reconnect` is a choice too.  The blocking handle wraps the asynchronous one.
* `TimeSync` takes `on_open`'s reset and its request as one step, `reset_time`'s two writes as one and
  `server_time`'s two reads as one, and its channel has no bound.
* `unpublish` leaves the topic in `client_published_topics` (`async_handle.rs` 161), so that `on_open`
  publishes it again: `NTClient` does so (`released`), and no property forbids it.
* The server in `NTClient` is any server that announces before it sends values, not `NTServer`.

## 6. The plan

Done: `TopicRegistry`, `NTServer`, `NameDirectory`, `NTServerDocs`, which came first
because everything else in the server reads or writes these tables; `NTClient`, because that is where the
library's reconnection lives; then what the hazards of the first two pointed at: `ServerLocks`,
`RegistryRaces`, `Connection`, `ValueFlow`, `TimeSync`; and the proofs of section 4.

What is left, in this order:

1. Proofs of a wider reach: what `RegistryRaces` keeps of `NameDirectory` up to the first name that is inserted
   twice; action properties of the client's tables over a reconnection.
2. `EndToEnd`: a client and a server composed by lossy, ordered connections.  Abstract specification: what
   the handles asked for and have not released is what the server is told after every connection.
3. `RegistryRaces` with `connect_client` and `disconnect_client`.
