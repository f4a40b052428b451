------------------------------- MODULE NTServer -------------------------------
(***************************************************************************)
(* The shared state of a NetworkTables 4 server, InnerServer in            *)
(* src/src/server/inner.rs, and every operation that changes it: the       *)
(* messages the parser task handles (src/src/server/runner.rs), the calls  *)
(* of the server's own handle, new and ended connections, and the task     *)
(* that drains subscriptions.                                              *)
(*                                                                         *)
(* An operation is one action: it runs alone, as if no other task took a   *)
(* lock between two of its steps.  Only disconnect_client is split, because *)
(* it visits a hash map in no fixed order and may stop at any entry.       *)
(***************************************************************************)
EXTENDS TopicRegistry

CONSTANTS
  AskedNames,       \* the names peers ask for when they connect
  NamesContaining,  \* str::contains: asked name -> the client names it is a part of
  Numbered,         \* format!("{}@{}"): <<asked name, k>> -> client name
  SubUIDs,          \* subscription uids clients choose
  Patterns,         \* what a subscription may ask for
  Matches,          \* Subscription::cares_about: pattern -> the names it covers
  TopicsOnly,       \* the patterns asked for with the topics_only option
  PublishNames,     \* the names peers and the server's handle publish
  PublishFlags,     \* the flags they publish them with
  PropertyUpdates,  \* the <<flags set, flags cleared>> of their property updates
  PeersClose,       \* peers send "close" messages of their own
  OverflowChecks    \* the build panics on u16 underflow instead of wrapping

ASSUME ServerAssumption ==
  /\ AskedNames \subseteq ClientNames
  /\ NamesContaining \in [AskedNames -> SUBSET ClientNames]
  /\ Numbered \in [AskedNames \X (1 .. MaxClients) -> ClientNames]
  /\ Matches \in [Patterns -> SUBSET Names]
  /\ TopicsOnly \subseteq Patterns
  /\ PublishNames \subseteq Names
  /\ PublishFlags \subseteq SUBSET Flags
  /\ PropertyUpdates \subseteq (SUBSET Flags) \X (SUBSET Flags)
  /\ PeersClose \in BOOLEAN
  /\ OverflowChecks \in BOOLEAN
  /\ None \notin [client : ClientIdx, pattern : Patterns]
  /\ \A S \in SUBSET TopicIdx : None # S

VARIABLES
  reg,            \* the topic tables
  next_client,    \* Counter.client_idx
  connected,      \* the keys of `clients`; 0 is the server's own entry
  names,          \* the name in each client's identity, or None
  pubs,           \* ConnectedClient.pubuid_to_topicidx
  subs,           \* ConnectedClient.subuid_to_subidx
  announced,      \* <<c, i>>: i is in ConnectedClient.announced_topics of c
  metatopics,     \* client_metatopic_map
  clients_mte,    \* the ClientMTE entries of the $clients metatopic
  next_sub,       \* Counter.sub_idx
  subscriptions,  \* subscriptions, with the pattern for the Subscription
  sub_values,     \* topics with a value queued in each StoredSubValue, or None
  leaving,        \* the client disconnect_client is removing, or None
  parser,         \* the parser task: "running" or "panicked"
  ended,          \* clients whose connection task returned, dropping its receiver
  closed,         \* clients whose own close message reached the parser
  told            \* history: <<c, i>>, an Announce of i was queued for c

clientVars == <<next_client, names, metatopics, clients_mte>>
subVars    == <<next_sub, subs, subscriptions>>
taskVars   == <<leaving, parser, ended, closed>>
tellVars   == <<announced, told>>
vars == <<reg, clientVars, connected, pubs, subVars, sub_values, taskVars, tellVars>>

SERVER_CLIENT_IDX == 0

NoPubs == [u \in PubUIDs |-> None]
NoSubs == [w \in SubUIDs |-> None]

\* The name of the client that asks for name when the names of k clients contain it.
ClientName(name, k) == IF k = 0 THEN name ELSE Numbered[<<name, k>>]
ClientMeta(kind, name) == <<kind, name>>

\* try_new: the server's client and the three server metatopics.
Init ==
  /\ reg = EnsureTopic(
             EnsureTopic(
               EnsureTopic(EmptyRegistry, <<"$clients", "server">>, {}),
               <<"$serversub", "server">>, {}),
             <<"$serverpub", "server">>, {})
  /\ next_client = 1
  /\ connected = {SERVER_CLIENT_IDX}
  /\ names = [c \in ClientIdx |-> None]
  /\ pubs = [c \in ClientIdx |-> NoPubs]
  /\ subs = [c \in ClientIdx |-> NoSubs]
  /\ announced = {}
  /\ metatopics = [c \in ClientIdx |-> None]
  /\ clients_mte = {}
  /\ next_sub = 0
  /\ subscriptions = [s \in SubIdx |-> None]
  /\ sub_values = [s \in SubIdx |-> None]
  /\ leaving = None
  /\ parser = "running"
  /\ ended = {}
  /\ closed = {}
  /\ told = {}

--------------------------------------------------------------------------------
\* Who runs when

\* disconnect_client holds the clients lock until it returns.
ClientsFree == leaving = None
ParserIdle  == parser = "running" /\ leaving = None

\* Clients with messages for the parser; a connection's own close is its last.
\* They need not be in `clients` any more.
Senders == (1 .. (next_client - 1)) \ closed

\* Bound: room for the topic indices an operation may need.
Room(k) == reg.next + k <= MaxTopics
RoomFor(n) == reg.topic_map[n] # None \/ Room(IF IsMeta(n) THEN 1 ELSE 3)

--------------------------------------------------------------------------------
\* Announcements

\* The clients announce_topic notifies of a name: a subscription of a client that
\* has disconnected is skipped.
Audience(n) ==
  {c \in connected : \E s \in SubIdx :
      /\ subscriptions[s] # None
      /\ subscriptions[s].client = c
      /\ n \in Matches[subscriptions[s].pattern]}

\* announce_topic without a response, on tables r: the announcements it records
\* and whether it returns Ok.  It notifies the audience in the order of a hash set
\* and stops at the first client whose receiver is gone.
Announce(r, n) ==
  LET i == r.topic_map[n]
      all == Audience(n)
  IN  IF r.topics[i] = None THEN {[sent |-> {}, ok |-> FALSE]}
      ELSE IF all \cap ended = {} THEN {[sent |-> all \X {i}, ok |-> TRUE]}
      ELSE {[sent |-> s \X {i}, ok |-> FALSE] :
              s \in {s \in SUBSET all : Cardinality(s \cap ended) = 1}}

\* Mutant of AddTopic: its metatopics are added without announcing them.
AddTopicQuietly(n, fl) ==
  LET added   == EnsureTopic(reg, n, fl)
      withPub == EnsureTopic(added, MetaName("$pub", n), {})
      withSub == EnsureTopic(withPub, MetaName("$sub", n), {})
  IN  {[reg  |-> IF reg.topic_map[n] # None \/ IsMeta(n) THEN added ELSE withSub,
        sent |-> {}, ok |-> TRUE]}

\* add_topic with its two metatopics, each announced as soon as it is added.
AddTopic(n, fl) ==
  LET added   == EnsureTopic(reg, n, fl)
      withPub == EnsureTopic(added, MetaName("$pub", n), {})
      withSub == EnsureTopic(withPub, MetaName("$sub", n), {})
  IN  IF reg.topic_map[n] # None \/ IsMeta(n)
      THEN {[reg |-> added, sent |-> {}, ok |-> TRUE]}
      ELSE UNION {
             IF p.ok
             THEN {[reg |-> withSub, sent |-> p.sent \cup q.sent, ok |-> q.ok] :
                     q \in Announce(withSub, MetaName("$sub", n))}
             ELSE {[reg |-> withPub, sent |-> p.sent, ok |-> FALSE]} :
             p \in Announce(withPub, MetaName("$pub", n))}

\* Mutant of Respond: the publisher is left to the announcement to subscribers.
RespondNever(r, c, i, before) ==
  [sent |-> {}, ok |-> r.topics[i] # None /\ c \in connected]

\* The response part of announce_topic: client c hears of topic i unless it is in
\* its announced_topics; the whole call fails if c or the topic is unknown, or if
\* c's receiver is gone.
Respond(r, c, i, before) ==
  LET news == {<<c, i>>} \ (announced \cup before)
  IN  [sent |-> IF c \in ended THEN {} ELSE news,
       ok   |-> /\ r.topics[i] # None
                /\ c \in connected
                /\ (c \in ended => news = {})]

\* inner_publish_topic up to the registration of the pubuid: add_topic, then
\* announce_topic with a response.
PublishOutcomes(c, n, fl) ==
  UNION {
    LET answer == Respond(add.reg, c, add.reg.topic_map[n], add.sent)
    IN  IF add.ok /\ answer.ok
        THEN {[reg    |-> add.reg,
               sent   |-> add.sent \cup answer.sent \cup all.sent,
               ok     |-> all.ok] : all \in Announce(add.reg, n)}
        ELSE {[reg |-> add.reg, sent |-> add.sent, ok |-> FALSE]} :
    add \in AddTopic(n, fl)}

\* The metatopic that lists what client c publishes.
PublisherMeta(c) ==
  IF c = SERVER_CLIENT_IDX THEN SERVER_PUB_METATOPIC ELSE metatopics[c][1]

\* inner_publish_topic with the outcome out.
PublishWith(c, u, n, out) ==
  LET i == out.reg.topic_map[n]
  IN  /\ reg' = IF out.ok
                THEN [out.reg EXCEPT !.publishers[PublisherMeta(c)] = @ \cup {<<n, u>>}]
                ELSE out.reg
      /\ pubs' = IF out.ok THEN [pubs EXCEPT ![c][u] = i] ELSE pubs
      /\ announced' = announced \cup out.sent
      /\ told' = told \cup {x \in out.sent : x[1] \notin ended}

--------------------------------------------------------------------------------
\* Connections

\* connect_client for a client that asks for the name asked.  (The name of the
\* server's own entry is empty and contains no other; every connection has an
\* address of its own.)
Connect(asked) ==
  LET c    == next_client
      name == ClientName(asked, Cardinality({d \in connected \ {SERVER_CLIENT_IDX} :
                                               names[d] \in NamesContaining[asked]}))
      r1   == EnsureTopic(reg, ClientMeta("$clientpub", name), {})
      r2   == EnsureTopic(r1, ClientMeta("$clientsub", name), {})
  IN  /\ ClientsFree
      /\ c < MaxClients
      /\ Room(2)
      /\ next_client' = c + 1
      /\ connected' = connected \cup {c}
      /\ names' = [names EXCEPT ![c] = name]
      /\ clients_mte' = clients_mte \cup {name}
      /\ reg' = r2
      /\ metatopics' = [metatopics EXCEPT
                          ![c] = <<r2.topic_map[ClientMeta("$clientpub", name)],
                                   r2.topic_map[ClientMeta("$clientsub", name)]>>]
      /\ UNCHANGED <<pubs, subVars, sub_values, taskVars, tellVars>>

\* handle_connection returns: the receiver of the client's channel is dropped and
\* a close message is on its way to the parser.
ConnectionEnds(c) ==
  /\ c \in Senders \ ended
  /\ ended' = ended \cup {c}
  /\ UNCHANGED <<reg, clientVars, connected, pubs, subVars, sub_values,
                 leaving, parser, closed, tellVars>>

\* The parser meets the close of handle_connection.  It is one JSON object and the
\* parser wants an array of messages, so it is logged and dropped.
CloseDropped(c) ==
  /\ ParserIdle
  /\ c \in ended \ closed
  /\ closed' = closed \cup {c}
  /\ UNCHANGED <<reg, clientVars, connected, pubs, subVars, sub_values,
                 leaving, parser, ended, tellVars>>

\* A close message for client c inside an array reaches the parser, and
\* disconnect_client takes c out of client_map and clients.
CloseHandled(c) ==
  /\ PeersClose
  /\ ParserIdle
  /\ Senders # {}
  /\ c \in connected \ {SERVER_CLIENT_IDX}
  /\ connected' = connected \ {c}
  /\ leaving' = [client |-> c, left |-> {u \in PubUIDs : pubs[c][u] # None}]
  /\ UNCHANGED <<reg, clientVars, pubs, subVars, sub_values, parser, ended, closed,
                 tellVars>>

\* *count -= 1 on the u16 count of topic i
Underflows(i) == OverflowChecks /\ reg.pub_count[i] = 0

\* One turn of disconnect_client's loop over pubuid_to_topicidx; an error of
\* remove_topic ends the call, an underflow the task.
DisconnectStep ==
  /\ leaving # None
  /\ \E u \in leaving.left :
       LET i    == pubs[leaving.client][u]
           rest == [leaving EXCEPT !.left = @ \ {u}]
       IN  IF reg.pub_count[i] = None
           THEN leaving' = rest /\ UNCHANGED <<reg, parser>>
           ELSE IF Underflows(i)
           THEN leaving' = None /\ parser' = "panicked" /\ UNCHANGED reg
           ELSE /\ reg' = ReleaseTopic(reg, i)
                /\ leaving' = IF ReleaseFails(reg, i) THEN None ELSE rest
                /\ UNCHANGED parser
  /\ UNCHANGED <<clientVars, connected, pubs, subVars, sub_values, ended, closed, tellVars>>

\* The end of disconnect_client: the client's metatopics, the second of them only
\* if the first could be removed.
DisconnectMetas ==
  /\ leaving # None
  /\ leaving.left = {}
  /\ LET p  == metatopics[leaving.client][1]
         q  == metatopics[leaving.client][2]
         r1 == RemoveTopic(reg, p)
     IN  reg' = IF Removable(reg, p) THEN RemoveTopic(r1, q) ELSE r1
  /\ metatopics' = [metatopics EXCEPT ![leaving.client] = None]
  /\ leaving' = None
  /\ UNCHANGED <<next_client, names, clients_mte, connected, pubs, subVars, sub_values,
                 parser, ended, closed, tellVars>>

--------------------------------------------------------------------------------
\* Topics and values

\* set_value, called for topic i on tables r: a value for an ordinary topic is
\* kept and queued for each of the topic's subscriptions.
Accepts(r, i) == r.topics[i] # None /\ ~IsMeta(r.topics[i])
Valued(r, i)  == IF Accepts(r, i) THEN [r EXCEPT !.valued = @ \cup {i}] ELSE r
Queued(r, i) ==
  IF Accepts(r, i)
  THEN [s \in SubIdx |-> IF s \in r.topic_sub_map[i] THEN sub_values[s] \cup {i}
                         ELSE sub_values[s]]
  ELSE sub_values

\* A publish message of a client, one of whose pubuids may be used twice.
Publish(c, u, n, fl) ==
  /\ ParserIdle
  /\ c \in Senders
  /\ RoomFor(n)
  /\ \E out \in PublishOutcomes(c, n, fl) : PublishWith(c, u, n, out)
  /\ UNCHANGED <<clientVars, connected, subVars, sub_values, taskVars>>

\* publish_topic of the server's handle: a publish under a uid drawn at random,
\* then set_value.
HandlePublish(u, n, fl) ==
  /\ ClientsFree
  /\ RoomFor(n)
  /\ \E out \in PublishOutcomes(SERVER_CLIENT_IDX, n, fl) :
       LET i    == out.reg.topic_map[n]
           then == [out EXCEPT !.reg = IF out.ok THEN Valued(@, i) ELSE @]
       IN  /\ PublishWith(SERVER_CLIENT_IDX, u, n, then)
           /\ sub_values' = IF out.ok THEN Queued(out.reg, i) ELSE sub_values
  /\ UNCHANGED <<clientVars, connected, subVars, taskVars>>

\* Mutant of Unlisted: every unpublish is taken out of the server's own metatopic.
UnlistedAtServer(r, meta, entry) ==
  [r EXCEPT !.publishers[SERVER_PUB_METATOPIC] = @ \ {entry}]

\* A publication is taken out of the metatopic that lists what its client publishes.
Unlisted(r, meta, entry) == [r EXCEPT !.publishers[meta] = @ \ {entry}]

\* inner_unpublish_topic.  Without a pub_count entry, or when remove_topic fails,
\* it returns before the metatopic is updated; the entry taken out of the
\* metatopic has an empty name when the topic is already gone.
Unpublish(c, u) ==
  LET i  == pubs[c][u]
      r1 == ReleaseTopic(reg, i)
      r2 == IF reg.pub_count[i] = 1 THEN [r1 EXCEPT !.pub_count[i] = None] ELSE r1
  IN  /\ ParserIdle
      /\ c \in Senders \cap connected
      /\ i # None
      /\ pubs' = [pubs EXCEPT ![c][u] = None]
      /\ IF reg.pub_count[i] = None
         THEN UNCHANGED <<reg, parser>>
         ELSE IF Underflows(i)
         THEN parser' = "panicked" /\ UNCHANGED reg
         ELSE /\ reg' = IF ReleaseFails(reg, i) THEN r1
                        ELSE Unlisted(r2, PublisherMeta(c), <<reg.topics[i], u>>)
              /\ UNCHANGED parser
      /\ UNCHANGED <<clientVars, connected, subVars, sub_values, leaving, ended, closed,
                     tellVars>>

\* A binary message of client c with a value for the topic it publishes under u.
SetValue(c, u) ==
  /\ ParserIdle
  /\ c \in Senders \cap connected
  /\ pubs[c][u] # None
  /\ reg' = Valued(reg, pubs[c][u])
  /\ sub_values' = Queued(reg, pubs[c][u])
  /\ UNCHANGED <<clientVars, connected, pubs, subVars, taskVars, tellVars>>

\* set_properties, by a setproperties message or the handle's set_topic_props: only
\* the flags the update mentions change.
SetProperties(n, set, clear) ==
  LET i == reg.topic_map[n]
  IN  /\ reg' = IF i = None \/ reg.topics[i] = None THEN reg
                ELSE [reg EXCEPT !.flags[i] = (@ \cup set) \ clear]
      /\ UNCHANGED <<clientVars, connected, pubs, subVars, sub_values, taskVars, tellVars>>

--------------------------------------------------------------------------------
\* Subscriptions

\* Mutant of Announceable: a topic without a value is not announced yet.
AnnounceableWhenValued(pat) ==
  {n \in Matches[pat] :
     reg.topic_map[n] # None /\ (IsMeta(n) \/ reg.topic_map[n] \in reg.valued)}

\* What subscribe announces: every covered name in topic_map, except that an
\* ordinary name with neither a value nor a topic is skipped.
Announceable(pat) ==
  {n \in Matches[pat] :
     /\ reg.topic_map[n] # None
     /\ \/ IsMeta(n)
        \/ reg.topics[reg.topic_map[n]] # None
        \/ reg.topic_map[n] \in reg.valued}

\* subscribe.  (Its early return for a name without a topic_sub_map entry is never
\* taken: MappedHasVector.)  announced_topics is left alone, and the messages are
\* sent last, when everything is recorded.
Subscribe(c, w, pat) ==
  LET s      == next_sub
      wanted == {reg.topic_map[n] : n \in Matches[pat]} \ {None}
  IN  /\ ParserIdle
      /\ c \in Senders \cap connected
      /\ s < MaxSubs
      /\ next_sub' = s + 1
      /\ reg' = [reg EXCEPT !.topic_sub_map =
                   [i \in TopicIdx |-> IF i \in wanted THEN @[i] \cup {s} ELSE @[i]]]
      /\ sub_values' = [sub_values EXCEPT ![s] = {}]
      /\ subscriptions' = [subscriptions EXCEPT ![s] = [client |-> c, pattern |-> pat]]
      /\ subs' = [subs EXCEPT ![c][w] = s]
      /\ told' = IF c \in ended THEN told
                 ELSE told \cup ({c} \X {reg.topic_map[n] : n \in Announceable(pat)})
      /\ UNCHANGED <<clientVars, connected, pubs, taskVars, announced>>

\* Mutant of Unsubscribe: the topics keep the subscription in their lists.
UnsubscribeKeepingLists(c, w) ==
  /\ ParserIdle
  /\ c \in Senders \cap connected
  /\ subs[c][w] # None
  /\ subs' = [subs EXCEPT ![c][w] = None]
  /\ subscriptions' = [subscriptions EXCEPT ![subs[c][w]] = None]
  /\ sub_values' = [sub_values EXCEPT ![subs[c][w]] = None]
  /\ UNCHANGED <<reg, next_sub, clientVars, connected, pubs, taskVars, tellVars>>

\* Mutant of Unsubscribe: the subuid is looked up and not taken out.
UnsubscribeByGet(c, w) ==
  LET s == subs[c][w]
  IN  /\ ParserIdle
      /\ c \in Senders \cap connected
      /\ s # None
      /\ reg' = [reg EXCEPT !.topic_sub_map =
                   [i \in TopicIdx |-> IF @[i] = None THEN None ELSE @[i] \ {s}]]
      /\ subscriptions' = [subscriptions EXCEPT ![s] = None]
      /\ sub_values' = [sub_values EXCEPT ![s] = None]
      /\ UNCHANGED <<next_sub, subs, clientVars, connected, pubs, taskVars, tellVars>>

\* unsubscribe
Unsubscribe(c, w) ==
  LET s == subs[c][w]
  IN  /\ ParserIdle
      /\ c \in Senders \cap connected
      /\ s # None
      /\ subs' = [subs EXCEPT ![c][w] = None]
      /\ reg' = [reg EXCEPT !.topic_sub_map =
                   [i \in TopicIdx |-> IF @[i] = None THEN None ELSE @[i] \ {s}]]
      /\ subscriptions' = [subscriptions EXCEPT ![s] = None]
      /\ sub_values' = [sub_values EXCEPT ![s] = None]
      /\ UNCHANGED <<next_sub, clientVars, connected, pubs, taskVars, tellVars>>

\* The send_out task takes the queued values of one subscription.  It skips any
\* whose period is not up, so a pass over all of them is a run of these steps.
SendOut(s) ==
  /\ ClientsFree
  /\ subscriptions[s] # None
  /\ subscriptions[s].pattern \notin TopicsOnly
  /\ subscriptions[s].client \in connected
  /\ sub_values[s] # {}
  /\ sub_values' = [sub_values EXCEPT ![s] = {}]
  /\ UNCHANGED <<reg, clientVars, connected, pubs, subVars, taskVars, tellVars>>

--------------------------------------------------------------------------------

Next ==
  \/ \E asked \in AskedNames : Connect(asked)
  \/ \E c \in ClientIdx : ConnectionEnds(c) \/ CloseDropped(c) \/ CloseHandled(c)
  \/ DisconnectStep
  \/ DisconnectMetas
  \/ \E c \in ClientIdx, u \in PubUIDs, n \in PublishNames, fl \in PublishFlags :
       Publish(c, u, n, fl)
  \/ \E u \in PubUIDs, n \in PublishNames, fl \in PublishFlags : HandlePublish(u, n, fl)
  \/ \E c \in ClientIdx, u \in PubUIDs : Unpublish(c, u) \/ SetValue(c, u)
  \/ \E n \in PublishNames, p \in PropertyUpdates : SetProperties(n, p[1], p[2])
  \/ \E c \in ClientIdx, w \in SubUIDs, pat \in Patterns : Subscribe(c, w, pat)
  \/ \E c \in ClientIdx, w \in SubUIDs : Unsubscribe(c, w)
  \/ \E s \in SubIdx : SendOut(s)

Spec == Init /\ [][Next]_vars

--------------------------------------------------------------------------------
\* What is checked

\* Every table holds what its Rust type says.
TypeOK ==
  /\ reg \in Registry
  /\ next_client \in 1 .. MaxClients
  /\ connected \subseteq ClientIdx
  /\ names \in [ClientIdx -> ClientNames \cup {None}]
  /\ pubs \in [ClientIdx -> [PubUIDs -> TopicIdx \cup {None}]]
  /\ subs \in [ClientIdx -> [SubUIDs -> SubIdx \cup {None}]]
  /\ announced \subseteq ClientIdx \X TopicIdx
  /\ metatopics \in [ClientIdx -> (TopicIdx \X TopicIdx) \cup {None}]
  /\ clients_mte \subseteq ClientNames
  /\ next_sub \in 0 .. MaxSubs
  /\ subscriptions \in [SubIdx -> [client : ClientIdx, pattern : Patterns] \cup {None}]
  /\ sub_values \in [SubIdx -> (SUBSET TopicIdx) \cup {None}]
  /\ leaving \in [client : ClientIdx, left : SUBSET PubUIDs] \cup {None}
  /\ parser \in {"running", "panicked"}
  /\ ended \subseteq ClientIdx
  /\ closed \subseteq ended
  /\ told \subseteq ClientIdx \X TopicIdx

\* An index that topic_map or topics still knows has a topic_sub_map entry: the
\* early return of subscribe halfway through its pushes (569-574) is never taken,
\* and set_value's first unwrap (1012) never panics.
MappedHasVector ==
  \A i \in TopicIdx :
    \/ reg.topics[i] # None
    \/ \E n \in Names : reg.topic_map[n] = i
    => reg.topic_sub_map[i] # None

\* A topic notifies only subscriptions that exist and have a place for values:
\* set_value's second unwrap (1015) and send_out's expect never panic.
SubscribersKnown ==
  \A i \in TopicIdx, s \in SubIdx :
    reg.topic_sub_map[i] # None /\ s \in reg.topic_sub_map[i] =>
      subscriptions[s] # None /\ sub_values[s] # None

\* A topic that is there counts one or two publishers, never more and never none:
\* remove_topic runs on the way to 0, and a u16 that wraps belongs to no topic.
LiveTopicCounted ==
  \A i \in TopicIdx : reg.topics[i] # None => reg.pub_count[i] \in 1 .. 2

\* A value waits in a subscription only for a topic whose id the server has sent
\* the client: subscribe and announce_topic send the Announce first.
ValueOnlyAfterAnnounce ==
  \A s \in SubIdx :
    subscriptions[s] # None /\ subscriptions[s].client \notin ended =>
      \A i \in sub_values[s] : <<subscriptions[s].client, i>> \in told

\* A client's subuid leads to a subscription of that client, and no two subuids to
\* the same: unsubscribe never takes another's subscription away.
SubOwnership ==
  \A c \in ClientIdx, w \in SubUIDs : subs[c][w] # None =>
    /\ subscriptions[subs[c][w]] # None
    /\ subscriptions[subs[c][w]].client = c
    /\ \A d \in ClientIdx, x \in SubUIDs :
         subs[d][x] = subs[c][w] => <<d, x>> = <<c, w>>

\* A client whose pubuid is registered has been sent the id of its topic, be it in
\* the answer or because it was announced before.
PublisherKnowsTopic ==
  \A c \in ClientIdx \ (ended \cup {SERVER_CLIENT_IDX}), u \in PubUIDs :
    pubs[c][u] # None => <<c, pubs[c][u]>> \in told

\* The name the server gave to client c it gave to no other client, before or after.
\* (The server's own client has a metatopic that is not made of a name.)
NameOfItsOwn(c) ==
  c = SERVER_CLIENT_IDX \/ \A d \in (1 .. (next_client - 1)) \ {c} : names[d] # names[c]

\* What a connected client publishes is in its metatopic under the topic's name, as
\* long as no other client was given its name: nobody else's unpublish, disconnect
\* or removed topic takes the entry away.  (connect_client gives names twice, to who asks
\* for 'a@1' and then to who asks for 'a'.  Then two clients write to one metatopic.)
PublicationsListed ==
  \A c \in connected, u \in PubUIDs :
    NameOfItsOwn(c) /\ pubs[c][u] # None /\ reg.topics[pubs[c][u]] # None =>
      <<reg.topics[pubs[c][u]], u>> \in reg.publishers[PublisherMeta(c)]

\* As long as no client has left, every subscriber has been sent the id of every
\* topic and topic metatopic it covers, whichever of the two came first.  (Clients
\* publish ordinary names: a "$pub$" name a client published itself and gave up would
\* make a later add_topic of its topic stop halfway.)
SubscribersToldWhileAllStay ==
  ended = {} /\ connected = 0 .. (next_client - 1) =>
    \A i \in TopicIdx, s \in SubIdx :
      (/\ reg.topics[i] \in OrdinaryNames \cup TopicMetas
       /\ subscriptions[s] # None
       /\ subscriptions[s].client \in connected
       /\ reg.topics[i] \in Matches[subscriptions[s].pattern])
      => <<subscriptions[s].client, i>> \in told

\* The topic map is a directory whose ids are never given out twice, although
\* removals stop halfway and the same names come back.
Directory == INSTANCE NameDirectory WITH
  Ids     <- TopicIdx,
  bound   <- reg.topic_map,
  retired <- (0 .. (reg.next - 1)) \ {reg.topic_map[n] : n \in Names}
DirectorySpec == Directory!Spec
================================================================================
