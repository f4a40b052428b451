--------------------------- MODULE NTServerIdsProofs ---------------------------
(***************************************************************************)
(* Who has been sent which topic id, who owns which subscription, and what *)
(* the clients' metatopics list, for any number of clients, topics and     *)
(* subscriptions: a client is sent the id of a topic before it publishes   *)
(* it and before a value of it waits for it, no two subscription uids lead *)
(* to one subscription, what a client publishes is listed under its own    *)
(* name, and while nobody leaves every subscriber is told of every topic.  *)
(***************************************************************************)
EXTENDS NTServerProofs

\* Subscription indices are handed out in order.
SubsFresh == \A s \in SubIdx : s >= next_sub => subscriptions[s] = None

\* What announce_topic recorded was sent, if the client still listens.
AnnouncedTold == \A x \in announced : x[1] \notin ended => x \in told

\* A subscription in the list of a topic that is there belongs to a client that has
\* been sent the topic's id, or no longer listens.
ListedTold ==
  \A i \in TopicIdx, s \in SubIdx :
    (/\ reg.topics[i] # None
     /\ s \in reg.topic_sub_map[i]
     /\ subscriptions[s] # None
     /\ subscriptions[s].client \notin ended)
    => <<subscriptions[s].client, i>> \in told

\* The invariant, on top of IInv.  The three properties it is for are not inductive:
\* set_value queues for whoever is in the topic's list, a publisher that is in
\* announced_topics is not told again, and a new subscription must not be there yet.
IdsInv ==
  /\ SubsFresh
  /\ SubOwnership
  /\ AnnouncedTold
  /\ PublisherKnowsTopic
  /\ ListedTold
  /\ ValueOnlyAfterAnnounce

\* A topic that is there in tables s has no subscription in its list, or it was there
\* in tables r with the same list.
ListsKept(r, s) ==
  \A i \in TopicIdx : s.topics[i] # None =>
    \/ s.topic_sub_map[i] = {}
    \/ r.topics[i] # None /\ s.topic_sub_map[i] = r.topic_sub_map[i]

\* The tables without the bound on indices.
Unbounded ==
  [ topics        : [TopicIdx -> Names \cup {None}],
    flags         : [TopicIdx -> SUBSET Flags],
    topic_map     : [Names -> Nat \cup {None}],
    pub_count     : [TopicIdx -> Nat \cup {None}],
    topic_sub_map : [TopicIdx -> (SUBSET SubIdx) \cup {None}],
    valued        : SUBSET TopicIdx,
    publishers    : [TopicIdx -> SUBSET (Names \X PubUIDs)],
    next          : Nat ]

--------------------------------------------------------------------------------

\* Tables within the bound are tables.
LEMMA RegistryUnbounded ==
  ASSUME NEW r \in Registry
  PROVE  r \in Unbounded
<1>1. TopicIdx \subseteq Nat /\ 0 .. MaxU16 \subseteq Nat /\ 0 .. MaxTopics \subseteq Nat
  BY RegistryAssumption DEF TopicIdx, MaxU16
<1> QED
  BY <1>1 DEF Registry, Unbounded

\* add_topic changes no list of a topic that is there.
LEMMA EnsureTopicKeeps ==
  ASSUME NEW r \in Unbounded, NEW n \in Names, NEW fl \in SUBSET Flags
  PROVE  EnsureTopic(r, n, fl) \in Unbounded /\ ListsKept(r, EnsureTopic(r, n, fl))
<1> DEFINE s == EnsureTopic(r, n, fl)
<1>1. CASE r.topic_map[n] # None
  <2>1. s = r
    BY <1>1 DEF EnsureTopic
  <2> QED
    BY <2>1 DEF ListsKept
<1>2. CASE r.topic_map[n] = None
  <2>1. s = InsertTopic(r, n, fl)
    BY <1>2 DEF EnsureTopic
  <2>2. InitialCount(fl) \in Nat /\ r.next \in Nat /\ r.next + 1 \in Nat
    BY DEF InitialCount, Unbounded
  <2>3. InsertTopic(r, n, fl) \in Unbounded
    BY <2>2 DEF InsertTopic, Unbounded
  <2>4. /\ s.topics = [r.topics EXCEPT ![r.next] = n]
        /\ s.topic_sub_map = [r.topic_sub_map EXCEPT ![r.next] = {}]
    BY <2>1 DEF InsertTopic, Unbounded
  <2> HIDE DEF s
  <2>5. ListsKept(r, s)
    BY <2>4 DEF ListsKept, Unbounded
  <2> QED
    BY <2>1, <2>3, <2>5 DEF s
<1> QED
  BY <1>1, <1>2

\* Lists kept twice are kept.
LEMMA KeptTwice ==
  ASSUME NEW r, NEW s, NEW t, ListsKept(r, s), ListsKept(s, t)
  PROVE  ListsKept(r, t)
  BY DEF ListsKept

\* A removal changes no list of a topic that remains.
LEMMA ShrunkKeeps ==
  ASSUME NEW r, NEW s, Shrunk(r, s), HasVector(s)
  PROVE  ListsKept(r, s)
  BY DEF Shrunk, HasVector, ListsKept

\* add_topic with its metatopics keeps the lists, wherever it stops.
LEMMA AddTopicKeeps ==
  ASSUME reg \in Registry, NEW n \in Names, NEW fl \in SUBSET Flags,
         NEW add \in AddTopic(n, fl)
  PROVE  ListsKept(reg, add.reg)
<1> DEFINE p       == MetaName("$pub", n)
           q       == MetaName("$sub", n)
           added   == EnsureTopic(reg, n, fl)
           withPub == EnsureTopic(added, p, {})
           withSub == EnsureTopic(withPub, q, {})
<1>1. added \in Unbounded /\ ListsKept(reg, added)
  BY RegistryUnbounded, EnsureTopicKeeps
<1>2. CASE reg.topic_map[n] # None \/ IsMeta(n)
  <2>1. add = [reg |-> added, sent |-> {}, ok |-> TRUE]
    BY <1>2 DEF AddTopic
  <2> QED
    BY <1>1, <2>1
<1>3. CASE reg.topic_map[n] = None /\ ~IsMeta(n)
  <2>1. p \in Names /\ q \in Names
    BY <1>3, NameFacts
  <2>2. add.reg \in {withPub, withSub}
    BY <1>3 DEF AddTopic
  <2> HIDE DEF p, q, added
  <2>3. withPub \in Unbounded /\ ListsKept(added, withPub)
    BY <1>1, <2>1, EnsureTopicKeeps
  <2> HIDE DEF withPub
  <2>4. ListsKept(withPub, withSub)
    BY <2>1, <2>3, EnsureTopicKeeps
  <2> HIDE DEF withSub
  <2> QED
    BY <1>1, <2>2, <2>3, <2>4, KeptTwice
<1> QED
  BY <1>2, <1>3

\* A publish that succeeds has sent the client the id, or recorded it before; whatever
\* comes of it, the lists are kept.
LEMMA PublishAnswers ==
  ASSUME reg \in Registry, NEW c \in ClientIdx, NEW n \in Names, NEW fl \in SUBSET Flags,
         NEW out \in PublishOutcomes(c, n, fl)
  PROVE  /\ ListsKept(reg, out.reg)
         /\ out.ok /\ c \notin ended =>
              <<c, out.reg.topic_map[n]>> \in announced \cup out.sent
<1> DEFINE Answer(add) == Respond(add.reg, c, add.reg.topic_map[n], add.sent)
<1>1. PICK add \in AddTopic(n, fl) :
        out \in (IF add.ok /\ Answer(add).ok
                 THEN {[reg    |-> add.reg,
                        sent   |-> add.sent \cup Answer(add).sent \cup all.sent,
                        ok     |-> all.ok] : all \in Announce(add.reg, n)}
                 ELSE {[reg |-> add.reg, sent |-> add.sent, ok |-> FALSE]})
  BY DEF PublishOutcomes
<1>2. c \notin ended =>
        <<c, add.reg.topic_map[n]>> \in announced \cup add.sent \cup Answer(add).sent
  <2> DEFINE i == add.reg.topic_map[n]
  <2> HIDE DEF i
  <2>1. c \notin ended =>
          <<c, i>> \in announced \cup add.sent \cup Respond(add.reg, c, i, add.sent).sent
    BY DEF Respond
  <2> QED
    BY <2>1 DEF i
<1> HIDE DEF Answer
<1>3. /\ out.reg = add.reg
      /\ out.ok => add.sent \cup Answer(add).sent \subseteq out.sent
  BY <1>1
<1>4. ListsKept(reg, add.reg)
  BY AddTopicKeeps
<1> QED
  BY <1>2, <1>3, <1>4

--------------------------------------------------------------------------------

\* Steps that publish nothing, subscribe nothing and queue no value.
LEMMA QuietIds ==
  ASSUME IdsInv, ListsKept(reg, reg'), ended \subseteq ended',
         UNCHANGED <<subVars, tellVars>>,
         \A c \in ClientIdx, u \in PubUIDs : pubs'[c][u] \in {pubs[c][u], None},
         \A s \in SubIdx : sub_values'[s] \in {sub_values[s], {}}
  PROVE  IdsInv'
<1>1. /\ UNCHANGED <<next_sub, subs, subscriptions, announced, told>>
  BY DEF subVars, tellVars
<1>2. SubsFresh' /\ SubOwnership'
  BY <1>1 DEF IdsInv, SubsFresh, SubOwnership
<1>3. AnnouncedTold'
  BY <1>1 DEF IdsInv, AnnouncedTold
<1>4. PublisherKnowsTopic'
  BY <1>1 DEF IdsInv, PublisherKnowsTopic
<1>5. ListedTold'
  BY <1>1 DEF IdsInv, ListedTold, ListsKept
<1>6. ValueOnlyAfterAnnounce'
  BY <1>1 DEF IdsInv, ValueOnlyAfterAnnounce
<1> QED
  BY <1>2, <1>3, <1>4, <1>5, <1>6 DEF IdsInv

\* set_value queues for subscriptions whose clients have been sent the id, on the
\* tables it finds or on those a publish has just added the topic to.
LEMMA QueuedTold ==
  ASSUME ListedTold, ValueOnlyAfterAnnounce, NEW r, ListsKept(reg, r),
         NEW i \in TopicIdx, UNCHANGED <<subscriptions, ended>>, told \subseteq told',
         sub_values' = Queued(r, i)
  PROVE  ValueOnlyAfterAnnounce'
<1>1. SUFFICES ASSUME NEW s \in SubIdx, subscriptions[s] # None,
                      subscriptions[s].client \notin ended, NEW j \in sub_values'[s]
               PROVE  <<subscriptions[s].client, j>> \in told
  BY DEF ValueOnlyAfterAnnounce
<1>2. CASE j \in sub_values[s]
  BY <1>1, <1>2 DEF ValueOnlyAfterAnnounce
<1>3. CASE j \notin sub_values[s]
  <2>1. Accepts(r, i) /\ s \in r.topic_sub_map[i] /\ j = i
    BY <1>1, <1>3 DEF Queued
  <2>2. reg.topics[i] # None /\ s \in reg.topic_sub_map[i]
    BY <2>1 DEF Accepts, ListsKept
  <2> QED
    BY <1>1, <2>1, <2>2 DEF ListedTold
<1> QED
  BY <1>2, <1>3

\* A publish, by a client or by the server's handle: a publisher that is in
\* announced_topics has been told, any other is told now.
LEMMA PublishIds ==
  ASSUME IInv, IdsInv, NEW c \in ClientIdx, NEW u \in PubUIDs, NEW n \in Names,
         NEW out, PublishWith(c, u, n, out), ListsKept(reg, reg'),
         out.ok /\ c \notin ended =>
           <<c, out.reg.topic_map[n]>> \in announced \cup out.sent,
         ValueOnlyAfterAnnounce',
         UNCHANGED <<clientVars, connected, subVars, taskVars>>
  PROVE  IdsInv'
<1> DEFINE i == out.reg.topic_map[n]
<1>1. /\ UNCHANGED <<next_sub, subs, subscriptions, ended>>
      /\ announced' = announced \cup out.sent
      /\ told' = told \cup {x \in out.sent : x[1] \notin ended}
      /\ pubs' = IF out.ok THEN [pubs EXCEPT ![c][u] = i] ELSE pubs
  BY DEF PublishWith, subVars, taskVars
<1> HIDE DEF i
<1>2. SubsFresh' /\ SubOwnership'
  BY <1>1 DEF IdsInv, SubsFresh, SubOwnership
<1>3. AnnouncedTold'
  BY <1>1 DEF IdsInv, AnnouncedTold
<1>4. PublisherKnowsTopic'
  <2>1. SUFFICES ASSUME NEW d \in ClientIdx \ (ended \cup {SERVER_CLIENT_IDX}),
                        NEW v \in PubUIDs, pubs'[d][v] # None
                 PROVE  <<d, pubs'[d][v]>> \in told'
    BY <1>1 DEF PublisherKnowsTopic
  <2>2. CASE pubs'[d][v] = pubs[d][v]
    BY <1>1, <2>1, <2>2 DEF IdsInv, PublisherKnowsTopic
  <2>3. CASE pubs'[d][v] # pubs[d][v]
    <3>1. out.ok /\ d = c /\ pubs'[d][v] = i
      BY <1>1, <2>3 DEF IInv, TypeOK
    <3>2. <<c, i>> \in announced'
      BY <1>1, <2>1, <3>1 DEF i
    <3> QED
      BY <1>1, <1>3, <2>1, <3>1, <3>2 DEF AnnouncedTold
  <2> QED
    BY <2>2, <2>3
<1>5. ListedTold'
  BY <1>1 DEF IdsInv, ListedTold, ListsKept
<1> QED
  BY <1>2, <1>3, <1>4, <1>5 DEF IdsInv

\* A publish keeps the lists.
LEMMA PublishedLists ==
  ASSUME NEW out, NEW r, out.reg.topics = r.topics,
         out.reg.topic_sub_map = r.topic_sub_map, ListsKept(reg, r), out.reg \in Registry,
         NEW c, NEW u, NEW n, PublishWith(c, u, n, out)
  PROVE  ListsKept(reg, reg')
<1>1. reg'.topics = out.reg.topics /\ reg'.topic_sub_map = out.reg.topic_sub_map
  BY DEF PublishWith, Registry
<1> QED
  BY <1>1 DEF ListsKept

\* A publish message.
LEMMA PublishMessageIds ==
  ASSUME IInv, IdsInv, NEW c \in ClientIdx, NEW u \in PubUIDs, NEW n \in PublishNames,
         NEW fl \in PublishFlags, Publish(c, u, n, fl)
  PROVE  IdsInv'
<1>1. PICK out \in PublishOutcomes(c, n, fl) : PublishWith(c, u, n, out)
  BY DEF Publish
<1>2. /\ RoomFor(n)
      /\ UNCHANGED <<clientVars, connected, subVars, sub_values, taskVars>>
  BY DEF Publish
<1>3. n \in Names /\ fl \in SUBSET Flags
  BY ServerAssumption
<1>4. /\ ListsKept(reg, out.reg)
      /\ out.ok /\ c \notin ended =>
           <<c, out.reg.topic_map[n]>> \in announced \cup out.sent
  BY <1>3, PublishAnswers DEF IInv, TypeOK
<1>5. out.reg \in Registry
  BY <1>2, <1>3, PublishOutcomesFacts DEF IInv, TypeOK
<1>6. ListsKept(reg, reg')
  BY <1>1, <1>4, <1>5, PublishedLists
<1>7. ValueOnlyAfterAnnounce'
  <2>1. UNCHANGED <<subscriptions, sub_values, ended>> /\ told \subseteq told'
    BY <1>1, <1>2 DEF PublishWith, subVars, taskVars
  <2> QED
    BY <2>1 DEF IdsInv, ValueOnlyAfterAnnounce
<1> QED
  BY <1>1, <1>2, <1>3, <1>4, <1>6, <1>7, PublishIds

\* A publish by the server's own handle, and the value it sets.
LEMMA HandlePublishIds ==
  ASSUME IInv, IdsInv, NEW u \in PubUIDs, NEW n \in PublishNames, NEW fl \in PublishFlags,
         HandlePublish(u, n, fl)
  PROVE  IdsInv'
<1> DEFINE c == SERVER_CLIENT_IDX
           Then(out) ==
             [out EXCEPT !.reg = IF out.ok THEN Valued(@, out.reg.topic_map[n]) ELSE @]
<1>1. PICK out \in PublishOutcomes(c, n, fl) :
        /\ PublishWith(c, u, n, Then(out))
        /\ sub_values' = IF out.ok THEN Queued(out.reg, out.reg.topic_map[n]) ELSE sub_values
  BY DEF HandlePublish
<1>2. /\ RoomFor(n)
      /\ UNCHANGED <<clientVars, connected, subVars, taskVars>>
  BY DEF HandlePublish
<1>3. n \in Names /\ fl \in SUBSET Flags /\ c \in ClientIdx
  BY ServerAssumption, RegistryAssumption DEF SERVER_CLIENT_IDX, ClientIdx
<1> HIDE DEF c
<1>4. /\ ListsKept(reg, out.reg)
      /\ out.ok /\ c \notin ended =>
           <<c, out.reg.topic_map[n]>> \in announced \cup out.sent
  BY <1>3, PublishAnswers DEF IInv, TypeOK
<1> DEFINE i == out.reg.topic_map[n]
<1>5. /\ out \in [reg : Registry, sent : SUBSET (ClientIdx \X TopicIdx), ok : BOOLEAN]
      /\ RegistryInv(out.reg) /\ ListsIn(out.reg, Known) /\ i \in TopicIdx
  BY <1>2, <1>3, PublishOutcomesFacts DEF IInv, TypeOK
<1> HIDE DEF i
<1> DEFINE then == Then(out)
<1>6. /\ then.reg = (IF out.ok THEN Valued(out.reg, i) ELSE out.reg)
      /\ then.sent = out.sent /\ then.ok = out.ok
  BY <1>5 DEF i
<1> HIDE DEF Then
<1>7. PublishWith(c, u, n, then)
  BY <1>1
<1> HIDE DEF then
<1>8. /\ then.reg \in Registry
      /\ then.reg.topics = out.reg.topics /\ then.reg.topic_map = out.reg.topic_map
      /\ then.reg.topic_sub_map = out.reg.topic_sub_map
  <2>1. then.reg \in Registry
    BY <1>5, <1>6, ValuedFacts DEF RegistryInv, TablesInv
  <2>2. out.reg \in Registry
    BY <1>5
  <2> QED
    BY <1>6, <2>1, <2>2 DEF Valued, Registry
<1>9. ListsKept(reg, reg')
  BY <1>4, <1>7, <1>8, PublishedLists
<1>10. ValueOnlyAfterAnnounce'
  <2>1. UNCHANGED <<subscriptions, ended>> /\ told \subseteq told'
    BY <1>2, <1>7 DEF PublishWith, subVars, taskVars
  <2>2. CASE out.ok
    BY <1>1, <1>4, <1>5, <2>1, <2>2, QueuedTold DEF IdsInv, i
  <2>3. CASE ~out.ok
    BY <1>1, <2>1, <2>3 DEF IdsInv, ValueOnlyAfterAnnounce
  <2> QED
    BY <2>2, <2>3
<1>11. then.ok /\ c \notin ended =>
         <<c, then.reg.topic_map[n]>> \in announced \cup then.sent
  BY <1>4, <1>6, <1>8
<1> QED
  BY <1>2, <1>3, <1>7, <1>9, <1>10, <1>11, PublishIds

\* A value from a client.
LEMMA SetValueIds ==
  ASSUME IInv, IdsInv, NEW c \in ClientIdx, NEW u \in PubUIDs, SetValue(c, u)
  PROVE  IdsInv'
<1> DEFINE i == pubs[c][u]
<1>1. /\ i \in TopicIdx
      /\ reg' = Valued(reg, i)
      /\ sub_values' = Queued(reg, i)
      /\ UNCHANGED <<pubs, next_sub, subs, subscriptions, ended, announced, told>>
  BY DEF SetValue, IInv, TypeOK, subVars, taskVars, tellVars
<1> HIDE DEF i
<1>2. ListsKept(reg, reg')
  <2>1. reg'.topics = reg.topics /\ reg'.topic_sub_map = reg.topic_sub_map
    BY <1>1 DEF Valued, IInv, TypeOK, Registry
  <2> QED
    BY <2>1 DEF ListsKept
<1>3. ValueOnlyAfterAnnounce'
  <2>1. ListsKept(reg, reg)
    BY DEF ListsKept
  <2> QED
    BY <1>1, <2>1, QueuedTold DEF IdsInv
<1>4. SubsFresh' /\ SubOwnership'
  BY <1>1 DEF IdsInv, SubsFresh, SubOwnership
<1>5. AnnouncedTold' /\ PublisherKnowsTopic'
  BY <1>1 DEF IdsInv, AnnouncedTold, PublisherKnowsTopic
<1>6. ListedTold'
  BY <1>1, <1>2 DEF IdsInv, ListedTold, ListsKept
<1> QED
  BY <1>3, <1>4, <1>5, <1>6 DEF IdsInv

\* subscribe: the index is fresh, and the client is sent the id of every topic in whose
\* list it puts it.
LEMMA SubscribeIds ==
  ASSUME IInv, IdsInv, NEW c \in ClientIdx, NEW w \in SubUIDs, NEW pat \in Patterns,
         Subscribe(c, w, pat)
  PROVE  IdsInv'
<1> DEFINE s      == next_sub
           wanted == {reg.topic_map[n] : n \in Matches[pat]} \ {None}
           heard  == {c} \X {reg.topic_map[n] : n \in Announceable(pat)}
           entry  == [client |-> c, pattern |-> pat]
<1>1. /\ s \in SubIdx /\ next_sub' = s + 1 /\ s \in Nat
      /\ sub_values' = [sub_values EXCEPT ![s] = {}]
      /\ subscriptions' = [subscriptions EXCEPT ![s] = entry]
      /\ subs' = [subs EXCEPT ![c][w] = s]
      /\ told' = IF c \in ended THEN told ELSE told \cup heard
      /\ UNCHANGED <<pubs, announced, ended>>
  BY RegistryAssumption DEF Subscribe, IInv, TypeOK, SubIdx, taskVars
<1>2. /\ reg'.topics = reg.topics
      /\ reg'.topic_sub_map = [i \in TopicIdx |->
            IF i \in wanted THEN reg.topic_sub_map[i] \cup {s} ELSE reg.topic_sub_map[i]]
  BY DEF Subscribe, IInv, TypeOK, Registry
<1>3. subscriptions[s] = None /\ entry # None /\ entry.client = c
  <2>1. entry \in [client : ClientIdx, pattern : Patterns]
    OBVIOUS
  <2> QED
    BY <1>1, <2>1, ServerAssumption DEF IdsInv, SubsFresh
<1>4. /\ subscriptions \in [SubIdx -> [client : ClientIdx, pattern : Patterns] \cup {None}]
      /\ sub_values \in [SubIdx -> (SUBSET TopicIdx) \cup {None}]
      /\ subs \in [ClientIdx -> [SubUIDs -> SubIdx \cup {None}]]
      /\ SubIdx \subseteq Nat
  BY RegistryAssumption DEF IInv, TypeOK, SubIdx
<1>5. ASSUME NEW i \in wanted, reg.topics[i] # None, c \notin ended
      PROVE  <<c, i>> \in told'
  <2>1. PICK n \in Matches[pat] : reg.topic_map[n] = i /\ i # None
    BY <1>5
  <2>2. n \in Announceable(pat)
    BY <1>5, <2>1 DEF Announceable
  <2> QED
    BY <1>1, <1>5, <2>1, <2>2
<1> HIDE DEF wanted, heard, s, entry
<1>6. told \subseteq told'
  BY <1>1
<1>7. SubsFresh'
  <2>1. SUFFICES ASSUME NEW x \in SubIdx, x >= next_sub'  PROVE subscriptions'[x] = None
    BY DEF SubsFresh
  <2>2. x # s /\ x >= s
    BY <1>1, <1>4, <2>1
  <2>3. subscriptions[x] = None
    BY <2>2 DEF IdsInv, SubsFresh, s
  <2> QED
    BY <1>1, <1>4, <2>2, <2>3
<1>8. SubOwnership'
  <2>1. ASSUME NEW d \in ClientIdx, NEW x \in SubUIDs, subs'[d][x] # None, <<d, x>> # <<c, w>>
        PROVE  /\ subs'[d][x] = subs[d][x] /\ subs[d][x] # s
               /\ subscriptions'[subs[d][x]] = subscriptions[subs[d][x]]
    <3>1. subs'[d][x] = subs[d][x]
      BY <1>1, <1>4, <2>1
    <3>2. subscriptions[subs[d][x]] # None
      BY <2>1, <3>1 DEF IdsInv, SubOwnership
    <3> QED
      BY <1>1, <1>3, <1>4, <3>1, <3>2
  <2>2. subs'[c][w] = s /\ subscriptions'[s] = entry
    BY <1>1, <1>4
  <2>3. SUFFICES ASSUME NEW d \in ClientIdx, NEW x \in SubUIDs, subs'[d][x] # None
                 PROVE  /\ subscriptions'[subs'[d][x]] # None
                        /\ subscriptions'[subs'[d][x]].client = d
                        /\ \A e \in ClientIdx, y \in SubUIDs :
                             subs'[e][y] = subs'[d][x] => <<e, y>> = <<d, x>>
    BY DEF SubOwnership
  <2>4. CASE <<d, x>> = <<c, w>>
    <3>1. subs'[d][x] = s /\ s # None
      BY <2>2, <2>3, <2>4
    <3> QED
      BY <1>3, <2>1, <2>2, <2>4, <3>1
  <2>5. CASE <<d, x>> # <<c, w>>
    <3>1. subs'[d][x] = subs[d][x] /\ subs[d][x] # s
          /\ subscriptions'[subs[d][x]] = subscriptions[subs[d][x]]
      BY <2>1, <2>3, <2>5
    <3>2. subscriptions[subs[d][x]] # None /\ subscriptions[subs[d][x]].client = d
      BY <2>3, <3>1 DEF IdsInv, SubOwnership
    <3>3. ASSUME NEW e \in ClientIdx, NEW y \in SubUIDs, subs'[e][y] = subs'[d][x]
          PROVE  <<e, y>> = <<d, x>>
      <4>1. <<e, y>> # <<c, w>>
        BY <2>2, <3>1, <3>3
      <4>2. subs'[e][y] = subs[e][y]
        BY <2>1, <2>3, <3>3, <4>1
      <4>3. subs[e][y] = subs[d][x] /\ subs[d][x] # None
        BY <2>3, <3>1, <3>3, <4>2
      <4> QED
        BY <4>3 DEF IdsInv, SubOwnership
    <3> QED
      BY <3>1, <3>2, <3>3
  <2> QED
    BY <2>4, <2>5
<1>9. AnnouncedTold' /\ PublisherKnowsTopic'
  BY <1>1, <1>6 DEF IdsInv, AnnouncedTold, PublisherKnowsTopic
<1>10. ListedTold'
  <2>1. SUFFICES ASSUME NEW i \in TopicIdx, NEW x \in SubIdx,
                        reg.topics[i] # None, x \in reg'.topic_sub_map[i],
                        subscriptions'[x] # None, subscriptions'[x].client \notin ended
                 PROVE  <<subscriptions'[x].client, i>> \in told'
    BY <1>1, <1>2 DEF ListedTold
  <2>2. CASE x = s
    <3>1. s \notin reg.topic_sub_map[i]
      <4>1. reg.topic_sub_map[i] \subseteq Known
        BY <2>1 DEF IInv, ListsIn, RegistryInv, TablesInv, HasVector
      <4> QED
        BY <1>3, <4>1, ServerAssumption DEF Known
    <3>2. i \in wanted
      BY <1>2, <2>1, <2>2, <3>1
    <3>3. subscriptions'[x].client = c
      BY <1>1, <1>3, <1>4, <2>2
    <3> QED
      BY <1>5, <2>1, <3>2, <3>3
  <2>3. CASE x # s
    <3>1. x \in reg.topic_sub_map[i] /\ subscriptions'[x] = subscriptions[x]
      BY <1>1, <1>2, <1>4, <2>1, <2>3
    <3> QED
      BY <1>6, <2>1, <3>1 DEF IdsInv, ListedTold
  <2> QED
    BY <2>2, <2>3
<1>11. ValueOnlyAfterAnnounce'
  <2>1. SUFFICES ASSUME NEW x \in SubIdx, subscriptions'[x] # None,
                        subscriptions'[x].client \notin ended, NEW i \in sub_values'[x]
                 PROVE  <<subscriptions'[x].client, i>> \in told'
    BY <1>1 DEF ValueOnlyAfterAnnounce
  <2>2. x # s
    BY <1>1, <1>4, <2>1
  <2>3. subscriptions'[x] = subscriptions[x] /\ sub_values'[x] = sub_values[x]
    BY <1>1, <2>2
  <2> QED
    BY <1>6, <2>1, <2>3 DEF IdsInv, ValueOnlyAfterAnnounce
<1> QED
  BY <1>7, <1>8, <1>9, <1>10, <1>11 DEF IdsInv

\* unsubscribe takes away what the uid leads to, and no other uid leads there.
LEMMA UnsubscribeIds ==
  ASSUME IInv, IdsInv, NEW c \in ClientIdx, NEW w \in SubUIDs, Unsubscribe(c, w)
  PROVE  IdsInv'
<1> DEFINE s == subs[c][w]
<1>1. /\ s \in SubIdx /\ s # None
      /\ subs' = [subs EXCEPT ![c][w] = None]
      /\ subscriptions' = [subscriptions EXCEPT ![s] = None]
      /\ sub_values' = [sub_values EXCEPT ![s] = None]
      /\ UNCHANGED <<next_sub, pubs, ended, announced, told>>
  BY DEF Unsubscribe, IInv, TypeOK, taskVars, tellVars
<1>2. /\ reg'.topics = reg.topics
      /\ reg'.topic_sub_map = [i \in TopicIdx |-> IF reg.topic_sub_map[i] = None THEN None
                                                  ELSE reg.topic_sub_map[i] \ {s}]
  BY DEF Unsubscribe, IInv, TypeOK, Registry
<1>3. /\ subscriptions \in [SubIdx -> [client : ClientIdx, pattern : Patterns] \cup {None}]
      /\ sub_values \in [SubIdx -> (SUBSET TopicIdx) \cup {None}]
      /\ subs \in [ClientIdx -> [SubUIDs -> SubIdx \cup {None}]]
  BY DEF IInv, TypeOK
<1>4. ASSUME NEW d \in ClientIdx, NEW x \in SubUIDs, subs'[d][x] # None
      PROVE  /\ subs'[d][x] = subs[d][x] /\ subs[d][x] # s
             /\ subscriptions'[subs[d][x]] = subscriptions[subs[d][x]]
  <2>1. subs'[d][x] = subs[d][x] /\ <<d, x>> # <<c, w>>
    BY <1>1, <1>3, <1>4
  <2>2. subs[d][x] # s
    BY <1>1, <2>1 DEF IdsInv, SubOwnership
  <2>3. subs[d][x] \in SubIdx
    BY <1>3, <1>4, <2>1
  <2> HIDE DEF s
  <2>4. subscriptions'[subs[d][x]] = subscriptions[subs[d][x]]
    BY <1>1, <1>3, <2>2, <2>3
  <2> QED
    BY <2>1, <2>2, <2>4
<1> HIDE DEF s
<1>5. SubsFresh'
  BY <1>1, <1>3 DEF IdsInv, SubsFresh
<1>6. SubOwnership'
  BY <1>4 DEF IdsInv, SubOwnership
<1>7. AnnouncedTold' /\ PublisherKnowsTopic'
  BY <1>1 DEF IdsInv, AnnouncedTold, PublisherKnowsTopic
<1>8. ASSUME NEW x \in SubIdx, subscriptions'[x] # None
      PROVE  subscriptions'[x] = subscriptions[x] /\ sub_values'[x] = sub_values[x] /\ x # s
  BY <1>1, <1>3, <1>8
<1>9. ListedTold'
  <2>1. ASSUME NEW i \in TopicIdx, reg.topics[i] # None
        PROVE  reg'.topic_sub_map[i] \subseteq reg.topic_sub_map[i]
    BY <1>2, <2>1 DEF IInv, RegistryInv, TablesInv, HasVector
  <2>2. SUFFICES ASSUME NEW i \in TopicIdx, NEW x \in SubIdx,
                        reg.topics[i] # None, x \in reg'.topic_sub_map[i],
                        subscriptions'[x] # None, subscriptions'[x].client \notin ended
                 PROVE  <<subscriptions'[x].client, i>> \in told
    BY <1>1, <1>2 DEF ListedTold
  <2>3. x \in reg.topic_sub_map[i] /\ subscriptions'[x] = subscriptions[x]
    BY <1>8, <2>1, <2>2
  <2> QED
    BY <2>2, <2>3 DEF IdsInv, ListedTold
<1>10. ValueOnlyAfterAnnounce'
  BY <1>1, <1>8 DEF IdsInv, ValueOnlyAfterAnnounce
<1> QED
  BY <1>5, <1>6, <1>7, <1>9, <1>10 DEF IdsInv

--------------------------------------------------------------------------------

\* A new client adds two metatopics.
LEMMA ConnectIds ==
  ASSUME IInv, IInv', IdsInv, NEW asked \in AskedNames, Connect(asked)
  PROVE  IdsInv'
<1> DEFINE same == {d \in connected \ {SERVER_CLIENT_IDX} : names[d] \in NamesContaining[asked]}
           name == ClientName(asked, Cardinality(same))
           p    == ClientMeta("$clientpub", name)
           q    == ClientMeta("$clientsub", name)
           r1   == EnsureTopic(reg, p, {})
           r2   == EnsureTopic(r1, q, {})
<1>1. /\ reg' = r2
      /\ clients_mte' = clients_mte \cup {name}
      /\ UNCHANGED <<pubs, subVars, sub_values, ended, tellVars>>
  BY DEF Connect, taskVars
<1> HIDE DEF same, name
<1>2. name \in ClientNames
  BY <1>1 DEF IInv, TypeOK
<1>4. p \in Names /\ q \in Names
  BY <1>2 DEF ClientMeta, Names, ClientMetas
<1> HIDE DEF p, q
<1>5. r1 \in Unbounded /\ ListsKept(reg, r1)
  BY <1>4, RegistryUnbounded, EnsureTopicKeeps DEF IInv, TypeOK
<1> HIDE DEF r1
<1>6. ListsKept(r1, r2)
  BY <1>4, <1>5, EnsureTopicKeeps
<1> HIDE DEF r2
<1>7. ListsKept(reg, reg')
  BY <1>1, <1>5, <1>6, KeptTwice
<1> QED
  BY <1>1, <1>7, QuietIds

\* Steps that leave the tables and what clients are told alone.
LEMMA CalmIds ==
  ASSUME IInv, IdsInv, UNCHANGED <<reg, pubs, subVars, tellVars>>, ended \subseteq ended',
         \A s \in SubIdx : sub_values'[s] \in {sub_values[s], {}}
  PROVE  IdsInv'
<1>1. ListsKept(reg, reg')
  BY DEF ListsKept
<1> QED
  BY <1>1, QuietIds

\* Connections that end, and messages about it.
LEMMA EndingsIds ==
  ASSUME IInv, IdsInv, NEW c \in ClientIdx,
         ConnectionEnds(c) \/ CloseDropped(c) \/ CloseHandled(c)
  PROVE  IdsInv'
<1>1. /\ UNCHANGED <<reg, pubs, subVars, sub_values, tellVars>>
      /\ ended \subseteq ended'
  BY DEF ConnectionEnds, CloseDropped, CloseHandled
<1> QED
  BY <1>1, CalmIds

\* send_out empties a queue.
LEMMA SendOutIds ==
  ASSUME IInv, IdsInv, NEW s \in SubIdx, SendOut(s)
  PROVE  IdsInv'
<1>1. /\ UNCHANGED <<reg, pubs, subVars, ended, tellVars>>
      /\ sub_values' = [sub_values EXCEPT ![s] = {}]
  BY DEF SendOut, taskVars
<1>2. \A x \in SubIdx : sub_values'[x] \in {sub_values[x], {}}
  BY <1>1 DEF IInv, TypeOK
<1> QED
  BY <1>1, <1>2, CalmIds

\* set_properties touches the flags only.
LEMMA SetPropertiesIds ==
  ASSUME IInv, IdsInv, NEW n \in PublishNames, NEW p \in PropertyUpdates,
         SetProperties(n, p[1], p[2])
  PROVE  IdsInv'
<1>1. /\ UNCHANGED <<pubs, subVars, sub_values, ended, tellVars>>
      /\ reg'.topics = reg.topics /\ reg'.topic_sub_map = reg.topic_sub_map
  BY DEF SetProperties, taskVars, IInv, TypeOK, Registry
<1>2. ListsKept(reg, reg')
  BY <1>1 DEF ListsKept
<1> QED
  BY <1>1, <1>2, QuietIds

\* Giving up a publisher changes no list of a topic that remains.
LEMMA ReleaseKeeps ==
  ASSUME IInv, NEW i \in TopicIdx, reg.pub_count[i] # None
  PROVE  ListsKept(reg, ReleaseTopic(reg, i)) /\ ReleaseTopic(reg, i) \in Registry
<1>1. RegistryInv(ReleaseTopic(reg, i)) /\ Shrunk(reg, ReleaseTopic(reg, i))
  BY ReleaseTopicInv DEF IInv
<1> QED
  BY <1>1, ShrunkKeeps DEF RegistryInv, TablesInv

\* inner_unpublish_topic, however it ends.
LEMMA UnpublishIds ==
  ASSUME IInv, IdsInv, NEW c \in ClientIdx, NEW u \in PubUIDs, Unpublish(c, u)
  PROVE  IdsInv'
<1> DEFINE i    == pubs[c][u]
           m    == PublisherMeta(c)
           name == reg.topics[i]
           r1   == ReleaseTopic(reg, i)
           r2   == IF reg.pub_count[i] = 1 THEN [r1 EXCEPT !.pub_count[i] = None] ELSE r1
           r3   == [r2 EXCEPT !.publishers[m] = @ \ {<<name, u>>}]
<1>1. /\ i # None
      /\ pubs' = [pubs EXCEPT ![c][u] = None]
      /\ reg' = reg \/ (reg.pub_count[i] # None /\ reg' \in {r1, r3})
      /\ UNCHANGED <<subVars, sub_values, ended, tellVars>>
  BY DEF Unpublish, Unlisted
<1>2. i \in TopicIdx
  BY <1>1 DEF IInv, TypeOK
<1>3. \A d \in ClientIdx, v \in PubUIDs : pubs'[d][v] \in {pubs[d][v], None}
  BY <1>1 DEF IInv, TypeOK
<1> HIDE DEF i, m, name
<1>4. ASSUME reg.pub_count[i] # None
      PROVE  ListsKept(reg, r1) /\ ListsKept(reg, r3)
  <2>1. ListsKept(reg, r1) /\ r1 \in Registry
    BY <1>2, <1>4, ReleaseKeeps
  <2> HIDE DEF r1
  <2>2. r3.topics = r1.topics /\ r3.topic_sub_map = r1.topic_sub_map
    BY <2>1 DEF Registry
  <2> QED
    BY <2>1, <2>2 DEF ListsKept
<1> HIDE DEF r1, r3
<1>5. ListsKept(reg, reg)
  BY DEF ListsKept
<1>6. ListsKept(reg, reg')
  BY <1>1, <1>4, <1>5
<1> QED
  BY <1>1, <1>3, <1>6, QuietIds

\* One turn of disconnect_client's loop, however it ends.
LEMMA DisconnectStepIds ==
  ASSUME IInv, IdsInv, DisconnectStep
  PROVE  IdsInv'
<1>1. PICK u \in leaving.left :
        LET i == pubs[leaving.client][u]
        IN  reg' = reg \/ (reg.pub_count[i] # None /\ reg' = ReleaseTopic(reg, i))
  BY DEF DisconnectStep
<1>2. leaving # None /\ UNCHANGED <<pubs, subVars, sub_values, ended, tellVars>>
  BY DEF DisconnectStep
<1> DEFINE i == pubs[leaving.client][u]
<1>3. i \in TopicIdx
  BY <1>2 DEF IInv, LeavingSound
<1>4. reg' = reg \/ (reg.pub_count[i] # None /\ reg' = ReleaseTopic(reg, i))
  BY <1>1
<1> HIDE DEF i
<1>5. ListsKept(reg, reg)
  BY DEF ListsKept
<1>6. ListsKept(reg, reg')
  BY <1>3, <1>4, <1>5, ReleaseKeeps
<1> QED
  BY <1>2, <1>6, QuietIds

\* The end of disconnect_client.
LEMMA DisconnectMetasIds ==
  ASSUME IInv, IdsInv, DisconnectMetas
  PROVE  IdsInv'
<1> DEFINE p  == metatopics[leaving.client][1]
           q  == metatopics[leaving.client][2]
           r1 == RemoveTopic(reg, p)
<1>1. /\ leaving # None
      /\ reg' = IF Removable(reg, p) THEN RemoveTopic(r1, q) ELSE r1
      /\ UNCHANGED <<pubs, subVars, sub_values, ended, tellVars>>
  BY DEF DisconnectMetas
<1>2. p \in TopicIdx /\ q \in TopicIdx
  BY <1>1 DEF IInv, LeavingSound
<1> HIDE DEF p, q
<1>3. RegistryInv(r1) /\ ListsKept(reg, r1)
  BY <1>2, RemoveTopicCounted, ShrunkKeeps DEF IInv, RegistryInv, TablesInv
<1> HIDE DEF r1
<1>4. ListsKept(r1, RemoveTopic(r1, q))
  BY <1>2, <1>3, RemoveTopicCounted, ShrunkKeeps DEF RegistryInv, TablesInv
<1>5. ListsKept(reg, RemoveTopic(r1, q))
  BY <1>3, <1>4, KeptTwice
<1>6. ListsKept(reg, reg')
  BY <1>1, <1>3, <1>5
<1> QED
  BY <1>1, <1>6, QuietIds

--------------------------------------------------------------------------------

\* At the start no client has anything.
LEMMA InitIds == Init => IdsInv
<1> SUFFICES ASSUME Init  PROVE IdsInv
  OBVIOUS
<1>1. SubsFresh /\ AnnouncedTold /\ ListedTold /\ ValueOnlyAfterAnnounce
  BY DEF Init, SubsFresh, AnnouncedTold, ListedTold, ValueOnlyAfterAnnounce
<1>2. SubOwnership /\ PublisherKnowsTopic
  BY DEF Init, NoSubs, NoPubs, SubOwnership, PublisherKnowsTopic
<1> QED
  BY <1>1, <1>2 DEF IdsInv

\* Every step keeps the invariant.
LEMMA NextIds == IInv /\ IInv' /\ IdsInv /\ [Next]_vars => IdsInv'
<1> SUFFICES ASSUME IInv, IInv', IdsInv, [Next]_vars  PROVE IdsInv'
  OBVIOUS
<1>1. ASSUME NEW asked \in AskedNames, Connect(asked)  PROVE IdsInv'
  BY <1>1, ConnectIds
<1>2. ASSUME NEW c \in ClientIdx, ConnectionEnds(c) \/ CloseDropped(c) \/ CloseHandled(c)
      PROVE  IdsInv'
  BY <1>2, EndingsIds
<1>3. CASE DisconnectStep
  BY <1>3, DisconnectStepIds
<1>4. CASE DisconnectMetas
  BY <1>4, DisconnectMetasIds
<1>5. ASSUME NEW c \in ClientIdx, NEW u \in PubUIDs, NEW n \in PublishNames,
             NEW fl \in PublishFlags, Publish(c, u, n, fl)
      PROVE  IdsInv'
  BY <1>5, PublishMessageIds
<1>6. ASSUME NEW u \in PubUIDs, NEW n \in PublishNames, NEW fl \in PublishFlags,
             HandlePublish(u, n, fl)
      PROVE  IdsInv'
  BY <1>6, HandlePublishIds
<1>7. ASSUME NEW c \in ClientIdx, NEW u \in PubUIDs, Unpublish(c, u) \/ SetValue(c, u)
      PROVE  IdsInv'
  BY <1>7, UnpublishIds, SetValueIds
<1>8. ASSUME NEW n \in PublishNames, NEW p \in PropertyUpdates, SetProperties(n, p[1], p[2])
      PROVE  IdsInv'
  BY <1>8, SetPropertiesIds
<1>9. ASSUME NEW c \in ClientIdx, NEW w \in SubUIDs, NEW pat \in Patterns, Subscribe(c, w, pat)
      PROVE  IdsInv'
  BY <1>9, SubscribeIds
<1>10. ASSUME NEW c \in ClientIdx, NEW w \in SubUIDs, Unsubscribe(c, w)
       PROVE  IdsInv'
  BY <1>10, UnsubscribeIds
<1>11. ASSUME NEW s \in SubIdx, SendOut(s)  PROVE IdsInv'
  BY <1>11, SendOutIds
<1>12. CASE UNCHANGED vars
  BY <1>12, CalmIds DEF vars, taskVars
<1> QED
  BY <1>1, <1>2, <1>3, <1>4, <1>5, <1>6, <1>7, <1>8, <1>9, <1>10, <1>11, <1>12 DEF Next

\* The invariant about ids and subscriptions holds.
THEOREM IdsInvariant == Spec => []IdsInv
<1>1. Init => IdsInv
  BY InitIds
<1>2. IInv /\ IInv' /\ IdsInv /\ [Next]_vars => IdsInv'
  BY NextIds
<1> QED
  BY <1>1, <1>2, ServerInvariant, PTL DEF Spec

\* A value waits for a client only after the client has been sent the topic's id:
\* subscribe and announce_topic send the Announce before set_value finds the list.
THEOREM AnnouncedBeforeValues == Spec => []ValueOnlyAfterAnnounce
<1>1. IdsInv => ValueOnlyAfterAnnounce
  BY DEF IdsInv
<1> QED
  BY <1>1, IdsInvariant, PTL

\* A subuid leads to a subscription of its own client that no other subuid leads to:
\* unsubscribe never takes away another's, although a subuid may be used twice.
THEOREM SubscriptionsOwned == Spec => []SubOwnership
<1>1. IdsInv => SubOwnership
  BY DEF IdsInv
<1> QED
  BY <1>1, IdsInvariant, PTL

\* A client whose pubuid inner_publish_topic has registered was sent the topic's id,
\* in the answer or before, however other announcements failed.
THEOREM PublishersTold == Spec => []PublisherKnowsTopic
<1>1. IdsInv => PublisherKnowsTopic
  BY DEF IdsInv
<1> QED
  BY <1>1, IdsInvariant, PTL

--------------------------------------------------------------------------------
\* What each client publishes is listed

\* The names of the metatopics of the server and of the clients.
ListingNames == ClientMetas \cup ServerMetas

\* From tables r to tables s, every listing metatopic keeps its index and its list, and
\* an index that was handed out keeps its topic until the topic goes.
ListingsKept(r, s) ==
  /\ \A m \in ListingNames : r.topic_map[m] # None =>
       /\ s.topic_map[m] = r.topic_map[m]
       /\ s.publishers[r.topic_map[m]] = r.publishers[r.topic_map[m]]
  /\ \A i \in TopicIdx : i < r.next => s.topics[i] \in {r.topics[i], None}
  /\ r.next <= s.next

\* No client has been taken out.
Everyone == connected = 0 .. (next_client - 1)

\* Clients are numbered in order, and only a numbered client has anything.
ClientsNumbered ==
  /\ connected \subseteq 0 .. (next_client - 1)
  /\ leaving # None => leaving.client \in 0 .. (next_client - 1)
  /\ \A c \in ClientIdx, x \in PubUIDs : pubs[c][x] # None =>
       c < next_client /\ pubs[c][x] < reg.next

\* Where PublisherMeta leads: to the metatopic of the client's own name.
MetasNamed ==
  /\ \A c \in connected \ {SERVER_CLIENT_IDX} :
       /\ names[c] \in ClientNames
       /\ reg.topic_map[ClientMeta("$clientpub", names[c])] = metatopics[c][1]
  /\ reg.topic_map[<<"$serverpub", "server">>] = SERVER_PUB_METATOPIC

\* The invariant for the lists, on top of IInv.  PublicationsListed alone is not
\* inductive: unpublish takes an entry out of the list its client's metatopic leads to,
\* which must be no other client's.
ListingsInv ==
  /\ ClientsNumbered
  /\ MetasNamed
  /\ PublicationsListed

--------------------------------------------------------------------------------

\* add_topic of one name changes no listing and no topic that is there.
LEMMA EnsureTopicListings ==
  ASSUME NEW r \in Unbounded, NEW n \in Names, NEW fl \in SUBSET Flags
  PROVE  EnsureTopic(r, n, fl) \in Unbounded /\ ListingsKept(r, EnsureTopic(r, n, fl))
<1> DEFINE s == EnsureTopic(r, n, fl)
<1>1. s \in Unbounded
  BY EnsureTopicKeeps
<1>2. r.next \in Nat /\ TopicIdx \subseteq Nat /\ ListingNames \subseteq Names
  BY RegistryAssumption DEF Unbounded, TopicIdx, ListingNames, Names
<1>3. CASE r.topic_map[n] # None
  <2>1. s = r
    BY <1>3 DEF EnsureTopic
  <2> QED
    BY <1>1, <1>2, <2>1 DEF ListingsKept
<1>4. CASE r.topic_map[n] = None
  <2>1. s = InsertTopic(r, n, fl)
    BY <1>4 DEF EnsureTopic
  <2>2. /\ s.topics = [r.topics EXCEPT ![r.next] = n]
        /\ s.topic_map = [r.topic_map EXCEPT ![n] = r.next]
        /\ s.publishers = r.publishers
        /\ s.next = r.next + 1
    BY <2>1 DEF InsertTopic, Unbounded
  <2> HIDE DEF s
  <2>3. \A m \in ListingNames : r.topic_map[m] # None => s.topic_map[m] = r.topic_map[m]
    BY <1>2, <1>4, <2>2 DEF Unbounded
  <2>4. \A i \in TopicIdx : i < r.next => s.topics[i] = r.topics[i]
    BY <1>2, <2>2 DEF Unbounded
  <2>5. r.next <= s.next
    BY <1>2, <2>2
  <2> QED
    BY <1>1, <2>2, <2>3, <2>4, <2>5 DEF ListingsKept, s
<1> QED
  BY <1>3, <1>4

\* Listings kept twice are kept.
LEMMA ListingsKeptTwice ==
  ASSUME NEW r \in Unbounded, NEW s \in Unbounded, NEW t \in Unbounded,
         ListingsKept(r, s), ListingsKept(s, t)
  PROVE  ListingsKept(r, t)
<1>1. r.next \in Nat /\ s.next \in Nat /\ t.next \in Nat /\ TopicIdx \subseteq Nat
  BY RegistryAssumption DEF Unbounded, TopicIdx
<1>2. \A m \in ListingNames : r.topic_map[m] # None =>
        /\ t.topic_map[m] = r.topic_map[m]
        /\ t.publishers[r.topic_map[m]] = r.publishers[r.topic_map[m]]
  BY DEF ListingsKept
<1>3. \A i \in TopicIdx : i < r.next => t.topics[i] \in {r.topics[i], None}
  <2>1. SUFFICES ASSUME NEW i \in TopicIdx, i < r.next
                 PROVE  t.topics[i] \in {r.topics[i], None}
    OBVIOUS
  <2>2. i < s.next
    BY <1>1, <2>1 DEF ListingsKept
  <2>3. s.topics[i] \in {r.topics[i], None} /\ t.topics[i] \in {s.topics[i], None}
    BY <2>1, <2>2 DEF ListingsKept
  <2> QED
    BY <2>3
<1>4. r.next <= t.next
  BY <1>1 DEF ListingsKept
<1> QED
  BY <1>2, <1>3, <1>4 DEF ListingsKept

\* What remove_topic leaves when it takes a topic and its metatopics out.
LEMMA WhollyRemovedTables ==
  ASSUME NEW r \in Registry, NEW i \in TopicIdx, Removable(r, i),
         NEW n, n = r.topics[i],
         NEW p, p = MetaName("$pub", n), NEW q, q = MetaName("$sub", n)
  PROVE  /\ n \in Names /\ ~IsMeta(n)
         /\ p \in Names /\ r.topic_map[p] # None
         /\ q \in Names /\ r.topic_map[q] # None
         /\ RemoveTopic(r, i).topics =
              [j \in TopicIdx |-> IF j \in {i, r.topic_map[p], r.topic_map[q]} THEN None
                                  ELSE r.topics[j]]
         /\ RemoveTopic(r, i).topic_map =
              [m \in Names |-> IF m \in {n, p, q} THEN None ELSE r.topic_map[m]]
         /\ RemoveTopic(r, i).publishers =
              [j \in TopicIdx |-> IF j \in {r.topic_map[p], r.topic_map[q]} THEN {}
                                  ELSE r.publishers[j]]
         /\ RemoveTopic(r, i).next = r.next
<1>1. RemoveTopic(r, i) = WhollyRemoved(r, i)
  BY DEF RemoveTopic
<1>2. /\ n # None /\ ~IsMeta(n) /\ r.topic_map[p] # None /\ r.topic_map[q] # None
      /\ MetaIdx(r, "$pub", i) = r.topic_map[p]
      /\ MetaIdx(r, "$sub", i) = r.topic_map[q]
  BY DEF Removable, MetaIdx
<1>3. n \in Names
  BY <1>2, RegistryFields
<1>4. p \in Names /\ q \in Names
  BY <1>2, <1>3, NameFacts
<1>5. {i} \cup {r.topic_map[p], r.topic_map[q]} = {i, r.topic_map[p], r.topic_map[q]}
  OBVIOUS
<1>6. RemoveTopic(r, i) =
        [r EXCEPT
          !.topics        = Without(@, {i, r.topic_map[p], r.topic_map[q]}),
          !.topic_map     = Without(@, {n, p, q}),
          !.topic_sub_map = Without(@, {i, r.topic_map[p], r.topic_map[q]}),
          !.valued        = @ \ {i},
          !.publishers    = [j \in TopicIdx |->
                              IF j \in {r.topic_map[p], r.topic_map[q]} THEN {} ELSE @[j]]]
  BY <1>1, <1>2, <1>5 DEF WhollyRemoved
<1>7. /\ RemoveTopic(r, i).topics = Without(r.topics, {i, r.topic_map[p], r.topic_map[q]})
      /\ RemoveTopic(r, i).topic_map = Without(r.topic_map, {n, p, q})
      /\ RemoveTopic(r, i).publishers =
           [j \in TopicIdx |-> IF j \in {r.topic_map[p], r.topic_map[q]} THEN {}
                               ELSE r.publishers[j]]
      /\ RemoveTopic(r, i).next = r.next
  BY <1>6 DEF Registry
<1>8. DOMAIN r.topics = TopicIdx /\ DOMAIN r.topic_map = Names
  BY RegistryFields
<1> QED
  BY <1>2, <1>3, <1>4, <1>7, <1>8 DEF Without

\* What it leaves when it stops halfway.
LEMMA HalfRemovedTables ==
  ASSUME NEW r \in Registry, NEW i \in TopicIdx, ~Removable(r, i)
  PROVE  /\ RemoveTopic(r, i).topics =
              [j \in TopicIdx |-> IF j = i THEN None ELSE r.topics[j]]
         /\ \A m \in Names : RemoveTopic(r, i).topic_map[m] # r.topic_map[m] =>
              /\ r.topics[i] \in Names
              /\ ~IsMeta(r.topics[i])
              /\ m = MetaName("$pub", r.topics[i])
         /\ RemoveTopic(r, i).publishers = r.publishers
         /\ RemoveTopic(r, i).next = r.next
<1> DEFINE D == IF MetaIdx(r, "$pub", i) = None THEN {} ELSE {MetaName("$pub", r.topics[i])}
<1>1. RemoveTopic(r, i) =
        [r EXCEPT !.topics = Without(@, {i}), !.topic_map = Without(@, D)]
  BY DEF RemoveTopic, HalfRemoved
<1>2. D # {} => /\ r.topics[i] \in Names
                /\ ~IsMeta(r.topics[i])
                /\ D = {MetaName("$pub", r.topics[i])}
  BY RegistryFields DEF MetaIdx
<1> HIDE DEF D
<1>3. /\ RemoveTopic(r, i).topics = Without(r.topics, {i})
      /\ RemoveTopic(r, i).topic_map = Without(r.topic_map, D)
      /\ RemoveTopic(r, i).publishers = r.publishers
      /\ RemoveTopic(r, i).next = r.next
  BY <1>1 DEF Registry
<1>4. DOMAIN r.topics = TopicIdx /\ DOMAIN r.topic_map = Names
  BY RegistryFields
<1>5. RemoveTopic(r, i).topics = [j \in TopicIdx |-> IF j = i THEN None ELSE r.topics[j]]
  BY <1>3, <1>4 DEF Without
<1>6. \A m \in Names : RemoveTopic(r, i).topic_map[m] # r.topic_map[m] => m \in D
  BY <1>3, <1>4 DEF Without
<1> QED
  BY <1>2, <1>3, <1>5, <1>6

\* remove_topic takes no listing out, and clears none.
LEMMA RemoveTopicListings ==
  ASSUME NEW r, TablesInv(r), NEW i \in TopicIdx
  PROVE  ListingsKept(r, RemoveTopic(r, i))
<1> DEFINE s == RemoveTopic(r, i)
<1>1. r \in Registry /\ r.next \in Nat
  BY RegistryFields, RegistryAssumption DEF TablesInv
<1>2. \A m \in ListingNames : m \in Names /\ IsMeta(m) /\ m \notin TopicMetas
  BY DEF ListingNames, Names, ClientMetas, ServerMetas, TopicMetas, IsMeta
<1>3. \A n \in Names : ~IsMeta(n) =>
        MetaName("$pub", n) \in TopicMetas /\ MetaName("$sub", n) \in TopicMetas
  BY DEF Names, OrdinaryNames, TopicMetas, ClientMetas, ServerMetas, IsMeta, MetaName
<1>4. CASE Removable(r, i)
  <2>1. PICK n, p, q : n = r.topics[i] /\ p = MetaName("$pub", n) /\ q = MetaName("$sub", n)
    OBVIOUS
  <2>2. /\ n \in Names /\ ~IsMeta(n)
        /\ p \in Names /\ r.topic_map[p] # None
        /\ q \in Names /\ r.topic_map[q] # None
        /\ s.topics = [j \in TopicIdx |-> IF j \in {i, r.topic_map[p], r.topic_map[q]} THEN None
                                          ELSE r.topics[j]]
        /\ s.topic_map = [m \in Names |-> IF m \in {n, p, q} THEN None ELSE r.topic_map[m]]
        /\ s.publishers = [j \in TopicIdx |-> IF j \in {r.topic_map[p], r.topic_map[q]} THEN {}
                                              ELSE r.publishers[j]]
        /\ s.next = r.next
    BY <1>1, <1>4, <2>1, WhollyRemovedTables
  <2>3. p \in TopicMetas /\ q \in TopicMetas
    BY <1>3, <2>1, <2>2
  <2> HIDE DEF s
  <2>4. ASSUME NEW m \in ListingNames, r.topic_map[m] # None
        PROVE  /\ s.topic_map[m] = r.topic_map[m]
               /\ s.publishers[r.topic_map[m]] = r.publishers[r.topic_map[m]]
    <3>1. m \in Names /\ m \notin {n, p, q}
      BY <1>2, <2>2, <2>3
    <3>2. r.topic_map[m] \in TopicIdx /\ r.topic_map[m] \notin {r.topic_map[p], r.topic_map[q]}
      BY <1>1, <2>2, <2>4, <3>1, RegistryFields DEF TablesInv, OneNamePerIndex
    <3> QED
      BY <2>2, <3>1, <3>2
  <2>5. \A j \in TopicIdx : s.topics[j] \in {r.topics[j], None}
    BY <2>2
  <2>6. r.next <= s.next
    BY <1>1, <2>2
  <2> QED
    BY <2>4, <2>5, <2>6 DEF ListingsKept, s
<1>5. CASE ~Removable(r, i)
  <2>1. /\ s.topics = [j \in TopicIdx |-> IF j = i THEN None ELSE r.topics[j]]
        /\ \A m \in Names : s.topic_map[m] # r.topic_map[m] =>
             /\ r.topics[i] \in Names
             /\ ~IsMeta(r.topics[i])
             /\ m = MetaName("$pub", r.topics[i])
        /\ s.publishers = r.publishers
        /\ s.next = r.next
    BY <1>1, <1>5, HalfRemovedTables
  <2> HIDE DEF s
  <2>2. \A m \in ListingNames : s.topic_map[m] = r.topic_map[m]
    BY <1>2, <1>3, <2>1
  <2>3. \A j \in TopicIdx : s.topics[j] \in {r.topics[j], None}
    BY <2>1
  <2>4. r.next <= s.next
    BY <1>1, <2>1
  <2> QED
    BY <2>1, <2>2, <2>3, <2>4 DEF ListingsKept, s
<1> QED
  BY <1>4, <1>5

\* Giving up a publisher lowers a count, and may then take the topic out.
LEMMA ReleasedTables ==
  ASSUME NEW r, RegistryInv(r), NEW i \in TopicIdx, r.pub_count[i] # None
  PROVE  \E r1 : /\ TablesInv(r1)
                 /\ r1.topics = r.topics /\ r1.topic_map = r.topic_map
                 /\ r1.publishers = r.publishers /\ r1.next = r.next
                 /\ ReleaseTopic(r, i) \in {r1, RemoveTopic(r1, i)}
<1> DEFINE left == Decremented(r.pub_count[i])
           r1   == [r EXCEPT !.pub_count[i] = left]
<1>1. r \in Registry
  BY DEF RegistryInv, TablesInv
<1>2. left \in 0 .. MaxU16
  BY <1>1, RegistryFields, DecrementedFacts
<1> HIDE DEF left
<1>3. r1 \in Registry
  BY <1>1, <1>2 DEF Registry
<1>4. /\ r1.topics = r.topics /\ r1.topic_map = r.topic_map
      /\ r1.topic_sub_map = r.topic_sub_map /\ r1.valued = r.valued /\ r1.next = r.next
      /\ r1.publishers = r.publishers
      /\ r1.pub_count = [r.pub_count EXCEPT ![i] = left]
  BY <1>1 DEF Registry
<1>5. ReleaseTopic(r, i) = IF left = 0 THEN RemoveTopic(r1, i) ELSE r1
  BY DEF ReleaseTopic, left, r1
<1> HIDE DEF r1
<1>6. Shrunk(r, r1)
  BY <1>1, <1>4, RegistryFields DEF Shrunk
<1>7. TablesInv(r1)
  BY <1>3, <1>4, <1>6, TakeOutInv DEF RegistryInv
<1> QED
  BY <1>4, <1>5, <1>7

\* Giving up a publisher keeps the listings.
LEMMA ReleaseTopicListings ==
  ASSUME NEW r, RegistryInv(r), NEW i \in TopicIdx, r.pub_count[i] # None
  PROVE  ListingsKept(r, ReleaseTopic(r, i))
<1>1. r \in Registry /\ r.next \in Nat
  BY RegistryFields, RegistryAssumption DEF RegistryInv, TablesInv
<1>2. PICK r1 : /\ TablesInv(r1)
                /\ r1.topics = r.topics /\ r1.topic_map = r.topic_map
                /\ r1.publishers = r.publishers /\ r1.next = r.next
                /\ ReleaseTopic(r, i) \in {r1, RemoveTopic(r1, i)}
  BY ReleasedTables
<1>3. ListingsKept(r, r1)
  BY <1>1, <1>2 DEF ListingsKept
<1>4. ListingsKept(r1, RemoveTopic(r1, i)) /\ RemoveTopic(r1, i) \in Registry /\ r1 \in Registry
  BY <1>2, RemoveTopicListings, RemoveTopicInv DEF TablesInv
<1>5. ListingsKept(r, RemoveTopic(r1, i))
  BY <1>1, <1>3, <1>4, ListingsKeptTwice, RegistryUnbounded
<1> QED
  BY <1>2, <1>3, <1>5

\* add_topic with its metatopics keeps the listings, wherever it stops.
LEMMA AddTopicListings ==
  ASSUME reg \in Registry, NEW n \in Names, NEW fl \in SUBSET Flags,
         NEW add \in AddTopic(n, fl)
  PROVE  ListingsKept(reg, add.reg)
<1> DEFINE p       == MetaName("$pub", n)
           q       == MetaName("$sub", n)
           added   == EnsureTopic(reg, n, fl)
           withPub == EnsureTopic(added, p, {})
           withSub == EnsureTopic(withPub, q, {})
<1>1. reg \in Unbounded /\ added \in Unbounded /\ ListingsKept(reg, added)
  BY RegistryUnbounded, EnsureTopicListings
<1>2. CASE reg.topic_map[n] # None \/ IsMeta(n)
  <2>1. add = [reg |-> added, sent |-> {}, ok |-> TRUE]
    BY <1>2 DEF AddTopic
  <2> QED
    BY <1>1, <2>1
<1>3. CASE reg.topic_map[n] = None /\ ~IsMeta(n)
  <2>1. p \in Names /\ q \in Names
    BY <1>3, NameFacts
  <2>2. add.reg \in {withPub, withSub}
    BY <1>3 DEF AddTopic
  <2> HIDE DEF p, q, added
  <2>3. withPub \in Unbounded /\ ListingsKept(added, withPub)
    BY <1>1, <2>1, EnsureTopicListings
  <2>4. ListingsKept(reg, withPub)
    BY <1>1, <2>3, ListingsKeptTwice
  <2> HIDE DEF withPub
  <2>5. withSub \in Unbounded /\ ListingsKept(withPub, withSub)
    BY <2>1, <2>3, EnsureTopicListings
  <2>6. ListingsKept(reg, withSub)
    BY <1>1, <2>3, <2>4, <2>5, ListingsKeptTwice
  <2> HIDE DEF withSub
  <2> QED
    BY <2>2, <2>4, <2>6
<1> QED
  BY <1>2, <1>3

\* So does a publish, up to the registration of its pubuid.
LEMMA OutcomeListings ==
  ASSUME reg \in Registry, NEW c, NEW n \in Names, NEW fl \in SUBSET Flags,
         NEW out \in PublishOutcomes(c, n, fl)
  PROVE  ListingsKept(reg, out.reg)
<1>1. PICK add \in AddTopic(n, fl) : out.reg = add.reg
  BY DEF PublishOutcomes
<1> QED
  BY <1>1, AddTopicListings

--------------------------------------------------------------------------------

\* A client that is there finds its own listing under a name of its own.
LEMMA ListingOf ==
  ASSUME IInv, ListingsInv, NEW c \in connected
  PROVE  \E m \in ListingNames :
           /\ reg.topic_map[m] = PublisherMeta(c)
           /\ PublisherMeta(c) \in TopicIdx
           /\ m = IF c = SERVER_CLIENT_IDX THEN <<"$serverpub", "server">>
                  ELSE ClientMeta("$clientpub", names[c])
<1>1. PublisherMeta(c) \in TopicIdx
  BY PublisherMetaFacts
<1>2. CASE c = SERVER_CLIENT_IDX
  BY <1>1, <1>2 DEF ListingsInv, MetasNamed, PublisherMeta, ListingNames, ServerMetas
<1>3. CASE c # SERVER_CLIENT_IDX
  <2>1. PICK m : m = ClientMeta("$clientpub", names[c])
    OBVIOUS
  <2>2. reg.topic_map[m] = PublisherMeta(c)
    BY <1>3, <2>1 DEF ListingsInv, MetasNamed, PublisherMeta
  <2>3. names[c] \in ClientNames
    BY <1>3 DEF IInv, TypeOK, ListingsInv, MetasNamed
  <2>4. m \in ListingNames
    BY <2>1, <2>3 DEF ClientMeta, ListingNames, ClientMetas
  <2> QED
    BY <1>1, <1>3, <2>1, <2>2, <2>4
<1> QED
  BY <1>2, <1>3

\* A client that shares its name with nobody shares its listing with nobody.
LEMMA ListingsApart ==
  ASSUME IInv, ListingsInv, NEW c \in connected, NEW d \in connected, NameOfItsOwn(c),
         PublisherMeta(c) = PublisherMeta(d)
  PROVE  c = d
<1>1. PICK m \in ListingNames :
        /\ reg.topic_map[m] = PublisherMeta(c)
        /\ PublisherMeta(c) \in TopicIdx
        /\ m = IF c = SERVER_CLIENT_IDX THEN <<"$serverpub", "server">>
               ELSE ClientMeta("$clientpub", names[c])
  BY ListingOf
<1>2. PICK l \in ListingNames :
        /\ reg.topic_map[l] = PublisherMeta(d)
        /\ PublisherMeta(d) \in TopicIdx
        /\ l = IF d = SERVER_CLIENT_IDX THEN <<"$serverpub", "server">>
               ELSE ClientMeta("$clientpub", names[d])
  BY ListingOf
<1>3. m \in Names /\ l \in Names
  BY DEF ListingNames, Names
<1>4. m = l
  BY <1>1, <1>2, <1>3, NoneIsNothing DEF IInv, RegistryInv, TablesInv, OneNamePerIndex
<1>5. c = SERVER_CLIENT_IDX <=> d = SERVER_CLIENT_IDX
  BY <1>1, <1>2, <1>4 DEF ClientMeta
<1>6. CASE c # SERVER_CLIENT_IDX
  <2>1. /\ names[c] \in ClientNames
        /\ names[d] \in ClientNames
    BY <1>5, <1>6 DEF IInv, TypeOK, ListingsInv, MetasNamed
  <2>2. names[c] = names[d]
    BY <1>1, <1>2, <1>4, <1>5, <1>6, <2>1 DEF ClientMeta
  <2>3. d \in 1 .. (next_client - 1)
    <3>1. d \in 0 .. (next_client - 1) /\ d # 0
      BY <1>5, <1>6 DEF ListingsInv, ClientsNumbered, SERVER_CLIENT_IDX
    <3> QED
      BY <3>1
  <2> QED
    BY <1>6, <2>2, <2>3 DEF NameOfItsOwn
<1> QED
  BY <1>5, <1>6

\* Steps that connect nobody keep who has which name and which metatopic.
LEMMA PeopleListings ==
  ASSUME IInv, ListingsInv, NEW r, ListingsKept(reg, r),
         reg'.topic_map = r.topic_map, reg'.next = r.next, r.next \in Nat,
         connected' \subseteq connected, UNCHANGED <<next_client, names>>,
         \A c \in connected' \ {SERVER_CLIENT_IDX} : metatopics'[c] = metatopics[c],
         leaving' # None => leaving'.client \in 0 .. (next_client - 1),
         \A c \in ClientIdx, x \in PubUIDs : pubs'[c][x] # None =>
           pubs'[c][x] = pubs[c][x] \/ (c < next_client /\ pubs'[c][x] < r.next)
  PROVE  ClientsNumbered' /\ MetasNamed'
<1>1. /\ next_client \in Nat /\ reg.next \in Nat /\ reg.next <= r.next
      /\ TopicIdx \subseteq Nat
  BY RegistryAssumption, RegistryFields DEF IInv, TypeOK, TopicIdx, ListingsKept
<1>2. ClientsNumbered'
  <2>1. connected' \subseteq 0 .. (next_client' - 1)
    BY DEF ListingsInv, ClientsNumbered
  <2>2. ASSUME NEW c \in ClientIdx, NEW x \in PubUIDs, pubs'[c][x] # None
        PROVE  c < next_client /\ pubs'[c][x] < r.next
    <3>1. PICK v : v = pubs'[c][x]
      OBVIOUS
    <3>2. CASE v = pubs[c][x]
      <4>1. c < next_client /\ v < reg.next
        BY <2>2, <3>1, <3>2 DEF ListingsInv, ClientsNumbered
      <4>2. pubs[c][x] \in TopicIdx \cup {None}
        BY DEF IInv, TypeOK
      <4>3. v \in Nat
        BY <1>1, <2>2, <3>1, <3>2, <4>2
      <4> QED
        BY <1>1, <3>1, <4>1, <4>3
    <3> QED
      BY <2>2, <3>1, <3>2
  <2> QED
    BY <2>1, <2>2 DEF ClientsNumbered
<1>3. MetasNamed'
  <2>1. ASSUME NEW m \in ListingNames, reg.topic_map[m] \in TopicIdx
        PROVE  reg'.topic_map[m] = reg.topic_map[m]
    BY <2>1, NoneIsNothing DEF ListingsKept
  <2>2. <<"$serverpub", "server">> \in ListingNames /\ SERVER_PUB_METATOPIC \in TopicIdx
    BY RegistryAssumption DEF ListingNames, ServerMetas, SERVER_PUB_METATOPIC, TopicIdx
  <2>3. reg'.topic_map[<<"$serverpub", "server">>] = SERVER_PUB_METATOPIC
    BY <2>1, <2>2 DEF ListingsInv, MetasNamed
  <2>4. ASSUME NEW c \in connected \ {SERVER_CLIENT_IDX}
        PROVE  reg'.topic_map[ClientMeta("$clientpub", names[c])] = metatopics[c][1]
    <3>1. names[c] \in ClientNames
      BY DEF IInv, TypeOK, ListingsInv, MetasNamed
    <3>2. PICK m : m = ClientMeta("$clientpub", names[c])
      OBVIOUS
    <3>3. m \in ListingNames
      BY <3>1, <3>2 DEF ClientMeta, ListingNames, ClientMetas
    <3>4. metatopics[c][1] \in TopicIdx /\ reg.topic_map[m] = metatopics[c][1]
      BY <3>2 DEF IInv, ClientsHaveMetas, ListingsInv, MetasNamed
    <3> QED
      BY <2>1, <3>2, <3>3, <3>4
  <2>5. \A c \in connected \ {SERVER_CLIENT_IDX} : names[c] \in ClientNames
    BY DEF ListingsInv, MetasNamed
  <2> QED
    BY <2>3, <2>4, <2>5 DEF MetasNamed
<1> QED
  BY <1>2, <1>3

\* What was listed for a client that is there still is, in tables that keep the
\* listings.
LEMMA StillListed ==
  ASSUME IInv, ListingsInv, NEW r, ListingsKept(reg, r),
         NEW c \in connected, NameOfItsOwn(c), NEW u \in PubUIDs, NEW i, i = pubs[c][u],
         i # None, r.topics[i] # None
  PROVE  /\ r.topics[i] = reg.topics[i]
         /\ <<r.topics[i], u>> \in r.publishers[PublisherMeta(c)]
<1>1. i \in TopicIdx /\ i < reg.next
  BY DEF IInv, TypeOK, ListingsInv, ClientsNumbered
<1>2. r.topics[i] = reg.topics[i]
  BY <1>1 DEF ListingsKept
<1>4. <<reg.topics[i], u>> \in reg.publishers[PublisherMeta(c)]
  BY <1>2 DEF ListingsInv, PublicationsListed
<1>5. PICK m \in ListingNames :
        reg.topic_map[m] = PublisherMeta(c) /\ PublisherMeta(c) \in TopicIdx
  BY ListingOf
<1>6. r.publishers[PublisherMeta(c)] = reg.publishers[PublisherMeta(c)]
  BY <1>5, NoneIsNothing DEF ListingsKept
<1> QED
  BY <1>2, <1>4, <1>6

\* Steps that connect nobody give nobody's name away.
LEMMA SameNames ==
  ASSUME UNCHANGED <<next_client, names>>, NEW c, NameOfItsOwn(c)'
  PROVE  NameOfItsOwn(c)
BY DEF NameOfItsOwn

\* Steps that connect nobody, publish nothing and take no entry out of a list.
LEMMA QuietListings ==
  ASSUME IInv, ListingsInv, ListingsKept(reg, reg'), reg'.next \in Nat,
         connected' \subseteq connected, UNCHANGED <<next_client, names>>,
         \A c \in connected' \ {SERVER_CLIENT_IDX} : metatopics'[c] = metatopics[c],
         leaving' # None => leaving'.client \in 0 .. (next_client - 1),
         \A c \in ClientIdx, x \in PubUIDs : pubs'[c][x] \in {pubs[c][x], None}
  PROVE  ListingsInv'
<1>1. PICK r : r = reg'
  OBVIOUS
<1>2. ClientsNumbered' /\ MetasNamed'
  <2>1. \A c \in ClientIdx, x \in PubUIDs : pubs'[c][x] # None => pubs'[c][x] = pubs[c][x]
    OBVIOUS
  <2> QED
    BY <1>1, <2>1, PeopleListings
<1>3. PublicationsListed'
  <2>1. SUFFICES ASSUME NEW c \in connected, c \in connected', NameOfItsOwn(c),
                        NEW u \in PubUIDs,
                        pubs'[c][u] # None, r.topics[pubs'[c][u]] # None
                 PROVE  <<r.topics[pubs'[c][u]], u>> \in r.publishers[PublisherMeta(c)']
    BY <1>1, SameNames DEF PublicationsListed
  <2>2. PICK i : i = pubs'[c][u]
    OBVIOUS
  <2>3. i = pubs[c][u]
    BY <2>1, <2>2 DEF IInv, TypeOK
  <2>4. <<r.topics[i], u>> \in r.publishers[PublisherMeta(c)]
    BY <1>1, <2>1, <2>2, <2>3, StillListed
  <2>5. PublisherMeta(c)' = PublisherMeta(c)
    BY <2>1 DEF PublisherMeta
  <2> QED
    BY <2>2, <2>4, <2>5
<1> QED
  BY <1>2, <1>3 DEF ListingsInv

\* A publish that registers its pubuid lists it under the client's metatopic.
LEMMA PublishListings ==
  ASSUME IInv, IInv', ListingsInv, NEW c \in ClientIdx, NEW u \in PubUIDs, NEW n \in Names,
         NEW out, out.reg \in Registry, out.ok \in BOOLEAN, out.ok => c \in connected,
         ListingsKept(reg, out.reg), out.reg.topic_map[n] \in TopicIdx,
         PublishWith(c, u, n, out), UNCHANGED <<clientVars, connected, taskVars>>
  PROVE  ListingsInv'
<1> DEFINE m == PublisherMeta(c)
<1>1. PICK i : i = out.reg.topic_map[n]
  OBVIOUS
<1>2. /\ reg' = IF out.ok
                THEN [out.reg EXCEPT !.publishers[m] = @ \cup {<<n, u>>}]
                ELSE out.reg
      /\ pubs' = IF out.ok THEN [pubs EXCEPT ![c][u] = i] ELSE pubs
      /\ UNCHANGED <<next_client, names, metatopics, leaving, connected>>
  BY <1>1 DEF PublishWith, clientVars, taskVars
<1> HIDE DEF m
<1>3. out.reg.next \in Nat
  BY RegistryFields, RegistryAssumption
<1>4. leaving' # None => leaving'.client \in 0 .. (next_client - 1)
  BY <1>2 DEF ListingsInv, ClientsNumbered
<1>5. CASE ~out.ok
  <2>1. reg' = out.reg /\ pubs' = pubs
    BY <1>2, <1>5
  <2> QED
    BY <1>2, <1>3, <1>4, <2>1, QuietListings
<1>6. CASE out.ok
  <2>1. /\ reg' = [out.reg EXCEPT !.publishers[m] = @ \cup {<<n, u>>}]
        /\ pubs' = [pubs EXCEPT ![c][u] = i]
        /\ c \in connected
    BY <1>2, <1>6
  <2>2. /\ reg'.topics = out.reg.topics /\ reg'.topic_map = out.reg.topic_map
        /\ reg'.next = out.reg.next
        /\ reg'.publishers = [out.reg.publishers EXCEPT ![m] = @ \cup {<<n, u>>}]
    BY <2>1 DEF Registry
  <2>3. i \in TopicIdx /\ i < reg'.next /\ c < next_client
    <3>1. i < reg'.next
      BY <1>1, <2>2, NoneIsNothing DEF IInv, RegistryInv, TablesInv, OnlyHandedOut
    <3>2. c < next_client
      BY <2>1 DEF ListingsInv, ClientsNumbered, IInv, TypeOK
    <3> QED
      BY <1>1, <3>1, <3>2
  <2>4. ASSUME NEW d \in ClientIdx, NEW x \in PubUIDs
        PROVE  pubs'[d][x] = IF d = c /\ x = u THEN i ELSE pubs[d][x]
    BY <2>1 DEF IInv, TypeOK
  <2>5. ClientsNumbered' /\ MetasNamed'
    <3>1. \A d \in ClientIdx, x \in PubUIDs : pubs'[d][x] # None =>
            pubs'[d][x] = pubs[d][x] \/ (d < next_client /\ pubs'[d][x] < out.reg.next)
      BY <2>2, <2>3, <2>4
    <3> QED
      BY <1>2, <1>3, <1>4, <2>2, <3>1, PeopleListings
  <2>6. PublicationsListed'
    <3>1. PICK r : r = reg'
      OBVIOUS
    <3>2. SUFFICES ASSUME NEW d \in connected, NameOfItsOwn(d), NEW x \in PubUIDs,
                          pubs'[d][x] # None, r.topics[pubs'[d][x]] # None
                   PROVE  <<r.topics[pubs'[d][x]], x>> \in r.publishers[PublisherMeta(d)']
      BY <1>2, <3>1, SameNames DEF PublicationsListed
    <3>d. d \in ClientIdx
      BY DEF IInv, TypeOK
    <3>3. PICK j : j = pubs'[d][x]
      OBVIOUS
    <3>4. PublisherMeta(d)' = PublisherMeta(d)
      BY <1>2 DEF PublisherMeta
    <3>5. m \in TopicIdx
      BY <2>1, PublisherMetaFacts DEF m
    <3>6. \A k \in TopicIdx : out.reg.publishers[k] \subseteq r.publishers[k]
      BY <2>2, <3>1, <3>5, RegistryFields
    <3>7. CASE d = c /\ x = u
      <4>1. j = i
        BY <2>4, <3>3, <3>7
      <4>2. r.topics[j] = n
        BY <1>1, <2>2, <2>3, <3>1, <3>2, <3>3, <4>1, NoneIsNothing
           DEF IInv, RegistryInv, TablesInv, NamesAgree
      <4>3. <<n, u>> \in r.publishers[m]
        BY <2>2, <3>1, <3>5, RegistryFields
      <4> QED
        BY <3>3, <3>4, <3>7, <4>2, <4>3 DEF m
    <3>8. CASE ~(d = c /\ x = u)
      <4>1. j = pubs[d][x]
        BY <2>4, <3>3, <3>8, <3>d
      <4>2. r.topics = out.reg.topics
        BY <2>2, <3>1
      <4>3. <<r.topics[j], x>> \in out.reg.publishers[PublisherMeta(d)]
        BY <3>2, <3>3, <4>1, <4>2, StillListed
      <4>4. PublisherMeta(d) \in TopicIdx
        BY PublisherMetaFacts
      <4> QED
        BY <3>3, <3>4, <3>6, <4>3, <4>4
    <3> QED
      BY <3>7, <3>8
  <2> QED
    BY <2>5, <2>6 DEF ListingsInv
<1> QED
  BY <1>5, <1>6

\* A publish message.
LEMMA PublishMessageListings ==
  ASSUME IInv, IInv', ListingsInv, NEW c \in ClientIdx, NEW u \in PubUIDs,
         NEW n \in PublishNames, NEW fl \in PublishFlags, Publish(c, u, n, fl)
  PROVE  ListingsInv'
<1>1. PICK out \in PublishOutcomes(c, n, fl) : PublishWith(c, u, n, out)
  BY DEF Publish
<1>2. RoomFor(n) /\ UNCHANGED <<clientVars, connected, taskVars>>
  BY DEF Publish
<1>3. n \in Names /\ fl \in SUBSET Flags
  BY ServerAssumption
<1>4. /\ out \in [reg : Registry, sent : SUBSET (ClientIdx \X TopicIdx), ok : BOOLEAN]
      /\ ListsIn(out.reg, Known) /\ out.reg.topic_map[n] \in TopicIdx
      /\ out.ok => c \in connected
  BY <1>2, <1>3, PublishOutcomesFacts DEF IInv, TypeOK
<1>5. ListingsKept(reg, out.reg)
  BY <1>3, OutcomeListings DEF IInv, TypeOK
<1> QED
  BY <1>1, <1>2, <1>3, <1>4, <1>5, PublishListings

\* A publish by the server's own handle: set_value touches no listing.
LEMMA HandlePublishListings ==
  ASSUME IInv, IInv', ListingsInv, NEW u \in PubUIDs, NEW n \in PublishNames,
         NEW fl \in PublishFlags, HandlePublish(u, n, fl)
  PROVE  ListingsInv'
<1> DEFINE c == SERVER_CLIENT_IDX
           Then(out) ==
             [out EXCEPT !.reg = IF out.ok THEN Valued(@, out.reg.topic_map[n]) ELSE @]
<1>1. PICK out \in PublishOutcomes(c, n, fl) : PublishWith(c, u, n, Then(out))
  BY DEF HandlePublish
<1>2. RoomFor(n) /\ UNCHANGED <<clientVars, connected, taskVars>>
  BY DEF HandlePublish
<1>3. n \in Names /\ fl \in SUBSET Flags /\ c \in ClientIdx
  BY ServerAssumption, RegistryAssumption DEF SERVER_CLIENT_IDX, ClientIdx
<1> HIDE DEF c
<1> DEFINE i == out.reg.topic_map[n]
<1>4. /\ out \in [reg : Registry, sent : SUBSET (ClientIdx \X TopicIdx), ok : BOOLEAN]
      /\ RegistryInv(out.reg) /\ ListsIn(out.reg, Known) /\ i \in TopicIdx
      /\ out.ok => c \in connected
  BY <1>2, <1>3, PublishOutcomesFacts DEF IInv, TypeOK
<1> HIDE DEF i
<1>5. ListingsKept(reg, out.reg)
  BY <1>3, OutcomeListings DEF IInv, TypeOK
<1> DEFINE then == Then(out)
<1>6. /\ then.reg = (IF out.ok THEN Valued(out.reg, i) ELSE out.reg)
      /\ then.ok = out.ok
  BY <1>4 DEF i
<1> HIDE DEF Then
<1>7. PublishWith(c, u, n, then)
  BY <1>1
<1> HIDE DEF then
<1>8. /\ then.reg \in Registry
      /\ then.reg.topics = out.reg.topics /\ then.reg.topic_map = out.reg.topic_map
      /\ then.reg.publishers = out.reg.publishers /\ then.reg.next = out.reg.next
  <2>1. then.reg \in Registry
    BY <1>4, <1>6, ValuedFacts DEF RegistryInv, TablesInv
  <2>2. out.reg \in Registry
    BY <1>4
  <2> QED
    BY <1>6, <2>1, <2>2 DEF Valued, Registry
<1>9. ListingsKept(reg, then.reg)
  BY <1>5, <1>8 DEF ListingsKept
<1>10. then.ok \in BOOLEAN /\ (then.ok => c \in connected) /\ then.reg.topic_map[n] \in TopicIdx
  BY <1>4, <1>6, <1>8 DEF i
<1> QED
  BY <1>2, <1>3, <1>7, <1>8, <1>9, <1>10, PublishListings

\* inner_unpublish_topic takes an entry out of the client's own listing only.
LEMMA UnpublishListings ==
  ASSUME IInv, IInv', ListingsInv, NEW c \in ClientIdx, NEW u \in PubUIDs, Unpublish(c, u)
  PROVE  ListingsInv'
<1> DEFINE i    == pubs[c][u]
           m    == PublisherMeta(c)
           name == reg.topics[i]
           r1   == ReleaseTopic(reg, i)
           r2   == IF reg.pub_count[i] = 1 THEN [r1 EXCEPT !.pub_count[i] = None] ELSE r1
           r3   == [r2 EXCEPT !.publishers[m] = @ \ {<<name, u>>}]
<1>1. /\ i # None
      /\ c \in connected
      /\ pubs' = [pubs EXCEPT ![c][u] = None]
      /\ reg' = reg \/ (reg.pub_count[i] # None /\ reg' \in {r1, r3})
      /\ UNCHANGED <<clientVars, connected, leaving>>
  BY DEF Unpublish, Unlisted
<1>2. i \in TopicIdx
  BY <1>1 DEF IInv, TypeOK
<1>3. ASSUME NEW d \in ClientIdx, NEW x \in PubUIDs
      PROVE  pubs'[d][x] = IF d = c /\ x = u THEN None ELSE pubs[d][x]
  BY <1>1 DEF IInv, TypeOK
<1>4. m \in TopicIdx
  BY <1>1, PublisherMetaFacts
<1> HIDE DEF i, m, name
<1>5. UNCHANGED <<next_client, names, metatopics>>
  BY <1>1 DEF clientVars
<1>6. /\ leaving' # None => leaving'.client \in 0 .. (next_client - 1)
      /\ \A d \in ClientIdx, x \in PubUIDs : pubs'[d][x] \in {pubs[d][x], None}
  BY <1>1, <1>3 DEF ListingsInv, ClientsNumbered
<1>7. reg \in Registry /\ reg'.next \in Nat
  BY RegistryFields, RegistryAssumption DEF IInv, TypeOK
<1>8. ListingsKept(reg, reg)
  BY <1>7, RegistryFields, RegistryAssumption DEF ListingsKept
<1>9. reg.pub_count[i] # None => r1 \in Registry /\ ListingsKept(reg, r1)
  BY <1>2, ReleaseTopicListings, ReleaseTopicInv DEF IInv, RegistryInv, TablesInv
<1> HIDE DEF r1
<1>10. CASE reg' = reg \/ (reg.pub_count[i] # None /\ reg' = r1)
  <2>1. ListingsKept(reg, reg')
    BY <1>8, <1>9, <1>10
  <2> QED
    BY <1>1, <1>5, <1>6, <1>7, <2>1, QuietListings
<1>11. CASE reg.pub_count[i] # None /\ reg' = r3
  <2>1. /\ r1 \in Registry /\ ListingsKept(reg, r1)
    BY <1>9, <1>11
  <2>2. /\ reg'.topics = r1.topics /\ reg'.topic_map = r1.topic_map /\ reg'.next = r1.next
        /\ reg'.publishers = [r1.publishers EXCEPT ![m] = @ \ {<<name, u>>}]
    BY <1>11, <2>1 DEF Registry
  <2>3. ClientsNumbered' /\ MetasNamed'
    <3>1. \A d \in ClientIdx, x \in PubUIDs : pubs'[d][x] # None => pubs'[d][x] = pubs[d][x]
      BY <1>6
    <3>2. r1.next \in Nat
      BY <1>7, <2>2
    <3> QED
      BY <1>1, <1>5, <1>6, <2>1, <2>2, <3>1, <3>2, PeopleListings
  <2>4. PublicationsListed'
    <3>1. PICK r : r = reg'
      OBVIOUS
    <3>2. SUFFICES ASSUME NEW d \in connected, NameOfItsOwn(d), NEW x \in PubUIDs,
                          pubs'[d][x] # None, r.topics[pubs'[d][x]] # None
                   PROVE  <<r.topics[pubs'[d][x]], x>> \in r.publishers[PublisherMeta(d)']
      BY <1>1, <1>5, <3>1, SameNames DEF PublicationsListed
    <3>d. d \in ClientIdx
      BY DEF IInv, TypeOK
    <3>3. PICK j : j = pubs'[d][x]
      OBVIOUS
    <3>4. PublisherMeta(d)' = PublisherMeta(d)
      BY <1>5 DEF PublisherMeta
    <3>5. j = pubs[d][x] /\ ~(d = c /\ x = u)
      BY <1>3, <3>2, <3>3, <3>d
    <3>6. r.topics = r1.topics
      BY <2>2, <3>1
    <3>7. <<r.topics[j], x>> \in r1.publishers[PublisherMeta(d)]
      BY <2>1, <3>2, <3>3, <3>5, <3>6, StillListed
    <3>8. PICK k : k = PublisherMeta(d)
      OBVIOUS
    <3>9. k \in TopicIdx
      BY <3>8, PublisherMetaFacts
    <3>10. x # u \/ k # m
      BY <1>1, <3>2, <3>5, <3>8, ListingsApart DEF m
    <3>11. r.publishers[k] = IF k = m THEN r1.publishers[m] \ {<<name, u>>} ELSE r1.publishers[k]
      BY <1>4, <2>1, <2>2, <3>1, <3>9, RegistryFields
    <3>12. <<r.topics[j], x>> \in r.publishers[k]
      BY <3>7, <3>8, <3>10, <3>11
    <3> QED
      BY <3>3, <3>4, <3>8, <3>12
  <2> QED
    BY <2>3, <2>4 DEF ListingsInv
<1> QED
  BY <1>1, <1>10, <1>11

\* A new client publishes nothing yet, and takes no other client's listing away.
LEMMA ConnectListings ==
  ASSUME IInv, IInv', ListingsInv, NEW asked \in AskedNames, Connect(asked)
  PROVE  /\ ListingsInv' /\ ListingsKept(reg, reg')
         /\ Everyone' => Everyone
<1> DEFINE c    == next_client
           same == {d \in connected \ {SERVER_CLIENT_IDX} : names[d] \in NamesContaining[asked]}
           name == ClientName(asked, Cardinality(same))
           p    == ClientMeta("$clientpub", name)
           q    == ClientMeta("$clientsub", name)
           r1   == EnsureTopic(reg, p, {})
           r2   == EnsureTopic(r1, q, {})
<1>1. /\ c \in ClientIdx /\ c \in Nat /\ c >= 1
      /\ reg.next \in Nat /\ MaxTopics \in Nat /\ reg.next + 2 <= MaxTopics
      /\ reg \in Registry
  <2>1. c < MaxClients /\ reg.next + 2 <= MaxTopics
    BY DEF Connect, Room
  <2>2. c \in 1 .. MaxClients /\ reg \in Registry
    BY DEF IInv, TypeOK
  <2>3. reg.next \in Nat
    BY <2>2, RegistryFields, RegistryAssumption
  <2> QED
    BY <2>1, <2>2, <2>3, RegistryAssumption DEF ClientIdx
<1>2. /\ reg' = r2
      /\ next_client' = c + 1
      /\ connected' = connected \cup {c}
      /\ names' = [names EXCEPT ![c] = name]
      /\ clients_mte' = clients_mte \cup {name}
      /\ metatopics' = [metatopics EXCEPT ![c] = <<r2.topic_map[p], r2.topic_map[q]>>]
      /\ leaving = None /\ leaving' = None
      /\ UNCHANGED pubs
  BY DEF Connect, ClientsFree, taskVars
<1> HIDE DEF same
<1> HIDE DEF name
<1>4. name \in ClientNames
  BY <1>2 DEF IInv, TypeOK
<1>5. p \in ListingNames /\ q \in ListingNames /\ p # q
  BY <1>4 DEF ClientMeta, ListingNames, ClientMetas
<1>a. ListingNames \subseteq Names
  BY DEF ListingNames, Names
<1>8. r1 \in Unbounded /\ ListingsKept(reg, r1) /\ reg \in Unbounded
  BY <1>1, <1>5, <1>a, RegistryUnbounded, EnsureTopicListings
<1>9. /\ RegistryInv(r1) /\ r1.topic_map[p] \in TopicIdx /\ r1.next <= reg.next + 1
  BY <1>1, <1>5, <1>a, EnsureTopicInv DEF IInv
<1> HIDE DEF p, q, r1
<1>10. r2 \in Unbounded /\ ListingsKept(r1, r2)
  BY <1>5, <1>8, <1>a, EnsureTopicListings
<1> HIDE DEF r2
<1>11. ListingsKept(reg, reg')
  BY <1>2, <1>8, <1>10, ListingsKeptTwice
<1>12. reg' \in Registry /\ reg'.next \in Nat
  BY RegistryFields, RegistryAssumption DEF IInv, TypeOK
<1>13. reg.next <= reg'.next
  BY <1>11 DEF ListingsKept
<1>14. c \notin connected /\ \A d \in connected : d \in ClientIdx /\ d < c
  <2>1. connected \subseteq ClientIdx
    BY DEF IInv, TypeOK
  <2>2. connected \subseteq 0 .. (c - 1)
    BY DEF ListingsInv, ClientsNumbered
  <2> QED
    BY <1>1, <2>1, <2>2
<1>15. /\ \A d \in connected : names'[d] = names[d] /\ metatopics'[d] = metatopics[d]
       /\ names'[c] = name /\ metatopics'[c] = <<r2.topic_map[p], r2.topic_map[q]>>
  BY <1>1, <1>2, <1>14 DEF IInv, TypeOK
<1>16. ClientsNumbered'
  <2>1. connected' \subseteq 0 .. (next_client' - 1)
    BY <1>1, <1>2, <1>14 DEF ListingsInv, ClientsNumbered
  <2>2. ASSUME NEW d \in ClientIdx, NEW x \in PubUIDs, pubs'[d][x] # None
        PROVE  d < next_client' /\ pubs'[d][x] < reg'.next
    <3>1. PICK v : v = pubs[d][x]
      OBVIOUS
    <3>2. d < c /\ v < reg.next
      BY <1>2, <2>2, <3>1 DEF ListingsInv, ClientsNumbered
    <3>3. v \in Nat /\ d \in Nat
      <4>1. pubs[d][x] \in TopicIdx \cup {None}
        BY DEF IInv, TypeOK
      <4>2. TopicIdx \subseteq Nat /\ ClientIdx \subseteq Nat
        BY RegistryAssumption DEF TopicIdx, ClientIdx
      <4> QED
        BY <1>2, <2>2, <3>1, <4>1, <4>2
    <3>4. v < reg'.next /\ d < c + 1
      BY <1>1, <1>12, <1>13, <3>2, <3>3
    <3> QED
      BY <1>2, <3>1, <3>4
  <2> QED
    BY <1>2, <2>1, <2>2 DEF ClientsNumbered
<1>17. MetasNamed'
  <2>1. ASSUME NEW m \in ListingNames, reg.topic_map[m] \in TopicIdx
        PROVE  reg'.topic_map[m] = reg.topic_map[m]
    BY <1>11, <2>1, NoneIsNothing DEF ListingsKept
  <2>2. <<"$serverpub", "server">> \in ListingNames /\ SERVER_PUB_METATOPIC \in TopicIdx
    BY RegistryAssumption DEF ListingNames, ServerMetas, SERVER_PUB_METATOPIC, TopicIdx
  <2>3. reg'.topic_map[<<"$serverpub", "server">>] = SERVER_PUB_METATOPIC
    BY <2>1, <2>2 DEF ListingsInv, MetasNamed
  <2>4. ASSUME NEW d \in connected \ {SERVER_CLIENT_IDX}
        PROVE  /\ reg'.topic_map[ClientMeta("$clientpub", names'[d])] = metatopics'[d][1]
               /\ names'[d] \in ClientNames
    <3>1. names[d] \in ClientNames
      BY DEF IInv, TypeOK, ListingsInv, MetasNamed
    <3>2. PICK m : m = ClientMeta("$clientpub", names[d])
      OBVIOUS
    <3>3. m \in ListingNames
      BY <3>1, <3>2 DEF ClientMeta, ListingNames, ClientMetas
    <3>4. metatopics[d][1] \in TopicIdx /\ reg.topic_map[m] = metatopics[d][1]
      BY <3>2 DEF IInv, ClientsHaveMetas, ListingsInv, MetasNamed
    <3> QED
      BY <1>15, <2>1, <3>1, <3>2, <3>3, <3>4
  <2>5. /\ reg'.topic_map[ClientMeta("$clientpub", names'[c])] = metatopics'[c][1]
        /\ names'[c] \in ClientNames
    <3>1. reg'.topic_map[p] = metatopics'[c][1] /\ p = ClientMeta("$clientpub", names'[c])
      BY <1>2, <1>15 DEF p
    <3> QED
      BY <1>4, <1>15, <3>1
  <2> QED
    BY <1>2, <2>3, <2>4, <2>5 DEF MetasNamed

<1>18. Everyone' => Everyone
  <2>1. SUFFICES ASSUME Everyone'  PROVE Everyone
    OBVIOUS
  <2>2. connected' = 0 .. c
    BY <1>1, <1>2, <2>1 DEF Everyone
  <2>3. connected = connected' \ {c}
    BY <1>2, <1>14
  <2> QED
    BY <1>1, <2>2, <2>3 DEF Everyone
<1>19. PublicationsListed'
  <2>1. PICK r : r = reg'
    OBVIOUS
  <2>2. SUFFICES ASSUME NEW d \in connected', NameOfItsOwn(d)', NEW x \in PubUIDs,
                        pubs[d][x] # None, r.topics[pubs[d][x]] # None
                 PROVE  <<r.topics[pubs[d][x]], x>> \in r.publishers[PublisherMeta(d)']
    BY <1>2, <2>1 DEF PublicationsListed
  <2>3. PICK j : j = pubs[d][x]
    OBVIOUS
  <2>4. d \in connected
    <3>1. pubs[c][x] = None
      BY <1>1 DEF ListingsInv, ClientsNumbered
    <3> QED
      BY <1>2, <2>2, <3>1
  <2>5. NameOfItsOwn(d)
    <3>1. SUFFICES ASSUME d # SERVER_CLIENT_IDX, NEW e \in 1 .. (c - 1), e # d
                   PROVE  names[e] # names[d]
      BY DEF NameOfItsOwn
    <3>2. e \in ClientIdx /\ e # c /\ e \in 1 .. (next_client' - 1)
      BY <1>1, <1>2, <3>1, RegistryAssumption DEF ClientIdx
    <3>3. names'[e] = names[e] /\ names'[d] = names[d]
      BY <1>2, <1>15, <2>4, <3>2 DEF IInv, TypeOK
    <3> QED
      BY <2>2, <3>1, <3>2, <3>3 DEF NameOfItsOwn
  <2>6. <<r.topics[j], x>> \in r.publishers[PublisherMeta(d)]
    BY <1>11, <2>1, <2>2, <2>3, <2>4, <2>5, StillListed
  <2>7. PublisherMeta(d)' = PublisherMeta(d)
    BY <1>15, <2>4 DEF PublisherMeta
  <2> QED
    BY <2>3, <2>6, <2>7
<1> QED
  BY <1>11, <1>16, <1>17, <1>18, <1>19 DEF ListingsInv

\* The end of a connection, messages about it, and the start of a disconnect.
LEMMA EndingsListings ==
  ASSUME IInv, IInv', ListingsInv, NEW c \in ClientIdx,
         ConnectionEnds(c) \/ CloseDropped(c) \/ CloseHandled(c)
  PROVE  ListingsInv'
<1>1. /\ UNCHANGED <<reg, next_client, names, metatopics, pubs>>
      /\ connected' \subseteq connected
      /\ leaving' # None => leaving' = leaving \/ (leaving'.client = c /\ c \in connected)
  BY DEF ConnectionEnds, CloseDropped, CloseHandled, clientVars
<1>2. reg.next \in Nat
  BY RegistryFields, RegistryAssumption DEF IInv, TypeOK
<1>3. ListingsKept(reg, reg')
  BY <1>1, <1>2 DEF ListingsKept
<1>4. leaving' # None => leaving'.client \in 0 .. (next_client - 1)
  BY <1>1 DEF ListingsInv, ClientsNumbered
<1> QED
  BY <1>1, <1>2, <1>3, <1>4, QuietListings

\* Steps that touch neither listings nor topics nor clients.
LEMMA CalmListings ==
  ASSUME IInv, IInv', ListingsInv,
         reg'.topics = reg.topics, reg'.topic_map = reg.topic_map,
         reg'.publishers = reg.publishers, reg'.next = reg.next,
         UNCHANGED <<clientVars, connected, pubs, leaving>>
  PROVE  ListingsInv'
<1>1. reg.next \in Nat
  BY RegistryFields, RegistryAssumption DEF IInv, TypeOK
<1>2. ListingsKept(reg, reg')
  BY <1>1 DEF ListingsKept
<1>3. UNCHANGED <<next_client, names, metatopics>>
  BY DEF clientVars
<1>4. leaving' # None => leaving'.client \in 0 .. (next_client - 1)
  BY DEF ListingsInv, ClientsNumbered
<1> QED
  BY <1>1, <1>2, <1>3, <1>4, QuietListings

\* Values, properties and subscriptions.
LEMMA AsideListings ==
  ASSUME IInv, IInv', ListingsInv,
         \/ \E c \in ClientIdx, u \in PubUIDs : SetValue(c, u)
         \/ \E n \in PublishNames, p \in PropertyUpdates : SetProperties(n, p[1], p[2])
         \/ \E c \in ClientIdx, w \in SubUIDs, pat \in Patterns : Subscribe(c, w, pat)
         \/ \E c \in ClientIdx, w \in SubUIDs : Unsubscribe(c, w)
         \/ \E s \in SubIdx : SendOut(s)
         \/ UNCHANGED vars
  PROVE  ListingsInv'
<1>1. reg \in Registry
  BY DEF IInv, TypeOK
<1>2. ASSUME NEW c \in ClientIdx, NEW u \in PubUIDs, SetValue(c, u)
      PROVE  ListingsInv'
  <2>1. reg' = Valued(reg, pubs[c][u]) /\ UNCHANGED <<clientVars, connected, pubs, leaving>>
    BY <1>2 DEF SetValue, taskVars
  <2>2. /\ reg'.topics = reg.topics /\ reg'.topic_map = reg.topic_map
        /\ reg'.publishers = reg.publishers /\ reg'.next = reg.next
    BY <1>1, <2>1 DEF Valued, Registry
  <2> QED
    BY <2>1, <2>2, CalmListings
<1>3. ASSUME NEW n \in PublishNames, NEW p \in PropertyUpdates, SetProperties(n, p[1], p[2])
      PROVE  ListingsInv'
  <2>1. /\ reg'.topics = reg.topics /\ reg'.topic_map = reg.topic_map
        /\ reg'.publishers = reg.publishers /\ reg'.next = reg.next
        /\ UNCHANGED <<clientVars, connected, pubs, leaving>>
    BY <1>1, <1>3 DEF SetProperties, taskVars, Registry
  <2> QED
    BY <2>1, CalmListings
<1>4. ASSUME NEW c \in ClientIdx, NEW w \in SubUIDs, NEW pat \in Patterns, Subscribe(c, w, pat)
      PROVE  ListingsInv'
  <2>1. /\ reg'.topics = reg.topics /\ reg'.topic_map = reg.topic_map
        /\ reg'.publishers = reg.publishers /\ reg'.next = reg.next
        /\ UNCHANGED <<clientVars, connected, pubs, leaving>>
    BY <1>1, <1>4 DEF Subscribe, taskVars, Registry
  <2> QED
    BY <2>1, CalmListings
<1>5. ASSUME NEW c \in ClientIdx, NEW w \in SubUIDs, Unsubscribe(c, w)
      PROVE  ListingsInv'
  <2>1. /\ reg'.topics = reg.topics /\ reg'.topic_map = reg.topic_map
        /\ reg'.publishers = reg.publishers /\ reg'.next = reg.next
        /\ UNCHANGED <<clientVars, connected, pubs, leaving>>
    BY <1>1, <1>5 DEF Unsubscribe, taskVars, Registry
  <2> QED
    BY <2>1, CalmListings
<1>6. ASSUME NEW s \in SubIdx, SendOut(s)
      PROVE  ListingsInv'
  <2>1. UNCHANGED <<reg, clientVars, connected, pubs, leaving>>
    BY <1>6 DEF SendOut, taskVars
  <2> QED
    BY <2>1, CalmListings
<1>7. CASE UNCHANGED vars
  <2>1. UNCHANGED <<reg, clientVars, connected, pubs, leaving>>
    BY <1>7 DEF vars, taskVars
  <2> QED
    BY <2>1, CalmListings
<1> QED
  BY <1>2, <1>3, <1>4, <1>5, <1>6, <1>7

\* disconnect_client takes topics out, but no listing.
LEMMA DisconnectListings ==
  ASSUME IInv, IInv', ListingsInv, DisconnectStep \/ DisconnectMetas
  PROVE  ListingsInv' /\ ListingsKept(reg, reg')
<1>1. /\ leaving # None
      /\ UNCHANGED <<next_client, names, connected, pubs>>
      /\ leaving' # None => leaving'.client = leaving.client
  <2>1. CASE DisconnectStep
    <3>1. leaving # None /\ UNCHANGED <<next_client, names, connected, pubs>>
      BY <2>1 DEF DisconnectStep, clientVars
    <3>2. \E u \in leaving.left :
            leaving' = None \/ leaving' = [leaving EXCEPT !.left = @ \ {u}]
      BY <2>1 DEF DisconnectStep
    <3>3. leaving \in [client : ClientIdx, left : SUBSET PubUIDs]
      BY <3>1 DEF IInv, TypeOK
    <3> QED
      BY <3>1, <3>2, <3>3
  <2>2. CASE DisconnectMetas
    BY <2>2 DEF DisconnectMetas
  <2> QED
    BY <2>1, <2>2
<1>2. \A d \in connected : metatopics'[d] = metatopics[d]
  <2>1. CASE DisconnectStep
    BY <2>1 DEF DisconnectStep, clientVars
  <2>2. CASE DisconnectMetas
    <3>1. metatopics' = [metatopics EXCEPT ![leaving.client] = None]
      BY <2>2 DEF DisconnectMetas
    <3>2. leaving.client \notin connected
      BY <1>1 DEF IInv, LeavingSound
    <3> QED
      BY <3>1, <3>2 DEF IInv, TypeOK
  <2> QED
    BY <2>1, <2>2
<1>3. reg \in Registry /\ reg'.next \in Nat /\ reg.next \in Nat
  BY RegistryFields, RegistryAssumption DEF IInv, TypeOK
<1>4. ListingsKept(reg, reg)
  BY <1>3 DEF ListingsKept
<1>5. CASE DisconnectStep
  <2>1. PICK u \in leaving.left :
          LET i == pubs[leaving.client][u]
          IN  reg' = reg \/ (reg.pub_count[i] # None /\ reg' = ReleaseTopic(reg, i))
    BY <1>5 DEF DisconnectStep
  <2>2. PICK i : i = pubs[leaving.client][u]
    OBVIOUS
  <2>3. i \in TopicIdx
    BY <1>1, <2>2 DEF IInv, LeavingSound
  <2>4. reg' = reg \/ (reg.pub_count[i] # None /\ reg' = ReleaseTopic(reg, i))
    BY <2>1, <2>2
  <2>5. ListingsKept(reg, reg')
    BY <1>4, <2>3, <2>4, ReleaseTopicListings DEF IInv
  <2>6. leaving' # None => leaving'.client \in 0 .. (next_client - 1)
    BY <1>1 DEF ListingsInv, ClientsNumbered
  <2> QED
    BY <1>1, <1>2, <1>3, <2>5, <2>6, QuietListings
<1>6. CASE DisconnectMetas
  <2>1. PICK p, q, r1 : /\ p = metatopics[leaving.client][1]
                        /\ q = metatopics[leaving.client][2]
                        /\ r1 = RemoveTopic(reg, p)
    OBVIOUS
  <2>2. reg' = (IF Removable(reg, p) THEN RemoveTopic(r1, q) ELSE r1) /\ leaving' = None
    BY <1>6, <2>1 DEF DisconnectMetas
  <2>3. p \in TopicIdx /\ q \in TopicIdx
    BY <1>1, <2>1 DEF IInv, LeavingSound
  <2>4. TablesInv(r1) /\ r1 \in Registry /\ ListingsKept(reg, r1)
    BY <2>1, <2>3, RemoveTopicInv, RemoveTopicListings DEF IInv, RegistryInv, TablesInv
  <2>5. ListingsKept(r1, RemoveTopic(r1, q)) /\ RemoveTopic(r1, q) \in Registry
    BY <2>3, <2>4, RemoveTopicInv, RemoveTopicListings DEF TablesInv
  <2>6. ListingsKept(reg, RemoveTopic(r1, q))
    BY <1>3, <2>4, <2>5, ListingsKeptTwice, RegistryUnbounded
  <2>7. ListingsKept(reg, reg')
    BY <2>2, <2>4, <2>6
  <2> QED
    BY <1>1, <1>2, <1>3, <2>2, <2>7, QuietListings
<1> QED
  BY <1>5, <1>6

\* At the start nobody publishes, and $serverpub is the third topic.
LEMMA InitListings == Init => ListingsInv
<1> SUFFICES ASSUME Init  PROVE ListingsInv
  OBVIOUS
<1> DEFINE x  == <<"$clients", "server">>
           y  == <<"$serversub", "server">>
           z  == <<"$serverpub", "server">>
           r1 == EnsureTopic(EmptyRegistry, x, {})
           r2 == EnsureTopic(r1, y, {})
<1>1. x \in Names /\ y \in Names /\ z \in Names /\ x # y /\ x # z /\ y # z
  BY DEF Names, ServerMetas
<1>2. reg = EnsureTopic(r2, z, {})
  BY DEF Init
<1> HIDE DEF x, y, z
<1>3. ASSUME NEW r \in Unbounded, NEW n \in Names, r.topic_map[n] = None
      PROVE  /\ EnsureTopic(r, n, {}) \in Unbounded
             /\ EnsureTopic(r, n, {}).topic_map = [r.topic_map EXCEPT ![n] = r.next]
             /\ EnsureTopic(r, n, {}).next = r.next + 1
  <2>1. EnsureTopic(r, n, {}) = InsertTopic(r, n, {})
    BY <1>3 DEF EnsureTopic
  <2>2. EnsureTopic(r, n, {}) \in Unbounded
    BY EnsureTopicKeeps
  <2> QED
    BY <2>1, <2>2 DEF InsertTopic, Unbounded
<1>4. /\ EmptyRegistry \in Unbounded /\ EmptyRegistry.next = 0
      /\ \A n \in Names : EmptyRegistry.topic_map[n] = None
  BY EmptyRegistryInv, RegistryUnbounded DEF RegistryInv, TablesInv, EmptyRegistry
<1>5. /\ r1 \in Unbounded /\ r1.next = 1
      /\ \A n \in Names \ {x} : r1.topic_map[n] = None
  <2>1. /\ r1 \in Unbounded /\ r1.next = 0 + 1
        /\ r1.topic_map = [EmptyRegistry.topic_map EXCEPT ![x] = 0]
    BY <1>1, <1>3, <1>4
  <2> HIDE DEF r1
  <2> QED
    BY <1>4, <2>1 DEF Unbounded
<1> HIDE DEF r1
<1>6. /\ r2 \in Unbounded /\ r2.next = 2
      /\ \A n \in Names \ {x, y} : r2.topic_map[n] = None
  <2>1. /\ r2 \in Unbounded /\ r2.next = 1 + 1
        /\ r2.topic_map = [r1.topic_map EXCEPT ![y] = 1]
    BY <1>1, <1>3, <1>5
  <2> HIDE DEF r2
  <2> QED
    BY <1>5, <2>1 DEF Unbounded
<1> HIDE DEF r2
<1>7. reg.topic_map[z] = 2
  <2>1. reg.topic_map = [r2.topic_map EXCEPT ![z] = 2]
    BY <1>1, <1>2, <1>3, <1>6
  <2> QED
    BY <1>1, <1>6, <2>1 DEF Unbounded
<1>8. connected \ {SERVER_CLIENT_IDX} = {} /\ connected = {0} /\ next_client = 1
  BY DEF Init, SERVER_CLIENT_IDX
<1>9. MetasNamed
  BY <1>7, <1>8 DEF MetasNamed, SERVER_PUB_METATOPIC, z
<1>11. ClientsNumbered
  BY <1>8 DEF Init, ClientsNumbered, NoPubs
<1>12. PublicationsListed
  BY <1>8, RegistryAssumption DEF Init, PublicationsListed, NoPubs, ClientIdx
<1> QED
  BY <1>9, <1>11, <1>12 DEF ListingsInv

\* Every step keeps the listings.
LEMMA NextListings == IInv /\ IInv' /\ ListingsInv /\ [Next]_vars => ListingsInv'
<1> SUFFICES ASSUME IInv, IInv', ListingsInv, [Next]_vars  PROVE ListingsInv'
  OBVIOUS
<1>1. ASSUME NEW asked \in AskedNames, Connect(asked)  PROVE ListingsInv'
  BY <1>1, ConnectListings
<1>2. ASSUME NEW c \in ClientIdx, ConnectionEnds(c) \/ CloseDropped(c) \/ CloseHandled(c)
      PROVE  ListingsInv'
  BY <1>2, EndingsListings
<1>3. CASE DisconnectStep \/ DisconnectMetas
  BY <1>3, DisconnectListings
<1>4. ASSUME NEW c \in ClientIdx, NEW u \in PubUIDs, NEW n \in PublishNames,
             NEW fl \in PublishFlags, Publish(c, u, n, fl)
      PROVE  ListingsInv'
  BY <1>4, PublishMessageListings
<1>5. ASSUME NEW u \in PubUIDs, NEW n \in PublishNames, NEW fl \in PublishFlags,
             HandlePublish(u, n, fl)
      PROVE  ListingsInv'
  BY <1>5, HandlePublishListings
<1>6. ASSUME NEW c \in ClientIdx, NEW u \in PubUIDs, Unpublish(c, u)
      PROVE  ListingsInv'
  BY <1>6, UnpublishListings
<1>7. ASSUME \/ \E c \in ClientIdx, u \in PubUIDs : SetValue(c, u)
             \/ \E n \in PublishNames, p \in PropertyUpdates : SetProperties(n, p[1], p[2])
             \/ \E c \in ClientIdx, w \in SubUIDs, pat \in Patterns : Subscribe(c, w, pat)
             \/ \E c \in ClientIdx, w \in SubUIDs : Unsubscribe(c, w)
             \/ \E s \in SubIdx : SendOut(s)
             \/ UNCHANGED vars
      PROVE  ListingsInv'
  BY <1>7, AsideListings
<1> QED
  BY <1>1, <1>2, <1>3, <1>4, <1>5, <1>6, <1>7 DEF Next

\* What a connected client publishes is listed under its own metatopic for as long as
\* the server has given its name to no other client: unpublish and disconnect_client
\* take entries and topics of other names away.
THEOREM PublicationsAreListed == Spec => []PublicationsListed
<1>1. IInv /\ IInv' /\ ListingsInv /\ [Next]_vars => ListingsInv'
  BY NextListings
<1>2. ListingsInv => PublicationsListed
  BY DEF ListingsInv
<1> QED
  BY <1>1, <1>2, InitListings, ServerInvariant, PTL DEF Spec

--------------------------------------------------------------------------------
\* Every subscriber is told

\* The names of topics and of their metatopics.
TopicNames == OrdinaryNames \cup TopicMetas

\* No client has left, and none is about to.
AllStay == ended = {} /\ Everyone

\* Names and topics lead to one another.
Straight(r) ==
  /\ \A n \in TopicNames : r.topic_map[n] # None => r.topics[r.topic_map[n]] = n
  /\ \A i \in TopicIdx : r.topics[i] \in TopicNames => r.topic_map[r.topics[i]] = i

\* A name is there together with its metatopics.
Complete(r) ==
  \A n \in OrdinaryNames :
    /\ r.topic_map[n] # None <=> r.topic_map[MetaName("$pub", n)] # None
    /\ r.topic_map[n] # None <=> r.topic_map[MetaName("$sub", n)] # None

\* What is published are ordinary topics.
OrdinaryPublished ==
  \A c \in ClientIdx, x \in PubUIDs : pubs[c][x] # None =>
    reg.topics[pubs[c][x]] \in OrdinaryNames \cup {None}

SubscribersNumbered ==
  \A s \in SubIdx : subscriptions[s] # None => subscriptions[s].client < next_client

\* The invariant, on top of ListingsInv.  The property alone is not inductive: subscribe
\* finds topics by their names, and announce_topic topics by the index of the name, so
\* names and topics have to agree; a removal that stopped halfway would part them.
ToldInv ==
  /\ OrdinaryPublished
  /\ SubscribersNumbered
  /\ AllStay => Straight(reg) /\ Complete(reg)
  /\ SubscribersToldWhileAllStay

--------------------------------------------------------------------------------

\* A topic's metatopics are topic metatopics, and only its own.
LEMMA OrdinaryFacts ==
  ASSUME NEW n \in OrdinaryNames
  PROVE  /\ n \in Names /\ ~IsMeta(n)
         /\ MetaName("$pub", n) \in TopicMetas
         /\ MetaName("$sub", n) \in TopicMetas
         /\ \A m \in OrdinaryNames :
              /\ MetaName("$pub", m) = MetaName("$pub", n) => m = n
              /\ MetaName("$sub", m) = MetaName("$sub", n) => m = n
              /\ MetaName("$pub", m) # MetaName("$sub", n)
              /\ MetaName("$pub", m) # n
              /\ MetaName("$sub", m) # n
  BY DEF OrdinaryNames, TopicMetas, Names, IsMeta, MetaName

\* A name that is added leads to its topic, and the topic to it.
LEMMA EnsureTopicStraight ==
  ASSUME NEW r, RegistryInv(r), Straight(r), NEW n \in Names, NEW fl \in SUBSET Flags,
         r.topic_map[n] = None => r.next < MaxTopics
  PROVE  /\ Straight(EnsureTopic(r, n, fl))
         /\ \A i \in TopicIdx : EnsureTopic(r, n, fl).topics[i] \in {r.topics[i], n}
<1> DEFINE s == EnsureTopic(r, n, fl)
<1>1. r \in Registry
  BY DEF RegistryInv, TablesInv
<1>2. TopicNames \subseteq Names
  BY DEF TopicNames, Names
<1>3. CASE r.topic_map[n] # None
  <2>1. s = r
    BY <1>3 DEF EnsureTopic
  <2> QED
    BY <2>1
<1>4. CASE r.topic_map[n] = None
  <2>1. s = InsertTopic(r, n, fl)
    BY <1>4 DEF EnsureTopic
  <2>2. /\ s.topics = [r.topics EXCEPT ![r.next] = n]
        /\ s.topic_map = [r.topic_map EXCEPT ![n] = r.next]
    BY <1>1, <2>1 DEF InsertTopic, Registry
  <2> HIDE DEF s
  <2>3. r.next \in TopicIdx /\ r.next \in Nat /\ TopicIdx \subseteq Nat
    BY <1>1, <1>4, NextIndex
  <2>4. ASSUME NEW m \in TopicNames, s.topic_map[m] # None
        PROVE  s.topics[s.topic_map[m]] = m
    <3>1. CASE m = n
      BY <1>1, <2>2, <2>3, <3>1, RegistryFields
    <3>2. CASE m # n
      <4>1. s.topic_map[m] = r.topic_map[m] /\ m \in Names
        BY <1>1, <1>2, <2>2, <3>2, RegistryFields
      <4>2. PICK j : j = r.topic_map[m]
        OBVIOUS
      <4>3. j \in TopicIdx /\ j < r.next /\ r.topics[j] = m
        BY <1>1, <2>4, <4>1, <4>2, RegistryFields
           DEF Straight, RegistryInv, TablesInv, OnlyHandedOut
      <4>4. s.topics[j] = r.topics[j]
        BY <1>1, <2>2, <2>3, <4>3, RegistryFields
      <4> QED
        BY <4>1, <4>2, <4>3, <4>4
    <3> QED
      BY <3>1, <3>2
  <2>5. ASSUME NEW i \in TopicIdx, s.topics[i] \in TopicNames
        PROVE  s.topic_map[s.topics[i]] = i
    <3>1. CASE i = r.next
      BY <1>1, <2>2, <2>3, <3>1, RegistryFields
    <3>2. CASE i # r.next
      <4>1. PICK m : m = s.topics[i]
        OBVIOUS
      <4>2. m = r.topics[i] /\ m \in Names
        BY <1>1, <1>2, <2>2, <2>5, <3>2, <4>1, RegistryFields
      <4>3. r.topic_map[m] = i
        BY <2>5, <4>1, <4>2 DEF Straight
      <4>4. m # n
        BY <1>4, <4>3, NoneIsNothing
      <4> QED
        BY <1>1, <2>2, <4>1, <4>2, <4>3, <4>4, RegistryFields
    <3> QED
      BY <3>1, <3>2
  <2>6. \A i \in TopicIdx : s.topics[i] \in {r.topics[i], n}
    BY <1>1, <2>2, RegistryFields
  <2> QED
    BY <2>4, <2>5, <2>6 DEF Straight, s
<1> QED
  BY <1>3, <1>4

\* Taking out an ordinary topic takes out its metatopics with it, under either name.
LEMMA RemoveTopicStraight ==
  ASSUME NEW r, TablesInv(r), Straight(r), Complete(r), NEW i \in TopicIdx,
         r.topics[i] \in OrdinaryNames \cup {None}
  PROVE  /\ Straight(RemoveTopic(r, i)) /\ Complete(RemoveTopic(r, i))
         /\ \A j \in TopicIdx : RemoveTopic(r, i).topics[j] \in {r.topics[j], None}
<1> DEFINE s == RemoveTopic(r, i)
<1>1. r \in Registry
  BY DEF TablesInv
<1>2. TopicNames \subseteq Names
  BY DEF TopicNames, Names
<1>3. CASE r.topics[i] = None
  <2>1. ~Removable(r, i)
    BY <1>3 DEF Removable, MetaIdx
  <2>2. /\ s.topics = [j \in TopicIdx |-> IF j = i THEN None ELSE r.topics[j]]
        /\ \A m \in Names : s.topic_map[m] = r.topic_map[m]
    BY <1>1, <1>3, <2>1, HalfRemovedTables, NoneIsNothing
  <2> HIDE DEF s
  <2>3. \A j \in TopicIdx : s.topics[j] = r.topics[j]
    BY <1>3, <2>2
  <2>4. \A m \in TopicNames : s.topic_map[m] = r.topic_map[m]
    BY <1>2, <2>2
  <2>5. \A m \in TopicNames : r.topic_map[m] \in TopicIdx \cup {None}
    BY <1>1, <1>2, RegistryFields
  <2>6. Straight(s)
    BY <2>3, <2>4, <2>5 DEF Straight
  <2>7. Complete(s)
    BY <2>4, OrdinaryFacts DEF Complete, TopicNames
  <2> QED
    BY <2>3, <2>6, <2>7 DEF s
<1>4. CASE r.topics[i] # None
  <2>1. PICK n \in OrdinaryNames : n = r.topics[i]
    BY <1>4
  <2>2. PICK p, q : p = MetaName("$pub", n) /\ q = MetaName("$sub", n)
    OBVIOUS
  <2>3. /\ n \in TopicNames /\ p \in TopicNames /\ q \in TopicNames
        /\ ~IsMeta(n) /\ p # n /\ q # n /\ p # q
    BY <2>2, OrdinaryFacts DEF TopicNames
  <2>4. /\ r.topic_map[n] = i
        /\ r.topic_map[p] # None /\ r.topic_map[q] # None
    BY <2>1, <2>2, <2>3, NoneIsNothing DEF Straight, Complete
  <2>5. Removable(r, i)
    BY <1>4, <2>1, <2>2, <2>3, <2>4 DEF Removable, MetaIdx
  <2>6. /\ n \in Names /\ ~IsMeta(n)
        /\ p \in Names /\ r.topic_map[p] # None
        /\ q \in Names /\ r.topic_map[q] # None
        /\ s.topics = [j \in TopicIdx |-> IF j \in {i, r.topic_map[p], r.topic_map[q]} THEN None
                                          ELSE r.topics[j]]
        /\ s.topic_map = [m \in Names |-> IF m \in {n, p, q} THEN None ELSE r.topic_map[m]]
        /\ s.publishers = [j \in TopicIdx |-> IF j \in {r.topic_map[p], r.topic_map[q]} THEN {}
                                              ELSE r.publishers[j]]
        /\ s.next = r.next
    <3>1. n = r.topics[i] /\ p = MetaName("$pub", n) /\ q = MetaName("$sub", n)
      BY <2>1, <2>2
    <3> QED
      BY <1>1, <2>5, <3>1, WhollyRemovedTables
  <2> HIDE DEF s
  <2>7. ASSUME NEW m \in TopicNames, s.topic_map[m] # None
        PROVE  s.topics[s.topic_map[m]] = m
    <3>1. PICK j : j = r.topic_map[m]
      OBVIOUS
    <3>2. m \in Names /\ m \notin {n, p, q} /\ s.topic_map[m] = j
      BY <1>2, <2>6, <2>7, <3>1
    <3>3. j \in TopicIdx /\ r.topics[j] = m
      BY <1>1, <2>7, <3>1, <3>2, RegistryFields DEF Straight
    <3>4. r.topics[r.topic_map[p]] = p /\ r.topics[r.topic_map[q]] = q
      BY <2>3, <2>4 DEF Straight
    <3>5. j \notin {i, r.topic_map[p], r.topic_map[q]}
      BY <2>1, <3>2, <3>3, <3>4
    <3> QED
      BY <2>6, <3>2, <3>3, <3>5
  <2>8. ASSUME NEW j \in TopicIdx, s.topics[j] \in TopicNames
        PROVE  s.topic_map[s.topics[j]] = j
    <3>1. PICK m : m = s.topics[j]
      OBVIOUS
    <3>2. m \in Names /\ m # None
      BY <1>2, <2>8, <3>1, NoneIsNothing
    <3>3. m = r.topics[j] /\ j \notin {i, r.topic_map[p], r.topic_map[q]}
      BY <2>6, <3>1, <3>2
    <3>4. r.topic_map[m] = j
      BY <2>8, <3>1, <3>3 DEF Straight
    <3>5. m \notin {n, p, q}
      BY <2>4, <3>3, <3>4
    <3> QED
      BY <2>6, <3>1, <3>2, <3>4, <3>5
  <2>9. ASSUME NEW m \in OrdinaryNames
        PROVE  /\ s.topic_map[m] # None <=> s.topic_map[MetaName("$pub", m)] # None
               /\ s.topic_map[m] # None <=> s.topic_map[MetaName("$sub", m)] # None
    <3>1. PICK x, y : x = MetaName("$pub", m) /\ y = MetaName("$sub", m)
      OBVIOUS
    <3>2. m \in Names /\ x \in Names /\ y \in Names
      BY <1>2, <3>1, OrdinaryFacts DEF TopicNames
    <3>3. CASE m = n
      BY <2>2, <2>6, <3>1, <3>2, <3>3
    <3>4. CASE m # n
      <4>1. m \notin {n, p, q} /\ x \notin {n, p, q} /\ y \notin {n, p, q}
        BY <2>2, <3>1, <3>4, OrdinaryFacts
      <4>2. /\ s.topic_map[m] = r.topic_map[m] /\ s.topic_map[x] = r.topic_map[x]
            /\ s.topic_map[y] = r.topic_map[y]
        BY <2>6, <3>2, <4>1
      <4> QED
        BY <3>1, <4>2 DEF Complete
    <3> QED
      BY <3>3, <3>4
  <2>10. \A j \in TopicIdx : s.topics[j] \in {r.topics[j], None}
    BY <2>6
  <2> QED
    BY <2>7, <2>8, <2>9, <2>10 DEF Straight, Complete, s
<1> QED
  BY <1>3, <1>4

\* So does giving up a publisher of it.
LEMMA ReleaseTopicStraight ==
  ASSUME NEW r, RegistryInv(r), Straight(r), Complete(r), NEW i \in TopicIdx,
         r.pub_count[i] # None, r.topics[i] \in OrdinaryNames \cup {None}
  PROVE  /\ Straight(ReleaseTopic(r, i)) /\ Complete(ReleaseTopic(r, i))
         /\ \A j \in TopicIdx : ReleaseTopic(r, i).topics[j] \in {r.topics[j], None}
<1>1. PICK r1 : /\ TablesInv(r1)
                /\ r1.topics = r.topics /\ r1.topic_map = r.topic_map
                /\ r1.publishers = r.publishers /\ r1.next = r.next
                /\ ReleaseTopic(r, i) \in {r1, RemoveTopic(r1, i)}
  BY ReleasedTables
<1>2. Straight(r1) /\ Complete(r1) /\ r1.topics[i] \in OrdinaryNames \cup {None}
  BY <1>1 DEF Straight, Complete
<1>3. /\ Straight(RemoveTopic(r1, i)) /\ Complete(RemoveTopic(r1, i))
      /\ \A j \in TopicIdx : RemoveTopic(r1, i).topics[j] \in {r1.topics[j], None}
  BY <1>1, <1>2, RemoveTopicStraight
<1> QED
  BY <1>1, <1>2, <1>3

\* While nobody has left, an announcement reaches all it is for.
LEMMA AnnounceAll ==
  ASSUME ended = {}, NEW r, NEW n, r.topics[r.topic_map[n]] # None, NEW a \in Announce(r, n)
  PROVE  a.ok /\ a.sent = Audience(n) \X {r.topic_map[n]}
  BY DEF Announce

\* add_topic adds a name together with its metatopics and announces both of them.
LEMMA AddTopicTold ==
  ASSUME RegistryInv(reg), Straight(reg), Complete(reg), ended = {},
         NEW n \in OrdinaryNames, NEW fl \in SUBSET Flags, RoomFor(n),
         NEW add \in AddTopic(n, fl)
  PROVE  /\ add.ok
         /\ Straight(add.reg) /\ Complete(add.reg)
         /\ add.reg.topic_map[n] # None
         /\ \A i \in TopicIdx :
              \/ add.reg.topics[i] \in {reg.topics[i], n}
              \/ Audience(add.reg.topics[i]) \X {i} \subseteq add.sent
<1> DEFINE p       == MetaName("$pub", n)
           q       == MetaName("$sub", n)
           added   == EnsureTopic(reg, n, fl)
           withPub == EnsureTopic(added, p, {})
           withSub == EnsureTopic(withPub, q, {})
<1>1. reg \in Registry /\ reg.next \in Nat /\ MaxTopics \in Nat
  BY RegistryFields, RegistryAssumption DEF RegistryInv, TablesInv
<1>2. /\ n \in Names /\ ~IsMeta(n) /\ p \in TopicMetas /\ q \in TopicMetas
      /\ p \in Names /\ q \in Names /\ p # q /\ p # n /\ q # n
      /\ {n, p, q} \subseteq TopicNames
  BY OrdinaryFacts DEF TopicNames, Names
<1>3. reg.topic_map[n] = None => reg.next + 3 <= MaxTopics
  BY <1>2 DEF RoomFor, Room
<1>4. CASE reg.topic_map[n] # None
  <2>1. add = [reg |-> added, sent |-> {}, ok |-> TRUE]
    BY <1>4 DEF AddTopic
  <2>2. added = reg
    BY <1>4 DEF EnsureTopic
  <2> QED
    BY <1>4, <2>1, <2>2
<1>5. CASE reg.topic_map[n] = None
  <2>1. /\ RegistryInv(added) /\ added.topic_map[n] \in TopicIdx /\ added.next <= reg.next + 1
        /\ \A m \in Names \ {n} : added.topic_map[m] = reg.topic_map[m]
        /\ Straight(added)
        /\ \A i \in TopicIdx : added.topics[i] \in {reg.topics[i], n}
    BY <1>1, <1>2, <1>3, <1>5, EnsureTopicInv, EnsureTopicStraight
  <2>2. PICK a \in Announce(withPub, p) :
          add \in (IF a.ok
                   THEN {[reg |-> withSub, sent |-> a.sent \cup b.sent, ok |-> b.ok] :
                           b \in Announce(withSub, q)}
                   ELSE {[reg |-> withPub, sent |-> a.sent, ok |-> FALSE]})
    BY <1>2, <1>5 DEF AddTopic
  <2> HIDE DEF added, p, q
  <2>3. added.next \in Nat
    BY <2>1, RegistryFields, RegistryAssumption DEF RegistryInv, TablesInv
  <2>4. added.next < MaxTopics
    BY <1>1, <1>3, <1>5, <2>1, <2>3
  <2>5. /\ RegistryInv(withPub) /\ withPub.topic_map[p] \in TopicIdx
        /\ withPub.next <= added.next + 1
        /\ \A m \in Names \ {p} : withPub.topic_map[m] = added.topic_map[m]
        /\ Straight(withPub)
        /\ \A i \in TopicIdx : withPub.topics[i] \in {added.topics[i], p}
    BY <1>2, <2>1, <2>4, EnsureTopicInv, EnsureTopicStraight
  <2> HIDE DEF withPub
  <2>6. withPub.next \in Nat
    BY <2>5, RegistryFields, RegistryAssumption DEF RegistryInv, TablesInv
  <2>7. withPub.next < MaxTopics
    BY <1>1, <1>3, <1>5, <2>1, <2>3, <2>5, <2>6
  <2>8. /\ RegistryInv(withSub) /\ withSub.topic_map[q] \in TopicIdx
        /\ \A m \in Names \ {q} : withSub.topic_map[m] = withPub.topic_map[m]
        /\ Straight(withSub)
        /\ \A i \in TopicIdx : withSub.topics[i] \in {withPub.topics[i], q}
    BY <1>2, <2>5, <2>7, EnsureTopicInv, EnsureTopicStraight
  <2> HIDE DEF withSub
  <2>9. /\ withPub.topics[withPub.topic_map[p]] # None
        /\ withSub.topics[withSub.topic_map[q]] # None
    BY <1>2, <2>5, <2>8, NoneIsNothing DEF Straight
  <2>10. a.ok /\ a.sent = Audience(p) \X {withPub.topic_map[p]}
    BY <2>9, AnnounceAll
  <2>11. PICK b \in Announce(withSub, q) :
           add = [reg |-> withSub, sent |-> a.sent \cup b.sent, ok |-> b.ok]
    BY <2>2, <2>10
  <2>12. b.ok /\ b.sent = Audience(q) \X {withSub.topic_map[q]}
    BY <2>9, AnnounceAll
  <2>13. /\ add.reg = withSub /\ add.ok
         /\ add.sent = a.sent \cup b.sent
    BY <2>11, <2>12
  <2>14. /\ withSub.topic_map[p] = withPub.topic_map[p]
         /\ withSub.topic_map[n] = added.topic_map[n]
    BY <1>2, <2>5, <2>8
  <2>15. ASSUME NEW i \in TopicIdx
         PROVE  \/ withSub.topics[i] \in {reg.topics[i], n}
                \/ Audience(withSub.topics[i]) \X {i} \subseteq add.sent
    <3>1. withSub.topics[i] \in {reg.topics[i], n, p, q}
      BY <2>1, <2>5, <2>8
    <3>2. ASSUME withSub.topics[i] = p  PROVE Audience(p) \X {i} \subseteq add.sent
      <4>1. withSub.topic_map[p] = i
        BY <1>2, <2>8, <3>2 DEF Straight
      <4> QED
        BY <2>10, <2>13, <2>14, <4>1
    <3>3. ASSUME withSub.topics[i] = q  PROVE Audience(q) \X {i} \subseteq add.sent
      <4>1. withSub.topic_map[q] = i
        BY <1>2, <2>8, <3>3 DEF Straight
      <4> QED
        BY <2>12, <2>13, <4>1
    <3> QED
      BY <3>1, <3>2, <3>3
  <2>16. Complete(withSub)
    <3>1. SUFFICES ASSUME NEW m \in OrdinaryNames, NEW x, x = MetaName("$pub", m),
                          NEW y, y = MetaName("$sub", m)
                   PROVE  /\ withSub.topic_map[m] # None <=> withSub.topic_map[x] # None
                          /\ withSub.topic_map[m] # None <=> withSub.topic_map[y] # None
      BY DEF Complete
    <3>2. m \in Names /\ x \in Names /\ y \in Names
      BY <3>1, OrdinaryFacts DEF Names
    <3>3. CASE m = n
      <4>1. x = p /\ y = q
        BY <3>1, <3>3 DEF p, q
      <4> QED
        BY <2>1, <2>5, <2>8, <2>14, <3>3, <4>1, NoneIsNothing
    <3>4. CASE m # n
      <4>1. m \notin {n, p, q} /\ x \notin {n, p, q} /\ y \notin {n, p, q}
        BY <3>1, <3>4, OrdinaryFacts DEF p, q
      <4>2. /\ withSub.topic_map[m] = reg.topic_map[m]
            /\ withSub.topic_map[x] = reg.topic_map[x]
            /\ withSub.topic_map[y] = reg.topic_map[y]
        BY <2>1, <2>5, <2>8, <3>2, <4>1
      <4> QED
        BY <3>1, <4>2 DEF Complete
    <3> QED
      BY <3>3, <3>4
  <2>17. withSub.topic_map[n] # None
    BY <2>1, <2>14, NoneIsNothing
  <2> QED
    BY <2>8, <2>13, <2>15, <2>16, <2>17
<1> QED
  BY <1>4, <1>5

\* A publish of a client that is there succeeds, and all that it adds is announced.
LEMMA OutcomeTold ==
  ASSUME RegistryInv(reg), Straight(reg), Complete(reg), ended = {}, NEW c \in connected,
         NEW n \in OrdinaryNames, NEW fl \in SUBSET Flags, RoomFor(n),
         NEW out \in PublishOutcomes(c, n, fl)
  PROVE  /\ Straight(out.reg) /\ Complete(out.reg)
         /\ \A i \in TopicIdx :
              \/ out.reg.topics[i] = reg.topics[i]
              \/ Audience(out.reg.topics[i]) \X {i} \subseteq out.sent
<1> DEFINE Answer(add) == Respond(add.reg, c, add.reg.topic_map[n], add.sent)
<1>1. PICK add \in AddTopic(n, fl) :
        out \in (IF add.ok /\ Answer(add).ok
                 THEN {[reg    |-> add.reg,
                        sent   |-> add.sent \cup Answer(add).sent \cup all.sent,
                        ok     |-> all.ok] : all \in Announce(add.reg, n)}
                 ELSE {[reg |-> add.reg, sent |-> add.sent, ok |-> FALSE]})
  BY DEF PublishOutcomes
<1>2. /\ add.ok
      /\ Straight(add.reg) /\ Complete(add.reg)
      /\ add.reg.topic_map[n] # None
      /\ \A i \in TopicIdx :
           \/ add.reg.topics[i] \in {reg.topics[i], n}
           \/ Audience(add.reg.topics[i]) \X {i} \subseteq add.sent
  BY AddTopicTold
<1>3. n \in TopicNames /\ n # None
  BY OrdinaryFacts, NoneIsNothing DEF TopicNames
<1>4. add.reg.topics[add.reg.topic_map[n]] # None
  BY <1>2, <1>3 DEF Straight
<1>5. Answer(add).ok
  BY <1>4 DEF Respond
<1> HIDE DEF Answer
<1>6. PICK all \in Announce(add.reg, n) :
        out = [reg    |-> add.reg,
               sent   |-> add.sent \cup Answer(add).sent \cup all.sent,
               ok     |-> all.ok]
  BY <1>1, <1>2, <1>5
<1>7. all.sent = Audience(n) \X {add.reg.topic_map[n]}
  BY <1>4, AnnounceAll
<1>8. /\ out.reg = add.reg
      /\ add.sent \cup all.sent \subseteq out.sent
  BY <1>6
<1>9. ASSUME NEW i \in TopicIdx
      PROVE  \/ add.reg.topics[i] = reg.topics[i]
             \/ Audience(add.reg.topics[i]) \X {i} \subseteq out.sent
  <2>1. CASE add.reg.topics[i] = n
    <3>1. add.reg.topic_map[n] = i
      BY <1>2, <1>3, <2>1 DEF Straight
    <3> QED
      BY <1>7, <1>8, <2>1, <3>1
  <2>2. CASE add.reg.topics[i] # n
    BY <1>2, <1>8, <2>2
  <2> QED
    BY <2>1, <2>2
<1> QED
  BY <1>2, <1>8, <1>9

--------------------------------------------------------------------------------

\* If all are there after a step that connects nobody, all were there before.
LEMMA StayedSoFar ==
  ASSUME ListingsInv, AllStay', connected' \subseteq connected, UNCHANGED next_client,
         ended \subseteq ended'
  PROVE  AllStay /\ connected' = connected
<1>1. connected = connected'
  BY DEF AllStay, Everyone, ListingsInv, ClientsNumbered
<1> QED
  BY <1>1 DEF AllStay, Everyone

\* A publisher's topic stays ordinary in tables that keep what is there.
LEMMA StillOrdinary ==
  ASSUME IInv, ListingsInv, OrdinaryPublished, NEW r,
         \A i \in TopicIdx : i < reg.next => r.topics[i] \in {reg.topics[i], None},
         NEW c \in ClientIdx, NEW x \in PubUIDs, NEW i, i = pubs[c][x], i # None
  PROVE  r.topics[i] \in OrdinaryNames \cup {None}
<1>1. i \in TopicIdx /\ i < reg.next
  BY DEF IInv, TypeOK, ListingsInv, ClientsNumbered
<1>2. reg.topics[i] \in OrdinaryNames \cup {None}
  BY DEF OrdinaryPublished
<1> QED
  BY <1>1, <1>2

\* Steps that leave names and topics alone, subscribe nobody and publish nothing.
LEMMA QuietTold ==
  ASSUME IInv, ListingsInv, ToldInv,
         reg'.topics = reg.topics, reg'.topic_map = reg.topic_map,
         ended \subseteq ended', told \subseteq told', UNCHANGED next_client,
         connected' \subseteq connected,
         \A c \in ClientIdx, x \in PubUIDs : pubs'[c][x] \in {pubs[c][x], None},
         \A s \in SubIdx : subscriptions'[s] \in {subscriptions[s], None}
  PROVE  ToldInv'
<1>1. OrdinaryPublished'
  BY DEF ToldInv, OrdinaryPublished
<1>2. SubscribersNumbered'
  BY DEF ToldInv, SubscribersNumbered
<1>3. AllStay' => Straight(reg') /\ Complete(reg')
  BY StayedSoFar DEF ToldInv, Straight, Complete
<1>4. SubscribersToldWhileAllStay'
  <2>1. SUFFICES ASSUME AllStay', NEW i \in TopicIdx, NEW s \in SubIdx,
                        reg.topics[i] \in TopicNames, subscriptions'[s] # None,
                        subscriptions'[s].client \in connected',
                        reg.topics[i] \in Matches[subscriptions'[s].pattern]
                 PROVE  <<subscriptions'[s].client, i>> \in told'
    BY DEF SubscribersToldWhileAllStay, AllStay, Everyone, TopicNames
  <2>2. AllStay /\ subscriptions'[s] = subscriptions[s] /\ connected' = connected
    BY <2>1, StayedSoFar
  <2>3. <<subscriptions[s].client, i>> \in told
    BY <2>1, <2>2 DEF ToldInv, SubscribersToldWhileAllStay, AllStay, Everyone, TopicNames
  <2> QED
    BY <2>2, <2>3
<1> QED
  BY <1>1, <1>2, <1>3, <1>4 DEF ToldInv

\* Steps that only send values, change properties, end connections or unsubscribe.
LEMMA AsideTold ==
  ASSUME IInv, ListingsInv, ToldInv,
         \/ \E c \in ClientIdx : ConnectionEnds(c) \/ CloseDropped(c) \/ CloseHandled(c)
         \/ \E c \in ClientIdx, u \in PubUIDs : SetValue(c, u)
         \/ \E n \in PublishNames, p \in PropertyUpdates : SetProperties(n, p[1], p[2])
         \/ \E c \in ClientIdx, w \in SubUIDs : Unsubscribe(c, w)
         \/ \E s \in SubIdx : SendOut(s)
         \/ UNCHANGED vars
  PROVE  ToldInv'
<1>1. reg \in Registry
  BY DEF IInv, TypeOK
<1>2. ASSUME NEW c \in ClientIdx, ConnectionEnds(c) \/ CloseDropped(c) \/ CloseHandled(c)
      PROVE  ToldInv'
  <2>1. /\ UNCHANGED <<reg, next_client, pubs, subscriptions, told>>
        /\ ended \subseteq ended' /\ connected' \subseteq connected
    BY <1>2 DEF ConnectionEnds, CloseDropped, CloseHandled, clientVars, subVars, tellVars
  <2> QED
    BY <2>1, QuietTold
<1>3. ASSUME NEW c \in ClientIdx, NEW u \in PubUIDs, SetValue(c, u)
      PROVE  ToldInv'
  <2>1. /\ reg' = Valued(reg, pubs[c][u])
        /\ UNCHANGED <<next_client, connected, pubs, subscriptions, ended, told>>
    BY <1>3 DEF SetValue, clientVars, subVars, taskVars, tellVars
  <2>2. reg'.topics = reg.topics /\ reg'.topic_map = reg.topic_map
    BY <1>1, <2>1 DEF Valued, Registry
  <2> QED
    BY <2>1, <2>2, QuietTold
<1>4. ASSUME NEW n \in PublishNames, NEW p \in PropertyUpdates, SetProperties(n, p[1], p[2])
      PROVE  ToldInv'
  <2>1. /\ reg'.topics = reg.topics /\ reg'.topic_map = reg.topic_map
        /\ UNCHANGED <<next_client, connected, pubs, subscriptions, ended, told>>
    BY <1>1, <1>4 DEF SetProperties, clientVars, subVars, taskVars, tellVars, Registry
  <2> QED
    BY <2>1, QuietTold
<1>5. ASSUME NEW c \in ClientIdx, NEW w \in SubUIDs, Unsubscribe(c, w)
      PROVE  ToldInv'
  <2>1. /\ reg'.topics = reg.topics /\ reg'.topic_map = reg.topic_map
        /\ UNCHANGED <<next_client, connected, pubs, ended, told>>
    BY <1>1, <1>5 DEF Unsubscribe, clientVars, taskVars, tellVars, Registry
  <2>2. \A s \in SubIdx : subscriptions'[s] \in {subscriptions[s], None}
    BY <1>5 DEF Unsubscribe, IInv, TypeOK
  <2> QED
    BY <2>1, <2>2, QuietTold
<1>6. ASSUME NEW s \in SubIdx, SendOut(s)
      PROVE  ToldInv'
  <2>1. UNCHANGED <<reg, next_client, connected, pubs, subscriptions, ended, told>>
    BY <1>6 DEF SendOut, clientVars, subVars, taskVars, tellVars
  <2> QED
    BY <2>1, QuietTold
<1>7. CASE UNCHANGED vars
  <2>1. UNCHANGED <<reg, next_client, connected, pubs, subscriptions, ended, told>>
    BY <1>7 DEF vars, clientVars, subVars, taskVars, tellVars
  <2> QED
    BY <2>1, QuietTold
<1> QED
  BY <1>2, <1>3, <1>4, <1>5, <1>6, <1>7

\* subscribe announces every topic it covers: each is found by its name.
LEMMA SubscribeTold ==
  ASSUME IInv, ListingsInv, ToldInv, NEW c \in ClientIdx, NEW w \in SubUIDs,
         NEW pat \in Patterns, Subscribe(c, w, pat)
  PROVE  ToldInv'
<1>1. PICK s : s = next_sub
  OBVIOUS
<1>2. /\ c \in connected
      /\ s < MaxSubs
      /\ subscriptions' = [subscriptions EXCEPT ![s] = [client |-> c, pattern |-> pat]]
      /\ told' = IF c \in ended THEN told
                 ELSE told \cup ({c} \X {reg.topic_map[n] : n \in Announceable(pat)})
      /\ UNCHANGED <<next_client, connected, pubs, ended>>
  BY <1>1 DEF Subscribe, clientVars, taskVars
<1>3. reg'.topics = reg.topics /\ reg'.topic_map = reg.topic_map
  BY DEF Subscribe, IInv, TypeOK, Registry
<1>4. s \in SubIdx
  BY <1>1, <1>2, RegistryAssumption DEF IInv, TypeOK, SubIdx
<1>5. ASSUME NEW x \in SubIdx
      PROVE  subscriptions'[x] = IF x = s THEN [client |-> c, pattern |-> pat]
                                 ELSE subscriptions[x]
  BY <1>2, <1>4 DEF IInv, TypeOK
<1>6. OrdinaryPublished'
  BY <1>2, <1>3 DEF ToldInv, OrdinaryPublished
<1>7. SubscribersNumbered'
  <2>1. c < next_client
    BY <1>2 DEF ListingsInv, ClientsNumbered, IInv, TypeOK
  <2>2. ASSUME NEW x \in SubIdx, subscriptions'[x] # None
        PROVE  subscriptions'[x].client < next_client
    BY <1>5, <2>1, <2>2 DEF ToldInv, SubscribersNumbered
  <2> QED
    BY <1>2, <2>2 DEF SubscribersNumbered
<1>8. AllStay' => AllStay
  BY <1>2 DEF AllStay, Everyone
<1>9. AllStay' => Straight(reg') /\ Complete(reg')
  BY <1>3, <1>8 DEF ToldInv, Straight, Complete
<1>10. SubscribersToldWhileAllStay'
  <2>1. SUFFICES ASSUME AllStay, NEW i \in TopicIdx, NEW x \in SubIdx,
                        reg.topics[i] \in TopicNames, subscriptions'[x] # None,
                        subscriptions'[x].client \in connected,
                        reg.topics[i] \in Matches[subscriptions'[x].pattern]
                 PROVE  <<subscriptions'[x].client, i>> \in told'
    BY <1>2, <1>3, <1>8 DEF SubscribersToldWhileAllStay, AllStay, Everyone, TopicNames
  <2>2. CASE x # s
    <3>1. <<subscriptions[x].client, i>> \in told
      BY <1>5, <2>1, <2>2
         DEF ToldInv, SubscribersToldWhileAllStay, AllStay, Everyone, TopicNames
    <3> QED
      BY <1>2, <1>5, <2>2, <3>1
  <2>3. CASE x = s
    <3>1. PICK n : n = reg.topics[i]
      OBVIOUS
    <3>2. subscriptions'[x].client = c /\ n \in Matches[pat]
      BY <1>5, <2>1, <2>3, <3>1
    <3>3. reg.topic_map[n] = i /\ n # None
      BY <2>1, <3>1, NoneIsNothing DEF ToldInv, Straight, TopicNames, Names
    <3>4. n \in Announceable(pat)
      BY <3>1, <3>2, <3>3, NoneIsNothing DEF Announceable
    <3>5. i \in {reg.topic_map[m] : m \in Announceable(pat)}
      BY <3>3, <3>4
    <3>6. c \notin ended
      BY <2>1 DEF AllStay
    <3> QED
      BY <1>2, <3>2, <3>5, <3>6
  <2> QED
    BY <2>2, <2>3
<1> QED
  BY <1>6, <1>7, <1>9, <1>10 DEF ToldInv

\* A publish of an ordinary topic, by a client or by the server's handle.
LEMMA PublishTold ==
  ASSUME IInv, ListingsInv, ToldInv, NEW c \in ClientIdx, NEW u \in PubUIDs,
         NEW n \in OrdinaryNames, NEW fl \in SUBSET Flags, RoomFor(n),
         NEW out \in PublishOutcomes(c, n, fl), NEW then, PublishWith(c, u, n, then),
         then.reg \in Registry, then.ok = out.ok, then.sent = out.sent,
         then.reg.topics = out.reg.topics, then.reg.topic_map = out.reg.topic_map,
         Everyone => c \in connected,
         UNCHANGED <<clientVars, connected, subVars, taskVars>>
  PROVE  ToldInv'
<1>1. PICK i : i = out.reg.topic_map[n]
  OBVIOUS
<1>2. n \in Names
  BY OrdinaryFacts
<1>3. /\ RegistryInv(out.reg) /\ ListsIn(out.reg, Known) /\ out.reg.topic_map[n] \in TopicIdx
      /\ out \in [reg : Registry, sent : SUBSET (ClientIdx \X TopicIdx), ok : BOOLEAN]
  BY <1>2, PublishOutcomesFacts DEF IInv, TypeOK
<1>4. /\ reg' = IF out.ok
                THEN [then.reg EXCEPT !.publishers[PublisherMeta(c)] = @ \cup {<<n, u>>}]
                ELSE then.reg
      /\ pubs' = IF out.ok THEN [pubs EXCEPT ![c][u] = i] ELSE pubs
      /\ told' = told \cup {x \in out.sent : x[1] \notin ended}
  BY <1>1 DEF PublishWith
<1>5. reg'.topics = out.reg.topics /\ reg'.topic_map = out.reg.topic_map
  BY <1>4 DEF Registry
<1>6. UNCHANGED <<next_client, connected, subscriptions, ended>>
  BY DEF clientVars, subVars, taskVars
<1>7. ListingsKept(reg, out.reg)
  BY <1>2, OutcomeListings DEF IInv, TypeOK
<1>8. OrdinaryPublished'
  <2>1. SUFFICES ASSUME NEW d \in ClientIdx, NEW x \in PubUIDs, NEW j, j = pubs'[d][x],
                        j # None
                 PROVE  out.reg.topics[j] \in OrdinaryNames \cup {None}
    BY <1>5 DEF OrdinaryPublished
  <2>2. CASE j = pubs[d][x]
    <3>1. \A k \in TopicIdx : k < reg.next => out.reg.topics[k] \in {reg.topics[k], None}
      BY <1>7 DEF ListingsKept
    <3> QED
      BY <2>1, <2>2, <3>1, StillOrdinary DEF ToldInv
  <2>3. CASE j # pubs[d][x]
    <3>1. j = i
      BY <1>4, <2>1, <2>3 DEF IInv, TypeOK
    <3>2. out.reg.topics[i] \in {n, None}
      BY <1>1, <1>2, <1>3, NoneIsNothing DEF RegistryInv, TablesInv, NamesAgree
    <3> QED
      BY <3>1, <3>2
  <2> QED
    BY <2>2, <2>3
<1>9. SubscribersNumbered'
  BY <1>6 DEF ToldInv, SubscribersNumbered
<1>10. AllStay' => AllStay
  BY <1>6 DEF AllStay, Everyone
<1>11. AllStay => /\ Straight(out.reg) /\ Complete(out.reg)
                  /\ \A k \in TopicIdx :
                       \/ out.reg.topics[k] = reg.topics[k]
                       \/ Audience(out.reg.topics[k]) \X {k} \subseteq out.sent
  <2>1. SUFFICES ASSUME AllStay
                 PROVE  /\ Straight(out.reg) /\ Complete(out.reg)
                        /\ \A k \in TopicIdx :
                             \/ out.reg.topics[k] = reg.topics[k]
                             \/ Audience(out.reg.topics[k]) \X {k} \subseteq out.sent
    OBVIOUS
  <2>2. /\ RegistryInv(reg) /\ Straight(reg) /\ Complete(reg) /\ ended = {}
        /\ c \in connected
    BY <2>1 DEF IInv, ToldInv, AllStay
  <2> QED
    BY <2>2, OutcomeTold
<1>12. AllStay' => Straight(reg') /\ Complete(reg')
  BY <1>5, <1>10, <1>11 DEF Straight, Complete
<1>13. SubscribersToldWhileAllStay'
  <2>1. SUFFICES ASSUME AllStay, NEW k \in TopicIdx, NEW s \in SubIdx,
                        NEW m, m = out.reg.topics[k], m \in TopicNames,
                        subscriptions[s] # None, subscriptions[s].client \in connected,
                        m \in Matches[subscriptions[s].pattern]
                 PROVE  <<subscriptions[s].client, k>> \in told'
    BY <1>5, <1>6, <1>10 DEF SubscribersToldWhileAllStay, AllStay, Everyone, TopicNames
  <2>2. CASE m = reg.topics[k]
    <3>1. <<subscriptions[s].client, k>> \in told
      BY <2>1, <2>2 DEF ToldInv, SubscribersToldWhileAllStay, AllStay, Everyone, TopicNames
    <3> QED
      BY <1>4, <3>1
  <2>3. CASE m # reg.topics[k]
    <3>1. Audience(m) \X {k} \subseteq out.sent
      BY <1>11, <2>1, <2>3
    <3>2. subscriptions[s].client \in Audience(m)
      BY <2>1 DEF Audience
    <3>3. <<subscriptions[s].client, k>> \in out.sent
      BY <3>1, <3>2
    <3>4. ended = {}
      BY <2>1 DEF AllStay
    <3> QED
      BY <1>4, <3>3, <3>4
  <2> QED
    BY <2>2, <2>3
<1> QED
  BY <1>8, <1>9, <1>12, <1>13 DEF ToldInv

\* A publish message.
LEMMA PublishMessageTold ==
  ASSUME IInv, ListingsInv, ToldInv, NEW c \in ClientIdx, NEW u \in PubUIDs,
         NEW n \in OrdinaryNames, NEW fl \in PublishFlags, Publish(c, u, n, fl)
  PROVE  ToldInv'
<1>1. PICK out \in PublishOutcomes(c, n, fl) : PublishWith(c, u, n, out)
  BY DEF Publish
<1>2. /\ RoomFor(n) /\ c \in Senders
      /\ UNCHANGED <<clientVars, connected, subVars, taskVars>>
  BY DEF Publish
<1>3. n \in Names /\ fl \in SUBSET Flags
  BY OrdinaryFacts, ServerAssumption
<1>4. /\ out \in [reg : Registry, sent : SUBSET (ClientIdx \X TopicIdx), ok : BOOLEAN]
      /\ ListsIn(out.reg, Known) /\ out.reg.topic_map[n] \in TopicIdx
      /\ out.ok => c \in connected
  BY <1>2, <1>3, PublishOutcomesFacts DEF IInv, TypeOK
<1>5. Everyone => c \in connected
  BY <1>2 DEF Everyone, Senders, IInv, TypeOK
<1>6. PICK then : then = out
  OBVIOUS
<1>7. /\ PublishWith(c, u, n, then) /\ then.reg \in Registry
      /\ then.ok = out.ok /\ then.sent = out.sent
      /\ then.reg.topics = out.reg.topics /\ then.reg.topic_map = out.reg.topic_map
  BY <1>1, <1>4, <1>6
<1> QED
  BY <1>2, <1>3, <1>5, <1>7, PublishTold

\* A publish by the server's own handle.
LEMMA HandlePublishTold ==
  ASSUME IInv, ListingsInv, ToldInv, NEW u \in PubUIDs, NEW n \in OrdinaryNames,
         NEW fl \in PublishFlags, HandlePublish(u, n, fl)
  PROVE  ToldInv'
<1> DEFINE c == SERVER_CLIENT_IDX
           Then(out) ==
             [out EXCEPT !.reg = IF out.ok THEN Valued(@, out.reg.topic_map[n]) ELSE @]
<1>1. PICK out \in PublishOutcomes(c, n, fl) : PublishWith(c, u, n, Then(out))
  BY DEF HandlePublish
<1>2. RoomFor(n) /\ UNCHANGED <<clientVars, connected, subVars, taskVars>>
  BY DEF HandlePublish
<1>3. n \in Names /\ fl \in SUBSET Flags /\ c \in ClientIdx
  BY OrdinaryFacts, ServerAssumption, RegistryAssumption DEF SERVER_CLIENT_IDX, ClientIdx
<1>4. Everyone => c \in connected
  BY DEF Everyone, SERVER_CLIENT_IDX, IInv, TypeOK
<1> HIDE DEF c
<1> DEFINE i == out.reg.topic_map[n]
<1>5. /\ out \in [reg : Registry, sent : SUBSET (ClientIdx \X TopicIdx), ok : BOOLEAN]
      /\ RegistryInv(out.reg) /\ ListsIn(out.reg, Known) /\ i \in TopicIdx
      /\ out.ok => c \in connected
  BY <1>2, <1>3, PublishOutcomesFacts DEF IInv, TypeOK
<1> HIDE DEF i
<1> DEFINE then == Then(out)
<1>6. /\ then.reg = (IF out.ok THEN Valued(out.reg, i) ELSE out.reg)
      /\ then.ok = out.ok /\ then.sent = out.sent
  BY <1>5 DEF i
<1> HIDE DEF Then
<1>7. PublishWith(c, u, n, then)
  BY <1>1
<1> HIDE DEF then
<1>8. /\ then.reg \in Registry
      /\ then.reg.topics = out.reg.topics /\ then.reg.topic_map = out.reg.topic_map
  <2>1. then.reg \in Registry
    BY <1>5, <1>6, ValuedFacts DEF RegistryInv, TablesInv
  <2>2. out.reg \in Registry
    BY <1>5
  <2> QED
    BY <1>6, <2>1, <2>2 DEF Valued, Registry
<1> QED
  BY <1>2, <1>3, <1>4, <1>6, <1>7, <1>8, PublishTold

\* inner_unpublish_topic takes out nothing or a topic with its metatopics.
LEMMA UnpublishTold ==
  ASSUME IInv, ListingsInv, ToldInv, NEW c \in ClientIdx, NEW u \in PubUIDs, Unpublish(c, u)
  PROVE  ToldInv'
<1> DEFINE m    == PublisherMeta(c)
           name == reg.topics[pubs[c][u]]
<1>1. PICK i : i = pubs[c][u]
  OBVIOUS
<1> DEFINE r1 == ReleaseTopic(reg, i)
           r2 == IF reg.pub_count[i] = 1 THEN [r1 EXCEPT !.pub_count[i] = None] ELSE r1
           r3 == [r2 EXCEPT !.publishers[m] = @ \ {<<name, u>>}]
<1>2. /\ i # None
      /\ pubs' = [pubs EXCEPT ![c][u] = None]
      /\ reg' = reg \/ (reg.pub_count[i] # None /\ reg' \in {r1, r3})
      /\ UNCHANGED <<next_client, connected, subscriptions, ended, told>>
  BY <1>1 DEF Unpublish, Unlisted, clientVars, subVars, tellVars
<1>3. i \in TopicIdx /\ reg.topics[i] \in OrdinaryNames \cup {None}
  BY <1>1, <1>2 DEF IInv, TypeOK, ToldInv, OrdinaryPublished
<1>4. \A d \in ClientIdx, x \in PubUIDs : pubs'[d][x] \in {pubs[d][x], None}
  BY <1>2 DEF IInv, TypeOK
<1> HIDE DEF m, name
<1>5. CASE reg' = reg
  BY <1>2, <1>4, <1>5, QuietTold
<1>6. CASE reg.pub_count[i] # None /\ reg' \in {r1, r3}
  <2>1. r1 \in Registry /\ ListingsKept(reg, r1)
    BY <1>3, <1>6, ReleaseTopicListings, ReleaseTopicInv DEF IInv, RegistryInv, TablesInv
  <2>2. AllStay => /\ Straight(r1) /\ Complete(r1)
                   /\ \A j \in TopicIdx : r1.topics[j] \in {reg.topics[j], None}
    BY <1>3, <1>6, ReleaseTopicStraight DEF IInv, ToldInv
  <2> HIDE DEF r1
  <2>3. reg'.topics = r1.topics /\ reg'.topic_map = r1.topic_map
    BY <1>6, <2>1 DEF Registry
  <2>4. OrdinaryPublished'
    <3>1. SUFFICES ASSUME NEW d \in ClientIdx, NEW x \in PubUIDs, NEW j, j = pubs'[d][x],
                          j # None
                   PROVE  r1.topics[j] \in OrdinaryNames \cup {None}
      BY <2>3 DEF OrdinaryPublished
    <3>2. j = pubs[d][x]
      BY <1>4, <3>1
    <3>3. \A k \in TopicIdx : k < reg.next => r1.topics[k] \in {reg.topics[k], None}
      BY <2>1 DEF ListingsKept
    <3> QED
      BY <3>1, <3>2, <3>3, StillOrdinary DEF ToldInv
  <2>5. SubscribersNumbered'
    BY <1>2 DEF ToldInv, SubscribersNumbered
  <2>6. AllStay' => AllStay
    BY <1>2 DEF AllStay, Everyone
  <2>7. AllStay' => Straight(reg') /\ Complete(reg')
    BY <2>2, <2>3, <2>6 DEF Straight, Complete
  <2>8. SubscribersToldWhileAllStay'
    <3>1. SUFFICES ASSUME AllStay, NEW k \in TopicIdx, NEW s \in SubIdx,
                          r1.topics[k] \in TopicNames,
                          subscriptions[s] # None, subscriptions[s].client \in connected,
                          r1.topics[k] \in Matches[subscriptions[s].pattern]
                   PROVE  <<subscriptions[s].client, k>> \in told
      BY <1>2, <2>3, <2>6 DEF SubscribersToldWhileAllStay, AllStay, Everyone, TopicNames
    <3>2. r1.topics[k] # None
      BY <3>1, NoneIsNothing DEF TopicNames, Names
    <3>3. r1.topics[k] = reg.topics[k]
      BY <2>2, <3>1, <3>2
    <3> QED
      BY <3>1, <3>3 DEF ToldInv, SubscribersToldWhileAllStay, AllStay, Everyone, TopicNames
  <2> QED
    BY <2>4, <2>5, <2>7, <2>8 DEF ToldInv
<1> QED
  BY <1>2, <1>5, <1>6

\* A new client has no subscriptions yet, and its metatopics are none of a topic's.
LEMMA ConnectTold ==
  ASSUME IInv, IInv', ListingsInv, ToldInv, ListingsKept(reg, reg'), Everyone' => Everyone,
         NEW asked \in AskedNames, Connect(asked)
  PROVE  ToldInv'
<1> DEFINE c    == next_client
           same == {d \in connected \ {SERVER_CLIENT_IDX} : names[d] \in NamesContaining[asked]}
           name == ClientName(asked, Cardinality(same))
           p    == ClientMeta("$clientpub", name)
           q    == ClientMeta("$clientsub", name)
           r1   == EnsureTopic(reg, p, {})
           r2   == EnsureTopic(r1, q, {})
<1>1. /\ reg' = r2
      /\ next_client' = c + 1
      /\ connected' = connected \cup {c}
      /\ clients_mte' = clients_mte \cup {name}
      /\ Room(2)
      /\ UNCHANGED <<pubs, subscriptions, ended, told>>
  BY DEF Connect, subVars, taskVars, tellVars
<1> HIDE DEF same, name
<1>4. p = <<"$clientpub", name>> /\ q = <<"$clientsub", name>>
  BY DEF ClientMeta
<1>5. p # q /\ p \notin TopicNames /\ q \notin TopicNames
  BY <1>4 DEF TopicNames, OrdinaryNames, TopicMetas
<1>6. OrdinaryPublished'
  <2>1. SUFFICES ASSUME NEW d \in ClientIdx, NEW x \in PubUIDs, NEW j, j = pubs[d][x],
                        j # None
                 PROVE  reg'.topics[j] \in OrdinaryNames \cup {None}
    BY <1>1 DEF OrdinaryPublished
  <2>2. PICK r : r = reg'
    OBVIOUS
  <2>3. \A i \in TopicIdx : i < reg.next => r.topics[i] \in {reg.topics[i], None}
    BY <2>2 DEF ListingsKept
  <2> QED
    BY <2>1, <2>2, <2>3, StillOrdinary DEF ToldInv
<1>7. next_client \in Nat
  BY RegistryAssumption DEF IInv, TypeOK
<1>8. SubscribersNumbered'
  <2>1. ASSUME NEW s \in SubIdx, subscriptions[s] # None
        PROVE  subscriptions[s].client < next_client + 1
    <3>1. subscriptions[s].client \in ClientIdx
      BY <2>1 DEF IInv, TypeOK
    <3>2. subscriptions[s].client < next_client /\ subscriptions[s].client \in Nat
      BY <2>1, <3>1, RegistryAssumption DEF ToldInv, SubscribersNumbered, ClientIdx
    <3> QED
      BY <1>7, <3>2
  <2> QED
    BY <1>1, <2>1 DEF SubscribersNumbered
<1>9. AllStay' => AllStay
  BY <1>1 DEF AllStay
<1>10. ASSUME AllStay
       PROVE  /\ Straight(r2) /\ Complete(r2)
              /\ \A i \in TopicIdx : r2.topics[i] \in TopicNames => r2.topics[i] = reg.topics[i]
  <2>1. RegistryInv(reg) /\ Straight(reg) /\ Complete(reg)
    BY <1>10 DEF IInv, ToldInv
  <2>2. p \in Names /\ q \in Names
    <3>1. name \in ClientNames
      BY <1>1 DEF IInv, TypeOK
    <3> QED
      BY <3>1 DEF ClientMeta, Names, ClientMetas
  <2>3. reg.next + 2 <= MaxTopics /\ reg.next \in Nat /\ MaxTopics \in Nat
    BY <1>1, RegistryFields, RegistryAssumption DEF Room, IInv, TypeOK
  <2> HIDE DEF p, q
  <2>4. /\ RegistryInv(r1) /\ r1.next <= reg.next + 1
        /\ \A m \in Names \ {p} : r1.topic_map[m] = reg.topic_map[m]
        /\ Straight(r1)
        /\ \A i \in TopicIdx : r1.topics[i] \in {reg.topics[i], p}
    BY <2>1, <2>2, <2>3, EnsureTopicInv, EnsureTopicStraight
  <2> HIDE DEF r1
  <2>5. r1.next < MaxTopics
    <3>1. r1.next \in Nat
      BY <2>4, RegistryFields, RegistryAssumption DEF RegistryInv, TablesInv
    <3> QED
      BY <2>3, <2>4, <3>1
  <2>6. /\ \A m \in Names \ {q} : r2.topic_map[m] = r1.topic_map[m]
        /\ Straight(r2)
        /\ \A i \in TopicIdx : r2.topics[i] \in {r1.topics[i], q}
    BY <2>2, <2>4, <2>5, EnsureTopicInv, EnsureTopicStraight
  <2> HIDE DEF r2
  <2>7. \A m \in TopicNames : r2.topic_map[m] = reg.topic_map[m]
    BY <1>5, <2>4, <2>6 DEF TopicNames, Names
  <2>8. Complete(r2)
    BY <2>1, <2>7, OrdinaryFacts DEF Complete, TopicNames
  <2>9. \A i \in TopicIdx : r2.topics[i] \in TopicNames => r2.topics[i] = reg.topics[i]
    BY <1>5, <2>4, <2>6
  <2> QED
    BY <2>6, <2>8, <2>9
<1> HIDE DEF r2
<1>11. AllStay' => Straight(reg') /\ Complete(reg')
  BY <1>1, <1>9, <1>10
<1>12. SubscribersToldWhileAllStay'
  <2>1. SUFFICES ASSUME AllStay, NEW i \in TopicIdx, NEW s \in SubIdx,
                        r2.topics[i] \in TopicNames, subscriptions[s] # None,
                        r2.topics[i] \in Matches[subscriptions[s].pattern]
                 PROVE  <<subscriptions[s].client, i>> \in told
    BY <1>1, <1>9 DEF SubscribersToldWhileAllStay, AllStay, Everyone, TopicNames
  <2>2. r2.topics[i] = reg.topics[i]
    BY <1>10, <2>1
  <2>3. subscriptions[s].client \in connected
    <3>1. subscriptions[s].client \in ClientIdx /\ subscriptions[s].client < next_client
      BY <2>1 DEF IInv, TypeOK, ToldInv, SubscribersNumbered
    <3>2. connected = 0 .. (next_client - 1)
      BY <2>1 DEF AllStay, Everyone
    <3> QED
      BY <1>7, <3>1, <3>2, RegistryAssumption DEF ClientIdx
  <2> QED
    BY <2>1, <2>2, <2>3 DEF ToldInv, SubscribersToldWhileAllStay, AllStay, Everyone, TopicNames
<1> QED
  BY <1>6, <1>8, <1>11, <1>12 DEF ToldInv

\* Once a client is leaving the property asks for nothing; what remains of the topics
\* is ordinary.
LEMMA DisconnectTold ==
  ASSUME IInv, ListingsInv, ToldInv, ListingsKept(reg, reg'),
         DisconnectStep \/ DisconnectMetas
  PROVE  ToldInv'
<1>1. leaving # None /\ UNCHANGED <<next_client, connected, pubs, subscriptions>>
  BY DEF DisconnectStep, DisconnectMetas, clientVars, subVars
<1>2. ~Everyone'
  <2>1. leaving.client \in 0 .. (next_client - 1) /\ leaving.client \notin connected
    BY <1>1 DEF IInv, LeavingSound, ListingsInv, ClientsNumbered
  <2> QED
    BY <1>1, <2>1 DEF Everyone
<1>3. OrdinaryPublished'
  <2>1. SUFFICES ASSUME NEW d \in ClientIdx, NEW x \in PubUIDs, NEW j, j = pubs[d][x],
                        j # None
                 PROVE  reg'.topics[j] \in OrdinaryNames \cup {None}
    BY <1>1 DEF OrdinaryPublished
  <2>2. PICK r : r = reg'
    OBVIOUS
  <2>3. \A i \in TopicIdx : i < reg.next => r.topics[i] \in {reg.topics[i], None}
    BY <2>2 DEF ListingsKept
  <2> QED
    BY <2>1, <2>2, <2>3, StillOrdinary DEF ToldInv
<1>4. SubscribersNumbered'
  BY <1>1 DEF ToldInv, SubscribersNumbered
<1>5. SubscribersToldWhileAllStay'
  BY <1>2 DEF SubscribersToldWhileAllStay, Everyone
<1> QED
  BY <1>2, <1>3, <1>4, <1>5 DEF ToldInv, AllStay

\* At the start there are the server's metatopics only.
LEMMA InitTold == Init => ToldInv
<1> SUFFICES ASSUME Init  PROVE ToldInv
  OBVIOUS
<1>1. OrdinaryPublished /\ SubscribersNumbered /\ SubscribersToldWhileAllStay
  BY DEF Init, OrdinaryPublished, SubscribersNumbered, SubscribersToldWhileAllStay, NoPubs
<1>2. Straight(reg) /\ Complete(reg)
  <2> DEFINE x  == <<"$clients", "server">>
             y  == <<"$serversub", "server">>
             z  == <<"$serverpub", "server">>
             r1 == EnsureTopic(EmptyRegistry, x, {})
             r2 == EnsureTopic(r1, y, {})
             r3 == EnsureTopic(r2, z, {})
             Bare(r) == /\ \A n \in TopicNames : r.topic_map[n] = None
                        /\ \A i \in TopicIdx : r.topics[i] \notin TopicNames
  <2>1. x \in Names /\ y \in Names /\ z \in Names /\ {x, y, z} \cap TopicNames = {}
    BY DEF Names, ServerMetas, TopicNames, OrdinaryNames, TopicMetas
  <2>2. reg = r3
    BY DEF Init
  <2> HIDE DEF x, y, z
  <2>3. ASSUME NEW r \in Unbounded, Bare(r), NEW n \in Names, n \notin TopicNames
        PROVE  EnsureTopic(r, n, {}) \in Unbounded /\ Bare(EnsureTopic(r, n, {}))
    <3> DEFINE s == EnsureTopic(r, n, {})
    <3>1. s \in Unbounded
      BY EnsureTopicKeeps
    <3>2. CASE r.topic_map[n] # None
      BY <2>3, <3>2 DEF EnsureTopic
    <3>3. CASE r.topic_map[n] = None
      <4>1. s = InsertTopic(r, n, {})
        BY <3>3 DEF EnsureTopic
      <4>2. /\ s.topics = [r.topics EXCEPT ![r.next] = n]
            /\ s.topic_map = [r.topic_map EXCEPT ![n] = r.next]
        BY <4>1 DEF InsertTopic, Unbounded
      <4> HIDE DEF s
      <4>3. TopicNames \subseteq Names
        BY DEF TopicNames, Names
      <4>4. \A m \in TopicNames : s.topic_map[m] = None
        BY <2>3, <4>2, <4>3 DEF Unbounded
      <4>5. \A i \in TopicIdx : s.topics[i] \notin TopicNames
        BY <2>3, <4>2 DEF Unbounded
      <4> QED
        BY <3>1, <4>4, <4>5 DEF s
    <3> QED
      BY <3>2, <3>3
  <2>4. EmptyRegistry \in Unbounded /\ Bare(EmptyRegistry)
    <3>1. EmptyRegistry \in Unbounded
      BY EmptyRegistryInv, RegistryUnbounded DEF RegistryInv, TablesInv
    <3>2. TopicNames \subseteq Names /\ None \notin TopicNames
      BY NoneIsNothing DEF TopicNames, Names
    <3> QED
      BY <3>1, <3>2 DEF EmptyRegistry
  <2> HIDE DEF Bare
  <2>5. r1 \in Unbounded /\ Bare(r1)
    BY <2>1, <2>3, <2>4
  <2> HIDE DEF r1
  <2>6. r2 \in Unbounded /\ Bare(r2)
    BY <2>1, <2>3, <2>5
  <2> HIDE DEF r2
  <2>7. Bare(r3)
    BY <2>1, <2>3, <2>6
  <2> HIDE DEF r3
  <2> QED
    BY <2>2, <2>7, OrdinaryFacts DEF Bare, Straight, Complete, TopicNames
<1> QED
  BY <1>1, <1>2 DEF ToldInv

\* Every step keeps it, when what is published are ordinary topics.
LEMMA NextTold ==
  ASSUME PublishNames \subseteq OrdinaryNames
  PROVE  IInv /\ IInv' /\ ListingsInv /\ ToldInv /\ [Next]_vars => ToldInv'
<1> SUFFICES ASSUME IInv, IInv', ListingsInv, ToldInv, [Next]_vars  PROVE ToldInv'
  OBVIOUS
<1>1. ASSUME NEW asked \in AskedNames, Connect(asked)  PROVE ToldInv'
  BY <1>1, ConnectListings, ConnectTold
<1>2. CASE DisconnectStep \/ DisconnectMetas
  BY <1>2, DisconnectListings, DisconnectTold
<1>3. ASSUME NEW c \in ClientIdx, NEW u \in PubUIDs, NEW n \in PublishNames,
             NEW fl \in PublishFlags, Publish(c, u, n, fl)
      PROVE  ToldInv'
  BY <1>3, PublishMessageTold
<1>4. ASSUME NEW u \in PubUIDs, NEW n \in PublishNames, NEW fl \in PublishFlags,
             HandlePublish(u, n, fl)
      PROVE  ToldInv'
  BY <1>4, HandlePublishTold
<1>5. ASSUME NEW c \in ClientIdx, NEW u \in PubUIDs, Unpublish(c, u)
      PROVE  ToldInv'
  BY <1>5, UnpublishTold
<1>6. ASSUME NEW c \in ClientIdx, NEW w \in SubUIDs, NEW pat \in Patterns, Subscribe(c, w, pat)
      PROVE  ToldInv'
  BY <1>6, SubscribeTold
<1>7. ASSUME \/ \E c \in ClientIdx : ConnectionEnds(c) \/ CloseDropped(c) \/ CloseHandled(c)
             \/ \E c \in ClientIdx, u \in PubUIDs : SetValue(c, u)
             \/ \E n \in PublishNames, p \in PropertyUpdates : SetProperties(n, p[1], p[2])
             \/ \E c \in ClientIdx, w \in SubUIDs : Unsubscribe(c, w)
             \/ \E s \in SubIdx : SendOut(s)
             \/ UNCHANGED vars
      PROVE  ToldInv'
  BY <1>7, AsideTold
<1> QED
  BY <1>1, <1>2, <1>3, <1>4, <1>5, <1>6, <1>7 DEF Next

\* As long as no client has left, subscribe and announce_topic between them tell every
\* subscriber of every topic and topic metatopic it covers, whichever comes first.  The
\* names published are ordinary: a peer that published "$pub$x" itself, and gave it up,
\* would leave that name without a topic, and the add_topic of x would stop at its
\* announcement, before x is announced.
THEOREM SubscribersAreTold ==
  ASSUME PublishNames \subseteq OrdinaryNames
  PROVE  Spec => []SubscribersToldWhileAllStay
<1>1. IInv /\ IInv' /\ ListingsInv /\ [Next]_vars => ListingsInv'
  BY NextListings
<1>2. IInv /\ IInv' /\ ListingsInv /\ ToldInv /\ [Next]_vars => ToldInv'
  BY NextTold
<1>3. ToldInv => SubscribersToldWhileAllStay
  BY DEF ToldInv
<1> QED
  BY <1>1, <1>2, <1>3, InitListings, InitTold, ServerInvariant, PTL DEF Spec
================================================================================
