----------------------------- MODULE TopicRegistry -----------------------------
(***************************************************************************)
(* The topic tables of InnerServer (src/src/server/inner.rs) as a value,   *)
(* and the two functions that change them, add_topic and remove_topic, as  *)
(* operators on that value.  The record fields keep the names of the       *)
(* InnerServer fields they stand for:                                      *)
(*                                                                         *)
(*   topics         index -> name of the topic (None: not in the map)      *)
(*   flags          index -> the PublishProperties that are Some(true)     *)
(*   topic_map      name  -> index                                         *)
(*   pub_count      index -> publisher count (a u16)                       *)
(*   topic_sub_map  index -> the subscription indices to notify            *)
(*   valued         indices that have an entry in topic_value_map          *)
(*   publishers     index of a $clientpub / $serverpub metatopic -> the    *)
(*                  ClientPublisherMTE entries in its metatopic_value_map  *)
(*   next           Counter.topic_idx                                      *)
(*                                                                         *)
(* Every IntMap is a total function whose absent keys map to None.         *)
(***************************************************************************)
EXTENDS Naturals, FiniteSets

CONSTANTS
  Topics,       \* names of ordinary topics
  ClientNames,  \* names of clients, asked for or given
  PubUIDs,      \* publisher uids (u32 in the code)
  MaxClients,   \* bound: clients ever created, the server's own included
  MaxTopics,    \* bound: topic indices ever handed out
  MaxSubs,      \* bound: subscription indices ever handed out
  None          \* an absent map entry, Option::None

TopicIdx  == 0 .. (MaxTopics - 1)
SubIdx    == 0 .. (MaxSubs - 1)
ClientIdx == 0 .. (MaxClients - 1)

\* A topic name is <<kind, what it is of>>.  The strings are never taken apart except
\* for their '$' and the name inside a metatopic name, so the kind says which
\* format! built the name; "topic" is the only kind without a '$'.
OrdinaryNames == {"topic"} \X Topics
TopicMetas    == {"$pub", "$sub"} \X Topics
ClientMetas   == {"$clientpub", "$clientsub"} \X ClientNames
ServerMetas   == {"$clients", "$serversub", "$serverpub"} \X {"server"}
Names         == OrdinaryNames \cup TopicMetas \cup ClientMetas \cup ServerMetas

\* topic_name.contains("$")
IsMeta(n) == n[1] # "topic"

\* format!("$pub${}", name), format!("$sub${}", name)
MetaName(kind, n) == <<kind, n[2]>>

\* The constant relies on try_new adding the three server metatopics first,
\* $clients, $serversub and $serverpub in this order.
SERVER_PUB_METATOPIC == 2

Flags == {"persistent", "retained"}
MaxU16 == 65535

ASSUME RegistryAssumption ==
  /\ MaxClients \in Nat /\ MaxTopics \in Nat /\ MaxSubs \in Nat
  /\ MaxClients >= 1
  /\ MaxTopics >= 3
  /\ None \notin Names
  /\ None \notin Nat
  /\ \A S \in SUBSET SubIdx : None # S

Registry ==
  [ topics        : [TopicIdx -> Names \cup {None}],
    flags         : [TopicIdx -> SUBSET Flags],
    topic_map     : [Names -> TopicIdx \cup {None}],
    pub_count     : [TopicIdx -> (0 .. MaxU16) \cup {None}],
    topic_sub_map : [TopicIdx -> (SUBSET SubIdx) \cup {None}],
    valued        : SUBSET TopicIdx,
    publishers    : [TopicIdx -> SUBSET (Names \X PubUIDs)],
    next          : 0 .. MaxTopics ]

EmptyRegistry ==
  [ topics        |-> [i \in TopicIdx |-> None],
    flags         |-> [i \in TopicIdx |-> {}],
    topic_map     |-> [n \in Names |-> None],
    pub_count     |-> [i \in TopicIdx |-> None],
    topic_sub_map |-> [i \in TopicIdx |-> None],
    valued        |-> {},
    publishers    |-> [i \in TopicIdx |-> {}],
    next          |-> 0 ]

--------------------------------------------------------------------------------

\* Mutant of InitialCount: only the implicit publisher is counted.
InitialCountImplicitOnly(fl) == IF fl # {} THEN 1 ELSE 0

\* topic.has_implicit_publisher(): 2 publishers are counted, else 1.
InitialCount(fl) == IF fl # {} THEN 2 ELSE 1

\* The insertions add_topic makes for a name that is not in topic_map.  The index is
\* always a new one; that a new topic "can overwrite a None" (inner.rs:132) is not so.
InsertTopic(r, n, fl) ==
  [r EXCEPT !.topics[r.next]        = n,
            !.flags[r.next]         = fl,
            !.pub_count[r.next]     = InitialCount(fl),
            !.topic_map[n]          = r.next,
            !.topic_sub_map[r.next] = {},
            !.next                  = r.next + 1]

\* Mutant of EnsureTopic: a name that is there is added once more.
EnsureTopicAnew(r, n, fl) == InsertTopic(r, n, fl)

\* add_topic up to its early return for metatopics: a name that is in topic_map
\* is left as it is.
EnsureTopic(r, n, fl) ==
  IF r.topic_map[n] # None THEN r ELSE InsertTopic(r, n, fl)

\* The index remove_topic finds for the "$pub$" or "$sub$" metatopic of topic i.
\* A metatopic has no metatopics of its own, so its lookup finds nothing.
MetaIdx(r, kind, i) ==
  IF r.topics[i] = None \/ IsMeta(r.topics[i]) THEN None
  ELSE r.topic_map[MetaName(kind, r.topics[i])]

\* remove_topic returns Ok
Removable(r, i) ==
  MetaIdx(r, "$pub", i) # None /\ MetaIdx(r, "$sub", i) # None

\* A map without the keys in S.
Without(f, S) == [k \in DOMAIN f |-> IF k \in S THEN None ELSE f[k]]

\* Mutant of HalfRemoved: topic_sub_map is cleansed before the metatopic lookups.
HalfRemovedCleansed(r, i) ==
  [r EXCEPT !.topics = Without(@, {i}), !.topic_sub_map = Without(@, {i})]

\* What remove_topic leaves behind when one of its three lookups fails: the topic
\* itself is already out of topics and, if "$pub$" was found, that name is already
\* out of topic_map.
HalfRemoved(r, i) ==
  [r EXCEPT
    !.topics    = Without(@, {i}),
    !.topic_map = Without(@, IF MetaIdx(r, "$pub", i) = None THEN {}
                             ELSE {MetaName("$pub", r.topics[i])})]

\* What remove_topic leaves behind when all the lookups succeed.
WhollyRemoved(r, i) ==
  LET n     == r.topics[i]
      metas == {MetaIdx(r, "$pub", i), MetaIdx(r, "$sub", i)}
  IN  [r EXCEPT
        !.topics        = Without(@, {i} \cup metas),
        !.topic_map     = Without(@, {n, MetaName("$pub", n), MetaName("$sub", n)}),
        !.topic_sub_map = Without(@, {i} \cup metas),
        !.valued        = @ \ {i},
        !.publishers    = [j \in TopicIdx |-> IF j \in metas THEN {} ELSE @[j]]]

RemoveTopic(r, i) ==
  IF Removable(r, i) THEN WhollyRemoved(r, i) ELSE HalfRemoved(r, i)

\* Mutant of Decremented: an integer that can be negative.
DecrementedSigned(count) == IF count = 0 THEN 0 - 1 ELSE count - 1

\* *count -= 1 on a u16 that may be 0: with overflow checks the task panics
\* (Underflows), without them the value wraps.
Decremented(count) == IF count = 0 THEN MaxU16 ELSE count - 1

\* "*count -= 1; if *count == 0 { remove_topic }", for a topic that has a count.
ReleaseTopic(r, i) ==
  LET left == Decremented(r.pub_count[i])
      r1   == [r EXCEPT !.pub_count[i] = left]
  IN  IF left = 0 THEN RemoveTopic(r1, i) ELSE r1

\* ReleaseTopic ran remove_topic and it failed.
ReleaseFails(r, i) == r.pub_count[i] = 1 /\ ~Removable(r, i)
================================================================================
