----------------------------- MODULE RegistryRaces -----------------------------
(***************************************************************************)
(* The topic tables of InnerServer (src/src/server/inner.rs) at the grain   *)
(* of its locks: the parser task and the program's own tasks publish, set   *)
(* values, subscribe and unpublish at the same time, and a step is what a   *)
(* task does between getting a lock and getting the next one after letting  *)
(* it go.  An operation that keeps every guard until it has the last        *)
(* (subscribe, unsubscribe) is one step.                                    *)
(*                                                                         *)
(* Every connection is alive, every channel has room, and topics are plain; *)
(* which lock waits for which is the subject of ServerLocks.               *)
(***************************************************************************)
EXTENDS Integers

CONSTANTS
  Parser,     \* the task of message_parser
  Handles,    \* tasks of the program, each with a server handle
  Server,     \* SERVER_CLIENT_IDX, for which handles publish
  Clients,    \* clients, connected for good
  Topics,     \* the ordinary names
  Patterns,   \* what a subscription may ask for
  Matches,    \* Subscription::cares_about: pattern -> the names it covers
  None,
  MaxU16,     \* what a pub_count of 0 becomes where it wraps (65535 in the code)
  MaxTopics,  \* bound: topic indices
  MaxSubs,    \* bound: subscription indices
  MaxCalls    \* bound: operations the tasks begin

Tasks == {Parser} \cup Handles

\* An ordinary name, and its two metatopics
Names     == {"topic", "$pub", "$sub"} \X Topics
Name(x)   == <<"topic", x>>
MetasOf(x) == {<<"$pub", x>>, <<"$sub", x>>}
IsMeta(n) == n[1] # "topic"

Idx == 0 .. (MaxTopics - 1)
Sub == 0 .. (MaxSubs - 1)

ASSUME RacesAssumption ==
  /\ Parser \notin Handles
  /\ Server \notin Clients
  /\ Matches \in [Patterns -> SUBSET Names]
  /\ MaxU16 \in Nat \ {0} /\ MaxTopics \in Nat /\ MaxSubs \in Nat /\ MaxCalls \in Nat
  /\ None \notin Nat \cup Names
  /\ \A S \in (SUBSET Idx) \cup (SUBSET Sub) : S # None
  /\ \A c \in Clients, pat \in Patterns : [client |-> c, pattern |-> pat] # None

VARIABLES
  topics,       \* the name of each topic, or None
  next,         \* Counter.topic_idx
  pub_count,    \* the count of each topic, or None
  topic_map,    \* the index of each name, or None
  lists,        \* topic_sub_map: the subscriptions of each topic, or None
  valued,       \* the keys of topic_value_map
  next_sub,     \* Counter.sub_idx
  subscriptions,\* the client and the pattern of each subscription, or None
  queues,       \* sub_values: the topics with a value queued, or None
  pubs,         \* pubuid_to_topicidx of each client, for one pubuid
  subs,         \* subuid_to_subidx of each client, for one subuid
  told,         \* history: <<c, i>>, an Announce of i went to c
  task,         \* what each task is at
  calls,        \* how many operations have begun
  met,          \* history: what tasks did to a name at the same time
  cut           \* history: subscriptions whose subscribe stopped halfway

tables == <<topics, next, pub_count, topic_map, lists, valued>>
people == <<next_sub, subscriptions, queues, pubs, subs>>
vars   == <<tables, people, told, task, calls, met, cut>>

Idle == [at |-> "idle", who |-> Server, name |-> None, idx |-> None, main |-> None,
         them |-> {}]

Init ==
  /\ topics = [i \in Idx |-> None]
  /\ next = 0
  /\ pub_count = [i \in Idx |-> None]
  /\ topic_map = [n \in Names |-> None]
  /\ lists = [i \in Idx |-> None]
  /\ valued = {}
  /\ next_sub = 0
  /\ subscriptions = [s \in Sub |-> None]
  /\ queues = [s \in Sub |-> None]
  /\ pubs = [c \in Clients |-> None]
  /\ subs = [c \in Clients |-> None]
  /\ told = {}
  /\ task = [t \in Tasks |-> Idle]
  /\ calls = 0
  /\ met = {}
  /\ cut = {}

--------------------------------------------------------------------------------
\* Where tasks are

At(t, stage)   == task[t].at = stage
Goes(t, state) == task' = [task EXCEPT ![t] = state]
Returns(t)     == Goes(t, Idle)
Panics(t)      == Goes(t, [task[t] EXCEPT !.at = "panicked"])

Begins(t, state) ==
  /\ At(t, "idle")
  /\ calls < MaxCalls
  /\ calls' = calls + 1
  /\ Goes(t, state)

\* The binary branch of the parser holds clients, an unpublish pub_count, over
\* several steps.
ClientsFree == task[Parser].at \notin {"check", "queue", "store"}
CountFree   == ~At(Parser, "cleanse")

\* The stages of add_topic that the caller of an ordinary name goes through until
\* its metatopics are there too
Adding == {"insert", "count", "map", "list"}
Creates(t, x) ==
  /\ task[t].name # None /\ task[t].name[2] = x
  /\ \/ task[t].at \in Adding
     \/ task[t].main # None /\ task[t].at \in {"look", "announce", "audience", "tell"}

\* History: task t does something to name x while others are at it.
Meets(t, kind, x) == met' = IF \E u \in Tasks \ {t} : Creates(u, x)
                            THEN met \cup {<<kind, x>>} ELSE met

--------------------------------------------------------------------------------
\* add_topic

\* Look up the name: an index that is there is the result.
Look(t) ==
  LET n == task[t].name
      i == topic_map[n]
  IN  /\ At(t, "look")
      /\ Goes(t, IF i = None THEN [task[t] EXCEPT !.at = "insert"]
                 ELSE IF IsMeta(n) THEN [task[t] EXCEPT !.at = "announce", !.idx = i]
                 ELSE [task[t] EXCEPT !.at = "respond", !.idx = i])
      /\ IF i = None THEN UNCHANGED met ELSE Meets(t, "found", n[2])
      /\ UNCHANGED <<tables, people, told, calls, cut>>

\* Under topics and counters: the topic under a new index.
Insert(t) ==
  /\ At(t, "insert")
  /\ next < MaxTopics
  /\ topics' = [topics EXCEPT ![next] = task[t].name]
  /\ next' = next + 1
  /\ Goes(t, [task[t] EXCEPT !.at = "count", !.idx = next])
  /\ IF topic_map[task[t].name] # None THEN met' = met \cup {<<"twice", task[t].name[2]>>}
     ELSE Meets(t, "twice", task[t].name[2])
  /\ UNCHANGED <<pub_count, topic_map, lists, valued, people, told, calls, cut>>

Count(t) ==
  /\ At(t, "count")
  /\ CountFree
  /\ pub_count' = [pub_count EXCEPT ![task[t].idx] = 1]
  /\ Goes(t, [task[t] EXCEPT !.at = "map"])
  /\ UNCHANGED <<topics, next, topic_map, lists, valued, people, told, calls, met, cut>>

Map(t) ==
  /\ At(t, "map")
  /\ topic_map' = [topic_map EXCEPT ![task[t].name] = task[t].idx]
  /\ Goes(t, [task[t] EXCEPT !.at = "list"])
  /\ UNCHANGED <<topics, next, pub_count, lists, valued, people, told, calls, met, cut>>

\* Mutant of List: metatopics return before they get a list.
ListUnlessMeta(t) ==
  LET n == task[t].name
  IN  /\ At(t, "list")
      /\ lists' = IF IsMeta(n) THEN lists ELSE [lists EXCEPT ![task[t].idx] = {}]
      /\ Goes(t, IF IsMeta(n) THEN [task[t] EXCEPT !.at = "announce"]
                 ELSE [task[t] EXCEPT !.at = "look", !.name = <<"$pub", n[2]>>,
                                      !.idx = None, !.main = task[t].idx])
      /\ UNCHANGED <<topics, next, pub_count, topic_map, valued, people, told, calls, met, cut>>

\* The empty list; an ordinary name goes on with its first metatopic.
List(t) ==
  LET n == task[t].name
  IN  /\ At(t, "list")
      /\ lists' = [lists EXCEPT ![task[t].idx] = {}]
      /\ Goes(t, IF IsMeta(n) THEN [task[t] EXCEPT !.at = "announce"]
                 ELSE [task[t] EXCEPT !.at = "look", !.name = <<"$pub", n[2]>>,
                                      !.idx = None, !.main = task[t].idx])
      /\ UNCHANGED <<topics, next, pub_count, topic_map, valued, people, told, calls, met, cut>>

--------------------------------------------------------------------------------
\* announce_topic

\* Under topics; a topic that is gone ends the whole publish.
Announce(t) ==
  /\ At(t, "announce")
  /\ IF topics[task[t].idx] = None THEN Returns(t)
     ELSE Goes(t, [task[t] EXCEPT !.at = "audience"])
  /\ UNCHANGED <<tables, people, told, calls, met, cut>>

\* The same with a response, under topics and clients.
Respond(t) ==
  LET i == task[t].idx
  IN  /\ At(t, "respond")
      /\ ClientsFree
      /\ IF topics[i] = None THEN Returns(t) /\ UNCHANGED told
         ELSE /\ told' = told \cup {<<task[t].who, i>>}
              /\ Goes(t, [task[t] EXCEPT !.at = "audience"])
      /\ UNCHANGED <<tables, people, calls, met, cut>>

\* Mutant of Audience: those who are in the topic's list are notified.
AudienceOfList(t) ==
  /\ At(t, "audience")
  /\ Goes(t, [task[t] EXCEPT !.at = "tell",
                !.them = {subscriptions[s].client :
                            s \in {s \in Sub : /\ subscriptions[s] # None
                                               /\ lists[task[t].idx] # None
                                               /\ s \in lists[task[t].idx]}}])
  /\ UNCHANGED <<tables, people, told, calls, met, cut>>

\* Under subscriptions: who covers the name.
Audience(t) ==
  /\ At(t, "audience")
  /\ Goes(t, [task[t] EXCEPT !.at = "tell",
                !.them = {subscriptions[s].client :
                            s \in {s \in Sub : /\ subscriptions[s] # None
                                               /\ task[t].name \in Matches[subscriptions[s].pattern]}}])
  /\ UNCHANGED <<tables, people, told, calls, met, cut>>

\* Under clients: each of them is told, and the publish goes on with the next
\* metatopic, the answer to the publisher, or its registration.
Tell(t) ==
  LET n == task[t].name
      r == [task[t] EXCEPT !.them = {}]
  IN  /\ At(t, "tell")
      /\ ClientsFree
      /\ told' = told \cup (task[t].them \X {task[t].idx})
      /\ Goes(t, CASE n[1] = "$pub"  -> [r EXCEPT !.at = "look", !.name = <<"$sub", n[2]>>,
                                                  !.idx = None]
                   [] n[1] = "$sub"  -> [r EXCEPT !.at = "respond", !.name = Name(n[2]),
                                                  !.idx = r.main, !.main = None]
                   [] n[1] = "topic" -> [r EXCEPT !.at = "register"])
      /\ UNCHANGED <<tables, people, calls, met, cut>>

--------------------------------------------------------------------------------
\* Publishing, values, unpublishing

\* inner_publish_topic begins, from a message of a client or a call of a handle.
Publish(t, c, x) ==
  /\ Begins(t, [Idle EXCEPT !.at = "look", !.who = c, !.name = Name(x)])
  /\ UNCHANGED <<tables, people, told, met, cut>>

\* Its end: the pubuid of a client is registered, a handle goes on to set_value.
\* (The handle's pubuid is drawn at random and never used again.)
Register(t) ==
  /\ At(t, "register")
  /\ ClientsFree
  /\ IF task[t].who = Server
     THEN Goes(t, [task[t] EXCEPT !.at = "check"]) /\ UNCHANGED pubs
     ELSE Returns(t) /\ pubs' = [pubs EXCEPT ![task[t].who] = task[t].idx]
  /\ UNCHANGED <<tables, next_sub, subscriptions, queues, subs, told, calls, met, cut>>

\* A value of a client, in a binary message
SetValue(c) ==
  /\ pubs[c] # None
  /\ Begins(Parser, [Idle EXCEPT !.at = "check", !.who = c, !.idx = pubs[c],
                                 !.name = topics[pubs[c]]])
  /\ UNCHANGED <<tables, people, told, met, cut>>

\* set_value under topics: only a topic that is there is set.
Check(t) ==
  /\ At(t, "check")
  /\ IF topics[task[t].idx] = None THEN Returns(t)
     ELSE Goes(t, [task[t] EXCEPT !.at = "queue"])
  /\ UNCHANGED <<tables, people, told, calls, met, cut>>

\* Mutant of Queue: every subscription that covers the name gets the value.
QueueForAll(t) ==
  LET i == task[t].idx
      notified == {s \in Sub : /\ subscriptions[s] # None
                               /\ topics[i] \in Matches[subscriptions[s].pattern]}
  IN  /\ At(t, "queue")
      /\ queues' = [s \in Sub |-> IF s \in notified THEN queues[s] \cup {i} ELSE queues[s]]
      /\ Goes(t, [task[t] EXCEPT !.at = "store"])
      /\ UNCHANGED <<tables, next_sub, subscriptions, pubs, subs, told, calls, met, cut>>

\* set_value under sub_values and topic_sub_map: the value is queued for the topic's
\* subscriptions in the order of the list.  No list, or a subscription without a
\* queue, is the panic of an unwrap.
Queue(t) ==
  LET i == task[t].idx
      unknown == {s \in lists[i] : queues[s] = None}
      served  == {s \in lists[i] : \A b \in unknown : s < b}
  IN  /\ At(t, "queue")
      /\ IF lists[i] = None THEN Panics(t) /\ UNCHANGED queues
         ELSE /\ queues' = [s \in Sub |-> IF s \in served THEN queues[s] \cup {i} ELSE queues[s]]
              /\ IF unknown # {} THEN Panics(t) ELSE Goes(t, [task[t] EXCEPT !.at = "store"])
      /\ UNCHANGED <<tables, next_sub, subscriptions, pubs, subs, told, calls, met, cut>>

\* set_value under topic_value_map
Store(t) ==
  /\ At(t, "store")
  /\ valued' = valued \cup {task[t].idx}
  /\ Returns(t)
  /\ UNCHANGED <<topics, next, pub_count, topic_map, lists, people, told, calls, met, cut>>

\* inner_unpublish_topic begins: the pubuid is taken out under clients.
Unpublish(c) ==
  /\ pubs[c] # None
  /\ pubs' = [pubs EXCEPT ![c] = None]
  /\ Begins(Parser, [Idle EXCEPT !.at = "release", !.who = c, !.idx = pubs[c]])
  /\ UNCHANGED <<tables, next_sub, subscriptions, queues, subs, told, met, cut>>

\* Mutant of Release: the count is signed, and compared before it is decremented.
ReleaseSigned ==
  LET i == task[Parser].idx
  IN  /\ At(Parser, "release")
      /\ pub_count[i] \notin {None, -1}
      /\ pub_count' = [pub_count EXCEPT ![i] = @ - 1]
      /\ Returns(Parser)
      /\ UNCHANGED <<topics, next, topic_map, lists, valued, people, told, calls, met, cut>>

\* The decrement under pub_count, and what remove_topic does under topics and
\* topic_map on the way to 0: the topic goes first, and a metatopic that is missing
\* ends the removal there.  A count that is 0 panics or wraps, as the build has it.
Release ==
  LET i == task[Parser].idx
      n == topics[i]
      p == topic_map[<<"$pub", n[2]>>]
      q == topic_map[<<"$sub", n[2]>>]
  IN  /\ At(Parser, "release")
      /\ CASE pub_count[i] = None ->
                Returns(Parser) /\ UNCHANGED <<pub_count, topics, topic_map, met>>
           [] pub_count[i] = 0 ->
                /\ \/ Panics(Parser) /\ UNCHANGED pub_count
                   \/ Returns(Parser) /\ pub_count' = [pub_count EXCEPT ![i] = MaxU16]
                /\ UNCHANGED <<topics, topic_map, met>>
           [] pub_count[i] \notin {None, 0, 1} ->
                /\ Returns(Parser)
                /\ pub_count' = [pub_count EXCEPT ![i] = @ - 1]
                /\ UNCHANGED <<topics, topic_map, met>>
           [] pub_count[i] = 1 ->
                /\ pub_count' = [pub_count EXCEPT ![i] = 0]
                /\ IF n = None THEN Returns(Parser) /\ UNCHANGED <<topics, topic_map, met>>
                   ELSE /\ met' = met \cup
                             {<<"torn", n[2]>> : t \in {t \in Handles : Creates(t, n[2])}} \cup
                             {<<"gone", n[2]>> : t \in {t \in Handles : task[t].idx = i}}
                        /\ IF None \in {p, q}
                           THEN /\ topics' = [topics EXCEPT ![i] = None]
                                /\ topic_map' = [topic_map EXCEPT ![<<"$pub", n[2]>>] = None]
                                /\ Returns(Parser)
                           ELSE /\ topics' = [j \in Idx |-> IF j \in {i, p, q} THEN None
                                                            ELSE topics[j]]
                                /\ topic_map' = [m \in Names |-> IF m[2] = n[2] THEN None
                                                                 ELSE topic_map[m]]
                                /\ Goes(Parser, [task[Parser] EXCEPT !.at = "cleanse",
                                                                     !.them = {i, p, q}])
      /\ UNCHANGED <<next, lists, valued, people, told, calls, cut>>

\* The rest of remove_topic and of the unpublish, pub_count still held.
Cleanse ==
  LET gone == task[Parser].them
  IN  /\ At(Parser, "cleanse")
      /\ lists' = [j \in Idx |-> IF j \in gone THEN None ELSE lists[j]]
      /\ valued' = valued \ {task[Parser].idx}
      /\ pub_count' = [pub_count EXCEPT ![task[Parser].idx] = None]
      /\ Returns(Parser)
      /\ UNCHANGED <<topics, next, topic_map, people, told, calls, met, cut>>

--------------------------------------------------------------------------------
\* Subscriptions

\* subscribe.  A covered name without a list ends it after some of the others were
\* given the new index, in no fixed order, and before anything else is recorded.
Subscribe(c, pat) ==
  LET s       == next_sub
      wanted  == {topic_map[n] : n \in Matches[pat]} \ {None}
      missing == {i \in wanted : lists[i] = None}
      known   == {topic_map[n] : n \in {n \in Matches[pat] :
                    /\ topic_map[n] # None
                    /\ IsMeta(n) \/ topics[topic_map[n]] # None \/ topic_map[n] \in valued}}
      Push(S) == lists' = [i \in Idx |-> IF i \in S THEN lists[i] \cup {s} ELSE lists[i]]
  IN  /\ s < MaxSubs
      /\ Begins(Parser, Idle)
      /\ next_sub' = s + 1
      /\ IF missing # {}
         THEN /\ \E S \in SUBSET (wanted \ missing) : Push(S)
              /\ cut' = cut \cup {s}
              /\ UNCHANGED <<subscriptions, queues, subs, told>>
         ELSE /\ Push(wanted)
              /\ subscriptions' = [subscriptions EXCEPT ![s] = [client |-> c, pattern |-> pat]]
              /\ queues' = [queues EXCEPT ![s] = {}]
              /\ subs' = [subs EXCEPT ![c] = s]
              /\ told' = told \cup ({c} \X known)
              /\ UNCHANGED cut
      /\ UNCHANGED <<topics, next, pub_count, topic_map, valued, pubs, met>>

\* Mutant of Unsubscribe: the topics keep the subscription in their lists.
UnsubscribeKeepingLists(c) ==
  LET s == subs[c]
  IN  /\ s # None
      /\ Begins(Parser, Idle)
      /\ subs' = [subs EXCEPT ![c] = None]
      /\ subscriptions' = [subscriptions EXCEPT ![s] = None]
      /\ queues' = [queues EXCEPT ![s] = None]
      /\ UNCHANGED <<tables, next_sub, pubs, told, met, cut>>

\* unsubscribe
Unsubscribe(c) ==
  LET s == subs[c]
  IN  /\ s # None
      /\ Begins(Parser, Idle)
      /\ subs' = [subs EXCEPT ![c] = None]
      /\ lists' = [i \in Idx |-> IF lists[i] = None THEN None ELSE lists[i] \ {s}]
      /\ subscriptions' = [subscriptions EXCEPT ![s] = None]
      /\ queues' = [queues EXCEPT ![s] = None]
      /\ UNCHANGED <<topics, next, pub_count, topic_map, valued, next_sub, pubs, told, met, cut>>

--------------------------------------------------------------------------------

TaskStep(t) ==
  \/ Look(t) \/ Insert(t) \/ Count(t) \/ Map(t) \/ List(t)
  \/ Announce(t) \/ Respond(t) \/ Audience(t) \/ Tell(t) \/ Register(t)
  \/ Check(t) \/ Queue(t) \/ Store(t)

Next ==
  \/ \E t \in Tasks : TaskStep(t)
  \/ \E x \in Topics :
       \/ \E c \in Clients : Publish(Parser, c, x)
       \/ \E t \in Handles : Publish(t, Server, x)
  \/ \E c \in Clients : SetValue(c) \/ Unpublish(c) \/ Unsubscribe(c)
  \/ Release \/ Cleanse
  \/ \E c \in Clients, pat \in Patterns : Subscribe(c, pat)

Spec == Init /\ [][Next]_vars

--------------------------------------------------------------------------------
\* What is checked

Stages == {"idle", "look", "insert", "count", "map", "list", "announce", "respond",
           "audience", "tell", "register", "check", "queue", "store", "release",
           "cleanse", "panicked"}

\* Every table and every task's state holds what its type says.
TypeOK ==
  /\ topics \in [Idx -> Names \cup {None}]
  /\ next \in 0 .. MaxTopics
  /\ pub_count \in [Idx -> (0 .. MaxU16) \cup {None}]
  /\ topic_map \in [Names -> Idx \cup {None}]
  /\ lists \in [Idx -> (SUBSET Sub) \cup {None}]
  /\ valued \subseteq Idx
  /\ next_sub \in 0 .. MaxSubs
  /\ subscriptions \in [Sub -> [client : Clients, pattern : Patterns] \cup {None}]
  /\ queues \in [Sub -> (SUBSET Idx) \cup {None}]
  /\ pubs \in [Clients -> Idx \cup {None}]
  /\ subs \in [Clients -> Sub \cup {None}]
  /\ told \subseteq (Clients \cup {Server}) \X Idx
  /\ task \in [Tasks -> [at : Stages, who : Clients \cup {Server}, name : Names \cup {None},
                          idx : Idx \cup {None}, main : Idx \cup {None},
                          them : SUBSET (Clients \cup Idx)]]
  /\ calls \in 0 .. MaxCalls
  /\ met \subseteq {"found", "twice", "torn", "gone"} \X Topics
  /\ cut \subseteq Sub

\* A subscription that covers a topic has been told its id, or a task that announces
\* the topic has not looked yet who covers it or is about to tell: whichever of
\* subscribe and add_topic comes first, one of them finds the other.
SubscriberToldOrAboutToBe ==
  \A n \in Names, s \in Sub :
    LET i == topic_map[n]
    IN  (/\ i # None /\ topics[i] # None
         /\ subscriptions[s] # None
         /\ n \in Matches[subscriptions[s].pattern])
        => \/ <<subscriptions[s].client, i>> \in told
           \/ \E t \in Tasks :
                \/ task[t].idx = i /\ task[t].at \in {"list", "announce", "respond", "audience"}
                \/ task[t].idx = i /\ At(t, "tell") /\ subscriptions[s].client \in task[t].them
                \/ task[t].main = i

Torn == \E x \in Topics : <<"torn", x>> \in met

\* A value waits in a subscription only for a topic whose id went to its client, as
\* long as no topic was unpublished while it was being created.
ValueOnlyAfterAnnounce ==
  ~Torn => \A s \in Sub : subscriptions[s] # None =>
    \A i \in queues[s] : <<subscriptions[s].client, i>> \in told

Mapped(n) == topic_map[n] # None /\ topics[topic_map[n]] = n

\* While nobody creates or removes a topic, the tables agree about it: its name leads
\* to it, somebody counts as its publisher, it has a list and both metatopics - unless two
\* tasks have inserted one name, or it was unpublished while it was being created.
TablesAgree ==
  \A x \in Topics :
    LET i == topic_map[Name(x)]
    IN  (/\ <<"twice", x>> \notin met /\ <<"torn", x>> \notin met
         /\ \A t \in Tasks : ~Creates(t, x) /\ ~At(t, "cleanse"))
        => /\ \A j \in Idx : topics[j] = Name(x) => i = j
           /\ i # None => /\ \A n \in {Name(x)} \cup MetasOf(x) : Mapped(n)
                          /\ pub_count[i] \notin {None, 0}
                          /\ \A n \in {Name(x)} \cup MetasOf(x) : lists[topic_map[n]] # None

\* set_value panics only when the topic was found before its creator had finished,
\* was removed meanwhile, or has a subscription that was cut short in its list.
PanicsNeedARace ==
  \A t \in Tasks : At(t, "panicked") =>
    met # {} \/ \E i \in Idx : lists[i] # None /\ lists[i] \cap cut # {}

================================================================================
