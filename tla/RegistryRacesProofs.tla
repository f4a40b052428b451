------------------------- MODULE RegistryRacesProofs -------------------------
(***************************************************************************)
(* Proofs about RegistryRaces, for any number of tasks, clients, topics and *)
(* subscriptions and any bounds.                                            *)
(***************************************************************************)
EXTENDS RegistryRaces, TLAPS

TaskStates == [at : Stages, who : Clients \cup {Server}, name : Names \cup {None},
               idx : Idx \cup {None}, main : Idx \cup {None}, them : SUBSET (Clients \cup Idx)]

\* The stages of add_topic under an index of one's own, and those that metatopics add
Busy  == {"count", "map", "list"}
Steps == {"look", "announce", "audience", "tell"}

\* Task t is creating the topic of index i, alone.
Making(t, i) ==
  \/ task[t].at \in Busy /\ task[t].idx = i
  \/ task[t].main # None /\ task[t].main = i

\* Task t has got hold of the ordinary topic i, to answer, register, set or release.
Holds(t, i) ==
  /\ task[t].idx = i
  /\ \/ task[t].at \in {"respond", "register", "check", "queue", "store", "release", "panicked"}
     \/ task[t].at \in {"audience", "tell"} /\ ~IsMeta(task[t].name)

Held(i) == (\E c \in Clients : pubs[c] = i) \/ \E t \in Tasks : Holds(t, i)

IsTorn(x)  == <<"torn", x>> \in met
IsTwice(x) == <<"twice", x>> \in met

--------------------------------------------------------------------------------
\* The inductive invariant

\* What a task keeps fits the stage where it is.
Shaped(t) ==
  LET r == task[t]
  IN  /\ r.at \in Steps \cup Adding \cup {"respond", "register"} => r.name # None
      /\ r.idx = None <=> r.at \in {"idle", "look", "insert"}
      /\ r.at = "announce" => IsMeta(r.name)
      /\ r.at \in {"respond", "register"} => ~IsMeta(r.name)
      /\ r.at \in Steps \cup Adding => (r.main # None <=> IsMeta(r.name))
      /\ r.main # None => r.at \in Steps \cup Adding
      /\ r.at = "tell" => r.them \subseteq Clients
      /\ r.at \in {"release", "cleanse"} => t = Parser

\* Every index and subscription in use is below the counter.
Fresh ==
  /\ \A i \in Idx : topics[i] # None => i < next
  /\ \A n \in Names : topic_map[n] # None => topic_map[n] < next
  /\ \A c \in Clients : pubs[c] # None => pubs[c] < next
  /\ \A t \in Tasks : /\ task[t].idx # None => task[t].idx < next
                      /\ task[t].main # None => task[t].main < next

FreshSubs ==
  /\ \A s \in Sub : s >= next_sub =>
       /\ subscriptions[s] = None
       /\ s \notin cut
       /\ \A i \in Idx : lists[i] # None => s \notin lists[i]
  /\ \A c \in Clients : subs[c] # None => subs[c] < next_sub /\ subs[c] \notin cut

\* What leads to an index knows the name of its topic, if that is still there; the
\* metatopic that a creator is at is there as long as the topic itself is there and
\* its name leads to it.
NamedTask(t) ==
  LET r == task[t]
  IN  /\ r.idx # None /\ r.name # None => topics[r.idx] \in {r.name, None}
      /\ r.main # None => topics[r.main] \in {Name(r.name[2]), None}
      /\ r.name \in Names => \A i \in Idx : Holds(t, i) => ~IsMeta(r.name)
      /\ (/\ r.main # None /\ topics[r.main] # None
          /\ topic_map[Name(r.name[2])] = r.main
          /\ r.idx # None) => topics[r.idx] # None

Ordinary(i) == topics[i] = None \/ ~IsMeta(topics[i])

Named ==
  /\ \A n \in Names : topic_map[n] # None =>
       topics[topic_map[n]] = n \/ (~IsMeta(n) /\ topics[topic_map[n]] = None)
  /\ \A t \in Tasks : NamedTask(t)
  /\ \A i \in Idx : Held(i) => Ordinary(i)

\* An index has one creator, and nobody knows it before the creator has mapped it.
Owners == \A t, u \in Tasks, i \in Idx : Making(t, i) /\ Making(u, i) => t = u

Unmapped ==
  \A t \in Tasks, i \in Idx : task[t].at \in {"count", "map"} /\ task[t].idx = i =>
    /\ topics[i] = task[t].name
    /\ \A n \in Names : topic_map[n] # i
    /\ ~Held(i)

\* A topic that is there has a positive count and a list as soon as its creator has
\* made them.
Counted ==
  \A i \in Idx : topics[i] # None =>
    /\ (\A t \in Tasks : ~(task[t].at = "count" /\ task[t].idx = i)) => pub_count[i] \notin {None, 0}
    /\ (\A t \in Tasks : ~(task[t].at \in Busy /\ task[t].idx = i)) => lists[i] # None

\* What is being cleansed is in no other table.
Going ==
  At(Parser, "cleanse") =>
    /\ task[Parser].idx \in task[Parser].them
    /\ \A j \in task[Parser].them : /\ j \in Idx /\ j < next /\ topics[j] = None
                                    /\ \A n \in Names : topic_map[n] # j

\* Unless name x was unpublished while it was being created, what is mapped is there,
\* a creator finds what it has made, and a mapped name without both metatopics has a
\* creator.
Whole ==
  \A x \in Topics : ~IsTorn(x) =>
    /\ \A n \in Names : n[2] = x /\ topic_map[n] # None => topics[topic_map[n]] = n
    /\ topic_map[Name(x)] # None =>
         (\A n \in MetasOf(x) : topic_map[n] # None) \/ \E t \in Tasks : Creates(t, x)

SoFar(t) ==
  LET r == task[t]
  IN  \A x \in Topics : Creates(t, x) /\ ~IsTorn(x) =>
        /\ r.idx # None => topics[r.idx] = r.name
        /\ r.main # None => topics[r.main] = Name(x)
        /\ r.name[1] = "$sub" => topic_map[<<"$pub", x>>] # None
        /\ IsMeta(r.name) /\ r.at \in {"list", "announce", "audience", "tell"} =>
             topic_map[r.name] # None

\* Unless two tasks have inserted name x, it has one topic, and one task at most is
\* about to map it.
Once ==
  \A x \in Topics : ~IsTwice(x) =>
    /\ \A t \in Tasks : task[t].at \in {"count", "map"} /\ task[t].name = Name(x) =>
         /\ topic_map[Name(x)] = None
         /\ \A u \in Tasks : task[u].at \in {"count", "map"} /\ task[u].name = Name(x) => u = t
    /\ ~IsTorn(x) => \A j \in Idx : topics[j] = Name(x) =>
         \/ topic_map[Name(x)] = j
         \/ \E t \in Tasks : task[t].at \in {"count", "map"} /\ task[t].idx = j

\* A subscription in a list has a queue unless its subscribe was cut short, and its
\* client has been told of the topic unless some topic was torn.
Listed ==
  /\ \A s \in Sub, i \in Idx : lists[i] # None /\ s \in lists[i] => s \in cut \/ queues[s] # None
  /\ \A s \in Sub : subscriptions[s] # None <=> queues[s] # None
  /\ ~Torn => \A s \in Sub, i \in Idx :
       lists[i] # None /\ s \in lists[i] /\ subscriptions[s] # None =>
         <<subscriptions[s].client, i>> \in told

\* While no two tasks have met, nobody else holds what is being created or cleansed,
\* and what is held and gone has no count.
Apart ==
  met = {} =>
    /\ \A i \in Idx : Held(i) => \A u \in Tasks : ~Making(u, i)
    /\ At(Parser, "cleanse") => \A t \in Handles, i \in task[Parser].them :
         ~Holds(t, i) /\ task[t].main # i
    /\ \A i \in Idx : topics[i] = None /\ Held(i) =>
         pub_count[i] = None \/ (At(Parser, "cleanse") /\ task[Parser].idx = i)

\* Then a value finds a list, or one with a subscription that was cut short.
CalmTask(t) ==
  met = {} =>
    /\ At(t, "queue") => lists[task[t].idx] # None
    /\ At(t, "panicked") => lists[task[t].idx] # None /\ lists[task[t].idx] \cap cut # {}

TablesInv == Named /\ Owners /\ Unmapped /\ Counted /\ Going /\ Whole /\ Once
TasksInv  == \A t \in Tasks : Shaped(t) /\ SoFar(t) /\ CalmTask(t)

IInv ==
  /\ TypeOK /\ TasksInv /\ Fresh /\ FreshSubs /\ TablesInv /\ Listed /\ Apart
  /\ SubscriberToldOrAboutToBe /\ ValueOnlyAfterAnnounce

--------------------------------------------------------------------------------
\* Names and states

LEMMA NameFacts ==
  /\ \A x \in Topics : /\ Name(x) \in Names /\ ~IsMeta(Name(x)) /\ Name(x)[2] = x
                       /\ \A n \in MetasOf(x) : n \in Names /\ IsMeta(n) /\ n[2] = x
  /\ \A n \in Names : /\ n[2] \in Topics /\ n # None
                      /\ ~IsMeta(n) => n = Name(n[2]) /\ n[1] = "topic"
                      /\ IsMeta(n) => n[1] \in {"$pub", "$sub"} /\ n = <<n[1], n[2]>>
  BY RacesAssumption DEF Names, Name, IsMeta, MetasOf

LEMMA IdxFacts ==
  /\ None \notin Idx /\ None \notin Sub /\ None \notin Nat
  /\ \A i \in Idx : i \in Nat /\ i < MaxTopics
  /\ \A s \in Sub : s \in Nat /\ s < MaxSubs
  /\ MaxTopics \in Nat /\ MaxSubs \in Nat /\ MaxCalls \in Nat /\ MaxU16 \in Nat /\ 1 <= MaxU16
  BY RacesAssumption DEF Idx, Sub

LEMMA IdleFacts ==
  /\ Idle \in TaskStates /\ Idle.at = "idle" /\ Idle.name = None /\ Idle.idx = None
  /\ Idle.main = None /\ Idle.them = {} /\ Idle.who = Server
  BY DEF Idle, TaskStates, Stages

\* A task goes to another state, the others stay.
LEMMA GoesTo ==
  ASSUME task \in [Tasks -> TaskStates], NEW t \in Tasks, NEW r \in TaskStates, Goes(t, r)
  PROVE  /\ task' \in [Tasks -> TaskStates]
         /\ task'[t] = r
         /\ \A u \in Tasks : u # t => task'[u] = task[u]
  BY DEF Goes

--------------------------------------------------------------------------------
\* Steps that leave the tables as they are

Base == TypeOK /\ \A t \in Tasks : Shaped(t)

\* A name that nobody creates, or somebody has met its creator, leads to i.
Found(i) ==
  \E n \in Names : /\ topic_map[n] = i
                   /\ ~IsMeta(n)
                   /\ met' = {} => \A u \in Tasks : ~Creates(u, n[2])

\* Task t is to tell the client of s about topic i.
About(t, s, i) ==
  \/ task[t].idx = i /\ task[t].at \in {"list", "announce", "respond", "audience"}
  \/ task[t].idx = i /\ At(t, "tell") /\ subscriptions[s].client \in task[t].them
  \/ task[t].main = i

Covers(s, n) ==
  /\ topic_map[n] # None /\ topics[topic_map[n]] # None
  /\ subscriptions[s] # None /\ n \in Matches[subscriptions[s].pattern]

\* What task t may do to what the invariant is about while no table changes but a count
Moves(t) ==
  /\ UNCHANGED <<topics, next, topic_map, lists, next_sub, subscriptions, subs, cut>>
  /\ met \subseteq met' /\ told \subseteq told'
  /\ \A i \in Idx : \/ pub_count'[i] = pub_count[i]
                   \/ /\ topics[i] # None => pub_count'[i] \notin {None, 0}
                      /\ topics[i] = None /\ met = {} => pub_count'[i] = None
  /\ \A u \in Tasks : u # t => task'[u] = task[u]
  /\ task[t].at \notin Busy \cup {"cleanse"} /\ task'[t].at \notin Busy \cup {"cleanse"}
  /\ \A s \in Sub : queues'[s] = None <=> queues[s] = None
  /\ task'[t].main \in {task[t].main, None}
  /\ task'[t].idx # None => task'[t].idx < next
  /\ \A c \in Clients : pubs'[c] = None \/ pubs'[c] = pubs[c] \/ Holds(t, pubs'[c])
  /\ \A i \in Idx : Holds(t, i)' =>
       \/ Holds(t, i)
       \/ task[t].main = i /\ task'[t].main = None
       \/ t = Parser /\ \E c \in Clients : pubs[c] = i
       \/ Found(i)
  /\ \A x \in Topics : Creates(t, x) /\ ~Creates(t, x)' /\ ~IsTorn(x) =>
       \A n \in MetasOf(x) : topic_map[n] # None
  /\ NamedTask(t)' /\ SoFar(t)' /\ CalmTask(t)'
  /\ \A n \in Names, s \in Sub : Covers(s, n) /\ About(t, s, topic_map[n]) =>
       \/ <<subscriptions[s].client, topic_map[n]>> \in told'
       \/ About(t, s, topic_map[n])'

\* Where a topic that is held after such a step comes from
LEMMA HeldAfter ==
  ASSUME Base, NEW t \in Tasks, Moves(t), NEW i \in Idx, Held(i)'
  PROVE  \/ Held(i)
         \/ task[t].main = i /\ task'[t].main = None
         \/ Found(i)
<1>1. CASE \E c \in Clients : pubs'[c] = i
  <2>1. PICK c \in Clients : pubs'[c] = i
    BY <1>1
  <2>2. i # None
    BY IdxFacts
  <2> QED
    BY <2>1, <2>2 DEF Moves, Held
<1>2. CASE \E u \in Tasks : Holds(u, i)'
  <2>1. PICK u \in Tasks : Holds(u, i)'
    BY <1>2
  <2>2. CASE u = t
    BY <2>1, <2>2 DEF Moves, Held
  <2>3. CASE u # t
    <3>1. task'[u] = task[u]
      BY <2>3 DEF Moves
    <3>2. Holds(u, i)
      BY <2>1, <3>1 DEF Holds
    <3> QED
      BY <3>2 DEF Held
  <2> QED
    BY <2>2, <2>3
<1>3. (\E c \in Clients : pubs'[c] = i) \/ \E u \in Tasks : Holds(u, i)'
  BY DEF Held
<1> QED
  BY <1>1, <1>2, <1>3

\* Who creates after such a step created before.
LEMMA MakingAfter ==
  ASSUME Base, NEW t \in Tasks, Moves(t), NEW u \in Tasks, NEW i \in Idx, Making(u, i)'
  PROVE  Making(u, i)
<1>1. CASE u = t
  BY <1>1 DEF Moves, Making
<1>2. CASE u # t
  <2>1. task'[u] = task[u]
    BY <1>2 DEF Moves
  <2> QED
    BY <2>1 DEF Making
<1> QED
  BY <1>1, <1>2

\* A task that creates a topic which a name leads to creates that name.
LEMMA MakerCreates ==
  ASSUME Base, Named, Unmapped, NEW n \in Names, ~IsMeta(n), topic_map[n] # None,
         topics[topic_map[n]] = n, NEW u \in Tasks, Making(u, topic_map[n])
  PROVE  Creates(u, n[2])
<1>1. topic_map[n] \in Idx /\ n # None
  BY NameFacts DEF Base, TypeOK
<1>2. NamedTask(u) /\ Shaped(u) /\ task[u] \in TaskStates
  BY DEF Named, Base, TypeOK, TaskStates
<1>3. CASE task[u].at \in Busy /\ task[u].idx = topic_map[n]
  <2>1. task[u].name # None /\ task[u].idx # None
    BY <1>2, <1>3, IdxFacts, <1>1 DEF Shaped, Busy, Adding
  <2>2. n = task[u].name
    BY <1>1, <1>2, <1>3, <2>1 DEF NamedTask
  <2> QED
    BY <1>3, <2>1, <2>2 DEF Creates, Busy, Adding
<1>4. CASE task[u].main # None /\ task[u].main = topic_map[n]
  <2>1. task[u].at \in Steps \cup Adding /\ task[u].name # None /\ task[u].name \in Names
    BY <1>2, <1>4 DEF Shaped, TaskStates
  <2>2. n = Name(task[u].name[2])
    BY <1>1, <1>2, <1>4 DEF NamedTask
  <2>3. n[2] = task[u].name[2]
    BY <2>1, <2>2, NameFacts
  <2> QED
    BY <1>4, <2>1, <2>3 DEF Creates, Steps
<1> QED
  BY <1>3, <1>4 DEF Making

LEMMA TornStays ==
  ASSUME met \subseteq met', NEW x
  PROVE  (IsTorn(x) => IsTorn(x)') /\ (IsTwice(x) => IsTwice(x)') /\ (met' = {} => met = {})
  BY DEF IsTorn, IsTwice

LEMMA TornSomewhere ==
  ASSUME met \subseteq met', ~Torn' PROVE ~Torn
  BY DEF Torn

\* A task that stays as it is creates what it created, holds what it held.
LEMMA SameTask ==
  ASSUME NEW u \in Tasks, task'[u] = task[u]
  PROVE  /\ \A x : Creates(u, x)' <=> Creates(u, x)
         /\ \A i : Making(u, i)' <=> Making(u, i)
         /\ \A i : Holds(u, i)' <=> Holds(u, i)
  BY DEF Creates, Making, Holds

LEMMA MovesNamed ==
  ASSUME IInv, Base', NEW t \in Tasks, Moves(t)
  PROVE  Named'
<1>1. UNCHANGED <<topics, topic_map>> /\ Named /\ Base
  BY DEF Moves, IInv, TablesInv, Base, TasksInv
<1>2. \A n \in Names : topic_map'[n] # None =>
        topics'[topic_map'[n]] = n \/ (~IsMeta(n) /\ topics'[topic_map'[n]] = None)
  BY <1>1 DEF Named
<1>3. ASSUME NEW u \in Tasks PROVE NamedTask(u)'
  <2>1. CASE u = t
    BY <2>1 DEF Moves
  <2>2. CASE u # t
    <3>1. task'[u] = task[u]
      BY <2>2 DEF Moves
    <3>2. NamedTask(u)
      BY <1>1 DEF Named
    <3> QED
      BY <1>1, <3>1, <3>2 DEF NamedTask, Holds
  <2> QED
    BY <2>1, <2>2
<1>4. ASSUME NEW i \in Idx, Held(i)' PROVE Ordinary(i)'
  <2>1. CASE Held(i)
    BY <1>1, <2>1 DEF Named, Ordinary
  <2>2. CASE task[t].main = i
    <3>1. /\ topics[i] \in {Name(task[t].name[2]), None}
          /\ task[t].name \in Names
      <4>1. i # None /\ task[t] \in TaskStates /\ Shaped(t) /\ NamedTask(t)
        BY <1>1, IdxFacts DEF Named, Base, TypeOK, TaskStates
      <4> QED
        BY <2>2, <4>1 DEF NamedTask, Shaped, TaskStates
    <3> QED
      BY <1>1, <3>1, NameFacts DEF Ordinary
  <2>3. CASE Found(i)
    <3>1. PICK n \in Names : topic_map[n] = i /\ ~IsMeta(n)
      BY <2>3 DEF Found
    <3>2. topics[i] \in {n, None}
      BY <1>1, <3>1, IdxFacts DEF Named
    <3> QED
      BY <1>1, <3>1, <3>2 DEF Ordinary
  <2> QED
    BY <1>1, <1>4, <2>1, <2>2, <2>3, HeldAfter
<1> QED
  BY <1>2, <1>3, <1>4 DEF Named

LEMMA MovesUnmapped ==
  ASSUME IInv, Base', NEW t \in Tasks, Moves(t)
  PROVE  Unmapped' /\ Owners'
<1>1. UNCHANGED <<topics, topic_map>> /\ Unmapped /\ Owners /\ Base
  BY DEF Moves, IInv, TablesInv, Base, TasksInv
<1>2. Owners'
  BY <1>1, MakingAfter DEF Owners
<1>3. ASSUME NEW u \in Tasks, NEW i \in Idx, task'[u].at \in {"count", "map"}, task'[u].idx = i
      PROVE  /\ topics'[i] = task'[u].name
             /\ \A n \in Names : topic_map'[n] # i
             /\ ~Held(i)'
  <2>1. u # t
    BY <1>3 DEF Moves, Busy
  <2>2. task'[u] = task[u]
    BY <2>1 DEF Moves
  <2>3. /\ topics[i] = task[u].name
        /\ \A n \in Names : topic_map[n] # i
        /\ ~Held(i)
    BY <1>1, <1>3, <2>2 DEF Unmapped
  <2>4. Making(u, i)
    BY <1>3, <2>2 DEF Making, Busy
  <2>5. ~Held(i)'
    <3>1. SUFFICES ASSUME Held(i)' PROVE FALSE
      OBVIOUS
    <3>2. ~Found(i)
      BY <2>3 DEF Found
    <3>3. task[t].main # i
      <4>1. SUFFICES ASSUME task[t].main = i PROVE FALSE
        OBVIOUS
      <4>2. Making(t, i)
        BY <4>1, IdxFacts DEF Making
      <4> QED
        BY <1>1, <2>1, <2>4, <4>2 DEF Owners
    <3> QED
      BY <1>1, <2>3, <3>1, <3>2, <3>3, HeldAfter
  <2> QED
    BY <1>1, <2>2, <2>3, <2>5
<1> QED
  BY <1>2, <1>3 DEF Unmapped

LEMMA MovesTables ==
  ASSUME IInv, Base', NEW t \in Tasks, Moves(t)
  PROVE  Counted' /\ Going' /\ Whole' /\ Once'
<1>1. UNCHANGED <<topics, next, topic_map, lists>> /\ met \subseteq met'
  BY DEF Moves
<1>2. \A u \in Tasks : /\ task'[u].at \in Busy <=> task[u].at \in Busy
                       /\ task[u].at \in Busy \cup {"cleanse"} => task'[u] = task[u]
                       /\ task'[u].at \in Busy \cup {"cleanse"} => task'[u] = task[u]
  BY DEF Moves
<1>3. Counted'
  <2>1. \A i \in Idx : topics[i] # None =>
          pub_count'[i] = pub_count[i] \/ pub_count'[i] \notin {None, 0}
    BY DEF Moves
  <2> QED
    BY <1>1, <1>2, <2>1 DEF IInv, TablesInv, Counted, Busy
<1>4. Going'
  <2>1. SUFFICES ASSUME At(Parser, "cleanse")' PROVE task'[Parser] = task[Parser]
    BY <1>1 DEF IInv, TablesInv, Going, At
  <2> QED
    BY <1>2, <2>1 DEF At, Tasks
<1>5. Whole'
  <2>1. SUFFICES ASSUME NEW x \in Topics, ~IsTorn(x)'
                 PROVE  /\ \A n \in Names : n[2] = x /\ topic_map'[n] # None => topics'[topic_map'[n]] = n
                        /\ topic_map'[Name(x)] # None =>
                             \/ \A n \in MetasOf(x) : topic_map'[n] # None
                             \/ \E u \in Tasks : Creates(u, x)'
    BY DEF Whole
  <2>2. ~IsTorn(x)
    BY <1>1, <2>1, TornStays
  <2>3. \A n \in Names : n[2] = x /\ topic_map[n] # None => topics[topic_map[n]] = n
    BY <2>2 DEF IInv, TablesInv, Whole
  <2>4. ASSUME topic_map[Name(x)] # None
        PROVE  \/ \A n \in MetasOf(x) : topic_map[n] # None
               \/ \E u \in Tasks : Creates(u, x)'
    <3>1. CASE \A n \in MetasOf(x) : topic_map[n] # None
      BY <3>1
    <3>2. CASE \E u \in Tasks : Creates(u, x)
      <4>1. PICK u \in Tasks : Creates(u, x)
        BY <3>2
      <4>2. CASE u = t
        BY <2>2, <4>1, <4>2 DEF Moves
      <4>3. CASE u # t
        BY <4>1, <4>3, SameTask DEF Moves
      <4> QED
        BY <4>2, <4>3
    <3> QED
      BY <2>2, <2>4, <3>1, <3>2 DEF IInv, TablesInv, Whole
  <2> QED
    BY <1>1, <2>3, <2>4
<1>6. Once'
  <2>1. \A u \in Tasks : /\ task'[u].at \in {"count", "map"} => task'[u] = task[u]
                         /\ task[u].at \in {"count", "map"} => task'[u] = task[u]
    BY <1>2 DEF Busy
  <2>2. \A x \in Topics : ~IsTwice(x)' => ~IsTwice(x)
    BY <1>1, TornStays
  <2>3. \A x \in Topics : ~IsTorn(x)' => ~IsTorn(x)
    BY <1>1, TornStays
  <2>4. Once
    BY DEF IInv, TablesInv
  <2> QED
    BY <1>1, <2>1, <2>2, <2>3, <2>4 DEF Once
<1> QED
  BY <1>3, <1>4, <1>5, <1>6

LEMMA MovesApart ==
  ASSUME IInv, Base', NEW t \in Tasks, Moves(t)
  PROVE  Apart'
<1>1. /\ UNCHANGED <<topics, topic_map>> /\ met \subseteq met'
      /\ Base /\ Apart /\ Named /\ Owners /\ Unmapped /\ Going /\ Whole
  BY DEF Moves, IInv, TablesInv, Base, TasksInv
<1>2. SUFFICES ASSUME met' = {}
               PROVE  /\ \A i \in Idx : Held(i)' => \A u \in Tasks : ~Making(u, i)'
                      /\ At(Parser, "cleanse")' => \A u \in Handles, i \in task'[Parser].them :
                           ~Holds(u, i)' /\ task'[u].main # i
                      /\ \A i \in Idx : topics'[i] = None /\ Held(i)' =>
                           \/ pub_count'[i] = None
                           \/ At(Parser, "cleanse")' /\ task'[Parser].idx = i
  BY DEF Apart
<1>3. met = {}
  BY <1>1, <1>2
<1>4. \A x : ~IsTorn(x)
  BY <1>3 DEF IsTorn
<1>5. At(Parser, "cleanse")' <=> At(Parser, "cleanse")
  BY DEF Moves, At, Tasks
<1>6. At(Parser, "cleanse") => t # Parser /\ task'[Parser] = task[Parser]
  BY DEF Moves, At, Tasks
<1>7. ASSUME NEW i \in Idx, Found(i)
      PROVE  topics[i] # None /\ \A u \in Tasks : ~Making(u, i)
  <2>1. PICK n \in Names : /\ topic_map[n] = i /\ ~IsMeta(n)
                           /\ \A u \in Tasks : ~Creates(u, n[2])
    BY <1>2, <1>7 DEF Found
  <2>2. topics[i] = n /\ n # None
    BY <1>1, <1>4, <2>1, NameFacts, IdxFacts DEF Whole
  <2> QED
    BY <1>1, <2>1, <2>2, MakerCreates, IdxFacts
<1>8. ASSUME NEW i \in Idx, task[t].main = i
      PROVE  topics[i] # None
  <2>1. Shaped(t) /\ task[t] \in TaskStates /\ SoFar(t)
    BY <1>1 DEF Base, TypeOK, TaskStates, IInv, TasksInv
  <2>2. /\ task[t].main # None /\ task[t].at \in Steps \cup Adding
        /\ task[t].name \in Names
    BY <1>8, <2>1, IdxFacts DEF Shaped, TaskStates
  <2>3. task[t].name[2] \in Topics /\ task[t].name # None
    BY <2>2, NameFacts
  <2>4. Creates(t, task[t].name[2])
    BY <2>2, <2>3 DEF Creates, Steps
  <2>5. topics[i] = Name(task[t].name[2])
    BY <1>4, <1>8, <2>1, <2>2, <2>3, <2>4 DEF SoFar
  <2> QED
    BY <2>3, <2>5, NameFacts
<1>9. ASSUME NEW i \in Idx, Held(i)', NEW u \in Tasks, Making(u, i)' PROVE FALSE
  <2>1. Making(u, i)
    BY <1>1, <1>9, MakingAfter
  <2>2. ~Held(i)
    BY <1>1, <1>3, <2>1 DEF Apart
  <2>3. ~Found(i)
    BY <1>7, <2>1
  <2>4. task[t].main = i /\ task'[t].main = None
    BY <1>1, <1>9, <2>2, <2>3, HeldAfter
  <2>5. Making(t, i)
    BY <2>4, IdxFacts DEF Making
  <2>6. u = t
    BY <1>1, <2>1, <2>5 DEF Owners
  <2> QED
    BY <1>9, <2>4, <2>6 DEF Making, Moves
<1>10. ASSUME At(Parser, "cleanse")', NEW u \in Handles, NEW i \in task'[Parser].them
       PROVE  ~Holds(u, i)' /\ task'[u].main # i
  <2>1. /\ i \in Idx /\ i \in task[Parser].them /\ topics[i] = None
        /\ \A n \in Names : topic_map[n] # i
        /\ ~Holds(u, i) /\ task[u].main # i
    BY <1>1, <1>3, <1>5, <1>6, <1>10 DEF Apart, Going
  <2>2. CASE u = t
    <3>1. ~Found(i)
      BY <2>1 DEF Found
    <3>2. ~Holds(t, i)'
      BY <1>5, <1>6, <1>10, <2>1, <2>2, <3>1 DEF Moves
    <3> QED
      BY <2>1, <2>2, <3>2, IdxFacts DEF Moves
  <2>3. CASE u # t
    BY <2>1, <2>3, SameTask DEF Moves, Tasks
  <2> QED
    BY <2>2, <2>3
<1>11. ASSUME NEW i \in Idx, topics'[i] = None, Held(i)'
       PROVE  \/ pub_count'[i] = None
              \/ At(Parser, "cleanse")' /\ task'[Parser].idx = i
  <2>1. Held(i)
    BY <1>1, <1>7, <1>8, <1>11, HeldAfter
  <2>2. pub_count'[i] = pub_count[i] \/ pub_count'[i] = None
    BY <1>1, <1>3, <1>11 DEF Moves
  <2> QED
    BY <1>1, <1>3, <1>5, <1>6, <1>11, <2>1, <2>2 DEF Apart
<1> QED
  BY <1>9, <1>10, <1>11

LEMMA MovesTasks ==
  ASSUME IInv, Base', NEW t \in Tasks, Moves(t)
  PROVE  TasksInv' /\ Fresh' /\ FreshSubs' /\ Listed'
<1>1. /\ UNCHANGED <<topics, topic_map, next, lists, subscriptions, subs, next_sub, cut>>
      /\ met \subseteq met' /\ told \subseteq told'
  BY DEF Moves
<1>2. ASSUME NEW u \in Tasks PROVE SoFar(u)' /\ CalmTask(u)'
  <2>1. CASE u = t
    BY <2>1 DEF Moves
  <2>2. CASE u # t
    <3>1. task'[u] = task[u] /\ SoFar(u) /\ CalmTask(u)
      BY <2>2 DEF Moves, IInv, TasksInv
    <3>2. \A x : ~IsTorn(x)' => ~IsTorn(x)
      BY <1>1, TornStays
    <3>3. SoFar(u)'
      BY <1>1, <3>1, <3>2 DEF SoFar, Creates
    <3>4. met' = {} => met = {}
      BY <1>1
    <3>5. CalmTask(u)'
      BY <1>1, <3>1, <3>4 DEF CalmTask, At
    <3> QED
      BY <3>3, <3>5
  <2> QED
    BY <2>1, <2>2
<1>3. TasksInv'
  BY <1>2 DEF TasksInv, Base
<1>4. Fresh'
  <2>1. ASSUME NEW u \in Tasks
        PROVE  /\ task'[u].idx # None => task'[u].idx < next
               /\ task'[u].main # None => task'[u].main < next
    <3>1. /\ task[u].idx # None => task[u].idx < next
          /\ task[u].main # None => task[u].main < next
      BY DEF IInv, Fresh
    <3> QED
      BY <3>1 DEF Moves
  <2>2. ASSUME NEW c \in Clients, pubs'[c] # None PROVE pubs'[c] < next
    <3>1. CASE Holds(t, pubs'[c])
      BY <2>2, <3>1 DEF Holds, IInv, Fresh
    <3> QED
      BY <2>2, <3>1 DEF Moves, IInv, Fresh
  <2> QED
    BY <1>1, <2>1, <2>2 DEF IInv, Fresh
<1>5. FreshSubs'
  BY <1>1 DEF IInv, FreshSubs
<1>6. Listed'
  <2>1. ~Torn' => ~Torn
    BY <1>1, TornSomewhere
  <2>2. \A s \in Sub : queues'[s] = None <=> queues[s] = None
    BY DEF Moves
  <2> QED
    BY <1>1, <2>1, <2>2 DEF IInv, Listed
<1> QED
  BY <1>3, <1>4, <1>5, <1>6

\* Whoever is to tell a subscriber still is, or has.
LEMMA AboutRest ==
  ASSUME NEW u \in Tasks, task'[u] = task[u], UNCHANGED subscriptions, NEW s, NEW i
  PROVE  About(u, s, i)' <=> About(u, s, i)
  BY DEF About, At

LEMMA ToldOrAbout ==
  SubscriberToldOrAboutToBe <=>
    \A n \in Names, s \in Sub : Covers(s, n) =>
      \/ <<subscriptions[s].client, topic_map[n]>> \in told
      \/ \E t \in Tasks : About(t, s, topic_map[n])
  BY DEF SubscriberToldOrAboutToBe, Covers, About

LEMMA MovesTold ==
  ASSUME IInv, Base', NEW t \in Tasks, Moves(t)
  PROVE  SubscriberToldOrAboutToBe'
<1>1. UNCHANGED <<topics, topic_map, subscriptions>> /\ told \subseteq told'
  BY DEF Moves
<1>2. SUFFICES ASSUME NEW n \in Names, NEW s \in Sub, Covers(s, n)
               PROVE  \/ <<subscriptions[s].client, topic_map[n]>> \in told'
                      \/ \E u \in Tasks : About(u, s, topic_map[n])'
  BY <1>1 DEF SubscriberToldOrAboutToBe, Covers, About
<1>3. CASE <<subscriptions[s].client, topic_map[n]>> \in told
  BY <1>1, <1>3
<1>4. CASE \E u \in Tasks : About(u, s, topic_map[n])
  <2>1. PICK u \in Tasks : About(u, s, topic_map[n])
    BY <1>4
  <2>2. CASE u = t
    BY <1>2, <2>1, <2>2 DEF Moves
  <2>3. CASE u # t
    <3>1. task'[u] = task[u]
      BY <2>3 DEF Moves
    <3>2. About(u, s, topic_map[n])'
      BY <1>1, <2>1, <3>1 DEF About, At
    <3> QED
      BY <3>2
  <2> QED
    BY <2>2, <2>3
<1> QED
  BY <1>2, <1>3, <1>4, ToldOrAbout DEF IInv

LEMMA MovesSound ==
  ASSUME IInv, Base', NEW t \in Tasks, Moves(t), ValueOnlyAfterAnnounce'
  PROVE  IInv'
<1>1. TypeOK'
  BY DEF Base
<1> QED
  BY <1>1, MovesNamed, MovesUnmapped, MovesTables, MovesApart, MovesTasks, MovesTold
  DEF IInv, TablesInv

--------------------------------------------------------------------------------
\* The steps of a task that change no table

LEMMA TaskFacts ==
  ASSUME IInv, NEW t \in Tasks
  PROVE  /\ Base /\ TypeOK /\ task \in [Tasks -> TaskStates] /\ task[t] \in TaskStates
         /\ Shaped(t) /\ SoFar(t) /\ NamedTask(t) /\ CalmTask(t)
  BY DEF IInv, TasksInv, TablesInv, Named, Base, TypeOK, TaskStates

LEMMA BaseAfter ==
  ASSUME Base, NEW t \in Tasks, \A u \in Tasks : u # t => task'[u] = task[u], Shaped(t)', TypeOK'
  PROVE  Base'
<1>1. ASSUME NEW u \in Tasks PROVE Shaped(u)'
  <2>1. CASE u = t
    BY <2>1
  <2>2. CASE u # t
    <3>1. Shaped(u) /\ task'[u] = task[u]
      BY <2>2 DEF Base
    <3> QED
      BY <3>1 DEF Shaped
  <2> QED
    BY <2>1, <2>2
<1> QED
  BY <1>1 DEF Base

LEMMA QueuesSame ==
  ASSUME IInv, UNCHANGED <<queues, subscriptions>>, told \subseteq told', met \subseteq met'
  PROVE  ValueOnlyAfterAnnounce'
<1>1. ~Torn' => ~Torn
  BY TornSomewhere
<1> QED
  BY <1>1 DEF IInv, ValueOnlyAfterAnnounce

\* A task that creates nothing is told of by main alone while it looks.
LEMMA MainCreates ==
  ASSUME IInv, NEW t \in Tasks, task[t].main # None
  PROVE  /\ task[t].name \in Names /\ IsMeta(task[t].name)
         /\ task[t].name[2] \in Topics
         /\ Creates(t, task[t].name[2])
<1>1. Shaped(t) /\ task[t] \in TaskStates
  BY TaskFacts
<1>2. task[t].at \in Steps \cup Adding /\ task[t].name # None /\ IsMeta(task[t].name)
  BY <1>1 DEF Shaped
<1>3. task[t].name \in Names
  BY <1>1, <1>2 DEF TaskStates
<1> QED
  BY <1>2, <1>3, NameFacts DEF Creates, Steps

LEMMA LookSound ==
  ASSUME IInv, NEW t \in Tasks, Look(t)
  PROVE  IInv'
<1> DEFINE n == task[t].name
           i == topic_map[n]
           r == IF i = None THEN [task[t] EXCEPT !.at = "insert"]
                ELSE IF IsMeta(n) THEN [task[t] EXCEPT !.at = "announce", !.idx = i]
                ELSE [task[t] EXCEPT !.at = "respond", !.idx = i]
<1>1. /\ task[t] \in TaskStates /\ Shaped(t) /\ SoFar(t) /\ NamedTask(t) /\ Base
      /\ task \in [Tasks -> TaskStates]
  BY TaskFacts
<1>2. task[t].at = "look" /\ n # None /\ n \in Names
  BY <1>1 DEF Look, At, Shaped, Steps, TaskStates
<1>3. /\ i \in Idx \cup {None}
      /\ i # None => i < next /\ topics[i] \in {n, None} /\ (IsMeta(n) => topics[i] = n)
  BY <1>2 DEF IInv, TypeOK, Fresh, TablesInv, Named
<1>4. /\ r \in TaskStates /\ r.name = n /\ r.main = task[t].main
      /\ r.at = IF i = None THEN "insert" ELSE IF IsMeta(n) THEN "announce" ELSE "respond"
      /\ r.idx = i /\ r.them = task[t].them
  BY <1>1, <1>2, <1>3 DEF TaskStates, Stages, Shaped
<1>5. task' \in [Tasks -> TaskStates] /\ task'[t] = r /\ \A u \in Tasks : u # t => task'[u] = task[u]
  BY <1>1, <1>4, GoesTo DEF Look
<1>6. /\ UNCHANGED <<tables, people, told, calls, cut>>
      /\ IF i = None THEN met' = met
         ELSE met' = IF \E u \in Tasks \ {t} : Creates(u, n[2])
                     THEN met \cup {<<"found", n[2]>>} ELSE met
  BY DEF Look, Meets
<1>7. met \subseteq met' /\ n[2] \in Topics
  BY <1>2, <1>6, NameFacts
<1> HIDE DEF r, i, n
<1>8. Base'
  <2>1. /\ r.main # None <=> IsMeta(n)
        /\ r.at \in {"insert", "announce", "respond"}
        /\ r.at = "announce" => IsMeta(n)
        /\ r.at = "respond" => ~IsMeta(n)
        /\ r.idx = None <=> r.at = "insert"
    BY <1>1, <1>2, <1>4 DEF Shaped, Steps, n
  <2>2. r.main # None => r.at \in Steps \cup Adding
    BY <1>4, <2>1 DEF Steps, Adding
  <2>3. Shaped(t)'
    BY <1>2, <1>4, <1>5, <2>1, <2>2 DEF Shaped, Steps, Adding
  <2>4. TypeOK'
    BY <1>5, <1>6, <1>7 DEF IInv, TypeOK, TaskStates, tables, people
  <2> QED
    BY <1>1, <1>5, <2>3, <2>4, BaseAfter
<1>9. Moves(t)
  <2>1. ASSUME NEW k \in Idx, Holds(t, k)' PROVE Found(k)
    <3>1. i = k /\ i # None /\ ~IsMeta(n)
      BY <1>2, <1>4, <1>5, <2>1, IdxFacts DEF Holds
    <3>2. ASSUME met' = {} PROVE \A u \in Tasks : ~Creates(u, n[2])
      <4>1. \A u \in Tasks \ {t} : ~Creates(u, n[2])
        BY <1>6, <3>1, <3>2
      <4>2. ~Creates(t, n[2])
        BY <1>1, <1>2, <3>1 DEF Creates, Adding, Shaped, Steps, n
      <4> QED
        BY <4>1, <4>2
    <3> QED
      BY <1>2, <3>1, <3>2 DEF Found, i
  <2>2. ASSUME NEW x \in Topics, Creates(t, x), ~Creates(t, x)' PROVE FALSE
    BY <1>1, <1>2, <1>4, <1>5, <2>2 DEF Creates, Adding, Steps, Shaped, n
  <2>3. NamedTask(t)'
    <3>1. UNCHANGED topics
      BY <1>6 DEF tables
    <3>2. /\ r.idx # None /\ r.name # None => topics[r.idx] \in {r.name, None}
          /\ r.main # None => topics[r.main] \in {Name(r.name[2]), None}
          /\ r.main # None /\ r.idx # None => topics[r.idx] # None
      BY <1>1, <1>2, <1>3, <1>4, NameFacts DEF NamedTask, Shaped, Steps, n
    <3>3. ASSUME NEW k \in Idx, Holds(t, k)' PROVE ~IsMeta(r.name)
      BY <1>2, <1>4, <1>5, <3>3 DEF Holds
    <3> QED
      BY <1>5, <3>1, <3>2, <3>3 DEF NamedTask
  <2>4. SoFar(t)'
    <3>1. SUFFICES ASSUME NEW x \in Topics, Creates(t, x)', ~IsTorn(x)'
          PROVE  /\ r.idx # None => topics[r.idx] = r.name
                 /\ r.main # None => topics[r.main] = Name(x)
                 /\ r.name[1] = "$sub" => topic_map[<<"$pub", x>>] # None
                 /\ IsMeta(r.name) /\ r.at \in {"list", "announce", "audience", "tell"} =>
                      topic_map[r.name] # None
      BY <1>5, <1>6 DEF SoFar, tables
    <3>2. ~IsTorn(x)
      BY <1>7, <3>1, TornStays
    <3>3. x = n[2]
      BY <1>4, <1>5, <3>1 DEF Creates
    <3>4. IsMeta(n) => Creates(t, x)
      BY <1>1, <1>2, <3>3 DEF Creates, Steps, Shaped, n
    <3>5. r.main # None => IsMeta(n)
      BY <1>1, <1>2, <1>4 DEF Shaped, Steps, n
    <3>6. n[1] = "$sub" => IsMeta(n)
      BY DEF IsMeta
    <3>7. i # None => topics[i] = n
      BY <1>2, <3>1, <3>2, <3>3 DEF i, IInv, TablesInv, Whole
    <3>8. r.idx # None => topics[r.idx] = r.name
      BY <1>4, <3>7
    <3> QED
      BY <1>1, <1>4, <3>1, <3>2, <3>4, <3>5, <3>6, <3>8 DEF SoFar, i, n
  <2>5. CalmTask(t)'
    BY <1>4, <1>5 DEF CalmTask, At
  <2>6. \A m \in Names, s \in Sub : About(t, s, topic_map[m]) => About(t, s, topic_map[m])'
    BY <1>2, <1>4, <1>5, <1>6 DEF About, At, tables, people
  <2>7. r.idx # None => r.idx < next
    BY <1>1, <1>3, <1>4 DEF IInv, Fresh
  <2> QED
    BY <1>2, <1>4, <1>5, <1>6, <1>7, <2>1, <2>2, <2>3, <2>4, <2>5, <2>6, <2>7
    DEF Moves, tables, people, Busy
<1> QED
  BY <1>6, <1>7, <1>8, <1>9, MovesSound, QueuesSame DEF people

\* What stays in all the steps of a task below
CalmFrame ==
  /\ UNCHANGED <<topics, next, pub_count, topic_map, lists, next_sub, subscriptions, subs, cut>>
  /\ met' = met /\ told \subseteq told'

\* A step from one stage to a later one of the same topic
LEMMA StageMoves ==
  ASSUME IInv, NEW t \in Tasks, NEW r \in TaskStates, Goes(t, r), CalmFrame, TypeOK',
         r.name = task[t].name, r.idx = task[t].idx, r.main = task[t].main,
         task[t].at \in {"announce", "respond", "audience", "tell", "register", "check",
                         "queue", "store"},
         r.at \in {"audience", "tell", "register", "check", "queue", "store", "panicked"},
         r.main # None => r.at \in {"audience", "tell"},
         r.at \in {"audience", "tell"} => task[t].at \in {"announce", "respond", "audience", "tell"},
         r.at = "register" => r.name # None /\ ~IsMeta(r.name),
         r.at = "tell" => r.them \subseteq Clients,
         \A s \in Sub : queues'[s] = None <=> queues[s] = None,
         \A c \in Clients : pubs'[c] = None \/ pubs'[c] = pubs[c] \/ Holds(t, pubs'[c]),
         CalmTask(t)',
         \A n \in Names, s \in Sub : Covers(s, n) /\ About(t, s, topic_map[n]) =>
           \/ <<subscriptions[s].client, topic_map[n]>> \in told'
           \/ About(t, s, topic_map[n])'
  PROVE  Base' /\ Moves(t)
<1>1. /\ task[t] \in TaskStates /\ Shaped(t) /\ SoFar(t) /\ NamedTask(t) /\ Base
      /\ task \in [Tasks -> TaskStates]
  BY TaskFacts
<1>2. task' \in [Tasks -> TaskStates] /\ task'[t] = r /\ \A u \in Tasks : u # t => task'[u] = task[u]
  BY <1>1, GoesTo
<1>3. r.idx # None /\ r.idx < next
  BY <1>1 DEF Shaped, IInv, Fresh
<1>4. task[t].at \in {"announce", "respond", "audience", "tell"} =>
        r.name # None /\ (r.main # None <=> IsMeta(r.name))
  <2>1. CASE task[t].at = "respond"
    BY <1>1, <2>1 DEF Shaped, Steps, Adding
  <2>2. CASE task[t].at \in {"announce", "audience", "tell"}
    BY <1>1, <2>2 DEF Shaped, Steps
  <2> QED
    BY <2>1, <2>2
<1>5. task[t].at = "announce" => r.main # None
  BY <1>1, <1>4 DEF Shaped
<1>6. Shaped(t)'
  BY <1>2, <1>3, <1>4 DEF Shaped, Steps, Adding
<1>7. Base'
  BY <1>1, <1>2, <1>6, BaseAfter
<1>8. ASSUME NEW k \in Idx, Holds(t, k)' PROVE Holds(t, k)
  <2>1. r.idx = k
    BY <1>2, <1>8 DEF Holds
  <2>2. CASE r.main # None
    <3>1. ~IsMeta(r.name)
      BY <1>2, <1>8, <2>2 DEF Holds
    <3> QED
      BY <1>4, <2>2, <3>1
  <2>3. CASE r.main = None
    BY <1>4, <1>5, <2>1, <2>3 DEF Holds
  <2> QED
    BY <2>2, <2>3
<1>9. ASSUME NEW x \in Topics
      PROVE  Creates(t, x)' <=> Creates(t, x)
  <2>1. Creates(t, x) <=> r.name # None /\ r.name[2] = x /\ r.main # None
    BY <1>1 DEF Creates, Adding, Shaped, Steps
  <2> QED
    BY <1>2, <2>1 DEF Creates, Adding
<1>10. NamedTask(t)'
  <2>1. r.name \in Names => \A i \in Idx : Holds(t, i)' => ~IsMeta(r.name)
    BY <1>1, <1>8 DEF NamedTask
  <2> QED
    BY <1>1, <1>2, <2>1 DEF NamedTask, CalmFrame
<1>11. SoFar(t)'
  <2>1. SUFFICES ASSUME NEW x \in Topics, Creates(t, x)', ~IsTorn(x)'
        PROVE  /\ r.idx # None => topics[r.idx] = r.name
               /\ r.main # None => topics[r.main] = Name(x)
               /\ r.name[1] = "$sub" => topic_map[<<"$pub", x>>] # None
               /\ IsMeta(r.name) /\ r.at \in {"list", "announce", "audience", "tell"} =>
                    topic_map[r.name] # None
    BY <1>2 DEF SoFar, CalmFrame
  <2>2. Creates(t, x) /\ ~IsTorn(x)
    BY <1>9, <2>1 DEF CalmFrame, IsTorn
  <2>3. r.main # None
    BY <1>2, <2>1 DEF Creates, Adding
  <2>4. task[t].at \in {"announce", "audience", "tell"}
    BY <1>1, <2>3 DEF Shaped, Steps, Adding
  <2> QED
    BY <1>1, <2>2, <2>4 DEF SoFar
<1>12. UNCHANGED <<topics, next, pub_count, topic_map, lists, next_sub, subscriptions, subs, cut>>
       /\ met \subseteq met' /\ told \subseteq told'
  BY DEF CalmFrame
<1> QED
  BY <1>2, <1>3, <1>7, <1>8, <1>9, <1>10, <1>11, <1>12 DEF Moves, Busy

\* A step with which a task is done
LEMMA ReturnMoves ==
  ASSUME IInv, NEW t \in Tasks, Returns(t), CalmFrame, TypeOK',
         task[t].at \notin Busy \cup {"cleanse"},
         \A s \in Sub : queues'[s] = None <=> queues[s] = None,
         \A c \in Clients : pubs'[c] = None \/ pubs'[c] = pubs[c] \/ Holds(t, pubs'[c]),
         \A x \in Topics : Creates(t, x) => IsTorn(x),
         \A n \in Names, s \in Sub : Covers(s, n) /\ About(t, s, topic_map[n]) =>
           <<subscriptions[s].client, topic_map[n]>> \in told'
  PROVE  Base' /\ Moves(t)
<1>1. Base /\ task \in [Tasks -> TaskStates]
  BY TaskFacts
<1>2. task'[t] = Idle /\ \A u \in Tasks : u # t => task'[u] = task[u]
  BY <1>1, GoesTo, IdleFacts DEF Returns
<1>3. Shaped(t)' /\ NamedTask(t)' /\ SoFar(t)' /\ CalmTask(t)'
  <2>1. Shaped(t)'
    BY <1>2, IdleFacts DEF Shaped, Steps, Adding
  <2>2. NamedTask(t)'
    BY <1>2, IdleFacts, NameFacts DEF NamedTask, Holds
  <2>3. SoFar(t)'
    BY <1>2, IdleFacts DEF SoFar, Creates
  <2>4. CalmTask(t)'
    BY <1>2, IdleFacts DEF CalmTask, At
  <2> QED
    BY <2>1, <2>2, <2>3, <2>4
<1>4. \A i \in Idx : ~Holds(t, i)'
  BY <1>2, IdleFacts DEF Holds
<1>5. Base'
  BY <1>1, <1>2, <1>3, BaseAfter
<1>6. UNCHANGED <<topics, next, pub_count, topic_map, lists, next_sub, subscriptions, subs, cut>>
      /\ met \subseteq met' /\ told \subseteq told'
  BY DEF CalmFrame
<1>7. task'[t].at \notin Busy \cup {"cleanse"} /\ task'[t].main = None /\ task'[t].idx = None
  BY <1>2, IdleFacts DEF Busy
<1> QED
  BY <1>2, <1>3, <1>4, <1>5, <1>6, <1>7 DEF Moves

\* Where a task with an ordinary name creates nothing
LEMMA NoMainNoCreation ==
  ASSUME IInv, NEW t \in Tasks, task[t].main = None, task[t].at \notin Adding
  PROVE  \A x \in Topics : ~Creates(t, x)
  BY DEF Creates

LEMMA AnnounceSound ==
  ASSUME IInv, NEW t \in Tasks, Announce(t)
  PROVE  IInv'
<1> DEFINE r == [task[t] EXCEPT !.at = "audience"]
<1>1. /\ task[t] \in TaskStates /\ Shaped(t) /\ SoFar(t) /\ NamedTask(t) /\ Base
      /\ task \in [Tasks -> TaskStates]
  BY TaskFacts
<1>2. /\ task[t].at = "announce" /\ UNCHANGED <<tables, people, told, calls, met, cut>>
      /\ CalmFrame
      /\ task[t].idx # None /\ task[t].name # None
  BY <1>1 DEF Announce, At, CalmFrame, tables, people, Shaped, Steps
<1>3. /\ \A s \in Sub : queues'[s] = None <=> queues[s] = None
      /\ \A c \in Clients : pubs'[c] = None \/ pubs'[c] = pubs[c] \/ Holds(t, pubs'[c])
  BY <1>2 DEF people
<1>4. CASE topics[task[t].idx] = None
  <2>1. Returns(t)
    BY <1>4 DEF Announce
  <2>2. task' \in [Tasks -> TaskStates]
    BY <1>1, <2>1, GoesTo, IdleFacts DEF Returns
  <2>3. TypeOK'
    BY <1>2, <2>2 DEF IInv, TypeOK, TaskStates, tables, people
  <2>4. ASSUME NEW x \in Topics, Creates(t, x) PROVE IsTorn(x)
    BY <1>1, <1>2, <1>4, <2>4 DEF SoFar
  <2>5. ASSUME NEW n \in Names, NEW s \in Sub, Covers(s, n), About(t, s, topic_map[n])
        PROVE  FALSE
    <3>1. task[t].main = topic_map[n] /\ topics[topic_map[n]] # None
      BY <1>2, <1>4, <2>5 DEF About, At, Covers
    <3>2. topic_map[n] \in Idx /\ topic_map[n] # None
      BY <2>5 DEF Covers, IInv, TypeOK
    <3>3. topics[topic_map[n]] = n
      BY <3>1, <3>2 DEF IInv, TablesInv, Named
    <3>4. n = Name(task[t].name[2])
      BY <1>1, <3>1, <3>2, <3>3 DEF NamedTask
    <3> QED
      BY <1>1, <1>2, <1>4, <3>1, <3>2, <3>4 DEF NamedTask
  <2>6. task[t].at \notin Busy \cup {"cleanse"}
    BY <1>2 DEF Busy
  <2>7. Base' /\ Moves(t)
    BY <1>2, <1>3, <2>1, <2>3, <2>4, <2>5, <2>6, ReturnMoves
  <2> QED
    BY <1>2, <2>7, MovesSound, QueuesSame DEF people
<1>5. CASE topics[task[t].idx] # None
  <2>1. /\ r \in TaskStates /\ r.name = task[t].name /\ r.idx = task[t].idx
        /\ r.main = task[t].main /\ r.at = "audience"
    BY <1>1 DEF TaskStates, Stages
  <2>2. Goes(t, r)
    BY <1>5 DEF Announce
  <2>3. task' \in [Tasks -> TaskStates] /\ task'[t] = r
    BY <1>1, <2>1, <2>2, GoesTo
  <2> HIDE DEF r
  <2>4. TypeOK'
    BY <1>2, <2>3 DEF IInv, TypeOK, TaskStates, tables, people
  <2>5. CalmTask(t)'
    BY <2>1, <2>3 DEF CalmTask, At
  <2>6. \A n \in Names, s \in Sub : About(t, s, topic_map[n]) => About(t, s, topic_map[n])'
    BY <1>2, <2>1, <2>3 DEF About, At, tables, people
  <2>7. Base' /\ Moves(t)
    BY <1>2, <1>3, <2>1, <2>2, <2>4, <2>5, <2>6, StageMoves
  <2> QED
    BY <1>2, <2>7, MovesSound, QueuesSame DEF people
<1> QED
  BY <1>4, <1>5

LEMMA RespondSound ==
  ASSUME IInv, NEW t \in Tasks, Respond(t)
  PROVE  IInv'
<1> DEFINE r == [task[t] EXCEPT !.at = "audience"]
           i == task[t].idx
<1>1. /\ task[t] \in TaskStates /\ Shaped(t) /\ Base /\ task \in [Tasks -> TaskStates]
  BY TaskFacts
<1>2. /\ task[t].at = "respond" /\ UNCHANGED <<tables, people, calls, met, cut>>
      /\ i \in Idx /\ task[t].main = None /\ told \subseteq told'
      /\ task[t].who \in Clients \cup {Server}
  BY <1>1 DEF Respond, At, Shaped, Steps, Adding, TaskStates
<1>3. /\ \A s \in Sub : queues'[s] = None <=> queues[s] = None
      /\ \A c \in Clients : pubs'[c] = None \/ pubs'[c] = pubs[c] \/ Holds(t, pubs'[c])
      /\ CalmFrame
  BY <1>2 DEF people, tables, CalmFrame
<1>4. CASE topics[i] = None
  <2>1. Returns(t) /\ told' = told
    BY <1>4 DEF Respond
  <2>2. task' \in [Tasks -> TaskStates]
    BY <1>1, <2>1, GoesTo, IdleFacts DEF Returns
  <2>3. TypeOK'
    BY <1>2, <2>1, <2>2 DEF IInv, TypeOK, TaskStates, tables, people
  <2>4. ASSUME NEW x \in Topics, Creates(t, x) PROVE IsTorn(x)
    BY <1>2, <2>4 DEF Creates, Adding
  <2>5. ASSUME NEW n \in Names, NEW s \in Sub, Covers(s, n), About(t, s, topic_map[n])
        PROVE  FALSE
    BY <1>2, <1>4, <2>5 DEF About, At, Covers
  <2>6. task[t].at \notin Busy \cup {"cleanse"}
    BY <1>2 DEF Busy
  <2>7. Base' /\ Moves(t)
    BY <1>3, <2>1, <2>3, <2>4, <2>5, <2>6, ReturnMoves
  <2> QED
    BY <1>2, <2>7, MovesSound, QueuesSame DEF people
<1>5. CASE topics[i] # None
  <2>1. /\ r \in TaskStates /\ r.name = task[t].name /\ r.idx = task[t].idx
        /\ r.main = task[t].main /\ r.at = "audience"
    BY <1>1 DEF TaskStates, Stages
  <2>2. Goes(t, r) /\ told' = told \cup {<<task[t].who, i>>}
    BY <1>5 DEF Respond
  <2>3. task' \in [Tasks -> TaskStates] /\ task'[t] = r
    BY <1>1, <2>1, <2>2, GoesTo
  <2> HIDE DEF r
  <2>4. TypeOK'
    <3>1. told' \subseteq (Clients \cup {Server}) \X Idx
      BY <1>2, <2>2 DEF IInv, TypeOK
    <3> QED
      BY <1>2, <2>3, <3>1 DEF IInv, TypeOK, TaskStates, tables, people
  <2>5. CalmTask(t)'
    BY <2>1, <2>3 DEF CalmTask, At
  <2>6. \A n \in Names, s \in Sub : About(t, s, topic_map[n]) => About(t, s, topic_map[n])'
    BY <1>2, <2>1, <2>3 DEF About, At, tables, people
  <2>7. Base' /\ Moves(t)
    BY <1>2, <1>3, <2>1, <2>2, <2>4, <2>5, <2>6, StageMoves
  <2> QED
    BY <1>2, <2>7, MovesSound, QueuesSame DEF people
<1> QED
  BY <1>4, <1>5

LEMMA AudienceSound ==
  ASSUME IInv, NEW t \in Tasks, Audience(t)
  PROVE  IInv'
<1> DEFINE them == {subscriptions[s].client :
                      s \in {s \in Sub : /\ subscriptions[s] # None
                                         /\ task[t].name \in Matches[subscriptions[s].pattern]}}
           r == [task[t] EXCEPT !.at = "tell", !.them = them]
<1>1. /\ task[t] \in TaskStates /\ Shaped(t) /\ Base /\ task \in [Tasks -> TaskStates]
      /\ NamedTask(t)
  BY TaskFacts
<1>2. /\ task[t].at = "audience" /\ UNCHANGED <<tables, people, told, calls, met, cut>>
      /\ task[t].idx # None /\ task[t].name # None /\ Goes(t, r)
  BY <1>1 DEF Audience, At, Shaped, Steps
<1>3. /\ \A s \in Sub : queues'[s] = None <=> queues[s] = None
      /\ \A c \in Clients : pubs'[c] = None \/ pubs'[c] = pubs[c] \/ Holds(t, pubs'[c])
      /\ CalmFrame
  BY <1>2 DEF people, tables, CalmFrame
<1>4. them \subseteq Clients
  BY DEF IInv, TypeOK
<1> HIDE DEF them
<1>5. /\ r \in TaskStates /\ r.name = task[t].name /\ r.idx = task[t].idx
      /\ r.main = task[t].main /\ r.at = "tell" /\ r.them = them
  BY <1>1, <1>4 DEF TaskStates, Stages
<1>6. task' \in [Tasks -> TaskStates] /\ task'[t] = r
  BY <1>1, <1>2, <1>5, GoesTo
<1> HIDE DEF r
<1>7. TypeOK'
  BY <1>2, <1>6 DEF IInv, TypeOK, TaskStates, tables, people
<1>8. CalmTask(t)'
  BY <1>5, <1>6 DEF CalmTask, At
<1>9. ASSUME NEW n \in Names, NEW s \in Sub, Covers(s, n), About(t, s, topic_map[n])
      PROVE  About(t, s, topic_map[n])'
  <2>1. CASE task[t].main = topic_map[n]
    BY <1>2, <1>5, <1>6, <2>1 DEF About, tables
  <2>2. CASE task[t].idx = topic_map[n]
    <3>1. topics[topic_map[n]] = n
      BY <1>9 DEF Covers, IInv, TablesInv, Named
    <3>2. task[t].name = n
      BY <1>1, <1>2, <1>9, <2>2, <3>1 DEF NamedTask, Covers
    <3>3. subscriptions[s].client \in them
      BY <1>9, <3>2 DEF Covers, them
    <3> QED
      BY <1>2, <1>5, <1>6, <2>2, <3>3 DEF About, At, tables, people
  <2> QED
    BY <1>9, <2>1, <2>2 DEF About
<1>10. Base' /\ Moves(t)
  BY <1>2, <1>3, <1>4, <1>5, <1>7, <1>8, <1>9, StageMoves
<1> QED
  BY <1>2, <1>10, MovesSound, QueuesSame DEF people

LEMMA RegisterSound ==
  ASSUME IInv, NEW t \in Tasks, Register(t)
  PROVE  IInv'
<1>1. /\ task[t] \in TaskStates /\ Shaped(t) /\ Base /\ task \in [Tasks -> TaskStates]
  BY TaskFacts
<1>2. /\ task[t].at = "register"
      /\ UNCHANGED <<tables, next_sub, subscriptions, queues, subs, told, calls, met, cut>>
      /\ task[t].idx \in Idx /\ task[t].main = None /\ Holds(t, task[t].idx)
      /\ task[t].who \in Clients \cup {Server}
  BY <1>1 DEF Register, At, Shaped, Steps, Adding, TaskStates, Holds
<1>3. CalmFrame /\ \A s \in Sub : queues'[s] = None <=> queues[s] = None
  BY <1>2 DEF tables, CalmFrame
<1>4. ASSUME NEW n \in Names, NEW s \in Sub, Covers(s, n), About(t, s, topic_map[n])
      PROVE  FALSE
  BY <1>2, <1>4 DEF About, At, Covers
<1>5. CASE task[t].who = Server
  <2> DEFINE r == [task[t] EXCEPT !.at = "check"]
  <2>1. /\ r \in TaskStates /\ r.name = task[t].name /\ r.idx = task[t].idx
        /\ r.main = task[t].main /\ r.at = "check"
    BY <1>1 DEF TaskStates, Stages
  <2>2. Goes(t, r) /\ UNCHANGED pubs
    BY <1>5 DEF Register
  <2>3. task' \in [Tasks -> TaskStates] /\ task'[t] = r
    BY <1>1, <2>1, <2>2, GoesTo
  <2> HIDE DEF r
  <2>4. TypeOK'
    BY <1>2, <2>2, <2>3 DEF IInv, TypeOK, TaskStates, tables
  <2>5. CalmTask(t)'
    BY <2>1, <2>3 DEF CalmTask, At
  <2>6. Base' /\ Moves(t)
    BY <1>2, <1>3, <1>4, <2>1, <2>2, <2>4, <2>5, StageMoves
  <2> QED
    BY <1>2, <2>6, MovesSound, QueuesSame
<1>6. CASE task[t].who # Server
  <2>1. Returns(t) /\ pubs' = [pubs EXCEPT ![task[t].who] = task[t].idx]
    BY <1>6 DEF Register
  <2>2. task' \in [Tasks -> TaskStates]
    BY <1>1, <2>1, GoesTo, IdleFacts DEF Returns
  <2>3. /\ pubs' \in [Clients -> Idx \cup {None}]
        /\ \A c \in Clients : pubs'[c] = None \/ pubs'[c] = pubs[c] \/ Holds(t, pubs'[c])
    BY <1>2, <2>1 DEF IInv, TypeOK
  <2>4. TypeOK'
    BY <1>2, <2>2, <2>3 DEF IInv, TypeOK, TaskStates, tables
  <2>5. ASSUME NEW x \in Topics, Creates(t, x) PROVE IsTorn(x)
    BY <1>2, <2>5 DEF Creates, Adding
  <2>6. task[t].at \notin Busy \cup {"cleanse"}
    BY <1>2 DEF Busy
  <2>7. Base' /\ Moves(t)
    BY <1>3, <1>4, <2>1, <2>3, <2>4, <2>5, <2>6, ReturnMoves
  <2> QED
    BY <1>2, <2>7, MovesSound, QueuesSame
<1> QED
  BY <1>5, <1>6

LEMMA CheckSound ==
  ASSUME IInv, NEW t \in Tasks, Check(t)
  PROVE  IInv'
<1> DEFINE r == [task[t] EXCEPT !.at = "queue"]
           i == task[t].idx
<1>1. /\ task[t] \in TaskStates /\ Shaped(t) /\ Base /\ task \in [Tasks -> TaskStates]
  BY TaskFacts
<1>2. /\ task[t].at = "check" /\ UNCHANGED <<tables, people, told, calls, met, cut>>
      /\ i \in Idx /\ task[t].main = None
  BY <1>1 DEF Check, At, Shaped, Steps, Adding, TaskStates
<1>3. /\ \A s \in Sub : queues'[s] = None <=> queues[s] = None
      /\ \A c \in Clients : pubs'[c] = None \/ pubs'[c] = pubs[c] \/ Holds(t, pubs'[c])
      /\ CalmFrame
  BY <1>2 DEF people, tables, CalmFrame
<1>4. ASSUME NEW n \in Names, NEW s \in Sub, Covers(s, n), About(t, s, topic_map[n])
      PROVE  FALSE
  BY <1>2, <1>4 DEF About, At, Covers
<1>5. CASE topics[i] = None
  <2>1. Returns(t)
    BY <1>5 DEF Check
  <2>2. task' \in [Tasks -> TaskStates]
    BY <1>1, <2>1, GoesTo, IdleFacts DEF Returns
  <2>3. TypeOK'
    BY <1>2, <2>2 DEF IInv, TypeOK, TaskStates, tables, people
  <2>4. ASSUME NEW x \in Topics, Creates(t, x) PROVE IsTorn(x)
    BY <1>2, <2>4 DEF Creates, Adding
  <2>5. task[t].at \notin Busy \cup {"cleanse"}
    BY <1>2 DEF Busy
  <2>6. Base' /\ Moves(t)
    BY <1>3, <1>4, <2>1, <2>3, <2>4, <2>5, ReturnMoves
  <2> QED
    BY <1>2, <2>6, MovesSound, QueuesSame DEF people
<1>6. CASE topics[i] # None
  <2>1. /\ r \in TaskStates /\ r.name = task[t].name /\ r.idx = task[t].idx
        /\ r.main = task[t].main /\ r.at = "queue"
    BY <1>1 DEF TaskStates, Stages
  <2>2. Goes(t, r)
    BY <1>6 DEF Check
  <2>3. task' \in [Tasks -> TaskStates] /\ task'[t] = r
    BY <1>1, <2>1, <2>2, GoesTo
  <2>4. TypeOK'
    BY <1>2, <2>3 DEF IInv, TypeOK, TaskStates, tables, people
  <2>5. met = {} => lists[i] # None
    <3>1. SUFFICES ASSUME met = {} PROVE lists[i] # None
      OBVIOUS
    <3>2. Held(i)
      BY <1>2 DEF Held, Holds
    <3>3. \A u \in Tasks : ~Making(u, i)
      BY <1>2, <3>1, <3>2 DEF IInv, Apart
    <3> QED
      BY <1>2, <1>6, <3>3 DEF IInv, TablesInv, Counted, Making
  <2> HIDE DEF r
  <2>6. CalmTask(t)'
    BY <1>2, <2>1, <2>3, <2>5 DEF CalmTask, At, tables
  <2>7. Base' /\ Moves(t)
    BY <1>2, <1>3, <1>4, <2>1, <2>2, <2>4, <2>6, StageMoves
  <2> QED
    BY <1>2, <2>7, MovesSound, QueuesSame DEF people
<1> QED
  BY <1>5, <1>6

LEMMA StoreSound ==
  ASSUME IInv, NEW t \in Tasks, Store(t)
  PROVE  IInv'
<1>1. /\ task[t] \in TaskStates /\ Shaped(t) /\ Base /\ task \in [Tasks -> TaskStates]
  BY TaskFacts
<1>2. /\ task[t].at = "store" /\ Returns(t) /\ valued' = valued \cup {task[t].idx}
      /\ UNCHANGED <<topics, next, pub_count, topic_map, lists, people, told, calls, met, cut>>
      /\ task[t].idx \in Idx /\ task[t].main = None
  BY <1>1 DEF Store, At, Shaped, Steps, Adding, TaskStates
<1>3. /\ \A s \in Sub : queues'[s] = None <=> queues[s] = None
      /\ \A c \in Clients : pubs'[c] = None \/ pubs'[c] = pubs[c] \/ Holds(t, pubs'[c])
      /\ CalmFrame
  BY <1>2 DEF people, CalmFrame
<1>4. ASSUME NEW n \in Names, NEW s \in Sub, Covers(s, n), About(t, s, topic_map[n])
      PROVE  FALSE
  BY <1>2, <1>4 DEF About, At, Covers
<1>5. task' \in [Tasks -> TaskStates]
  BY <1>1, <1>2, GoesTo, IdleFacts DEF Returns
<1>6. TypeOK'
  <2>1. valued' \subseteq Idx
    BY <1>2 DEF IInv, TypeOK
  <2> QED
    BY <1>2, <1>5, <2>1 DEF IInv, TypeOK, TaskStates, people
<1>7. ASSUME NEW x \in Topics, Creates(t, x) PROVE IsTorn(x)
  BY <1>2, <1>7 DEF Creates, Adding
<1>8. task[t].at \notin Busy \cup {"cleanse"}
  BY <1>2 DEF Busy
<1>9. Base' /\ Moves(t)
  BY <1>2, <1>3, <1>4, <1>6, <1>7, <1>8, ReturnMoves
<1> QED
  BY <1>2, <1>9, MovesSound, QueuesSame DEF people

LEMMA QueueSound ==
  ASSUME IInv, NEW t \in Tasks, Queue(t)
  PROVE  IInv'
<1>1. PICK i \in Idx : i = task[t].idx
  BY TaskFacts DEF Queue, At, Shaped, TaskStates
<1> DEFINE unknown == {s \in lists[i] : queues[s] = None}
           served  == {s \in lists[i] : \A b \in unknown : s < b}
           r(stage) == [task[t] EXCEPT !.at = stage]
<1>2. /\ task[t] \in TaskStates /\ Shaped(t) /\ Base /\ task \in [Tasks -> TaskStates]
      /\ CalmTask(t)
  BY TaskFacts
<1>3. /\ task[t].at = "queue"
      /\ UNCHANGED <<tables, next_sub, subscriptions, pubs, subs, told, calls, met, cut>>
      /\ task[t].main = None
  BY <1>2 DEF Queue, At, Shaped, Steps, Adding
<1>4. CalmFrame /\ UNCHANGED pubs
  BY <1>3 DEF tables, CalmFrame
<1>5. ASSUME NEW n \in Names, NEW s \in Sub, Covers(s, n), About(t, s, topic_map[n])
      PROVE  FALSE
  BY <1>3, <1>5 DEF About, At, Covers
<1>6. \A stage \in {"store", "panicked"} :
        /\ r(stage) \in TaskStates /\ r(stage).name = task[t].name /\ r(stage).idx = i
        /\ r(stage).main = task[t].main /\ r(stage).at = stage
  BY <1>1, <1>2 DEF TaskStates, Stages
<1>7. \E stage \in {"store", "panicked"} :
        /\ Goes(t, r(stage))
        /\ stage = "panicked" <=> lists[i] = None \/ unknown # {}
  BY <1>1 DEF Queue, Panics
<1>8. PICK stage \in {"store", "panicked"} :
        /\ Goes(t, r(stage))
        /\ stage = "panicked" <=> lists[i] = None \/ unknown # {}
  BY <1>7
<1>9. lists[i] = None => queues' = queues
  BY <1>1 DEF Queue
<1>10. lists[i] # None =>
         queues' = [s \in Sub |-> IF s \in served THEN queues[s] \cup {i} ELSE queues[s]]
  BY <1>1 DEF Queue
<1>11. lists[i] # None => lists[i] \subseteq Sub
  BY DEF IInv, TypeOK
<1>12. lists[i] # None => \A s \in served : s \in lists[i] /\ queues[s] # None
  <2>1. SUFFICES ASSUME lists[i] # None, NEW s \in served, queues[s] = None PROVE FALSE
    OBVIOUS
  <2>2. s \in unknown /\ s < s /\ s \in Sub
    BY <1>11, <2>1
  <2> QED
    BY <2>2, IdxFacts
<1> DEFINE q == r(stage)
<1>13. /\ q \in TaskStates /\ q.name = task[t].name /\ q.idx = task[t].idx
       /\ q.main = task[t].main /\ q.at = stage
  BY <1>1, <1>6
<1>14. Goes(t, q)
  BY <1>8
<1> HIDE DEF q, r
<1>15. task' \in [Tasks -> TaskStates] /\ task'[t] = q
  BY <1>2, <1>13, <1>14, GoesTo
<1>16. CalmTask(t)'
  <2>1. SUFFICES ASSUME met = {}, stage = "panicked"
                 PROVE  lists[i] # None /\ lists[i] \cap cut # {}
    BY <1>1, <1>3, <1>13, <1>15 DEF CalmTask, At, tables
  <2>2. lists[i] # None
    BY <1>1, <1>2, <1>3, <2>1 DEF CalmTask, At
  <2>3. PICK s \in lists[i] : queues[s] = None
    BY <1>8, <2>1, <2>2
  <2>4. s \in cut
    BY <1>11, <2>2, <2>3 DEF IInv, Listed
  <2> QED
    BY <2>2, <2>3, <2>4
<1> HIDE DEF served, unknown
<1>17. \A S \in SUBSET Idx : S \cup {i} # None
  BY RacesAssumption, IdxFacts
<1>18. /\ queues \in [Sub -> (SUBSET Idx) \cup {None}]
       /\ queues' \in [Sub -> (SUBSET Idx) \cup {None}]
       /\ \A s \in Sub : queues'[s] = None <=> queues[s] = None
  <2>1. queues \in [Sub -> (SUBSET Idx) \cup {None}]
    BY DEF IInv, TypeOK
  <2>2. CASE lists[i] = None
    BY <1>9, <2>1, <2>2
  <2>3. CASE lists[i] # None
    <3>1. \A s \in served : queues[s] \in SUBSET Idx
      BY <1>11, <1>12, <2>1, <2>3
    <3>2. \A s \in Sub : queues'[s] \in (SUBSET Idx) \cup {None}
                         /\ (queues'[s] = None <=> queues[s] = None)
      BY <1>10, <1>12, <1>17, <2>1, <2>3, <3>1
    <3> QED
      BY <1>10, <2>1, <2>3, <3>2
  <2> QED
    BY <2>2, <2>3
<1>19. TypeOK'
  BY <1>3, <1>15, <1>18 DEF IInv, TypeOK, TaskStates, tables
<1>20. Base' /\ Moves(t)
  BY <1>3, <1>4, <1>5, <1>13, <1>14, <1>16, <1>18, <1>19, StageMoves
<1>21. ValueOnlyAfterAnnounce'
  <2>1. SUFFICES ASSUME ~Torn', NEW s \in Sub, subscriptions[s] # None, NEW k \in queues'[s]
                 PROVE  <<subscriptions[s].client, k>> \in told
    BY <1>3 DEF ValueOnlyAfterAnnounce
  <2>2. ~Torn
    BY <1>3, <2>1 DEF Torn
  <2>3. CASE k \in queues[s]
    BY <2>1, <2>2, <2>3 DEF IInv, ValueOnlyAfterAnnounce
  <2>4. CASE k \notin queues[s]
    <3>1. lists[i] # None
      BY <1>9, <2>1, <2>4
    <3>2. s \in served /\ k = i
      BY <1>10, <2>1, <2>4, <3>1
    <3>3. s \in lists[i]
      BY <1>12, <3>1, <3>2
    <3> QED
      BY <2>1, <2>2, <3>1, <3>2, <3>3 DEF IInv, Listed
  <2> QED
    BY <2>3, <2>4
<1> QED
  BY <1>20, <1>21, MovesSound

\* The first metatopic is done, the second one begins.
LEMMA TellPubMoves ==
  ASSUME IInv, NEW t \in Tasks, Tell(t), task[t].name[1] = "$pub"
  PROVE  Base' /\ Moves(t)
<1> DEFINE n == task[t].name
           m == <<"$sub", n[2]>>
           r == [task[t] EXCEPT !.them = {}, !.at = "look", !.name = m, !.idx = None]
<1>1. /\ task[t] \in TaskStates /\ Shaped(t) /\ Base /\ task \in [Tasks -> TaskStates]
      /\ SoFar(t) /\ NamedTask(t)
  BY TaskFacts
<1>2. /\ task[t].at = "tell" /\ UNCHANGED <<tables, people, calls, met, cut>>
      /\ told' = told \cup (task[t].them \X {task[t].idx})
      /\ n \in Names /\ n # None /\ IsMeta(n) /\ task[t].main # None
      /\ task[t].them \subseteq Clients /\ task[t].idx \in Idx
  BY <1>1 DEF Tell, At, Shaped, Steps, TaskStates, IsMeta
<1>3. /\ n[2] \in Topics /\ n = <<"$pub", n[2]>> /\ m \in Names /\ m[2] = n[2] /\ m # None
      /\ IsMeta(m) /\ m[1] = "$sub" /\ n \in MetasOf(n[2]) /\ m \in MetasOf(n[2])
  BY <1>2, NameFacts DEF MetasOf
<1>4. Goes(t, r)
  BY DEF Tell
<1>5. /\ r \in TaskStates /\ r.at = "look" /\ r.name = m /\ r.idx = None
      /\ r.main = task[t].main /\ r.them = {}
  BY <1>1, <1>3 DEF TaskStates, Stages
<1>6. task' \in [Tasks -> TaskStates] /\ task'[t] = r /\ \A u \in Tasks : u # t => task'[u] = task[u]
  BY <1>1, <1>4, <1>5, GoesTo
<1> HIDE DEF r, n, m
<1>7. TypeOK'
  <2>1. told' \subseteq (Clients \cup {Server}) \X Idx
    BY <1>2 DEF IInv, TypeOK
  <2> QED
    BY <1>2, <1>6, <2>1 DEF IInv, TypeOK, TaskStates, tables, people
<1>8. Shaped(t)'
  BY <1>2, <1>3, <1>5, <1>6 DEF Shaped, Steps, Adding
<1>9. Base'
  BY <1>1, <1>6, <1>7, <1>8, BaseAfter
<1>10. \A i \in Idx : ~Holds(t, i)'
  BY <1>5, <1>6 DEF Holds
<1>11. NamedTask(t)'
  BY <1>1, <1>2, <1>3, <1>5, <1>6, <1>10 DEF NamedTask, tables, n
<1>12. \A x \in Topics : Creates(t, x) => Creates(t, x)'
  BY <1>2, <1>3, <1>5, <1>6 DEF Creates, n
<1>13. SoFar(t)'
  <2>1. SUFFICES ASSUME NEW x \in Topics, Creates(t, x)', ~IsTorn(x)'
        PROVE  /\ topics[r.main] = Name(x)
               /\ topic_map[<<"$pub", x>>] # None
    BY <1>2, <1>5, <1>6 DEF SoFar, tables
  <2>2. x = n[2] /\ ~IsTorn(x)
    BY <1>2, <1>3, <1>5, <1>6, <2>1 DEF Creates, IsTorn
  <2>3. Creates(t, x)
    BY <1>2, <2>2 DEF Creates, n
  <2>4. topics[r.main] = Name(x) /\ topic_map[n] # None
    BY <1>1, <1>2, <1>5, <2>2, <2>3 DEF SoFar, n
  <2> QED
    BY <1>3, <2>2, <2>4
<1>14. CalmTask(t)'
  BY <1>5, <1>6 DEF CalmTask, At
<1>15. ASSUME NEW k \in Names, NEW s \in Sub, About(t, s, topic_map[k])
       PROVE  \/ <<subscriptions[s].client, topic_map[k]>> \in told'
              \/ About(t, s, topic_map[k])'
  <2>1. CASE task[t].main = topic_map[k]
    BY <1>2, <1>5, <1>6, <2>1 DEF About, tables
  <2>2. CASE task[t].idx = topic_map[k] /\ subscriptions[s].client \in task[t].them
    BY <1>2, <2>2
  <2> QED
    BY <1>2, <1>15, <2>1, <2>2 DEF About, At
<1> QED
  BY <1>2, <1>5, <1>6, <1>9, <1>10, <1>11, <1>12, <1>13, <1>14, <1>15
  DEF Moves, tables, people, Busy

\* Both metatopics are done, the publisher is answered.
LEMMA TellSubMoves ==
  ASSUME IInv, NEW t \in Tasks, Tell(t), task[t].name[1] = "$sub"
  PROVE  Base' /\ Moves(t)
<1> DEFINE n == task[t].name
           m == Name(n[2])
           r == [task[t] EXCEPT !.them = {}, !.at = "respond", !.name = m,
                                !.idx = task[t].main, !.main = None]
<1>1. /\ task[t] \in TaskStates /\ Shaped(t) /\ Base /\ task \in [Tasks -> TaskStates]
      /\ SoFar(t) /\ NamedTask(t)
  BY TaskFacts
<1>2. /\ task[t].at = "tell" /\ UNCHANGED <<tables, people, calls, met, cut>>
      /\ told' = told \cup (task[t].them \X {task[t].idx})
      /\ n \in Names /\ n # None /\ IsMeta(n) /\ task[t].main # None
      /\ task[t].them \subseteq Clients /\ task[t].idx \in Idx /\ task[t].main \in Idx
  BY <1>1 DEF Tell, At, Shaped, Steps, TaskStates, IsMeta
<1>3. /\ n[2] \in Topics /\ n = <<"$sub", n[2]>> /\ m \in Names /\ m[2] = n[2] /\ m # None
      /\ ~IsMeta(m)
  BY <1>2, NameFacts
<1>4. Goes(t, r)
  BY DEF Tell
<1>5. /\ r \in TaskStates /\ r.at = "respond" /\ r.name = m /\ r.idx = task[t].main
      /\ r.main = None /\ r.them = {}
  BY <1>1, <1>2, <1>3 DEF TaskStates, Stages
<1>6. task' \in [Tasks -> TaskStates] /\ task'[t] = r /\ \A u \in Tasks : u # t => task'[u] = task[u]
  BY <1>1, <1>4, <1>5, GoesTo
<1> HIDE DEF r, n, m
<1>7. TypeOK'
  <2>1. told' \subseteq (Clients \cup {Server}) \X Idx
    BY <1>2 DEF IInv, TypeOK
  <2> QED
    BY <1>2, <1>6, <2>1 DEF IInv, TypeOK, TaskStates, tables, people
<1>8. Shaped(t)'
  BY <1>2, <1>3, <1>5, <1>6 DEF Shaped, Steps, Adding
<1>9. Base'
  BY <1>1, <1>6, <1>7, <1>8, BaseAfter
<1>10. \A i \in Idx : Holds(t, i)' => task[t].main = i /\ task'[t].main = None
  BY <1>5, <1>6 DEF Holds
<1>11. NamedTask(t)'
  BY <1>1, <1>2, <1>3, <1>5, <1>6 DEF NamedTask, tables, n, m
<1>12. ASSUME NEW x \in Topics, Creates(t, x), ~IsTorn(x)
       PROVE  \A k \in MetasOf(x) : topic_map[k] # None
  <2>1. x = n[2]
    BY <1>12 DEF Creates, n
  <2>2. topic_map[n] # None /\ topic_map[<<"$pub", x>>] # None
    BY <1>1, <1>2, <1>3, <1>12 DEF SoFar, n
  <2> QED
    BY <1>3, <2>1, <2>2 DEF MetasOf
<1>13. SoFar(t)' /\ CalmTask(t)'
  BY <1>5, <1>6 DEF SoFar, Creates, CalmTask, At, Adding
<1>14. ASSUME NEW k \in Names, NEW s \in Sub, About(t, s, topic_map[k])
       PROVE  \/ <<subscriptions[s].client, topic_map[k]>> \in told'
              \/ About(t, s, topic_map[k])'
  <2>1. CASE task[t].main = topic_map[k]
    BY <1>2, <1>5, <1>6, <2>1 DEF About, At, tables
  <2>2. CASE task[t].idx = topic_map[k] /\ subscriptions[s].client \in task[t].them
    BY <1>2, <2>2
  <2> QED
    BY <1>2, <1>14, <2>1, <2>2 DEF About, At
<1>15. r.idx < next
  BY <1>2, <1>5 DEF IInv, Fresh
<1> QED
  BY <1>2, <1>5, <1>6, <1>9, <1>10, <1>11, <1>12, <1>13, <1>14, <1>15
  DEF Moves, tables, people, Busy

LEMMA TellSound ==
  ASSUME IInv, NEW t \in Tasks, Tell(t)
  PROVE  IInv'
<1>1. /\ task[t] \in TaskStates /\ Shaped(t) /\ Base /\ task \in [Tasks -> TaskStates]
  BY TaskFacts
<1>2. /\ task[t].at = "tell" /\ UNCHANGED <<tables, people, calls, met, cut>>
      /\ told' = told \cup (task[t].them \X {task[t].idx})
      /\ task[t].name \in Names /\ task[t].name # None
      /\ task[t].them \subseteq Clients /\ task[t].idx \in Idx
  BY <1>1 DEF Tell, At, Shaped, Steps, TaskStates
<1>3. CASE task[t].name[1] = "topic"
  <2> DEFINE r == [task[t] EXCEPT !.them = {}, !.at = "register"]
  <2>1. /\ r \in TaskStates /\ r.name = task[t].name /\ r.idx = task[t].idx
        /\ r.main = task[t].main /\ r.at = "register" /\ ~IsMeta(r.name)
    BY <1>1, <1>3 DEF TaskStates, Stages, IsMeta
  <2>2. Goes(t, r)
    BY <1>3 DEF Tell
  <2>3. task' \in [Tasks -> TaskStates] /\ task'[t] = r
    BY <1>1, <2>1, <2>2, GoesTo
  <2>4. r.main = None
    BY <1>1, <1>2, <2>1 DEF Shaped, Steps
  <2> HIDE DEF r
  <2>5. TypeOK'
    <3>1. told' \subseteq (Clients \cup {Server}) \X Idx
      BY <1>2 DEF IInv, TypeOK
    <3> QED
      BY <1>2, <2>3, <3>1 DEF IInv, TypeOK, TaskStates, tables, people
  <2>6. CalmTask(t)'
    BY <2>1, <2>3 DEF CalmTask, At
  <2>7. ASSUME NEW k \in Names, NEW s \in Sub, Covers(s, k), About(t, s, topic_map[k])
        PROVE  <<subscriptions[s].client, topic_map[k]>> \in told'
    BY <1>2, <2>1, <2>4, <2>7 DEF About, At, Covers
  <2>8. /\ CalmFrame
        /\ \A s \in Sub : queues'[s] = None <=> queues[s] = None
        /\ \A c \in Clients : pubs'[c] = None \/ pubs'[c] = pubs[c] \/ Holds(t, pubs'[c])
    BY <1>2 DEF people, tables, CalmFrame
  <2>9. Base' /\ Moves(t)
    BY <1>2, <2>1, <2>2, <2>4, <2>5, <2>6, <2>7, <2>8, StageMoves
  <2> QED
    BY <1>2, <2>9, MovesSound, QueuesSame DEF people
<1>4. CASE task[t].name[1] \in {"$pub", "$sub"}
  <2>1. Base' /\ Moves(t)
    BY <1>4, TellPubMoves, TellSubMoves
  <2> QED
    BY <1>2, <2>1, MovesSound, QueuesSame DEF people
<1>5. task[t].name[1] \in {"topic", "$pub", "$sub"}
  BY <1>2 DEF Names
<1> QED
  BY <1>3, <1>4, <1>5

\* A task begins: a publish has a name, what the parser does with a pubuid an index.
LEMMA BeginMoves ==
  ASSUME IInv, NEW t \in Tasks, task[t].at = "idle", NEW r \in TaskStates, Goes(t, r),
         CalmFrame, TypeOK', r.main = None, r.at \in {"look", "check", "release"},
         r.at = "look" => r.idx = None /\ r.name # None /\ ~IsMeta(r.name),
         r.at # "look" => /\ t = Parser
                          /\ \E c \in Clients : pubs[c] # None /\ r.idx = pubs[c]
                          /\ r.name \in {None, topics[r.idx]},
         \A s \in Sub : queues'[s] = None <=> queues[s] = None,
         \A c \in Clients : pubs'[c] = None \/ pubs'[c] = pubs[c]
  PROVE  Base' /\ Moves(t)
<1>1. /\ task[t] \in TaskStates /\ Shaped(t) /\ Base /\ task \in [Tasks -> TaskStates]
  BY TaskFacts
<1>2. task' \in [Tasks -> TaskStates] /\ task'[t] = r /\ \A u \in Tasks : u # t => task'[u] = task[u]
  BY <1>1, GoesTo
<1>3. task[t].main = None /\ task[t].idx = None
  BY <1>1 DEF Shaped, Steps, Adding
<1>4. r.idx # None => /\ t = Parser /\ r.idx \in Idx /\ r.idx < next
                      /\ \E c \in Clients : pubs[c] = r.idx
                      /\ Ordinary(r.idx)
  <2>1. SUFFICES ASSUME r.at # "look"
                 PROVE  /\ t = Parser /\ r.idx \in Idx /\ r.idx < next
                        /\ \E c \in Clients : pubs[c] = r.idx
                        /\ Ordinary(r.idx)
    OBVIOUS
  <2>2. PICK c \in Clients : pubs[c] # None /\ r.idx = pubs[c]
    BY <2>1
  <2>3. r.idx \in Idx /\ r.idx < next
    BY <2>2 DEF IInv, TypeOK, Fresh
  <2>4. Ordinary(r.idx)
    BY <2>2, <2>3 DEF IInv, TablesInv, Named, Held
  <2> QED
    BY <2>1, <2>2, <2>3, <2>4
<1>5. Shaped(t)'
  <2>1. CASE r.at = "look"
    BY <1>2, <2>1 DEF Shaped, Steps, Adding
  <2>2. CASE r.at # "look"
    <3>1. r.idx # None
      BY <2>2
    <3> QED
      BY <1>2, <2>2, <3>1 DEF Shaped, Steps, Adding
  <2> QED
    BY <2>1, <2>2
<1>6. Base'
  BY <1>1, <1>2, <1>5, BaseAfter
<1>7. ASSUME NEW i \in Idx, Holds(t, i)'
      PROVE  t = Parser /\ r.idx = i /\ r.idx # None /\ \E c \in Clients : pubs[c] = i
  <2>1. r.idx = i /\ r.idx # None
    BY <1>2, <1>7, IdxFacts DEF Holds
  <2> QED
    BY <1>4, <2>1
<1>8. NamedTask(t)'
  <2>1. r.idx # None /\ r.name # None => topics[r.idx] = r.name
    OBVIOUS
  <2>2. r.name \in Names => \A i \in Idx : Holds(t, i)' => ~IsMeta(r.name)
    <3>1. SUFFICES ASSUME r.name \in Names, NEW i \in Idx, Holds(t, i)' PROVE ~IsMeta(r.name)
      OBVIOUS
    <3>2. r.idx # None /\ r.name # None
      BY <1>7, <3>1, NameFacts
    <3>3. topics[r.idx] = r.name /\ Ordinary(r.idx)
      BY <1>4, <2>1, <3>2
    <3> QED
      BY <3>2, <3>3 DEF Ordinary
  <2> QED
    BY <1>2, <2>1, <2>2 DEF NamedTask, CalmFrame
<1>9. \A x \in Topics : ~Creates(t, x)' /\ ~Creates(t, x)
  BY <1>2, <1>3 DEF Creates, Adding
<1>10. SoFar(t)' /\ CalmTask(t)'
  BY <1>2, <1>9 DEF SoFar, CalmTask, At
<1>11. \A n \in Names, s \in Sub : Covers(s, n) => ~About(t, s, topic_map[n])
  BY <1>3 DEF Covers, About, At
<1>12. UNCHANGED <<topics, next, pub_count, topic_map, lists, next_sub, subscriptions, subs, cut>>
       /\ met \subseteq met' /\ told \subseteq told'
  BY DEF CalmFrame
<1> QED
  BY <1>2, <1>3, <1>4, <1>6, <1>7, <1>8, <1>9, <1>10, <1>11, <1>12 DEF Moves, Busy

LEMMA BeginsTyped ==
  ASSUME IInv, NEW t \in Tasks, NEW r \in TaskStates, Begins(t, r)
  PROVE  /\ task[t].at = "idle" /\ Goes(t, r) /\ calls' \in 0 .. MaxCalls
         /\ task' \in [Tasks -> TaskStates]
  BY TaskFacts, GoesTo, IdxFacts DEF Begins, At, IInv, TypeOK

LEMMA PublishSound ==
  ASSUME IInv, NEW t \in Tasks, NEW c \in Clients \cup {Server}, NEW x \in Topics,
         Publish(t, c, x)
  PROVE  IInv'
<1> DEFINE r == [Idle EXCEPT !.at = "look", !.who = c, !.name = Name(x)]
<1>1. /\ r \in TaskStates /\ r.at = "look" /\ r.name = Name(x) /\ r.idx = None /\ r.main = None
      /\ Name(x) \in Names /\ Name(x) # None /\ ~IsMeta(Name(x))
  BY NameFacts, IdleFacts DEF TaskStates, Stages
<1>2. Begins(t, r) /\ UNCHANGED <<tables, people, told, met, cut>>
  BY DEF Publish
<1> HIDE DEF r
<1>3. /\ task[t].at = "idle" /\ Goes(t, r) /\ calls' \in 0 .. MaxCalls
      /\ task' \in [Tasks -> TaskStates]
  BY <1>1, <1>2, BeginsTyped
<1>4. TypeOK'
  BY <1>2, <1>3 DEF IInv, TypeOK, TaskStates, tables, people
<1>5. /\ CalmFrame
      /\ \A s \in Sub : queues'[s] = None <=> queues[s] = None
      /\ \A d \in Clients : pubs'[d] = None \/ pubs'[d] = pubs[d]
  BY <1>2 DEF CalmFrame, tables, people
<1>6. Base' /\ Moves(t)
  BY <1>1, <1>3, <1>4, <1>5, BeginMoves
<1> QED
  BY <1>2, <1>6, MovesSound, QueuesSame DEF people

LEMMA SetValueSound ==
  ASSUME IInv, NEW c \in Clients, SetValue(c)
  PROVE  IInv'
<1> DEFINE i == pubs[c]
           r == [Idle EXCEPT !.at = "check", !.who = c, !.idx = i, !.name = topics[i]]
<1>1. i \in Idx /\ i # None /\ topics[i] \in Names \cup {None} /\ Parser \in Tasks
  BY IdxFacts DEF SetValue, IInv, TypeOK, Tasks
<1>2. /\ r \in TaskStates /\ r.at = "check" /\ r.name = topics[i] /\ r.idx = i /\ r.main = None
  BY <1>1, IdleFacts DEF TaskStates, Stages
<1>3. Begins(Parser, r) /\ UNCHANGED <<tables, people, told, met, cut>>
  BY DEF SetValue
<1> HIDE DEF r
<1>4. /\ task[Parser].at = "idle" /\ Goes(Parser, r) /\ calls' \in 0 .. MaxCalls
      /\ task' \in [Tasks -> TaskStates]
  BY <1>1, <1>2, <1>3, BeginsTyped
<1>5. TypeOK'
  BY <1>3, <1>4 DEF IInv, TypeOK, TaskStates, tables, people
<1>6. /\ CalmFrame
      /\ \A s \in Sub : queues'[s] = None <=> queues[s] = None
      /\ \A d \in Clients : pubs'[d] = None \/ pubs'[d] = pubs[d]
  BY <1>3 DEF CalmFrame, tables, people
<1>7. Base' /\ Moves(Parser)
  BY <1>1, <1>2, <1>4, <1>5, <1>6, BeginMoves
<1> QED
  BY <1>1, <1>3, <1>7, MovesSound, QueuesSame DEF people

LEMMA UnpublishSound ==
  ASSUME IInv, NEW c \in Clients, Unpublish(c)
  PROVE  IInv'
<1> DEFINE i == pubs[c]
           r == [Idle EXCEPT !.at = "release", !.who = c, !.idx = i]
<1>1. i \in Idx /\ i # None /\ Parser \in Tasks
  BY IdxFacts DEF Unpublish, IInv, TypeOK, Tasks
<1>2. /\ r \in TaskStates /\ r.at = "release" /\ r.name = None /\ r.idx = i /\ r.main = None
  BY <1>1, IdleFacts DEF TaskStates, Stages
<1>3. /\ Begins(Parser, r) /\ pubs' = [pubs EXCEPT ![c] = None]
      /\ UNCHANGED <<tables, next_sub, subscriptions, queues, subs, told, met, cut>>
  BY DEF Unpublish
<1> HIDE DEF r
<1>4. /\ task[Parser].at = "idle" /\ Goes(Parser, r) /\ calls' \in 0 .. MaxCalls
      /\ task' \in [Tasks -> TaskStates]
  BY <1>1, <1>2, <1>3, BeginsTyped
<1>5. /\ pubs' \in [Clients -> Idx \cup {None}]
      /\ \A d \in Clients : pubs'[d] = None \/ pubs'[d] = pubs[d]
  BY <1>3 DEF IInv, TypeOK
<1>6. TypeOK'
  BY <1>3, <1>4, <1>5 DEF IInv, TypeOK, TaskStates, tables
<1>7. /\ CalmFrame
      /\ \A s \in Sub : queues'[s] = None <=> queues[s] = None
  BY <1>3 DEF CalmFrame, tables
<1>8. Base' /\ Moves(Parser)
  BY <1>1, <1>2, <1>4, <1>5, <1>6, <1>7, BeginMoves
<1> QED
  BY <1>1, <1>3, <1>8, MovesSound, QueuesSame

--------------------------------------------------------------------------------
\* The steps of add_topic under an index of its own

\* What such a step of task t leaves alone
AddFrame(t) ==
  /\ UNCHANGED <<valued, people, told, calls, cut>> /\ met \subseteq met'
  /\ \A u \in Tasks : u # t => task'[u] = task[u]

\* Before and after it, t holds no topic, and is not cleansing.
LEMMA AddHeld ==
  ASSUME NEW t \in Tasks, AddFrame(t),
         task[t].at \in {"insert", "count", "map", "list"},
         task'[t].at \in {"count", "map", "list", "announce", "look"}
  PROVE  /\ \A i : Held(i)' <=> Held(i)
         /\ \A u \in Tasks, i \in Idx : u # t => (Making(u, i)' <=> Making(u, i))
         /\ \A u \in Tasks, x \in Topics : u # t => (Creates(u, x)' <=> Creates(u, x))
         /\ At(Parser, "cleanse")' <=> At(Parser, "cleanse")
         /\ At(Parser, "cleanse") => t # Parser /\ task'[Parser] = task[Parser]
<1>1. \A i : ~Holds(t, i) /\ ~Holds(t, i)'
  BY DEF Holds
<1>2. \A u \in Tasks : u # t => task'[u] = task[u]
  BY DEF AddFrame
<1>3. \A i : \A u \in Tasks : Holds(u, i)' <=> Holds(u, i)
  BY <1>1, <1>2, SameTask
<1>4. pubs' = pubs
  BY DEF AddFrame, people
<1>5. \A i : Held(i)' <=> Held(i)
  BY <1>3, <1>4 DEF Held
<1>6. /\ At(Parser, "cleanse")' <=> At(Parser, "cleanse")
      /\ At(Parser, "cleanse") => t # Parser /\ task'[Parser] = task[Parser]
  BY <1>2 DEF At, Tasks
<1> QED
  BY <1>2, <1>5, <1>6, SameTask

LEMMA InsertFacts ==
  ASSUME IInv, NEW t \in Tasks, Insert(t)
  PROVE  /\ AddFrame(t) /\ Base' /\ next \in Idx /\ topics[next] = None
         /\ task[t].at = "insert" /\ task[t].name \in Names
         /\ task'[t].at = "count" /\ task'[t].idx = next /\ task'[t].name = task[t].name
         /\ task'[t].main = task[t].main
         /\ topics' = [topics EXCEPT ![next] = task[t].name] /\ next' = next + 1
         /\ UNCHANGED <<pub_count, topic_map, lists>>
         /\ ~Torn' => ~Torn
         /\ \A x \in Topics : (IsTorn(x)' <=> IsTorn(x)) /\ (IsTwice(x) => IsTwice(x)')
         /\ \A x \in Topics : x = task[t].name[2] /\ ~IsTwice(x)' =>
              topic_map[task[t].name] = None /\ \A u \in Tasks \ {t} : ~Creates(u, x)
<1> DEFINE n == task[t].name
           r == [task[t] EXCEPT !.at = "count", !.idx = next]
<1>1. /\ task[t] \in TaskStates /\ Shaped(t) /\ Base /\ TypeOK /\ task \in [Tasks -> TaskStates]
  BY TaskFacts
<1>2. /\ task[t].at = "insert" /\ next < MaxTopics /\ Goes(t, r)
      /\ topics' = [topics EXCEPT ![next] = n] /\ next' = next + 1
      /\ UNCHANGED <<pub_count, topic_map, lists, valued, people, told, calls, cut>>
      /\ n \in Names /\ n # None
  BY <1>1 DEF Insert, At, Shaped, Adding, TaskStates
<1>3. next \in Idx /\ next \in Nat /\ next + 1 \in 0 .. MaxTopics /\ next # None
  BY <1>1, <1>2, IdxFacts DEF TypeOK, Idx
<1>4. /\ r \in TaskStates /\ r.at = "count" /\ r.idx = next /\ r.name = n
      /\ r.main = task[t].main
  BY <1>1, <1>3 DEF TaskStates, Stages
<1>5. /\ task' \in [Tasks -> TaskStates] /\ task'[t] = r
      /\ \A u \in Tasks : u # t => task'[u] = task[u]
  BY <1>1, <1>2, <1>4, GoesTo
<1>6. /\ \/ met' = met /\ topic_map[n] = None /\ \A u \in Tasks \ {t} : ~Creates(u, n[2])
         \/ met' = met \cup {<<"twice", n[2]>>}
      /\ n[2] \in Topics
  BY <1>2, NameFacts DEF Insert, Meets
<1> HIDE DEF r, n
<1>7. met \subseteq met' /\ met' \subseteq {"found", "twice", "torn", "gone"} \X Topics
  BY <1>1, <1>6 DEF TypeOK
<1>8. TypeOK'
  <2>1. topics' \in [Idx -> Names \cup {None}]
    BY <1>1, <1>2, <1>3 DEF TypeOK
  <2> QED
    BY <1>1, <1>2, <1>3, <1>5, <1>7, <2>1 DEF TypeOK, TaskStates, people
<1>9. Shaped(t)'
  BY <1>1, <1>2, <1>3, <1>4, <1>5 DEF Shaped, Steps, Adding, n
<1>10. Base' /\ AddFrame(t)
  BY <1>1, <1>2, <1>5, <1>7, <1>8, <1>9, BaseAfter DEF AddFrame
<1>11. topics[next] = None
  BY <1>1, <1>3 DEF IInv, Fresh, TypeOK
<1>12. /\ \A x \in Topics : (IsTorn(x)' <=> IsTorn(x)) /\ (IsTwice(x) => IsTwice(x)')
       /\ ~Torn' => ~Torn
  BY <1>6 DEF IsTorn, IsTwice, Torn
<1>13. ASSUME NEW x \in Topics, x = n[2], ~IsTwice(x)'
       PROVE  topic_map[n] = None /\ \A u \in Tasks \ {t} : ~Creates(u, x)
  <2>1. met' # met \cup {<<"twice", n[2]>>}
    BY <1>13 DEF IsTwice
  <2> QED
    BY <1>6, <1>13, <2>1
<1> QED
  BY <1>2, <1>3, <1>4, <1>5, <1>10, <1>11, <1>12, <1>13 DEF n

\* Nothing that is in use is the index that Insert takes.
LEMMA NextUnused ==
  ASSUME IInv, next \in Idx
  PROVE  /\ \A n \in Names : topic_map[n] # next
         /\ \A c \in Clients : pubs[c] # next
         /\ \A u \in Tasks : task[u].idx # next /\ task[u].main # next
         /\ ~Held(next)
<1>1. next \in Nat /\ next # None /\ ~(next < next)
  BY IdxFacts
<1>2. \A u \in Tasks : task[u].idx # next /\ task[u].main # next
  BY <1>1 DEF IInv, Fresh
<1>3. \A c \in Clients : pubs[c] # next
  BY <1>1 DEF IInv, Fresh
<1> QED
  BY <1>1, <1>2, <1>3 DEF IInv, Fresh, Held, Holds

LEMMA InsertTables ==
  ASSUME IInv, NEW t \in Tasks, Insert(t)
  PROVE  TablesInv'
<1> DEFINE n == task[t].name
<1>1. /\ AddFrame(t) /\ Base' /\ next \in Idx /\ topics[next] = None
      /\ task[t].at = "insert" /\ n \in Names
      /\ task'[t].at = "count" /\ task'[t].idx = next /\ task'[t].name = n
      /\ task'[t].main = task[t].main
      /\ topics' = [topics EXCEPT ![next] = n]
      /\ UNCHANGED <<pub_count, topic_map, lists>>
      /\ \A x \in Topics : (IsTorn(x)' <=> IsTorn(x)) /\ (IsTwice(x) => IsTwice(x)')
      /\ \A x \in Topics : x = n[2] /\ ~IsTwice(x)' =>
           topic_map[n] = None /\ \A u \in Tasks \ {t} : ~Creates(u, x)
  BY InsertFacts
<1>2. /\ \A m \in Names : topic_map[m] # next
      /\ \A u \in Tasks : task[u].idx # next /\ task[u].main # next
      /\ ~Held(next)
  BY <1>1, NextUnused
<1>3. /\ task[t] \in TaskStates /\ Shaped(t) /\ SoFar(t) /\ NamedTask(t) /\ TypeOK
  BY TaskFacts
<1>4. /\ topics'[next] = n /\ \A j \in Idx : j # next => topics'[j] = topics[j]
      /\ n # None /\ n[2] \in Topics
  BY <1>1, <1>3, NameFacts DEF TypeOK
<1>5. /\ \A i : Held(i)' <=> Held(i)
      /\ \A u \in Tasks, i \in Idx : u # t => (Making(u, i)' <=> Making(u, i))
      /\ \A u \in Tasks, x \in Topics : u # t => (Creates(u, x)' <=> Creates(u, x))
      /\ At(Parser, "cleanse")' <=> At(Parser, "cleanse")
      /\ At(Parser, "cleanse") => t # Parser /\ task'[Parser] = task[Parser]
  BY <1>1, AddHeld
<1>6. \A u \in Tasks : u # t => task'[u] = task[u]
  BY <1>1 DEF AddFrame
<1>7. \A m \in Names : topic_map[m] # None => topics'[topic_map[m]] = topics[topic_map[m]]
  BY <1>2, <1>3, <1>4 DEF TypeOK
<1>8. \A u \in Tasks : /\ task[u].idx # None => topics'[task[u].idx] = topics[task[u].idx]
                       /\ task[u].main # None => topics'[task[u].main] = topics[task[u].main]
  BY <1>2, <1>3, <1>4 DEF TypeOK
<1> HIDE DEF n
<1>9. Named'
  <2>1. \A m \in Names : topic_map'[m] # None =>
          topics'[topic_map'[m]] = m \/ (~IsMeta(m) /\ topics'[topic_map'[m]] = None)
    BY <1>1, <1>7 DEF IInv, TablesInv, Named
  <2>2. ASSUME NEW u \in Tasks PROVE NamedTask(u)'
    <3>1. CASE u = t
      <4>1. \A i \in Idx : ~Holds(t, i)'
        BY <1>1 DEF Holds
      <4> QED
        BY <1>1, <1>3, <1>4, <1>8, <3>1, <4>1 DEF NamedTask, n
    <3>2. CASE u # t
      <4>1. task'[u] = task[u] /\ NamedTask(u)
        BY <1>6, <3>2 DEF IInv, TablesInv, Named
      <4>2. \A i : Holds(u, i)' <=> Holds(u, i)
        BY <4>1, SameTask
      <4> QED
        BY <1>1, <1>8, <4>1, <4>2 DEF NamedTask
    <3> QED
      BY <3>1, <3>2
  <2>3. \A i \in Idx : Held(i)' => Ordinary(i)'
    BY <1>2, <1>4, <1>5 DEF IInv, TablesInv, Named, Ordinary
  <2> QED
    BY <2>1, <2>2, <2>3 DEF Named
<1>10. Owners'
  <2>1. \A u \in Tasks : ~Making(u, next)
    BY <1>2 DEF Making
  <2>2. \A i \in Idx : Making(t, i)' => i = next \/ Making(t, i)
    BY <1>1 DEF Making
  <2>3. \A i \in Idx, u, v \in Tasks : Making(u, i) /\ Making(v, i) => u = v
    BY DEF IInv, TablesInv, Owners
  <2> QED
    BY <1>5, <2>1, <2>2, <2>3 DEF Owners
<1>11. Unmapped'
  <2>1. SUFFICES ASSUME NEW u \in Tasks, NEW i \in Idx, task'[u].at \in {"count", "map"},
                        task'[u].idx = i
        PROVE  topics'[i] = task'[u].name /\ (\A m \in Names : topic_map[m] # i) /\ ~Held(i)
    BY <1>1, <1>5 DEF Unmapped
  <2>2. CASE u = t
    BY <1>1, <1>2, <1>4, <2>1, <2>2
  <2>3. CASE u # t
    BY <1>2, <1>4, <1>6, <2>1, <2>3 DEF IInv, TablesInv, Unmapped
  <2> QED
    BY <2>2, <2>3
<1>12. Counted'
  <2>1. \A u \in Tasks, i \in Idx : i # next =>
          /\ (task'[u].at = "count" /\ task'[u].idx = i) <=> (task[u].at = "count" /\ task[u].idx = i)
          /\ (task'[u].at \in Busy /\ task'[u].idx = i) <=> (task[u].at \in Busy /\ task[u].idx = i)
    BY <1>1, <1>6 DEF Busy
  <2>2. task'[t].at \in Busy
    BY <1>1 DEF Busy
  <2> QED
    BY <1>1, <1>4, <2>1, <2>2 DEF IInv, TablesInv, Counted
<1>13. Going'
  <2>1. SUFFICES ASSUME At(Parser, "cleanse")
        PROVE  /\ task[Parser].idx \in task[Parser].them
               /\ \A j \in task[Parser].them : /\ j \in Idx /\ j < next' /\ topics'[j] = None
                                               /\ \A m \in Names : topic_map[m] # j
    BY <1>1, <1>5 DEF Going
  <2>2. next' = next + 1 /\ next \in Nat
    BY <1>1, IdxFacts, InsertFacts
  <2>3. \A j \in task[Parser].them : j \in Idx /\ j < next /\ j # next /\ j < next'
    BY <2>1, <2>2, IdxFacts DEF IInv, TablesInv, Going
  <2> QED
    BY <1>4, <2>1, <2>3 DEF IInv, TablesInv, Going
<1>14. Whole'
  <2>1. \A x \in Topics : Creates(t, x) => Creates(t, x)'
    BY <1>1 DEF Creates, Adding, n
  <2>2. \A x \in Topics, u \in Tasks : Creates(u, x) => Creates(u, x)'
    BY <1>5, <2>1
  <2> QED
    BY <1>1, <1>7, <2>2 DEF IInv, TablesInv, Whole
<1>15. Once'
  <2>1. SUFFICES ASSUME NEW x \in Topics, ~IsTwice(x)'
        PROVE  /\ \A u \in Tasks : task'[u].at \in {"count", "map"} /\ task'[u].name = Name(x) =>
                    /\ topic_map[Name(x)] = None
                    /\ \A v \in Tasks : task'[v].at \in {"count", "map"} /\ task'[v].name = Name(x)
                                          => v = u
               /\ ~IsTorn(x) => \A j \in Idx : topics'[j] = Name(x) =>
                    \/ topic_map[Name(x)] = j
                    \/ \E u \in Tasks : task'[u].at \in {"count", "map"} /\ task'[u].idx = j
    BY <1>1 DEF Once
  <2>2. ~IsTwice(x)
    BY <1>1, <2>1
  <2>3. ASSUME n = Name(x), NEW u \in Tasks, u # t
        PROVE  ~(task[u].at \in {"count", "map"} /\ task[u].name = Name(x))
    <3>1. n[2] = x /\ Name(x) # None
      BY <2>3, NameFacts
    <3>2. ~Creates(u, x)
      BY <1>1, <2>1, <2>3, <3>1
    <3> QED
      BY <3>1, <3>2, NameFacts DEF Creates, Adding
  <2>4. n = Name(x) => topic_map[Name(x)] = None
    BY <1>1, <2>1, NameFacts
  <2>5. ASSUME NEW u \in Tasks, task'[u].at \in {"count", "map"}, task'[u].name = Name(x)
        PROVE  /\ topic_map[Name(x)] = None
               /\ \A v \in Tasks : task'[v].at \in {"count", "map"} /\ task'[v].name = Name(x)
                                     => v = u
    <3>1. CASE n = Name(x)
      BY <1>6, <2>3, <2>4, <2>5, <3>1
    <3>2. CASE n # Name(x)
      <4>1. u # t /\ task'[u] = task[u]
        BY <1>1, <1>6, <2>5, <3>2
      <4> QED
        BY <1>1, <1>6, <2>2, <2>5, <3>2, <4>1 DEF IInv, TablesInv, Once
    <3> QED
      BY <3>1, <3>2
  <2>6. ASSUME ~IsTorn(x), NEW j \in Idx, topics'[j] = Name(x)
        PROVE  \/ topic_map[Name(x)] = j
               \/ \E u \in Tasks : task'[u].at \in {"count", "map"} /\ task'[u].idx = j
    <3>1. CASE j = next
      BY <1>1, <3>1
    <3>2. CASE j # next
      <4>1. topics[j] = Name(x)
        BY <1>4, <2>6, <3>2
      <4>2. CASE topic_map[Name(x)] = j
        BY <4>2
      <4>3. CASE \E u \in Tasks : task[u].at \in {"count", "map"} /\ task[u].idx = j
        <5>1. PICK u \in Tasks : task[u].at \in {"count", "map"} /\ task[u].idx = j
          BY <4>3
        <5>2. task'[u] = task[u]
          BY <1>1, <1>6, <5>1
        <5> QED
          BY <5>1, <5>2
      <4> QED
        BY <2>2, <2>6, <4>1, <4>2, <4>3 DEF IInv, TablesInv, Once
    <3> QED
      BY <3>1, <3>2
  <2> QED
    BY <2>5, <2>6
<1> QED
  BY <1>9, <1>10, <1>11, <1>12, <1>13, <1>14, <1>15 DEF TablesInv

LEMMA InsertSound ==
  ASSUME IInv, NEW t \in Tasks, Insert(t)
  PROVE  IInv'
<1> DEFINE n == task[t].name
<1>1. /\ AddFrame(t) /\ Base' /\ next \in Idx /\ topics[next] = None
      /\ task[t].at = "insert" /\ n \in Names
      /\ task'[t].at = "count" /\ task'[t].idx = next /\ task'[t].name = n
      /\ task'[t].main = task[t].main
      /\ topics' = [topics EXCEPT ![next] = n] /\ next' = next + 1
      /\ UNCHANGED <<pub_count, topic_map, lists>> /\ (~Torn' => ~Torn)
      /\ \A x \in Topics : (IsTorn(x)' <=> IsTorn(x)) /\ (IsTwice(x) => IsTwice(x)')
  BY InsertFacts
<1>2. /\ \A m \in Names : topic_map[m] # next
      /\ \A u \in Tasks : task[u].idx # next /\ task[u].main # next
      /\ ~Held(next)
  BY <1>1, NextUnused
<1>3. /\ task[t] \in TaskStates /\ Shaped(t) /\ SoFar(t) /\ TypeOK
  BY TaskFacts
<1>4. /\ topics'[next] = n /\ \A j \in Idx : j # next => topics'[j] = topics[j]
      /\ n # None /\ n[2] \in Topics
  BY <1>1, <1>3, NameFacts DEF TypeOK
<1>5. /\ \A i : Held(i)' <=> Held(i)
      /\ \A u \in Tasks, i \in Idx : u # t => (Making(u, i)' <=> Making(u, i))
      /\ \A u \in Tasks, x \in Topics : u # t => (Creates(u, x)' <=> Creates(u, x))
      /\ At(Parser, "cleanse")' <=> At(Parser, "cleanse")
      /\ At(Parser, "cleanse") => t # Parser /\ task'[Parser] = task[Parser]
  BY <1>1, AddHeld
<1>6. /\ \A u \in Tasks : u # t => task'[u] = task[u]
      /\ UNCHANGED <<next_sub, subscriptions, queues, pubs, subs, told, cut>> /\ met \subseteq met'
  BY <1>1 DEF AddFrame, people
<1>7. \A u \in Tasks : /\ task[u].idx # None => topics'[task[u].idx] = topics[task[u].idx]
                       /\ task[u].main # None => topics'[task[u].main] = topics[task[u].main]
  BY <1>2, <1>3, <1>4 DEF TypeOK
<1> HIDE DEF n
<1>8. TasksInv'
  <2>1. SUFFICES ASSUME NEW u \in Tasks PROVE SoFar(u)' /\ CalmTask(u)'
    BY <1>1 DEF TasksInv, Base
  <2>2. CASE u = t
    <3>1. CalmTask(t)'
      BY <1>1 DEF CalmTask, At
    <3>2. SUFFICES ASSUME NEW x \in Topics, Creates(t, x)', ~IsTorn(x)
          PROVE  /\ topics'[next] = n
                 /\ task[t].main # None => topics'[task[t].main] = Name(x)
                 /\ n[1] = "$sub" => topic_map[<<"$pub", x>>] # None
      BY <1>1, <2>2, <3>1 DEF SoFar
    <3>3. Creates(t, x)
      BY <1>1, <3>2 DEF Creates, Adding, n
    <3> QED
      BY <1>3, <1>4, <1>7, <3>2, <3>3 DEF SoFar, n
  <2>3. CASE u # t
    <3>1. task'[u] = task[u] /\ SoFar(u) /\ CalmTask(u)
      BY <1>6, <2>3 DEF IInv, TasksInv
    <3>2. \A x \in Topics : Creates(u, x)' <=> Creates(u, x)
      BY <1>5, <2>3
    <3>3. SoFar(u)'
      BY <1>1, <1>7, <3>1, <3>2 DEF SoFar
    <3>4. CalmTask(u)'
      BY <1>1, <1>6, <3>1 DEF CalmTask, At
    <3> QED
      BY <3>3, <3>4
  <2> QED
    BY <2>2, <2>3
<1>9. Fresh'
  <2>1. next \in Nat /\ next' = next + 1 /\ \A i \in Idx : i \in Nat
    BY <1>1, IdxFacts
  <2>2. \A i \in Idx : i < next => i < next'
    BY <2>1
  <2>3. \A i \in Idx : topics'[i] # None => i < next'
    BY <1>4, <2>1, <2>2 DEF IInv, Fresh
  <2>4. \A m \in Names : topic_map'[m] # None => topic_map'[m] < next'
    BY <1>1, <1>3, <2>2 DEF IInv, Fresh, TypeOK
  <2>5. \A c \in Clients : pubs'[c] # None => pubs'[c] < next'
    BY <1>3, <1>6, <2>2 DEF IInv, Fresh, TypeOK
  <2>6. \A u \in Tasks : /\ task'[u].idx # None => task'[u].idx < next'
                         /\ task'[u].main # None => task'[u].main < next'
    <3>1. \A u \in Tasks : /\ task[u].idx # None => task[u].idx < next'
                           /\ task[u].main # None => task[u].main < next'
      BY <1>3, <2>2 DEF IInv, Fresh, TypeOK
    <3> QED
      BY <1>1, <1>6, <2>1, <3>1
  <2> QED
    BY <2>3, <2>4, <2>5, <2>6 DEF Fresh
<1>10. FreshSubs' /\ Listed'
  BY <1>1, <1>6 DEF IInv, FreshSubs, Listed
<1>11. Apart'
  <2>1. SUFFICES ASSUME met' = {}
        PROVE  /\ \A i \in Idx : Held(i) => \A u \in Tasks : ~Making(u, i)'
               /\ At(Parser, "cleanse") => \A u \in Handles, i \in task'[Parser].them :
                    ~Holds(u, i)' /\ task'[u].main # i
               /\ \A i \in Idx : topics'[i] = None /\ Held(i) =>
                    pub_count[i] = None \/ (At(Parser, "cleanse") /\ task'[Parser].idx = i)
    BY <1>1, <1>5 DEF Apart
  <2>2. Apart /\ met = {}
    BY <1>6, <2>1 DEF IInv
  <2>3. \A i \in Idx : Making(t, i)' => i = next \/ Making(t, i)
    BY <1>1 DEF Making
  <2>4. \A i \in Idx : Held(i) => \A u \in Tasks : ~Making(u, i)'
    BY <1>2, <1>5, <2>2, <2>3 DEF Apart
  <2>5. ASSUME At(Parser, "cleanse"), NEW u \in Handles, NEW i \in task'[Parser].them
        PROVE  ~Holds(u, i)' /\ task'[u].main # i
    <3>1. ~Holds(u, i) /\ task[u].main # i
      BY <1>5, <2>2, <2>5 DEF Apart
    <3>2. CASE u = t
      BY <1>1, <3>1, <3>2 DEF Holds
    <3>3. CASE u # t
      BY <1>6, <3>1, <3>3, SameTask DEF Tasks
    <3> QED
      BY <3>2, <3>3
  <2>6. \A i \in Idx : topics'[i] = None => topics[i] = None
    BY <1>1, <1>4
  <2> QED
    BY <1>5, <2>2, <2>4, <2>5, <2>6 DEF Apart
<1>12. SubscriberToldOrAboutToBe'
  <2>1. SUFFICES ASSUME NEW m \in Names, NEW s \in Sub, Covers(s, m)'
        PROVE  \/ <<subscriptions[s].client, topic_map[m]>> \in told
               \/ \E u \in Tasks : About(u, s, topic_map[m])'
    BY <1>1, <1>6, ToldOrAbout DEF SubscriberToldOrAboutToBe, Covers, About
  <2>2. Covers(s, m)
    BY <1>1, <1>2, <1>3, <1>4, <1>6, <2>1 DEF Covers, TypeOK
  <2>3. \A u \in Tasks : About(u, s, topic_map[m]) => About(u, s, topic_map[m])'
    <3>1. SUFFICES ASSUME NEW u \in Tasks, About(u, s, topic_map[m])
          PROVE  About(u, s, topic_map[m])'
      OBVIOUS
    <3>2. CASE u = t
      BY <1>1, <3>1, <3>2 DEF About, At
    <3>3. CASE u # t
      BY <1>1, <1>6, <3>1, <3>3 DEF About, At
    <3> QED
      BY <3>2, <3>3
  <2> QED
    BY <2>2, <2>3, ToldOrAbout DEF IInv
<1>13. ValueOnlyAfterAnnounce'
  BY <1>6, QueuesSame
<1> QED
  BY <1>1, <1>8, <1>9, <1>10, <1>11, <1>12, <1>13, InsertTables DEF IInv, Base

\* What Count, Map and List have in common: the topic is there, the task has its index.
LEMMA CountFacts ==
  ASSUME IInv, NEW t \in Tasks, Count(t)
  PROVE  /\ AddFrame(t) /\ Base' /\ task[t].idx \in Idx /\ task[t].name \in Names
         /\ task[t].at = "count" /\ met' = met
         /\ task'[t] = [task[t] EXCEPT !.at = "map"]
         /\ pub_count' = [pub_count EXCEPT ![task[t].idx] = 1]
         /\ UNCHANGED <<topics, next, topic_map, lists>>
<1> DEFINE r == [task[t] EXCEPT !.at = "map"]
<1>1. /\ task[t] \in TaskStates /\ Shaped(t) /\ Base /\ TypeOK /\ task \in [Tasks -> TaskStates]
  BY TaskFacts
<1>2. /\ task[t].at = "count" /\ Goes(t, r) /\ met' = met
      /\ pub_count' = [pub_count EXCEPT ![task[t].idx] = 1]
      /\ UNCHANGED <<topics, next, topic_map, lists, valued, people, told, calls, cut>>
      /\ task[t].name \in Names /\ task[t].name # None /\ task[t].idx \in Idx
      /\ task[t].idx # None
  BY <1>1 DEF Count, At, Shaped, Adding, TaskStates
<1>3. /\ r \in TaskStates /\ r.at = "map" /\ r.idx = task[t].idx /\ r.name = task[t].name
      /\ r.main = task[t].main
  BY <1>1 DEF TaskStates, Stages
<1>4. /\ task' \in [Tasks -> TaskStates] /\ task'[t] = r
      /\ \A u \in Tasks : u # t => task'[u] = task[u]
  BY <1>1, <1>2, <1>3, GoesTo
<1>5. TypeOK'
  <2>1. pub_count' \in [Idx -> (0 .. MaxU16) \cup {None}]
    BY <1>1, <1>2, IdxFacts DEF TypeOK
  <2> QED
    BY <1>1, <1>2, <1>4, <2>1 DEF TypeOK, TaskStates, people
<1>6. Shaped(t)'
  <2> HIDE DEF r
  <2> QED
    BY <1>1, <1>2, <1>3, <1>4 DEF Shaped, Steps, Adding
<1> QED
  BY <1>1, <1>2, <1>4, <1>5, <1>6, BaseAfter DEF AddFrame

\* A task that goes on under the same index leaves what the others rely on as it is.
LEMMA SameTopicTasks ==
  ASSUME IInv, NEW t \in Tasks, AddFrame(t), UNCHANGED <<topics, lists, next>>,
         task[t].at \in {"count", "map"}, task'[t].at \in {"map", "list"},
         task'[t].idx = task[t].idx, task'[t].name = task[t].name, task'[t].main = task[t].main,
         met' = met,
         \A n \in Names : topic_map[n] # None => topic_map'[n] # None,
         task'[t].at = "list" => topic_map'[task[t].name] # None,
         Base'
  PROVE  /\ TasksInv' /\ FreshSubs' /\ Listed' /\ ValueOnlyAfterAnnounce'
         /\ \A i : \A u \in Tasks : (Making(u, i)' <=> Making(u, i)) /\ (Holds(u, i)' <=> Holds(u, i))
         /\ \A x : \A u \in Tasks : Creates(u, x)' <=> Creates(u, x)
<1>1. /\ \A u \in Tasks : u # t => task'[u] = task[u]
      /\ UNCHANGED <<next_sub, subscriptions, queues, pubs, subs, told, cut>>
  BY DEF AddFrame, people
<1>2. \A i : (Making(t, i)' <=> Making(t, i)) /\ (Holds(t, i)' <=> Holds(t, i))
  BY DEF Making, Holds, Busy
<1>3. \A x : Creates(t, x)' <=> Creates(t, x)
  BY DEF Creates, Adding
<1>4. /\ \A i : \A u \in Tasks : (Making(u, i)' <=> Making(u, i)) /\ (Holds(u, i)' <=> Holds(u, i))
      /\ \A x : \A u \in Tasks : Creates(u, x)' <=> Creates(u, x)
  BY <1>1, <1>2, <1>3, SameTask
<1>5. ASSUME NEW u \in Tasks PROVE SoFar(u)' /\ CalmTask(u)'
  <2>1. SoFar(u) /\ CalmTask(u) /\ Shaped(u) /\ task[u] \in TaskStates
    BY TaskFacts
  <2>2. CalmTask(u)'
    BY <1>1, <2>1 DEF CalmTask, At
  <2>3. SoFar(u)'
    <3>1. SUFFICES ASSUME NEW x \in Topics, Creates(u, x), ~IsTorn(x)
          PROVE  /\ task[u].name[1] = "$sub" => topic_map'[<<"$pub", x>>] # None
                 /\ IsMeta(task[u].name) /\ task'[u].at \in {"list", "announce", "audience", "tell"} =>
                      topic_map'[task[u].name] # None
      BY <1>1, <1>4, <2>1 DEF SoFar, IsTorn
    <3>2. task[u].name \in Names /\ <<"$pub", x>> \in Names
      BY <2>1, <3>1, NameFacts DEF Creates, TaskStates, MetasOf
    <3>3. CASE u = t
      BY <2>1, <3>1, <3>2, <3>3 DEF SoFar
    <3>4. CASE u # t
      BY <1>1, <2>1, <3>1, <3>2, <3>4 DEF SoFar
    <3> QED
      BY <3>3, <3>4
  <2> QED
    BY <2>2, <2>3
<1>6. TasksInv'
  BY <1>5 DEF TasksInv, Base
<1>7. FreshSubs' /\ Listed'
  BY <1>1 DEF IInv, FreshSubs, Listed, Torn
<1>8. ValueOnlyAfterAnnounce'
  BY <1>1, QueuesSame
<1> QED
  BY <1>4, <1>6, <1>7, <1>8

LEMMA CountSound ==
  ASSUME IInv, NEW t \in Tasks, Count(t)
  PROVE  IInv'
<1>1. PICK k \in Idx : k = task[t].idx
  BY CountFacts
<1>2. /\ AddFrame(t) /\ Base' /\ task[t].name \in Names
      /\ task[t].at = "count" /\ met' = met
      /\ task'[t].at = "map" /\ task'[t].idx = task[t].idx /\ task'[t].name = task[t].name
      /\ task'[t].main = task[t].main
      /\ pub_count' = [pub_count EXCEPT ![k] = 1]
      /\ UNCHANGED <<topics, next, topic_map, lists>>
  BY <1>1, CountFacts, TaskFacts DEF TaskStates
<1>3. /\ TasksInv' /\ FreshSubs' /\ Listed' /\ ValueOnlyAfterAnnounce'
      /\ \A i : \A u \in Tasks : (Making(u, i)' <=> Making(u, i)) /\ (Holds(u, i)' <=> Holds(u, i))
      /\ \A x : \A u \in Tasks : Creates(u, x)' <=> Creates(u, x)
  BY <1>2, SameTopicTasks
<1>4. /\ \A i : Held(i)' <=> Held(i)
      /\ At(Parser, "cleanse")' <=> At(Parser, "cleanse")
      /\ At(Parser, "cleanse") => t # Parser /\ task'[Parser] = task[Parser]
  BY <1>2, AddHeld
<1>5. /\ \A u \in Tasks : u # t => task'[u] = task[u]
      /\ UNCHANGED <<next_sub, subscriptions, queues, pubs, subs, told, cut>>
  BY <1>2 DEF AddFrame, people
<1>6. \A u \in Tasks : /\ task'[u].idx = task[u].idx /\ task'[u].main = task[u].main
                       /\ task'[u].name = task[u].name
                       /\ task'[u].at \in {"count", "map"} <=> task[u].at \in {"count", "map"}
                       /\ task'[u].at \in Busy <=> task[u].at \in Busy
                       /\ task'[u].at = "count" => task'[u] = task[u]
  BY <1>2, <1>5 DEF Busy
<1>7. ~Held(k)
  BY <1>1, <1>2 DEF IInv, TablesInv, Unmapped
<1>8. Named'
  BY <1>2, <1>3, <1>4, <1>6 DEF IInv, TablesInv, Named, NamedTask, Ordinary
<1>9. Owners'
  BY <1>3 DEF IInv, TablesInv, Owners
<1>10. Unmapped'
  BY <1>2, <1>4, <1>6 DEF IInv, TablesInv, Unmapped
<1>11. Counted'
  <2>1. pub_count'[k] = 1 /\ \A i \in Idx : i # k => pub_count'[i] = pub_count[i]
    BY <1>2 DEF IInv, TypeOK
  <2>2. pub_count'[k] \notin {None, 0}
    BY <2>1, RacesAssumption
  <2>3. \A u \in Tasks, i \in Idx : i # k /\ task[u].at = "count" /\ task[u].idx = i =>
          task'[u].at = "count" /\ task'[u].idx = i
    BY <1>1, <1>5
  <2> QED
    BY <1>2, <1>6, <2>1, <2>2, <2>3 DEF IInv, TablesInv, Counted
<1>12. Going'
  BY <1>2, <1>4 DEF IInv, TablesInv, Going
<1>13. Whole'
  BY <1>2, <1>3 DEF IInv, TablesInv, Whole, IsTorn
<1>14. Once'
  BY <1>2, <1>6 DEF IInv, TablesInv, Once, IsTorn, IsTwice
<1>15. Apart'
  <2>1. \A i \in Idx : Held(i) => pub_count'[i] = pub_count[i]
    BY <1>2, <1>7 DEF IInv, TypeOK
  <2>2. Handles \subseteq Tasks
    BY DEF Tasks
  <2> QED
    BY <1>2, <1>3, <1>4, <1>6, <2>1, <2>2 DEF IInv, Apart
<1>16. SubscriberToldOrAboutToBe'
  <2>1. \A s, i : \A u \in Tasks : About(u, s, i) => About(u, s, i)'
    <3>1. SUFFICES ASSUME NEW u \in Tasks, NEW s, NEW i, About(u, s, i) PROVE About(u, s, i)'
      OBVIOUS
    <3>2. CASE u = t
      BY <1>2, <3>1, <3>2 DEF About, At
    <3>3. CASE u # t
      BY <1>5, <3>1, <3>3 DEF About, At
    <3> QED
      BY <3>2, <3>3
  <2> QED
    BY <1>2, <1>5, <2>1 DEF IInv, SubscriberToldOrAboutToBe, About, At
<1>17. Fresh'
  BY <1>2, <1>5, <1>6 DEF IInv, Fresh
<1> QED
  BY <1>2, <1>3, <1>8, <1>9, <1>10, <1>11, <1>12, <1>13, <1>14, <1>15, <1>16, <1>17
  DEF IInv, TablesInv, Base

LEMMA MapFacts ==
  ASSUME IInv, NEW t \in Tasks, Map(t)
  PROVE  /\ AddFrame(t) /\ Base' /\ task[t].idx \in Idx /\ task[t].name \in Names
         /\ task[t].at = "map" /\ met' = met
         /\ task'[t] = [task[t] EXCEPT !.at = "list"]
         /\ topic_map' = [topic_map EXCEPT ![task[t].name] = task[t].idx]
         /\ UNCHANGED <<topics, next, pub_count, lists>>
<1> DEFINE r == [task[t] EXCEPT !.at = "list"]
<1>1. /\ task[t] \in TaskStates /\ Shaped(t) /\ Base /\ TypeOK /\ task \in [Tasks -> TaskStates]
  BY TaskFacts
<1>2. /\ task[t].at = "map" /\ Goes(t, r) /\ met' = met
      /\ topic_map' = [topic_map EXCEPT ![task[t].name] = task[t].idx]
      /\ UNCHANGED <<topics, next, pub_count, lists, valued, people, told, calls, cut>>
      /\ task[t].name \in Names /\ task[t].name # None /\ task[t].idx \in Idx
      /\ task[t].idx # None
  BY <1>1 DEF Map, At, Shaped, Adding, TaskStates
<1>3. /\ r \in TaskStates /\ r.at = "list" /\ r.idx = task[t].idx /\ r.name = task[t].name
      /\ r.main = task[t].main
  BY <1>1 DEF TaskStates, Stages
<1>4. /\ task' \in [Tasks -> TaskStates] /\ task'[t] = r
      /\ \A u \in Tasks : u # t => task'[u] = task[u]
  BY <1>1, <1>2, <1>3, GoesTo
<1>5. TypeOK'
  <2>1. topic_map' \in [Names -> Idx \cup {None}]
    BY <1>1, <1>2 DEF TypeOK
  <2> QED
    BY <1>1, <1>2, <1>4, <2>1 DEF TypeOK, TaskStates, people
<1>6. Shaped(t)'
  <2> HIDE DEF r
  <2> QED
    BY <1>1, <1>2, <1>3, <1>4 DEF Shaped, Steps, Adding
<1> QED
  BY <1>1, <1>2, <1>4, <1>5, <1>6, BaseAfter DEF AddFrame

LEMMA MapSound ==
  ASSUME IInv, NEW t \in Tasks, Map(t)
  PROVE  IInv'
<1>1. PICK k \in Idx, n \in Names : k = task[t].idx /\ n = task[t].name
  BY MapFacts
<1>2. /\ AddFrame(t) /\ Base' /\ task[t].at = "map" /\ met' = met
      /\ task'[t].at = "list" /\ task'[t].idx = task[t].idx /\ task'[t].name = task[t].name
      /\ task'[t].main = task[t].main
      /\ topic_map' = [topic_map EXCEPT ![n] = k]
      /\ UNCHANGED <<topics, next, pub_count, lists>>
  BY <1>1, MapFacts, TaskFacts DEF TaskStates
<1>3. /\ topic_map'[n] = k /\ k # None /\ n # None
      /\ \A m \in Names : m # n => topic_map'[m] = topic_map[m]
  BY <1>2, IdxFacts, NameFacts DEF IInv, TypeOK
<1>4. /\ topics[k] = n /\ (\A m \in Names : topic_map[m] # k) /\ ~Held(k)
  BY <1>1, <1>2 DEF IInv, TablesInv, Unmapped
<1>5. /\ TasksInv' /\ FreshSubs' /\ Listed' /\ ValueOnlyAfterAnnounce'
      /\ \A i : \A u \in Tasks : (Making(u, i)' <=> Making(u, i)) /\ (Holds(u, i)' <=> Holds(u, i))
      /\ \A x : \A u \in Tasks : Creates(u, x)' <=> Creates(u, x)
  BY <1>1, <1>2, <1>3, SameTopicTasks
<1>6. /\ \A i : Held(i)' <=> Held(i)
      /\ At(Parser, "cleanse")' <=> At(Parser, "cleanse")
      /\ At(Parser, "cleanse") => t # Parser /\ task'[Parser] = task[Parser]
  BY <1>2, AddHeld
<1>7. /\ \A u \in Tasks : u # t => task'[u] = task[u]
      /\ UNCHANGED <<next_sub, subscriptions, queues, pubs, subs, told, cut>>
  BY <1>2 DEF AddFrame, people
<1>8. \A u \in Tasks : /\ task'[u].idx = task[u].idx /\ task'[u].main = task[u].main
                       /\ task'[u].name = task[u].name
                       /\ task'[u].at \in {"count", "map"} => u # t /\ task'[u] = task[u]
                       /\ task'[u].at \in Busy <=> task[u].at \in Busy
                       /\ task'[u].at = "count" <=> task[u].at = "count"
  BY <1>2, <1>7 DEF Busy
<1>9. \A u \in Tasks : u # t => ~Making(u, k)
  <2>1. Making(t, k)
    BY <1>1, <1>2 DEF Making, Busy
  <2> QED
    BY <2>1 DEF IInv, TablesInv, Owners
<1>10. Named'
  <2>1. \A m \in Names : topic_map'[m] # None =>
          topics'[topic_map'[m]] = m \/ (~IsMeta(m) /\ topics'[topic_map'[m]] = None)
    BY <1>2, <1>3, <1>4 DEF IInv, TablesInv, Named
  <2>2. ASSUME NEW u \in Tasks PROVE NamedTask(u)'
    <3>1. NamedTask(u) /\ task[u] \in TaskStates
      BY TaskFacts
    <3>2. task[u].main # None => task[u].main # k
      <4>1. CASE u # t
        BY <1>9, <4>1 DEF Making
      <4>2. CASE u = t
        <5>1. SUFFICES ASSUME task[t].main = k PROVE FALSE
          BY <4>2
        <5>2. IsMeta(n)
          BY <1>1, <1>3, <5>1, MainCreates
        <5>3. topics[k] \in {Name(n[2]), None}
          BY <1>1, <1>3, <3>1, <4>2, <5>1 DEF NamedTask
        <5> QED
          BY <1>3, <1>4, <5>2, <5>3, NameFacts
      <4> QED
        BY <4>1, <4>2
    <3>3. task[u].main # None => Name(task[u].name[2]) \in Names
      BY MainCreates, NameFacts
    <3> QED
      BY <1>2, <1>3, <1>5, <1>8, <3>1, <3>2, <3>3 DEF NamedTask
  <2> QED
    BY <1>2, <1>6, <2>1, <2>2 DEF IInv, TablesInv, Named, Ordinary
<1>11. Owners'
  BY <1>5 DEF IInv, TablesInv, Owners
<1>12. Unmapped'
  <2>1. ASSUME NEW u \in Tasks, NEW i \in Idx, task'[u].at \in {"count", "map"}, task'[u].idx = i
        PROVE  topics[i] = task'[u].name /\ (\A m \in Names : topic_map'[m] # i) /\ ~Held(i)
    <3>1. Making(u, i) /\ u # t /\ task'[u] = task[u]
      BY <1>8, <2>1 DEF Making, Busy
    <3>2. i # k
      BY <1>9, <3>1
    <3> QED
      BY <1>3, <2>1, <3>1, <3>2 DEF IInv, TablesInv, Unmapped
  <2> QED
    BY <1>2, <1>6, <2>1 DEF Unmapped
<1>13. Counted'
  BY <1>2, <1>8 DEF IInv, TablesInv, Counted
<1>14. Going'
  BY <1>2, <1>3, <1>4, <1>6 DEF IInv, TablesInv, Going
<1>15. Whole'
  <2>1. \A m \in Names : topic_map[m] # None => topic_map'[m] # None
    BY <1>3
  <2>2. \A x \in Topics : \A m \in MetasOf(x) : m \in Names
    BY NameFacts
  <2>3. ASSUME NEW x \in Topics, ~IsTorn(x)'
        PROVE  /\ \A m \in Names : m[2] = x /\ topic_map'[m] # None => topics'[topic_map'[m]] = m
               /\ topic_map'[Name(x)] # None =>
                    (\A m \in MetasOf(x) : topic_map'[m] # None) \/ \E u \in Tasks : Creates(u, x)'
    <3>1. ~IsTorn(x)
      BY <1>2, <2>3 DEF IsTorn
    <3>2. \A m \in Names : m[2] = x /\ topic_map'[m] # None => topics'[topic_map'[m]] = m
      BY <1>2, <1>3, <1>4, <3>1 DEF IInv, TablesInv, Whole
    <3>3. n = Name(x) => Creates(t, x)
      BY <1>1, <1>2, <1>3, NameFacts DEF Creates, Adding
    <3>4. n # Name(x) => topic_map'[Name(x)] = topic_map[Name(x)]
      BY <1>3, NameFacts
    <3> QED
      BY <1>5, <2>1, <2>2, <3>1, <3>2, <3>3, <3>4 DEF IInv, TablesInv, Whole
  <2> QED
    BY <2>3 DEF Whole
<1>16. Once'
  <2>1. SUFFICES ASSUME NEW x \in Topics, ~IsTwice(x)
        PROVE  /\ \A u \in Tasks : task'[u].at \in {"count", "map"} /\ task'[u].name = Name(x) =>
                    /\ topic_map'[Name(x)] = None
                    /\ \A v \in Tasks : task'[v].at \in {"count", "map"} /\ task'[v].name = Name(x)
                                          => v = u
               /\ ~IsTorn(x) => \A j \in Idx : topics[j] = Name(x) =>
                    \/ topic_map'[Name(x)] = j
                    \/ \E u \in Tasks : task'[u].at \in {"count", "map"} /\ task'[u].idx = j
    BY <1>2 DEF Once, IsTwice, IsTorn
  <2>2. Once /\ Name(x) \in Names
    BY NameFacts DEF IInv, TablesInv
  <2>3. ASSUME NEW u \in Tasks, task'[u].at \in {"count", "map"}, task'[u].name = Name(x)
        PROVE  /\ topic_map'[Name(x)] = None
               /\ \A v \in Tasks : task'[v].at \in {"count", "map"} /\ task'[v].name = Name(x)
                                     => v = u
    <3>1. u # t /\ task'[u] = task[u]
      BY <1>8, <2>3
    <3>2. n # Name(x)
      BY <1>1, <1>2, <2>1, <2>2, <2>3, <3>1 DEF Once
    <3> QED
      BY <1>3, <1>8, <2>1, <2>2, <2>3, <3>1, <3>2 DEF Once
  <2>4. ASSUME ~IsTorn(x), NEW j \in Idx, topics[j] = Name(x)
        PROVE  \/ topic_map'[Name(x)] = j
               \/ \E u \in Tasks : task'[u].at \in {"count", "map"} /\ task'[u].idx = j
    <3>1. CASE n = Name(x)
      <4>1. topic_map[Name(x)] = None
        BY <1>1, <1>2, <2>1, <2>2, <3>1 DEF Once
      <4>2. PICK u \in Tasks : task[u].at \in {"count", "map"} /\ task[u].idx = j
        BY <2>1, <2>2, <2>4, <4>1, IdxFacts DEF Once
      <4>3. task[u].name = Name(x)
        BY <2>4, <4>2 DEF IInv, TablesInv, Unmapped
      <4>4. task[t].at \in {"count", "map"} /\ task[t].name = Name(x)
        BY <1>1, <1>2, <3>1
      <4>5. \A v \in Tasks : task[v].at \in {"count", "map"} /\ task[v].name = Name(x) => v = t
        BY <2>1, <2>2, <4>4 DEF Once
      <4>6. u = t
        BY <4>2, <4>3, <4>5
      <4> QED
        BY <1>1, <1>3, <3>1, <4>2, <4>6
    <3>2. CASE n # Name(x)
      <4>1. topic_map'[Name(x)] = topic_map[Name(x)]
        BY <1>3, <2>2, <3>2
      <4>2. CASE topic_map[Name(x)] = j
        BY <4>1, <4>2
      <4>3. CASE \E u \in Tasks : task[u].at \in {"count", "map"} /\ task[u].idx = j
        <5>1. PICK u \in Tasks : task[u].at \in {"count", "map"} /\ task[u].idx = j
          BY <4>3
        <5>2. u # t
          BY <1>1, <1>4, <2>4, <3>2, <5>1
        <5> QED
          BY <1>7, <5>1, <5>2
      <4> QED
        BY <2>1, <2>2, <2>4, <4>2, <4>3 DEF Once
    <3> QED
      BY <3>1, <3>2
  <2> QED
    BY <2>3, <2>4
<1>17. Apart'
  <2>1. Handles \subseteq Tasks
    BY DEF Tasks
  <2> QED
    BY <1>2, <1>5, <1>6, <1>8, <2>1 DEF IInv, Apart
<1>18. SubscriberToldOrAboutToBe'
  <2>1. \A s, i : \A u \in Tasks : About(u, s, i) => About(u, s, i)'
    <3>1. SUFFICES ASSUME NEW u \in Tasks, NEW s, NEW i, About(u, s, i) PROVE About(u, s, i)'
      OBVIOUS
    <3>2. CASE u = t
      BY <1>2, <3>1, <3>2 DEF About, At
    <3>3. CASE u # t
      BY <1>7, <3>1, <3>3 DEF About, At
    <3> QED
      BY <3>2, <3>3
  <2>2. \A s : About(t, s, k)'
    BY <1>1, <1>2 DEF About
  <2>3. SUFFICES ASSUME NEW m \in Names, NEW s \in Sub, NEW i \in Idx, topic_map'[m] = i,
                        topics[i] # None, subscriptions[s] # None,
                        m \in Matches[subscriptions[s].pattern]
        PROVE  <<subscriptions[s].client, i>> \in told \/ \E u \in Tasks : About(u, s, i)'
    <3>1. ASSUME NEW m \in Names, NEW s \in Sub, topic_map'[m] # None,
                 topics[topic_map'[m]] # None, subscriptions[s] # None,
                 m \in Matches[subscriptions[s].pattern]
          PROVE  <<subscriptions[s].client, topic_map'[m]>> \in told \/
                 \E u \in Tasks :
                    \/ task'[u].idx = topic_map'[m] /\ task'[u].at \in {"list", "announce", "respond", "audience"}
                    \/ task'[u].idx = topic_map'[m] /\ task'[u].at = "tell" /\ subscriptions[s].client \in task'[u].them
                    \/ task'[u].main = topic_map'[m]
      <4>1. PICK i \in Idx : i = topic_map'[m]
        BY <1>2, <3>1 DEF Base, TypeOK
      <4>2. <<subscriptions[s].client, i>> \in told \/ \E u \in Tasks : About(u, s, i)'
        BY <2>3, <3>1, <4>1
      <4> QED
        BY <1>7, <4>1, <4>2 DEF About, At
    <3> QED
      BY <1>2, <1>7, <3>1 DEF SubscriberToldOrAboutToBe, At
  <2>4. CASE m = n
    BY <1>3, <2>2, <2>3, <2>4
  <2>5. CASE m # n
    <3>1. topic_map[m] = i
      BY <1>3, <2>3, <2>5
    <3>2. Covers(s, m)
      BY <2>3, <3>1, IdxFacts DEF Covers
    <3>3. <<subscriptions[s].client, i>> \in told \/ \E u \in Tasks : About(u, s, i)
      BY <3>1, <3>2, ToldOrAbout DEF IInv
    <3> QED
      BY <2>1, <3>3
  <2> QED
    BY <2>4, <2>5
<1>19. Fresh'
  BY <1>1, <1>2, <1>3, <1>7, <1>8 DEF IInv, Fresh
<1> QED
  BY <1>2, <1>5, <1>10, <1>11, <1>12, <1>13, <1>14, <1>15, <1>16, <1>17, <1>18, <1>19
  DEF IInv, TablesInv, Base

LEMMA ListFacts ==
  ASSUME IInv, NEW t \in Tasks, List(t)
  PROVE  /\ AddFrame(t) /\ Base' /\ task[t].idx \in Idx /\ task[t].name \in Names
         /\ task[t].at = "list" /\ met' = met
         /\ task'[t] = IF IsMeta(task[t].name) THEN [task[t] EXCEPT !.at = "announce"]
                       ELSE [task[t] EXCEPT !.at = "look", !.name = <<"$pub", task[t].name[2]>>,
                                            !.idx = None, !.main = task[t].idx]
         /\ lists' = [lists EXCEPT ![task[t].idx] = {}]
         /\ UNCHANGED <<topics, next, pub_count, topic_map>>
<1> DEFINE r == IF IsMeta(task[t].name) THEN [task[t] EXCEPT !.at = "announce"]
                ELSE [task[t] EXCEPT !.at = "look", !.name = <<"$pub", task[t].name[2]>>,
                                     !.idx = None, !.main = task[t].idx]
<1>1. /\ task[t] \in TaskStates /\ Shaped(t) /\ Base /\ TypeOK /\ task \in [Tasks -> TaskStates]
  BY TaskFacts
<1>2. /\ task[t].at = "list" /\ Goes(t, r) /\ met' = met
      /\ lists' = [lists EXCEPT ![task[t].idx] = {}]
      /\ UNCHANGED <<topics, next, pub_count, topic_map, valued, people, told, calls, cut>>
      /\ task[t].name \in Names /\ task[t].name # None /\ task[t].idx \in Idx
      /\ task[t].idx # None
  BY <1>1 DEF List, At, Shaped, Adding, TaskStates
<1>3. /\ <<"$pub", task[t].name[2]>> \in Names /\ IsMeta(<<"$pub", task[t].name[2]>>)
      /\ <<"$pub", task[t].name[2]>> # None
  BY <1>2, NameFacts DEF MetasOf
<1>4. /\ r \in TaskStates
      /\ r.at = IF IsMeta(task[t].name) THEN "announce" ELSE "look"
      /\ r.idx = IF IsMeta(task[t].name) THEN task[t].idx ELSE None
      /\ r.name = IF IsMeta(task[t].name) THEN task[t].name ELSE <<"$pub", task[t].name[2]>>
      /\ r.main = IF IsMeta(task[t].name) THEN task[t].main ELSE task[t].idx
  BY <1>1, <1>2, <1>3 DEF TaskStates, Stages
<1>5. /\ task' \in [Tasks -> TaskStates] /\ task'[t] = r
      /\ \A u \in Tasks : u # t => task'[u] = task[u]
  BY <1>1, <1>2, <1>4, GoesTo
<1>6. TypeOK'
  <2>1. lists' \in [Idx -> (SUBSET Sub) \cup {None}]
    BY <1>1, <1>2 DEF TypeOK
  <2> QED
    BY <1>1, <1>2, <1>5, <2>1 DEF TypeOK, TaskStates, people
<1>7. Shaped(t)'
  <2> HIDE DEF r
  <2> QED
    BY <1>1, <1>2, <1>3, <1>4, <1>5 DEF Shaped, Steps, Adding
<1> QED
  BY <1>1, <1>2, <1>5, <1>6, <1>7, BaseAfter DEF AddFrame

LEMMA ListSound ==
  ASSUME IInv, NEW t \in Tasks, List(t)
  PROVE  IInv'
<1>1. PICK k \in Idx, n \in Names : k = task[t].idx /\ n = task[t].name
  BY ListFacts
<1>2. /\ AddFrame(t) /\ Base' /\ task[t].at = "list" /\ met' = met
      /\ task'[t].at = IF IsMeta(n) THEN "announce" ELSE "look"
      /\ task'[t].idx = IF IsMeta(n) THEN k ELSE None
      /\ task'[t].name = IF IsMeta(n) THEN n ELSE <<"$pub", n[2]>>
      /\ task'[t].main = IF IsMeta(n) THEN task[t].main ELSE k
      /\ lists' = [lists EXCEPT ![k] = {}]
      /\ UNCHANGED <<topics, next, pub_count, topic_map>>
  BY <1>1, ListFacts, TaskFacts DEF TaskStates
<1>3. /\ k # None /\ n # None /\ n[2] \in Topics /\ {} # None /\ <<"$pub", n[2]>>[2] = n[2]
      /\ <<"$pub", n[2]>>[1] = "$pub" /\ <<"$pub", n[2]>> # None /\ IsMeta(<<"$pub", n[2]>>)
      /\ ~IsMeta(n) => n = Name(n[2])
      /\ <<"$pub", n[2]>> \in Names
  BY IdxFacts, NameFacts, RacesAssumption DEF MetasOf
<1>4. lists'[k] = {} /\ \A i \in Idx : i # k => lists'[i] = lists[i]
  BY <1>2 DEF IInv, TypeOK
<1>5. /\ Shaped(t) /\ NamedTask(t) /\ SoFar(t)
      /\ IsMeta(n) <=> task[t].main # None
  BY <1>1, <1>2, TaskFacts DEF Shaped, Adding
<1>6. /\ \A i : Held(i)' <=> Held(i)
      /\ \A u \in Tasks, i \in Idx : u # t => (Making(u, i)' <=> Making(u, i))
      /\ \A u \in Tasks, x \in Topics : u # t => (Creates(u, x)' <=> Creates(u, x))
      /\ At(Parser, "cleanse")' <=> At(Parser, "cleanse")
      /\ At(Parser, "cleanse") => t # Parser /\ task'[Parser] = task[Parser]
  BY <1>2, AddHeld
<1>7. \A x : (Creates(t, x)' <=> Creates(t, x)) /\ (Creates(t, x) <=> x = n[2])
  <2>1. CASE IsMeta(n)
    BY <1>1, <1>2, <1>3, <1>5, <2>1 DEF Creates, Adding
  <2>2. CASE ~IsMeta(n)
    BY <1>1, <1>2, <1>3, <2>2 DEF Creates, Adding
  <2> QED
    BY <2>1, <2>2
<1>8. Making(t, k) /\ \A i : Making(t, i)' => Making(t, i)
  <2>1. Making(t, k)
    BY <1>1, <1>2 DEF Making, Busy
  <2>2. CASE IsMeta(n)
    <3>1. task'[t].at = "announce" /\ task'[t].main = task[t].main
      BY <1>2, <2>2
    <3> QED
      BY <2>1, <3>1 DEF Making, Busy
  <2>3. CASE ~IsMeta(n)
    BY <1>2, <2>1, <2>3 DEF Making, Busy
  <2> QED
    BY <2>1, <2>2, <2>3
<1>9. /\ \A u \in Tasks : u # t => task'[u] = task[u]
      /\ UNCHANGED <<next_sub, subscriptions, queues, pubs, subs, told, cut>>
  BY <1>2 DEF AddFrame, people
<1>10. \A u \in Tasks : /\ task'[u].at \in Busy => u # t /\ task'[u] = task[u]
                        /\ task'[u].at \in {"count", "map"} => u # t /\ task'[u] = task[u]
                        /\ task[u].at \in {"count", "map"} => u # t /\ task'[u] = task[u]
                        /\ task[u].at \in Busy /\ task[u].idx # k => u # t /\ task'[u] = task[u]
  BY <1>1, <1>2, <1>9 DEF Busy
<1>11. TasksInv'
  <2>1. SUFFICES ASSUME NEW u \in Tasks PROVE SoFar(u)' /\ CalmTask(u)'
    BY <1>2 DEF TasksInv, Base
  <2>2. CASE u = t
    <3>1. CalmTask(t)'
      BY <1>2 DEF CalmTask, At
    <3>2. SUFFICES ASSUME NEW x \in Topics, Creates(t, x), ~IsTorn(x)
          PROVE  /\ task'[t].idx # None => topics[task'[t].idx] = task'[t].name
                 /\ task'[t].main # None => topics[task'[t].main] = Name(x)
                 /\ task'[t].name[1] = "$sub" => topic_map[<<"$pub", x>>] # None
                 /\ IsMeta(n) => topic_map[task'[t].name] # None
      BY <1>2, <1>7, <2>2, <3>1 DEF SoFar, IsTorn
    <3>3. /\ topics[k] = n
          /\ task[t].main # None => topics[task[t].main] = Name(x)
          /\ n[1] = "$sub" => topic_map[<<"$pub", x>>] # None
          /\ IsMeta(n) => topic_map[n] # None
      BY <1>1, <1>2, <1>3, <1>5, <3>2 DEF SoFar
    <3>4. x = n[2]
      BY <1>7, <3>2
    <3> QED
      BY <1>2, <1>3, <3>3, <3>4
  <2>3. CASE u # t
    <3>1. task'[u] = task[u] /\ SoFar(u) /\ CalmTask(u) /\ Shaped(u) /\ task[u] \in TaskStates
      BY <1>9, <2>3, TaskFacts
    <3>2. SoFar(u)'
      BY <1>2, <1>6, <2>3, <3>1 DEF SoFar, IsTorn
    <3>3. CalmTask(u)'
      <4>1. SUFFICES ASSUME met = {}, task[u].at \in {"queue", "panicked"}
            PROVE  /\ lists'[task[u].idx] # None
                   /\ task[u].at = "panicked" => lists'[task[u].idx] \cap cut # {}
        BY <1>2, <1>9, <3>1 DEF CalmTask, At
      <4>2. /\ lists[task[u].idx] # None
            /\ task[u].at = "panicked" => lists[task[u].idx] \cap cut # {}
        BY <3>1, <4>1 DEF CalmTask, At
      <4>3. task[u].idx \in Idx
        BY <3>1, <4>1 DEF Shaped, TaskStates
      <4>4. Held(task[u].idx)
        BY <4>1, <4>3 DEF Held, Holds
      <4>5. task[u].idx # k
        BY <1>8, <4>1, <4>4 DEF IInv, Apart
      <4> QED
        BY <1>4, <4>2, <4>3, <4>5
    <3> QED
      BY <3>2, <3>3
  <2> QED
    BY <2>2, <2>3
<1>12. Fresh'
  BY <1>1, <1>2, <1>3, <1>9 DEF IInv, Fresh
<1>13. FreshSubs'
  <2>1. \A i \in Idx, s \in Sub : lists'[i] # None /\ s \in lists'[i] => lists[i] # None /\ s \in lists[i]
    BY <1>4
  <2> QED
    BY <1>9, <2>1 DEF IInv, FreshSubs
<1>14. Listed'
  <2>1. \A i \in Idx, s \in Sub : lists'[i] # None /\ s \in lists'[i] => lists[i] # None /\ s \in lists[i]
    BY <1>4
  <2> QED
    BY <1>2, <1>9, <2>1 DEF IInv, Listed, Torn
<1>15. Named'
  <2>1. NamedTask(t)'
    <3>1. CASE IsMeta(n)
      BY <1>1, <1>2, <1>3, <1>5, <3>1 DEF NamedTask, Holds
    <3>2. CASE ~IsMeta(n)
      BY <1>1, <1>2, <1>3, <1>5, <3>2 DEF NamedTask, Holds
    <3> QED
      BY <3>1, <3>2
  <2>2. ASSUME NEW u \in Tasks, u # t PROVE NamedTask(u)'
    <3>1. NamedTask(u) /\ task'[u] = task[u]
      BY <1>9, <2>2, TaskFacts
    <3> QED
      BY <1>2, <3>1 DEF NamedTask, Holds
  <2>3. \A u \in Tasks : NamedTask(u)'
    BY <2>1, <2>2
  <2> QED
    BY <1>2, <1>6, <2>3 DEF IInv, TablesInv, Named, Ordinary
<1>16. Owners'
  BY <1>6, <1>8 DEF IInv, TablesInv, Owners
<1>17. Unmapped'
  BY <1>2, <1>6, <1>10 DEF IInv, TablesInv, Unmapped
<1>18. Counted'
  <2>1. ASSUME NEW i \in Idx, topics[i] # None
        PROVE  /\ (\A u \in Tasks : ~(task'[u].at = "count" /\ task'[u].idx = i)) => pub_count[i] \notin {None, 0}
               /\ (\A u \in Tasks : ~(task'[u].at \in Busy /\ task'[u].idx = i)) => lists'[i] # None
    <3>1. (\A u \in Tasks : ~(task'[u].at = "count" /\ task'[u].idx = i)) => pub_count[i] \notin {None, 0}
      BY <1>10, <2>1 DEF IInv, TablesInv, Counted
    <3>2. CASE i = k
      BY <1>3, <1>4, <3>1, <3>2
    <3>3. CASE i # k
      BY <1>4, <1>10, <2>1, <3>1, <3>3 DEF IInv, TablesInv, Counted
    <3> QED
      BY <3>2, <3>3
  <2> QED
    BY <1>2, <2>1 DEF Counted
<1>19. Going'
  BY <1>2, <1>6 DEF IInv, TablesInv, Going
<1>20. Whole'
  BY <1>2, <1>6, <1>7 DEF IInv, TablesInv, Whole, IsTorn
<1>21. Once'
  BY <1>2, <1>10 DEF IInv, TablesInv, Once, IsTorn, IsTwice
<1>22. Apart'
  <2>1. SUFFICES ASSUME met = {}
        PROVE  /\ \A i \in Idx : Held(i) => \A u \in Tasks : ~Making(u, i)'
               /\ At(Parser, "cleanse") => \A u \in Handles, i \in task'[Parser].them :
                    ~Holds(u, i)' /\ task'[u].main # i
               /\ \A i \in Idx : topics[i] = None /\ Held(i) =>
                    pub_count[i] = None \/ (At(Parser, "cleanse") /\ task'[Parser].idx = i)
    BY <1>2, <1>6 DEF Apart
  <2>2. Apart
    BY DEF IInv
  <2>3. \A i \in Idx : Held(i) => \A u \in Tasks : ~Making(u, i)'
    BY <1>6, <1>8, <2>1, <2>2 DEF Apart
  <2>4. ASSUME At(Parser, "cleanse"), NEW u \in Handles, NEW i \in task'[Parser].them
        PROVE  ~Holds(u, i)' /\ task'[u].main # i
    <3>1. /\ ~Holds(u, i) /\ task[u].main # i /\ topics[i] = None
          /\ u \in Tasks
      BY <1>6, <2>1, <2>2, <2>4 DEF Apart, Tasks, IInv, TablesInv, Going
    <3>2. topics[k] # None
      BY <1>1, <1>2, <1>3, <1>5, <1>7, <2>1 DEF SoFar, IsTorn
    <3>3. CASE u = t
      BY <1>2, <3>1, <3>2, <3>3 DEF Holds
    <3>4. CASE u # t
      BY <1>9, <3>1, <3>4, SameTask
    <3> QED
      BY <3>3, <3>4
  <2> QED
    BY <1>6, <2>1, <2>2, <2>3, <2>4 DEF Apart
<1>23. SubscriberToldOrAboutToBe'
  <2>1. \A u \in Tasks, s \in Sub, i \in Idx : About(u, s, i) => About(u, s, i)'
    <3>1. SUFFICES ASSUME NEW u \in Tasks, NEW s \in Sub, NEW i \in Idx, About(u, s, i)
          PROVE  About(u, s, i)'
      OBVIOUS
    <3>2. CASE u = t
      <4>1. task[t].idx = i \/ task[t].main = i
        BY <3>1, <3>2 DEF About
      <4>2. CASE IsMeta(n)
        BY <1>1, <1>2, <3>2, <4>1, <4>2 DEF About
      <4>3. CASE ~IsMeta(n)
        BY <1>1, <1>2, <1>5, <3>2, <4>1, <4>3, IdxFacts DEF About
      <4> QED
        BY <4>2, <4>3
    <3>3. CASE u # t
      BY <1>9, <3>1, <3>3 DEF About, At
    <3> QED
      BY <3>2, <3>3
  <2>2. \A m \in Names : topic_map[m] # None => topic_map[m] \in Idx
    BY DEF IInv, TypeOK
  <2>3. ASSUME NEW m \in Names, NEW s \in Sub, Covers(s, m)
        PROVE  \/ <<subscriptions[s].client, topic_map[m]>> \in told
               \/ \E u \in Tasks : About(u, s, topic_map[m])'
    <3>1. PICK i \in Idx : i = topic_map[m]
      BY <2>2, <2>3 DEF Covers
    <3>2. <<subscriptions[s].client, i>> \in told \/ \E u \in Tasks : About(u, s, i)
      BY <2>3, <3>1, ToldOrAbout DEF IInv
    <3>3. <<subscriptions[s].client, i>> \in told \/ \E u \in Tasks : About(u, s, i)'
      BY <2>1, <3>2
    <3> QED
      BY <1>2, <3>1, <3>3 DEF About, At
  <2> QED
    BY <1>2, <1>9, <2>3 DEF SubscriberToldOrAboutToBe, Covers, About, At
<1>24. ValueOnlyAfterAnnounce'
  BY <1>2, <1>9, QueuesSame
<1> QED
  BY <1>2, <1>11, <1>12, <1>13, <1>14, <1>15, <1>16, <1>17, <1>18, <1>19, <1>20, <1>21, <1>22,
     <1>23, <1>24
  DEF IInv, TablesInv, Base

--------------------------------------------------------------------------------
\* Subscribing and unsubscribing

\* What such a step does to the lists, and what it leaves alone
PeopleFrame ==
  /\ UNCHANGED <<topics, next, pub_count, topic_map, pubs, met, valued>>
  /\ task[Parser].at = "idle" /\ task' = [task EXCEPT ![Parser] = Idle]
  /\ calls' \in 0 .. MaxCalls
  /\ \A i \in Idx : /\ lists'[i] = None <=> lists[i] = None
                    /\ lists[i] # None => lists[i] \cap cut \subseteq lists'[i] \cap cut'

LEMMA PeopleTasks ==
  ASSUME IInv, PeopleFrame
  PROVE  /\ \A u \in Tasks : u # Parser => task'[u] = task[u]
         /\ task'[Parser] = Idle /\ Parser \in Tasks /\ task' \in [Tasks -> TaskStates]
         /\ task[Parser].idx = None /\ task[Parser].main = None
         /\ \A u \in Tasks : /\ task'[u].at = task[u].at /\ task'[u].idx = task[u].idx
                             /\ task'[u].main = task[u].main
         /\ \A u \in Tasks : task[u].at # "idle" => task'[u] = task[u]
         /\ \A i : \A u \in Tasks : (Holds(u, i)' <=> Holds(u, i)) /\ (Making(u, i)' <=> Making(u, i))
         /\ \A x : \A u \in Tasks : Creates(u, x)' <=> Creates(u, x)
         /\ \A i : Held(i)' <=> Held(i)
         /\ \A u \in Tasks : Shaped(u)' /\ NamedTask(u)'
<1>1. Parser \in Tasks
  BY DEF Tasks
<1>2. /\ task \in [Tasks -> TaskStates] /\ Shaped(Parser) /\ task[Parser].at = "idle"
      /\ task' = [task EXCEPT ![Parser] = Idle]
  BY <1>1, TaskFacts DEF PeopleFrame
<1>3. /\ \A u \in Tasks : u # Parser => task'[u] = task[u]
      /\ task'[Parser] = Idle /\ task' \in [Tasks -> TaskStates]
  BY <1>1, <1>2, IdleFacts
<1>4. task[Parser].idx = None /\ task[Parser].main = None
  BY <1>2 DEF Shaped, Steps, Adding
<1>5. \A u \in Tasks : /\ task'[u].at = task[u].at /\ task'[u].idx = task[u].idx
                       /\ task'[u].main = task[u].main
  BY <1>2, <1>3, <1>4, IdleFacts
<1>6. \A i : /\ ~Holds(Parser, i) /\ ~Making(Parser, i) /\ ~Creates(Parser, i)
             /\ ~Holds(Parser, i)' /\ ~Making(Parser, i)' /\ ~Creates(Parser, i)'
  BY <1>2, <1>3, <1>4, IdleFacts DEF Holds, Making, Creates, Busy, Adding
<1>7. /\ \A i : \A u \in Tasks : (Holds(u, i)' <=> Holds(u, i)) /\ (Making(u, i)' <=> Making(u, i))
      /\ \A x : \A u \in Tasks : Creates(u, x)' <=> Creates(u, x)
  BY <1>3, <1>6, SameTask
<1>8. \A i : Held(i)' <=> Held(i)
  BY <1>7 DEF Held, PeopleFrame
<1>9. ASSUME NEW u \in Tasks PROVE Shaped(u)' /\ NamedTask(u)'
  <2>1. CASE u = Parser
    <3>1. Shaped(Parser)'
      BY <1>3, IdleFacts DEF Shaped, Steps, Adding
    <3>2. NamedTask(Parser)'
      BY <1>3, <1>6, IdleFacts DEF NamedTask
    <3> QED
      BY <2>1, <3>1, <3>2
  <2>2. CASE u # Parser
    <3>1. Shaped(u) /\ NamedTask(u) /\ task'[u] = task[u]
      BY <1>3, <2>2, TaskFacts
    <3>2. Shaped(u)'
      BY <3>1 DEF Shaped
    <3>3. NamedTask(u)'
      BY <3>1 DEF NamedTask, Holds, PeopleFrame
    <3> QED
      BY <3>2, <3>3
  <2> QED
    BY <2>1, <2>2
<1> QED
  BY <1>1, <1>2, <1>3, <1>4, <1>5, <1>7, <1>8, <1>9

LEMMA PeopleSound ==
  ASSUME IInv, PeopleFrame, TypeOK'
  PROVE  TablesInv' /\ Fresh' /\ Apart' /\ TasksInv'
<1>1. UNCHANGED <<topics, next, pub_count, topic_map, pubs, met>>
  BY DEF PeopleFrame
<1>2. /\ \A u \in Tasks : u # Parser => task'[u] = task[u]
      /\ \A u \in Tasks : /\ task'[u].at = task[u].at /\ task'[u].idx = task[u].idx
                          /\ task'[u].main = task[u].main
      /\ \A u \in Tasks : task[u].at # "idle" => task'[u] = task[u]
      /\ task'[Parser] = Idle /\ Parser \in Tasks /\ task[Parser].at = "idle"
  BY PeopleTasks DEF PeopleFrame
<1>3. /\ \A i : \A u \in Tasks : (Holds(u, i)' <=> Holds(u, i)) /\ (Making(u, i)' <=> Making(u, i))
      /\ \A x : \A u \in Tasks : Creates(u, x)' <=> Creates(u, x)
      /\ \A i : Held(i)' <=> Held(i)
      /\ \A u \in Tasks : Shaped(u)' /\ NamedTask(u)'
  BY PeopleTasks
<1>4. \A i \in Idx : /\ lists'[i] = None <=> lists[i] = None
                     /\ lists[i] # None => lists[i] \cap cut \subseteq lists'[i] \cap cut'
  BY DEF PeopleFrame
<1>5. Named'
  BY <1>1, <1>3 DEF IInv, TablesInv, Named, Ordinary
<1>6. Owners'
  BY <1>3 DEF IInv, TablesInv, Owners
<1>7. \A u \in Tasks : task[u].at \in {"count", "map"} \/ task'[u].at \in {"count", "map"} =>
        task'[u] = task[u]
  BY <1>2
<1>8. Unmapped'
  BY <1>1, <1>3, <1>7 DEF IInv, TablesInv, Unmapped
<1>9. Counted'
  BY <1>1, <1>2, <1>4 DEF IInv, TablesInv, Counted
<1>10. Going'
  BY <1>2, IdleFacts DEF Going, At
<1>11. Whole'
  BY <1>1, <1>3 DEF IInv, TablesInv, Whole, IsTorn
<1>12. Once'
  BY <1>1, <1>7 DEF IInv, TablesInv, Once, IsTorn, IsTwice
<1>13. Fresh'
  BY <1>1, <1>2 DEF IInv, Fresh
<1>14. Apart'
  <2>1. ~At(Parser, "cleanse") /\ ~At(Parser, "cleanse")'
    BY <1>2, IdleFacts DEF At
  <2> QED
    BY <1>1, <1>3, <2>1 DEF IInv, Apart
<1>15. ASSUME NEW u \in Tasks PROVE SoFar(u)' /\ CalmTask(u)'
  <2>1. CASE u = Parser
    <3>1. \A x : ~Creates(u, x)'
      BY <1>2, <2>1, IdleFacts DEF Creates, Adding
    <3>2. ~At(u, "queue")' /\ ~At(u, "panicked")'
      BY <1>2, <2>1, IdleFacts DEF At
    <3> QED
      BY <3>1, <3>2 DEF SoFar, CalmTask
  <2>2. CASE u # Parser
    <3>1. task'[u] = task[u] /\ SoFar(u) /\ CalmTask(u) /\ Shaped(u) /\ task[u] \in TaskStates
      BY <1>2, <2>2, TaskFacts
    <3>2. SoFar(u)'
      BY <1>1, <1>3, <3>1 DEF SoFar, IsTorn
    <3>3. task[u].at \in {"queue", "panicked"} => task[u].idx \in Idx
      BY <3>1 DEF Shaped, TaskStates
    <3>4. CalmTask(u)'
      BY <1>1, <1>4, <3>1, <3>3 DEF CalmTask, At
    <3> QED
      BY <3>2, <3>4
  <2> QED
    BY <2>1, <2>2
<1>16. TasksInv'
  BY <1>3, <1>15 DEF TasksInv
<1> QED
  BY <1>5, <1>6, <1>8, <1>9, <1>10, <1>11, <1>12, <1>13, <1>14, <1>16 DEF TablesInv

\* A subscriber that is there after such a step and before it is still being told.
LEMMA PeopleAbout ==
  ASSUME IInv, PeopleFrame, told \subseteq told', NEW s \in Sub, subscriptions'[s] = subscriptions[s],
         NEW m \in Names, NEW i \in Idx, i = topic_map[m], Covers(s, m)
  PROVE  <<subscriptions[s].client, i>> \in told' \/ \E u \in Tasks : About(u, s, i)'
<1>1. <<subscriptions[s].client, i>> \in told \/ \E u \in Tasks : About(u, s, i)
  BY ToldOrAbout DEF IInv
<1>2. ASSUME NEW u \in Tasks, About(u, s, i) PROVE About(u, s, i)'
  <2>1. task'[u] = task[u]
    BY <1>2, PeopleTasks, IdxFacts DEF About, At
  <2> QED
    BY <1>2, <2>1 DEF About, At
<1> QED
  BY <1>1, <1>2

\* Those who cover a topic are told, or about to be, topic by topic.
LEMMA ToldByIndex ==
  ASSUME TypeOK', UNCHANGED <<topics, topic_map>>,
         \A m \in Names, s \in Sub, i \in Idx :
            /\ i = topic_map[m] /\ topics[i] # None
            /\ subscriptions'[s] # None /\ m \in Matches[subscriptions'[s].pattern]
            => <<subscriptions'[s].client, i>> \in told' \/ \E u \in Tasks : About(u, s, i)'
  PROVE  SubscriberToldOrAboutToBe'
<1>1. ASSUME NEW m \in Names, NEW s \in Sub, topic_map[m] # None, topics[topic_map[m]] # None,
             subscriptions'[s] # None, m \in Matches[subscriptions'[s].pattern]
      PROVE  \/ <<subscriptions'[s].client, topic_map[m]>> \in told'
             \/ \E u \in Tasks :
                  \/ task'[u].idx = topic_map[m] /\ task'[u].at \in {"list", "announce", "respond", "audience"}
                  \/ task'[u].idx = topic_map[m] /\ task'[u].at = "tell"
                     /\ subscriptions'[s].client \in task'[u].them
                  \/ task'[u].main = topic_map[m]
  <2>1. PICK i \in Idx : i = topic_map[m]
    BY <1>1 DEF TypeOK
  <2>2. <<subscriptions'[s].client, i>> \in told' \/ \E u \in Tasks : About(u, s, i)'
    BY <1>1, <2>1
  <2> QED
    BY <2>1, <2>2 DEF About, At
<1> QED
  BY <1>1 DEF SubscriberToldOrAboutToBe, At

LEMMA UnsubscribeSound ==
  ASSUME IInv, NEW c \in Clients, Unsubscribe(c)
  PROVE  IInv'
<1>1. PICK s \in Sub : s = subs[c] /\ s # None
  BY DEF Unsubscribe, IInv, TypeOK
<1>2. /\ Begins(Parser, Idle) /\ subs' = [subs EXCEPT ![c] = None]
      /\ lists' = [i \in Idx |-> IF lists[i] = None THEN None ELSE lists[i] \ {s}]
      /\ subscriptions' = [subscriptions EXCEPT ![s] = None]
      /\ queues' = [queues EXCEPT ![s] = None]
      /\ UNCHANGED <<topics, next, pub_count, topic_map, valued, next_sub, pubs, told, met, cut>>
  BY <1>1 DEF Unsubscribe
<1>3. TypeOK /\ Parser \in Tasks /\ s \notin cut
  BY <1>1 DEF IInv, Tasks, FreshSubs
<1>4. /\ task[Parser].at = "idle" /\ Goes(Parser, Idle) /\ calls' \in 0 .. MaxCalls
      /\ task' \in [Tasks -> TaskStates]
  BY <1>2, <1>3, BeginsTyped, IdleFacts
<1>5. \A i \in Idx : lists[i] # None => lists[i] \in SUBSET Sub /\ lists[i] \ {s} # None
  BY <1>3, RacesAssumption DEF TypeOK
<1>6. \A i \in Idx : /\ lists'[i] = None <=> lists[i] = None
                     /\ lists[i] # None => lists'[i] = lists[i] \ {s}
  BY <1>2, <1>5
<1>7. TypeOK'
  <2>1. lists' \in [Idx -> (SUBSET Sub) \cup {None}]
    BY <1>2, <1>5
  <2>2. /\ subs' \in [Clients -> Sub \cup {None}]
        /\ subscriptions' \in [Sub -> [client : Clients, pattern : Patterns] \cup {None}]
        /\ queues' \in [Sub -> (SUBSET Idx) \cup {None}]
    BY <1>2, <1>3 DEF TypeOK
  <2> QED
    BY <1>2, <1>3, <1>4, <2>1, <2>2 DEF TypeOK, TaskStates
<1>8. PeopleFrame
  BY <1>2, <1>3, <1>4, <1>6 DEF PeopleFrame, Goes
<1>9. TablesInv' /\ Fresh' /\ Apart' /\ TasksInv'
  BY <1>7, <1>8, PeopleSound
<1>10. /\ subscriptions'[s] = None /\ queues'[s] = None
       /\ \A v \in Sub : v # s => subscriptions'[v] = subscriptions[v] /\ queues'[v] = queues[v]
       /\ \A d \in Clients : subs'[d] = None \/ subs'[d] = subs[d]
       /\ \A v \in Sub, i \in Idx : lists'[i] # None /\ v \in lists'[i] =>
            lists[i] # None /\ v \in lists[i] /\ v # s
  BY <1>2, <1>3, <1>6 DEF TypeOK
<1>11. FreshSubs'
  <2>1. \A v \in Sub : v >= next_sub => /\ subscriptions'[v] = None /\ v \notin cut'
                                        /\ \A i \in Idx : lists'[i] # None => v \notin lists'[i]
    BY <1>2, <1>10 DEF IInv, FreshSubs
  <2>2. \A d \in Clients : subs'[d] # None => subs'[d] < next_sub /\ subs'[d] \notin cut'
    BY <1>2, <1>10 DEF IInv, FreshSubs
  <2> QED
    BY <1>2, <2>1, <2>2 DEF FreshSubs
<1>12. Listed'
  <2>1. \A v \in Sub, i \in Idx : lists'[i] # None /\ v \in lists'[i] => v \in cut' \/ queues'[v] # None
    BY <1>2, <1>10 DEF IInv, Listed
  <2>2. \A v \in Sub : subscriptions'[v] # None <=> queues'[v] # None
    BY <1>10 DEF IInv, Listed
  <2>3. ASSUME ~Torn', NEW v \in Sub, NEW i \in Idx, lists'[i] # None, v \in lists'[i],
               subscriptions'[v] # None
        PROVE  <<subscriptions'[v].client, i>> \in told'
    BY <1>2, <1>10, <2>3 DEF IInv, Listed, Torn
  <2> QED
    BY <2>1, <2>2, <2>3 DEF Listed
<1>13. SubscriberToldOrAboutToBe'
  <2>1. SUFFICES ASSUME NEW m \in Names, NEW v \in Sub, NEW i \in Idx, i = topic_map[m],
                        topics[i] # None, subscriptions'[v] # None,
                        m \in Matches[subscriptions'[v].pattern]
        PROVE  <<subscriptions'[v].client, i>> \in told' \/ \E u \in Tasks : About(u, v, i)'
    BY <1>2, <1>7, ToldByIndex
  <2>2. subscriptions'[v] = subscriptions[v]
    BY <1>10, <2>1
  <2>3. Covers(v, m)
    BY <2>1, <2>2, IdxFacts DEF Covers
  <2> QED
    BY <1>2, <1>8, <2>1, <2>2, <2>3, PeopleAbout
<1>14. ValueOnlyAfterAnnounce'
  <2>1. ASSUME ~Torn', NEW v \in Sub, subscriptions'[v] # None, NEW i \in queues'[v]
        PROVE  <<subscriptions'[v].client, i>> \in told'
    <3>1. v # s
      BY <1>10, <2>1
    <3> QED
      BY <1>2, <1>10, <2>1, <3>1 DEF IInv, ValueOnlyAfterAnnounce, Torn
  <2> QED
    BY <2>1 DEF ValueOnlyAfterAnnounce
<1> QED
  BY <1>7, <1>9, <1>11, <1>12, <1>13, <1>14 DEF IInv

\* What subscribe does in both of its ends: index s is new, and joins the lists of S.
SubscribeFrame(s, S) ==
  /\ s = next_sub /\ s < MaxSubs /\ next_sub' = s + 1
  /\ Begins(Parser, Idle)
  /\ S \subseteq {i \in Idx : lists[i] # None}
  /\ lists' = [i \in Idx |-> IF i \in S THEN lists[i] \cup {s} ELSE lists[i]]
  /\ UNCHANGED <<topics, next, pub_count, topic_map, valued, pubs, met>>

LEMMA SubscribeLists ==
  ASSUME IInv, NEW s, NEW S, SubscribeFrame(s, S), cut \subseteq cut', cut' \subseteq cut \cup {s},
         told' \subseteq (Clients \cup {Server}) \X Idx,
         subs' \in [Clients -> Sub \cup {None}],
         subscriptions' \in [Sub -> [client : Clients, pattern : Patterns] \cup {None}],
         queues' \in [Sub -> (SUBSET Idx) \cup {None}]
  PROVE  /\ s \in Sub /\ TypeOK' /\ PeopleFrame
         /\ subscriptions[s] = None /\ queues[s] = None /\ s \notin cut
         /\ \A i \in Idx : lists[i] # None => s \notin lists[i]
         /\ \A d \in Clients : subs[d] # None => subs[d] # s
         /\ \A v \in Sub, i \in Idx : lists'[i] # None /\ v \in lists'[i] /\ v # s =>
              lists[i] # None /\ v \in lists[i]
         /\ \A i \in Idx : lists'[i] # None /\ s \in lists'[i] => i \in S
         /\ \A v \in Sub : v >= next_sub' => v >= next_sub /\ v # s
<1>1. TypeOK /\ Parser \in Tasks
  BY DEF IInv, Tasks
<1>2. /\ s = next_sub /\ s < MaxSubs /\ next_sub' = s + 1 /\ Begins(Parser, Idle)
      /\ S \subseteq {i \in Idx : lists[i] # None}
      /\ lists' = [i \in Idx |-> IF i \in S THEN lists[i] \cup {s} ELSE lists[i]]
      /\ UNCHANGED <<topics, next, pub_count, topic_map, valued, pubs, met>>
  BY DEF SubscribeFrame
<1>3. s \in Sub /\ next_sub' \in 0 .. MaxSubs /\ s >= next_sub /\ ~(s < next_sub)
  BY <1>1, <1>2, IdxFacts DEF TypeOK, Sub
<1>4. /\ task[Parser].at = "idle" /\ Goes(Parser, Idle) /\ calls' \in 0 .. MaxCalls
      /\ task' \in [Tasks -> TaskStates]
  BY <1>1, <1>2, BeginsTyped, IdleFacts
<1>5. \A i \in S : i \in Idx /\ lists[i] \in SUBSET Sub /\ lists[i] \cup {s} \in SUBSET Sub
                   /\ lists[i] \cup {s} # None /\ lists[i] # None
  <2>1. \A i \in S : i \in Idx /\ lists[i] \in SUBSET Sub /\ lists[i] # None
    BY <1>1, <1>2 DEF TypeOK
  <2>2. \A i \in S : lists[i] \cup {s} \in SUBSET Sub
    BY <1>3, <2>1
  <2> QED
    BY <2>1, <2>2, RacesAssumption
<1>6. \A i \in Idx : /\ i \in S => lists'[i] = lists[i] \cup {s}
                     /\ i \notin S => lists'[i] = lists[i]
                     /\ lists'[i] = None <=> lists[i] = None
                     /\ lists[i] # None => lists[i] \cap cut \subseteq lists'[i] \cap cut'
  BY <1>2, <1>5
<1>7. TypeOK'
  <2>1. lists' \in [Idx -> (SUBSET Sub) \cup {None}]
    BY <1>1, <1>2, <1>5 DEF TypeOK
  <2>2. cut' \subseteq Sub
    BY <1>1, <1>3 DEF TypeOK
  <2> QED
    BY <1>1, <1>2, <1>3, <1>4, <2>1, <2>2 DEF TypeOK, TaskStates
<1>8. PeopleFrame
  BY <1>2, <1>4, <1>6 DEF PeopleFrame, Goes
<1>9. /\ subscriptions[s] = None /\ s \notin cut
      /\ \A i \in Idx : lists[i] # None => s \notin lists[i]
      /\ \A d \in Clients : subs[d] # None => subs[d] # s
  BY <1>3 DEF IInv, FreshSubs
<1>10. queues[s] = None
  BY <1>3, <1>9 DEF IInv, Listed
<1>11. \A v \in Sub : v >= next_sub' => v >= next_sub /\ v # s
  BY <1>1, <1>2, IdxFacts DEF TypeOK
<1>12. /\ \A v \in Sub, i \in Idx : lists'[i] # None /\ v \in lists'[i] /\ v # s =>
              lists[i] # None /\ v \in lists[i]
       /\ \A i \in Idx : lists'[i] # None /\ s \in lists'[i] => i \in S
  BY <1>6, <1>9
<1> QED
  BY <1>3, <1>7, <1>8, <1>9, <1>10, <1>11, <1>12

LEMMA SubscribeSound ==
  ASSUME IInv, NEW c \in Clients, NEW pat \in Patterns, Subscribe(c, pat)
  PROVE  IInv'
<1> DEFINE wanted  == {topic_map[n] : n \in Matches[pat]} \ {None}
           missing == {i \in wanted : lists[i] = None}
           known   == {topic_map[n] : n \in {n \in Matches[pat] :
                         /\ topic_map[n] # None
                         /\ IsMeta(n) \/ topics[topic_map[n]] # None \/ topic_map[n] \in valued}}
           Push(S) == lists' = [i \in Idx |-> IF i \in S THEN lists[i] \cup {next_sub} ELSE lists[i]]
           sub     == [client |-> c, pattern |-> pat]
<1>1. PICK s : s = next_sub
  OBVIOUS
<1>2. /\ TypeOK /\ Matches[pat] \subseteq Names
      /\ wanted \subseteq Idx /\ known \subseteq wanted
  BY IdxFacts, RacesAssumption DEF IInv, TypeOK
<1>3. CASE missing # {}
  <2>1. PICK S \in SUBSET (wanted \ missing) : Push(S)
    BY <1>1, <1>3 DEF Subscribe
  <2>2. /\ SubscribeFrame(s, S) /\ cut' = cut \cup {s}
        /\ UNCHANGED <<subscriptions, queues, subs, told>>
    BY <1>1, <1>2, <1>3, <2>1 DEF Subscribe, SubscribeFrame
  <2> HIDE DEF wanted, missing, known, Push
  <2>3. /\ s \in Sub /\ TypeOK' /\ PeopleFrame
        /\ subscriptions[s] = None /\ queues[s] = None
        /\ \A d \in Clients : subs[d] # None => subs[d] # s
        /\ \A v \in Sub, i \in Idx : lists'[i] # None /\ v \in lists'[i] /\ v # s =>
             lists[i] # None /\ v \in lists[i]
        /\ \A v \in Sub : v >= next_sub' => v >= next_sub /\ v # s
    <3>1. /\ told' \subseteq (Clients \cup {Server}) \X Idx
          /\ subs' \in [Clients -> Sub \cup {None}]
          /\ subscriptions' \in [Sub -> [client : Clients, pattern : Patterns] \cup {None}]
          /\ queues' \in [Sub -> (SUBSET Idx) \cup {None}]
      BY <1>2, <2>2 DEF TypeOK
    <3> QED
      BY <2>2, <3>1, SubscribeLists
  <2>4. TablesInv' /\ Fresh' /\ Apart' /\ TasksInv'
    BY <2>3, PeopleSound
  <2>5. next_sub' = next_sub + 1 /\ next_sub \in Nat
    BY <1>1, <1>2, <2>2, IdxFacts DEF SubscribeFrame, TypeOK
  <2>6. FreshSubs'
    <3>1. \A v \in Sub : v >= next_sub' => /\ subscriptions'[v] = None /\ v \notin cut'
                                           /\ \A i \in Idx : lists'[i] # None => v \notin lists'[i]
      BY <2>2, <2>3 DEF IInv, FreshSubs
    <3>2. ASSUME NEW d \in Clients, subs'[d] # None PROVE subs'[d] < next_sub' /\ subs'[d] \notin cut'
      <4>1. /\ subs[d] < next_sub /\ subs[d] \notin cut /\ subs[d] # s /\ subs'[d] = subs[d]
            /\ subs[d] \in Nat
        BY <1>2, <2>2, <2>3, <3>2, IdxFacts DEF IInv, FreshSubs, TypeOK
      <4>2. subs[d] < next_sub + 1
        BY <2>5, <4>1
      <4> QED
        BY <2>2, <2>5, <4>1, <4>2
    <3> QED
      BY <3>1, <3>2 DEF FreshSubs
  <2>7. Listed'
    <3>1. \A v \in Sub, i \in Idx : lists'[i] # None /\ v \in lists'[i] => v \in cut' \/ queues'[v] # None
      BY <2>2, <2>3 DEF IInv, Listed
    <3>2. \A v \in Sub : subscriptions'[v] # None <=> queues'[v] # None
      BY <2>2 DEF IInv, Listed
    <3>3. ASSUME ~Torn', NEW v \in Sub, NEW i \in Idx, lists'[i] # None, v \in lists'[i],
                 subscriptions'[v] # None
          PROVE  <<subscriptions'[v].client, i>> \in told'
      <4>1. ~Torn /\ v # s
        BY <2>2, <2>3, <3>3 DEF SubscribeFrame, Torn
      <4> QED
        BY <2>2, <2>3, <3>3, <4>1 DEF IInv, Listed
    <3> QED
      BY <3>1, <3>2, <3>3 DEF Listed
  <2>8. SubscriberToldOrAboutToBe'
    <3>1. SUFFICES ASSUME NEW m \in Names, NEW v \in Sub, NEW i \in Idx, i = topic_map[m],
                          topics[i] # None, subscriptions'[v] # None,
                          m \in Matches[subscriptions'[v].pattern]
          PROVE  <<subscriptions'[v].client, i>> \in told' \/ \E u \in Tasks : About(u, v, i)'
      BY <2>2, <2>3, ToldByIndex DEF SubscribeFrame
    <3>2. Covers(v, m) /\ subscriptions'[v] = subscriptions[v]
      BY <2>2, <3>1, IdxFacts DEF Covers
    <3> QED
      BY <2>2, <2>3, <3>1, <3>2, PeopleAbout
  <2>9. ValueOnlyAfterAnnounce'
    BY <2>2, QueuesSame DEF SubscribeFrame
  <2> QED
    BY <2>3, <2>4, <2>6, <2>7, <2>8, <2>9 DEF IInv
<1>4. CASE missing = {}
  <2>1. /\ SubscribeFrame(s, wanted) /\ UNCHANGED cut
        /\ subscriptions' = [subscriptions EXCEPT ![s] = sub]
        /\ queues' = [queues EXCEPT ![s] = {}]
        /\ subs' = [subs EXCEPT ![c] = s]
        /\ told' = told \cup ({c} \X known)
    BY <1>1, <1>2, <1>4 DEF Subscribe, SubscribeFrame
  <2>2. ASSUME NEW m \in Matches[pat], NEW i \in Idx, i = topic_map[m],
               IsMeta(m) \/ topics[i] # None
        PROVE  i \in known
    BY <2>2, IdxFacts
  <2>3. \A i \in wanted : i \in Idx /\ \E m \in Matches[pat] : i = topic_map[m]
    BY <1>2
  <2>4. known \subseteq Idx
    BY <1>2
  <2>5. sub \in [client : Clients, pattern : Patterns] /\ sub # None
        /\ sub.client = c /\ sub.pattern = pat
    BY RacesAssumption
  <2> HIDE DEF wanted, missing, known, Push, sub
  <2>6. s \in Sub
    BY <1>2, <2>1, IdxFacts DEF SubscribeFrame, TypeOK, Sub
  <2>7. /\ TypeOK' /\ PeopleFrame
        /\ \A d \in Clients : subs[d] # None => subs[d] # s
        /\ \A v \in Sub, i \in Idx : lists'[i] # None /\ v \in lists'[i] /\ v # s =>
             lists[i] # None /\ v \in lists[i]
        /\ \A i \in Idx : lists'[i] # None /\ s \in lists'[i] => i \in wanted
        /\ \A v \in Sub : v >= next_sub' => v >= next_sub /\ v # s
        /\ s \notin cut
    <3>1. told' \subseteq (Clients \cup {Server}) \X Idx
      BY <1>2, <2>1, <2>4 DEF TypeOK
    <3>2. subs' \in [Clients -> Sub \cup {None}]
      BY <1>2, <2>1, <2>6 DEF TypeOK
    <3>3. subscriptions' \in [Sub -> [client : Clients, pattern : Patterns] \cup {None}]
      BY <1>2, <2>1, <2>5, <2>6 DEF TypeOK
    <3>4. queues' \in [Sub -> (SUBSET Idx) \cup {None}]
      BY <1>2, <2>1, <2>6 DEF TypeOK
    <3> QED
      BY <2>1, <3>1, <3>2, <3>3, <3>4, SubscribeLists
  <2>8. TablesInv' /\ Fresh' /\ Apart' /\ TasksInv'
    BY <2>7, PeopleSound
  <2>9. /\ next_sub' = next_sub + 1 /\ next_sub \in Nat /\ s = next_sub
        /\ UNCHANGED <<topics, topic_map, met>>
    BY <1>2, <2>1, IdxFacts DEF SubscribeFrame, TypeOK
  <2>10. /\ subscriptions'[s] = sub /\ queues'[s] = {} /\ queues'[s] # None
         /\ \A v \in Sub : v # s => subscriptions'[v] = subscriptions[v] /\ queues'[v] = queues[v]
         /\ \A d \in Clients : subs'[d] = s \/ subs'[d] = subs[d]
         /\ told \subseteq told'
    BY <1>2, <2>1, <2>6, RacesAssumption DEF TypeOK
  <2>11. FreshSubs'
    <3>1. \A v \in Sub : v >= next_sub' => /\ subscriptions'[v] = None /\ v \notin cut'
                                           /\ \A i \in Idx : lists'[i] # None => v \notin lists'[i]
      BY <2>1, <2>7, <2>10 DEF IInv, FreshSubs
    <3>2. ASSUME NEW d \in Clients, subs'[d] # None PROVE subs'[d] < next_sub' /\ subs'[d] \notin cut'
      <4>1. CASE subs'[d] = s
        BY <2>1, <2>7, <2>9, <4>1
      <4>2. CASE subs'[d] = subs[d]
        <5>1. subs[d] < next_sub /\ subs[d] \notin cut /\ subs[d] \in Nat
          BY <1>2, <3>2, <4>2, IdxFacts DEF IInv, FreshSubs, TypeOK
        <5>2. subs[d] < next_sub + 1
          BY <2>9, <5>1
        <5> QED
          BY <2>1, <2>9, <4>2, <5>1, <5>2
      <4> QED
        BY <2>10, <4>1, <4>2
    <3> QED
      BY <3>1, <3>2 DEF FreshSubs
  <2>12. Listed'
    <3>1. \A v \in Sub, i \in Idx : lists'[i] # None /\ v \in lists'[i] => v \in cut' \/ queues'[v] # None
      BY <2>1, <2>7, <2>10 DEF IInv, Listed
    <3>2. \A v \in Sub : subscriptions'[v] # None <=> queues'[v] # None
      BY <2>5, <2>10 DEF IInv, Listed
    <3>3. ASSUME ~Torn', NEW v \in Sub, NEW i \in Idx, lists'[i] # None, v \in lists'[i],
                 subscriptions'[v] # None
          PROVE  <<subscriptions'[v].client, i>> \in told'
      <4>1. ~Torn
        BY <2>9, <3>3 DEF Torn
      <4>2. CASE v # s
        BY <2>7, <2>10, <3>3, <4>1, <4>2 DEF IInv, Listed
      <4>3. CASE v = s
        <5>1. PICK m \in Matches[pat] : i = topic_map[m]
          BY <2>3, <2>7, <3>3, <4>3
        <5>2. m \in Names /\ m[2] \in Topics /\ i # None /\ m # None
          BY <1>2, NameFacts, IdxFacts
        <5>3. topics[i] = m
          BY <4>1, <5>1, <5>2 DEF IInv, TablesInv, Whole, Torn, IsTorn
        <5>4. i \in known
          BY <2>2, <5>1, <5>2, <5>3
        <5> QED
          BY <2>1, <2>5, <2>10, <4>3, <5>4
      <4> QED
        BY <4>2, <4>3
    <3> QED
      BY <3>1, <3>2, <3>3 DEF Listed
  <2>13. SubscriberToldOrAboutToBe'
    <3>1. SUFFICES ASSUME NEW m \in Names, NEW v \in Sub, NEW i \in Idx, i = topic_map[m],
                          topics[i] # None, subscriptions'[v] # None,
                          m \in Matches[subscriptions'[v].pattern]
          PROVE  <<subscriptions'[v].client, i>> \in told' \/ \E u \in Tasks : About(u, v, i)'
      BY <2>7, <2>9, ToldByIndex
    <3>2. CASE v = s
      BY <2>1, <2>2, <2>5, <2>10, <3>1, <3>2
    <3>3. CASE v # s
      <4>1. Covers(v, m) /\ subscriptions'[v] = subscriptions[v]
        BY <2>10, <3>1, <3>3, IdxFacts DEF Covers
      <4> QED
        BY <2>7, <2>10, <3>1, <4>1, PeopleAbout
    <3> QED
      BY <3>2, <3>3
  <2>14. ValueOnlyAfterAnnounce'
    <3>1. ASSUME ~Torn', NEW v \in Sub, subscriptions'[v] # None, NEW i \in queues'[v]
          PROVE  <<subscriptions'[v].client, i>> \in told'
      <4>1. v # s
        BY <2>10, <3>1
      <4> QED
        BY <2>9, <2>10, <3>1, <4>1 DEF IInv, ValueOnlyAfterAnnounce, Torn
    <3> QED
      BY <3>1 DEF ValueOnlyAfterAnnounce
  <2> QED
    BY <2>7, <2>8, <2>11, <2>12, <2>13, <2>14 DEF IInv
<1> QED
  BY <1>3, <1>4

--------------------------------------------------------------------------------
\* Unpublishing

\* The topic that the parser releases
LEMMA ReleaseFacts ==
  ASSUME IInv, At(Parser, "release")
  PROVE  /\ Parser \in Tasks /\ task[Parser] \in TaskStates /\ task \in [Tasks -> TaskStates]
         /\ task[Parser].at = "release" /\ task[Parser].idx \in Idx
         /\ task[Parser].main = None /\ Holds(Parser, task[Parser].idx)
         /\ Held(task[Parser].idx)
         /\ \A i : ~Making(Parser, i) /\ ~Creates(Parser, i)
         /\ \A u \in Tasks : ~(task[u].at \in {"count", "map"} /\ task[u].idx = task[Parser].idx)
         /\ topics[task[Parser].idx] # None =>
              \E x \in Topics : topics[task[Parser].idx] = Name(x)
         /\ topics[task[Parser].idx] = None /\ met = {} => pub_count[task[Parser].idx] = None
<1>1. Parser \in Tasks
  BY DEF Tasks
<1>2. /\ task[Parser] \in TaskStates /\ task \in [Tasks -> TaskStates] /\ Shaped(Parser)
      /\ task[Parser].at = "release"
  BY <1>1, TaskFacts DEF At
<1>3. task[Parser].idx \in Idx /\ task[Parser].main = None
  BY <1>2 DEF Shaped, Steps, Adding, TaskStates
<1>4. PICK i \in Idx : i = task[Parser].idx
  BY <1>3
<1>5. Holds(Parser, i) /\ Held(i)
  BY <1>1, <1>2, <1>4 DEF Holds, Held
<1>6. \A k : ~Making(Parser, k) /\ ~Creates(Parser, k)
  BY <1>2, <1>3 DEF Making, Creates, Busy, Adding
<1>7. \A u \in Tasks : ~(task[u].at \in {"count", "map"} /\ task[u].idx = i)
  BY <1>5 DEF IInv, TablesInv, Unmapped
<1>8. topics[i] # None => \E x \in Topics : topics[i] = Name(x)
  <2>1. Ordinary(i) /\ topics[i] \in Names \cup {None}
    BY <1>5 DEF IInv, TablesInv, Named, TypeOK
  <2> QED
    BY <2>1, NameFacts DEF Ordinary
<1>9. topics[i] = None /\ met = {} => pub_count[i] = None
  BY <1>2, <1>5 DEF IInv, Apart, At
<1> QED
  BY <1>1, <1>2, <1>3, <1>4, <1>5, <1>6, <1>7, <1>8, <1>9

\* A decrement that removes nothing, or a panic
LEMMA ReleaseQuiet ==
  ASSUME IInv, At(Parser, "release"), NEW i \in Idx, i = task[Parser].idx,
         NEW v \in (0 .. MaxU16) \cup {None}, pub_count' = [pub_count EXCEPT ![i] = v],
         \/ v = pub_count[i]
         \/ (topics[i] # None => v \notin {None, 0}) /\ (topics[i] = None /\ met = {} => v = None),
         UNCHANGED <<topics, next, topic_map, lists, valued, people, told, calls, met, cut>>,
         Returns(Parser) \/ (Panics(Parser) /\ met # {})
  PROVE  IInv'
<1>1. /\ Parser \in Tasks /\ task[Parser] \in TaskStates /\ task \in [Tasks -> TaskStates]
      /\ task[Parser].at = "release" /\ task[Parser].main = None /\ Holds(Parser, i)
      /\ \A k : ~Making(Parser, k) /\ ~Creates(Parser, k)
      /\ Base /\ TypeOK /\ NamedTask(Parser) /\ i # None
  BY ReleaseFacts, TaskFacts, IdxFacts
<1>2. PICK r \in TaskStates : /\ Goes(Parser, r) /\ r.at \in {"idle", "panicked"} /\ r.main = None
                              /\ r.at = "idle" => r = Idle
                              /\ r.at = "panicked" => /\ met # {} /\ r.idx = i
                                                      /\ r.name = task[Parser].name
  <2>1. CASE Returns(Parser)
    BY <2>1, IdleFacts DEF Returns
  <2>2. CASE Panics(Parser) /\ met # {}
    BY <1>1, <2>2 DEF Panics, TaskStates, Stages
  <2> QED
    BY <2>1, <2>2
<1>3. /\ task' \in [Tasks -> TaskStates] /\ task'[Parser] = r
      /\ \A u \in Tasks : u # Parser => task'[u] = task[u]
  BY <1>1, <1>2, GoesTo
<1>4. pub_count'[i] = v /\ \A k \in Idx : k # i => pub_count'[k] = pub_count[k]
  BY <1>1 DEF TypeOK
<1>5. TypeOK'
  <2>1. pub_count' \in [Idx -> (0 .. MaxU16) \cup {None}]
    BY <1>1 DEF TypeOK
  <2> QED
    BY <1>1, <1>3, <2>1 DEF TypeOK, TaskStates, people
<1>6. Shaped(Parser)'
  BY <1>1, <1>2, <1>3, IdleFacts DEF Shaped, Steps, Adding
<1>7. Base'
  BY <1>1, <1>3, <1>5, <1>6, BaseAfter
<1>8. \A k \in Idx : Holds(Parser, k)' => Holds(Parser, k)
  BY <1>1, <1>2, <1>3 DEF Holds
<1>9. \A k : ~Creates(Parser, k)'
  BY <1>2, <1>3 DEF Creates, Adding
<1>10. NamedTask(Parser)'
  <2>1. CASE r.at = "idle"
    BY <1>2, <1>3, <2>1, IdleFacts DEF NamedTask, Holds
  <2>2. CASE r.at = "panicked"
    BY <1>1, <1>2, <1>3, <1>8, <2>2 DEF NamedTask
  <2> QED
    BY <1>2, <2>1, <2>2
<1>11. SoFar(Parser)' /\ CalmTask(Parser)'
  BY <1>2, <1>3, <1>9 DEF SoFar, CalmTask, At
<1>12. \A s, k : About(Parser, s, k) => k = None
  BY <1>1 DEF About, At
<1>13. \A k \in Idx : \/ pub_count'[k] = pub_count[k]
                     \/ /\ topics[k] # None => pub_count'[k] \notin {None, 0}
                        /\ topics[k] = None /\ met = {} => pub_count'[k] = None
  BY <1>4
<1>14. UNCHANGED <<topics, next, topic_map, lists, next_sub, subscriptions, subs, cut, met, told, queues, pubs>>
  BY DEF people
<1>15. task'[Parser].idx # None => task'[Parser].idx < next
  BY <1>1, <1>2, <1>3, IdleFacts DEF IInv, Fresh
<1>16. \A n \in Names, s \in Sub : ~(Covers(s, n) /\ About(Parser, s, topic_map[n]))
  BY <1>12 DEF Covers
<1>17. task'[Parser].main = None /\ task'[Parser].at \in {"idle", "panicked"}
  BY <1>2, <1>3
<1>18. Moves(Parser)
  BY <1>1, <1>3, <1>8, <1>10, <1>11, <1>13, <1>14, <1>15, <1>16, <1>17 DEF Moves, Busy
<1>19. ValueOnlyAfterAnnounce'
  BY <1>14, QueuesSame
<1> QED
  BY <1>1, <1>7, <1>18, <1>19, MovesSound

\* The removal of topic i, of name x, and of those in gone with it
Removal(i, x, gone) ==
  /\ At(Parser, "release") /\ i = task[Parser].idx /\ topics[i] = Name(x)
  /\ i \in gone /\ gone \subseteq Idx
  /\ \A j \in gone : /\ topics[j] \in Names /\ topics[j][2] = x /\ j < next
                     /\ j # i => IsMeta(topics[j]) /\ topic_map[topics[j]] = j
  /\ pub_count' = [pub_count EXCEPT ![i] = 0]
  /\ met' = met \cup {<<"torn", x>> : t \in {t \in Handles : Creates(t, x)}} \cup
                    {<<"gone", x>> : t \in {t \in Handles : task[t].idx = i}}
  /\ topics' = [j \in Idx |-> IF j \in gone THEN None ELSE topics[j]]
  /\ \A m \in Names : /\ topic_map'[m] = topic_map[m] \/ (topic_map'[m] = None /\ m[2] = x)
                      /\ topic_map'[m] \in gone => m = Name(x)
  /\ topic_map'[Name(x)] # None => IsTorn(x)' /\ gone = {i}
  /\ UNCHANGED <<next, lists, valued, people, told, calls, cut>>
  /\ \/ Returns(Parser) /\ met' # {} /\ gone = {i}
     \/ /\ Goes(Parser, [task[Parser] EXCEPT !.at = "cleanse", !.them = gone])
        /\ topic_map'[Name(x)] = None

\* What a removal does to tasks and to the history
LEMMA RemovalFacts ==
  ASSUME IInv, TypeOK', NEW i \in Idx, NEW x \in Topics, NEW gone, Removal(i, x, gone)
  PROVE  /\ \A u \in Tasks : u # Parser => task'[u] = task[u] /\ u \in Handles
         /\ Base' /\ task'[Parser].at \in {"idle", "cleanse"} /\ task'[Parser].main = None
         /\ task'[Parser].at = "idle" => task'[Parser] = Idle /\ met' # {} /\ gone = {i}
         /\ task'[Parser].at = "cleanse" =>
              /\ task'[Parser].idx = i /\ task'[Parser].them = gone
              /\ task'[Parser].name = task[Parser].name /\ topic_map'[Name(x)] = None
         /\ met \subseteq met'
         /\ \A u \in Handles : (Creates(u, x) => IsTorn(x)') /\ (task[u].idx = i => met' # {})
         /\ \A k : \A u \in Tasks : Making(u, k)' <=> Making(u, k)
         /\ \A y : \A u \in Tasks : Creates(u, y)' <=> Creates(u, y)
         /\ \A k : \A u \in Tasks : Holds(u, k)' => Holds(u, k)
         /\ \A k : Held(k)' => Held(k)
<1>1. /\ Parser \in Tasks /\ task[Parser] \in TaskStates /\ task \in [Tasks -> TaskStates]
      /\ task[Parser].at = "release" /\ task[Parser].main = None /\ Holds(Parser, i)
      /\ \A k : ~Making(Parser, k) /\ ~Creates(Parser, k)
      /\ Base /\ TypeOK /\ i # None
  BY ReleaseFacts, TaskFacts, IdxFacts DEF Removal
<1>2. gone \in SUBSET (Clients \cup Idx)
  BY DEF Removal
<1>3. PICK r \in TaskStates :
        /\ Goes(Parser, r) /\ r.at \in {"idle", "cleanse"} /\ r.main = None
        /\ r.at = "idle" => r = Idle /\ met' # {} /\ gone = {i}
        /\ r.at = "cleanse" => /\ r.idx = i /\ r.them = gone /\ r.name = task[Parser].name
                               /\ topic_map'[Name(x)] = None
  <2>1. CASE Returns(Parser) /\ met' # {} /\ gone = {i}
    BY <2>1, IdleFacts DEF Returns
  <2>2. CASE /\ Goes(Parser, [task[Parser] EXCEPT !.at = "cleanse", !.them = gone])
             /\ topic_map'[Name(x)] = None
    <3> DEFINE r == [task[Parser] EXCEPT !.at = "cleanse", !.them = gone]
    <3>1. r \in TaskStates
      BY <1>1, <1>2 DEF TaskStates, Stages
    <3>2. r.at = "cleanse" /\ r.them = gone /\ r.idx = i /\ r.main = None /\ r.name = task[Parser].name
      BY <1>1 DEF TaskStates, Removal
    <3> HIDE DEF r
    <3> QED
      BY <2>2, <3>1, <3>2 DEF r
  <2> QED
    BY <2>1, <2>2 DEF Removal
<1>4. /\ task' \in [Tasks -> TaskStates] /\ task'[Parser] = r
      /\ \A u \in Tasks : u # Parser => task'[u] = task[u]
  BY <1>1, <1>3, GoesTo
<1>5. Shaped(Parser)'
  BY <1>1, <1>3, <1>4, IdleFacts DEF Shaped, Steps, Adding
<1>6. Base'
  BY <1>1, <1>4, <1>5, BaseAfter
<1>7. /\ met \subseteq met'
      /\ \A u \in Handles : (Creates(u, x) => IsTorn(x)') /\ (task[u].idx = i => met' # {})
  <2> DEFINE torn == {<<"torn", x>> : t \in {t \in Handles : Creates(t, x)}}
             lost == {<<"gone", x>> : t \in {t \in Handles : task[t].idx = i}}
  <2>1. met' = met \cup torn \cup lost
    BY DEF Removal
  <2>2. ASSUME NEW u \in Handles, Creates(u, x) PROVE <<"torn", x>> \in torn
    BY <2>2
  <2>3. ASSUME NEW u \in Handles, task[u].idx = i PROVE <<"gone", x>> \in lost
    BY <2>3
  <2> HIDE DEF torn, lost
  <2> QED
    BY <2>1, <2>2, <2>3 DEF IsTorn
<1>8. \A k : ~Making(Parser, k)' /\ ~Creates(Parser, k)'
  BY <1>3, <1>4 DEF Making, Creates, Busy, Adding
<1>9. \A k : ~Holds(Parser, k)'
  BY <1>3, <1>4 DEF Holds
<1>10. /\ \A k : \A u \in Tasks : Making(u, k)' <=> Making(u, k)
       /\ \A y : \A u \in Tasks : Creates(u, y)' <=> Creates(u, y)
       /\ \A k : \A u \in Tasks : Holds(u, k)' => Holds(u, k)
  BY <1>1, <1>4, <1>8, <1>9, SameTask
<1>11. \A k : Held(k)' => Held(k)
  BY <1>10 DEF Held, Removal, people
<1>12. \A u \in Tasks : u # Parser => u \in Handles
  BY DEF Tasks
<1> QED
  BY <1>3, <1>4, <1>6, <1>7, <1>10, <1>11, <1>12

LEMMA RemovalTables ==
  ASSUME IInv, TypeOK', NEW i \in Idx, NEW x \in Topics, NEW gone, Removal(i, x, gone)
  PROVE  Named' /\ Owners' /\ Unmapped' /\ Counted' /\ Going'
<1>1. /\ \A u \in Tasks : u # Parser => task'[u] = task[u] /\ u \in Handles
      /\ Base' /\ task'[Parser].at \in {"idle", "cleanse"} /\ task'[Parser].main = None
      /\ task'[Parser].at = "idle" => task'[Parser] = Idle /\ gone = {i}
      /\ task'[Parser].at = "cleanse" => /\ task'[Parser].idx = i /\ task'[Parser].them = gone
                                         /\ task'[Parser].name = task[Parser].name
                                         /\ topic_map'[Name(x)] = None
      /\ met \subseteq met'
      /\ \A u \in Handles : Creates(u, x) => IsTorn(x)'
  BY RemovalFacts
<1>2. /\ \A k : \A u \in Tasks : Making(u, k)' <=> Making(u, k)
      /\ \A y : \A u \in Tasks : Creates(u, y)' <=> Creates(u, y)
      /\ \A k : \A u \in Tasks : Holds(u, k)' => Holds(u, k)
      /\ \A k : Held(k)' => Held(k)
  BY RemovalFacts
<1>3. /\ i = task[Parser].idx /\ task[Parser].at = "release" /\ i # None /\ Held(i)
      /\ \A k : ~Creates(Parser, k)
      /\ \A u \in Tasks : ~(task[u].at \in {"count", "map"} /\ task[u].idx = i)
  BY ReleaseFacts, IdxFacts DEF Removal
<1>4. /\ topics[i] = Name(x) /\ i \in gone /\ gone \subseteq Idx
      /\ Name(x) \in Names /\ Name(x)[2] = x /\ ~IsMeta(Name(x))
      /\ \A j \in gone : /\ topics[j] \in Names /\ topics[j][2] = x /\ j < next
                         /\ j # i => IsMeta(topics[j]) /\ topic_map[topics[j]] = j
  BY NameFacts DEF Removal
<1>5. /\ \A j \in gone : topics'[j] = None
      /\ \A j \in Idx : j \notin gone => topics'[j] = topics[j]
      /\ \A j \in Idx : topics'[j] = topics[j] \/ topics'[j] = None
  BY <1>4 DEF Removal
<1>6. /\ \A m \in Names : /\ topic_map'[m] = topic_map[m] \/ (topic_map'[m] = None /\ m[2] = x)
                          /\ topic_map'[m] \in gone => m = Name(x)
      /\ topic_map'[Name(x)] # None => IsTorn(x)' /\ gone = {i}
      /\ UNCHANGED <<next, lists>>
  BY DEF Removal
<1>7. pub_count'[i] = 0 /\ \A j \in Idx : j # i => pub_count'[j] = pub_count[j]
  BY DEF Removal, IInv, TypeOK
<1>8. \A u \in Tasks : task'[u].at \in Busy \/ task'[u].main # None => u # Parser
  BY <1>1 DEF Busy
<1>9. \A u \in Tasks : task[u].at \in Busy => task'[u] = task[u]
  BY <1>1, <1>3 DEF Busy
<1>10. \A j \in Idx : topics'[j] # None => topics[j] # None /\ topics'[j] = topics[j] /\ j \notin gone
  BY <1>5
<1>11. ASSUME NEW m \in Names, topic_map'[m] # None
       PROVE  /\ topic_map'[m] = topic_map[m] /\ topic_map[m] \in Idx
              /\ topics[topic_map[m]] = m \/ (~IsMeta(m) /\ topics[topic_map[m]] = None)
  BY <1>6, <1>11 DEF IInv, TablesInv, Named, TypeOK
<1>12. Named'
  <2>1. ASSUME NEW m \in Names, topic_map'[m] # None
        PROVE  topics'[topic_map'[m]] = m \/ (~IsMeta(m) /\ topics'[topic_map'[m]] = None)
    <3>1. CASE topic_map'[m] \in gone
      BY <1>4, <1>5, <1>6, <2>1, <3>1
    <3>2. CASE topic_map'[m] \notin gone
      BY <1>5, <1>11, <2>1, <3>2
    <3> QED
      BY <3>1, <3>2
  <2>2. ASSUME NEW u \in Tasks PROVE NamedTask(u)'
    <3>1. NamedTask(u) /\ Shaped(u) /\ task[u] \in TaskStates
      BY TaskFacts
    <3>2. CASE u # Parser
      <4>1. task'[u] = task[u]
        BY <1>1, <3>2
      <4>2. task[u].idx # None => task[u].idx \in Idx
        BY <3>1 DEF TaskStates
      <4>3. task[u].main # None => task[u].main \in Idx
        BY <3>1 DEF TaskStates
      <4>4. task[u].idx # None /\ task[u].name # None => topics'[task[u].idx] \in {task[u].name, None}
        BY <1>5, <3>1, <4>2 DEF NamedTask
      <4>5. task[u].main # None => topics'[task[u].main] \in {Name(task[u].name[2]), None}
        BY <1>5, <3>1, <4>3 DEF NamedTask
      <4>6. \A k \in Idx : task[u].name \in Names /\ Holds(u, k)' => ~IsMeta(task[u].name)
        BY <1>2, <3>1 DEF NamedTask
      <4>7. ASSUME task[u].main # None, topics'[task[u].main] # None,
                   topic_map'[Name(task[u].name[2])] = task[u].main, task[u].idx # None,
                   topics'[task[u].idx] = None
            PROVE  FALSE
        <5>1. PICK y \in Topics : /\ y = task[u].name[2] /\ IsMeta(task[u].name)
                                  /\ task[u].name \in Names /\ task[u].name # None
          BY <4>7, MainCreates, NameFacts
        <5>2. Name(y) \in Names
          BY NameFacts
        <5>3. topic_map'[Name(y)] = topic_map[Name(y)] /\ topics[task[u].main] # None
          BY <1>10, <1>11, <4>3, <4>7, <5>1, <5>2
        <5>4. topics[task[u].idx] # None
          BY <3>1, <4>7, <5>1, <5>3 DEF NamedTask
        <5>5. task[u].idx \in gone /\ topics[task[u].idx] = task[u].name
          BY <1>5, <3>1, <4>2, <4>7, <5>1, <5>4 DEF NamedTask
        <5>6. y = x /\ task[u].idx # i
          BY <1>4, <5>1, <5>5
        <5> QED
          BY <1>6, <4>7, <5>1, <5>5, <5>6
      <4> QED
        BY <4>1, <4>4, <4>5, <4>6, <4>7 DEF NamedTask
    <3>3. CASE u = Parser
      <4>1. task'[Parser].idx # None => task'[Parser].idx = i
        BY <1>1, IdleFacts
      <4>2. \A k \in Idx : ~Holds(Parser, k)'
        BY <1>1 DEF Holds
      <4> QED
        BY <1>1, <1>4, <1>5, <3>3, <4>1, <4>2 DEF NamedTask
    <3> QED
      BY <3>2, <3>3
  <2>3. \A k \in Idx : Held(k)' => Ordinary(k)'
    BY <1>2, <1>5 DEF IInv, TablesInv, Named, Ordinary
  <2> QED
    BY <2>1, <2>2, <2>3 DEF Named
<1>13. Owners'
  BY <1>2 DEF IInv, TablesInv, Owners
<1>14. Unmapped'
  <2>1. ASSUME NEW u \in Tasks, NEW k \in Idx, task'[u].at \in {"count", "map"}, task'[u].idx = k
        PROVE  topics'[k] = task'[u].name /\ (\A m \in Names : topic_map'[m] # k) /\ ~Held(k)'
    <3>1. task'[u] = task[u]
      BY <1>1, <1>8, <2>1 DEF Busy
    <3>2. topics[k] = task[u].name /\ (\A m \in Names : topic_map[m] # k) /\ ~Held(k)
      BY <2>1, <3>1 DEF IInv, TablesInv, Unmapped
    <3>3. \A m \in Names : topic_map'[m] # k
      BY <1>6, <3>2, IdxFacts
    <3>4. k \notin gone
      <4>1. SUFFICES ASSUME k \in gone, k # i PROVE FALSE
        BY <1>3, <3>2
      <4> QED
        BY <1>4, <3>2, <4>1
    <3> QED
      BY <1>2, <1>5, <3>1, <3>2, <3>3, <3>4
  <2> QED
    BY <2>1 DEF Unmapped
<1>15. Counted'
  BY <1>4, <1>6, <1>7, <1>9, <1>10 DEF IInv, TablesInv, Counted, Busy
<1>16. Going'
  <2>1. SUFFICES ASSUME task'[Parser].at = "cleanse"
        PROVE  /\ task'[Parser].idx \in task'[Parser].them
               /\ \A j \in task'[Parser].them : /\ j \in Idx /\ j < next' /\ topics'[j] = None
                                                /\ \A m \in Names : topic_map'[m] # j
    BY DEF Going, At
  <2>2. \A j \in gone, m \in Names : topic_map'[m] # j
    BY <1>1, <1>4, <1>6, <2>1, IdxFacts
  <2> QED
    BY <1>1, <1>4, <1>5, <1>6, <2>1, <2>2
<1> QED
  BY <1>12, <1>13, <1>14, <1>15, <1>16

LEMMA RemovalWhole ==
  ASSUME IInv, TypeOK', NEW i \in Idx, NEW x \in Topics, NEW gone, Removal(i, x, gone)
  PROVE  Whole' /\ Once'
<1>1. /\ \A u \in Tasks : u # Parser => task'[u] = task[u]
      /\ task'[Parser].at \in {"idle", "cleanse"}
      /\ \A y : \A u \in Tasks : Creates(u, y)' <=> Creates(u, y)
      /\ \A y : (IsTorn(y) => IsTorn(y)') /\ (IsTwice(y) => IsTwice(y)')
  BY RemovalFacts, TornStays
<1>2. /\ task[Parser].at = "release" /\ i # None
      /\ \A u \in Tasks : ~(task[u].at \in {"count", "map"} /\ task[u].idx = i)
  BY ReleaseFacts, IdxFacts DEF Removal
<1>3. /\ topics[i] = Name(x) /\ i \in gone /\ gone \subseteq Idx
      /\ Name(x) \in Names /\ Name(x)[2] = x /\ ~IsMeta(Name(x))
      /\ \A j \in gone : /\ topics[j] \in Names /\ topics[j][2] = x
                         /\ j # i => IsMeta(topics[j])
  BY NameFacts DEF Removal
<1>4. /\ \A j \in gone : topics'[j] = None
      /\ \A j \in Idx : j \notin gone => topics'[j] = topics[j]
  BY <1>3 DEF Removal
<1>5. /\ \A m \in Names : /\ topic_map'[m] = topic_map[m] \/ (topic_map'[m] = None /\ m[2] = x)
                          /\ topic_map'[m] \in gone => m = Name(x)
      /\ topic_map'[Name(x)] # None => IsTorn(x)'
  BY DEF Removal
<1>6. Whole'
  <2>1. SUFFICES ASSUME NEW y \in Topics, ~IsTorn(y)'
        PROVE  /\ \A n \in Names : n[2] = y /\ topic_map'[n] # None => topics'[topic_map'[n]] = n
               /\ topic_map'[Name(y)] # None =>
                    (\A n \in MetasOf(y) : topic_map'[n] # None) \/ \E t \in Tasks : Creates(t, y)'
    BY DEF Whole
  <2>2. /\ ~IsTorn(y)
        /\ \A n \in Names : n[2] = y /\ topic_map[n] # None => topics[topic_map[n]] = n
        /\ topic_map[Name(y)] # None =>
             (\A n \in MetasOf(y) : topic_map[n] # None) \/ \E t \in Tasks : Creates(t, y)
    BY <1>1, <2>1 DEF IInv, TablesInv, Whole
  <2>3. ASSUME NEW n \in Names, n[2] = y, topic_map'[n] # None
        PROVE  topics'[topic_map'[n]] = n
    <3>1. topic_map'[n] = topic_map[n] /\ topics[topic_map[n]] = n
      BY <1>5, <2>2, <2>3
    <3>2. topic_map'[n] \in Idx
      BY <2>3 DEF TypeOK
    <3>3. topic_map'[n] \notin gone
      <4>1. SUFFICES ASSUME n = Name(x) PROVE FALSE
        BY <1>5
      <4>2. y = x
        BY <1>3, <2>3, <4>1
      <4> QED
        BY <1>5, <2>1, <2>3, <4>1, <4>2
    <3> QED
      BY <1>4, <3>1, <3>2, <3>3
  <2>4. ASSUME topic_map'[Name(y)] # None
        PROVE  (\A n \in MetasOf(y) : topic_map'[n] # None) \/ \E t \in Tasks : Creates(t, y)'
    <3>1. y # x
      BY <1>5, <2>1, <2>4
    <3>2. \A n \in {Name(y)} \cup MetasOf(y) : n \in Names /\ n[2] = y
      BY NameFacts
    <3>3. \A n \in {Name(y)} \cup MetasOf(y) : topic_map'[n] = topic_map[n]
      BY <1>5, <3>1, <3>2
    <3> QED
      BY <1>1, <2>2, <2>4, <3>3
  <2> QED
    BY <2>3, <2>4
<1>7. Once'
  <2>1. \A u \in Tasks : task[u].at \in {"count", "map"} \/ task'[u].at \in {"count", "map"} =>
          task'[u] = task[u]
    BY <1>1, <1>2
  <2>2. SUFFICES ASSUME NEW y \in Topics, ~IsTwice(y)'
        PROVE  /\ \A t \in Tasks : task'[t].at \in {"count", "map"} /\ task'[t].name = Name(y) =>
                    /\ topic_map'[Name(y)] = None
                    /\ \A u \in Tasks : task'[u].at \in {"count", "map"} /\ task'[u].name = Name(y)
                                          => u = t
               /\ ~IsTorn(y)' => \A j \in Idx : topics'[j] = Name(y) =>
                    \/ topic_map'[Name(y)] = j
                    \/ \E t \in Tasks : task'[t].at \in {"count", "map"} /\ task'[t].idx = j
    BY DEF Once
  <2>3. Once /\ ~IsTwice(y) /\ Name(y) \in Names /\ Name(y) # None
    BY <1>1, <2>2, NameFacts DEF IInv, TablesInv
  <2>4. ASSUME NEW t \in Tasks, task'[t].at \in {"count", "map"}, task'[t].name = Name(y)
        PROVE  /\ topic_map'[Name(y)] = None
               /\ \A u \in Tasks : task'[u].at \in {"count", "map"} /\ task'[u].name = Name(y) => u = t
    <3>1. task'[t] = task[t]
      BY <2>1, <2>4
    <3>2. /\ topic_map[Name(y)] = None
          /\ \A u \in Tasks : task[u].at \in {"count", "map"} /\ task[u].name = Name(y) => u = t
      BY <2>3, <2>4, <3>1 DEF Once
    <3> QED
      BY <1>5, <2>1, <2>3, <3>2
  <2>5. ASSUME ~IsTorn(y)', NEW j \in Idx, topics'[j] = Name(y)
        PROVE  \/ topic_map'[Name(y)] = j
               \/ \E t \in Tasks : task'[t].at \in {"count", "map"} /\ task'[t].idx = j
    <3>1. ~IsTorn(y) /\ topics[j] = Name(y) /\ j \notin gone
      BY <1>1, <1>4, <2>3, <2>5
    <3>2. CASE topic_map[Name(y)] = j
      <4>1. SUFFICES ASSUME topic_map'[Name(y)] # j PROVE FALSE
        OBVIOUS
      <4>2. Name(y)[2] = x
        BY <1>5, <2>3, <3>2, <4>1
      <4>3. y = x
        BY <4>2, NameFacts
      <4>4. topic_map[Name(x)] = i
        BY <1>2, <1>3, <2>3, <3>1, <4>3 DEF Once
      <4> QED
        BY <1>3, <3>1, <3>2, <4>3, <4>4
    <3>3. CASE \E t \in Tasks : task[t].at \in {"count", "map"} /\ task[t].idx = j
      BY <2>1, <3>3
    <3> QED
      BY <2>3, <3>1, <3>2, <3>3 DEF Once
  <2> QED
    BY <2>4, <2>5
<1> QED
  BY <1>6, <1>7

LEMMA RemovalTasks ==
  ASSUME IInv, TypeOK', NEW i \in Idx, NEW x \in Topics, NEW gone, Removal(i, x, gone)
  PROVE  TasksInv' /\ Fresh' /\ FreshSubs' /\ Listed' /\ ValueOnlyAfterAnnounce'
<1>1. /\ \A u \in Tasks : u # Parser => task'[u] = task[u] /\ u \in Handles
      /\ Base' /\ task'[Parser].at \in {"idle", "cleanse"} /\ task'[Parser].main = None
      /\ task'[Parser].at = "idle" => task'[Parser] = Idle
      /\ task'[Parser].at = "cleanse" => task'[Parser].idx = i
      /\ met \subseteq met'
      /\ \A u \in Handles : Creates(u, x) => IsTorn(x)'
      /\ \A y : \A u \in Tasks : Creates(u, y)' <=> Creates(u, y)
  BY RemovalFacts
<1>2. /\ i = task[Parser].idx /\ i # None /\ \A k : ~Creates(Parser, k)
  BY ReleaseFacts, IdxFacts DEF Removal
<1>3. /\ topics' = [j \in Idx |-> IF j \in gone THEN None ELSE topics[j]]
      /\ \A j \in gone : topics[j] \in Names /\ topics[j][2] = x
      /\ \A m \in Names : topic_map'[m] = topic_map[m] \/ (topic_map'[m] = None /\ m[2] = x)
      /\ UNCHANGED <<next, lists, next_sub, subscriptions, queues, pubs, subs, told, cut>>
  BY DEF Removal, people
<1>4. ASSUME NEW u \in Tasks PROVE SoFar(u)' /\ CalmTask(u)'
  <2>1. CASE u = Parser
    BY <1>1, <1>2, <2>1 DEF SoFar, CalmTask, At
  <2>2. CASE u # Parser
    <3>1. /\ task'[u] = task[u] /\ u \in Handles /\ SoFar(u) /\ CalmTask(u) /\ task[u] \in TaskStates
      BY <1>1, <2>2, TaskFacts
    <3>2. CalmTask(u)'
      BY <1>1, <1>3, <3>1 DEF CalmTask, At
    <3>3. ASSUME NEW y \in Topics, Creates(u, y), ~IsTorn(y)'
          PROVE  /\ task[u].idx # None => topics'[task[u].idx] = task[u].name
                 /\ task[u].main # None => topics'[task[u].main] = Name(y)
                 /\ task[u].name[1] = "$sub" => topic_map'[<<"$pub", y>>] # None
                 /\ IsMeta(task[u].name) /\ task[u].at \in {"list", "announce", "audience", "tell"} =>
                      topic_map'[task[u].name] # None
      <4>1. ~IsTorn(y) /\ y # x
        BY <1>1, <3>1, <3>3, TornStays
      <4>2. /\ task[u].idx # None => topics[task[u].idx] = task[u].name
            /\ task[u].main # None => topics[task[u].main] = Name(y)
            /\ task[u].name[1] = "$sub" => topic_map[<<"$pub", y>>] # None
            /\ IsMeta(task[u].name) /\ task[u].at \in {"list", "announce", "audience", "tell"} =>
                 topic_map[task[u].name] # None
        BY <3>1, <3>3, <4>1 DEF SoFar
      <4>3. /\ task[u].name \in Names /\ task[u].name[2] = y
            /\ Name(y)[2] = y /\ <<"$pub", y>> \in Names /\ <<"$pub", y>>[2] = y
        BY <3>1, <3>3, NameFacts DEF Creates, TaskStates, MetasOf
      <4>4. /\ task[u].idx # None => task[u].idx \in Idx
            /\ task[u].main # None => task[u].main \in Idx
        BY <3>1 DEF TaskStates
      <4> QED
        BY <1>3, <4>1, <4>2, <4>3, <4>4
    <3>4. SoFar(u)'
      BY <1>1, <3>1, <3>3 DEF SoFar
    <3> QED
      BY <3>2, <3>4
  <2> QED
    BY <2>1, <2>2
<1>5. TasksInv'
  BY <1>1, <1>4 DEF TasksInv, Base
<1>6. Fresh'
  <2>1. \A j \in Idx : topics'[j] # None => topics[j] # None
    BY <1>3
  <2>2. \A m \in Names : topic_map'[m] # None => topic_map'[m] = topic_map[m]
    BY <1>3
  <2>3. ASSUME NEW u \in Tasks
        PROVE  /\ task'[u].idx # None => task'[u].idx < next
               /\ task'[u].main # None => task'[u].main < next
    <3>1. CASE u = Parser
      BY <1>1, <1>2, <3>1, IdleFacts DEF IInv, Fresh
    <3>2. CASE u # Parser
      BY <1>1, <3>2 DEF IInv, Fresh
    <3> QED
      BY <3>1, <3>2
  <2> QED
    BY <1>3, <2>1, <2>2, <2>3 DEF IInv, Fresh
<1>7. FreshSubs'
  BY <1>3 DEF IInv, FreshSubs
<1>8. Listed'
  <2>1. ~Torn' => ~Torn
    BY <1>1, TornSomewhere
  <2> QED
    BY <1>3, <2>1 DEF IInv, Listed
<1>9. ValueOnlyAfterAnnounce'
  BY <1>1, <1>3, QueuesSame
<1> QED
  BY <1>5, <1>6, <1>7, <1>8, <1>9

LEMMA RemovalApart ==
  ASSUME IInv, TypeOK', NEW i \in Idx, NEW x \in Topics, NEW gone, Removal(i, x, gone)
  PROVE  Apart'
<1>1. /\ \A u \in Tasks : u # Parser => task'[u] = task[u] /\ u \in Handles
      /\ task'[Parser].at \in {"idle", "cleanse"}
      /\ task'[Parser].at = "idle" => met' # {}
      /\ task'[Parser].at = "cleanse" => task'[Parser].idx = i /\ task'[Parser].them = gone
      /\ met \subseteq met'
      /\ \A u \in Handles : (Creates(u, x) => IsTorn(x)') /\ (task[u].idx = i => met' # {})
      /\ \A k : \A u \in Tasks : Making(u, k)' <=> Making(u, k)
      /\ \A k : \A u \in Tasks : Holds(u, k)' => Holds(u, k)
      /\ \A k : Held(k)' => Held(k)
  BY RemovalFacts
<1>2. /\ topics[i] = Name(x) /\ i \in gone /\ gone \subseteq Idx /\ Parser \in Tasks
      /\ Handles \subseteq Tasks /\ Parser \notin Handles
      /\ \A j \in gone : /\ topics[j] \in Names
                         /\ j # i => IsMeta(topics[j])
      /\ topics' = [j \in Idx |-> IF j \in gone THEN None ELSE topics[j]]
      /\ pub_count' = [pub_count EXCEPT ![i] = 0]
      /\ task[Parser].at = "release"
  BY ReleaseFacts, RacesAssumption DEF Removal, Tasks
<1>3. SUFFICES ASSUME met' = {}
      PROVE  /\ \A k \in Idx : Held(k)' => \A u \in Tasks : ~Making(u, k)'
             /\ At(Parser, "cleanse")' => \A u \in Handles, k \in task'[Parser].them :
                  ~Holds(u, k)' /\ task'[u].main # k
             /\ \A k \in Idx : topics'[k] = None /\ Held(k)' =>
                  pub_count'[k] = None \/ (At(Parser, "cleanse")' /\ task'[Parser].idx = k)
  BY DEF Apart
<1>4. /\ task'[Parser].at = "cleanse" /\ task'[Parser].idx = i /\ task'[Parser].them = gone
      /\ met = {} /\ Apart /\ ~IsTorn(x)'
      /\ \A u \in Handles : ~Creates(u, x) /\ task[u].idx # i
  BY <1>1, <1>3 DEF IInv, IsTorn
<1>5. \A k \in Idx : Held(k)' => \A u \in Tasks : ~Making(u, k)'
  BY <1>1, <1>4 DEF Apart
<1>6. \A k \in gone : Held(k) => k = i
  <2>1. ASSUME NEW k \in gone, Held(k), k # i PROVE FALSE
    <3>1. Ordinary(k) /\ topics[k] \in Names /\ IsMeta(topics[k])
      BY <1>2, <2>1 DEF IInv, TablesInv, Named
    <3> QED
      BY <3>1, NameFacts DEF Ordinary
  <2> QED
    BY <2>1
<1>7. ASSUME NEW u \in Handles, NEW k \in gone PROVE ~Holds(u, k)' /\ task'[u].main # k
  <2>1. task'[u] = task[u] /\ u \in Tasks
    BY <1>1, <1>2
  <2>2. ~Holds(u, k)'
    <3>1. SUFFICES ASSUME Holds(u, k) PROVE FALSE
      BY <1>1, <2>1
    <3>2. k = i
      BY <1>6, <2>1, <3>1 DEF Held
    <3> QED
      BY <1>4, <3>1, <3>2 DEF Holds
  <2>3. ASSUME task[u].main = k PROVE FALSE
    <3>1. k # None /\ k \in Idx
      BY <1>2, IdxFacts
    <3>2. /\ task[u].name \in Names /\ task[u].name[2] \in Topics /\ Creates(u, task[u].name[2])
      BY <2>1, <2>3, <3>1, MainCreates
    <3>3. topics[k] \in {Name(task[u].name[2]), None}
      BY <2>1, <2>3, <3>1, TaskFacts DEF NamedTask
    <3>4. topics[k] = Name(task[u].name[2])
      BY <1>2, <3>3, NameFacts
    <3>5. k = i
      BY <1>2, <3>2, <3>4, NameFacts
    <3>6. task[u].name[2] = x
      BY <1>2, <3>4, <3>5 DEF Name
    <3> QED
      BY <1>4, <3>2, <3>6
  <2> QED
    BY <2>1, <2>2, <2>3
<1>8. ASSUME NEW k \in Idx, topics'[k] = None, Held(k)', k # i PROVE pub_count'[k] = None
  <2>1. Held(k) /\ k \notin gone
    BY <1>1, <1>6, <1>8
  <2>2. topics[k] = None /\ pub_count'[k] = pub_count[k]
    BY <1>2, <1>8, <2>1 DEF IInv, TypeOK
  <2> QED
    BY <1>2, <1>4, <2>1, <2>2 DEF Apart, At
<1> QED
  BY <1>4, <1>5, <1>7, <1>8 DEF At

LEMMA RemovalSound ==
  ASSUME IInv, TypeOK', NEW i \in Idx, NEW x \in Topics, NEW gone, Removal(i, x, gone)
  PROVE  IInv'
<1>1. /\ \A u \in Tasks : u # Parser => task'[u] = task[u]
      /\ task[Parser].at = "release" /\ task[Parser].main = None
      /\ UNCHANGED <<subscriptions, told>>
      /\ topics' = [j \in Idx |-> IF j \in gone THEN None ELSE topics[j]]
      /\ \A m \in Names : topic_map'[m] = topic_map[m] \/ topic_map'[m] = None
  <2>1. \A u \in Tasks : u # Parser => task'[u] = task[u]
    BY RemovalFacts
  <2>2. task[Parser].at = "release" /\ task[Parser].main = None
    BY ReleaseFacts DEF Removal
  <2> QED
    BY <2>1, <2>2 DEF Removal, people
<1>2. ASSUME NEW m \in Names, NEW s \in Sub, NEW k \in Idx, k = topic_map'[m],
             topics'[k] # None, subscriptions[s] # None, m \in Matches[subscriptions[s].pattern]
      PROVE  <<subscriptions[s].client, k>> \in told \/ \E u \in Tasks : About(u, s, k)'
  <2>1. k = topic_map[m] /\ k # None /\ topics[k] # None
    BY <1>1, <1>2, IdxFacts
  <2>2. Covers(s, m)
    BY <1>2, <2>1 DEF Covers
  <2>3. <<subscriptions[s].client, k>> \in told \/ \E u \in Tasks : About(u, s, k)
    BY <2>1, <2>2, ToldOrAbout DEF IInv
  <2>4. ASSUME NEW u \in Tasks, About(u, s, k) PROVE About(u, s, k)'
    <3>1. u # Parser
      BY <1>1, <2>1, <2>4 DEF About, At
    <3>2. task'[u] = task[u]
      BY <1>1, <3>1
    <3> QED
      BY <1>1, <2>4, <3>2 DEF About, At
  <2> QED
    BY <2>3, <2>4
<1>3. ASSUME NEW m \in Names, NEW s \in Sub, topic_map'[m] # None, topics'[topic_map'[m]] # None,
             subscriptions[s] # None, m \in Matches[subscriptions[s].pattern]
      PROVE  \/ <<subscriptions[s].client, topic_map'[m]>> \in told
             \/ \E u \in Tasks :
                  \/ task'[u].idx = topic_map'[m] /\ task'[u].at \in {"list", "announce", "respond", "audience"}
                  \/ task'[u].idx = topic_map'[m] /\ task'[u].at = "tell"
                     /\ subscriptions[s].client \in task'[u].them
                  \/ task'[u].main = topic_map'[m]
  <2>1. PICK k \in Idx : k = topic_map'[m]
    BY <1>3 DEF TypeOK
  <2>2. <<subscriptions[s].client, k>> \in told \/ \E u \in Tasks : About(u, s, k)'
    BY <1>2, <1>3, <2>1
  <2> QED
    BY <1>1, <2>1, <2>2 DEF About, At
<1>4. SubscriberToldOrAboutToBe'
  BY <1>1, <1>3 DEF SubscriberToldOrAboutToBe, At
<1> QED
  BY <1>4, RemovalTables, RemovalWhole, RemovalTasks, RemovalApart DEF IInv, TablesInv

\* A name that leads to the topic of an ordinary name is that name.
LEMMA LeadsBack ==
  ASSUME IInv, NEW m \in Names, NEW k \in Idx, topic_map[m] = k, topics[k] # None
  PROVE  topics[k] = m
  BY IdxFacts DEF IInv, TablesInv, Named


LEMMA TypeAfterRelease ==
  ASSUME TypeOK, NEW i \in Idx, NEW x \in Topics,
         topics' \in [Idx -> Names \cup {None}], topic_map' \in [Names -> Idx \cup {None}],
         task' \in [Tasks -> TaskStates], pub_count' = [pub_count EXCEPT ![i] = 0],
         met' = met \cup {<<"torn", x>> : t \in {t \in Handles : Creates(t, x)}} \cup
                         {<<"gone", x>> : t \in {t \in Handles : task[t].idx = i}},
         UNCHANGED <<next, lists, valued, people, told, calls, cut>>
  PROVE  TypeOK'
<1>1. met' \subseteq {"found", "twice", "torn", "gone"} \X Topics
  BY DEF TypeOK
<1>2. pub_count' \in [Idx -> (0 .. MaxU16) \cup {None}]
  BY IdxFacts DEF TypeOK
<1>3. UNCHANGED <<next, lists, valued, next_sub, subscriptions, queues, pubs, subs, told, calls, cut>>
  BY DEF people
<1> QED
  BY <1>1, <1>2, <1>3 DEF TypeOK, TaskStates

\* The parser releases topic i, the only count of which it has.
LEMMA ReleaseLast ==
  ASSUME IInv, Release, NEW i \in Idx, i = task[Parser].idx, pub_count[i] = 1,
         NEW x \in Topics, topics[i] = Name(x)
  PROVE  IInv'
<1> DEFINE pub == <<"$pub", x>>
           sub == <<"$sub", x>>
           p   == topic_map[pub]
           q   == topic_map[sub]
<1>1. /\ At(Parser, "release") /\ Parser \in Tasks /\ task[Parser] \in TaskStates
      /\ task \in [Tasks -> TaskStates] /\ Held(i) /\ TypeOK
      /\ \A u \in Tasks : ~(task[u].at \in {"count", "map"} /\ task[u].idx = i)
      /\ \A k : ~Creates(Parser, k)
  BY ReleaseFacts, TaskFacts DEF Release
<1>2. /\ Name(x) # None /\ Name(x)[2] = x /\ Name(x) \in Names /\ ~IsMeta(Name(x))
      /\ pub \in Names /\ sub \in Names /\ IsMeta(pub) /\ IsMeta(sub) /\ pub[2] = x /\ sub[2] = x
      /\ MetasOf(x) = {pub, sub} /\ pub # sub /\ pub # Name(x) /\ sub # Name(x)
      /\ \A m \in Names : m[2] = x => m \in {Name(x), pub, sub}
  <2>1. \A m \in Names : m[2] = x => m \in {Name(x), pub, sub}
    BY DEF Names, Name
  <2> QED
    BY <2>1, NameFacts DEF MetasOf, Name
<1>3. /\ pub_count' = [pub_count EXCEPT ![i] = 0]
      /\ met' = met \cup {<<"torn", x>> : t \in {t \in Handles : Creates(t, x)}} \cup
                        {<<"gone", x>> : t \in {t \in Handles : task[t].idx = i}}
      /\ UNCHANGED <<next, lists, valued, people, told, calls, cut>>
      /\ IF None \in {p, q}
         THEN /\ topics' = [topics EXCEPT ![i] = None]
              /\ topic_map' = [topic_map EXCEPT ![pub] = None]
              /\ Returns(Parser)
         ELSE /\ topics' = [j \in Idx |-> IF j \in {i, p, q} THEN None ELSE topics[j]]
              /\ topic_map' = [m \in Names |-> IF m[2] = x THEN None ELSE topic_map[m]]
              /\ Goes(Parser, [task[Parser] EXCEPT !.at = "cleanse", !.them = {i, p, q}])
  <2>1. 1 # None /\ 1 # 0
    BY RacesAssumption
  <2>2. topics[i][2] = x /\ topics[i] # None
    BY <1>2
  <2> HIDE DEF pub, sub
  <2>3. <<"$pub", topics[i][2]>> = pub /\ <<"$sub", topics[i][2]>> = sub
    BY <2>2 DEF pub, sub
  <2> USE DEF pub, sub
  <2> QED
    BY <2>1, <2>2, <2>3 DEF Release
<1> HIDE DEF pub, sub
<1>4. met \subseteq met' /\ \A u \in Tasks : Creates(u, x) => IsTorn(x)'
  <2> DEFINE torn == {<<"torn", x>> : t \in {t \in Handles : Creates(t, x)}}
  <2>1. ASSUME NEW u \in Tasks, Creates(u, x) PROVE <<"torn", x>> \in torn
    <3>1. u \in Handles
      BY <1>1, <2>1 DEF Tasks
    <3> QED
      BY <2>1, <3>1
  <2>2. met \subseteq met' /\ torn \subseteq met'
    BY <1>3
  <2> HIDE DEF torn
  <2> QED
    BY <2>1, <2>2 DEF IsTorn
<1>5. i < next
  BY <1>2 DEF IInv, Fresh
<1>6. CASE None \in {p, q}
  <2>1. /\ topics' = [topics EXCEPT ![i] = None]
        /\ topic_map' = [topic_map EXCEPT ![pub] = None]
        /\ Returns(Parser)
    BY <1>3, <1>6
  <2>2. topics' = [j \in Idx |-> IF j \in {i} THEN None ELSE topics[j]]
    BY <1>1, <2>1 DEF TypeOK
  <2>3. /\ topic_map'[pub] = None /\ topic_map'[Name(x)] = topic_map[Name(x)]
        /\ \A m \in Names : m # pub => topic_map'[m] = topic_map[m]
    BY <1>1, <1>2, <2>1 DEF TypeOK
  <2>4. \A m \in Names : topic_map'[m] \in {i} => m = Name(x)
    <3>1. SUFFICES ASSUME NEW m \in Names, topic_map'[m] = i PROVE m = Name(x)
      OBVIOUS
    <3>2. topic_map[m] = i
      BY <2>3, <3>1, IdxFacts
    <3> QED
      BY <1>2, <3>2, LeadsBack
  <2>5. topic_map[Name(x)] # None => IsTorn(x)'
    <3>1. SUFFICES ASSUME topic_map[Name(x)] # None, ~IsTorn(x) PROVE \E u \in Tasks : Creates(u, x)
      BY <1>4, TornStays
    <3>2. \E n \in MetasOf(x) : topic_map[n] = None
      BY <1>2, <1>6
    <3> QED
      BY <3>1, <3>2 DEF IInv, TablesInv, Whole
  <2>6. met' # {}
    <3>1. SUFFICES ASSUME met' = {} PROVE FALSE
      OBVIOUS
    <3>2. ~IsTorn(x) /\ ~IsTwice(x) /\ ~IsTorn(x)'
      BY <1>4, <3>1 DEF IsTorn, IsTwice
    <3>3. topic_map[Name(x)] = i
      BY <1>1, <3>2 DEF IInv, TablesInv, Once
    <3> QED
      BY <2>5, <3>2, <3>3, IdxFacts
  <2>7. TypeOK'
    <3>1. /\ topics' \in [Idx -> Names \cup {None}]
          /\ topic_map' \in [Names -> Idx \cup {None}]
      BY <1>1, <2>1 DEF TypeOK
    <3>2. task' \in [Tasks -> TaskStates]
      BY <1>1, <2>1, GoesTo, IdleFacts DEF Returns
    <3> QED
      BY <1>1, <1>3, <3>1, <3>2, TypeAfterRelease
  <2>8. Removal(i, x, {i})
    BY <1>1, <1>2, <1>3, <1>5, <2>1, <2>2, <2>3, <2>4, <2>5, <2>6 DEF Removal
  <2> QED
    BY <2>7, <2>8, RemovalSound
<1>7. CASE None \notin {p, q}
  <2> DEFINE gone == {i, p, q}
  <2>1. /\ topics' = [j \in Idx |-> IF j \in gone THEN None ELSE topics[j]]
        /\ topic_map' = [m \in Names |-> IF m[2] = x THEN None ELSE topic_map[m]]
        /\ Goes(Parser, [task[Parser] EXCEPT !.at = "cleanse", !.them = gone])
    BY <1>3, <1>7
  <2>2. /\ p \in Idx /\ q \in Idx /\ topics[p] = pub /\ topics[q] = sub
        /\ p < next /\ q < next
    BY <1>1, <1>2, <1>7 DEF IInv, TablesInv, Named, Fresh, TypeOK
  <2>3. /\ i \in gone /\ gone \subseteq Idx
        /\ \A j \in gone : /\ topics[j] \in Names /\ topics[j][2] = x /\ j < next
                           /\ j # i => IsMeta(topics[j]) /\ topic_map[topics[j]] = j
    BY <1>2, <1>5, <2>2
  <2> HIDE DEF gone, p, q
  <2>4. topic_map'[Name(x)] = None
    BY <1>2, <2>1
  <2>5. \A m \in Names : topic_map'[m] = topic_map[m] \/ (topic_map'[m] = None /\ m[2] = x)
    BY <2>1
  <2>6. ASSUME NEW m \in Names, topic_map'[m] \in gone PROVE m = Name(x)
    <3>1. topic_map'[m] # None
      BY <2>3, <2>6, IdxFacts
    <3>2. m[2] # x /\ topic_map[m] \in gone
      BY <2>1, <2>6, <3>1
    <3>3. PICK k \in gone : k = topic_map[m]
      BY <3>2
    <3>4. topics[k] \in Names /\ topics[k][2] = x /\ k \in Idx
      BY <2>3, <3>3
    <3>5. topics[k] = m
      BY <3>3, <3>4, LeadsBack, NameFacts
    <3> QED
      BY <3>2, <3>4, <3>5
  <2>7. TypeOK'
    <3>1. /\ topics' \in [Idx -> Names \cup {None}]
          /\ topic_map' \in [Names -> Idx \cup {None}]
      BY <1>1, <2>1 DEF TypeOK
    <3>2. [task[Parser] EXCEPT !.at = "cleanse", !.them = gone] \in TaskStates
      BY <1>1, <2>3 DEF TaskStates, Stages
    <3>3. task' \in [Tasks -> TaskStates]
      BY <1>1, <2>1, <3>2, GoesTo
    <3> QED
      BY <1>1, <1>3, <3>1, <3>3, TypeAfterRelease
  <2>8. Removal(i, x, gone)
    BY <1>1, <1>3, <2>1, <2>3, <2>4, <2>5, <2>6 DEF Removal
  <2> QED
    BY <2>7, <2>8, RemovalSound
<1> QED
  BY <1>6, <1>7

LEMMA ReleaseSound ==
  ASSUME IInv, Release
  PROVE  IInv'
<1>1. PICK i \in Idx : i = task[Parser].idx
  BY ReleaseFacts DEF Release
<1>2. /\ At(Parser, "release") /\ TypeOK
      /\ topics[i] # None => \E x \in Topics : topics[i] = Name(x)
      /\ topics[i] = None /\ met = {} => pub_count[i] = None
      /\ \A u \in Tasks : ~(task[u].at \in {"count", "map"} /\ task[u].idx = i)
      /\ UNCHANGED <<next, lists, valued, people, told, calls, cut>>
  BY <1>1, ReleaseFacts, TaskFacts DEF Release, IInv
<1>3. pub_count[i] \in (0 .. MaxU16) \cup {None} /\ None \notin Nat /\ MaxU16 \in Nat \ {0}
  BY <1>2, RacesAssumption DEF TypeOK
<1>4. pub_count[i] = 0 => topics[i] = None /\ met # {}
  <2>1. SUFFICES ASSUME pub_count[i] = 0 PROVE topics[i] = None
    BY <1>2, <1>3
  <2> QED
    BY <1>2, <2>1 DEF IInv, TablesInv, Counted
<1>5. CASE pub_count[i] = None
  <2> pub_count[i] # 0 /\ pub_count[i] # 1
    BY <1>3, <1>5
  <2>1. Returns(Parser) /\ UNCHANGED <<pub_count, topics, topic_map, met>>
    BY <1>1, <1>5 DEF Release
  <2>2. pub_count' = [pub_count EXCEPT ![i] = pub_count[i]]
    BY <1>2, <2>1 DEF TypeOK
  <2> QED
    BY <1>1, <1>2, <1>3, <2>1, <2>2, ReleaseQuiet
<1>6. CASE pub_count[i] = 0
  <2>1. /\ \/ Panics(Parser) /\ UNCHANGED pub_count
           \/ Returns(Parser) /\ pub_count' = [pub_count EXCEPT ![i] = MaxU16]
        /\ UNCHANGED <<topics, topic_map, met>>
    BY <1>1, <1>3, <1>6 DEF Release
  <2>2. PICK v \in (0 .. MaxU16) \cup {None} :
          /\ pub_count' = [pub_count EXCEPT ![i] = v]
          /\ v = pub_count[i] \/ v = MaxU16
          /\ Returns(Parser) \/ (Panics(Parser) /\ met # {})
    <3>1. CASE Panics(Parser) /\ UNCHANGED pub_count
      <4>1. pub_count' = [pub_count EXCEPT ![i] = pub_count[i]]
        BY <1>2, <3>1 DEF TypeOK
      <4> QED
        BY <1>3, <1>4, <1>6, <3>1, <4>1
    <3>2. CASE Returns(Parser) /\ pub_count' = [pub_count EXCEPT ![i] = MaxU16]
      <4>1. MaxU16 \in 0 .. MaxU16
        BY <1>3
      <4> QED
        BY <3>2, <4>1
    <3> QED
      BY <2>1, <3>1, <3>2
  <2> QED
    BY <1>1, <1>2, <1>4, <1>6, <2>1, <2>2, ReleaseQuiet
<1>7. CASE pub_count[i] \notin {None, 0, 1}
  <2>1. /\ Returns(Parser) /\ pub_count' = [pub_count EXCEPT ![i] = pub_count[i] - 1]
        /\ UNCHANGED <<topics, topic_map, met>>
    BY <1>1, <1>3, <1>7 DEF Release
  <2>2. pub_count[i] - 1 \in 0 .. MaxU16 /\ pub_count[i] - 1 \notin {None, 0}
    BY <1>3, <1>7
  <2>3. topics[i] = None => met # {}
    BY <1>2, <1>7
  <2> QED
    BY <1>1, <1>2, <2>1, <2>2, <2>3, ReleaseQuiet
<1>8. CASE pub_count[i] = 1
  <2>1. 1 # None /\ 0 \in 0 .. MaxU16
    BY <1>3
  <2>2. CASE topics[i] = None
    <3>1. /\ Returns(Parser) /\ pub_count' = [pub_count EXCEPT ![i] = 0]
          /\ UNCHANGED <<topics, topic_map, met>>
      BY <1>1, <1>8, <2>1, <2>2 DEF Release
    <3>2. met # {}
      BY <1>2, <1>8, <2>1, <2>2
    <3> QED
      BY <1>1, <1>2, <2>1, <2>2, <3>1, <3>2, ReleaseQuiet
  <2>3. CASE topics[i] # None
    BY <1>1, <1>2, <1>8, <2>3, ReleaseLast
  <2> QED
    BY <2>2, <2>3
<1> QED
  BY <1>5, <1>6, <1>7, <1>8

LEMMA CleanseSound ==
  ASSUME IInv, Cleanse
  PROVE  IInv'
<1> DEFINE gone == task[Parser].them
<1>1. Parser \in Tasks /\ Handles \subseteq Tasks
  BY DEF Tasks
<1>2. PICK i \in Idx : i = task[Parser].idx
  BY <1>1, TaskFacts DEF Cleanse, At, Shaped, TaskStates
<1>3. /\ task[Parser] \in TaskStates /\ task \in [Tasks -> TaskStates] /\ TypeOK /\ Base
      /\ task[Parser].at = "cleanse" /\ task[Parser].main = None /\ i # None
  BY <1>1, TaskFacts, IdxFacts DEF Cleanse, At, Shaped, Steps, Adding
<1>4. /\ lists' = [j \in Idx |-> IF j \in gone THEN None ELSE lists[j]]
      /\ valued' = valued \ {i} /\ pub_count' = [pub_count EXCEPT ![i] = None]
      /\ Returns(Parser)
      /\ UNCHANGED <<topics, next, topic_map, people, told, calls, met, cut>>
  BY <1>2 DEF Cleanse
<1>5. /\ task' \in [Tasks -> TaskStates] /\ task'[Parser] = Idle
      /\ \A u \in Tasks : u # Parser => task'[u] = task[u]
  BY <1>1, <1>3, <1>4, GoesTo, IdleFacts DEF Returns
<1>6. /\ i \in gone /\ \A j \in gone : j \in Idx /\ topics[j] = None
  BY <1>2, <1>3 DEF IInv, TablesInv, Going, At
<1> HIDE DEF gone
<1>7. TypeOK'
  <2>1. lists' \in [Idx -> (SUBSET Sub) \cup {None}]
    BY <1>3, <1>4 DEF TypeOK
  <2>2. pub_count' \in [Idx -> (0 .. MaxU16) \cup {None}] /\ valued' \subseteq Idx
    BY <1>3, <1>4 DEF TypeOK
  <2> QED
    BY <1>3, <1>4, <1>5, <2>1, <2>2 DEF TypeOK, TaskStates, people
<1>8. Base'
  <2>1. Shaped(Parser)'
    BY <1>5, IdleFacts DEF Shaped, Steps, Adding
  <2> QED
    BY <1>1, <1>3, <1>5, <1>7, <2>1, BaseAfter
<1>9. \A k : /\ ~Making(Parser, k) /\ ~Creates(Parser, k) /\ ~Holds(Parser, k)
             /\ ~Making(Parser, k)' /\ ~Creates(Parser, k)' /\ ~Holds(Parser, k)'
  BY <1>3, <1>5, IdleFacts DEF Making, Creates, Holds, Busy, Adding
<1>10. /\ \A k : \A u \in Tasks : (Making(u, k)' <=> Making(u, k)) /\ (Holds(u, k)' <=> Holds(u, k))
       /\ \A y : \A u \in Tasks : Creates(u, y)' <=> Creates(u, y)
  BY <1>5, <1>9, SameTask
<1>11. \A k : Held(k)' <=> Held(k)
  BY <1>4, <1>10 DEF Held, people
<1>12. UNCHANGED <<topics, next, topic_map, next_sub, subscriptions, queues, pubs, subs, told, met, cut>>
  BY <1>4 DEF people
<1>13. /\ \A j \in Idx : j \notin gone => lists'[j] = lists[j] /\ pub_count'[j] = pub_count[j]
       /\ \A j \in Idx : lists'[j] # None => lists'[j] = lists[j]
       /\ pub_count'[i] = None
       /\ \A j \in Idx : pub_count'[j] \in {pub_count[j], None}
  BY <1>3, <1>4, <1>6 DEF TypeOK
<1>14. \A u \in Tasks : task[u].at \in Busy \/ task'[u].at \in Busy => task'[u] = task[u]
  BY <1>3, <1>5, IdleFacts DEF Busy
<1>15. ~At(Parser, "cleanse")'
  BY <1>5, IdleFacts DEF At
<1>16. ASSUME NEW u \in Tasks PROVE NamedTask(u)' /\ SoFar(u)' /\ CalmTask(u)'
  <2>1. CASE u = Parser
    BY <1>5, <1>9, <2>1, IdleFacts DEF NamedTask, SoFar, CalmTask, At
  <2>2. CASE u # Parser
    <3>1. /\ task'[u] = task[u] /\ NamedTask(u) /\ SoFar(u) /\ CalmTask(u) /\ u \in Handles
          /\ Shaped(u) /\ task[u] \in TaskStates
      BY <1>5, <2>2, TaskFacts DEF Tasks
    <3>2. NamedTask(u)'
      BY <1>12, <3>1 DEF NamedTask, Holds
    <3>3. SoFar(u)'
      BY <1>10, <1>12, <3>1 DEF SoFar, IsTorn
    <3>4. CalmTask(u)'
      <4>1. SUFFICES ASSUME met = {}, task[u].at \in {"queue", "panicked"}
            PROVE  /\ lists'[task[u].idx] # None
                   /\ task[u].at = "panicked" => lists'[task[u].idx] \cap cut # {}
        BY <1>12, <3>1 DEF CalmTask, At
      <4>2. /\ lists[task[u].idx] # None
            /\ task[u].at = "panicked" => lists[task[u].idx] \cap cut # {}
        BY <3>1, <4>1 DEF CalmTask, At
      <4>3. task[u].idx \in Idx /\ Holds(u, task[u].idx)
        BY <3>1, <4>1 DEF Shaped, TaskStates, Holds
      <4>4. task[u].idx \notin gone
        BY <1>3, <3>1, <4>1, <4>3 DEF IInv, Apart, At, gone
      <4> QED
        BY <1>13, <4>2, <4>3, <4>4
    <3> QED
      BY <3>2, <3>3, <3>4
  <2> QED
    BY <2>1, <2>2
<1>17. TasksInv'
  BY <1>8, <1>16 DEF TasksInv, Base
<1>18. Named'
  BY <1>11, <1>12, <1>16 DEF IInv, TablesInv, Named, Ordinary
<1>19. Owners'
  BY <1>10 DEF IInv, TablesInv, Owners
<1>20. Unmapped'
  BY <1>11, <1>12, <1>14 DEF IInv, TablesInv, Unmapped, Busy
<1>21. Counted'
  <2>1. \A j \in Idx : topics[j] # None => lists'[j] = lists[j] /\ pub_count'[j] = pub_count[j]
    BY <1>6, <1>13
  <2> QED
    BY <1>12, <1>14, <2>1 DEF IInv, TablesInv, Counted, Busy
<1>22. Going'
  BY <1>15 DEF Going
<1>23. Whole'
  BY <1>10, <1>12 DEF IInv, TablesInv, Whole, IsTorn
<1>24. Once'
  <2>1. \A u \in Tasks : task[u].at \in {"count", "map"} \/ task'[u].at \in {"count", "map"} =>
          task'[u] = task[u]
    BY <1>14 DEF Busy
  <2> QED
    BY <1>12, <2>1 DEF IInv, TablesInv, Once, IsTorn, IsTwice
<1>25. Fresh'
  <2>1. ASSUME NEW u \in Tasks
        PROVE  /\ task'[u].idx # None => task'[u].idx < next
               /\ task'[u].main # None => task'[u].main < next
    <3>1. CASE u = Parser
      BY <1>5, <3>1, IdleFacts
    <3>2. CASE u # Parser
      BY <1>5, <3>2 DEF IInv, Fresh
    <3> QED
      BY <3>1, <3>2
  <2> QED
    BY <1>12, <2>1 DEF IInv, Fresh
<1>26. FreshSubs' /\ Listed'
  BY <1>12, <1>13 DEF IInv, FreshSubs, Listed, Torn
<1>27. Apart'
  <2>1. SUFFICES ASSUME met = {}
        PROVE  /\ \A k \in Idx : Held(k) => \A u \in Tasks : ~Making(u, k)
               /\ \A k \in Idx : topics[k] = None /\ Held(k) => pub_count'[k] = None
    BY <1>10, <1>11, <1>12, <1>15 DEF Apart
  <2> QED
    BY <1>2, <1>13, <2>1 DEF IInv, Apart
<1>28. SubscriberToldOrAboutToBe'
  <2>1. SUFFICES ASSUME NEW m \in Names, NEW v \in Sub, NEW k \in Idx, k = topic_map[m],
                        topics[k] # None, subscriptions[v] # None,
                        m \in Matches[subscriptions[v].pattern]
        PROVE  <<subscriptions[v].client, k>> \in told \/ \E u \in Tasks : About(u, v, k)'
    BY <1>7, <1>12, ToldByIndex
  <2>2. Covers(v, m) /\ k # None
    BY <2>1, IdxFacts DEF Covers
  <2>3. <<subscriptions[v].client, k>> \in told \/ \E u \in Tasks : About(u, v, k)
    BY <2>1, <2>2, ToldOrAbout DEF IInv
  <2>4. ASSUME NEW u \in Tasks, About(u, v, k) PROVE About(u, v, k)'
    <3>1. u # Parser
      BY <1>3, <2>2, <2>4 DEF About, At
    <3> QED
      BY <1>5, <1>12, <2>4, <3>1 DEF About, At
  <2> QED
    BY <2>3, <2>4
<1>29. ValueOnlyAfterAnnounce'
  BY <1>12, QueuesSame
<1> QED
  BY <1>7, <1>17, <1>18, <1>19, <1>20, <1>21, <1>22, <1>23, <1>24, <1>25, <1>26, <1>27, <1>28, <1>29
  DEF IInv, TablesInv

--------------------------------------------------------------------------------
\* The invariant

LEMMA InitSound ==
  ASSUME Init
  PROVE  IInv
<1>1. task \in [Tasks -> TaskStates] /\ \A t \in Tasks : task[t] = Idle
  BY IdleFacts DEF Init
<1>2. /\ \A t \in Tasks : /\ task[t].at = "idle" /\ task[t].idx = None /\ task[t].main = None
                          /\ task[t].name = None /\ ~At(t, "cleanse")
      /\ ~At(Parser, "cleanse")
  BY <1>1, IdleFacts DEF At, Tasks
<1>3. /\ \A i \in Idx : topics[i] = None /\ lists[i] = None
      /\ \A n \in Names : topic_map[n] = None
      /\ \A s \in Sub : subscriptions[s] = None /\ queues[s] = None
      /\ \A c \in Clients : pubs[c] = None /\ subs[c] = None
      /\ met = {} /\ cut = {} /\ next = 0 /\ next_sub = 0
  BY DEF Init
<1>4. TypeOK
  BY <1>1, IdxFacts DEF Init, TypeOK, TaskStates
<1>5. \A i : \A t \in Tasks : ~Making(t, i) /\ ~Holds(t, i) /\ ~Creates(t, i)
  BY <1>2 DEF Making, Holds, Creates, Busy, Adding
<1>6. \A i \in Idx : ~Held(i)
  BY <1>3, <1>5, IdxFacts DEF Held
<1>7. TasksInv
  <2>1. ASSUME NEW t \in Tasks PROVE Shaped(t) /\ SoFar(t) /\ CalmTask(t)
    <3>1. Shaped(t)
      BY <1>2 DEF Shaped, Steps, Adding
    <3>2. SoFar(t) /\ CalmTask(t)
      BY <1>2, <1>5 DEF SoFar, CalmTask, At
    <3> QED
      BY <3>1, <3>2
  <2> QED
    BY <2>1 DEF TasksInv
<1>8. Fresh /\ FreshSubs
  BY <1>2, <1>3 DEF Fresh, FreshSubs
<1>9. Named
  BY <1>2, <1>3, <1>5, <1>6 DEF Named, NamedTask
<1>10. Owners /\ Unmapped /\ Counted /\ Going /\ Whole
  BY <1>2, <1>3, <1>5, NameFacts DEF Owners, Unmapped, Counted, Going, Whole
<1>11. Once
  BY <1>2, <1>3, NameFacts DEF Once
<1>12. Listed /\ Apart
  BY <1>2, <1>3, <1>5, <1>6 DEF Listed, Apart
<1>13. SubscriberToldOrAboutToBe /\ ValueOnlyAfterAnnounce
  BY <1>3 DEF SubscriberToldOrAboutToBe, ValueOnlyAfterAnnounce
<1> QED
  BY <1>4, <1>7, <1>8, <1>9, <1>10, <1>11, <1>12, <1>13 DEF IInv, TablesInv

LEMMA TaskStepSound ==
  ASSUME IInv, NEW t \in Tasks, TaskStep(t)
  PROVE  IInv'
BY LookSound, InsertSound, CountSound, MapSound, ListSound, AnnounceSound, RespondSound,
   AudienceSound, TellSound, RegisterSound, CheckSound, QueueSound, StoreSound
DEF TaskStep

LEMMA StutterSound ==
  ASSUME IInv, UNCHANGED vars
  PROVE  IInv'
<1>1. UNCHANGED <<topics, next, pub_count, topic_map, lists, valued, next_sub, subscriptions,
                  queues, pubs, subs, told, task, calls, met, cut>>
  BY DEF vars, tables, people
<1>2. TypeOK'
  BY <1>1 DEF IInv, TypeOK
<1>3. TasksInv'
  BY <1>1 DEF IInv, TasksInv, Shaped, SoFar, CalmTask, Creates, At, IsTorn
<1>4. Fresh' /\ FreshSubs'
  BY <1>1 DEF IInv, Fresh, FreshSubs
<1>5. Named'
  BY <1>1 DEF IInv, TablesInv, Named, NamedTask, Held, Holds, Ordinary
<1>6. Owners' /\ Unmapped' /\ Counted' /\ Going'
  BY <1>1 DEF IInv, TablesInv, Owners, Unmapped, Counted, Going, Making, Held, Holds, At
<1>7. Whole' /\ Once'
  BY <1>1 DEF IInv, TablesInv, Whole, Once, Creates, IsTorn, IsTwice
<1>8. Listed' /\ Apart'
  BY <1>1 DEF IInv, Listed, Apart, Torn, Held, Holds, Making, At
<1>9. SubscriberToldOrAboutToBe' /\ ValueOnlyAfterAnnounce'
  BY <1>1 DEF IInv, SubscriberToldOrAboutToBe, ValueOnlyAfterAnnounce, Torn, At
<1> QED
  BY <1>2, <1>3, <1>4, <1>5, <1>6, <1>7, <1>8, <1>9 DEF IInv, TablesInv

LEMMA NextSound ==
  ASSUME IInv, [Next]_vars
  PROVE  IInv'
<1>1. ASSUME NEW t \in Tasks, TaskStep(t) PROVE IInv'
  BY <1>1, TaskStepSound
<1>2. ASSUME NEW x \in Topics, NEW c \in Clients, Publish(Parser, c, x) PROVE IInv'
  BY <1>2, PublishSound DEF Tasks
<1>3. ASSUME NEW x \in Topics, NEW t \in Handles, Publish(t, Server, x) PROVE IInv'
  BY <1>3, PublishSound DEF Tasks
<1>4. ASSUME NEW c \in Clients, SetValue(c) \/ Unpublish(c) \/ Unsubscribe(c) PROVE IInv'
  BY <1>4, SetValueSound, UnpublishSound, UnsubscribeSound
<1>5. CASE Release \/ Cleanse
  BY <1>5, ReleaseSound, CleanseSound
<1>6. ASSUME NEW c \in Clients, NEW pat \in Patterns, Subscribe(c, pat) PROVE IInv'
  BY <1>6, SubscribeSound
<1>7. CASE UNCHANGED vars
  BY <1>7, StutterSound
<1> QED
  BY <1>1, <1>2, <1>3, <1>4, <1>5, <1>6, <1>7 DEF Next

\* The invariant of the whole, from which the theorems below follow: what each task
\* is about to do, with the index and the name it keeps while no lock is held, still
\* fits the tables that the others have changed meanwhile.
THEOREM Invariant == Spec => []IInv
<1>1. Init => IInv
  BY InitSound
<1>2. IInv /\ [Next]_vars => IInv'
  BY NextSound
<1> QED
  BY <1>1, <1>2, PTL DEF Spec

\* Whatever publish_topic, set_value, subscribe and unpublish_topic do between one lock
\* and the next, every table and every task's state keeps its type; a pub_count stays
\* in the width of its u16 although the decrement may wrap.
THEOREM TypeCorrect == Spec => []TypeOK
<1>1. IInv => TypeOK
  BY DEF IInv
<1> QED
  BY <1>1, Invariant, PTL

\* subscribe answers from the tables while add_topic announces to the subscriptions:
\* whichever takes its locks first, no client that covers a topic is passed over.
THEOREM ToldOrAboutToBe == Spec => []SubscriberToldOrAboutToBe
<1>1. IInv => SubscriberToldOrAboutToBe
  BY DEF IInv
<1> QED
  BY <1>1, Invariant, PTL

\* set_value queues a topic's value for a subscription only when the announce with the
\* topic's id went to its client before, unless remove_topic overtook add_topic.
THEOREM ValuesFollowAnnounces == Spec => []ValueOnlyAfterAnnounce
<1>1. IInv => ValueOnlyAfterAnnounce
  BY DEF IInv
<1> QED
  BY <1>1, Invariant, PTL

\* While nobody is inside add_topic or remove_topic for a name, topics, topic_map,
\* pub_count and topic_sub_map agree about it and its two metatopics, unless two tasks
\* inserted it or remove_topic overtook its add_topic.
THEOREM TablesAgreeAtRest == Spec => []TablesAgree
<1>1. ASSUME IInv PROVE TablesAgree
  <2>1. SUFFICES ASSUME NEW x \in Topics, ~IsTwice(x), ~IsTorn(x), \A t \in Tasks : ~Creates(t, x)
        PROVE  /\ \A j \in Idx : topics[j] = Name(x) => topic_map[Name(x)] = j
               /\ topic_map[Name(x)] # None =>
                    /\ \A n \in {Name(x)} \cup MetasOf(x) : Mapped(n)
                    /\ pub_count[topic_map[Name(x)]] \notin {None, 0}
                    /\ \A n \in {Name(x)} \cup MetasOf(x) : lists[topic_map[n]] # None
    BY DEF TablesAgree, IsTorn, IsTwice
  <2>2. \A n \in {Name(x)} \cup MetasOf(x) : n \in Names /\ n # None /\ n[2] = x
    BY NameFacts
  <2>3. ASSUME NEW j \in Idx, NEW n \in {Name(x)} \cup MetasOf(x), topics[j] = n,
               NEW t \in Tasks, task[t].at \in Busy, task[t].idx = j
        PROVE  FALSE
    <3>1. /\ Shaped(t) /\ NamedTask(t) /\ j # None
      BY <1>1, TaskFacts, IdxFacts
    <3>2. task[t].name # None
      BY <2>3, <3>1 DEF Shaped, Busy, Adding
    <3>3. task[t].name = n
      BY <2>2, <2>3, <3>1, <3>2 DEF NamedTask
    <3>4. Creates(t, x)
      BY <2>2, <2>3, <3>2, <3>3 DEF Creates, Busy, Adding
    <3> QED
      BY <2>1, <3>4
  <2>4. ASSUME NEW j \in Idx, topics[j] = Name(x) PROVE topic_map[Name(x)] = j
    <3>1. ~\E t \in Tasks : task[t].at \in {"count", "map"} /\ task[t].idx = j
      BY <2>3, <2>4 DEF Busy
    <3> QED
      BY <1>1, <2>1, <2>4, <3>1 DEF IInv, TablesInv, Once
  <2>5. ASSUME topic_map[Name(x)] # None, NEW n \in {Name(x)} \cup MetasOf(x)
        PROVE  /\ Mapped(n) /\ lists[topic_map[n]] # None
               /\ pub_count[topic_map[n]] \notin {None, 0}
    <3>1. topic_map[n] # None /\ topics[topic_map[n]] = n
      BY <1>1, <2>1, <2>2, <2>5 DEF IInv, TablesInv, Whole
    <3>2. PICK j \in Idx : j = topic_map[n]
      BY <1>1, <2>2, <3>1 DEF IInv, TypeOK
    <3>3. \A t \in Tasks : ~(task[t].at \in Busy /\ task[t].idx = j)
      BY <2>3, <3>1, <3>2
    <3>4. lists[j] # None /\ pub_count[j] \notin {None, 0}
      BY <1>1, <2>2, <3>1, <3>2, <3>3 DEF IInv, TablesInv, Counted, Busy
    <3> QED
      BY <3>1, <3>2, <3>4 DEF Mapped
  <2> QED
    BY <2>4, <2>5
<1> QED
  BY <1>1, Invariant, PTL

\* set_value unwraps topic_sub_map and sub_values without topics held: it panics only
\* when the topic was found before its creator had finished, was inserted twice or
\* removed meanwhile, or a subscribe was cut short with its index in the topic's list.
THEOREM PanicsAreRaces == Spec => []PanicsNeedARace
<1>1. ASSUME IInv PROVE PanicsNeedARace
  <2>1. SUFFICES ASSUME NEW t \in Tasks, At(t, "panicked"), met = {}
        PROVE  \E i \in Idx : lists[i] # None /\ lists[i] \cap cut # {}
    BY DEF PanicsNeedARace
  <2>2. Shaped(t) /\ CalmTask(t) /\ task[t] \in TaskStates
    BY <1>1, TaskFacts
  <2>3. task[t].idx \in Idx
    BY <2>1, <2>2 DEF Shaped, TaskStates, At
  <2> QED
    BY <2>1, <2>2, <2>3 DEF CalmTask
<1> QED
  BY <1>1, Invariant, PTL
================================================================================
