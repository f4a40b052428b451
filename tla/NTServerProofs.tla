----------------------------- MODULE NTServerProofs -----------------------------
(***************************************************************************)
(* What InnerServer keeps true for any number of clients, topics,          *)
(* publishers and subscriptions: its tables have their types, no unwrap of *)
(* set_value, subscribe or send_out panics, a topic that is there counts   *)
(* one or two publishers, and topic ids are never reused.                  *)
(*                                                                         *)
(* The first part is about the topic tables alone: what they keep true     *)
(* whatever topics are added and removed, in whichever order and however   *)
(* far a removal got.  The second is about the whole server.               *)
(***************************************************************************)
EXTENDS NTServer, FiniteSetTheorems, TLAPS

--------------------------------------------------------------------------------
\* The topic tables

\* No table knows an index that has not been handed out.
Unused(r, i) ==
  /\ r.topics[i] = None
  /\ r.pub_count[i] = None
  /\ r.topic_sub_map[i] = None
  /\ i \notin r.valued

OnlyHandedOut(r) ==
  /\ \A i \in TopicIdx : i >= r.next => Unused(r, i)
  /\ \A n \in Names : r.topic_map[n] # None => r.topic_map[n] < r.next

\* Two names never share an index.
OneNamePerIndex(r) ==
  \A m, n \in Names : r.topic_map[m] = r.topic_map[n] /\ r.topic_map[m] # None => m = n

\* A name leads to its own topic, if the topic is still there.
NamesAgree(r) ==
  \A n \in Names :
    r.topic_map[n] # None /\ r.topics[r.topic_map[n]] # None =>
      r.topics[r.topic_map[n]] = n

\* topics and topic_map know no index without a list of subscriptions.
HasVector(r) ==
  /\ \A i \in TopicIdx : r.topics[i] # None => r.topic_sub_map[i] # None
  /\ \A n \in Names : r.topic_map[n] # None => r.topic_sub_map[r.topic_map[n]] # None

\* Counts of topics that are there are 1 or 2.
Counted(r) ==
  \A i \in TopicIdx : r.topics[i] # None => r.pub_count[i] \in 1 .. 2

\* All of it except the counts, which are off while remove_topic runs.
TablesInv(r) ==
  /\ r \in Registry
  /\ OnlyHandedOut(r)
  /\ OneNamePerIndex(r)
  /\ NamesAgree(r)
  /\ HasVector(r)

RegistryInv(r) == TablesInv(r) /\ Counted(r)

--------------------------------------------------------------------------------

\* The names of a topic's metatopics are names, and no two of the three are equal.
LEMMA NameFacts ==
  ASSUME NEW n \in Names, ~IsMeta(n)
  PROVE  /\ MetaName("$pub", n) \in Names
         /\ MetaName("$sub", n) \in Names
         /\ MetaName("$pub", n) # MetaName("$sub", n)
         /\ MetaName("$pub", n) # n
         /\ MetaName("$sub", n) # n
         /\ IsMeta(MetaName("$pub", n))
         /\ IsMeta(MetaName("$sub", n))
<1>1. n \in OrdinaryNames
  BY DEF Names, IsMeta, OrdinaryNames, TopicMetas, ClientMetas, ServerMetas
<1>2. PICK x \in Topics : n = <<"topic", x>>
  BY <1>1 DEF OrdinaryNames
<1>3. /\ MetaName("$pub", n) = <<"$pub", x>>
      /\ MetaName("$sub", n) = <<"$sub", x>>
  BY <1>2 DEF MetaName
<1>4. <<"$pub", x>> \in TopicMetas /\ <<"$sub", x>> \in TopicMetas
  BY DEF TopicMetas
<1> QED
  BY <1>2, <1>3, <1>4 DEF Names, IsMeta

\* The fields of the tables have their types.
LEMMA RegistryFields ==
  ASSUME NEW r \in Registry
  PROVE  /\ r.topics \in [TopicIdx -> Names \cup {None}]
         /\ r.flags \in [TopicIdx -> SUBSET Flags]
         /\ r.topic_map \in [Names -> TopicIdx \cup {None}]
         /\ r.pub_count \in [TopicIdx -> (0 .. MaxU16) \cup {None}]
         /\ r.topic_sub_map \in [TopicIdx -> (SUBSET SubIdx) \cup {None}]
         /\ r.valued \in SUBSET TopicIdx
         /\ r.publishers \in [TopicIdx -> SUBSET (Names \X PubUIDs)]
         /\ r.next \in 0 .. MaxTopics
  BY DEF Registry

\* None is no index, no count, no name and no list of subscriptions.
LEMMA NoneIsNothing ==
  /\ None \notin Names
  /\ None \notin Nat
  /\ None \notin TopicIdx
  /\ None \notin 0 .. MaxU16
  /\ None \notin SUBSET SubIdx
<1>1. None \notin Names /\ None \notin Nat
  BY RegistryAssumption
<1>2. TopicIdx \subseteq Nat
  BY RegistryAssumption DEF TopicIdx
<1>3. 0 .. MaxU16 \subseteq Nat
  BY DEF MaxU16
<1>4. None \notin SUBSET SubIdx
  BY RegistryAssumption
<1> QED
  BY <1>1, <1>2, <1>3, <1>4

\* The index after the last one handed out, if there is one.
LEMMA NextIndex ==
  ASSUME NEW r \in Registry, r.next < MaxTopics
  PROVE  /\ r.next \in TopicIdx
         /\ r.next \in Nat
         /\ r.next + 1 \in 0 .. MaxTopics
         /\ TopicIdx \subseteq Nat
  BY RegistryAssumption DEF Registry, TopicIdx

\* add_topic's insertions for a new name keep the tables sound.
LEMMA InsertTopicInv ==
  ASSUME NEW r, RegistryInv(r), NEW n \in Names, NEW fl \in SUBSET Flags,
         r.topic_map[n] = None, r.next < MaxTopics
  PROVE  RegistryInv(InsertTopic(r, n, fl))
<1> DEFINE s == InsertTopic(r, n, fl)
<1>1. r \in Registry
  BY DEF RegistryInv, TablesInv
<1>2. /\ r.next \in TopicIdx
      /\ r.next \in Nat
      /\ r.next + 1 \in 0 .. MaxTopics
      /\ TopicIdx \subseteq Nat
  BY <1>1, NextIndex
<1>3. InitialCount(fl) \in 1 .. 2 /\ InitialCount(fl) \in 0 .. MaxU16
  BY DEF InitialCount, MaxU16
<1>4. s \in Registry
  BY <1>1, <1>2, <1>3 DEF Registry, InsertTopic
<1>5. /\ s.topics = [r.topics EXCEPT ![r.next] = n]
      /\ s.pub_count = [r.pub_count EXCEPT ![r.next] = InitialCount(fl)]
      /\ s.topic_map = [r.topic_map EXCEPT ![n] = r.next]
      /\ s.topic_sub_map = [r.topic_sub_map EXCEPT ![r.next] = {}]
      /\ s.valued = r.valued
      /\ s.next = r.next + 1
  BY <1>1 DEF InsertTopic, Registry
<1> USE <1>1, <1>2, <1>5, RegistryFields, NoneIsNothing
<1> HIDE DEF s
<1>6. OnlyHandedOut(s)
  <2>1. ASSUME NEW i \in TopicIdx, i >= s.next  PROVE Unused(s, i)
    <3>1. i >= r.next /\ i # r.next
      <4> i \in Nat
        OBVIOUS
      <4> QED
        BY <2>1
    <3>2. Unused(r, i)
      BY <3>1 DEF RegistryInv, TablesInv, OnlyHandedOut
    <3> QED
      BY <3>1, <3>2 DEF Unused
  <2>2. ASSUME NEW m \in Names, s.topic_map[m] # None  PROVE s.topic_map[m] < s.next
    <3>1. CASE m = n
      BY <3>1
    <3>2. CASE m # n
      <4>1. s.topic_map[m] = r.topic_map[m] /\ r.topic_map[m] \in TopicIdx
        BY <2>2, <3>2
      <4>2. r.topic_map[m] < r.next
        BY <2>2, <4>1 DEF RegistryInv, TablesInv, OnlyHandedOut
      <4>3. r.topic_map[m] \in Nat
        BY <4>1
      <4> QED
        BY <4>1, <4>2, <4>3
    <3> QED
      BY <3>1, <3>2
  <2> QED
    BY <2>1, <2>2 DEF OnlyHandedOut
<1>7. OneNamePerIndex(s)
  BY DEF RegistryInv, TablesInv, OnlyHandedOut, OneNamePerIndex
<1>8. NamesAgree(s)
  BY DEF RegistryInv, TablesInv, OnlyHandedOut, NamesAgree
<1>9. HasVector(s)
  <2>1. {} # None
    OBVIOUS
  <2>2. \A i \in TopicIdx : s.topics[i] # None => s.topic_sub_map[i] # None
    BY <2>1 DEF RegistryInv, TablesInv, HasVector
  <2>3. ASSUME NEW m \in Names, s.topic_map[m] # None
        PROVE  s.topic_sub_map[s.topic_map[m]] # None
    <3>1. CASE m = n
      BY <2>1, <3>1
    <3>2. CASE m # n
      <4>1. s.topic_map[m] = r.topic_map[m] /\ r.topic_map[m] \in TopicIdx
        BY <2>3, <3>2
      <4> QED
        BY <2>1, <2>3, <4>1 DEF RegistryInv, TablesInv, HasVector
    <3> QED
      BY <3>1, <3>2
  <2> QED
    BY <2>2, <2>3 DEF HasVector
<1>10. Counted(s)
  BY <1>3 DEF RegistryInv, TablesInv, Counted
<1> QED
  BY <1>4, <1>6, <1>7, <1>8, <1>9, <1>10 DEF s, RegistryInv, TablesInv

\* add_topic leaves the tables sound, finds the name a topic index, and touches no
\* other name and no topic that was there.
LEMMA EnsureTopicInv ==
  ASSUME NEW r, RegistryInv(r), NEW n \in Names, NEW fl \in SUBSET Flags,
         r.topic_map[n] = None => r.next < MaxTopics
  PROVE  /\ RegistryInv(EnsureTopic(r, n, fl))
         /\ EnsureTopic(r, n, fl).topic_map[n] \in TopicIdx
         /\ EnsureTopic(r, n, fl).next <= r.next + 1
         /\ \A m \in Names \ {n} :
              EnsureTopic(r, n, fl).topic_map[m] = r.topic_map[m]
<1>1. r \in Registry
  BY DEF RegistryInv, TablesInv
<1>2. CASE r.topic_map[n] # None
  <2>1. EnsureTopic(r, n, fl) = r
    BY <1>2 DEF EnsureTopic
  <2>2. r.topic_map[n] \in TopicIdx /\ r.next \in Nat
    BY <1>1, <1>2, RegistryFields, RegistryAssumption
  <2> QED
    BY <2>1, <2>2
<1>3. CASE r.topic_map[n] = None
  <2>1. EnsureTopic(r, n, fl) = InsertTopic(r, n, fl)
    BY <1>3 DEF EnsureTopic
  <2>2. RegistryInv(InsertTopic(r, n, fl))
    BY <1>3, InsertTopicInv
  <2>3. r.next \in TopicIdx /\ r.next \in Nat
    BY <1>1, <1>3, NextIndex
  <2>4. /\ InsertTopic(r, n, fl).topic_map = [r.topic_map EXCEPT ![n] = r.next]
        /\ InsertTopic(r, n, fl).next = r.next + 1
    BY <1>1 DEF InsertTopic, Registry
  <2> QED
    BY <1>1, <2>1, <2>2, <2>3, <2>4, RegistryFields
<1> QED
  BY <1>2, <1>3

\* Tables s are tables r with some entries taken out.
Shrunk(r, s) ==
  /\ \A j \in TopicIdx : s.topics[j] \in {r.topics[j], None}
  /\ \A n \in Names : s.topic_map[n] \in {r.topic_map[n], None}
  /\ \A j \in TopicIdx : s.topic_sub_map[j] \in {r.topic_sub_map[j], None}
  /\ s.valued \subseteq r.valued
  /\ \A j \in TopicIdx : r.pub_count[j] = None => s.pub_count[j] = None
  /\ s.next = r.next

\* Taking out topics, and no list of subscriptions that a remaining topic or name
\* needs, keeps the tables sound.
LEMMA TakeOutInv ==
  ASSUME NEW r, TablesInv(r), NEW s \in Registry, Shrunk(r, s),
         \A j \in TopicIdx : s.topics[j] # None => s.topic_sub_map[j] = r.topic_sub_map[j],
         \A n \in Names : s.topic_map[n] # None =>
           s.topic_sub_map[s.topic_map[n]] = r.topic_sub_map[s.topic_map[n]]
  PROVE  TablesInv(s)
<1>1. r \in Registry
  BY DEF TablesInv
<1> USE <1>1, RegistryFields
<1>2. OnlyHandedOut(s)
  <2>1. ASSUME NEW i \in TopicIdx, i >= s.next  PROVE Unused(s, i)
    <3>1. Unused(r, i)
      BY <2>1 DEF Shrunk, TablesInv, OnlyHandedOut
    <3> QED
      BY <3>1 DEF Unused, Shrunk
  <2>2. ASSUME NEW n \in Names, s.topic_map[n] # None  PROVE s.topic_map[n] < s.next
    BY <2>2 DEF Shrunk, TablesInv, OnlyHandedOut
  <2> QED
    BY <2>1, <2>2 DEF OnlyHandedOut
<1>3. OneNamePerIndex(s)
  BY DEF Shrunk, TablesInv, OneNamePerIndex
<1>4. NamesAgree(s)
  BY NoneIsNothing DEF Shrunk, TablesInv, NamesAgree
<1>5. HasVector(s)
  <2>1. ASSUME NEW j \in TopicIdx, s.topics[j] # None  PROVE s.topic_sub_map[j] # None
    BY <2>1 DEF Shrunk, TablesInv, HasVector
  <2>2. ASSUME NEW n \in Names, s.topic_map[n] # None
        PROVE  s.topic_sub_map[s.topic_map[n]] # None
    BY <2>2 DEF Shrunk, TablesInv, HasVector
  <2> QED
    BY <2>1, <2>2 DEF HasVector
<1> QED
  BY <1>2, <1>3, <1>4, <1>5 DEF TablesInv

\* However far remove_topic gets, it leaves the tables sound; it takes out topic i
\* and never puts anything in.
LEMMA RemoveTopicInv ==
  ASSUME NEW r, TablesInv(r), NEW i \in TopicIdx
  PROVE  /\ TablesInv(RemoveTopic(r, i))
         /\ RemoveTopic(r, i).topics[i] = None
         /\ Shrunk(r, RemoveTopic(r, i))
         /\ RemoveTopic(r, i).pub_count = r.pub_count
<1> DEFINE s == RemoveTopic(r, i)
           n == r.topics[i]
           p == MetaName("$pub", n)
           q == MetaName("$sub", n)
           V == {i, r.topic_map[p], r.topic_map[q]}
<1>1. r \in Registry
  BY DEF TablesInv
<1> USE <1>1, RegistryFields, NoneIsNothing
<1>2. CASE Removable(r, i)
  <2>1. s = WhollyRemoved(r, i)
    BY <1>2 DEF RemoveTopic
  <2>2. /\ n # None /\ ~IsMeta(n) /\ r.topic_map[p] # None /\ r.topic_map[q] # None
        /\ MetaIdx(r, "$pub", i) = r.topic_map[p]
        /\ MetaIdx(r, "$sub", i) = r.topic_map[q]
    BY <1>2 DEF Removable, MetaIdx
  <2>3. n \in Names /\ p \in Names /\ q \in Names
    BY <2>2, NameFacts
  <2>4. V \subseteq TopicIdx
    BY <2>2, <2>3
  <2>5. {i} \cup {r.topic_map[p], r.topic_map[q]} = V
    OBVIOUS
  <2>6. s = [r EXCEPT
              !.topics        = Without(@, V),
              !.topic_map     = Without(@, {n, p, q}),
              !.topic_sub_map = Without(@, V),
              !.valued        = @ \ {i},
              !.publishers    = [j \in TopicIdx |->
                                  IF j \in {r.topic_map[p], r.topic_map[q]} THEN {} ELSE @[j]]]
    BY <2>1, <2>2, <2>5 DEF WhollyRemoved
  <2> HIDE DEF n, p, q, V
  <2> DEFINE P == [j \in TopicIdx |-> IF j \in {r.topic_map[p], r.topic_map[q]} THEN {}
                                      ELSE r.publishers[j]]
  <2>a. /\ Without(r.topics, V) \in [TopicIdx -> Names \cup {None}]
        /\ Without(r.topic_map, {n, p, q}) \in [Names -> TopicIdx \cup {None}]
        /\ Without(r.topic_sub_map, V) \in [TopicIdx -> (SUBSET SubIdx) \cup {None}]
    BY DEF Without
  <2>b. P \in [TopicIdx -> SUBSET (Names \X PubUIDs)] /\ r.valued \ {i} \in SUBSET TopicIdx
    OBVIOUS
  <2>7. /\ s.topics = [j \in TopicIdx |-> IF j \in V THEN None ELSE r.topics[j]]
        /\ s.topic_map = [m \in Names |-> IF m \in {n, p, q} THEN None ELSE r.topic_map[m]]
        /\ s.topic_sub_map = [j \in TopicIdx |-> IF j \in V THEN None
                                                  ELSE r.topic_sub_map[j]]
        /\ s.valued = r.valued \ {i}
        /\ s.pub_count = r.pub_count
        /\ s.next = r.next
    BY <2>6 DEF Without, Registry
  <2>8. s \in Registry
    <3> HIDE DEF P
    <3>1. s = [r EXCEPT !.topics = Without(r.topics, V),
                        !.topic_map = Without(r.topic_map, {n, p, q}),
                        !.topic_sub_map = Without(r.topic_sub_map, V),
                        !.valued = r.valued \ {i},
                        !.publishers = P]
      BY <2>6 DEF P
    <3> HIDE DEF s
    <3> QED
      BY <2>a, <2>b, <3>1 DEF Registry
  <2> HIDE DEF s, V
  <2>9. Shrunk(r, s)
    BY <2>7 DEF Shrunk
  <2>10. \A j \in TopicIdx : s.topics[j] # None => s.topic_sub_map[j] = r.topic_sub_map[j]
    BY <2>7
  <2>11. ASSUME NEW m \in Names, s.topic_map[m] # None
         PROVE  s.topic_sub_map[s.topic_map[m]] = r.topic_sub_map[s.topic_map[m]]
    <3>1. m \notin {n, p, q} /\ s.topic_map[m] = r.topic_map[m]
      BY <2>7, <2>11
    <3>2. r.topic_map[m] \notin {r.topic_map[p], r.topic_map[q]}
      BY <2>3, <2>11, <3>1 DEF TablesInv, OneNamePerIndex
    <3>3. r.topic_map[m] # i
      BY <2>2, <2>11, <3>1 DEF TablesInv, NamesAgree, n
    <3>4. r.topic_map[m] \in TopicIdx \ V
      BY <2>11, <3>1, <3>2, <3>3 DEF V
    <3> QED
      BY <2>7, <3>1, <3>4
  <2>12. TablesInv(s)
    BY <2>8, <2>9, <2>10, <2>11, TakeOutInv
  <2>13. s.topics[i] = None
    BY <2>7 DEF V
  <2> QED
    BY <2>7, <2>9, <2>12, <2>13 DEF s
<1>3. CASE ~Removable(r, i)
  <2> DEFINE D == IF MetaIdx(r, "$pub", i) = None THEN {} ELSE {p}
  <2>1. s = [r EXCEPT !.topics = Without(@, {i}), !.topic_map = Without(@, D)]
    BY <1>3 DEF RemoveTopic, HalfRemoved
  <2> HIDE DEF D, n, p, q, V
  <2>2. s \in Registry
    <3> HIDE DEF s
    <3>a. Without(r.topics, {i}) \in [TopicIdx -> Names \cup {None}]
      BY DEF Without
    <3>b. Without(r.topic_map, D) \in [Names -> TopicIdx \cup {None}]
      BY DEF Without
    <3>1. /\ Without(r.topics, {i}) \in [TopicIdx -> Names \cup {None}]
          /\ Without(r.topic_map, D) \in [Names -> TopicIdx \cup {None}]
      BY <3>a, <3>b
    <3> QED
      BY <2>1, <3>1 DEF Registry
  <2>3. /\ s.topics = [j \in TopicIdx |-> IF j = i THEN None ELSE r.topics[j]]
        /\ s.topic_map = [m \in Names |-> IF m \in D THEN None ELSE r.topic_map[m]]
        /\ s.topic_sub_map = r.topic_sub_map
        /\ s.valued = r.valued
        /\ s.pub_count = r.pub_count
        /\ s.next = r.next
    BY <2>1 DEF Without, Registry
  <2> HIDE DEF s, D
  <2>4. Shrunk(r, s)
    BY <2>3 DEF Shrunk
  <2>5. TablesInv(s)
    BY <2>2, <2>3, <2>4, TakeOutInv
  <2> QED
    BY <2>3, <2>4, <2>5 DEF s
<1> QED
  BY <1>2, <1>3

\* One less than a positive number of a range is in the range.
LEMMA OneLess ==
  ASSUME NEW c \in Nat, NEW m \in Nat, c <= m, c # 0
  PROVE  c - 1 \in 0 .. m
  OBVIOUS

\* One publisher less.
LEMMA DecrementedFacts ==
  ASSUME NEW c \in 0 .. MaxU16
  PROVE  /\ Decremented(c) \in 0 .. MaxU16
         /\ c \in 1 .. 2 => Decremented(c) \in 0 .. 1
         /\ c = 1 => Decremented(c) = 0
<1>0. MaxU16 \in Nat
  BY DEF MaxU16
<1>1. CASE c = 0
  <2>1. Decremented(c) = MaxU16
    BY <1>1 DEF Decremented
  <2> QED
    BY <1>0, <1>1, <2>1
<1>2. CASE c # 0
  <2>1. c \in Nat /\ c <= MaxU16
    BY <1>0
  <2>2. Decremented(c) = c - 1
    BY <1>2 DEF Decremented
  <2>3. c - 1 \in 0 .. MaxU16
    BY <1>0, <1>2, <2>1, OneLess
  <2>4. c \in 1 .. 2 => c - 1 \in 0 .. 1
    BY <2>1
  <2>5. c = 1 => c - 1 = 0
    OBVIOUS
  <2> QED
    BY <2>2, <2>3, <2>4, <2>5
<1> QED
  BY <1>1, <1>2

\* Giving up one publisher of a topic that has a count keeps the tables sound and
\* puts nothing in them.
LEMMA ReleaseTopicInv ==
  ASSUME NEW r, RegistryInv(r), NEW i \in TopicIdx, r.pub_count[i] # None
  PROVE  /\ RegistryInv(ReleaseTopic(r, i))
         /\ Shrunk(r, ReleaseTopic(r, i))
         /\ r.pub_count[i] = 1 => ReleaseTopic(r, i).topics[i] = None
<1> DEFINE left == Decremented(r.pub_count[i])
           r1   == [r EXCEPT !.pub_count[i] = left]
           s    == ReleaseTopic(r, i)
<1>1. r \in Registry
  BY DEF RegistryInv, TablesInv
<1>2. r.pub_count[i] \in 0 .. MaxU16
  BY <1>1, RegistryFields
<1>3. /\ left \in 0 .. MaxU16
      /\ r.pub_count[i] \in 1 .. 2 => left \in 0 .. 1
      /\ r.pub_count[i] = 1 => left = 0
  BY <1>2, DecrementedFacts
<1> HIDE DEF left
<1>4. r1 \in Registry
  BY <1>1, <1>3 DEF Registry
<1>5. /\ r1.topics = r.topics /\ r1.topic_map = r.topic_map
      /\ r1.topic_sub_map = r.topic_sub_map /\ r1.valued = r.valued /\ r1.next = r.next
      /\ r1.pub_count = [r.pub_count EXCEPT ![i] = left]
  BY <1>1 DEF Registry
<1> HIDE DEF r1
<1>6. Shrunk(r, r1)
  BY <1>1, <1>5, RegistryFields DEF Shrunk
<1>7. TablesInv(r1)
  BY <1>4, <1>5, <1>6, TakeOutInv DEF RegistryInv
<1>8. s = IF left = 0 THEN RemoveTopic(r1, i) ELSE r1
  BY DEF ReleaseTopic, left, r1
<1>9. CASE left = 0
  <2>1. s = RemoveTopic(r1, i)
    BY <1>8, <1>9
  <2>2. TablesInv(s) /\ s.topics[i] = None /\ Shrunk(r1, s) /\ s.pub_count = r1.pub_count
    BY <1>7, <2>1, RemoveTopicInv
  <2> HIDE DEF s
  <2>3. Shrunk(r, s)
    BY <1>5, <1>6, <2>2 DEF Shrunk
  <2>4. Counted(s)
    <3>1. SUFFICES ASSUME NEW j \in TopicIdx, s.topics[j] # None
                   PROVE  s.pub_count[j] \in 1 .. 2
      BY DEF Counted
    <3>2. j # i /\ r.topics[j] # None
      BY <2>2, <2>3, <3>1 DEF Shrunk
    <3> QED
      BY <1>1, <1>5, <2>2, <3>2, RegistryFields DEF RegistryInv, Counted
  <2> QED
    BY <2>2, <2>3, <2>4 DEF RegistryInv, s
<1>10. CASE left # 0
  <2>1. s = r1
    BY <1>8, <1>10
  <2>2. Counted(r1)
    <3>1. SUFFICES ASSUME NEW j \in TopicIdx, r1.topics[j] # None
                   PROVE  r1.pub_count[j] \in 1 .. 2
      BY DEF Counted
    <3>2. r.pub_count[j] \in 1 .. 2
      BY <1>5, <3>1 DEF RegistryInv, Counted
    <3>3. CASE j = i
      BY <1>1, <1>3, <1>5, <1>10, <3>2, <3>3, RegistryFields
    <3>4. CASE j # i
      BY <1>1, <1>5, <3>2, <3>4, RegistryFields
    <3> QED
      BY <3>3, <3>4
  <2> QED
    BY <1>3, <1>6, <1>7, <1>10, <2>1, <2>2 DEF RegistryInv
<1> QED
  BY <1>9, <1>10

\* A removal on its own, as disconnect_client makes for a client's metatopics.
LEMMA RemoveTopicCounted ==
  ASSUME NEW r, RegistryInv(r), NEW i \in TopicIdx
  PROVE  RegistryInv(RemoveTopic(r, i)) /\ Shrunk(r, RemoveTopic(r, i))
<1> DEFINE s == RemoveTopic(r, i)
<1>1. TablesInv(s) /\ Shrunk(r, s) /\ s.pub_count = r.pub_count
  BY RemoveTopicInv DEF RegistryInv
<1> HIDE DEF s
<1>2. Counted(s)
  BY <1>1 DEF RegistryInv, Counted, Shrunk
<1> QED
  BY <1>1, <1>2 DEF RegistryInv, s

\* Updates that leave topics, topic_map and next alone keep the tables sound if no
\* list of subscriptions comes or goes, only topics that are there get a value, and
\* only topics that are gone lose their count.
LEMMA QuietInv ==
  ASSUME NEW r, RegistryInv(r), NEW s \in Registry,
         s.topics = r.topics, s.topic_map = r.topic_map, s.next = r.next,
         \A j \in TopicIdx : s.topic_sub_map[j] = None <=> r.topic_sub_map[j] = None,
         \A j \in s.valued : j \in r.valued \/ r.topics[j] # None,
         \A j \in TopicIdx : \/ s.pub_count[j] = r.pub_count[j]
                             \/ s.pub_count[j] = None /\ r.topics[j] = None
  PROVE  RegistryInv(s)
<1>1. r \in Registry
  BY DEF RegistryInv, TablesInv
<1>2. OnlyHandedOut(s)
  <2>1. ASSUME NEW i \in TopicIdx, i >= s.next  PROVE Unused(s, i)
    <3>1. Unused(r, i)
      BY <2>1 DEF RegistryInv, TablesInv, OnlyHandedOut
    <3> QED
      BY <3>1 DEF Unused
  <2> QED
    BY <2>1 DEF OnlyHandedOut, RegistryInv, TablesInv
<1>3. OneNamePerIndex(s) /\ NamesAgree(s)
  BY DEF RegistryInv, TablesInv, OneNamePerIndex, NamesAgree
<1>4. HasVector(s)
  BY <1>1, RegistryFields DEF RegistryInv, TablesInv, HasVector
<1>5. Counted(s)
  BY DEF RegistryInv, Counted
<1> QED
  BY <1>2, <1>3, <1>4, <1>5 DEF RegistryInv, TablesInv

--------------------------------------------------------------------------------

\* Every list of subscriptions holds members of K only.
ListsIn(r, K) ==
  \A i \in TopicIdx : r.topic_sub_map[i] # None => r.topic_sub_map[i] \subseteq K

\* Removals put no subscription in a list.
LEMMA ShrunkLists ==
  ASSUME NEW r, NEW s, Shrunk(r, s), NEW K, ListsIn(r, K)
  PROVE  ListsIn(s, K)
  BY DEF Shrunk, ListsIn

\* Names of tables s that r does not have lead to fresh indices, and every index
\* that is handed out leads somewhere.
Grown(r, s) ==
  /\ r.next <= s.next
  /\ \A n \in Names : s.topic_map[n] # r.topic_map[n] =>
       r.topic_map[n] = None /\ s.topic_map[n] \in r.next .. (s.next - 1)
  /\ \A i \in r.next .. (s.next - 1) : \E n \in Names : s.topic_map[n] = i

\* add_topic gives a new topic an empty list and a fresh index.
LEMMA EnsureTopicGrows ==
  ASSUME NEW r, RegistryInv(r), NEW n \in Names, NEW fl \in SUBSET Flags,
         r.topic_map[n] = None => r.next < MaxTopics, NEW K, ListsIn(r, K)
  PROVE  ListsIn(EnsureTopic(r, n, fl), K) /\ Grown(r, EnsureTopic(r, n, fl))
<1> DEFINE s == EnsureTopic(r, n, fl)
<1>1. r \in Registry
  BY DEF RegistryInv, TablesInv
<1>2. CASE r.topic_map[n] # None
  <2>1. s = r
    BY <1>2 DEF EnsureTopic
  <2>2. r.next \in Nat
    BY <1>1, RegistryFields, RegistryAssumption
  <2> QED
    BY <2>1, <2>2 DEF Grown
<1>3. CASE r.topic_map[n] = None
  <2>1. r.next \in TopicIdx /\ r.next \in Nat
    BY <1>1, <1>3, NextIndex
  <2>2. /\ s.topic_sub_map = [r.topic_sub_map EXCEPT ![r.next] = {}]
        /\ s.topic_map = [r.topic_map EXCEPT ![n] = r.next]
        /\ s.next = r.next + 1
    <3>1. s = InsertTopic(r, n, fl)
      BY <1>3 DEF EnsureTopic
    <3> HIDE DEF s
    <3> QED BY <1>1, <3>1 DEF InsertTopic, Registry
  <2> HIDE DEF s
  <2>3. ListsIn(s, K)
    BY <1>1, <2>1, <2>2, RegistryFields DEF ListsIn
  <2>4. r.next .. (s.next - 1) = {r.next}
    BY <2>1, <2>2
  <2>5. s.topic_map[n] = r.next /\ \A m \in Names \ {n} : s.topic_map[m] = r.topic_map[m]
    BY <1>1, <2>2, RegistryFields
  <2>6. r.next <= s.next
    BY <2>1, <2>2
  <2>7. Grown(r, s)
    BY <1>3, <2>4, <2>5, <2>6 DEF Grown
  <2> QED
    BY <2>3, <2>7 DEF s
<1> QED
  BY <1>2, <1>3

\* Growing twice is growing.
LEMMA GrownTwice ==
  ASSUME NEW r \in Registry, NEW s \in Registry, NEW t \in Registry,
         Grown(r, s), Grown(s, t)
  PROVE  Grown(r, t)
<1>1. r.next \in Nat /\ s.next \in Nat /\ t.next \in Nat
  BY RegistryFields, RegistryAssumption
<1>2. r.next <= t.next
  BY <1>1 DEF Grown
<1>3. ASSUME NEW n \in Names, t.topic_map[n] # r.topic_map[n]
      PROVE  r.topic_map[n] = None /\ t.topic_map[n] \in r.next .. (t.next - 1)
  <2>1. CASE s.topic_map[n] = r.topic_map[n]
    <3>1. r.topic_map[n] = None /\ t.topic_map[n] \in s.next .. (t.next - 1)
      BY <1>3, <2>1 DEF Grown
    <3> QED
      BY <1>1, <3>1 DEF Grown
  <2>2. CASE s.topic_map[n] # r.topic_map[n]
    <3>1. r.topic_map[n] = None /\ s.topic_map[n] \in r.next .. (s.next - 1)
      BY <2>2 DEF Grown
    <3>2. s.topic_map[n] # None
      BY <1>1, <3>1, NoneIsNothing
    <3>3. t.topic_map[n] = s.topic_map[n]
      BY <3>2 DEF Grown
    <3>4. s.next <= t.next
      BY DEF Grown
    <3> QED
      BY <1>1, <3>1, <3>3, <3>4
  <2> QED
    BY <2>1, <2>2
<1>4. ASSUME NEW i \in r.next .. (t.next - 1)
      PROVE  \E n \in Names : t.topic_map[n] = i
  <2>1. CASE i \in s.next .. (t.next - 1)
    BY <2>1 DEF Grown
  <2>2. CASE i \in r.next .. (s.next - 1)
    <3>1. PICK n \in Names : s.topic_map[n] = i
      BY <2>2 DEF Grown
    <3>2. i # None
      BY <1>1, NoneIsNothing
    <3>3. t.topic_map[n] = i
      BY <3>1, <3>2 DEF Grown
    <3> QED
      BY <3>3
  <2> QED
    BY <1>1, <2>1, <2>2
<1> QED
  BY <1>2, <1>3, <1>4 DEF Grown

\* The empty tables are sound.
LEMMA EmptyRegistryInv ==
  RegistryInv(EmptyRegistry) /\ EmptyRegistry.next = 0
  /\ \A K : ListsIn(EmptyRegistry, K)
<1> DEFINE e == EmptyRegistry
<1>1. /\ e.topics = [i \in TopicIdx |-> None]
      /\ e.topic_map = [n \in Names |-> None]
      /\ e.pub_count = [i \in TopicIdx |-> None]
      /\ e.topic_sub_map = [i \in TopicIdx |-> None]
      /\ e.valued = {}
      /\ e.next = 0
  BY DEF EmptyRegistry
<1>2. e \in Registry
  <2>1. 0 \in 0 .. MaxTopics
    BY RegistryAssumption
  <2> QED
    BY <2>1 DEF EmptyRegistry, Registry
<1> HIDE DEF e
<1>3. OnlyHandedOut(e) /\ OneNamePerIndex(e) /\ NamesAgree(e) /\ HasVector(e) /\ Counted(e)
  BY <1>1 DEF OnlyHandedOut, Unused, OneNamePerIndex, NamesAgree, HasVector, Counted
<1>4. \A K : ListsIn(e, K)
  BY <1>1 DEF ListsIn
<1> QED
  BY <1>1, <1>2, <1>3, <1>4 DEF RegistryInv, TablesInv, e

--------------------------------------------------------------------------------
\* The server

\* The subscriptions that exist and have a place for values.
Known ==
  {s \in SubIdx : /\ subscriptions[s] \in [client : ClientIdx, pattern : Patterns]
                  /\ sub_values[s] \in SUBSET TopicIdx}

\* PublisherMeta and DisconnectMetas find the metatopics of the clients they are for.
ClientsHaveMetas ==
  \A c \in connected \ {SERVER_CLIENT_IDX} : metatopics[c] \in TopicIdx \X TopicIdx

\* disconnect_client works on what it took out of clients.
LeavingSound ==
  leaving # None =>
    /\ leaving.client \notin connected
    /\ metatopics[leaving.client] \in TopicIdx \X TopicIdx
    /\ \A u \in leaving.left : pubs[leaving.client][u] \in TopicIdx

\* The inductive invariant.  TypeOK alone is not inductive: set_value unwraps the list
\* of a topic and the queue of each subscription in it, subscribe adds to the list of
\* every name it covers, and the disconnect uses what it read from the client's entry.
IInv ==
  /\ TypeOK
  /\ RegistryInv(reg)
  /\ ListsIn(reg, Known)
  /\ ClientsHaveMetas
  /\ LeavingSound

\* topic_map either gains names on fresh indices or loses names.
NamesLeft(r, s) ==
  /\ \A n \in Names : s.topic_map[n] \in {r.topic_map[n], None}
  /\ s.next = r.next

DirectoryStep == Grown(reg, reg') \/ NamesLeft(reg, reg')

--------------------------------------------------------------------------------

\* Announcements go to clients about topic indices.
LEMMA AnnounceFacts ==
  ASSUME connected \subseteq ClientIdx, NEW r, NEW n, r.topic_map[n] \in TopicIdx,
         NEW a \in Announce(r, n)
  PROVE  a.sent \subseteq ClientIdx \X TopicIdx /\ a.ok \in BOOLEAN
<1>1. Audience(n) \subseteq ClientIdx
  BY DEF Audience
<1> DEFINE i == r.topic_map[n]
<1>2. CASE r.topics[i] = None
  <2>1. a = [sent |-> {}, ok |-> FALSE]
    BY <1>2 DEF Announce
  <2> QED
    BY <2>1
<1>3. CASE r.topics[i] # None /\ Audience(n) \cap ended = {}
  <2>1. a = [sent |-> Audience(n) \X {i}, ok |-> TRUE]
    BY <1>3 DEF Announce
  <2> QED
    BY <1>1, <2>1
<1>4. CASE r.topics[i] # None /\ Audience(n) \cap ended # {}
  <2>1. PICK s \in SUBSET Audience(n) : a = [sent |-> s \X {i}, ok |-> FALSE]
    BY <1>4 DEF Announce
  <2> QED
    BY <1>1, <2>1
<1> QED
  BY <1>2, <1>3, <1>4

\* add_topic grows the tables, whether or not its announcements go through.
LEMMA AddTopicFacts ==
  ASSUME RegistryInv(reg), connected \subseteq ClientIdx, NEW K, ListsIn(reg, K),
         NEW n \in Names, NEW fl \in SUBSET Flags, RoomFor(n), NEW add \in AddTopic(n, fl)
  PROVE  /\ RegistryInv(add.reg)
         /\ ListsIn(add.reg, K)
         /\ Grown(reg, add.reg)
         /\ add.reg.topic_map[n] \in TopicIdx
         /\ add.sent \subseteq ClientIdx \X TopicIdx
         /\ add.ok \in BOOLEAN
<1> DEFINE p       == MetaName("$pub", n)
           q       == MetaName("$sub", n)
           added   == EnsureTopic(reg, n, fl)
           withPub == EnsureTopic(added, p, {})
           withSub == EnsureTopic(withPub, q, {})
           Fresh(r) == RegistryInv(r) /\ ListsIn(r, K) /\ Grown(reg, r)
                       /\ r.topic_map[n] \in TopicIdx
<1>1. reg \in Registry /\ reg.next \in Nat /\ MaxTopics \in Nat
  BY RegistryFields, RegistryAssumption DEF RegistryInv, TablesInv
<1>2. reg.topic_map[n] = None => reg.next < MaxTopics
  BY <1>1 DEF RoomFor, Room
<1>3. /\ Fresh(added)
      /\ added \in Registry /\ added.next \in Nat /\ added.next <= reg.next + 1
  <2>1. RegistryInv(added) /\ added.topic_map[n] \in TopicIdx /\ added.next <= reg.next + 1
    BY <1>2, EnsureTopicInv
  <2>2. ListsIn(added, K) /\ Grown(reg, added)
    BY <1>2, EnsureTopicGrows
  <2> HIDE DEF added
  <2>3. added \in Registry /\ added.next \in Nat
    BY <2>1, RegistryFields, RegistryAssumption DEF RegistryInv, TablesInv
  <2> QED
    BY <2>1, <2>2, <2>3
<1>4. CASE reg.topic_map[n] # None \/ IsMeta(n)
  <2>1. add = [reg |-> added, sent |-> {}, ok |-> TRUE]
    BY <1>4 DEF AddTopic
  <2> QED
    BY <1>3, <2>1
<1>5. CASE reg.topic_map[n] = None /\ ~IsMeta(n)
  <2>1. p \in Names /\ q \in Names /\ p # q /\ p # n /\ q # n
    BY <1>5, NameFacts
  <2>2. reg.next + 3 <= MaxTopics
    BY <1>1, <1>5 DEF RoomFor, Room
  <2> HIDE DEF p, q, added
  <2>3. /\ Fresh(withPub) /\ withPub.topic_map[p] \in TopicIdx
        /\ withPub \in Registry /\ withPub.next \in Nat /\ withPub.next <= reg.next + 2
    <3>1. added.next < MaxTopics
      BY <1>1, <1>3, <2>2
    <3>2. /\ RegistryInv(withPub) /\ withPub.topic_map[p] \in TopicIdx
          /\ withPub.next <= added.next + 1 /\ withPub.topic_map[n] = added.topic_map[n]
      BY <1>3, <2>1, <3>1, EnsureTopicInv
    <3>3. ListsIn(withPub, K) /\ Grown(added, withPub)
      BY <1>3, <2>1, <3>1, EnsureTopicGrows
    <3> HIDE DEF withPub
    <3>4. withPub \in Registry /\ withPub.next \in Nat
      BY <3>2, RegistryFields, RegistryAssumption DEF RegistryInv, TablesInv
    <3>5. Grown(reg, withPub)
      BY <1>1, <1>3, <3>3, <3>4, GrownTwice
    <3> QED
      BY <1>1, <1>3, <3>2, <3>3, <3>4, <3>5
  <2> HIDE DEF withPub
  <2>4. Fresh(withSub) /\ withSub.topic_map[q] \in TopicIdx
    <3>1. withPub.next < MaxTopics
      BY <1>1, <2>2, <2>3
    <3>2. /\ RegistryInv(withSub) /\ withSub.topic_map[q] \in TopicIdx
          /\ withSub.topic_map[n] = withPub.topic_map[n]
      BY <2>1, <2>3, <3>1, EnsureTopicInv
    <3>3. ListsIn(withSub, K) /\ Grown(withPub, withSub)
      BY <2>1, <2>3, <3>1, EnsureTopicGrows
    <3> HIDE DEF withSub
    <3>4. withSub \in Registry
      BY <3>2 DEF RegistryInv, TablesInv
    <3>5. Grown(reg, withSub)
      BY <1>1, <2>3, <3>3, <3>4, GrownTwice
    <3> QED
      BY <2>3, <3>2, <3>3, <3>5
  <2> HIDE DEF withSub, Fresh
  <2>5. PICK a \in Announce(withPub, p) :
          add \in (IF a.ok
                   THEN {[reg |-> withSub, sent |-> a.sent \cup b.sent, ok |-> b.ok] :
                           b \in Announce(withSub, q)}
                   ELSE {[reg |-> withPub, sent |-> a.sent, ok |-> FALSE]})
    BY <1>5 DEF AddTopic, added, withPub, withSub, p, q
  <2>6. a.sent \subseteq ClientIdx \X TopicIdx
    BY <2>3, AnnounceFacts
  <2>7. CASE a.ok
    <3>1. PICK b \in Announce(withSub, q) :
            add = [reg |-> withSub, sent |-> a.sent \cup b.sent, ok |-> b.ok]
      BY <2>5, <2>7
    <3>2. b.sent \subseteq ClientIdx \X TopicIdx /\ b.ok \in BOOLEAN
      BY <2>4, AnnounceFacts
    <3> QED
      BY <2>4, <2>6, <3>1, <3>2 DEF Fresh
  <2>8. CASE ~a.ok
    <3>1. add = [reg |-> withPub, sent |-> a.sent, ok |-> FALSE]
      BY <2>5, <2>8
    <3> QED
      BY <2>3, <2>6, <3>1 DEF Fresh
  <2> QED
    BY <2>7, <2>8
<1> QED
  BY <1>4, <1>5

\* A publish that succeeds is the publish of a client that is there; whatever comes
\* of it, the tables have grown.
LEMMA PublishOutcomesFacts ==
  ASSUME RegistryInv(reg), connected \subseteq ClientIdx, NEW K, ListsIn(reg, K),
         NEW c \in ClientIdx, NEW n \in Names, NEW fl \in SUBSET Flags, RoomFor(n),
         NEW out \in PublishOutcomes(c, n, fl)
  PROVE  /\ RegistryInv(out.reg)
         /\ ListsIn(out.reg, K)
         /\ Grown(reg, out.reg)
         /\ out.reg.topic_map[n] \in TopicIdx
         /\ out.ok => c \in connected
         /\ out \in [reg : Registry, sent : SUBSET (ClientIdx \X TopicIdx),
                     ok : BOOLEAN]
<1> DEFINE Answer(add) == Respond(add.reg, c, add.reg.topic_map[n], add.sent)
<1>1. PICK add \in AddTopic(n, fl) :
        out \in (IF add.ok /\ Answer(add).ok
                 THEN {[reg    |-> add.reg,
                        sent   |-> add.sent \cup Answer(add).sent \cup all.sent,
                        ok     |-> all.ok] : all \in Announce(add.reg, n)}
                 ELSE {[reg |-> add.reg, sent |-> add.sent, ok |-> FALSE]})
  BY DEF PublishOutcomes
<1>2. /\ RegistryInv(add.reg)
      /\ ListsIn(add.reg, K)
      /\ Grown(reg, add.reg)
      /\ add.reg.topic_map[n] \in TopicIdx
      /\ add.sent \subseteq ClientIdx \X TopicIdx
      /\ add.reg \in Registry
  BY AddTopicFacts DEF RegistryInv, TablesInv
<1>3. /\ Answer(add).sent \subseteq ClientIdx \X TopicIdx
      /\ Answer(add).ok => c \in connected
  <2> DEFINE i == add.reg.topic_map[n]
  <2>1. i \in TopicIdx
    BY <1>2
  <2> HIDE DEF i
  <2>2. /\ Respond(add.reg, c, i, add.sent).sent \subseteq {<<c, i>>}
        /\ Respond(add.reg, c, i, add.sent).ok => c \in connected
    BY DEF Respond
  <2> QED
    BY <2>1, <2>2 DEF i
<1> HIDE DEF Answer
<1>4. CASE add.ok /\ Answer(add).ok
  <2>1. PICK all \in Announce(add.reg, n) :
          out = [reg    |-> add.reg,
                 sent   |-> add.sent \cup Answer(add).sent \cup all.sent,
                 ok     |-> all.ok]
    BY <1>1, <1>4
  <2>2. all.sent \subseteq ClientIdx \X TopicIdx /\ all.ok \in BOOLEAN
    BY <1>2, AnnounceFacts
  <2> QED
    BY <1>2, <1>3, <1>4, <2>1, <2>2
<1>5. CASE ~(add.ok /\ Answer(add).ok)
  <2>1. out = [reg |-> add.reg, sent |-> add.sent, ok |-> FALSE]
    BY <1>1, <1>5
  <2> QED
    BY <1>2, <2>1
<1> QED
  BY <1>4, <1>5

\* The metatopic of a client that is there has an index.
LEMMA PublisherMetaFacts ==
  ASSUME IInv, NEW c \in connected
  PROVE  PublisherMeta(c) \in TopicIdx
<1>1. CASE c = SERVER_CLIENT_IDX
  BY <1>1, RegistryAssumption DEF PublisherMeta, SERVER_PUB_METATOPIC, TopicIdx
<1>2. CASE c # SERVER_CLIENT_IDX
  BY <1>2 DEF PublisherMeta, IInv, ClientsHaveMetas
<1> QED
  BY <1>1, <1>2

\* The server starts with sound tables.
LEMMA InitInv == Init => IInv /\ Grown(EmptyRegistry, reg)
<1> SUFFICES ASSUME Init PROVE IInv /\ Grown(EmptyRegistry, reg)
  OBVIOUS
<1> DEFINE x  == <<"$clients", "server">>
           y  == <<"$serversub", "server">>
           z  == <<"$serverpub", "server">>
           r1 == EnsureTopic(EmptyRegistry, x, {})
           r2 == EnsureTopic(r1, y, {})
           Sound(r) == /\ RegistryInv(r) /\ ListsIn(r, Known)
                       /\ r \in Registry /\ r.next \in Nat
                       /\ Grown(EmptyRegistry, r)
<1>1. x \in Names /\ y \in Names /\ z \in Names
  BY DEF Names, ServerMetas
<1>2. MaxTopics \in Nat /\ MaxTopics >= 3
  BY RegistryAssumption
<1> HIDE DEF x, y, z
<1>3. ASSUME NEW r, Sound(r), r.next < MaxTopics, NEW n \in Names
      PROVE  Sound(EnsureTopic(r, n, {})) /\ EnsureTopic(r, n, {}).next <= r.next + 1
  <2> DEFINE s == EnsureTopic(r, n, {})
  <2>1. RegistryInv(s) /\ s.next <= r.next + 1
    BY <1>3, EnsureTopicInv
  <2>2. ListsIn(s, Known) /\ Grown(r, s)
    BY <1>3, EnsureTopicGrows
  <2> HIDE DEF s
  <2>3. s \in Registry /\ s.next \in Nat
    BY <2>1, RegistryFields, RegistryAssumption DEF RegistryInv, TablesInv
  <2>4. EmptyRegistry \in Registry
    BY EmptyRegistryInv DEF RegistryInv, TablesInv
  <2>5. Grown(EmptyRegistry, s)
    BY <1>3, <2>2, <2>3, <2>4, GrownTwice
  <2> QED
    BY <2>1, <2>2, <2>3, <2>5 DEF s
<1>4. Sound(EmptyRegistry) /\ EmptyRegistry.next = 0
  BY EmptyRegistryInv DEF RegistryInv, TablesInv, Grown
<1> HIDE DEF Sound
<1>a. \A r : Sound(r) => r.next \in Nat
  BY DEF Sound
<1>5. Sound(r1) /\ r1.next <= 1
  BY <1>1, <1>2, <1>3, <1>4
<1> HIDE DEF r1
<1>6. Sound(r2) /\ r2.next <= 2
  <2>1. r1.next \in Nat /\ r1.next < MaxTopics
    BY <1>2, <1>5, <1>a
  <2>2. Sound(r2) /\ r2.next <= r1.next + 1
    BY <1>1, <1>3, <1>5, <2>1
  <2>3. r2.next \in Nat
    BY <1>a, <2>2
  <2> QED
    BY <1>5, <2>1, <2>2, <2>3
<1> HIDE DEF r2
<1>7. Sound(reg)
  <2>1. reg = EnsureTopic(r2, z, {})
    BY DEF Init, r2, r1, x, y, z
  <2>2. r2.next < MaxTopics
    BY <1>2, <1>6, <1>a
  <2> QED
    BY <1>1, <1>3, <1>6, <2>1, <2>2
<1>8. TypeOK
  <2>1. reg \in Registry
    BY <1>7 DEF Sound
  <2>2. 1 \in 1 .. MaxClients /\ 0 \in ClientIdx /\ 0 \in 0 .. MaxSubs
    BY RegistryAssumption DEF ClientIdx
  <2> QED
    BY <2>1, <2>2 DEF Init, TypeOK, NoPubs, NoSubs, SERVER_CLIENT_IDX
<1>9. ClientsHaveMetas /\ LeavingSound
  BY DEF Init, ClientsHaveMetas, LeavingSound
<1> QED
  BY <1>7, <1>8, <1>9 DEF IInv, Sound

--------------------------------------------------------------------------------

\* Steps that change no table of topics or subscriptions, no client and no metatopic.
LEMMA CalmStep ==
  ASSUME IInv, TypeOK',
         UNCHANGED <<reg, connected, metatopics, leaving, pubs, subscriptions>>,
         \A s \in SubIdx : sub_values[s] \in SUBSET TopicIdx => sub_values'[s] \in SUBSET TopicIdx
  PROVE  IInv' /\ DirectoryStep
<1>1. Known \subseteq Known'
  BY DEF Known
<1>2. ListsIn(reg', Known')
  BY <1>1 DEF IInv, ListsIn
<1>3. ClientsHaveMetas' /\ LeavingSound'
  BY DEF IInv, ClientsHaveMetas, LeavingSound
<1>4. DirectoryStep
  BY DEF DirectoryStep, NamesLeft
<1> QED
  BY <1>2, <1>3, <1>4 DEF IInv

\* The end of a connection, and its close message that is dropped.
LEMMA EndingsInv ==
  ASSUME IInv, NEW c \in ClientIdx, ConnectionEnds(c) \/ CloseDropped(c)
  PROVE  IInv' /\ DirectoryStep
<1>1. UNCHANGED <<reg, clientVars, connected, pubs, subVars, sub_values, leaving, parser,
                  tellVars>>
  BY DEF ConnectionEnds, CloseDropped
<1>2. ended' \subseteq ClientIdx /\ closed' \subseteq ended'
  BY DEF ConnectionEnds, CloseDropped, IInv, TypeOK
<1>3. TypeOK'
  BY <1>1, <1>2 DEF IInv, TypeOK, clientVars, subVars, tellVars
<1> QED
  BY <1>1, <1>3, CalmStep DEF clientVars, subVars, IInv

\* send_out empties a queue.
LEMMA SendOutInv ==
  ASSUME IInv, NEW s \in SubIdx, SendOut(s)
  PROVE  IInv' /\ DirectoryStep
<1>1. UNCHANGED <<reg, clientVars, connected, pubs, subVars, taskVars, tellVars>>
  BY DEF SendOut
<1>2. sub_values' = [sub_values EXCEPT ![s] = {}]
  BY DEF SendOut
<1>3. sub_values' \in [SubIdx -> (SUBSET TopicIdx) \cup {None}]
  BY <1>2 DEF IInv, TypeOK
<1>4. TypeOK'
  BY <1>1, <1>3 DEF IInv, TypeOK, clientVars, subVars, taskVars, tellVars
<1>5. \A x \in SubIdx : sub_values[x] \in SUBSET TopicIdx => sub_values'[x] \in SUBSET TopicIdx
  BY <1>2 DEF IInv, TypeOK
<1> QED
  BY <1>1, <1>4, <1>5, CalmStep DEF clientVars, subVars, taskVars

\* A new client: it is given a client's name, and both its metatopics have an index.
LEMMA ConnectInv ==
  ASSUME IInv, NEW asked \in AskedNames, Connect(asked)
  PROVE  IInv' /\ DirectoryStep
<1> DEFINE c    == next_client
           same == {d \in connected \ {SERVER_CLIENT_IDX} : names[d] \in NamesContaining[asked]}
           name == ClientName(asked, Cardinality(same))
           p    == ClientMeta("$clientpub", name)
           q    == ClientMeta("$clientsub", name)
           r1   == EnsureTopic(reg, p, {})
           r2   == EnsureTopic(r1, q, {})
<1>1. /\ c \in ClientIdx /\ c + 1 \in 1 .. MaxClients
      /\ reg \in Registry /\ reg.next \in Nat /\ MaxTopics \in Nat
      /\ reg.next + 2 <= MaxTopics
  BY RegistryAssumption, RegistryFields DEF Connect, IInv, TypeOK, ClientIdx, Room
<1>2. Cardinality(same) \in 0 .. MaxClients
  <2>1. IsFiniteSet(ClientIdx) /\ Cardinality(ClientIdx) = MaxClients
    BY FS_Interval, RegistryAssumption DEF ClientIdx
  <2>2. same \subseteq ClientIdx
    BY DEF IInv, TypeOK
  <2>3. Cardinality(same) \in Nat /\ Cardinality(same) <= MaxClients
    BY <2>1, <2>2, FS_Subset, FS_CardinalityType
  <2> QED
    BY <2>3, RegistryAssumption
<1> HIDE DEF same
<1>3. name \in ClientNames
  <2>1. CASE Cardinality(same) = 0
    BY <2>1, ServerAssumption DEF ClientName
  <2>2. CASE Cardinality(same) \in 1 .. MaxClients
    <3>1. <<asked, Cardinality(same)>> \in AskedNames \X (1 .. MaxClients)
      BY <2>2
    <3> QED
      BY <2>2, <3>1, ServerAssumption DEF ClientName
  <2> QED
    BY <1>2, <2>1, <2>2, RegistryAssumption
<1> HIDE DEF name
<1>4. p \in Names /\ q \in Names /\ p # q
  BY <1>3 DEF ClientMeta, Names, ClientMetas
<1> HIDE DEF p, q
<1>5. /\ RegistryInv(r1) /\ r1.topic_map[p] \in TopicIdx /\ r1.next <= reg.next + 1
      /\ ListsIn(r1, Known) /\ Grown(reg, r1)
  BY <1>1, <1>4, EnsureTopicInv, EnsureTopicGrows DEF IInv
<1> HIDE DEF r1
<1>6. r1 \in Registry /\ r1.next \in Nat
  BY <1>5, RegistryFields, RegistryAssumption DEF RegistryInv, TablesInv
<1>7. r1.next < MaxTopics
  BY <1>1, <1>5, <1>6
<1>8. /\ RegistryInv(r2) /\ r2.topic_map[q] \in TopicIdx
      /\ r2.topic_map[p] = r1.topic_map[p]
      /\ ListsIn(r2, Known) /\ Grown(r1, r2)
  BY <1>4, <1>5, <1>7, EnsureTopicInv, EnsureTopicGrows
<1> HIDE DEF r2
<1>9. r2 \in Registry
  BY <1>8 DEF RegistryInv, TablesInv
<1>10. Grown(reg, r2)
  BY <1>1, <1>5, <1>6, <1>8, <1>9, GrownTwice
<1>11. /\ reg' = r2
       /\ leaving = None
       /\ next_client' = c + 1
       /\ connected' = connected \cup {c}
       /\ names' = [names EXCEPT ![c] = name]
       /\ clients_mte' = clients_mte \cup {name}
       /\ metatopics' = [metatopics EXCEPT ![c] = <<r2.topic_map[p], r2.topic_map[q]>>]
       /\ UNCHANGED <<pubs, subVars, sub_values, taskVars, tellVars>>
  BY DEF Connect, ClientsFree, same, name, p, q, r1, r2
<1>12. <<r2.topic_map[p], r2.topic_map[q]>> \in TopicIdx \X TopicIdx
  BY <1>5, <1>8
<1>13. TypeOK'
  <2>1. /\ names' \in [ClientIdx -> ClientNames \cup {None}]
        /\ metatopics' \in [ClientIdx -> (TopicIdx \X TopicIdx) \cup {None}]
    BY <1>1, <1>3, <1>11, <1>12 DEF IInv, TypeOK
  <2>2. /\ connected' \subseteq ClientIdx
        /\ clients_mte' \subseteq ClientNames
        /\ next_client' \in 1 .. MaxClients
        /\ reg' \in Registry
    BY <1>1, <1>3, <1>9, <1>11 DEF IInv, TypeOK
  <2> QED
    BY <1>11, <2>1, <2>2 DEF IInv, TypeOK, subVars, taskVars, tellVars
<1>14. ListsIn(reg', Known')
  <2>1. Known' = Known
    BY <1>11 DEF Known, subVars
  <2> QED
    BY <1>8, <1>11, <2>1
<1>15. ClientsHaveMetas'
  BY <1>1, <1>11, <1>12 DEF ClientsHaveMetas, IInv, TypeOK
<1>16. LeavingSound'
  BY <1>11 DEF LeavingSound, taskVars
<1> QED
  BY <1>8, <1>10, <1>11, <1>13, <1>14, <1>15, <1>16 DEF IInv, DirectoryStep

\* disconnect_client starts.
LEMMA CloseHandledInv ==
  ASSUME IInv, NEW c \in ClientIdx, CloseHandled(c)
  PROVE  IInv' /\ DirectoryStep
<1>1. /\ connected' = connected \ {c}
      /\ leaving' = [client |-> c, left |-> {u \in PubUIDs : pubs[c][u] # None}]
      /\ UNCHANGED <<reg, clientVars, pubs, subVars, sub_values, parser, ended, closed, tellVars>>
      /\ c \in connected \ {SERVER_CLIENT_IDX}
  BY DEF CloseHandled
<1>2. \A u \in {u \in PubUIDs : pubs[c][u] # None} : pubs[c][u] \in TopicIdx
  BY DEF IInv, TypeOK
<1>3. TypeOK'
  <2>1. leaving' \in [client : ClientIdx, left : SUBSET PubUIDs]
    BY <1>1
  <2> QED
    BY <1>1, <2>1 DEF IInv, TypeOK, clientVars, subVars, tellVars
<1>4. LeavingSound'
  BY <1>1, <1>2 DEF LeavingSound, IInv, ClientsHaveMetas, clientVars
<1>5. ClientsHaveMetas'
  BY <1>1 DEF IInv, ClientsHaveMetas, clientVars
<1>6. Known' = Known
  BY <1>1 DEF Known, subVars
<1> QED
  BY <1>1, <1>3, <1>4, <1>5, <1>6 DEF IInv, DirectoryStep, NamesLeft

\* Giving up a publisher takes names away and brings none.
LEMMA ReleaseFacts ==
  ASSUME IInv, NEW i \in TopicIdx, reg.pub_count[i] # None
  PROVE  /\ RegistryInv(ReleaseTopic(reg, i))
         /\ ListsIn(ReleaseTopic(reg, i), Known)
         /\ NamesLeft(reg, ReleaseTopic(reg, i))
         /\ reg.pub_count[i] = 1 => ReleaseTopic(reg, i).topics[i] = None
<1>1. /\ RegistryInv(ReleaseTopic(reg, i)) /\ Shrunk(reg, ReleaseTopic(reg, i))
      /\ reg.pub_count[i] = 1 => ReleaseTopic(reg, i).topics[i] = None
  BY ReleaseTopicInv DEF IInv
<1>2. ListsIn(ReleaseTopic(reg, i), Known)
  BY <1>1, ShrunkLists DEF IInv
<1> QED
  BY <1>1, <1>2 DEF Shrunk, NamesLeft

\* One turn of disconnect_client's loop, however it ends.
LEMMA DisconnectStepInv ==
  ASSUME IInv, DisconnectStep
  PROVE  IInv' /\ DirectoryStep
<1>1. PICK u \in leaving.left :
        LET i    == pubs[leaving.client][u]
            rest == [leaving EXCEPT !.left = @ \ {u}]
        IN  IF reg.pub_count[i] = None
            THEN leaving' = rest /\ UNCHANGED <<reg, parser>>
            ELSE IF Underflows(i)
            THEN leaving' = None /\ parser' = "panicked" /\ UNCHANGED reg
            ELSE /\ reg' = ReleaseTopic(reg, i)
                 /\ leaving' = IF ReleaseFails(reg, i) THEN None ELSE rest
                 /\ UNCHANGED parser
  BY DEF DisconnectStep
<1> DEFINE i    == pubs[leaving.client][u]
           rest == [leaving EXCEPT !.left = @ \ {u}]
<1>2. /\ leaving # None
      /\ UNCHANGED <<clientVars, connected, pubs, subVars, sub_values, ended, closed, tellVars>>
  BY DEF DisconnectStep
<1>3. leaving \in [client : ClientIdx, left : SUBSET PubUIDs] /\ i \in TopicIdx
  BY <1>2 DEF IInv, TypeOK, LeavingSound
<1>4. leaving' \in {None, rest} /\ parser' \in {"panicked", parser}
  BY <1>1
<1>5. reg' = reg \/ (reg.pub_count[i] # None /\ reg' = ReleaseTopic(reg, i))
  BY <1>1
<1> HIDE DEF i
<1>6. RegistryInv(reg') /\ ListsIn(reg', Known) /\ NamesLeft(reg, reg')
  BY <1>3, <1>5, ReleaseFacts DEF IInv, NamesLeft
<1>7. rest \in [client : ClientIdx, left : SUBSET PubUIDs]
  BY <1>3
<1>8. rest.client = leaving.client /\ rest.left \subseteq leaving.left
  BY <1>3
<1> HIDE DEF rest
<1>9. TypeOK'
  <2>1. leaving' \in [client : ClientIdx, left : SUBSET PubUIDs] \cup {None}
    BY <1>4, <1>7
  <2>2. parser' \in {"running", "panicked"}
    BY <1>4 DEF IInv, TypeOK
  <2>3. reg' \in Registry
    BY <1>6 DEF RegistryInv, TablesInv
  <2> QED
    BY <1>2, <2>1, <2>2, <2>3 DEF IInv, TypeOK, clientVars, subVars, tellVars
<1>10. Known' = Known
  BY <1>2 DEF Known, subVars
<1>11. ClientsHaveMetas'
  BY <1>2 DEF IInv, ClientsHaveMetas, clientVars
<1>12. LeavingSound'
  BY <1>2, <1>4, <1>8 DEF IInv, LeavingSound, clientVars
<1> QED
  BY <1>6, <1>9, <1>10, <1>11, <1>12 DEF IInv, DirectoryStep

\* The end of disconnect_client.
LEMMA DisconnectMetasInv ==
  ASSUME IInv, DisconnectMetas
  PROVE  IInv' /\ DirectoryStep
<1> DEFINE p  == metatopics[leaving.client][1]
           q  == metatopics[leaving.client][2]
           r1 == RemoveTopic(reg, p)
<1>1. /\ leaving # None
      /\ reg' = IF Removable(reg, p) THEN RemoveTopic(r1, q) ELSE r1
      /\ metatopics' = [metatopics EXCEPT ![leaving.client] = None]
      /\ leaving' = None
      /\ UNCHANGED <<next_client, names, clients_mte, connected, pubs, subVars, sub_values,
                     parser, ended, closed, tellVars>>
  BY DEF DisconnectMetas
<1>2. p \in TopicIdx /\ q \in TopicIdx
  BY <1>1 DEF IInv, LeavingSound
<1> HIDE DEF p, q
<1>3. RegistryInv(r1) /\ Shrunk(reg, r1)
  BY <1>2, RemoveTopicCounted DEF IInv
<1>4. ListsIn(r1, Known) /\ NamesLeft(reg, r1)
  BY <1>3, ShrunkLists DEF IInv, NamesLeft, Shrunk
<1> HIDE DEF r1
<1>5. /\ RegistryInv(RemoveTopic(r1, q)) /\ ListsIn(RemoveTopic(r1, q), Known)
      /\ NamesLeft(reg, RemoveTopic(r1, q))
  <2>1. RegistryInv(RemoveTopic(r1, q)) /\ Shrunk(r1, RemoveTopic(r1, q))
    BY <1>2, <1>3, RemoveTopicCounted
  <2>2. ListsIn(RemoveTopic(r1, q), Known)
    BY <1>4, <2>1, ShrunkLists
  <2> QED
    BY <1>4, <2>1, <2>2 DEF NamesLeft, Shrunk
<1>6. RegistryInv(reg') /\ ListsIn(reg', Known) /\ NamesLeft(reg, reg')
  BY <1>1, <1>3, <1>4, <1>5
<1>7. TypeOK'
  <2>1. reg' \in Registry
    BY <1>6 DEF RegistryInv, TablesInv
  <2>2. metatopics' \in [ClientIdx -> (TopicIdx \X TopicIdx) \cup {None}]
    BY <1>1 DEF IInv, TypeOK
  <2> QED
    BY <1>1, <2>1, <2>2 DEF IInv, TypeOK, subVars, tellVars
<1>8. Known' = Known
  BY <1>1 DEF Known, subVars
<1>9. ClientsHaveMetas'
  BY <1>1 DEF IInv, TypeOK, ClientsHaveMetas, LeavingSound
<1>10. LeavingSound'
  BY <1>1 DEF LeavingSound
<1> QED
  BY <1>6, <1>7, <1>8, <1>9, <1>10 DEF IInv, DirectoryStep

\* set_value keeps the tables sound and queues only where there is a queue.
LEMMA ValuedFacts ==
  ASSUME NEW r, RegistryInv(r), NEW K, ListsIn(r, K), NEW i \in TopicIdx
  PROVE  /\ RegistryInv(Valued(r, i))
         /\ ListsIn(Valued(r, i), K)
         /\ Valued(r, i).topic_map = r.topic_map
         /\ Valued(r, i).next = r.next
<1> DEFINE s == Valued(r, i)
<1>1. r \in Registry
  BY DEF RegistryInv, TablesInv
<1>2. CASE Accepts(r, i)
  <2>1. s = [r EXCEPT !.valued = r.valued \cup {i}]
    BY <1>2 DEF Valued
  <2>2. r.valued \cup {i} \in SUBSET TopicIdx
    BY <1>1, RegistryFields
  <2>3. /\ s \in Registry
        /\ s.topics = r.topics /\ s.topic_map = r.topic_map /\ s.next = r.next
        /\ s.topic_sub_map = r.topic_sub_map /\ s.pub_count = r.pub_count
        /\ s.valued = r.valued \cup {i}
    BY <1>1, <2>1, <2>2 DEF Registry
  <2> HIDE DEF s
  <2>4. RegistryInv(s)
    BY <1>2, <2>3, QuietInv DEF Accepts
  <2>5. ListsIn(s, K)
    BY <2>3 DEF ListsIn
  <2> QED
    BY <2>3, <2>4, <2>5 DEF s
<1>3. CASE ~Accepts(r, i)
  BY <1>3 DEF Valued
<1> QED
  BY <1>2, <1>3

\* The queues after set_value.
LEMMA QueuedFacts ==
  ASSUME TypeOK, NEW r, RegistryInv(r), ListsIn(r, Known), NEW i \in TopicIdx
  PROVE  /\ Queued(r, i) \in [SubIdx -> (SUBSET TopicIdx) \cup {None}]
         /\ \A s \in SubIdx :
              sub_values[s] \in SUBSET TopicIdx => Queued(r, i)[s] \in SUBSET TopicIdx
<1>1. CASE ~Accepts(r, i)
  BY <1>1 DEF Queued, TypeOK
<1>2. CASE Accepts(r, i)
  <2>1. Queued(r, i) = [s \in SubIdx |-> IF s \in r.topic_sub_map[i] THEN sub_values[s] \cup {i}
                                         ELSE sub_values[s]]
    BY <1>2 DEF Queued
  <2>2. r.topic_sub_map[i] \subseteq Known
    BY <1>2 DEF Accepts, ListsIn, RegistryInv, TablesInv, HasVector
  <2>3. \A s \in r.topic_sub_map[i] : sub_values[s] \in SUBSET TopicIdx
    BY <2>2 DEF Known
  <2>4. \A s \in SubIdx : sub_values[s] \in (SUBSET TopicIdx) \cup {None}
    BY DEF TypeOK
  <2> QED
    BY <2>1, <2>3, <2>4
<1> QED
  BY <1>1, <1>2

\* A value from a client.
LEMMA SetValueInv ==
  ASSUME IInv, NEW c \in ClientIdx, NEW u \in PubUIDs, SetValue(c, u)
  PROVE  IInv' /\ DirectoryStep
<1> DEFINE i == pubs[c][u]
<1>1. /\ i \in TopicIdx
      /\ reg' = Valued(reg, i)
      /\ sub_values' = Queued(reg, i)
      /\ UNCHANGED <<clientVars, connected, pubs, subVars, taskVars, tellVars>>
  BY DEF SetValue, IInv, TypeOK
<1> HIDE DEF i
<1>2. /\ RegistryInv(reg') /\ ListsIn(reg', Known)
      /\ reg'.topic_map = reg.topic_map /\ reg'.next = reg.next
  BY <1>1, ValuedFacts DEF IInv
<1>3. /\ sub_values' \in [SubIdx -> (SUBSET TopicIdx) \cup {None}]
      /\ \A s \in SubIdx :
           sub_values[s] \in SUBSET TopicIdx => sub_values'[s] \in SUBSET TopicIdx
  BY <1>1, QueuedFacts DEF IInv
<1>4. TypeOK'
  BY <1>1, <1>2, <1>3 DEF IInv, TypeOK, RegistryInv, TablesInv, clientVars, subVars, taskVars,
                          tellVars
<1>5. Known \subseteq Known'
  BY <1>1, <1>3 DEF Known, subVars
<1>6. ListsIn(reg', Known')
  BY <1>2, <1>5 DEF ListsIn
<1>7. ClientsHaveMetas' /\ LeavingSound'
  BY <1>1 DEF IInv, ClientsHaveMetas, LeavingSound, clientVars, taskVars
<1> QED
  BY <1>2, <1>4, <1>6, <1>7 DEF IInv, DirectoryStep, NamesLeft

\* set_properties touches the flags only.
LEMMA SetPropertiesInv ==
  ASSUME IInv, NEW n \in PublishNames, NEW p \in PropertyUpdates, SetProperties(n, p[1], p[2])
  PROVE  IInv' /\ DirectoryStep
<1> DEFINE i == reg.topic_map[n]
<1>0. reg \in Registry
  BY DEF IInv, TypeOK
<1>1. UNCHANGED <<clientVars, connected, pubs, subVars, sub_values, taskVars, tellVars>>
  BY DEF SetProperties
<1>2. CASE i = None \/ reg.topics[i] = None
  <2>1. reg' = reg
    BY <1>2 DEF SetProperties
  <2>2. TypeOK'
    BY <1>1, <2>1 DEF IInv, TypeOK, clientVars, subVars, taskVars, tellVars
  <2> QED
    BY <1>1, <2>1, <2>2, CalmStep DEF clientVars, subVars, taskVars
<1>3. CASE i # None /\ reg.topics[i] # None
  <2>1. i \in TopicIdx
    BY <1>0, <1>3, RegistryFields, ServerAssumption
  <2>2. reg' = [reg EXCEPT !.flags[i] = (@ \cup p[1]) \ p[2]]
    BY <1>3 DEF SetProperties
  <2> HIDE DEF i
  <2>3. p[1] \in SUBSET Flags
    BY ServerAssumption
  <2>4. (reg.flags[i] \cup p[1]) \ p[2] \in SUBSET Flags
    BY <1>0, <2>1, <2>3, RegistryFields
  <2>5. reg' = [reg EXCEPT !.flags = [reg.flags EXCEPT ![i] = (reg.flags[i] \cup p[1]) \ p[2]]]
    BY <1>0, <2>2 DEF Registry
  <2>6. [reg.flags EXCEPT ![i] = (reg.flags[i] \cup p[1]) \ p[2]] \in [TopicIdx -> SUBSET Flags]
    BY <1>0, <2>4, RegistryFields
  <2>7. /\ reg' \in Registry
        /\ reg'.topics = reg.topics /\ reg'.topic_map = reg.topic_map /\ reg'.next = reg.next
        /\ reg'.topic_sub_map = reg.topic_sub_map /\ reg'.pub_count = reg.pub_count
        /\ reg'.valued = reg.valued
    BY <1>0, <2>5, <2>6 DEF Registry
  <2>8. RegistryInv(reg')
    BY <2>7, QuietInv DEF IInv
  <2>9. Known' = Known
    BY <1>1 DEF Known, subVars
  <2>10. ListsIn(reg', Known')
    BY <2>7, <2>9 DEF IInv, ListsIn
  <2>11. TypeOK'
    BY <1>1, <2>7 DEF IInv, TypeOK, clientVars, subVars, taskVars, tellVars
  <2>12. ClientsHaveMetas' /\ LeavingSound'
    BY <1>1 DEF IInv, ClientsHaveMetas, LeavingSound, clientVars, taskVars
  <2> QED
    BY <2>7, <2>8, <2>10, <2>11, <2>12 DEF IInv, DirectoryStep, NamesLeft
<1> QED
  BY <1>2, <1>3

\* inner_publish_topic, whatever became of add_topic and the announcements.
LEMMA PublishWithInv ==
  ASSUME IInv, leaving = None,
         NEW c \in ClientIdx, NEW u \in PubUIDs, NEW n \in Names,
         NEW out \in [reg : Registry, sent : SUBSET (ClientIdx \X TopicIdx),
                      ok : BOOLEAN],
         RegistryInv(out.reg), ListsIn(out.reg, Known), Grown(reg, out.reg),
         out.reg.topic_map[n] \in TopicIdx, out.ok => c \in connected,
         PublishWith(c, u, n, out),
         UNCHANGED <<clientVars, connected, subVars, taskVars>>,
         sub_values' \in [SubIdx -> (SUBSET TopicIdx) \cup {None}],
         \A s \in SubIdx : sub_values[s] \in SUBSET TopicIdx => sub_values'[s] \in SUBSET TopicIdx
  PROVE  IInv' /\ DirectoryStep
<1> DEFINE m == PublisherMeta(c)
<1>1. /\ reg' \in Registry
      /\ RegistryInv(reg') /\ ListsIn(reg', Known) /\ Grown(reg, reg')
  <2>1. CASE out.ok
    <3>1. m \in TopicIdx
      BY <2>1, PublisherMetaFacts
    <3>2. reg' = [out.reg EXCEPT !.publishers[m] = @ \cup {<<n, u>>}]
      BY <2>1 DEF PublishWith
    <3> HIDE DEF m
    <3> DEFINE P == [out.reg.publishers EXCEPT ![m] = @ \cup {<<n, u>>}]
    <3>3. P \in [TopicIdx -> SUBSET (Names \X PubUIDs)]
      BY <3>1, RegistryFields
    <3>4. reg' = [out.reg EXCEPT !.publishers = P]
      BY <3>2
    <3> HIDE DEF P
    <3>5. /\ reg' \in Registry
          /\ reg'.topics = out.reg.topics /\ reg'.topic_map = out.reg.topic_map
          /\ reg'.next = out.reg.next /\ reg'.topic_sub_map = out.reg.topic_sub_map
          /\ reg'.pub_count = out.reg.pub_count /\ reg'.valued = out.reg.valued
      BY <3>3, <3>4 DEF Registry
    <3>6. RegistryInv(reg')
      BY <3>5, QuietInv
    <3> QED
      BY <3>5, <3>6 DEF ListsIn, Grown
  <2>2. CASE ~out.ok
    BY <2>2 DEF PublishWith
  <2> QED
    BY <2>1, <2>2
<1>2. pubs' \in [ClientIdx -> [PubUIDs -> TopicIdx \cup {None}]]
  <2>1. pubs' \in {pubs, [pubs EXCEPT ![c][u] = out.reg.topic_map[n]]}
    BY DEF PublishWith
  <2>2. pubs \in [ClientIdx -> [PubUIDs -> TopicIdx \cup {None}]]
    BY DEF IInv, TypeOK
  <2>3. [pubs EXCEPT ![c][u] = out.reg.topic_map[n]]
          \in [ClientIdx -> [PubUIDs -> TopicIdx \cup {None}]]
    BY <2>2
  <2> QED
    BY <2>1, <2>2, <2>3
<1>3. /\ announced' \subseteq ClientIdx \X TopicIdx
      /\ told' \subseteq ClientIdx \X TopicIdx
  BY DEF PublishWith, IInv, TypeOK
<1>4. TypeOK'
  BY <1>1, <1>2, <1>3 DEF IInv, TypeOK, clientVars, subVars, taskVars
<1>5. ListsIn(reg', Known')
  <2>1. Known \subseteq Known'
    BY DEF Known, subVars
  <2> QED
    BY <1>1, <2>1 DEF ListsIn
<1>6. ClientsHaveMetas' /\ LeavingSound'
  BY DEF IInv, ClientsHaveMetas, LeavingSound, clientVars, taskVars
<1> QED
  BY <1>1, <1>4, <1>5, <1>6 DEF IInv, DirectoryStep

\* A publish message.
LEMMA PublishInv ==
  ASSUME IInv, NEW c \in ClientIdx, NEW u \in PubUIDs, NEW n \in PublishNames,
         NEW fl \in PublishFlags, Publish(c, u, n, fl)
  PROVE  IInv' /\ DirectoryStep
<1>1. PICK out \in PublishOutcomes(c, n, fl) : PublishWith(c, u, n, out)
  BY DEF Publish
<1>2. /\ RoomFor(n) /\ leaving = None
      /\ UNCHANGED <<clientVars, connected, subVars, sub_values, taskVars>>
  BY DEF Publish, ParserIdle
<1>3. n \in Names /\ fl \in SUBSET Flags
  BY ServerAssumption
<1>4. /\ RegistryInv(out.reg) /\ ListsIn(out.reg, Known) /\ Grown(reg, out.reg)
      /\ out.reg.topic_map[n] \in TopicIdx
      /\ out.ok => c \in connected
      /\ out \in [reg : Registry, sent : SUBSET (ClientIdx \X TopicIdx),
                  ok : BOOLEAN]
  BY <1>2, <1>3, PublishOutcomesFacts DEF IInv, TypeOK
<1>5. sub_values' \in [SubIdx -> (SUBSET TopicIdx) \cup {None}]
  BY <1>2 DEF IInv, TypeOK
<1> QED
  BY <1>1, <1>2, <1>3, <1>4, <1>5, PublishWithInv

\* A publish by the server's own handle, and the value it sets.
LEMMA HandlePublishInv ==
  ASSUME IInv, NEW u \in PubUIDs, NEW n \in PublishNames, NEW fl \in PublishFlags,
         HandlePublish(u, n, fl)
  PROVE  IInv' /\ DirectoryStep
<1> DEFINE c == SERVER_CLIENT_IDX
           O == [reg : Registry, sent : SUBSET (ClientIdx \X TopicIdx),
                 ok : BOOLEAN]
           Then(out) ==
             [out EXCEPT !.reg = IF out.ok THEN Valued(@, out.reg.topic_map[n]) ELSE @]
<1>1. PICK out \in PublishOutcomes(c, n, fl) :
        /\ PublishWith(c, u, n, Then(out))
        /\ sub_values' = IF out.ok THEN Queued(out.reg, out.reg.topic_map[n]) ELSE sub_values
  BY DEF HandlePublish
<1>2. /\ RoomFor(n) /\ leaving = None
      /\ UNCHANGED <<clientVars, connected, subVars, taskVars>>
  BY DEF HandlePublish, ClientsFree
<1>3. n \in Names /\ fl \in SUBSET Flags /\ c \in ClientIdx
  BY ServerAssumption, RegistryAssumption DEF SERVER_CLIENT_IDX, ClientIdx
<1> HIDE DEF c
<1>4. /\ RegistryInv(out.reg) /\ ListsIn(out.reg, Known) /\ Grown(reg, out.reg)
      /\ out.reg.topic_map[n] \in TopicIdx
      /\ out.ok => c \in connected
      /\ out \in O
  BY <1>2, <1>3, PublishOutcomesFacts DEF IInv, TypeOK
<1>5. /\ sub_values' \in [SubIdx -> (SUBSET TopicIdx) \cup {None}]
      /\ \A s \in SubIdx :
           sub_values[s] \in SUBSET TopicIdx => sub_values'[s] \in SUBSET TopicIdx
  <2>1. CASE out.ok
    BY <1>1, <1>4, <2>1, QueuedFacts DEF IInv
  <2>2. CASE ~out.ok
    BY <1>1, <2>2 DEF IInv, TypeOK
  <2> QED
    BY <2>1, <2>2
<1> DEFINE then == Then(out)
<1>6. /\ then.reg = (IF out.ok THEN Valued(out.reg, out.reg.topic_map[n]) ELSE out.reg)
      /\ then.sent = out.sent /\ then.ok = out.ok
      /\ then \in [reg : {then.reg}, sent : SUBSET (ClientIdx \X TopicIdx),
                   ok : BOOLEAN]
  BY <1>4
<1> HIDE DEF then, Then
<1>7. /\ RegistryInv(then.reg) /\ ListsIn(then.reg, Known)
      /\ then.reg.topic_map = out.reg.topic_map /\ then.reg.next = out.reg.next
  BY <1>4, <1>6, ValuedFacts
<1>8. /\ Grown(reg, then.reg) /\ then.reg.topic_map[n] \in TopicIdx
      /\ then.reg \in Registry
  BY <1>4, <1>7 DEF Grown, RegistryInv, TablesInv
<1>9. then \in O /\ (then.ok => c \in connected)
  BY <1>4, <1>6, <1>8
<1>10. PublishWith(c, u, n, then)
  BY <1>1 DEF then
<1> HIDE DEF O
<1>11. QED
  BY <1>2, <1>3, <1>5, <1>7, <1>8, <1>9, <1>10, PublishWithInv DEF O

\* inner_unpublish_topic, also where the count underflows, is missing, or the topic
\* cannot be removed.
LEMMA UnpublishInv ==
  ASSUME IInv, NEW c \in ClientIdx, NEW u \in PubUIDs, Unpublish(c, u)
  PROVE  IInv' /\ DirectoryStep
<1> DEFINE i    == pubs[c][u]
           m    == PublisherMeta(c)
           name == reg.topics[i]
           r1   == ReleaseTopic(reg, i)
           r2   == IF reg.pub_count[i] = 1 THEN [r1 EXCEPT !.pub_count[i] = None] ELSE r1
           r3   == [r2 EXCEPT !.publishers[m] = @ \ {<<name, u>>}]
<1>1. /\ leaving = None /\ c \in connected /\ i # None
      /\ pubs' = [pubs EXCEPT ![c][u] = None]
      /\ reg' = reg \/ (reg.pub_count[i] # None /\ reg' \in {r1, r3})
      /\ parser' \in {parser, "panicked"}
      /\ UNCHANGED <<clientVars, connected, subVars, sub_values, leaving, ended, closed,
                     tellVars>>
  BY DEF Unpublish, Unlisted, ParserIdle
<1>2. i \in TopicIdx /\ m \in TopicIdx
  BY <1>1, PublisherMetaFacts DEF IInv, TypeOK
<1> HIDE DEF i, m, name
<1>3. ASSUME reg.pub_count[i] # None
      PROVE  /\ RegistryInv(r1) /\ ListsIn(r1, Known) /\ NamesLeft(reg, r1)
             /\ RegistryInv(r3) /\ ListsIn(r3, Known) /\ NamesLeft(reg, r3)
  <2>1. /\ RegistryInv(r1) /\ ListsIn(r1, Known) /\ NamesLeft(reg, r1)
        /\ reg.pub_count[i] = 1 => r1.topics[i] = None
    BY <1>2, <1>3, ReleaseFacts
  <2> HIDE DEF r1
  <2>2. r1 \in Registry
    BY <2>1 DEF RegistryInv, TablesInv
  <2>3. /\ r2 \in Registry
        /\ r2.topics = r1.topics /\ r2.topic_map = r1.topic_map /\ r2.next = r1.next
        /\ r2.topic_sub_map = r1.topic_sub_map /\ r2.valued = r1.valued
        /\ r2.publishers = r1.publishers
        /\ \A j \in TopicIdx : \/ r2.pub_count[j] = r1.pub_count[j]
                               \/ r2.pub_count[j] = None /\ r1.topics[j] = None
    <3>1. CASE reg.pub_count[i] = 1
      <4> DEFINE P == [r1.pub_count EXCEPT ![i] = None]
      <4>1. r2 = [r1 EXCEPT !.pub_count = P]
        BY <3>1
      <4>2. P \in [TopicIdx -> (0 .. MaxU16) \cup {None}]
        BY <2>2, RegistryFields
      <4>3. \A j \in TopicIdx : P[j] = IF j = i THEN None ELSE r1.pub_count[j]
        BY <2>2, RegistryFields
      <4> HIDE DEF P, r2
      <4>4. r2 \in Registry /\ r2.pub_count = P
        BY <2>2, <4>1, <4>2 DEF Registry
      <4>5. /\ r2.topics = r1.topics /\ r2.topic_map = r1.topic_map /\ r2.next = r1.next
            /\ r2.topic_sub_map = r1.topic_sub_map /\ r2.valued = r1.valued
            /\ r2.publishers = r1.publishers
        BY <2>2, <4>1 DEF Registry
      <4> QED
        BY <2>1, <3>1, <4>3, <4>4, <4>5
    <3>2. CASE reg.pub_count[i] # 1
      BY <2>2, <3>2
    <3> QED
      BY <3>1, <3>2
  <2> HIDE DEF r2
  <2>4. RegistryInv(r2)
    BY <2>1, <2>3, QuietInv
  <2> DEFINE P == [r2.publishers EXCEPT ![m] = @ \ {<<name, u>>}]
  <2>5. r3 = [r2 EXCEPT !.publishers = P]
    OBVIOUS
  <2>6. P \in [TopicIdx -> SUBSET (Names \X PubUIDs)]
    BY <2>3, RegistryFields
  <2> HIDE DEF P, r3
  <2>7. /\ r3 \in Registry
        /\ r3.topics = r2.topics /\ r3.topic_map = r2.topic_map /\ r3.next = r2.next
        /\ r3.topic_sub_map = r2.topic_sub_map /\ r3.valued = r2.valued
        /\ r3.pub_count = r2.pub_count
    BY <2>3, <2>5, <2>6 DEF Registry
  <2>8. RegistryInv(r3)
    BY <2>4, <2>7, QuietInv
  <2> QED
    BY <2>1, <2>3, <2>7, <2>8 DEF ListsIn, NamesLeft
<1> HIDE DEF r1, r3
<1>4. RegistryInv(reg') /\ ListsIn(reg', Known) /\ NamesLeft(reg, reg')
  BY <1>1, <1>3 DEF IInv, NamesLeft
<1>5. TypeOK'
  <2>1. reg' \in Registry
    BY <1>4 DEF RegistryInv, TablesInv
  <2>2. pubs' \in [ClientIdx -> [PubUIDs -> TopicIdx \cup {None}]]
    BY <1>1 DEF IInv, TypeOK
  <2> QED
    BY <1>1, <2>1, <2>2 DEF IInv, TypeOK, clientVars, subVars, tellVars
<1>6. Known' = Known
  BY <1>1 DEF Known, subVars
<1>7. ClientsHaveMetas' /\ LeavingSound'
  BY <1>1 DEF IInv, ClientsHaveMetas, LeavingSound, clientVars
<1> QED
  BY <1>4, <1>5, <1>6, <1>7 DEF IInv, DirectoryStep

\* Changing the members of the lists of subscriptions, and no list's being there,
\* keeps the tables sound.
LEMMA ListsChanged ==
  ASSUME NEW r, RegistryInv(r),
         NEW f \in [TopicIdx -> (SUBSET SubIdx) \cup {None}],
         \A j \in TopicIdx : f[j] = None <=> r.topic_sub_map[j] = None,
         NEW s, s = [r EXCEPT !.topic_sub_map = f]
  PROVE  /\ s \in Registry /\ RegistryInv(s)
         /\ s.topic_sub_map = f /\ s.topic_map = r.topic_map /\ s.next = r.next
<1>1. r \in Registry
  BY DEF RegistryInv, TablesInv
<1>2. /\ s \in Registry
      /\ s.topics = r.topics /\ s.topic_map = r.topic_map /\ s.next = r.next
      /\ s.topic_sub_map = f /\ s.valued = r.valued /\ s.pub_count = r.pub_count
  BY <1>1 DEF Registry
<1>3. RegistryInv(s)
  BY <1>2, QuietInv
<1> QED
  BY <1>2, <1>3

\* subscribe, which finds a list for every name it covers.
LEMMA SubscribeInv ==
  ASSUME IInv, NEW c \in ClientIdx, NEW w \in SubUIDs, NEW pat \in Patterns,
         Subscribe(c, w, pat)
  PROVE  IInv' /\ DirectoryStep
<1> DEFINE s      == next_sub
           wanted == {reg.topic_map[n] : n \in Matches[pat]} \ {None}
           lists  == [i \in TopicIdx |-> IF i \in wanted THEN reg.topic_sub_map[i] \cup {s}
                                         ELSE reg.topic_sub_map[i]]
<1>0. reg \in Registry
  BY DEF IInv, TypeOK
<1>1. /\ s \in SubIdx /\ next_sub' = s + 1 /\ s + 1 \in 0 .. MaxSubs
      /\ reg' = [reg EXCEPT !.topic_sub_map = lists]
      /\ sub_values' = [sub_values EXCEPT ![s] = {}]
      /\ subscriptions' = [subscriptions EXCEPT ![s] = [client |-> c, pattern |-> pat]]
      /\ subs' = [subs EXCEPT ![c][w] = s]
      /\ UNCHANGED <<clientVars, connected, pubs, taskVars, announced>>
  BY RegistryAssumption DEF Subscribe, IInv, TypeOK, SubIdx
<1>2. Matches[pat] \subseteq Names
  BY ServerAssumption
<1>3. \A i \in wanted : i \in TopicIdx /\ reg.topic_sub_map[i] \in SUBSET SubIdx
  BY <1>0, <1>2, RegistryFields DEF IInv, RegistryInv, TablesInv, HasVector
<1> DEFINE heard == {c} \X {reg.topic_map[n] : n \in Announceable(pat)}
<1>4. heard \subseteq ClientIdx \X TopicIdx
  <2>1. \A n \in Announceable(pat) : n \in Names /\ reg.topic_map[n] # None
    BY <1>2 DEF Announceable
  <2> QED
    BY <1>0, <2>1, RegistryFields
<1>4a. told' = told \/ told' = told \cup heard
  BY DEF Subscribe
<1> HIDE DEF s, wanted, heard
<1>5. /\ lists \in [TopicIdx -> (SUBSET SubIdx) \cup {None}]
      /\ \A i \in TopicIdx : lists[i] = None <=> reg.topic_sub_map[i] = None
      /\ \A i \in TopicIdx : lists[i] # None => lists[i] \subseteq reg.topic_sub_map[i] \cup {s}
      /\ \A i \in TopicIdx : lists[i] # None => reg.topic_sub_map[i] # None
  <2>1. \A i \in wanted : reg.topic_sub_map[i] \cup {s} \in SUBSET SubIdx
    BY <1>1, <1>3
  <2>2. \A i \in wanted : reg.topic_sub_map[i] # None /\ reg.topic_sub_map[i] \cup {s} # None
    BY <1>3, <2>1, NoneIsNothing
  <2> QED
    BY <1>0, <2>1, <2>2, RegistryFields
<1> HIDE DEF lists
<1>6. /\ reg' \in Registry /\ RegistryInv(reg')
      /\ reg'.topic_sub_map = lists /\ reg'.topic_map = reg.topic_map /\ reg'.next = reg.next
  BY <1>1, <1>5, ListsChanged DEF IInv
<1>7. /\ sub_values' \in [SubIdx -> (SUBSET TopicIdx) \cup {None}]
      /\ subscriptions' \in [SubIdx -> [client : ClientIdx, pattern : Patterns] \cup {None}]
      /\ subs' \in [ClientIdx -> [SubUIDs -> SubIdx \cup {None}]]
  <2>1. [client |-> c, pattern |-> pat] \in [client : ClientIdx, pattern : Patterns]
    OBVIOUS
  <2>2. sub_values' \in [SubIdx -> (SUBSET TopicIdx) \cup {None}]
    BY <1>1 DEF IInv, TypeOK
  <2>3. subscriptions' \in [SubIdx -> [client : ClientIdx, pattern : Patterns] \cup {None}]
    BY <1>1, <2>1 DEF IInv, TypeOK
  <2>4. subs' \in [ClientIdx -> [SubUIDs -> SubIdx \cup {None}]]
    BY <1>1 DEF IInv, TypeOK
  <2> QED
    BY <2>2, <2>3, <2>4
<1>8. TypeOK'
  <2>1. told' \subseteq ClientIdx \X TopicIdx
    BY <1>4, <1>4a DEF IInv, TypeOK
  <2> QED
    BY <1>1, <1>6, <1>7, <2>1 DEF IInv, TypeOK, clientVars, taskVars
<1>9. Known \cup {s} \subseteq Known'
  <2>1. s \in Known'
    BY <1>1 DEF Known, IInv, TypeOK
  <2>2. ASSUME NEW x \in Known, x # s  PROVE x \in Known'
    BY <1>1, <2>2 DEF Known, IInv, TypeOK
  <2> QED
    BY <2>1, <2>2
<1>10. ListsIn(reg', Known')
  BY <1>5, <1>6, <1>9 DEF IInv, ListsIn
<1>11. ClientsHaveMetas' /\ LeavingSound'
  BY <1>1 DEF IInv, ClientsHaveMetas, LeavingSound, clientVars, taskVars
<1> QED
  BY <1>6, <1>8, <1>10, <1>11 DEF IInv, DirectoryStep, NamesLeft

\* unsubscribe, which takes the subscription out of every list.
LEMMA UnsubscribeInv ==
  ASSUME IInv, NEW c \in ClientIdx, NEW w \in SubUIDs, Unsubscribe(c, w)
  PROVE  IInv' /\ DirectoryStep
<1> DEFINE s     == subs[c][w]
           lists == [i \in TopicIdx |-> IF reg.topic_sub_map[i] = None THEN None
                                        ELSE reg.topic_sub_map[i] \ {s}]
<1>0. reg \in Registry
  BY DEF IInv, TypeOK
<1>1. /\ s \in SubIdx
      /\ subs' = [subs EXCEPT ![c][w] = None]
      /\ reg' = [reg EXCEPT !.topic_sub_map = lists]
      /\ subscriptions' = [subscriptions EXCEPT ![s] = None]
      /\ sub_values' = [sub_values EXCEPT ![s] = None]
      /\ UNCHANGED <<next_sub, clientVars, connected, pubs, taskVars, tellVars>>
  BY DEF Unsubscribe, IInv, TypeOK
<1> HIDE DEF s
<1>2. /\ lists \in [TopicIdx -> (SUBSET SubIdx) \cup {None}]
      /\ \A i \in TopicIdx : lists[i] = None <=> reg.topic_sub_map[i] = None
      /\ \A i \in TopicIdx : lists[i] # None => lists[i] = reg.topic_sub_map[i] \ {s}
  BY <1>0, NoneIsNothing, RegistryFields
<1> HIDE DEF lists
<1>3. /\ reg' \in Registry /\ RegistryInv(reg')
      /\ reg'.topic_sub_map = lists /\ reg'.topic_map = reg.topic_map /\ reg'.next = reg.next
  BY <1>1, <1>2, ListsChanged DEF IInv
<1>4. TypeOK'
  <2>1. subs' \in [ClientIdx -> [SubUIDs -> SubIdx \cup {None}]]
    BY <1>1 DEF IInv, TypeOK
  <2>2. subscriptions' \in [SubIdx -> [client : ClientIdx, pattern : Patterns] \cup {None}]
    BY <1>1 DEF IInv, TypeOK
  <2>3. sub_values' \in [SubIdx -> (SUBSET TopicIdx) \cup {None}]
    BY <1>1 DEF IInv, TypeOK
  <2> QED
    BY <1>1, <1>3, <2>1, <2>2, <2>3 DEF IInv, TypeOK, clientVars, taskVars, tellVars
<1>5. Known \ {s} \subseteq Known'
  BY <1>1 DEF Known, IInv, TypeOK
<1>6. ListsIn(reg', Known')
  BY <1>2, <1>3, <1>5 DEF IInv, ListsIn
<1>7. ClientsHaveMetas' /\ LeavingSound'
  BY <1>1 DEF IInv, ClientsHaveMetas, LeavingSound, clientVars, taskVars
<1> QED
  BY <1>3, <1>4, <1>6, <1>7 DEF IInv, DirectoryStep, NamesLeft

--------------------------------------------------------------------------------

\* Every step keeps the invariant, and names come on fresh indices or go.
LEMMA NextInv == IInv /\ [Next]_vars => IInv' /\ DirectoryStep
<1> SUFFICES ASSUME IInv, [Next]_vars  PROVE IInv' /\ DirectoryStep
  OBVIOUS
<1>1. ASSUME NEW asked \in AskedNames, Connect(asked)  PROVE IInv' /\ DirectoryStep
  BY <1>1, ConnectInv
<1>2. ASSUME NEW c \in ClientIdx, ConnectionEnds(c) \/ CloseDropped(c) \/ CloseHandled(c)
      PROVE  IInv' /\ DirectoryStep
  BY <1>2, EndingsInv, CloseHandledInv
<1>3. CASE DisconnectStep
  BY <1>3, DisconnectStepInv
<1>4. CASE DisconnectMetas
  BY <1>4, DisconnectMetasInv
<1>5. ASSUME NEW c \in ClientIdx, NEW u \in PubUIDs, NEW n \in PublishNames,
             NEW fl \in PublishFlags, Publish(c, u, n, fl)
      PROVE  IInv' /\ DirectoryStep
  BY <1>5, PublishInv
<1>6. ASSUME NEW u \in PubUIDs, NEW n \in PublishNames, NEW fl \in PublishFlags,
             HandlePublish(u, n, fl)
      PROVE  IInv' /\ DirectoryStep
  BY <1>6, HandlePublishInv
<1>7. ASSUME NEW c \in ClientIdx, NEW u \in PubUIDs, Unpublish(c, u) \/ SetValue(c, u)
      PROVE  IInv' /\ DirectoryStep
  BY <1>7, UnpublishInv, SetValueInv
<1>8. ASSUME NEW n \in PublishNames, NEW p \in PropertyUpdates, SetProperties(n, p[1], p[2])
      PROVE  IInv' /\ DirectoryStep
  BY <1>8, SetPropertiesInv
<1>9. ASSUME NEW c \in ClientIdx, NEW w \in SubUIDs, NEW pat \in Patterns, Subscribe(c, w, pat)
      PROVE  IInv' /\ DirectoryStep
  BY <1>9, SubscribeInv
<1>10. ASSUME NEW c \in ClientIdx, NEW w \in SubUIDs, Unsubscribe(c, w)
       PROVE  IInv' /\ DirectoryStep
  BY <1>10, UnsubscribeInv
<1>11. ASSUME NEW s \in SubIdx, SendOut(s)  PROVE IInv' /\ DirectoryStep
  BY <1>11, SendOutInv
<1>12. CASE UNCHANGED vars
  <2>1. TypeOK'
    BY <1>12 DEF IInv, TypeOK, vars, clientVars, subVars, taskVars, tellVars
  <2> QED
    BY <1>12, <2>1, CalmStep DEF vars, clientVars, subVars, taskVars, IInv, TypeOK
<1> QED
  BY <1>1, <1>2, <1>3, <1>4, <1>5, <1>6, <1>7, <1>8, <1>9, <1>10, <1>11, <1>12 DEF Next

\* The inductive invariant holds.
THEOREM ServerInvariant == Spec => []IInv
<1>1. Init => IInv
  BY InitInv
<1>2. IInv /\ [Next]_vars => IInv'
  BY NextInv
<1> QED
  BY <1>1, <1>2, PTL DEF Spec

\* Every table of InnerServer holds what its Rust type says, whatever the order of
\* messages, and however a publish, an unpublish or a disconnect is cut short.
THEOREM TablesTyped == Spec => []TypeOK
<1>1. IInv => TypeOK
  BY DEF IInv
<1> QED
  BY <1>1, ServerInvariant, PTL

\* A topic that is there counts one or two publishers: remove_topic runs on the way
\* to 0, so a count that underflows belongs to no topic.
THEOREM LiveTopicsCounted == Spec => []LiveTopicCounted
<1>1. IInv => LiveTopicCounted
  BY DEF IInv, RegistryInv, Counted, LiveTopicCounted
<1> QED
  BY <1>1, ServerInvariant, PTL

\* Neither the early return of subscribe nor the first unwrap of set_value is ever
\* met: an index that is still known has a list of subscriptions.
THEOREM MappedTopicsHaveLists == Spec => []MappedHasVector
<1>1. IInv => MappedHasVector
  <2> SUFFICES ASSUME IInv, NEW i \in TopicIdx,
                      reg.topics[i] # None \/ \E n \in Names : reg.topic_map[n] = i
               PROVE  reg.topic_sub_map[i] # None
    BY DEF MappedHasVector
  <2> QED
    BY NoneIsNothing DEF IInv, RegistryInv, TablesInv, HasVector
<1> QED
  BY <1>1, ServerInvariant, PTL

\* A topic notifies only subscriptions that exist and have a queue: the second unwrap
\* of set_value and the expect of send_out never panic.
THEOREM NotifiedSubscribersKnown == Spec => []SubscribersKnown
<1>1. IInv => SubscribersKnown
  <2> SUFFICES ASSUME IInv, NEW i \in TopicIdx, NEW s \in SubIdx,
                      reg.topic_sub_map[i] # None, s \in reg.topic_sub_map[i]
               PROVE  subscriptions[s] # None /\ sub_values[s] # None
    BY DEF SubscribersKnown
  <2>1. s \in Known
    BY DEF IInv, ListsIn
  <2> QED
    BY <2>1, ServerAssumption DEF Known
<1> QED
  BY <1>1, ServerInvariant, PTL

\* Names that come on fresh indices are bound to ids that were never used.
LEMMA GrownBinds ==
  ASSUME IInv, IInv', Grown(reg, reg')
  PROVE  Directory!Bind
<1> DEFINE ids == {reg.topic_map[n] : n \in Names}
<1>1. /\ reg \in Registry /\ reg' \in Registry
      /\ OnlyHandedOut(reg) /\ OneNamePerIndex(reg')
  BY DEF IInv, RegistryInv, TablesInv
<1>2. reg.next \in Nat /\ reg'.next \in Nat /\ reg.next <= reg'.next
  BY <1>1, RegistryFields, RegistryAssumption DEF Grown
<1>3. reg'.topic_map \in [Names -> TopicIdx \cup {None}]
  BY <1>1, RegistryFields
<1>4. Directory!OneNamePerId(reg'.topic_map)
  BY <1>1 DEF Directory!OneNamePerId, OneNamePerIndex
<1>5. ASSUME NEW n \in Names, reg'.topic_map[n] # reg.topic_map[n]
      PROVE  /\ reg.topic_map[n] = None
             /\ reg'.topic_map[n] \notin
                  Directory!Used(reg.topic_map) \cup ((0 .. (reg.next - 1)) \ ids)
  <2>1. reg.topic_map[n] = None /\ reg'.topic_map[n] \in reg.next .. (reg'.next - 1)
    BY <1>5 DEF Grown
  <2>2. reg'.topic_map[n] \in Nat /\ reg'.topic_map[n] >= reg.next
    BY <1>2, <2>1
  <2>3. ASSUME NEW m \in Names, reg.topic_map[m] # None
        PROVE  reg.topic_map[m] # reg'.topic_map[n]
    <3>1. reg.topic_map[m] < reg.next
      BY <1>1, <2>3 DEF OnlyHandedOut
    <3> QED
      BY <1>2, <2>2, <3>1
  <2>4. reg'.topic_map[n] \notin 0 .. (reg.next - 1)
    BY <1>2, <2>2
  <2> QED
    BY <2>1, <2>3, <2>4 DEF Directory!Used
<1>6. (0 .. (reg'.next - 1)) \ {reg'.topic_map[n] : n \in Names} = (0 .. (reg.next - 1)) \ ids
  <2>1. ASSUME NEW i \in 0 .. (reg'.next - 1), \A n \in Names : reg'.topic_map[n] # i
        PROVE  i \in (0 .. (reg.next - 1)) \ ids
    <3>1. i \notin reg.next .. (reg'.next - 1)
      BY <2>1 DEF Grown
    <3>2. i \in 0 .. (reg.next - 1)
      BY <1>2, <3>1
    <3>3. ASSUME NEW n \in Names, reg.topic_map[n] = i  PROVE FALSE
      <4>1. reg.topic_map[n] # None
        BY <3>3, NoneIsNothing
      <4>2. reg'.topic_map[n] = reg.topic_map[n]
        BY <4>1 DEF Grown
      <4> QED
        BY <2>1, <3>3, <4>2
    <3> QED
      BY <3>2, <3>3
  <2>2. ASSUME NEW i \in 0 .. (reg.next - 1), i \notin ids
        PROVE  i \in 0 .. (reg'.next - 1) /\ \A n \in Names : reg'.topic_map[n] # i
    <3>1. i \in 0 .. (reg'.next - 1)
      BY <1>2
    <3>2. ASSUME NEW n \in Names, reg'.topic_map[n] = i  PROVE FALSE
      <4>1. reg'.topic_map[n] # reg.topic_map[n]
        BY <2>2, <3>2
      <4>2. reg'.topic_map[n] \in reg.next .. (reg'.next - 1)
        BY <4>1 DEF Grown
      <4> QED
        BY <1>2, <3>2, <4>2
    <3> QED
      BY <3>1, <3>2
  <2> QED
    BY <2>1, <2>2
<1> QED
  BY <1>3, <1>4, <1>5, <1>6 DEF Directory!Bind

\* Names that go leave their ids retired.
LEMMA LeftUnbinds ==
  ASSUME IInv, IInv', NamesLeft(reg, reg')
  PROVE  Directory!Unbind
<1> DEFINE ids  == {reg.topic_map[n] : n \in Names}
           ids1 == {reg'.topic_map[n] : n \in Names}
<1>1. /\ reg \in Registry /\ reg' \in Registry /\ OnlyHandedOut(reg)
      /\ reg'.next = reg.next
  BY DEF IInv, RegistryInv, TablesInv, NamesLeft
<1>2. reg.next \in Nat
  BY <1>1, RegistryFields, RegistryAssumption
<1>3. reg'.topic_map \in [Names -> TopicIdx \cup {None}]
  BY <1>1, RegistryFields
<1>4. \A n \in Names : reg'.topic_map[n] # reg.topic_map[n] => reg'.topic_map[n] = None
  BY DEF NamesLeft
<1>5. ids1 \subseteq ids \cup {None}
  BY DEF NamesLeft
<1>6. ids \ {None} \subseteq 0 .. (reg.next - 1)
  <2>1. ASSUME NEW n \in Names, reg.topic_map[n] # None
        PROVE  reg.topic_map[n] \in 0 .. (reg.next - 1)
    <3>1. reg.topic_map[n] < reg.next
      BY <1>1, <2>1 DEF OnlyHandedOut
    <3>2. reg.topic_map[n] \in Nat
      BY <1>1, <2>1, RegistryFields, RegistryAssumption DEF TopicIdx
    <3> QED
      BY <1>2, <3>1, <3>2
  <2> QED
    BY <2>1
<1>7. None \notin 0 .. (reg.next - 1)
  BY <1>2, NoneIsNothing
<1> HIDE DEF ids, ids1
<1>8. (0 .. (reg.next - 1)) \ ids1
        = ((0 .. (reg.next - 1)) \ ids) \cup ((ids \ {None}) \ (ids1 \ {None}))
  BY <1>5, <1>6, <1>7
<1> QED
  BY <1>1, <1>3, <1>4, <1>8 DEF Directory!Unbind, Directory!Used, ids, ids1

\* The server implements the directory: an id stands for one name, and an id whose
\* name is gone never stands for a name again, though removals stop halfway.
THEOREM TopicIdsNeverReused == Spec => DirectorySpec
<1>1. Init => Directory!Init
  <2> SUFFICES ASSUME Init  PROVE Directory!Init
    OBVIOUS
  <2>1. IInv /\ Grown(EmptyRegistry, reg) /\ EmptyRegistry.next = 0
    BY InitInv, EmptyRegistryInv
  <2>2. reg \in Registry /\ OneNamePerIndex(reg)
    BY <2>1 DEF IInv, RegistryInv, TablesInv
  <2>3. (0 .. (reg.next - 1)) \ {reg.topic_map[n] : n \in Names} = {}
    BY <2>1 DEF Grown
  <2> QED
    BY <2>2, <2>3, RegistryFields
    DEF Directory!Init, Directory!TypeOK, Directory!OneNamePerId, OneNamePerIndex
<1>2. IInv /\ IInv' /\ [Next]_vars => Directory!Next
  BY NextInv, GrownBinds, LeftUnbinds DEF Directory!Next, DirectoryStep
<1> QED
  BY <1>1, <1>2, ServerInvariant, PTL DEF Spec, DirectorySpec, Directory!Spec
================================================================================
