-------------------------- MODULE ServerLocksProofs ---------------------------
(***************************************************************************)
(* Proofs about ServerLocks, for any number of connections and of tasks    *)
(* that use a server handle.                                               *)
(***************************************************************************)
EXTENDS ServerLocks, TLAPS

\* The order in which every task but the parser takes locks; those it waits for
\* last, with others held, have the same place.
Rank(l) ==
  CASE l \in {"topics", "subscriptions"} -> 1
    [] l = "sub_values"                  -> 2
    [] l = "sub_send_timestamps"         -> 3
    [] l = "clients"                     -> 4
    [] l = "counters"                    -> 5
    [] OTHER                             -> 6

\* Task t, which holds K, may come to point pt.
Allowed(t, K, pt) ==
  /\ pt.keep \subseteq K \cup {pt.take}
  /\ pt.take \notin K
  /\ K \cap {"client_map", "metatopic_value_map"} = {}
  /\ t # Parser => \A h \in K : Rank(h) < Rank(pt.take)
  /\ t \notin Connecting => "counters" \notin K
  /\ t \in Connecting /\ K # {} =>
       pt.take \in {"counters", "client_map", "metatopic_value_map"}

\* p leads task t from holding K to holding M through allowed points only.
Good(t, p, K, M) ==
  /\ p \in Seq(Points)
  /\ p # <<>>
  /\ Allowed(t, K, p[1])
  /\ \A i \in 1 .. Len(p), k \in Nat :
       k \in {0, p[i].skip} =>
         IF i + k + 1 <= Len(p) THEN Allowed(t, p[i].keep, p[i + k + 1])
         ELSE i + k = Len(p) /\ p[i].keep = M

\* What every task has before it is allowed, and an idle task holds nothing.
IInv ==
  /\ TypeOK
  /\ \A t \in Tasks : IF todo[t] = <<>> THEN held[t] = {}
                      ELSE Good(t, todo[t], held[t], {})

--------------------------------------------------------------------------------
\* Lists of points

LEMMA GoodConcat ==
  ASSUME NEW t, NEW p, NEW q, NEW K, NEW L, NEW M, Good(t, p, K, L), Good(t, q, L, M)
  PROVE  Good(t, p \o q, K, M)
<1> DEFINE r == p \o q
<1>1. r \in Seq(Points) /\ r # <<>> /\ Len(r) = Len(p) + Len(q)
  BY DEF Good
<1>2. /\ \A i \in 1 .. Len(p) : r[i] = p[i]
      /\ \A i \in 1 .. Len(q) : r[Len(p) + i] = q[i]
  BY DEF Good
<1>3. Len(p) \in Nat \ {0} /\ Len(q) \in Nat \ {0}
  BY DEF Good
<1>4. Allowed(t, K, r[1])
  BY <1>2, <1>3 DEF Good
<1>p. \A i \in 1 .. Len(p), k \in Nat : k \in {0, p[i].skip} =>
         IF i + k + 1 <= Len(p) THEN Allowed(t, p[i].keep, p[i + k + 1])
         ELSE i + k = Len(p) /\ p[i].keep = L
  BY DEF Good
<1>q. \A i \in 1 .. Len(q), k \in Nat : k \in {0, q[i].skip} =>
         IF i + k + 1 <= Len(q) THEN Allowed(t, q[i].keep, q[i + k + 1])
         ELSE i + k = Len(q) /\ q[i].keep = M
  BY DEF Good
<1>l. Allowed(t, L, q[1])
  BY DEF Good
<1> HIDE DEF r
<1>5. ASSUME NEW i \in 1 .. Len(r), NEW k \in Nat, k \in {0, r[i].skip}
      PROVE  IF i + k + 1 <= Len(r) THEN Allowed(t, r[i].keep, r[i + k + 1])
             ELSE i + k = Len(r) /\ r[i].keep = M
  <2>1. CASE i <= Len(p)
    <3>1. i \in 1 .. Len(p) /\ r[i] = p[i]
      BY <2>1, <1>2, <1>3
    <3>2. CASE i + k + 1 <= Len(p)
      <4>1. i + k + 1 \in 1 .. Len(p) /\ r[i + k + 1] = p[i + k + 1]
        BY <3>2, <3>1, <1>2, <1>3
      <4>2. Allowed(t, p[i].keep, p[i + k + 1])
        BY <1>p, <3>1, <3>2, <1>5
      <4> QED BY <4>1, <4>2, <3>1, <3>2, <1>1, <1>3
    <3>3. CASE ~(i + k + 1 <= Len(p))
      <4>1. i + k = Len(p) /\ p[i].keep = L
        BY <1>p, <3>3, <3>1, <1>5
      <4>2. i + k + 1 = Len(p) + 1 /\ 1 \in 1 .. Len(q) /\ i + k + 1 <= Len(r)
        BY <4>1, <1>1, <1>3
      <4>3. r[i + k + 1] = q[1]
        BY <4>2, <1>2
      <4> QED BY <4>1, <4>2, <4>3, <3>1, <1>l
    <3> QED BY <3>2, <3>3
  <2>2. CASE ~(i <= Len(p))
    <3> DEFINE j == i - Len(p)
    <3>0. j \in 1 .. Len(q) /\ i = Len(p) + j
      BY <2>2, <1>1, <1>3
    <3> HIDE DEF j
    <3>1. r[i] = q[j]
      BY <3>0, <1>2
    <3>2. IF j + k + 1 <= Len(q) THEN Allowed(t, q[j].keep, q[j + k + 1])
          ELSE j + k = Len(q) /\ q[j].keep = M
      BY <3>0, <3>1, <1>5, <1>q
    <3>3. CASE j + k + 1 <= Len(q)
      <4>1. j + k + 1 \in 1 .. Len(q) /\ i + k + 1 = Len(p) + (j + k + 1)
        BY <3>0, <3>3, <1>3
      <4>2. r[i + k + 1] = q[j + k + 1]
        BY <4>1, <1>2
      <4>3. i + k + 1 <= Len(r)
        BY <3>0, <3>3, <1>1, <1>3
      <4> QED BY <3>1, <3>2, <3>3, <4>2, <4>3
    <3>4. CASE ~(j + k + 1 <= Len(q))
      <4>1. ~(i + k + 1 <= Len(r)) /\ i + k = Len(r)
        BY <3>0, <3>2, <3>4, <1>1, <1>3
      <4> QED BY <3>1, <3>2, <3>4, <4>1
    <3> QED BY <3>3, <3>4
  <2> QED BY <2>1, <2>2
<1>6. \A i \in 1 .. Len(r), k \in Nat : k \in {0, r[i].skip} =>
         IF i + k + 1 <= Len(r) THEN Allowed(t, r[i].keep, r[i + k + 1])
         ELSE i + k = Len(r) /\ r[i].keep = M
  BY <1>5
<1>7. Good(t, r, K, M)
  BY <1>1, <1>4, <1>6 DEF Good
<1> QED BY <1>7 DEF r

\* A point from which the whole of q may be skipped, if q changes nothing in the end.
LEMMA GoodBranch ==
  ASSUME NEW t, NEW pt \in Points, NEW q, NEW K, pt.skip = Len(q),
         Allowed(t, K, pt), Good(t, q, pt.keep, pt.keep)
  PROVE  Good(t, << pt >> \o q, K, pt.keep)
<1> DEFINE r == << pt >> \o q
           M == pt.keep
<1>1. q \in Seq(Points) /\ Len(q) \in Nat \ {0} /\ << pt >> \in Seq(Points) /\ Len(<< pt >>) = 1
  BY DEF Good
<1>2. r \in Seq(Points) /\ r # <<>> /\ Len(r) = 1 + Len(q) /\ r[1] = pt
  BY <1>1
<1>3. \A i \in 1 .. Len(q) : r[1 + i] = q[i]
  BY <1>1
<1>q. \A i \in 1 .. Len(q), k \in Nat : k \in {0, q[i].skip} =>
         IF i + k + 1 <= Len(q) THEN Allowed(t, q[i].keep, q[i + k + 1])
         ELSE i + k = Len(q) /\ q[i].keep = M
  BY DEF Good
<1>l. Allowed(t, M, q[1])
  BY DEF Good
<1> HIDE DEF r, M
<1>m. pt.keep = M
  BY DEF M
<1>4. ASSUME NEW i \in 1 .. Len(r), NEW k \in Nat, k \in {0, r[i].skip}
      PROVE  IF i + k + 1 <= Len(r) THEN Allowed(t, r[i].keep, r[i + k + 1])
             ELSE i + k = Len(r) /\ r[i].keep = M
  <2>1. CASE i = 1
    <3>1. CASE k = 0
      <4>1. r[i + k + 1] = q[1]
        BY <2>1, <3>1, <1>1, <1>3
      <4>2. i + k + 1 <= Len(r)
        BY <2>1, <3>1, <1>1, <1>2
      <4> QED BY <4>1, <4>2, <2>1, <1>2, <1>l, <1>m
    <3>2. CASE k = Len(q)
      BY <2>1, <3>2, <1>1, <1>2, <1>m
    <3> QED BY <3>1, <3>2, <2>1, <1>2, <1>4
  <2>2. CASE i # 1
    <3> DEFINE j == i - 1
    <3>0. j \in 1 .. Len(q) /\ i = 1 + j
      BY <2>2, <1>1, <1>2
    <3> HIDE DEF j
    <3>1. r[i] = q[j]
      BY <3>0, <1>3
    <3>2. IF j + k + 1 <= Len(q) THEN Allowed(t, q[j].keep, q[j + k + 1])
          ELSE j + k = Len(q) /\ q[j].keep = M
      BY <3>0, <3>1, <1>4, <1>q
    <3>3. CASE j + k + 1 <= Len(q)
      <4>1. j + k + 1 \in 1 .. Len(q) /\ i + k + 1 = 1 + (j + k + 1)
        BY <3>0, <3>3, <1>1
      <4>2. r[i + k + 1] = q[j + k + 1]
        BY <4>1, <1>3
      <4>3. i + k + 1 <= Len(r)
        BY <3>0, <3>3, <1>1, <1>2
      <4> QED BY <3>1, <3>2, <3>3, <4>2, <4>3
    <3>4. CASE ~(j + k + 1 <= Len(q))
      <4>1. ~(i + k + 1 <= Len(r)) /\ i + k = Len(r)
        BY <3>0, <3>2, <3>4, <1>1, <1>2
      <4> QED BY <3>1, <3>2, <3>4, <4>1
    <3> QED BY <3>3, <3>4
  <2> QED BY <2>1, <2>2
<1>5. Allowed(t, K, r[1])
  BY <1>2
<1>6. \A i \in 1 .. Len(r), k \in Nat : k \in {0, r[i].skip} =>
         IF i + k + 1 <= Len(r) THEN Allowed(t, r[i].keep, r[i + k + 1])
         ELSE i + k = Len(r) /\ r[i].keep = M
  BY <1>4
<1>7. Good(t, r, K, M)
  BY <1>2, <1>5, <1>6 DEF Good
<1> QED BY <1>7 DEF r, M

\* What is left after a point of a good list.
LEMMA GoodSuffix ==
  ASSUME NEW t, NEW p, NEW K, NEW M, Good(t, p, K, M), NEW k \in Nat, k \in {0, p[1].skip}
  PROVE  LET r == SubSeq(p, k + 2, Len(p))
         IN  /\ r \in Seq(Points)
             /\ IF r = <<>> THEN p[1].keep = M ELSE Good(t, r, p[1].keep, M)
<1> DEFINE r == SubSeq(p, k + 2, Len(p))
<1>1. p \in Seq(Points) /\ Len(p) \in Nat \ {0}
  BY DEF Good
<1>2. IF 1 + k + 1 <= Len(p) THEN Allowed(t, p[1].keep, p[1 + k + 1])
      ELSE 1 + k = Len(p) /\ p[1].keep = M
  BY <1>1 DEF Good
<1>3. CASE ~(k + 2 <= Len(p))
  <2>1. r = <<>>
    BY <1>1, <1>3
  <2> QED BY <2>1, <1>1, <1>2, <1>3
<1>4. CASE k + 2 <= Len(p)
  <2>1. r \in Seq(Points) /\ Len(r) = Len(p) - (k + 1)
    BY <1>1, <1>4
  <2>2. \A i \in 1 .. Len(r) : r[i] = p[i + (k + 1)]
    BY <1>1, <1>4, <2>1
  <2>0. r # <<>>
    <3>2. Len(<<>>) = 0
      OBVIOUS
    <3> HIDE DEF r
    <3>1. Len(r) # 0
      BY <1>1, <1>4, <2>1
    <3> QED BY <3>1, <3>2
  <2>p. \A i \in 1 .. Len(p), n \in Nat : n \in {0, p[i].skip} =>
         IF i + n + 1 <= Len(p) THEN Allowed(t, p[i].keep, p[i + n + 1])
         ELSE i + n = Len(p) /\ p[i].keep = M
    BY DEF Good
  <2> HIDE DEF r
  <2>3. Allowed(t, p[1].keep, r[1])
    BY <1>1, <1>2, <1>4, <2>1, <2>2
  <2>4. ASSUME NEW i \in 1 .. Len(r), NEW n \in Nat, n \in {0, r[i].skip}
        PROVE  IF i + n + 1 <= Len(r) THEN Allowed(t, r[i].keep, r[i + n + 1])
               ELSE i + n = Len(r) /\ r[i].keep = M
    <3> DEFINE j == i + (k + 1)
    <3>0. j \in 1 .. Len(p) /\ j = i + (k + 1)
      BY <1>1, <1>4, <2>1
    <3>1. r[i] = p[j]
      BY <2>2
    <3> HIDE DEF j
    <3>2. IF j + n + 1 <= Len(p) THEN Allowed(t, p[j].keep, p[j + n + 1])
          ELSE j + n = Len(p) /\ p[j].keep = M
      BY <3>0, <3>1, <2>4, <2>p
    <3>3. CASE i + n + 1 <= Len(r)
      <4>1. i + n + 1 \in 1 .. Len(r) /\ (i + n + 1) + (k + 1) = j + n + 1
        BY <2>1, <3>0, <3>3, <1>1, <1>4
      <4>2. r[i + n + 1] = p[j + n + 1]
        BY <4>1, <2>2
      <4>3. j + n + 1 <= Len(p)
        BY <2>1, <3>0, <3>3, <1>1, <1>4
      <4> QED BY <3>1, <3>2, <3>3, <4>2, <4>3
    <3>4. CASE ~(i + n + 1 <= Len(r))
      <4>1. ~(j + n + 1 <= Len(p)) /\ (j + n = Len(p) => i + n = Len(r))
        BY <2>1, <3>0, <3>4, <1>1, <1>4
      <4> QED BY <3>1, <3>2, <3>4, <4>1
    <3> QED BY <3>3, <3>4
  <2>6. \A i \in 1 .. Len(r), n \in Nat : n \in {0, r[i].skip} =>
          IF i + n + 1 <= Len(r) THEN Allowed(t, r[i].keep, r[i + n + 1])
          ELSE i + n = Len(r) /\ r[i].keep = M
    BY <2>4
  <2>5. Good(t, r, p[1].keep, M)
    BY <2>0, <2>1, <2>3, <2>6 DEF Good
  <2> QED BY <2>0, <2>1, <2>5 DEF r
<1> QED BY <1>3, <1>4

LEMMA GoodOne ==
  ASSUME NEW t, NEW K, NEW a \in Points, a.skip = 0, Allowed(t, K, a)
  PROVE  Good(t, << a >>, K, a.keep)
  BY DEF Good

LEMMA GoodTwo ==
  ASSUME NEW t, NEW K, NEW a \in Points, NEW b \in Points, a.skip = 0, b.skip = 0,
         Allowed(t, K, a), Allowed(t, a.keep, b)
  PROVE  Good(t, << a, b >>, K, b.keep)
<1> DEFINE p == << a, b >>
<1>1. p \in Seq(Points) /\ p # <<>> /\ Len(p) = 2 /\ p[1] = a /\ p[2] = b
  OBVIOUS
<1> HIDE DEF p
<1>2. Good(t, p, K, b.keep)
  BY <1>1 DEF Good
<1> QED BY <1>2 DEF p

LEMMA GoodThree ==
  ASSUME NEW t, NEW K, NEW a \in Points, NEW b \in Points, NEW c \in Points,
         a.skip = 0, b.skip = 0, c.skip = 0,
         Allowed(t, K, a), Allowed(t, a.keep, b), Allowed(t, b.keep, c)
  PROVE  Good(t, << a, b, c >>, K, c.keep)
<1>1. Good(t, << a, b >>, K, b.keep) /\ Good(t, << c >>, b.keep, c.keep)
  BY GoodOne, GoodTwo
<1>2. << a, b, c >> = << a, b >> \o << c >>
  OBVIOUS
<1> QED BY <1>1, <1>2, GoodConcat

LEMMA GoodFour ==
  ASSUME NEW t, NEW K, NEW a \in Points, NEW b \in Points, NEW c \in Points, NEW d \in Points,
         a.skip = 0, b.skip = 0, c.skip = 0, d.skip = 0,
         Allowed(t, K, a), Allowed(t, a.keep, b), Allowed(t, b.keep, c), Allowed(t, c.keep, d)
  PROVE  Good(t, << a, b, c, d >>, K, d.keep)
<1>1. Good(t, << a, b >>, K, b.keep) /\ Good(t, << c, d >>, b.keep, d.keep)
  BY GoodTwo
<1>2. << a, b, c, d >> = << a, b >> \o << c, d >>
  OBVIOUS
<1> QED BY <1>1, <1>2, GoodConcat

LEMMA GoodFive ==
  ASSUME NEW t, NEW K, NEW a \in Points, NEW b \in Points, NEW c \in Points, NEW d \in Points,
         NEW e \in Points, a.skip = 0, b.skip = 0, c.skip = 0, d.skip = 0, e.skip = 0,
         Allowed(t, K, a), Allowed(t, a.keep, b), Allowed(t, b.keep, c), Allowed(t, c.keep, d),
         Allowed(t, d.keep, e)
  PROVE  Good(t, << a, b, c, d, e >>, K, e.keep)
<1>1. Good(t, << a, b >>, K, b.keep) /\ Good(t, << c, d, e >>, b.keep, e.keep)
  BY GoodTwo, GoodThree
<1>2. << a, b, c, d, e >> = << a, b >> \o << c, d, e >>
  OBVIOUS
<1> QED BY <1>1, <1>2, GoodConcat

--------------------------------------------------------------------------------
\* The operations

LEMMA InsertGood ==
  ASSUME NEW t \in Tasks
  PROVE  Good(t, Insert, {}, {})
<1> DEFINE a == At("topics", {"topics"})
           b == At("counters", {})
           c == At("pub_count", {})
           d == At("topic_map", {})
           e == At("topic_sub_map", {})
<1>1. /\ a \in Points /\ b \in Points /\ c \in Points /\ d \in Points /\ e \in Points
      /\ a.skip = 0 /\ b.skip = 0 /\ c.skip = 0 /\ d.skip = 0 /\ e.skip = 0
  BY DEF At, Points, Locks
<1>2. Allowed(t, {}, a) /\ Allowed(t, a.keep, b)
  BY DEF At, Allowed, Rank
<1>3. Allowed(t, b.keep, c) /\ Allowed(t, c.keep, d) /\ Allowed(t, d.keep, e)
  BY DEF At, Allowed
<1>4. e.keep = {}
  BY DEF At
<1>5. Good(t, << a, b, c, d, e >>, {}, e.keep)
  <2> HIDE DEF a, b, c, d, e
  <2> QED BY <1>1, <1>2, <1>3, GoodFive
<1> QED BY <1>4, <1>5 DEF Insert

LEMMA AddMetaGood ==
  ASSUME NEW t \in Tasks
  PROVE  Good(t, AddMeta, {}, {})
<1> DEFINE a == AtOrSkip("topic_map", {}, Len(Insert))
<1>1. Good(t, Insert, {}, {})
  BY InsertGood
<1>2. Len(Insert) \in Nat
  BY <1>1 DEF Good
<1>3. a \in Points /\ a.skip = Len(Insert) /\ a.keep = {} /\ Allowed(t, {}, a)
  BY <1>2 DEF AtOrSkip, Points, Locks, Allowed
<1>4. Good(t, << a >> \o Insert, {}, a.keep)
  <2> HIDE DEF a
  <2>1. Good(t, Insert, a.keep, a.keep)
    BY <1>1, <1>3
  <2> QED BY <2>1, <1>3, GoodBranch
<1> QED BY <1>3, <1>4 DEF AddMeta

LEMMA NotifyGood ==
  ASSUME NEW t \in Tasks
  PROVE  Good(t, Notify, {}, {})
<1> DEFINE a == At("subscriptions", {})
           b == AtOrEnd("clients", {})
<1>1. a \in Points /\ b \in Points /\ a.skip = 0 /\ b.skip = 0 /\ b.keep = {}
  BY DEF At, AtOrEnd, Points, Locks
<1>2. Allowed(t, {}, a) /\ Allowed(t, a.keep, b)
  BY DEF At, AtOrEnd, Allowed
<1>3. Good(t, << a, b >>, {}, b.keep)
  <2> HIDE DEF a, b
  <2> QED BY <1>1, <1>2, GoodTwo
<1> QED BY <1>1, <1>3 DEF Notify

LEMMA AnnounceAllGood ==
  ASSUME NEW t \in Tasks
  PROVE  Good(t, AnnounceAll, {}, {})
<1> DEFINE a == AtOrEnd("topics", {})
<1>1. a \in Points /\ a.skip = 0 /\ a.keep = {} /\ Allowed(t, {}, a)
  BY DEF AtOrEnd, Points, Locks, Allowed
<1>2. Good(t, << a >>, {}, {})
  <2> HIDE DEF a
  <2> QED BY <1>1, GoodOne
<1> QED BY <1>2, NotifyGood, GoodConcat DEF AnnounceAll

LEMMA AnnounceToGood ==
  ASSUME NEW t \in Tasks \ Connecting
  PROVE  Good(t, AnnounceTo, {}, {})
<1> DEFINE a == AtOrEnd("topics", {"topics"})
           b == AtOrEnd("clients", {})
<1>1. a \in Points /\ b \in Points /\ a.skip = 0 /\ b.skip = 0 /\ b.keep = {}
  BY DEF AtOrEnd, Points, Locks
<1>2. Allowed(t, {}, a) /\ Allowed(t, a.keep, b)
  BY DEF AtOrEnd, Allowed, Rank
<1>3. Good(t, << a, b >>, {}, {})
  <2> HIDE DEF a, b
  <2> QED BY <1>1, <1>2, GoodTwo
<1> QED BY <1>3, NotifyGood, GoodConcat DEF AnnounceTo

LEMMA AddTopicGood ==
  ASSUME NEW t \in Tasks
  PROVE  Good(t, AddTopic, {}, {})
<1>1. Good(t, AddNew, {}, {})
  <2>1. Good(t, Insert \o AddMeta, {}, {})
    BY InsertGood, AddMetaGood, GoodConcat
  <2>2. Good(t, Insert \o AddMeta \o AnnounceAll, {}, {})
    BY <2>1, AnnounceAllGood, GoodConcat
  <2>3. Good(t, Insert \o AddMeta \o AnnounceAll \o AddMeta, {}, {})
    BY <2>2, AddMetaGood, GoodConcat
  <2> QED BY <2>3, AnnounceAllGood, GoodConcat DEF AddNew
<1> DEFINE a == AtOrSkip("topic_map", {}, Len(AddNew))
<1>2. Len(AddNew) \in Nat
  BY <1>1 DEF Good
<1>3. a \in Points /\ a.skip = Len(AddNew) /\ a.keep = {} /\ Allowed(t, {}, a)
  BY <1>2 DEF AtOrSkip, Points, Locks, Allowed
<1>4. Good(t, << a >> \o AddNew, {}, a.keep)
  <2> HIDE DEF a
  <2>1. Good(t, AddNew, a.keep, a.keep)
    BY <1>1, <1>3
  <2> QED BY <2>1, <1>3, GoodBranch
<1> QED BY <1>3, <1>4 DEF AddTopic

LEMMA PublishGood ==
  ASSUME NEW t \in Tasks \ Connecting, NEW list, Good(t, list, {}, {})
  PROVE  Good(t, PublishThen(list), {}, {})
<1> DEFINE a == AtOrEnd("clients", {})
<1>1. Good(t, AddTopic \o AnnounceTo, {}, {})
  BY AddTopicGood, AnnounceToGood, GoodConcat
<1>2. a \in Points /\ a.skip = 0 /\ a.keep = {} /\ Allowed(t, {}, a)
  BY DEF AtOrEnd, Points, Locks, Allowed
<1>3. Good(t, << a >>, {}, {})
  <2> HIDE DEF a
  <2> QED BY <1>2, GoodOne
<1>4. Good(t, AddTopic \o AnnounceTo \o << a >>, {}, {})
  <2> HIDE DEF a
  <2> QED BY <1>1, <1>3, GoodConcat
<1> QED BY <1>4, GoodConcat DEF PublishThen

LEMMA ListForServerGood ==
  ASSUME NEW t \in Tasks
  PROVE  Good(t, ListForServer, {}, {})
<1> DEFINE a == At("metatopic_value_map", {})
<1>1. a \in Points /\ a.skip = 0 /\ a.keep = {} /\ Allowed(t, {}, a)
  BY DEF At, Points, Locks, Allowed
<1>2. Good(t, << a >>, {}, {})
  <2> HIDE DEF a
  <2> QED BY <1>1, GoodOne
<1> QED BY <1>2 DEF ListForServer

LEMMA ListForClientGood ==
  ASSUME NEW kept \in {{}, {"pub_count"}}
  PROVE  Good(Parser, ListForClient(kept), kept, {})
<1> DEFINE a == AtOrEnd("client_metatopic_map", kept \cup {"client_metatopic_map"})
           b == At("metatopic_value_map", {})
<1>1. a \in Points /\ b \in Points /\ a.skip = 0 /\ b.skip = 0 /\ b.keep = {}
  BY DEF At, AtOrEnd, Points, Locks
<1>2. Allowed(Parser, kept, a) /\ Allowed(Parser, a.keep, b)
  BY TaskAssumption DEF At, AtOrEnd, Allowed
<1>3. Good(Parser, << a, b >>, kept, {})
  <2> HIDE DEF a, b
  <2> QED BY <1>1, <1>2, GoodTwo
<1> QED BY <1>3 DEF ListForClient

LEMMA RemoveTopicGood ==
  ASSUME NEW kept \in SUBSET {"clients", "pub_count"}, NEW after \in SUBSET kept
  PROVE  Good(Parser, RemoveTopic(kept, after), kept, after) /\ Len(RemoveTopic(kept, after)) = 5
<1> DEFINE a == AtOrEnd("topics", kept \cup {"topics"})
           b == AtOrEnd("topic_map", kept)
           c == At("topic_sub_map", kept \cup {"topic_sub_map"})
           d == At("topic_value_map", kept \cup {"topic_sub_map", "topic_value_map"})
           e == At("metatopic_value_map", after)
<1>1. /\ a \in Points /\ b \in Points /\ c \in Points /\ d \in Points /\ e \in Points
      /\ a.skip = 0 /\ b.skip = 0 /\ c.skip = 0 /\ d.skip = 0 /\ e.skip = 0 /\ e.keep = after
  BY DEF At, AtOrEnd, Points, Locks
<1>2. Allowed(Parser, kept, a) /\ Allowed(Parser, a.keep, b) /\ Allowed(Parser, b.keep, c)
  BY TaskAssumption DEF At, AtOrEnd, Allowed
<1>3. Allowed(Parser, c.keep, d) /\ Allowed(Parser, d.keep, e)
  BY TaskAssumption DEF At, AtOrEnd, Allowed
<1>4. Good(Parser, << a, b, c, d, e >>, kept, after)
  <2> HIDE DEF a, b, c, d, e
  <2> QED BY <1>1, <1>2, <1>3, GoodFive
<1>5. Len(<< a, b, c, d, e >>) = 5
  OBVIOUS
<1> QED BY <1>4, <1>5 DEF RemoveTopic

LEMMA UnpublishGood == Good(Parser, Unpublish, {}, {})
<1> DEFINE removal == RemoveTopic({"pub_count"}, {"pub_count"})
           count   == [AtOrEnd("pub_count", {"pub_count"}) EXCEPT !.skip = Len(removal)]
           a       == AtOrEnd("clients", {"clients"})
           b       == At("topics", {})
<1>1. Good(Parser, removal, {"pub_count"}, {"pub_count"}) /\ Len(removal) \in Nat
  BY RemoveTopicGood
<1>2. /\ count \in Points /\ count.skip = Len(removal) /\ count.keep = {"pub_count"}
      /\ Allowed(Parser, {}, count)
  <2> HIDE DEF removal
  <2> QED BY <1>1, TaskAssumption DEF AtOrEnd, Points, Locks, Allowed
<1>3. Good(Parser, << count >> \o removal, {}, {"pub_count"})
  <2> HIDE DEF count, removal
  <2>1. Good(Parser, removal, count.keep, count.keep)
    BY <1>1, <1>2
  <2>2. Good(Parser, << count >> \o removal, {}, count.keep)
    BY <2>1, <1>2, GoodBranch
  <2> QED BY <2>2, <1>2
<1>4. a \in Points /\ b \in Points /\ a.skip = 0 /\ b.skip = 0 /\ b.keep = {}
  BY DEF At, AtOrEnd, Points, Locks
<1>5. Allowed(Parser, {}, a) /\ Allowed(Parser, a.keep, b)
  BY TaskAssumption DEF At, AtOrEnd, Allowed
<1>6. Good(Parser, << a, b >>, {}, {})
  <2> HIDE DEF a, b
  <2> QED BY <1>4, <1>5, GoodTwo
<1>7. Good(Parser, ListForClient({"pub_count"}), {"pub_count"}, {})
  BY ListForClientGood
<1>8. Good(Parser, << a, b >> \o (<< count >> \o removal) \o ListForClient({"pub_count"}), {}, {})
  <2> HIDE DEF a, b, count, removal
  <2>1. Good(Parser, << a, b >> \o (<< count >> \o removal), {}, {"pub_count"})
    BY <1>3, <1>6, GoodConcat
  <2> QED BY <2>1, <1>7, GoodConcat
<1> QED BY <1>8 DEF Unpublish

LEMMA SetPropertiesGood ==
  ASSUME NEW t \in Tasks
  PROVE  Good(t, SetProperties, {}, {})
<1> DEFINE a == AtOrEnd("topic_map", {})
           b == At("topics", {})
<1>1. a \in Points /\ b \in Points /\ a.skip = 0 /\ b.skip = 0 /\ b.keep = {}
  BY DEF At, AtOrEnd, Points, Locks
<1>2. Allowed(t, {}, a) /\ Allowed(t, a.keep, b)
  BY DEF At, AtOrEnd, Allowed
<1>3. Good(t, << a, b >>, {}, {})
  <2> HIDE DEF a, b
  <2> QED BY <1>1, <1>2, GoodTwo
<1> QED BY <1>3 DEF SetProperties

\* With clients held set_value is the parser's; without, it has the common order.
LEMMA SetValueGood ==
  ASSUME NEW t \in Tasks \ Connecting, NEW kept \in SUBSET {"clients"},
         t # Parser => kept = {}
  PROVE  Good(t, SetValue(kept), kept, {})
<1> DEFINE a == AtOrEnd("topics", kept)
           b == At("sub_values", kept \cup {"sub_values"})
           c == At("topic_sub_map", kept)
           d == At("topic_value_map", {})
<1>1. /\ a \in Points /\ b \in Points /\ c \in Points /\ d \in Points
      /\ a.skip = 0 /\ b.skip = 0 /\ c.skip = 0 /\ d.skip = 0 /\ d.keep = {}
  BY DEF At, AtOrEnd, Points, Locks
<1>2. Allowed(t, kept, a) /\ Allowed(t, a.keep, b) /\ Allowed(t, c.keep, d)
  BY DEF At, AtOrEnd, Allowed
<1>3. Allowed(t, b.keep, c)
  BY DEF At, Allowed, Rank
<1>4. Good(t, << a, b, c, d >>, kept, {})
  <2> HIDE DEF a, b, c, d
  <2> QED BY <1>1, <1>2, <1>3, GoodFour
<1> QED BY <1>4 DEF SetValue

LEMMA ConnectGood ==
  ASSUME NEW t \in Connecting
  PROVE  Good(t, Connect, {}, {})
<1> DEFINE a == AtOrEnd("client_map", {})
           b == At("clients", {"clients"})
           c == At("counters", {"clients", "counters"})
           d == At("client_map", {"clients", "counters"})
           e == At("metatopic_value_map", {})
           f == At("client_metatopic_map", {})
<1>0. t \in Tasks /\ t # Parser
  BY TaskAssumption DEF Tasks
<1>1. /\ a \in Points /\ b \in Points /\ c \in Points /\ d \in Points /\ e \in Points
      /\ a.skip = 0 /\ b.skip = 0 /\ c.skip = 0 /\ d.skip = 0 /\ e.skip = 0 /\ e.keep = {}
      /\ f \in Points /\ f.skip = 0 /\ f.keep = {}
  BY DEF At, AtOrEnd, Points, Locks
<1>2. Allowed(t, {}, a) /\ Allowed(t, a.keep, b) /\ Allowed(t, {}, f)
  BY DEF At, AtOrEnd, Allowed
<1>3. Allowed(t, b.keep, c)
  BY DEF At, Allowed, Rank
<1>4. Allowed(t, c.keep, d)
  BY DEF At, Allowed, Rank
<1>5. Allowed(t, d.keep, e)
  BY DEF At, Allowed, Rank
<1>6. Good(t, << a, b, c, d, e >>, {}, {}) /\ Good(t, << f >>, {}, {})
  <2> HIDE DEF a, b, c, d, e, f
  <2>1. Good(t, << f >>, {}, f.keep)
    BY <1>1, <1>2, GoodOne
  <2>2. Good(t, << a, b, c, d, e >>, {}, e.keep)
    BY <1>1, <1>2, <1>3, <1>4, <1>5, GoodFive
  <2> QED BY <2>1, <2>2, <1>1
<1>7. Good(t, << a, b, c, d, e >> \o AddMeta \o AddMeta \o << f >>, {}, {})
  <2> HIDE DEF a, b, c, d, e, f
  <2>1. Good(t, << a, b, c, d, e >> \o AddMeta, {}, {})
    BY <1>0, <1>6, AddMetaGood, GoodConcat
  <2>2. Good(t, << a, b, c, d, e >> \o AddMeta \o AddMeta, {}, {})
    BY <1>0, <2>1, AddMetaGood, GoodConcat
  <2> QED BY <2>2, <1>6, GoodConcat
<1> QED BY <1>7 DEF Connect

LEMMA DisconnectGood ==
  ASSUME NEW p \in Disconnect
  PROVE  Good(Parser, p, {}, {})
<1> DEFINE a == AtOrEnd("client_map", {})
           b == AtOrEnd("clients", {"clients"})
           c == AtOrEnd("client_metatopic_map", {"clients"})
           d == At("pub_count", {"clients"})
           e == At("pub_count", {"clients", "pub_count"})
           r == RemoveTopic({"clients"}, {"clients"}) 
           z == RemoveTopic({"clients"}, {})
           k == RemoveTopic({"clients", "pub_count"}, {"clients"})
<1>1. /\ a \in Points /\ b \in Points /\ c \in Points /\ d \in Points /\ e \in Points
      /\ a.skip = 0 /\ b.skip = 0 /\ c.skip = 0 /\ d.skip = 0 /\ e.skip = 0
      /\ b.keep = {"clients"} /\ c.keep = {"clients"} /\ d.keep = {"clients"}
      /\ e.keep = {"clients", "pub_count"}
  BY DEF At, AtOrEnd, Points, Locks
<1>2. Allowed(Parser, {}, a) /\ Allowed(Parser, a.keep, b) /\ Allowed(Parser, {"clients"}, c)
  BY TaskAssumption DEF AtOrEnd, Allowed
<1>3. Allowed(Parser, {"clients"}, d) /\ Allowed(Parser, {"clients"}, e)
  BY TaskAssumption DEF At, Allowed
<1>4. /\ Good(Parser, r, {"clients"}, {"clients"})
      /\ Good(Parser, z, {"clients"}, {})
      /\ Good(Parser, k, {"clients", "pub_count"}, {"clients"})
  BY RemoveTopicGood
<1>5. \E turn \in {<<>>} \cup ReleaseTopic : p = << a, b >> \o turn \o << c >> \o r \o z
  BY DEF Disconnect
<1>6. ReleaseTopic = {<< d >>, << e >> \o k}
  BY DEF ReleaseTopic
<1> HIDE DEF a, b, c, d, e, r, z, k
<1>7. Good(Parser, << a, b >>, {}, {"clients"}) /\ Good(Parser, << c >>, {"clients"}, {"clients"})
  BY <1>1, <1>2, GoodOne, GoodTwo
<1>8. Good(Parser, << d >>, {"clients"}, {"clients"})
  BY <1>1, <1>3, GoodOne
<1>9. Good(Parser, << e >> \o k, {"clients"}, {"clients"})
  <2>1. Good(Parser, << e >>, {"clients"}, {"clients", "pub_count"})
    BY <1>1, <1>3, GoodOne
  <2> QED BY <2>1, <1>4, GoodConcat
<1>10. \A turn \in {<<>>} \cup ReleaseTopic : Good(Parser, << a, b >> \o turn, {}, {"clients"})
  <2>1. << a, b >> \o <<>> = << a, b >>
    BY <1>1
  <2>2. Good(Parser, << a, b >> \o <<>>, {}, {"clients"})
    BY <2>1, <1>7
  <2>3. Good(Parser, << a, b >> \o << d >>, {}, {"clients"})
    BY <1>7, <1>8, GoodConcat
  <2>4. Good(Parser, << a, b >> \o (<< e >> \o k), {}, {"clients"})
    BY <1>7, <1>9, GoodConcat
  <2> QED BY <2>2, <2>3, <2>4, <1>6
<1>11. PICK turn \in {<<>>} \cup ReleaseTopic : p = << a, b >> \o turn \o << c >> \o r \o z
  BY <1>5
<1>12. Good(Parser, << a, b >> \o turn \o << c >>, {}, {"clients"})
  BY <1>7, <1>10, GoodConcat
<1>13. Good(Parser, << a, b >> \o turn \o << c >> \o r, {}, {"clients"})
  BY <1>12, <1>4, GoodConcat
<1> QED BY <1>11, <1>13, <1>4, GoodConcat

LEMMA SubscribeGood == Good(Parser, Subscribe, {}, {})
<1> DEFINE M == SubscribeLocks \cup {"topics"}
           a == AtOrEnd("clients", {"clients"})
           b == At("topic_map", {"clients", "topic_map"})
           c == At("topic_sub_map", {"clients", "topic_map", "topic_sub_map"})
           d == At("topic_value_map", SubscribeLocks)
           e == At("counters", SubscribeLocks)
           f == AtOrEnd("topics", M)
           g == At("sub_send_timestamps", M)
           h == At("sub_values", M)
           i == At("subscriptions", {})
<1>1. /\ a \in Points /\ b \in Points /\ c \in Points /\ d \in Points /\ e \in Points
      /\ a.skip = 0 /\ b.skip = 0 /\ c.skip = 0 /\ d.skip = 0 /\ e.skip = 0
  BY DEF At, AtOrEnd, Points, Locks, SubscribeLocks
<1>2. /\ f \in Points /\ g \in Points /\ h \in Points /\ i \in Points
      /\ f.skip = 0 /\ g.skip = 0 /\ h.skip = 0 /\ i.skip = 0 /\ i.keep = {}
  BY DEF At, AtOrEnd, Points, Locks, SubscribeLocks
<1>3. Allowed(Parser, {}, a) /\ Allowed(Parser, a.keep, b) /\ Allowed(Parser, b.keep, c)
  BY TaskAssumption DEF At, AtOrEnd, Allowed
<1>4. Allowed(Parser, c.keep, d) /\ Allowed(Parser, d.keep, e) /\ Allowed(Parser, e.keep, f)
  BY TaskAssumption DEF At, AtOrEnd, Allowed, SubscribeLocks
<1>5. Allowed(Parser, f.keep, g) /\ Allowed(Parser, g.keep, h) /\ Allowed(Parser, h.keep, i)
  BY TaskAssumption DEF At, AtOrEnd, Allowed, SubscribeLocks
<1>6. Subscribe = << a, b, c, d, e, f, g, h, i >>
  BY DEF Subscribe
<1> HIDE DEF a, b, c, d, e, f, g, h, i, M
<1>7. Good(Parser, << a, b, c, d, e >>, {}, e.keep)
  BY <1>1, <1>3, <1>4, GoodFive
<1>8. Good(Parser, << f, g, h, i >>, e.keep, {})
  <2>1. Good(Parser, << f, g, h, i >>, e.keep, i.keep)
    BY <1>2, <1>4, <1>5, GoodFour
  <2> QED BY <2>1, <1>2
<1>9. << a, b, c, d, e, f, g, h, i >> = << a, b, c, d, e >> \o << f, g, h, i >>
  OBVIOUS
<1> QED BY <1>6, <1>7, <1>8, <1>9, GoodConcat

LEMMA UnsubscribeGood == Good(Parser, Unsubscribe, {}, {})
<1> DEFINE a == AtOrEnd("clients", {"clients"})
           b == At("topic_sub_map", {"clients", "topic_sub_map"})
           c == At("subscriptions", {"clients", "topic_sub_map"})
           d == At("sub_values", {"clients", "topic_sub_map"})
           e == At("sub_send_timestamps", {})
<1>1. /\ a \in Points /\ b \in Points /\ c \in Points /\ d \in Points /\ e \in Points
      /\ a.skip = 0 /\ b.skip = 0 /\ c.skip = 0 /\ d.skip = 0 /\ e.skip = 0 /\ e.keep = {}
  BY DEF At, AtOrEnd, Points, Locks
<1>2. Allowed(Parser, {}, a) /\ Allowed(Parser, a.keep, b) /\ Allowed(Parser, b.keep, c)
  BY TaskAssumption DEF At, AtOrEnd, Allowed
<1>3. Allowed(Parser, c.keep, d) /\ Allowed(Parser, d.keep, e)
  BY TaskAssumption DEF At, AtOrEnd, Allowed
<1>4. Good(Parser, << a, b, c, d, e >>, {}, {})
  <2> HIDE DEF a, b, c, d, e
  <2> QED BY <1>1, <1>2, <1>3, GoodFive
<1> QED BY <1>4 DEF Unsubscribe

LEMMA SendPassGood == Good(SendOut, SendPass, {}, {})
<1> DEFINE a == AtOrEnd("subscriptions", {"subscriptions"})
           b == At("sub_values", {"subscriptions", "sub_values"})
           c == At("sub_send_timestamps", {"subscriptions", "sub_values", "sub_send_timestamps"})
           d == At("clients", {})
<1>1. /\ a \in Points /\ b \in Points /\ c \in Points /\ d \in Points
      /\ a.skip = 0 /\ b.skip = 0 /\ c.skip = 0 /\ d.skip = 0 /\ d.keep = {}
  BY DEF At, AtOrEnd, Points, Locks
<1>2. Allowed(SendOut, {}, a) /\ Allowed(SendOut, a.keep, b)
  BY TaskAssumption DEF At, AtOrEnd, Allowed, Rank
<1>3. Allowed(SendOut, b.keep, c)
  BY TaskAssumption DEF At, Allowed, Rank
<1>4. Allowed(SendOut, c.keep, d)
  BY TaskAssumption DEF At, Allowed, Rank
<1>5. Good(SendOut, << a, b, c, d >>, {}, {})
  <2> HIDE DEF a, b, c, d
  <2> QED BY <1>1, <1>2, <1>3, <1>4, GoodFour
<1> QED BY <1>5 DEF SendPass

\* Whatever a task calls is allowed to it.
LEMMA ProgramsGood ==
  ASSUME NEW t \in Tasks, NEW p \in Programs(t)
  PROVE  Good(t, p, {}, {})
<1>1. CASE t = Parser
  <2> DEFINE binary == << AtOrEnd("clients", {"clients"}) >> \o SetValue({"clients"})
  <2>1. t \in Tasks \ Connecting
    BY <1>1, TaskAssumption
  <2>2. Good(t, PublishThen(ListForClient({})), {}, {})
    BY <1>1, <2>1, ListForClientGood, PublishGood
  <2>3. Good(t, binary, {}, {})
    <3> DEFINE a == AtOrEnd("clients", {"clients"})
    <3>1. a \in Points /\ a.skip = 0 /\ a.keep = {"clients"} /\ Allowed(t, {}, a)
      BY <1>1, TaskAssumption DEF AtOrEnd, Points, Locks, Allowed
    <3>2. Good(t, << a >>, {}, {"clients"})
      <4> HIDE DEF a
      <4> QED BY <3>1, GoodOne
    <3>3. Good(t, SetValue({"clients"}), {"clients"}, {})
      BY <1>1, <2>1, SetValueGood
    <3> QED BY <3>2, <3>3, GoodConcat
  <2>4. p \in ParserPrograms
    BY <1>1, TaskAssumption DEF Programs
  <2> HIDE DEF binary
  <2>5. p \in Disconnect \/ p = PublishThen(ListForClient({})) \/ p = Unpublish
        \/ p = SetProperties \/ p = Subscribe \/ p = Unsubscribe \/ p = binary
    BY <2>4 DEF ParserPrograms, binary
  <2> QED BY <1>1, <2>2, <2>3, <2>5, DisconnectGood, UnpublishGood, SetPropertiesGood,
             SubscribeGood, UnsubscribeGood
<1>2. CASE t = SendOut
  <2>1. p = SendPass
    BY <1>2, TaskAssumption DEF Programs
  <2> QED BY <1>2, <2>1, SendPassGood
<1>3. CASE t \in Connecting
  <2>1. p = Connect
    BY <1>3, TaskAssumption DEF Programs
  <2> QED BY <1>3, <2>1, ConnectGood
<1>4. CASE t \notin {Parser, SendOut} \cup Connecting
  <2>1. t \in Tasks \ Connecting /\ p \in HandlePrograms
    BY <1>4 DEF Programs
  <2>2. Good(t, PublishThen(ListForServer) \o SetValue({}), {}, {})
    <3>1. Good(t, PublishThen(ListForServer), {}, {})
      BY <2>1, ListForServerGood, PublishGood
    <3>2. Good(t, SetValue({}), {}, {})
      BY <2>1, SetValueGood
    <3> QED BY <3>1, <3>2, GoodConcat
  <2>3. Good(t, << At("topic_map", {}) >>, {}, {})
    <3> DEFINE a == At("topic_map", {})
    <3>1. a \in Points /\ a.skip = 0 /\ a.keep = {} /\ Allowed(t, {}, a)
      BY DEF At, Points, Locks, Allowed
    <3>2. Good(t, << a >>, {}, {})
      <4> HIDE DEF a
      <4> QED BY <3>1, GoodOne
    <3> QED BY <3>2
  <2> QED BY <2>1, <2>2, <2>3, SetPropertiesGood DEF HandlePrograms
<1> QED BY <1>1, <1>2, <1>3, <1>4

--------------------------------------------------------------------------------
\* The invariant

LEMMA InitInv == Init => IInv
  BY DEF Init, IInv, TypeOK

LEMMA CallInv ==
  ASSUME IInv, NEW t \in Tasks, Call(t)
  PROVE  IInv'
<1>1. PICK p \in Programs(t) : todo' = [todo EXCEPT ![t] = p] /\ held' = held
  BY DEF Call
<1>2. Good(t, p, {}, {}) /\ p \in Seq(Points) /\ p # <<>>
  BY ProgramsGood DEF Good
<1>3. held[t] = {}
  BY DEF IInv, Call
<1>4. TypeOK'
  BY <1>1, <1>2 DEF IInv, TypeOK
<1>5. \A u \in Tasks : IF todo'[u] = <<>> THEN held'[u] = {} ELSE Good(u, todo'[u], held'[u], {})
  BY <1>1, <1>2, <1>3 DEF IInv, TypeOK
<1> QED BY <1>4, <1>5 DEF IInv

LEMMA StepInv ==
  ASSUME IInv, NEW t \in Tasks, Step(t)
  PROVE  IInv'
<1> DEFINE p == todo[t]
<1>1. p \in Seq(Points) /\ p # <<>> /\ Head(p) = p[1] /\ p[1] \in Points
  BY DEF IInv, TypeOK, Step
<1>2. Good(t, p, held[t], {}) /\ Allowed(t, held[t], p[1])
  BY <1>1 DEF IInv, Good
<1>3. \A u \in Tasks : p[1].take \notin held[u]
  BY <1>1 DEF Step, Free
<1>4. p[1].keep \subseteq held[t] \cup {p[1].take} /\ p[1].keep \subseteq Locks
  BY <1>1, <1>2 DEF Allowed, Points
<1>5. CASE todo' = [todo EXCEPT ![t] = <<>>] /\ held' = [held EXCEPT ![t] = {}]
  <2>1. TypeOK'
    BY <1>5 DEF IInv, TypeOK
  <2>2. \A u \in Tasks : IF todo'[u] = <<>> THEN held'[u] = {} ELSE Good(u, todo'[u], held'[u], {})
    BY <1>5 DEF IInv, TypeOK
  <2> QED BY <2>1, <2>2 DEF IInv
<1>6. ASSUME NEW k \in {0, p[1].skip}, todo' = [todo EXCEPT ![t] = SubSeq(@, k + 2, Len(@))],
             held' = [held EXCEPT ![t] = p[1].keep]
      PROVE  IInv'
  <2> DEFINE r == SubSeq(p, k + 2, Len(p))
  <2>1. k \in Nat
    BY <1>1 DEF Points
  <2>2. r \in Seq(Points) /\ IF r = <<>> THEN p[1].keep = {} ELSE Good(t, r, p[1].keep, {})
    BY <1>2, <2>1, GoodSuffix
  <2>3. todo' = [todo EXCEPT ![t] = r]
    BY <1>6
  <2> HIDE DEF r
  <2>4. todo' \in [Tasks -> Seq(Points)] /\ held' \in [Tasks -> SUBSET Locks]
    BY <1>4, <1>6, <2>2, <2>3 DEF IInv, TypeOK
  <2>5. ASSUME NEW u \in Tasks, NEW v \in Tasks, u # v
        PROVE  held'[u] \cap held'[v] = {}
    <3>1. held'[t] \subseteq held[t] \cup {p[1].take} /\ \A w \in Tasks \ {t} : held'[w] = held[w]
      BY <1>4, <1>6 DEF IInv, TypeOK
    <3>2. held[u] \cap held[v] = {}
      BY <2>5 DEF IInv, TypeOK
    <3> HIDE DEF p
    <3>3. CASE u = t
      BY <1>3, <2>5, <3>1, <3>2, <3>3
    <3>4. CASE v = t
      BY <1>3, <2>5, <3>1, <3>2, <3>4
    <3>5. CASE u # t /\ v # t
      BY <3>1, <3>2, <3>5
    <3> QED BY <3>3, <3>4, <3>5
  <2>6. \A u \in Tasks : IF todo'[u] = <<>> THEN held'[u] = {} ELSE Good(u, todo'[u], held'[u], {})
    BY <1>6, <2>2, <2>3 DEF IInv, TypeOK
  <2> QED BY <2>4, <2>5, <2>6 DEF IInv, TypeOK
<1> QED BY <1>1, <1>5, <1>6 DEF Step

LEMMA NextInv == IInv /\ [Next]_vars => IInv'
<1> SUFFICES ASSUME IInv, [Next]_vars PROVE IInv'
  OBVIOUS
<1>1. CASE UNCHANGED vars
  BY <1>1 DEF vars, IInv, TypeOK
<1>2. CASE Next
  BY <1>2, CallInv, StepInv DEF Next
<1> QED BY <1>1, <1>2

\* Every task, whichever operation it runs, comes to points it is allowed only.
THEOREM LocksInvariant == Spec => []IInv
<1>1. Init => IInv
  BY InitInv
<1>2. IInv /\ [Next]_vars => IInv'
  BY NextInv
<1> QED BY <1>1, <1>2, PTL DEF Spec

\* The points before a task are points, and a lock has one owner at most.
THEOREM LocksTyped == Spec => []TypeOK
<1>1. IInv => TypeOK
  BY DEF IInv
<1> QED BY <1>1, LocksInvariant, PTL

--------------------------------------------------------------------------------
\* Circles of waiting tasks

LEMMA WaitAllowed ==
  ASSUME IInv, NEW t \in Tasks, NEW u \in Tasks, Waits(t, u)
  PROVE  /\ Allowed(t, held[t], todo[t][1])
         /\ todo[t][1].take \in held[u]
  BY DEF IInv, TypeOK, Waits, Good

\* The place of the lock a task waits for.
Height(t) == Rank(todo[t][1].take)

\* Whoever waits, holds a lock and is not the parser waits for a higher lock.
LEMMA Climb ==
  ASSUME IInv, NEW t \in Tasks, NEW u \in Tasks \ {Parser}, NEW v \in Tasks,
         Waits(t, u), Waits(u, v)
  PROVE  Height(t) < Height(u)
  BY WaitAllowed DEF Allowed, Height

LEMMA HeightType == ASSUME NEW t PROVE Height(t) \in 1 .. 6
  BY DEF Height, Rank

\* In a circle without the parser every member would have a higher one.
LEMMA CirclesHaveParser == IInv => DeadlocksNeedParser
<1> SUFFICES ASSUME IInv, NEW S \in SUBSET Tasks, Deadlocked(S), Parser \notin S
             PROVE  FALSE
  BY DEF DeadlocksNeedParser
<1>1. \A t \in S : \E u \in S : Height(t) < Height(u)
  <2> SUFFICES ASSUME NEW t \in S PROVE \E u \in S : Height(t) < Height(u)
    OBVIOUS
  <2>1. PICK u \in S : Waits(t, u)
    BY DEF Deadlocked
  <2>2. PICK v \in S : Waits(u, v)
    BY DEF Deadlocked
  <2>3. Height(t) < Height(u)
    BY <2>1, <2>2, Climb
  <2> QED BY <2>3
<1>2. \A t \in S : Height(t) \in 1 .. 6
  BY HeightType
<1>3. ~ \E t \in S : Height(t) >= 6
  BY <1>1, <1>2
<1>4. ~ \E t \in S : Height(t) >= 5
  BY <1>1, <1>2, <1>3
<1>5. ~ \E t \in S : Height(t) >= 4
  BY <1>1, <1>2, <1>4
<1>6. ~ \E t \in S : Height(t) >= 3
  BY <1>1, <1>2, <1>5
<1>7. ~ \E t \in S : Height(t) >= 2
  BY <1>1, <1>2, <1>6
<1>8. ~ \E t \in S : Height(t) >= 1
  BY <1>1, <1>2, <1>7
<1>9. S # {}
  BY DEF Deadlocked
<1> QED BY <1>2, <1>8, <1>9

\* The parser waits for a connection, if it waits in such a circle, and a connection
\* that holds a lock waits for counters or less, whose owner waits for nothing held.
LEMMA PeersGoOn == IInv => PeersNeverDeadlock
<1> SUFFICES ASSUME IInv, NEW S \in SUBSET ({Parser} \cup Connecting), Deadlocked(S)
             PROVE  FALSE
  BY DEF PeersNeverDeadlock
<1>1. S \in SUBSET Tasks
  BY DEF Tasks
<1>2. Parser \in S
  BY <1>1, CirclesHaveParser DEF DeadlocksNeedParser
<1>3. PICK c \in S : Waits(Parser, c)
  BY <1>2 DEF Deadlocked
<1>4. c # Parser
  BY <1>1, <1>2, <1>3, WaitAllowed DEF Allowed
<1>5. c \in Connecting /\ c \in Tasks
  BY <1>1, <1>4
<1>6. held[c] # {}
  BY <1>1, <1>2, <1>3, WaitAllowed
<1>7. PICK d \in S : Waits(c, d)
  BY DEF Deadlocked
<1>8. todo[c][1].take \in {"counters", "client_map", "metatopic_value_map"}
  BY <1>1, <1>5, <1>6, <1>7, WaitAllowed DEF Allowed
<1>9. todo[c][1].take \in held[d] /\ d \in Tasks
  BY <1>1, <1>5, <1>7, WaitAllowed
<1>10. PICK e \in S : Waits(d, e)
  BY DEF Deadlocked
<1>11. Allowed(d, held[d], todo[d][1]) /\ todo[d][1].take \in held[e] /\ e \in Tasks
  BY <1>1, <1>9, <1>10, WaitAllowed
<1>12. todo[c][1].take = "counters" /\ d \in Connecting
  BY <1>8, <1>9, <1>11 DEF Allowed
<1>13. todo[d][1].take \in {"client_map", "metatopic_value_map"}
  BY <1>9, <1>11, <1>12 DEF Allowed
<1>14. PICK f \in S : Waits(e, f)
  BY DEF Deadlocked
<1>15. Allowed(e, held[e], todo[e][1])
  BY <1>1, <1>11, <1>14, WaitAllowed
<1> QED BY <1>11, <1>13, <1>15 DEF Allowed

\* Wherever tasks wait for each other in a circle the parser is one of them: all the
\* other operations, calls of the handle included, keep to one order of locks.
THEOREM EveryDeadlockHasParser == Spec => []DeadlocksNeedParser
<1>1. IInv => DeadlocksNeedParser
  BY CirclesHaveParser
<1> QED BY <1>1, LocksInvariant, PTL

\* The parser and any number of connections being set up never wait for each other
\* in a circle, nor does an operation of theirs wait for itself.
THEOREM PeersAloneGoOn == Spec => []PeersNeverDeadlock
<1>1. IInv => PeersNeverDeadlock
  BY PeersGoOn
<1> QED BY <1>1, LocksInvariant, PTL
================================================================================
