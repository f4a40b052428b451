--------------------------- MODULE ConnectionProofs ---------------------------
(***************************************************************************)
(* Proofs about Connection, for any number of connections and any          *)
(* capacities: no channel exceeds its capacity, and the close message of a *)
(* connection is the last that the parser gets of it.                      *)
(***************************************************************************)
EXTENDS Connection, SequenceTheorems, WellFoundedInduction, TLAPS

--------------------------------------------------------------------------------
\* Filtering a sequence

\* A set of numbers that is not empty has a least element.
LEMMA Least ==
  ASSUME NEW T, T \subseteq Nat, T # {}
  PROVE  \E x \in T : \A y \in T : x <= y
<1>1. PICK x \in T : \A y \in T : ~(<<y, x>> \in OpToRel(<, Nat))
  BY NatLessThanWellFounded, WFMin
<1>2. OpToRel(<, Nat) = {ss \in Nat \X Nat : ss[1] < ss[2]}
  BY DEF OpToRel
<1>3. \A y \in T : ~(y < x)
  BY <1>1, <1>2
<1> QED BY <1>3

\* Induction, for a set in place of a predicate.
LEMMA Steps ==
  ASSUME NEW T, 0 \in T, \A n \in Nat : n \in T => n + 1 \in T
  PROVE  Nat \subseteq T
<1> SUFFICES ASSUME Nat \ T # {} PROVE FALSE
  OBVIOUS
<1>1. PICK x \in Nat \ T : \A y \in Nat \ T : x <= y
  BY Least
<1> QED BY <1>1, x # 0, x - 1 \in Nat

\* f keeps of each beginning of s, up to n, what is not from c.
Keeps(f, s, c, n) ==
  f = [k \in 0 .. n |-> IF k = 0 THEN <<>>
                        ELSE IF s[k].from = c THEN f[k - 1] ELSE Append(f[k - 1], s[k])]

LEMMA KeepsExists == \A s, c : \A n \in Nat : \E f : Keeps(f, s, c, n)
<1> SUFFICES ASSUME NEW s, NEW c PROVE \A n \in Nat : \E f : Keeps(f, s, c, n)
  OBVIOUS
<1> DEFINE T == {n \in Nat : \E f : Keeps(f, s, c, n)}
<1>1. 0 \in T
  <2>1. Keeps([k \in 0 .. 0 |-> <<>>], s, c, 0)
    BY DEF Keeps
  <2> QED BY <2>1
<1>2. ASSUME NEW n \in Nat, n \in T PROVE n + 1 \in T
  <2>1. PICK f : Keeps(f, s, c, n)
    BY <1>2
  <2> DEFINE e == IF s[n + 1].from = c THEN f[n] ELSE Append(f[n], s[n + 1])
             g == [k \in 0 .. (n + 1) |-> IF k = n + 1 THEN e ELSE f[k]]
  <2>2. Keeps(g, s, c, n + 1)
    <3>1. ASSUME NEW k \in 0 .. (n + 1)
          PROVE  g[k] = IF k = 0 THEN <<>>
                        ELSE IF s[k].from = c THEN g[k - 1] ELSE Append(g[k - 1], s[k])
      <4>1. CASE k = n + 1
        <5>1. k # 0 /\ g[k] = e /\ g[k - 1] = f[n]
          BY <4>1
        <5> HIDE DEF g
        <5> QED BY <4>1, <5>1
      <4>2. CASE k # n + 1
        <5>1. /\ k \in 0 .. n /\ g[k] = f[k]
              /\ k # 0 => g[k - 1] = f[k - 1]
          BY <4>2
        <5>2. f[k] = IF k = 0 THEN <<>>
                     ELSE IF s[k].from = c THEN f[k - 1] ELSE Append(f[k - 1], s[k])
          BY <2>1, <5>1 DEF Keeps
        <5> HIDE DEF g
        <5> QED BY <5>1, <5>2
      <4> QED BY <4>1, <4>2
    <3>2. g = [k \in 0 .. (n + 1) |-> g[k]]
      OBVIOUS
    <3> HIDE DEF g
    <3> QED BY <3>1, <3>2, Zenon DEF Keeps
  <2> QED BY <2>2
<1> QED BY <1>1, <1>2, Steps

LEMMA WithoutKeeps ==
  ASSUME NEW S, NEW s \in Seq(S), NEW c
  PROVE  \E f : Keeps(f, s, c, Len(s)) /\ Without(s, c) = f[Len(s)]
<1>1. \E f : Keeps(f, s, c, Len(s))
  BY KeepsExists, LenProperties
<1> QED BY <1>1 DEF Without, Keeps

\* What of s is not from c: the elements are those of s, and it is shorter unless all are
\* kept.
LEMMA WithoutFacts ==
  ASSUME NEW S, NEW s \in Seq(S), NEW c
  PROVE  /\ Without(s, c) \in Seq(S) /\ Len(Without(s, c)) <= Len(s)
         /\ \A e \in ToSet(Without(s, c)) : e \in ToSet(s) /\ e.from # c
         /\ (\E i \in 1 .. Len(s) : s[i].from = c) => Len(Without(s, c)) < Len(s)
<1>1. PICK f : Keeps(f, s, c, Len(s)) /\ Without(s, c) = f[Len(s)]
  BY WithoutKeeps
<1>2. Len(s) \in Nat /\ \A i \in 1 .. Len(s) : s[i] \in S
  BY LenProperties, ElementOfSeq
<1>3. /\ f[0] = <<>>
      /\ \A k \in 1 .. Len(s) :
           f[k] = IF s[k].from = c THEN f[k - 1] ELSE Append(f[k - 1], s[k])
  <2>1. \A k \in 0 .. Len(s) :
          f[k] = IF k = 0 THEN <<>>
                 ELSE IF s[k].from = c THEN f[k - 1] ELSE Append(f[k - 1], s[k])
    BY <1>1, Zenon DEF Keeps
  <2> QED BY <1>2, <2>1
<1> DEFINE Fits(k) == /\ f[k] \in Seq(S) /\ Len(f[k]) <= k
                      /\ \A i \in 1 .. Len(f[k]) : f[k][i] \in ToSet(s) /\ f[k][i].from # c
                      /\ (\E i \in 1 .. k : s[i].from = c) => Len(f[k]) < k
           T == {k \in Nat : k <= Len(s) => Fits(k)}
<1>4. 0 \in T
  <2>1. <<>> \in Seq(S) /\ Len(<<>>) = 0 /\ 1 .. 0 = {}
    OBVIOUS
  <2>2. Fits(0)
    BY <1>3, <2>1
  <2> HIDE DEF Fits
  <2> QED BY <2>2
<1>5. ASSUME NEW n \in Nat, n \in T PROVE n + 1 \in T
  <2> SUFFICES ASSUME n + 1 <= Len(s) PROVE Fits(n + 1)
    OBVIOUS
  <2>1. Fits(n) /\ n + 1 \in 1 .. Len(s)
    BY <1>2, <1>5
  <2>2. f[n + 1] = IF s[n + 1].from = c THEN f[n] ELSE Append(f[n], s[n + 1])
    BY <1>3, <2>1
  <2>3. Len(f[n]) \in Nat
    BY <2>1, LenProperties
  <2>4. CASE s[n + 1].from = c
    <3>1. f[n + 1] = f[n]
      BY <2>2, <2>4
    <3> QED BY <2>1, <2>3, <3>1
  <2>5. CASE s[n + 1].from # c
    <3>1. f[n + 1] = Append(f[n], s[n + 1])
      BY <2>2, <2>5
    <3>2. s[n + 1] \in S /\ s[n + 1] \in ToSet(s)
      BY <1>2, <2>1, LenProperties DEF ToSet
    <3>3. /\ f[n + 1] \in Seq(S) /\ Len(f[n + 1]) = Len(f[n]) + 1
          /\ \A i \in 1 .. Len(f[n]) : f[n + 1][i] = f[n][i]
          /\ f[n + 1][Len(f[n]) + 1] = s[n + 1]
      BY <2>1, <3>1, <3>2, AppendProperties
    <3>4. \A i \in 1 .. Len(f[n + 1]) : f[n + 1][i] \in ToSet(s) /\ f[n + 1][i].from # c
      <4> SUFFICES ASSUME NEW i \in 1 .. Len(f[n + 1])
                   PROVE  f[n + 1][i] \in ToSet(s) /\ f[n + 1][i].from # c
        OBVIOUS
      <4>1. CASE i = Len(f[n]) + 1
        BY <2>5, <3>2, <3>3, <4>1
      <4>2. CASE i # Len(f[n]) + 1
        <5>1. i \in 1 .. Len(f[n])
          BY <2>3, <3>3, <4>2
        <5> QED BY <2>1, <3>3, <5>1
      <4> QED BY <4>1, <4>2
    <3>5. (\E i \in 1 .. (n + 1) : s[i].from = c) => Len(f[n + 1]) < n + 1
      <4> SUFFICES ASSUME NEW i \in 1 .. (n + 1), s[i].from = c PROVE Len(f[n + 1]) < n + 1
        OBVIOUS
      <4>1. i \in 1 .. n
        BY <2>5
      <4> QED BY <2>1, <2>3, <3>3, <4>1
    <3> QED BY <2>1, <2>3, <3>3, <3>4, <3>5
  <2> QED BY <2>4, <2>5
<1>6. Fits(Len(s))
  <2> HIDE DEF Fits
  <2>1. Nat \subseteq T
    BY <1>4, <1>5, Steps
  <2> QED BY <1>2, <2>1
<1>7. \A e \in ToSet(Without(s, c)) : e \in ToSet(s) /\ e.from # c
  <2>1. DOMAIN Without(s, c) = 1 .. Len(Without(s, c))
    BY <1>1, <1>6, LenProperties
  <2> QED BY <1>1, <1>6, <2>1 DEF ToSet
<1> QED BY <1>1, <1>6, <1>7

--------------------------------------------------------------------------------
\* The channel to the parser

\* The elements of what is put together from sequences.
LEMMA ConcatOf ==
  ASSUME NEW S, NEW p \in Seq(S), NEW q \in Seq(S)
  PROVE  /\ p \o q \in Seq(S) /\ Len(p \o q) = Len(p) + Len(q)
         /\ ToSet(p \o q) = ToSet(p) \cup ToSet(q)
<1>1. /\ p \o q \in Seq(S) /\ Len(p \o q) = Len(p) + Len(q)
      /\ \A i \in 1 .. Len(p) + Len(q) :
           (p \o q)[i] = IF i <= Len(p) THEN p[i] ELSE q[i - Len(p)]
  BY ConcatProperties
<1>2. Len(p) \in Nat /\ Len(q) \in Nat /\ DOMAIN p = 1 .. Len(p) /\ DOMAIN q = 1 .. Len(q)
      /\ DOMAIN (p \o q) = 1 .. Len(p \o q)
  BY <1>1, LenProperties
<1>3. ToSet(p \o q) = ToSet(p) \cup ToSet(q)
  <2>1. ASSUME NEW i \in 1 .. Len(p) PROVE i \in DOMAIN (p \o q) /\ (p \o q)[i] = p[i]
    BY <1>1, <1>2
  <2>2. ASSUME NEW i \in 1 .. Len(q)
        PROVE  i + Len(p) \in DOMAIN (p \o q) /\ (p \o q)[i + Len(p)] = q[i]
    BY <1>1, <1>2
  <2>3. ASSUME NEW i \in DOMAIN (p \o q) PROVE (p \o q)[i] \in ToSet(p) \cup ToSet(q)
    <3>1. i \in 1 .. Len(p) + Len(q)
      BY <1>1, <1>2
    <3>2. CASE i <= Len(p)
      BY <1>1, <1>2, <3>1, <3>2 DEF ToSet
    <3>3. CASE ~(i <= Len(p))
      <4>1. i - Len(p) \in 1 .. Len(q)
        BY <1>2, <3>1, <3>3
      <4> QED BY <1>1, <1>2, <3>1, <3>3, <4>1 DEF ToSet
    <3> QED BY <3>2, <3>3
  <2>4. ToSet(p) \subseteq ToSet(p \o q) /\ ToSet(q) \subseteq ToSet(p \o q)
    BY <1>2, <2>1, <2>2 DEF ToSet
  <2>5. ToSet(p \o q) \subseteq ToSet(p) \cup ToSet(q)
    <3> SUFFICES ASSUME NEW x \in ToSet(p \o q) PROVE x \in ToSet(p) \cup ToSet(q)
      OBVIOUS
    <3>1. PICK i \in DOMAIN (p \o q) : x = (p \o q)[i]
      BY DEF ToSet
    <3> QED BY <2>3, <3>1
  <2> QED BY <2>4, <2>5
<1> QED BY <1>1, <1>3

LEMMA AppendOf ==
  ASSUME NEW S, NEW p \in Seq(S), NEW e \in S
  PROVE  /\ Append(p, e) \in Seq(S) /\ Len(Append(p, e)) = Len(p) + 1
         /\ ToSet(Append(p, e)) = ToSet(p) \cup {e}
         /\ \A i \in 1 .. Len(p) : Append(p, e)[i] = p[i]
         /\ Append(p, e)[Len(p) + 1] = e
<1>1. Len(p) \in Nat /\ DOMAIN p = 1 .. Len(p)
  BY LenProperties
<1>2. /\ Append(p, e) \in Seq(S) /\ Len(Append(p, e)) = Len(p) + 1
      /\ \A i \in 1 .. Len(p) : Append(p, e)[i] = p[i]
      /\ Append(p, e)[Len(p) + 1] = e
      /\ DOMAIN Append(p, e) = 1 .. (Len(p) + 1)
  BY AppendProperties, LenProperties
<1>3. 1 .. (Len(p) + 1) = (1 .. Len(p)) \cup {Len(p) + 1}
  BY <1>1
<1>4. ToSet(Append(p, e)) = ToSet(p) \cup {e}
  BY <1>1, <1>2, <1>3 DEF ToSet
<1> QED BY <1>2, <1>4

LEMMA SliceOf ==
  ASSUME NEW S, NEW p \in Seq(S), NEW m \in Nat, NEW n \in 0 .. Len(p), 1 <= m
  PROVE  /\ SubSeq(p, m, n) \in Seq(S)
         /\ Len(SubSeq(p, m, n)) = IF m <= n THEN n - m + 1 ELSE 0
         /\ ToSet(SubSeq(p, m, n)) \subseteq ToSet(p)
<1>1. Len(p) \in Nat /\ DOMAIN p = 1 .. Len(p)
  BY LenProperties
<1>2. /\ SubSeq(p, m, n) \in Seq(S)
      /\ Len(SubSeq(p, m, n)) = IF m <= n THEN n - m + 1 ELSE 0
      /\ \A i \in 1 .. (n - m + 1) : SubSeq(p, m, n)[i] = p[m + i - 1]
  BY <1>1, SubSeqProperties
<1>3. ToSet(SubSeq(p, m, n)) \subseteq ToSet(p)
  <2> SUFFICES ASSUME NEW x \in ToSet(SubSeq(p, m, n)) PROVE x \in ToSet(p)
    OBVIOUS
  <2>1. PICK i \in 1 .. Len(SubSeq(p, m, n)) : x = SubSeq(p, m, n)[i]
    BY <1>2, LenProperties DEF ToSet
  <2>2. m <= n /\ i \in 1 .. (n - m + 1)
    BY <1>1, <1>2, <2>1
  <2>3. x = p[m + i - 1] /\ m + i - 1 \in 1 .. Len(p)
    BY <1>1, <1>2, <2>1, <2>2
  <2> QED BY <1>1, <2>3 DEF ToSet
<1> QED BY <1>2, <1>3

\* The same of those who send to the parser.
LEMMA SendersFacts ==
  ASSUME NEW p \in Senders
  PROVE  /\ Len(p) \in Nat /\ DOMAIN p = 1 .. Len(p)
         /\ \A i \in DOMAIN p : p[i] \in ToSet(p) /\ p[i].from \in Clients /\ p[i].close \in BOOLEAN
         /\ \A e \in ToSet(p) : \E i \in DOMAIN p : e = p[i]
         /\ \A e \in ToSet(p) : e.from \in Clients
<1> DEFINE E == [from : Clients, close : BOOLEAN]
<1>1. /\ Len(p) \in Nat /\ DOMAIN p = 1 .. Len(p)
      /\ \A i \in DOMAIN p : p[i] \in E
  <2>1. p \in Seq(E)
    BY DEF Senders
  <2> HIDE DEF E
  <2> QED BY <2>1, LenProperties, ElementOfSeq
<1> QED BY <1>1 DEF ToSet

LEMMA MessagesAreSenders ==
  ASSUME NEW c \in Clients
  PROVE  /\ MessageOf(c) \in [from : Clients, close : BOOLEAN]
         /\ MessageOf(c).from = c /\ ~MessageOf(c).close
         /\ CloseOf(c) \in [from : Clients, close : BOOLEAN]
         /\ CloseOf(c).from = c /\ CloseOf(c).close
  BY DEF MessageOf, CloseOf

LEMMA ConcatSenders ==
  ASSUME NEW p \in Senders, NEW q \in Senders
  PROVE  /\ p \o q \in Senders /\ Len(p \o q) = Len(p) + Len(q)
         /\ ToSet(p \o q) = ToSet(p) \cup ToSet(q)
<1> DEFINE E == [from : Clients, close : BOOLEAN]
<1>1. p \in Seq(E) /\ q \in Seq(E)
  BY DEF Senders
<1> HIDE DEF E
<1>2. /\ p \o q \in Seq(E) /\ Len(p \o q) = Len(p) + Len(q)
      /\ ToSet(p \o q) = ToSet(p) \cup ToSet(q)
  BY ONLY <1>1, ConcatOf
<1> QED BY <1>2 DEF Senders, E

LEMMA AppendSenders ==
  ASSUME NEW p \in Senders, NEW e \in [from : Clients, close : BOOLEAN]
  PROVE  /\ Append(p, e) \in Senders /\ Len(Append(p, e)) = Len(p) + 1
         /\ ToSet(Append(p, e)) = ToSet(p) \cup {e}
         /\ \A i \in 1 .. Len(p) : Append(p, e)[i] = p[i]
         /\ Append(p, e)[Len(p) + 1] = e
<1> DEFINE E == [from : Clients, close : BOOLEAN]
<1>1. p \in Seq(E) /\ e \in E
  BY DEF Senders
<1> HIDE DEF E
<1>2. /\ Append(p, e) \in Seq(E) /\ Len(Append(p, e)) = Len(p) + 1
      /\ ToSet(Append(p, e)) = ToSet(p) \cup {e}
      /\ \A i \in 1 .. Len(p) : Append(p, e)[i] = p[i]
      /\ Append(p, e)[Len(p) + 1] = e
  BY ONLY <1>1, AppendOf
<1> QED BY <1>2 DEF Senders, E

LEMMA WithoutSenders ==
  ASSUME NEW p \in Senders, NEW c
  PROVE  /\ Without(p, c) \in Senders /\ Len(Without(p, c)) <= Len(p)
         /\ \A e \in ToSet(Without(p, c)) : e \in ToSet(p) /\ e.from # c
         /\ (\E i \in 1 .. Len(p) : p[i].from = c) => Len(Without(p, c)) < Len(p)
<1> DEFINE E == [from : Clients, close : BOOLEAN]
<1>1. p \in Seq(E)
  BY DEF Senders
<1> HIDE DEF E
<1>2. Without(p, c) \in Seq(E)
  BY <1>1, WithoutFacts
<1> QED BY <1>1, <1>2, WithoutFacts DEF Senders, E

\* Room is given away while there is some, and what is given was waited for.
LEMMA ShareFacts ==
  ASSUME ConnectionAssumption, NEW q \in Senders, NEW g \in Senders, NEW w \in Senders,
         Len(q) + Len(g) <= InCap, Share(q, g, w)
  PROVE  /\ inq' = q /\ granted' \in Senders /\ waiting' \in Senders
         /\ Len(inq') + Len(granted') <= InCap
         /\ waiting' # <<>> => Len(inq') + Len(granted') = InCap
         /\ ToSet(waiting' \o granted') \subseteq ToSet(w) \cup ToSet(g)
<1> DEFINE E == [from : Clients, close : BOOLEAN]
           free  == InCap - Len(q) - Len(g)
           given == IF free < Len(w) THEN free ELSE Len(w)
           h     == SubSeq(w, 1, given)
           r     == SubSeq(w, given + 1, Len(w))
<1>1. /\ q \in Seq(E) /\ g \in Seq(E) /\ w \in Seq(E)
      /\ Len(q) \in Nat /\ Len(g) \in Nat /\ Len(w) \in Nat /\ InCap \in Nat
  BY LenProperties, ConnectionAssumption DEF Senders
<1>2. inq' = q /\ granted' = g \o h /\ waiting' = r
  BY DEF Share
<1>3. /\ given \in 0 .. Len(w) /\ given <= free
      /\ given = Len(w) \/ given = free
  BY <1>1
<1> HIDE DEF given, E
<1>4. /\ h \in Seq(E) /\ Len(h) = given /\ ToSet(h) \subseteq ToSet(w)
  <2>1. Len(h) = IF 1 <= given THEN given - 1 + 1 ELSE 0
    BY <1>1, <1>3, SliceOf
  <2>2. Len(h) = given
    BY <1>1, <1>3, <2>1
  <2> HIDE DEF h
  <2>3. h \in Seq(E) /\ ToSet(h) \subseteq ToSet(w)
    BY <1>1, <1>3, SliceOf DEF h
  <2> QED BY <2>2, <2>3
<1>5. /\ r \in Seq(E) /\ ToSet(r) \subseteq ToSet(w)
      /\ given = Len(w) => Len(r) = 0
  BY <1>1, <1>3, SliceOf
<1> HIDE DEF h, r
<1>6. /\ g \o h \in Seq(E) /\ Len(g \o h) = Len(g) + given
      /\ ToSet(g \o h) \subseteq ToSet(g) \cup ToSet(w)
  <2>1. /\ g \o h \in Seq(E) /\ Len(g \o h) = Len(g) + Len(h)
        /\ ToSet(g \o h) = ToSet(g) \cup ToSet(h)
    <3>1. g \in Seq(E) /\ h \in Seq(E)
      BY <1>1, <1>4
    <3> QED BY ONLY <3>1, ConcatOf
  <2>2. Len(g \o h) = Len(g) + given
    BY <1>4, <2>1
  <2> QED BY <1>4, <2>1, <2>2
<1>7. ToSet(r \o (g \o h)) \subseteq ToSet(w) \cup ToSet(g)
  <2>1. ToSet(r \o (g \o h)) = ToSet(r) \cup ToSet(g \o h)
    <3> DEFINE x == g \o h
    <3>1. r \in Seq(E) /\ x \in Seq(E)
      BY <1>5, <1>6
    <3> HIDE DEF x
    <3>2. ToSet(r \o x) = ToSet(r) \cup ToSet(x)
      BY ONLY <3>1, ConcatOf
    <3> QED BY <3>2 DEF x
  <2> QED BY <1>5, <1>6, <2>1
<1>8. waiting' # <<>> => given = free
  BY <1>2, <1>3, <1>5, EmptySeq
<1>9. Len(inq') + Len(granted') = Len(q) + Len(g) + given
  BY <1>1, <1>2, <1>3, <1>6
<1>10. Len(q) + Len(g) + given <= InCap /\ (given = free => Len(q) + Len(g) + given = InCap)
  BY <1>1, <1>3
<1> HIDE DEF free
<1> QED BY <1>2, <1>5, <1>6, <1>7, <1>8, <1>9, <1>10 DEF Senders, E

--------------------------------------------------------------------------------
\* The inductive invariant

\* A close message in the channel is that of a connection that has ended.
ClosesAreDone == \A k \in DOMAIN inq : inq[k].close => conn[inq[k].from] = "done"

\* TypeOK bounds the answers by what the peer has sent.
AnswersAsked == \A c \in Clients : answers[c] <= sent[c]

\* Whoever tells clients something has one to tell.
Addressed ==
  /\ parser.does = "telling" => parser.to \in Clients
  /\ sender.does = "telling" => sender.to \in Clients
  /\ handle.does = "telling" => handle.to \in Clients

\* The inductive invariant.  CloseIsLast alone is not inductive: what comes in from a
\* connection must not find a close message of its own there.
IInv == TypeOK /\ CloseIsLast /\ ClosesAreDone /\ AnswersAsked /\ Addressed

\* The part of it that is about the channel to the parser
QueuesOK ==
  /\ inq \in Senders /\ waiting \in Senders /\ granted \in Senders
  /\ Len(inq) + Len(granted) <= InCap
  /\ waiting # <<>> => Len(inq) + Len(granted) = InCap
  /\ CloseIsLast
  /\ ClosesAreDone

\* The part about clients, locks and the tasks that hold them
TasksOK ==
  /\ out \in [Clients -> Seq({"text", "binary"})] /\ \A c \in Clients : Len(out[c]) <= OutCap
  /\ lock \in {"parser", "send_out", "handle", None}
  /\ parser \in Task /\ sender \in Task /\ handle \in Task
  /\ passes \in 0 .. MaxOut /\ handled \in 0 .. MaxHandled /\ calls \in 0 .. MaxCalls
  /\ (parser.does = "telling") = (lock = "parser")
  /\ (sender.does = "telling") = (lock = "send_out")
  /\ (handle.does = "telling") = (lock = "handle")
  /\ connected \subseteq Clients
  /\ Addressed

\* The part about connections and their peers
PeersOK ==
  /\ conn \in [Clients -> {"absent", "running", "closing", "done"}]
  /\ peer \in [Clients -> {"reading", "stalled", "ended", "broken"}]
  /\ sent \in [Clients -> 0 .. MaxSent]
  /\ answers \in [Clients -> 0 .. MaxSent]
  /\ AnswersAsked
  /\ loop \in [Clients -> {"select", "text", "time", "flush"}]
  /\ kill \in [Clients -> BOOLEAN]

LEMMA Parts == IInv <=> QueuesOK /\ TasksOK /\ PeersOK
  BY DEF IInv, QueuesOK, TasksOK, PeersOK, TypeOK

LEMMA PartsNext == QueuesOK' /\ TasksOK' /\ PeersOK' => IInv'
  BY DEF IInv, QueuesOK, TasksOK, PeersOK, TypeOK

LEMMA InitEstablishes == Init => IInv
<1> SUFFICES ASSUME Init PROVE QueuesOK /\ TasksOK /\ PeersOK
  BY Parts
<1>1. <<>> \in Senders /\ Len(<<>>) = 0 /\ DOMAIN <<>> = {} /\ <<>> \in Seq({"text", "binary"})
  BY DEF Senders
<1>2. ToSet(<<>> \o <<>>) = {}
  BY <1>1, ConcatOf DEF ToSet, Senders
<1>3. QueuesOK
  BY <1>1, <1>2, ConnectionAssumption DEF Init, QueuesOK, CloseIsLast, ClosesAreDone
<1>4. Idle \in Task /\ Idle.does = "idle"
  BY DEF Idle, Task
<1>5. TasksOK
  BY <1>1, <1>4, ConnectionAssumption DEF Init, TasksOK, Addressed
<1>6. PeersOK
  BY ConnectionAssumption DEF Init, PeersOK, AnswersAsked
<1> QED BY <1>3, <1>5, <1>6

\* The channel to the parser when no connection changes.
LEMMA QueuesStay ==
  ASSUME QueuesOK, UNCHANGED <<inVars, conn>>
  PROVE  QueuesOK'
  BY DEF QueuesOK, inVars, CloseIsLast, ClosesAreDone

\* The channel when what is in it stays, and those who wait are some of those before and
\* the close message of c, which was running.
LEMMA ConnectionCloses ==
  ASSUME QueuesOK, PeersOK, NEW c \in Clients, conn[c] = "running",
         conn' = [conn EXCEPT ![c] = "closing"],
         NEW g \in Senders, NEW w \in Senders,
         Len(g) <= Len(granted), ToSet(g) \subseteq ToSet(granted),
         ToSet(w) \subseteq ToSet(waiting),
         Share(inq, g, Append(w, CloseOf(c)))
  PROVE  QueuesOK'
<1>1. CloseOf(c) \in [from : Clients, close : BOOLEAN] /\ CloseOf(c).from = c
  BY DEF CloseOf
<1>2. Append(w, CloseOf(c)) \in Senders /\ ToSet(Append(w, CloseOf(c))) = ToSet(w) \cup {CloseOf(c)}
  BY <1>1, AppendSenders DEF QueuesOK
<1>3. Len(inq) + Len(g) <= InCap
  <2>1. Len(inq) \in Nat /\ Len(g) \in Nat /\ Len(granted) \in Nat /\ InCap \in Nat
    BY SendersFacts, ConnectionAssumption DEF QueuesOK
  <2> QED BY <2>1 DEF QueuesOK
<1>4. /\ inq' = inq /\ granted' \in Senders /\ waiting' \in Senders
      /\ Len(inq') + Len(granted') <= InCap
      /\ waiting' # <<>> => Len(inq') + Len(granted') = InCap
      /\ ToSet(waiting' \o granted') \subseteq ToSet(w) \cup {CloseOf(c)} \cup ToSet(g)
  BY <1>2, <1>3, ShareFacts, ConnectionAssumption DEF QueuesOK
<1>5. ToSet(waiting \o granted) = ToSet(waiting) \cup ToSet(granted)
  BY ConcatSenders DEF QueuesOK
<1>6. \A e \in ToSet(waiting' \o granted') : conn'[e.from] # "done"
  <2> SUFFICES ASSUME NEW e \in ToSet(waiting' \o granted') PROVE conn'[e.from] # "done"
    OBVIOUS
  <2>1. CASE e = CloseOf(c)
    BY <1>1, <2>1 DEF PeersOK
  <2>2. CASE e # CloseOf(c)
    <3>1. e \in ToSet(waiting \o granted)
      BY <1>4, <1>5, <2>2
    <3>2. conn[e.from] # "done"
      BY <3>1 DEF QueuesOK, CloseIsLast
    <3>3. e.from \in Clients
      BY <1>5, <3>1, SendersFacts DEF QueuesOK
    <3> QED BY <3>2, <3>3 DEF PeersOK
  <2> QED BY <2>1, <2>2
<1>7. \A k \in DOMAIN inq :
        /\ inq[k].from \in Clients
        /\ (conn'[inq[k].from] = "done") = (conn[inq[k].from] = "done")
  BY SendersFacts DEF QueuesOK, PeersOK
<1>8. ClosesAreDone'
  BY <1>4, <1>7 DEF QueuesOK, ClosesAreDone
<1> QED BY <1>4, <1>6, <1>7, <1>8 DEF QueuesOK, CloseIsLast

LEMMA TasksStay ==
  ASSUME TasksOK, UNCHANGED <<out, connected, lock, taskVars>>
  PROVE  TasksOK'
  BY DEF TasksOK, taskVars, Addressed

\* The channel when a connection that has not ended goes on.
LEMMA ConnectionGoesOn ==
  ASSUME QueuesOK, PeersOK, NEW c \in Clients, conn[c] # "done",
         NEW x, x # "done", conn' = [conn EXCEPT ![c] = x], UNCHANGED inVars
  PROVE  QueuesOK'
<1>1. UNCHANGED <<inq, waiting, granted>>
  BY DEF inVars
<1>2. \A d \in Clients : (conn'[d] = "done") = (conn[d] = "done")
  BY DEF PeersOK
<1>3. /\ \A k \in DOMAIN inq : inq[k].from \in Clients
      /\ \A e \in ToSet(waiting \o granted) : e.from \in Clients
  <2>1. waiting \o granted \in Senders
    BY ConcatSenders DEF QueuesOK
  <2> QED BY <2>1, SendersFacts DEF QueuesOK
<1> QED BY <1>1, <1>2, <1>3 DEF QueuesOK, CloseIsLast, ClosesAreDone

--------------------------------------------------------------------------------
\* Connections

LEMMA ConnectPreserves ==
  ASSUME IInv, NEW c \in Clients, Connect(c)
  PROVE  IInv'
<1>1. QueuesOK /\ TasksOK /\ PeersOK
  BY Parts
<1>2. /\ conn[c] = "absent" /\ conn' = [conn EXCEPT ![c] = "running"]
      /\ connected' = connected \cup {c}
      /\ UNCHANGED <<sent, answers, loop, peer, kill, out, inVars, lock, taskVars>>
  BY DEF Connect
<1>3. QueuesOK'
  BY <1>1, <1>2, ConnectionGoesOn
<1>4. TasksOK'
  BY <1>1, <1>2 DEF TasksOK, taskVars, Addressed
<1>5. PeersOK'
  BY <1>1, <1>2 DEF PeersOK, AnswersAsked
<1> QED BY <1>3, <1>4, <1>5, PartsNext

\* What the peer does, as long as no message for the parser comes of it
LEMMA PeerPreserves ==
  ASSUME IInv, NEW c \in Clients,
         ReceiveTime(c) \/ PeerCloses(c) \/ PeerBreaks(c) \/ PeerStalls(c) \/ PeerResumes(c)
  PROVE  IInv'
<1>1. QueuesOK /\ TasksOK /\ PeersOK /\ MaxSent \in Nat
  BY Parts, ConnectionAssumption
<1>2. UNCHANGED <<conn, inVars>> /\ UNCHANGED <<out, connected, lock, taskVars>> /\ UNCHANGED loop
  BY DEF ReceiveTime, PeerCloses, PeerBreaks, PeerStalls, PeerResumes, connVars
<1>3. PeersOK'
  <2>1. CASE ReceiveTime(c)
    BY <1>1, <2>1 DEF ReceiveTime, PeerActs, PeersOK, AnswersAsked
  <2>2. CASE PeerCloses(c)
    BY <1>1, <2>2 DEF PeerCloses, connVars, PeersOK, AnswersAsked
  <2>3. CASE PeerBreaks(c)
    BY <1>1, <2>3 DEF PeerBreaks, connVars, PeersOK, AnswersAsked
  <2>4. CASE PeerStalls(c)
    BY <1>1, <2>4 DEF PeerStalls, PeerActs, PeersOK, AnswersAsked
  <2>5. CASE PeerResumes(c)
    BY <1>1, <2>5 DEF PeerResumes, connVars, PeersOK, AnswersAsked
  <2> QED BY <2>1, <2>2, <2>3, <2>4, <2>5
<1> QED BY <1>1, <1>2, <1>3, QueuesStay, TasksStay, PartsNext

\* A message of a connection that has not ended is added to the channel, and those who
\* wait or have been given room are some of those before.
LEMMA MessageComes ==
  ASSUME QueuesOK, NEW c \in Clients, conn[c] # "done", conn' = conn,
         inq' = Append(inq, MessageOf(c)),
         waiting' \in Senders, granted' \in Senders,
         Len(inq) + 1 + Len(granted') <= InCap,
         waiting' # <<>> => Len(inq) + 1 + Len(granted') = InCap,
         ToSet(waiting') \subseteq ToSet(waiting), ToSet(granted') \subseteq ToSet(granted)
  PROVE  QueuesOK'
<1>1. /\ inq \in Senders /\ Len(inq) \in Nat /\ DOMAIN inq = 1 .. Len(inq)
      /\ \A k \in DOMAIN inq : inq[k].close => conn[inq[k].from] = "done"
      /\ \A j, k \in DOMAIN inq : inq[j].close /\ inq[j].from = inq[k].from => k <= j
  BY SendersFacts DEF QueuesOK, CloseIsLast, ClosesAreDone
<1>2. MessageOf(c).from = c /\ ~MessageOf(c).close
  BY MessagesAreSenders
<1>3. /\ inq' \in Senders /\ Len(inq') = Len(inq) + 1
      /\ \A k \in 1 .. Len(inq) : inq'[k] = inq[k]
      /\ inq'[Len(inq) + 1] = MessageOf(c)
  BY <1>1, AppendSenders, MessagesAreSenders
<1>4. DOMAIN inq' = 1 .. Len(inq) + 1
  BY <1>3, SendersFacts
<1>5. \A k \in DOMAIN inq' : IF k = Len(inq) + 1 THEN inq'[k] = MessageOf(c)
                             ELSE k \in DOMAIN inq /\ inq'[k] = inq[k]
  BY <1>1, <1>3, <1>4
<1>6. ClosesAreDone'
  BY <1>1, <1>2, <1>5 DEF ClosesAreDone
<1>7. \A j, k \in DOMAIN inq' : inq'[j].close /\ inq'[j].from = inq'[k].from => k <= j
  <2> SUFFICES ASSUME NEW j \in DOMAIN inq', NEW k \in DOMAIN inq',
                      inq'[j].close, inq'[j].from = inq'[k].from
               PROVE  k <= j
    OBVIOUS
  <2>1. j # Len(inq) + 1
    BY <1>2, <1>3
  <2>2. j \in DOMAIN inq /\ inq'[j] = inq[j] /\ conn[inq[j].from] = "done"
    BY <1>1, <1>5, <2>1
  <2>3. k # Len(inq) + 1
    BY <1>2, <1>3, <2>2
  <2>4. k \in DOMAIN inq /\ inq'[k] = inq[k]
    BY <1>5, <2>3
  <2> QED BY <1>1, <2>2, <2>4
<1>8. \A e \in ToSet(waiting' \o granted') : conn'[e.from] # "done"
  <2>1. ToSet(waiting' \o granted') = ToSet(waiting') \cup ToSet(granted')
    BY ConcatSenders
  <2>2. ToSet(waiting \o granted) = ToSet(waiting) \cup ToSet(granted)
    BY ConcatSenders DEF QueuesOK
  <2> QED BY <2>1, <2>2 DEF QueuesOK, CloseIsLast
<1>9. \A k \in DOMAIN inq' : conn'[inq'[k].from] = "done" =>
        \E j \in DOMAIN inq' : k <= j /\ inq'[j] = CloseOf(inq'[k].from)
  <2> SUFFICES ASSUME NEW k \in DOMAIN inq', conn[inq'[k].from] = "done"
               PROVE  \E j \in DOMAIN inq' : k <= j /\ inq'[j] = CloseOf(inq'[k].from)
    OBVIOUS
  <2>1. k \in DOMAIN inq /\ inq'[k] = inq[k]
    BY <1>2, <1>5
  <2>2. PICK j \in DOMAIN inq : k <= j /\ inq[j] = CloseOf(inq[k].from)
    BY <2>1 DEF QueuesOK, CloseIsLast
  <2>3. j \in DOMAIN inq' /\ inq'[j] = inq[j]
    BY <1>1, <1>3, <1>4
  <2> QED BY <2>1, <2>2, <2>3
<1> QED BY <1>3, <1>6, <1>7, <1>8, <1>9 DEF QueuesOK, CloseIsLast

LEMMA ReceivePreserves ==
  ASSUME IInv, NEW c \in Clients, Receive(c)
  PROVE  IInv'
<1>1. QueuesOK /\ TasksOK /\ PeersOK /\ MaxSent \in Nat /\ InCap \in Nat
  BY Parts, ConnectionAssumption
<1>2. /\ conn[c] = "running" /\ sent[c] < MaxSent /\ sent' = [sent EXCEPT ![c] = @ + 1]
      /\ UNCHANGED <<conn, answers, loop, peer, kill, out, connected, granted, lock, taskVars>>
  BY DEF Receive, PeerActs
<1>3. TasksOK' /\ PeersOK'
  BY <1>1, <1>2, TasksStay DEF PeersOK, AnswersAsked
<1>4. /\ inq \in Senders /\ waiting \in Senders /\ granted \in Senders
      /\ Len(inq) \in Nat /\ Len(granted) \in Nat
      /\ Len(inq) + Len(granted) <= InCap
  BY <1>1, SendersFacts DEF QueuesOK
<1>5. CASE Len(inq) + Len(granted) < InCap
  <2>1. inq' = Append(inq, MessageOf(c)) /\ UNCHANGED <<waiting, granted>>
    BY <1>2, <1>5 DEF Receive
  <2>2. waiting = <<>>
    BY <1>1, <1>4, <1>5 DEF QueuesOK
  <2>3. Len(inq) + 1 + Len(granted) <= InCap
    BY <1>1, <1>4, <1>5
  <2> QED BY <1>1, <1>2, <1>3, <1>4, <2>1, <2>2, <2>3, MessageComes, PartsNext
<1>6. CASE ~(Len(inq) + Len(granted) < InCap)
  <2>1. waiting' = Append(waiting, MessageOf(c)) /\ UNCHANGED <<inq, granted, conn>>
    BY <1>2, <1>6 DEF Receive
  <2>2. waiting' \in Senders /\ ToSet(waiting') = ToSet(waiting) \cup {MessageOf(c)}
    BY <1>4, <2>1, AppendSenders, MessagesAreSenders
  <2>3. Len(inq) + Len(granted) = InCap
    BY <1>1, <1>4, <1>6
  <2>4. \A e \in ToSet(waiting' \o granted') : conn'[e.from] # "done"
    <3>1. ToSet(waiting' \o granted') = ToSet(waiting') \cup ToSet(granted)
      BY <1>4, <2>1, <2>2, ConcatSenders
    <3>2. ToSet(waiting \o granted) = ToSet(waiting) \cup ToSet(granted)
      BY <1>4, ConcatSenders
    <3> QED BY <1>1, <1>2, <2>1, <2>2, <3>1, <3>2, MessagesAreSenders DEF QueuesOK, CloseIsLast
  <2>5. QueuesOK'
    BY <1>1, <2>1, <2>2, <2>3, <2>4 DEF QueuesOK, CloseIsLast, ClosesAreDone
  <2> QED BY <1>3, <2>5, PartsNext
<1> QED BY <1>5, <1>6

LEMMA HandOverPreserves ==
  ASSUME IInv, NEW c \in Clients, HandOver(c)
  PROVE  IInv'
<1>1. QueuesOK /\ TasksOK /\ PeersOK /\ InCap \in Nat
  BY Parts, ConnectionAssumption
<1>2. PICK k \in DOMAIN granted :
        /\ granted[k] = MessageOf(c)
        /\ conn[c] = "running"
        /\ inq' = Append(inq, granted[k])
        /\ granted' = RemoveAt(granted, k)
        /\ UNCHANGED <<connVars, peer, kill, out, connected, waiting, lock, taskVars>>
  BY DEF HandOver
<1>3. /\ inq \in Senders /\ waiting \in Senders /\ granted \in Senders
      /\ Len(inq) \in Nat /\ Len(granted) \in Nat /\ k \in 1 .. Len(granted)
  BY <1>1, SendersFacts DEF QueuesOK
<1>4. /\ granted' \in Senders /\ Len(granted') = Len(granted) - 1
      /\ ToSet(granted') \subseteq ToSet(granted)
  <2> DEFINE E == [from : Clients, close : BOOLEAN]
             h == SubSeq(granted, 1, k - 1)
             r == SubSeq(granted, k + 1, Len(granted))
  <2>1. granted \in Seq(E) /\ granted' = h \o r
    BY <1>2, <1>3 DEF Senders, RemoveAt
  <2> HIDE DEF E
  <2>2. /\ k - 1 \in 0 .. Len(granted) /\ 1 \in Nat /\ 1 <= 1
        /\ Len(granted) \in 0 .. Len(granted) /\ k + 1 \in Nat /\ 1 <= k + 1
    BY <1>3
  <2>3. /\ h \in Seq(E) /\ ToSet(h) \subseteq ToSet(granted)
        /\ Len(h) = IF 1 <= k - 1 THEN (k - 1) - 1 + 1 ELSE 0
    BY ONLY <2>1, <2>2, SliceOf
  <2>4. /\ r \in Seq(E) /\ ToSet(r) \subseteq ToSet(granted)
        /\ Len(r) = IF k + 1 <= Len(granted) THEN Len(granted) - (k + 1) + 1 ELSE 0
    BY ONLY <2>1, <2>2, SliceOf
  <2> HIDE DEF h, r
  <2>5. h \o r \in Seq(E) /\ Len(h \o r) = Len(h) + Len(r) /\ ToSet(h \o r) = ToSet(h) \cup ToSet(r)
    BY ONLY <2>3, <2>4, ConcatOf
  <2>6. Len(h) + Len(r) = Len(granted) - 1
    <3>1. \A n \in Nat : \A j \in 1 .. n :
            /\ (IF 1 <= j - 1 THEN (j - 1) - 1 + 1 ELSE 0) = j - 1
            /\ (IF j + 1 <= n THEN n - (j + 1) + 1 ELSE 0) = n - j
            /\ (j - 1) + (n - j) = n - 1
      OBVIOUS
    <3>2. /\ (IF 1 <= k - 1 THEN (k - 1) - 1 + 1 ELSE 0) = k - 1
          /\ (IF k + 1 <= Len(granted) THEN Len(granted) - (k + 1) + 1 ELSE 0) = Len(granted) - k
          /\ (k - 1) + (Len(granted) - k) = Len(granted) - 1
      BY ONLY <1>3, <3>1, Zenon
    <3> QED BY ONLY <2>3, <2>4, <3>2, Zenon
  <2>7. granted' \in Seq(E) /\ Len(granted') = Len(granted) - 1
    BY ONLY <2>1, <2>5, <2>6
  <2>8. ToSet(granted') \subseteq ToSet(granted)
    BY ONLY <2>1, <2>3, <2>4, <2>5
  <2> QED BY <2>7, <2>8 DEF Senders, E
<1>5. conn[c] # "done" /\ conn' = conn /\ inq' = Append(inq, MessageOf(c)) /\ waiting' = waiting
  BY <1>2 DEF connVars
<1>6. /\ Len(inq) + 1 + Len(granted') <= InCap
      /\ waiting' # <<>> => Len(inq) + 1 + Len(granted') = InCap
  BY <1>1, <1>3, <1>4, <1>5 DEF QueuesOK
<1>7. QueuesOK'
  BY <1>1, <1>3, <1>4, <1>5, <1>6, MessageComes
<1>8. TasksOK'
  BY <1>1, <1>2, TasksStay
<1>9. PeersOK'
  BY <1>1, <1>2 DEF PeersOK, AnswersAsked, connVars
<1> QED BY <1>7, <1>8, <1>9, PartsNext

\* What is known of the connections and their peers when one is over.
LEMMA OverKeepsPeers ==
  ASSUME PeersOK, NEW c \in Clients, Over(c), sent' = sent
  PROVE  /\ conn' \in [Clients -> {"absent", "running", "closing", "done"}]
         /\ peer' \in [Clients -> {"reading", "stalled", "ended", "broken"}]
         /\ answers' \in [Clients -> 0 .. MaxSent]
         /\ sent' \in [Clients -> 0 .. MaxSent]
         /\ AnswersAsked'
<1>1. 0 \in 0 .. MaxSent
  BY ConnectionAssumption
<1> QED BY <1>1 DEF Over, PeersOK, AnswersAsked

LEMMA IncomingEndsPreserves ==
  ASSUME IInv, NEW c \in Clients, IncomingEnds(c)
  PROVE  IInv'
<1>1. QueuesOK /\ TasksOK /\ PeersOK
  BY Parts
<1>2. /\ conn[c] = "running"
      /\ kill' = [kill EXCEPT ![c] = TRUE]
      /\ Over(c)
      /\ loop' = [loop EXCEPT ![c] = "select"]
      /\ Share(inq, Without(granted, c), Append(Without(waiting, c), CloseOf(c)))
      /\ UNCHANGED <<sent, out, connected, lock, taskVars>>
  BY DEF IncomingEnds
<1>3. /\ Without(granted, c) \in Senders /\ Len(Without(granted, c)) <= Len(granted)
      /\ ToSet(Without(granted, c)) \subseteq ToSet(granted)
      /\ Without(waiting, c) \in Senders
      /\ ToSet(Without(waiting, c)) \subseteq ToSet(waiting)
  BY <1>1, WithoutSenders DEF QueuesOK
<1>4. QueuesOK'
  BY <1>1, <1>2, <1>3, ConnectionCloses DEF Over
<1>5. TasksOK' /\ PeersOK'
  BY <1>1, <1>2, TasksStay, OverKeepsPeers DEF PeersOK
<1> QED BY <1>4, <1>5, PartsNext

\* The outgoing loop comes to the end of a turn, or to its end.
LEMMA TurnEnds ==
  ASSUME QueuesOK, PeersOK, NEW c \in Clients, conn[c] = "running",
         OutgoingEnds(c) \/ GoesOn, sent' = sent
  PROVE  /\ QueuesOK'
         /\ conn' \in [Clients -> {"absent", "running", "closing", "done"}]
         /\ peer' \in [Clients -> {"reading", "stalled", "ended", "broken"}]
         /\ answers' \in [Clients -> 0 .. MaxSent]
         /\ sent' \in [Clients -> 0 .. MaxSent]
         /\ AnswersAsked'
<1>1. CASE OutgoingEnds(c)
  <2>1. /\ Over(c)
        /\ Share(inq, granted, Append(waiting, CloseOf(c)))
    BY <1>1 DEF OutgoingEnds
  <2>2. granted \in Senders /\ waiting \in Senders /\ Len(granted) <= Len(granted)
    BY SendersFacts DEF QueuesOK
  <2>3. QueuesOK'
    BY <2>1, <2>2, ConnectionCloses DEF Over
  <2> QED BY <2>1, <2>3, OverKeepsPeers
<1>2. CASE GoesOn
  BY <1>2, QueuesStay DEF PeersOK, AnswersAsked, GoesOn
<1> QED BY <1>1, <1>2

LEMMA LoopPreserves ==
  ASSUME IInv, NEW c \in Clients, Loop(c)
  PROVE  IInv'
<1>1. QueuesOK /\ TasksOK /\ PeersOK
  BY Parts
<1>2. CASE TakeOut(c)
  <2>1. /\ conn[c] = "running" /\ out[c] # <<>>
        /\ out' = [out EXCEPT ![c] = Tail(@)]
        /\ OutgoingEnds(c) \/ GoesOn
        /\ loop' = loop \/ (Head(out[c]) # "binary" /\ loop' = [loop EXCEPT ![c] = Head(out[c])])
        /\ UNCHANGED <<sent, kill, connected, lock, taskVars>>
    BY <1>2 DEF TakeOut, Selects, EndOfTurn
  <2>2. /\ Tail(out[c]) \in Seq({"text", "binary"}) /\ Len(Tail(out[c])) <= OutCap
        /\ Head(out[c]) \in {"text", "binary"}
    <3> DEFINE q == out[c]
    <3>1. q \in Seq({"text", "binary"}) /\ q # <<>> /\ Len(q) <= OutCap /\ OutCap \in Nat
      BY <1>1, <2>1, ConnectionAssumption DEF TasksOK
    <3> HIDE DEF q
    <3>2. Tail(q) \in Seq({"text", "binary"}) /\ Len(Tail(q)) <= OutCap /\ Head(q) \in {"text", "binary"}
      BY <3>1
    <3> QED BY <3>2 DEF q
  <2>3. TasksOK'
    BY <1>1, <2>1, <2>2 DEF TasksOK, taskVars, Addressed
  <2>4. PeersOK'
    BY <1>1, <2>1, <2>2, TurnEnds DEF PeersOK
  <2>5. QueuesOK'
    BY <1>1, <2>1, TurnEnds
  <2> QED BY <2>3, <2>4, <2>5, PartsNext
<1>3. CASE OutClosed(c)
  <2>1. /\ conn[c] = "running" /\ kill' = [kill EXCEPT ![c] = TRUE] /\ OutgoingEnds(c)
        /\ UNCHANGED <<sent, loop, out, connected, lock, taskVars>>
    BY <1>3 DEF OutClosed, Selects
  <2>2. QueuesOK' /\ TasksOK'
    BY <1>1, <2>1, TurnEnds, TasksStay
  <2>3. PeersOK'
    BY <1>1, <2>1, TurnEnds DEF PeersOK
  <2> QED BY <2>2, <2>3, PartsNext
<1>4. CASE TakeTime(c)
  <2>1. QueuesOK' /\ TasksOK'
    BY <1>1, <1>4, QueuesStay, TasksStay DEF TakeTime
  <2>2. PeersOK'
    <3>1. /\ answers[c] > 0 /\ answers' = [answers EXCEPT ![c] = answers[c] - 1]
          /\ loop' = [loop EXCEPT ![c] = "time"] /\ UNCHANGED <<conn, sent, peer, kill>>
      BY <1>4 DEF TakeTime
    <3>2. /\ answers \in [Clients -> 0 .. MaxSent] /\ sent \in [Clients -> 0 .. MaxSent]
          /\ \A d \in Clients : answers[d] <= sent[d]
          /\ MaxSent \in Nat
      BY <1>1, ConnectionAssumption DEF PeersOK, AnswersAsked
    <3>3. /\ answers' \in [Clients -> 0 .. MaxSent]
          /\ \A d \in Clients : answers'[d] <= sent'[d]
      BY <3>1, <3>2
    <3> QED BY <1>1, <3>1, <3>3 DEF PeersOK, AnswersAsked
  <2> QED BY <2>1, <2>2, PartsNext
<1>5. CASE Tick(c)
  <2>1. QueuesOK' /\ TasksOK'
    BY <1>1, <1>5, QueuesStay, TasksStay DEF Tick
  <2>2. PeersOK'
    BY <1>1, <1>5 DEF Tick, PeersOK, AnswersAsked
  <2> QED BY <2>1, <2>2, PartsNext
<1>6. CASE Written(c)
  <2>1. /\ conn[c] = "running" /\ loop' = [loop EXCEPT ![c] = "select"]
        /\ OutgoingEnds(c) \/ GoesOn
        /\ UNCHANGED <<sent, kill, out, connected, lock, taskVars>>
    BY <1>6 DEF Written, EndOfTurn
  <2>2. QueuesOK' /\ TasksOK'
    BY <1>1, <2>1, TurnEnds, TasksStay
  <2>3. PeersOK'
    BY <1>1, <2>1, TurnEnds DEF PeersOK
  <2> QED BY <2>2, <2>3, PartsNext
<1> QED BY <1>2, <1>3, <1>4, <1>5, <1>6 DEF Loop

LEMMA ClosePreserves ==
  ASSUME IInv, NEW c \in Clients, Close(c)
  PROVE  IInv'
<1>1. QueuesOK /\ TasksOK /\ PeersOK /\ InCap \in Nat
  BY Parts, ConnectionAssumption
<1> DEFINE q == Append(inq, CloseOf(c))
           g == Without(granted, c)
           w == Without(waiting, c)
<1>2. PICK k \in DOMAIN granted :
        /\ granted[k] = CloseOf(c)
        /\ Share(q, g, w)
        /\ conn' = [conn EXCEPT ![c] = "done"]
        /\ out' = [out EXCEPT ![c] = <<>>]
        /\ UNCHANGED <<sent, answers, loop, peer, kill, connected, lock, taskVars>>
  BY DEF Close
<1>3. /\ inq \in Senders /\ Len(inq) \in Nat /\ DOMAIN inq = 1 .. Len(inq)
      /\ waiting \in Senders /\ granted \in Senders /\ Len(granted) \in Nat
      /\ k \in 1 .. Len(granted) /\ granted[k] \in ToSet(granted)
      /\ \A i \in DOMAIN inq : inq[i].from \in Clients
      /\ \A i \in DOMAIN inq : inq[i].close => conn[inq[i].from] = "done"
      /\ \A i, j \in DOMAIN inq : inq[i].close /\ inq[i].from = inq[j].from => j <= i
  BY <1>1, SendersFacts DEF QueuesOK, CloseIsLast, ClosesAreDone
<1>4. CloseOf(c).from = c /\ CloseOf(c).close
  BY MessagesAreSenders
<1>5. ToSet(waiting \o granted) = ToSet(waiting) \cup ToSet(granted)
  BY <1>3, ConcatSenders
<1>6. \A e \in ToSet(waiting) \cup ToSet(granted) : conn[e.from] # "done" /\ e.from \in Clients
  BY <1>1, <1>3, <1>5, SendersFacts DEF QueuesOK, CloseIsLast
<1>7. conn[c] # "done"
  BY <1>2, <1>3, <1>4, <1>6
<1>8. /\ q \in Senders /\ Len(q) = Len(inq) + 1
      /\ \A i \in 1 .. Len(inq) : q[i] = inq[i]
      /\ q[Len(inq) + 1] = CloseOf(c)
      /\ DOMAIN q = 1 .. Len(inq) + 1
  <2>1. /\ q \in Senders /\ Len(q) = Len(inq) + 1
        /\ \A i \in 1 .. Len(inq) : q[i] = inq[i]
        /\ q[Len(inq) + 1] = CloseOf(c)
    BY <1>3, AppendSenders, MessagesAreSenders
  <2> HIDE DEF q
  <2> QED BY <2>1, SendersFacts
<1>9. /\ g \in Senders /\ w \in Senders /\ Len(g) < Len(granted) /\ Len(g) \in Nat
      /\ \A e \in ToSet(g) : e \in ToSet(granted) /\ e.from # c
      /\ \A e \in ToSet(w) : e \in ToSet(waiting) /\ e.from # c
  BY <1>2, <1>3, <1>4, WithoutSenders, SendersFacts
<1> HIDE DEF q, g, w
<1>10. Len(q) + Len(g) <= InCap
  BY <1>1, <1>3, <1>8, <1>9 DEF QueuesOK
<1>11. /\ inq' = q /\ granted' \in Senders /\ waiting' \in Senders
       /\ Len(inq') + Len(granted') <= InCap
       /\ waiting' # <<>> => Len(inq') + Len(granted') = InCap
       /\ ToSet(waiting' \o granted') \subseteq ToSet(w) \cup ToSet(g)
  BY <1>2, <1>8, <1>9, <1>10, ShareFacts, ConnectionAssumption
<1>12. \A d \in Clients : conn'[d] = IF d = c THEN "done" ELSE conn[d]
  BY <1>1, <1>2 DEF PeersOK
<1>13. \A e \in ToSet(waiting' \o granted') : conn'[e.from] # "done"
  BY <1>6, <1>9, <1>11, <1>12
<1>14. \A i \in DOMAIN q : IF i = Len(inq) + 1 THEN q[i] = CloseOf(c)
                           ELSE i \in DOMAIN inq /\ q[i] = inq[i]
  BY <1>3, <1>8
<1>15. ClosesAreDone'
  BY <1>3, <1>4, <1>11, <1>12, <1>14 DEF ClosesAreDone
<1>16. \A i, j \in DOMAIN q : q[i].close /\ q[i].from = q[j].from => j <= i
  <2> SUFFICES ASSUME NEW i \in DOMAIN q, NEW j \in DOMAIN q, q[i].close, q[i].from = q[j].from
               PROVE  j <= i
    OBVIOUS
  <2>1. CASE i = Len(inq) + 1
    BY <1>3, <1>8, <2>1
  <2>2. CASE i # Len(inq) + 1
    <3>1. i \in DOMAIN inq /\ q[i] = inq[i] /\ conn[inq[i].from] = "done"
      BY <1>3, <1>14, <2>2
    <3>2. j # Len(inq) + 1
      BY <1>4, <1>7, <1>8, <3>1
    <3>3. j \in DOMAIN inq /\ q[j] = inq[j]
      BY <1>14, <3>2
    <3> QED BY <1>3, <3>1, <3>3
  <2> QED BY <2>1, <2>2
<1>17. \A i \in DOMAIN q : conn'[q[i].from] = "done" =>
         \E j \in DOMAIN q : i <= j /\ q[j] = CloseOf(q[i].from)
  <2> SUFFICES ASSUME NEW i \in DOMAIN q, conn'[q[i].from] = "done"
               PROVE  \E j \in DOMAIN q : i <= j /\ q[j] = CloseOf(q[i].from)
    OBVIOUS
  <2>1. CASE q[i].from = c
    <3>1. Len(inq) + 1 \in DOMAIN q /\ i <= Len(inq) + 1
      BY <1>3, <1>8
    <3> QED BY <1>8, <2>1, <3>1
  <2>2. CASE q[i].from # c
    <3>1. i \in DOMAIN inq /\ q[i] = inq[i]
      BY <1>4, <1>14, <2>2
    <3>2. conn[inq[i].from] = "done"
      BY <1>3, <1>12, <2>2, <3>1
    <3>3. PICK j \in DOMAIN inq : i <= j /\ inq[j] = CloseOf(inq[i].from)
      BY <1>1, <3>1, <3>2 DEF QueuesOK, CloseIsLast
    <3>4. j \in DOMAIN q /\ q[j] = inq[j]
      BY <1>3, <1>8
    <3> QED BY <3>1, <3>3, <3>4
  <2> QED BY <2>1, <2>2
<1>18. QueuesOK'
  BY <1>8, <1>11, <1>13, <1>15, <1>16, <1>17 DEF QueuesOK, CloseIsLast
<1>19. TasksOK'
  <2>1. <<>> \in Seq({"text", "binary"}) /\ Len(<<>>) <= OutCap
    BY ConnectionAssumption
  <2> QED BY <1>1, <1>2, <2>1 DEF TasksOK, taskVars, Addressed
<1>20. PeersOK'
  BY <1>1, <1>2 DEF PeersOK, AnswersAsked
<1> QED BY <1>18, <1>19, <1>20, PartsNext

--------------------------------------------------------------------------------
\* The parser, send_out and handles

LEMMA TellsFacts ==
  ASSUME NEW S, S \subseteq Clients, NEW r \in Tells(S)
  PROVE  /\ r \in Task /\ r.does \in {"idle", "telling"}
         /\ r.does = "telling" => r.to \in Clients
<1>1. CASE S = {}
  <2>1. r = [does |-> "idle", to |-> None, left |-> {}]
    BY <1>1 DEF Tells, Idle
  <2> QED BY <2>1 DEF Task
<1>2. CASE S # {}
  <2>1. PICK c \in S : r = [does |-> "telling", to |-> c, left |-> S \ {c}]
    BY <1>2 DEF Tells
  <2> QED BY <2>1 DEF Task
<1> QED BY <1>1, <1>2

LEMMA ParserTakesPreserves ==
  ASSUME IInv, ParserTakes
  PROVE  IInv'
<1>1. QueuesOK /\ TasksOK /\ PeersOK /\ InCap \in Nat /\ MaxHandled \in Nat
  BY Parts, ConnectionAssumption
<1>2. /\ parser.does = "idle" /\ inq # <<>>
      /\ Share(Tail(inq), granted, waiting)
      /\ \/ UNCHANGED <<parser, handled>>
         \/ /\ handled < MaxHandled /\ handled' = handled + 1
            /\ parser' \in {[Idle EXCEPT !.does = "tell"], [Idle EXCEPT !.does = "disconnect"]}
      /\ UNCHANGED <<connVars, peer, kill, out, connected, lock, sender, handle, passes, calls>>
  BY DEF ParserTakes
<1>3. /\ inq \in Senders /\ Len(inq) \in Nat /\ DOMAIN inq = 1 .. Len(inq)
      /\ waiting \in Senders /\ granted \in Senders /\ Len(granted) \in Nat
  BY <1>1, SendersFacts DEF QueuesOK
<1>4. /\ Tail(inq) \in Senders /\ Len(Tail(inq)) = Len(inq) - 1
      /\ \A i \in DOMAIN Tail(inq) : i + 1 \in DOMAIN inq /\ Tail(inq)[i] = inq[i + 1] /\ i \in Nat
  <2> DEFINE E == [from : Clients, close : BOOLEAN]
  <2>1. inq \in Seq(E) /\ inq # <<>>
    BY <1>2, <1>3 DEF Senders
  <2> HIDE DEF E
  <2>2. /\ Tail(inq) \in Seq(E) /\ Len(Tail(inq)) = Len(inq) - 1
        /\ \A i \in 1 .. Len(Tail(inq)) : Tail(inq)[i] = inq[i + 1]
    BY <2>1, HeadTailProperties
  <2>3. DOMAIN Tail(inq) = 1 .. Len(Tail(inq))
    BY <2>2, LenProperties
  <2> QED BY <1>3, <2>2, <2>3 DEF Senders, E
<1>5. Len(Tail(inq)) + Len(granted) <= InCap
  BY <1>1, <1>3, <1>4 DEF QueuesOK
<1>6. /\ inq' = Tail(inq) /\ granted' \in Senders /\ waiting' \in Senders
      /\ Len(inq') + Len(granted') <= InCap
      /\ waiting' # <<>> => Len(inq') + Len(granted') = InCap
      /\ ToSet(waiting' \o granted') \subseteq ToSet(waiting) \cup ToSet(granted)
  BY <1>2, <1>3, <1>4, <1>5, ShareFacts, ConnectionAssumption
<1>7. ToSet(waiting \o granted) = ToSet(waiting) \cup ToSet(granted) /\ conn' = conn
  BY <1>2, <1>3, ConcatSenders DEF connVars
<1>8. ClosesAreDone'
  BY <1>1, <1>4, <1>6, <1>7 DEF QueuesOK, ClosesAreDone
<1>9. CloseIsLast'
  <2>1. \A j, k \in DOMAIN Tail(inq) :
          Tail(inq)[j].close /\ Tail(inq)[j].from = Tail(inq)[k].from => k <= j
    <3> SUFFICES ASSUME NEW j \in DOMAIN Tail(inq), NEW k \in DOMAIN Tail(inq),
                        Tail(inq)[j].close, Tail(inq)[j].from = Tail(inq)[k].from
                 PROVE  k <= j
      OBVIOUS
    <3>1. k + 1 <= j + 1
      BY <1>1, <1>4 DEF QueuesOK, CloseIsLast
    <3> QED BY <1>4, <3>1
  <2>2. \A k \in DOMAIN Tail(inq) : conn[Tail(inq)[k].from] = "done" =>
          \E j \in DOMAIN Tail(inq) : k <= j /\ Tail(inq)[j] = CloseOf(Tail(inq)[k].from)
    <3> SUFFICES ASSUME NEW k \in DOMAIN Tail(inq), conn[Tail(inq)[k].from] = "done"
                 PROVE  \E j \in DOMAIN Tail(inq) :
                          k <= j /\ Tail(inq)[j] = CloseOf(Tail(inq)[k].from)
      OBVIOUS
    <3>1. k \in Nat /\ k >= 1 /\ k + 1 \in DOMAIN inq /\ Tail(inq)[k] = inq[k + 1]
      BY <1>4, SendersFacts
    <3>2. PICK j \in DOMAIN inq : k + 1 <= j /\ inq[j] = CloseOf(inq[k + 1].from)
      BY <1>1, <3>1 DEF QueuesOK, CloseIsLast
    <3>3. j - 1 \in DOMAIN Tail(inq) /\ k <= j - 1
      BY <1>3, <1>4, <3>1, <3>2, SendersFacts
    <3>4. Tail(inq)[j - 1] = inq[j]
      BY <1>3, <1>4, <3>3
    <3> QED BY <3>1, <3>2, <3>3, <3>4
  <2> QED BY <1>1, <1>6, <1>7, <2>1, <2>2 DEF QueuesOK, CloseIsLast
<1>10. QueuesOK'
  BY <1>4, <1>6, <1>8, <1>9 DEF QueuesOK
<1>11. TasksOK'
  <2>1. /\ [Idle EXCEPT !.does = "tell"] = [does |-> "tell", to |-> None, left |-> {}]
        /\ [Idle EXCEPT !.does = "disconnect"] = [does |-> "disconnect", to |-> None, left |-> {}]
    BY DEF Idle
  <2>2. parser' \in Task /\ parser'.does # "telling" /\ handled' \in 0 .. MaxHandled
    <3>1. CASE UNCHANGED <<parser, handled>>
      BY <1>1, <1>2, <3>1 DEF TasksOK
    <3>2. CASE ~UNCHANGED <<parser, handled>>
      <4>1. /\ handled < MaxHandled /\ handled' = handled + 1
            /\ parser' \in {[does |-> "tell", to |-> None, left |-> {}],
                           [does |-> "disconnect", to |-> None, left |-> {}]}
        BY <1>2, <2>1, <3>2
      <4>2. handled' \in 0 .. MaxHandled
        BY <1>1, <4>1, ConnectionAssumption DEF TasksOK
      <4>3. parser' \in Task /\ parser'.does # "telling"
        BY <4>1 DEF Task
      <4> QED BY <4>2, <4>3
    <3> QED BY <3>1, <3>2
  <2> QED BY <1>1, <1>2, <2>2 DEF TasksOK, Addressed
<1>12. PeersOK'
  BY <1>1, <1>2 DEF PeersOK, AnswersAsked, connVars
<1> QED BY <1>10, <1>11, <1>12, PartsNext

LEMMA ParserLocksPreserves ==
  ASSUME IInv, ParserLocks
  PROVE  IInv'
<1>1. QueuesOK /\ TasksOK /\ PeersOK
  BY Parts
<1>2. /\ lock = None
      /\ lock' = IF parser'.does = "telling" THEN "parser" ELSE None
      /\ UNCHANGED <<connVars, peer, kill, out, connected, inVars, sender, handle, passes, handled,
                     calls>>
  BY DEF ParserLocks
<1>3. PICK S \in SUBSET connected : parser' \in Tells(S)
  BY DEF ParserLocks
<1>4. /\ parser' \in Task
      /\ parser'.does = "telling" => parser'.to \in Clients
  BY <1>1, <1>3, TellsFacts DEF TasksOK
<1>5. TasksOK'
  BY <1>1, <1>2, <1>4, ConnectionAssumption DEF TasksOK, Addressed
<1>6. QueuesOK' /\ PeersOK'
  BY <1>1, <1>2, QueuesStay DEF PeersOK, AnswersAsked, connVars
<1> QED BY <1>5, <1>6, PartsNext

LEMMA ParserDisconnectsPreserves ==
  ASSUME IInv, ParserDisconnects
  PROVE  IInv'
<1>1. QueuesOK /\ TasksOK /\ PeersOK
  BY Parts
<1>2. /\ parser.does = "disconnect" /\ parser' \in {Idle, [Idle EXCEPT !.does = "tell"]}
      /\ UNCHANGED <<connVars, peer, out, inVars, lock, sender, handle, passes, handled, calls>>
      /\ connected' \subseteq connected
  BY DEF ParserDisconnects
<1>3. kill' = kill \/ \E c \in connected : kill' = [kill EXCEPT ![c] = TRUE]
  BY DEF ParserDisconnects
<1>4. parser' \in Task /\ parser'.does # "telling"
  BY <1>2 DEF Idle, Task
<1>5. TasksOK'
  BY <1>1, <1>2, <1>4 DEF TasksOK, Addressed
<1>6. kill' \in [Clients -> BOOLEAN]
  BY <1>1, <1>3 DEF PeersOK, TasksOK
<1>7. QueuesOK' /\ PeersOK'
  BY <1>1, <1>2, <1>6, QueuesStay DEF PeersOK, AnswersAsked, connVars
<1> QED BY <1>5, <1>7, PartsNext

\* A message to a client that has room for it.
LEMMA Sent ==
  ASSUME TasksOK, NEW c \in Clients, NEW m \in {"text", "binary"}, Accepts(c),
         out' = [out EXCEPT ![c] = Append(@, m)]
  PROVE  out' \in [Clients -> Seq({"text", "binary"})] /\ \A d \in Clients : Len(out'[d]) <= OutCap
<1> DEFINE q == out[c]
           T == {"text", "binary"}
<1>1. q \in Seq(T) /\ Len(q) < OutCap /\ OutCap \in Nat /\ m \in T
      /\ out' = [out EXCEPT ![c] = Append(q, m)]
  BY ConnectionAssumption DEF TasksOK, Accepts
<1> HIDE DEF q, T
<1>2. Append(q, m) \in Seq(T) /\ Len(Append(q, m)) <= OutCap
  BY <1>1, AppendOf, LenProperties
<1> QED BY <1>1, <1>2 DEF TasksOK, T

LEMMA ParserSendsPreserves ==
  ASSUME IInv, ParserSends
  PROVE  IInv'
<1>1. QueuesOK /\ TasksOK /\ PeersOK
  BY Parts
<1> DEFINE c == parser.to
<1>2. /\ parser.does = "telling"
      /\ \/ parser' = Idle /\ UNCHANGED out
         \/ /\ Accepts(c)
            /\ out' = [out EXCEPT ![c] = Append(@, "text")]
            /\ parser' \in Tells(parser.left)
      /\ lock' = IF parser'.does = "idle" THEN None ELSE lock
      /\ UNCHANGED <<connVars, peer, kill, connected, inVars, sender, handle, passes, handled,
                     calls>>
  BY DEF ParserSends
<1>3. /\ c \in Clients /\ lock = "parser" /\ parser.left \subseteq Clients
      /\ sender.does # "telling" /\ handle.does # "telling"
  BY <1>1, <1>2 DEF TasksOK, Addressed, Task
<1> HIDE DEF c
<1>4. out' \in [Clients -> Seq({"text", "binary"})] /\ \A d \in Clients : Len(out'[d]) <= OutCap
  BY <1>1, <1>2, <1>3, Sent DEF TasksOK
<1>5. /\ parser' \in Task /\ parser'.does \in {"idle", "telling"}
      /\ parser'.does = "telling" => parser'.to \in Clients
  <2>1. CASE parser' = Idle
    BY <2>1 DEF Idle, Task
  <2>2. CASE parser' \in Tells(parser.left)
    BY <1>3, <2>2, TellsFacts
  <2> QED BY <1>2, <2>1, <2>2
<1>6. TasksOK'
  BY <1>1, <1>2, <1>3, <1>4, <1>5, ConnectionAssumption DEF TasksOK, Addressed
<1>7. QueuesOK' /\ PeersOK'
  BY <1>1, <1>2, QueuesStay DEF PeersOK, AnswersAsked, connVars
<1> QED BY <1>6, <1>7, PartsNext

LEMMA SenderPreserves ==
  ASSUME IInv, SenderLocks \/ SenderSends
  PROVE  IInv'
<1>1. QueuesOK /\ TasksOK /\ PeersOK /\ MaxOut \in Nat
  BY Parts, ConnectionAssumption
<1>2. UNCHANGED <<connVars, peer, kill, connected, inVars, parser, handle, handled, calls>>
  BY DEF SenderLocks, SenderSends
<1>3. QueuesOK' /\ PeersOK'
  BY <1>1, <1>2, QueuesStay DEF PeersOK, AnswersAsked, connVars
<1>4. CASE SenderLocks
  <2>1. /\ lock = None /\ lock' = "send_out" /\ passes < MaxOut /\ passes' = passes + 1
        /\ UNCHANGED out
    BY <1>4 DEF SenderLocks
  <2>2. PICK S \in (SUBSET connected) \ {{}} : sender' \in Tells(S)
    BY <1>4 DEF SenderLocks
  <2>3. /\ sender' \in Task /\ sender'.does = "telling" /\ sender'.to \in Clients
    <3>1. S \subseteq Clients /\ S # {}
      BY <1>1 DEF TasksOK
    <3>2. sender'.does = "telling"
      BY <2>2, <3>1 DEF Tells
    <3> QED BY <2>2, <3>1, <3>2, TellsFacts
  <2>4. TasksOK'
    BY <1>1, <1>2, <2>1, <2>3, ConnectionAssumption DEF TasksOK, Addressed
  <2> QED BY <1>3, <2>4, PartsNext
<1>5. CASE SenderSends
  <2> DEFINE c == sender.to
  <2>1. /\ sender.does = "telling"
        /\ \/ UNCHANGED out
           \/ Accepts(c) /\ out' = [out EXCEPT ![c] = Append(@, "binary")]
        /\ sender' \in Tells(sender.left)
        /\ lock' = IF sender'.does = "idle" THEN None ELSE lock
        /\ UNCHANGED passes
    BY <1>5 DEF SenderSends
  <2>2. /\ c \in Clients /\ lock = "send_out" /\ sender.left \subseteq Clients
        /\ parser.does # "telling" /\ handle.does # "telling"
    BY <1>1, <2>1 DEF TasksOK, Addressed, Task
  <2> HIDE DEF c
  <2>3. out' \in [Clients -> Seq({"text", "binary"})] /\ \A d \in Clients : Len(out'[d]) <= OutCap
    BY <1>1, <2>1, <2>2, Sent DEF TasksOK
  <2>4. /\ sender' \in Task /\ sender'.does \in {"idle", "telling"}
        /\ sender'.does = "telling" => sender'.to \in Clients
    BY <2>1, <2>2, TellsFacts
  <2>5. TasksOK'
    BY <1>1, <1>2, <2>1, <2>2, <2>3, <2>4, ConnectionAssumption DEF TasksOK, Addressed
  <2> QED BY <1>3, <2>5, PartsNext
<1> QED BY <1>4, <1>5

LEMMA HandlePreserves ==
  ASSUME IInv, HandleLocks \/ HandleSends
  PROVE  IInv'
<1>1. QueuesOK /\ TasksOK /\ PeersOK /\ MaxCalls \in Nat
  BY Parts, ConnectionAssumption
<1>2. UNCHANGED <<connVars, peer, kill, connected, inVars, parser, sender, passes, handled>>
  BY DEF HandleLocks, HandleSends
<1>3. QueuesOK' /\ PeersOK'
  BY <1>1, <1>2, QueuesStay DEF PeersOK, AnswersAsked, connVars
<1>4. CASE HandleLocks
  <2>1. /\ lock = None /\ lock' = "handle" /\ calls < MaxCalls /\ calls' = calls + 1
        /\ UNCHANGED out
    BY <1>4 DEF HandleLocks
  <2>2. PICK S \in (SUBSET connected) \ {{}} : handle' \in Tells(S)
    BY <1>4 DEF HandleLocks
  <2>3. /\ handle' \in Task /\ handle'.does = "telling" /\ handle'.to \in Clients
    <3>1. S \subseteq Clients /\ S # {}
      BY <1>1 DEF TasksOK
    <3>2. handle'.does = "telling"
      BY <2>2, <3>1 DEF Tells
    <3> QED BY <2>2, <3>1, <3>2, TellsFacts
  <2>4. TasksOK'
    BY <1>1, <1>2, <2>1, <2>3, ConnectionAssumption DEF TasksOK, Addressed
  <2> QED BY <1>3, <2>4, PartsNext
<1>5. CASE HandleSends
  <2> DEFINE c == handle.to
  <2>1. /\ handle.does = "telling"
        /\ \/ handle' = Idle /\ UNCHANGED out
           \/ /\ Accepts(c)
              /\ out' = [out EXCEPT ![c] = Append(@, "text")]
              /\ handle' \in Tells(handle.left)
        /\ lock' = IF handle'.does = "idle" THEN None ELSE lock
        /\ UNCHANGED calls
    BY <1>5 DEF HandleSends
  <2>2. /\ c \in Clients /\ lock = "handle" /\ handle.left \subseteq Clients
        /\ parser.does # "telling" /\ sender.does # "telling"
    BY <1>1, <2>1 DEF TasksOK, Addressed, Task
  <2> HIDE DEF c
  <2>3. out' \in [Clients -> Seq({"text", "binary"})] /\ \A d \in Clients : Len(out'[d]) <= OutCap
    BY <1>1, <2>1, <2>2, Sent DEF TasksOK
  <2>4. /\ handle' \in Task /\ handle'.does \in {"idle", "telling"}
        /\ handle'.does = "telling" => handle'.to \in Clients
    <3>1. CASE handle' = Idle
      BY <3>1 DEF Idle, Task
    <3>2. CASE handle' \in Tells(handle.left)
      BY <2>2, <3>2, TellsFacts
    <3> QED BY <2>1, <3>1, <3>2
  <2>5. TasksOK'
    BY <1>1, <1>2, <2>1, <2>2, <2>3, <2>4, ConnectionAssumption DEF TasksOK, Addressed
  <2> QED BY <1>3, <2>5, PartsNext
<1> QED BY <1>4, <1>5

--------------------------------------------------------------------------------
\* The theorems

LEMMA StepPreserves == IInv /\ [Next]_vars => IInv'
<1> SUFFICES ASSUME IInv, [Next]_vars PROVE IInv'
  OBVIOUS
<1>1. ASSUME NEW c \in Clients,
             \/ Connect(c) \/ Receive(c) \/ ReceiveTime(c)
             \/ PeerCloses(c) \/ PeerBreaks(c) \/ PeerStalls(c) \/ PeerResumes(c)
             \/ HandOver(c) \/ IncomingEnds(c) \/ Loop(c) \/ Close(c)
      PROVE  IInv'
  BY <1>1, ConnectPreserves, ReceivePreserves, PeerPreserves, HandOverPreserves,
     IncomingEndsPreserves, LoopPreserves, ClosePreserves
<1>2. CASE ParserStep
  BY <1>2, ParserTakesPreserves, ParserLocksPreserves, ParserDisconnectsPreserves,
     ParserSendsPreserves DEF ParserStep
<1>3. CASE SenderLocks \/ SenderSends
  BY <1>3, SenderPreserves
<1>4. CASE HandleLocks \/ HandleSends
  BY <1>4, HandlePreserves
<1>5. CASE UNCHANGED vars
  <2>1. QueuesOK /\ TasksOK /\ PeersOK
    BY Parts
  <2>2. UNCHANGED <<conn, sent, answers, loop, inVars, taskVars, peer, kill, out, connected, lock>>
    BY <1>5 DEF vars, connVars
  <2>3. QueuesOK' /\ TasksOK' /\ PeersOK'
    BY <2>1, <2>2, QueuesStay, TasksStay DEF PeersOK, AnswersAsked
  <2> QED BY <2>3, PartsNext
<1> QED BY <1>1, <1>2, <1>3, <1>4, <1>5 DEF Next

\* What is known of the connections and channels in every state the server can be in.
THEOREM ConnectionInvariant == Spec => []IInv
<1> QED BY InitEstablishes, StepPreserves, PTL DEF Spec

\* No channel exceeds its capacity, the one to the parser counted with the room it has
\* given away; nobody waits for room while there is some; and whoever sends to clients
\* holds the lock (broadcast_incoming, send_out, announce_topic).
THEOREM ChannelsKeepCapacity == Spec => []TypeOK
<1>1. IInv => TypeOK
  BY DEF IInv
<1> QED BY <1>1, ConnectionInvariant, PTL

\* The close message that handle_connection sends when its select! is over is the last the
\* parser gets of the connection, which gets nothing more of it when it has taken that, though
\* handlers may wait for room in front of it or have been given some; and they give that back.
THEOREM CloseComesLast == Spec => []CloseIsLast
<1>1. IInv => CloseIsLast
  BY DEF IInv
<1> QED BY <1>1, ConnectionInvariant, PTL
================================================================================
