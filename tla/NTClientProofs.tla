---------------------------- MODULE NTClientProofs ----------------------------
(***************************************************************************)
(* Proofs about NTClient, for any number of tasks, uids, ids and           *)
(* connections and any capacities.                                         *)
(***************************************************************************)
EXTENDS NTClient, TLAPS

\* What the socket task works on fits the place where it is.
WorkOK ==
  /\ sock = "handle" => work \in ServerMessages
  /\ sock = "deliver" => work \in ServerMessages /\ work.kind = "value"
  /\ sock \in {"time", "batch"} => work \in Messages /\ work.kind = "batch"

\* A subuid is recorded once at most: a call that is to record it has it to itself.
SubUIDsFresh ==
  /\ \A s \in subs \cup missed : s < next_sub
  /\ \A h \in Handles : calls[h] # None /\ calls[h].op = "subscribe" =>
       calls[h].uid < next_sub /\ calls[h].uid \notin subs \cup missed
  /\ \A g, h \in Handles :
       (/\ calls[g] # None /\ calls[g].op = "subscribe"
        /\ calls[h] # None /\ calls[h].op = "subscribe"
        /\ calls[g].uid = calls[h].uid) => g = h

IInv == TypeOK /\ WorkOK /\ SubUIDsFresh /\ NoGaps

\* Ids and names.  The server's messages change what the ids mean one after the other,
\* from what the client has them for now to what the server has them for.

Meanings == [Ids -> Names \cup {None}]

\* Message m can be sent while the ids mean a, and they mean b afterwards.
Reads(a, m, b) ==
  \/ m.kind = "announce" /\ a[m.id] \in {None, m.name} /\ b = [a EXCEPT ![m.id] = m.name]
  \/ m.kind = "unannounce" /\ b = [a EXCEPT ![m.id] = None]
  \/ m.kind = "value" /\ a[m.id] = m.name /\ b = a
  \/ m.kind = "time" /\ b = a

\* e is what the ids mean before the first message of the wire, after it, and so on.
Explains(e) ==
  /\ IF sock \in {"handle", "deliver"} THEN Reads(announced, work, e[0]) ELSE e[0] = announced
  /\ \A k \in 1 .. Len(wire) : Reads(e[k - 1], wire[k], e[k])
  /\ up => e[Len(wire)] = ids

Going == sock \notin {"down", "open", "dying", "dead"}

LinkInv ==
  /\ sock \in {"open", "time", "batch"} => wire = <<>> /\ ids = NoIds /\ srv = NothingTold
  /\ Going => \E e \in [0 .. Len(wire) -> Meanings] : Explains(e)

\* A value that is being handled means what the client takes it to mean.
LEMMA Understood ==
  ASSUME IInv, LinkInv, sock \in {"handle", "deliver"}, work.kind = "value"
  PROVE  announced[work.id] = work.name /\ work.name # None
<1>1. PICK e \in [0 .. Len(wire) -> Meanings] : Explains(e)
  BY DEF LinkInv, Going
<1>2. Reads(announced, work, e[0])
  BY <1>1 DEF Explains
<1>3. work \in ServerMessages
  BY DEF IInv, WorkOK
<1>4. work.name # None
  BY <1>3, ClientAssumption DEF ServerMessages
<1> QED
  BY <1>2, <1>4 DEF Reads

--------------------------------------------------------------------------------
\* Queues and messages

LEMMA AppendRoom ==
  ASSUME NEW S, NEW q \in Seq(S), NEW k \in Nat, Len(q) < k, NEW e \in S
  PROVE  Append(q, e) \in Seq(S) /\ Len(Append(q, e)) <= k
  OBVIOUS

LEMMA TailShorter ==
  ASSUME NEW S, NEW q \in Seq(S), q # <<>>
  PROVE  Head(q) \in S /\ Tail(q) \in Seq(S) /\ Len(Tail(q)) <= Len(q)
  OBVIOUS

LEMMA TailNoLonger ==
  ASSUME NEW S, NEW q \in Seq(S), q # <<>>, NEW k \in Nat, Len(q) <= k
  PROVE  Tail(q) \in Seq(S) /\ Len(Tail(q)) <= k
  OBVIOUS

LEMMA PrefixShorter ==
  ASSUME NEW S, NEW q \in Seq(S), NEW k \in 0 .. Len(q)
  PROVE  SubSeq(q, 1, k) \in Seq(S) /\ Len(SubSeq(q, 1, k)) <= Len(q)
  OBVIOUS

LEMMA TimeIsMessage == [kind |-> "time"] \in Messages /\ [kind |-> "time"] \in ServerMessages
  BY DEF Messages, ServerMessages

\* The server's knowledge keeps its type.
LEMMA ToldTyped ==
  ASSUME NEW m \in Messages,
         srv \in [pubs : SUBSET PubUIDs, subs : SUBSET SubUIDs, asked : BOOLEAN]
  PROVE  Told(m) \in [pubs : SUBSET PubUIDs, subs : SUBSET SubUIDs, asked : BOOLEAN]
<1> DEFINE T == [pubs : SUBSET PubUIDs, subs : SUBSET SubUIDs, asked : BOOLEAN]
<1>1. CASE m.kind \in {"publish", "unpublish"}
  <2>1. m.uid \in PubUIDs
    BY <1>1 DEF Messages, TopicOps, SubOps
  <2> QED
    BY <1>1, <2>1 DEF Told
<1>2. CASE m.kind \in {"subscribe", "unsubscribe"}
  <2>1. m.uid \in SubUIDs
    BY <1>2 DEF Messages, TopicOps, SubOps
  <2> QED
    BY <1>2, <2>1 DEF Told
<1>3. CASE m.kind = "batch"
  <2>1. m.pubs \subseteq PubUIDs /\ m.subs \subseteq SubUIDs
    BY <1>3 DEF Messages, TopicOps, SubOps
  <2> QED
    BY <1>3, <2>1 DEF Told
<1>4. CASE m.kind \notin {"publish", "unpublish", "subscribe", "unsubscribe", "batch"}
  BY <1>4 DEF Told
<1> QED
  BY <1>1, <1>2, <1>3, <1>4

--------------------------------------------------------------------------------
\* Calls of the program

LEMMA CallSound ==
  ASSUME IInv, NEW h \in Handles, NEW c \in Callable, Call(h, c)
  PROVE  IInv'
<1> USE DEF IInv
<1>1. /\ c.op \in TopicOps => c.uid \in PubUIDs
      /\ c.op \in SubOps => c.uid \in SubUIDs
      /\ c.op \in TopicOps \cup SubOps
      /\ c.op = "subscribe" => c.uid = next_sub
  BY DEF Callable, TypeOK, TopicOps, SubOps
<1>2. [op |-> c.op, uid |-> c.uid, at |-> "send"] \in Calls
  BY <1>1 DEF Calls
<1>3. /\ next_pub' \in Nat
      /\ next_sub' \in Nat
      /\ next_sub <= next_sub'
      /\ c.op = "subscribe" => next_sub' = next_sub + 1
  BY DEF Call, TypeOK
<1>4. TypeOK'
  <2>1. used' \in [conns : Nat, calls : Nat, ticks : Nat]
    <3>1. used \in [conns : Nat, calls : Nat, ticks : Nat]
      BY DEF TypeOK
    <3>2. used' = [used EXCEPT !.calls = @ + 1]
      BY DEF Call
    <3> QED
      BY <3>1, <3>2
  <2>2. calls' \in [Handles -> Calls \cup {None}]
    BY <1>2 DEF Call, TypeOK
  <2>3. panic' \in {"empty", "sent", "taken"} /\ streams' \subseteq SubUIDs
    BY DEF Call, TypeOK
  <2> QED
    BY <1>3, <2>1, <2>2, <2>3 DEF Call, TypeOK, linkVars, histVars
<1>5. WorkOK'
  BY DEF Call, WorkOK
<1>6. SubUIDsFresh'
  <2>1. subs' = subs /\ missed' = missed
    BY DEF Call, histVars
  <2>2. \A s \in subs \cup missed : s < next_sub /\ s \in Nat
    BY DEF SubUIDsFresh, TypeOK, SubUIDs
  <2>3. \A g \in Handles : calls'[g] # None /\ calls'[g].op = "subscribe" =>
          \/ calls'[g] = calls[g] /\ calls[g].uid \in Nat /\ calls[g].uid < next_sub
             /\ calls[g].uid \notin subs \cup missed
          \/ g = h /\ calls'[g].uid = next_sub /\ c.op = "subscribe"
    <3> SUFFICES ASSUME NEW g \in Handles, calls'[g] # None, calls'[g].op = "subscribe"
                 PROVE  \/ calls'[g] = calls[g] /\ calls[g].uid \in Nat
                           /\ calls[g].uid < next_sub /\ calls[g].uid \notin subs \cup missed
                        \/ g = h /\ calls'[g].uid = next_sub /\ c.op = "subscribe"
      OBVIOUS
    <3>1. CASE calls'[g] = calls[g]
      <4>1. calls[g] \in Calls
        BY <3>1 DEF TypeOK
      <4>2. calls[g].uid \in SubUIDs
        BY <3>1, <4>1 DEF Calls, TopicOps
      <4> QED
        BY <3>1, <4>2 DEF SubUIDsFresh, SubUIDs
    <3>2. CASE calls'[g] # calls[g]
      BY <1>1, <3>2 DEF Call, TypeOK
    <3> QED
      BY <3>1, <3>2
  <2>4. next_sub \in Nat
    BY DEF TypeOK
  <2>5. \A f, g \in Handles :
          (/\ calls'[f] # None /\ calls'[f].op = "subscribe"
           /\ calls'[g] # None /\ calls'[g].op = "subscribe"
           /\ calls'[f].uid = calls'[g].uid) => f = g
    BY <2>3, <2>4 DEF SubUIDsFresh
  <2>6. \A g \in Handles : calls'[g] # None /\ calls'[g].op = "subscribe" =>
          calls'[g].uid < next_sub' /\ calls'[g].uid \notin subs \cup missed
    BY <1>3, <2>2, <2>3, <2>4
  <2>7. \A s \in subs \cup missed : s < next_sub'
    BY <1>3, <2>2, <2>4
  <2> QED
    BY <2>1, <2>5, <2>6, <2>7 DEF SubUIDsFresh
<1>7. NoGaps'
  BY DEF Call, NoGaps, histVars
<1> QED
  BY <1>4, <1>5, <1>6, <1>7

\* A step that only ends calls or moves them on keeps what is known of their subuids.
LEMMA CallsMoveOn ==
  ASSUME SubUIDsFresh,
         \A g \in Handles : calls'[g] # None /\ calls'[g].op = "subscribe" =>
           calls[g] # None /\ calls[g].op = "subscribe" /\ calls'[g].uid = calls[g].uid,
         next_sub' = next_sub, subs' \subseteq subs, missed' \subseteq missed \cup subs
  PROVE  SubUIDsFresh'
<1>1. \A s \in subs' \cup missed' : s < next_sub'
  BY DEF SubUIDsFresh
<1>2. \A g \in Handles : calls'[g] # None /\ calls'[g].op = "subscribe" =>
        calls'[g].uid < next_sub' /\ calls'[g].uid \notin subs' \cup missed'
  BY DEF SubUIDsFresh
<1>3. \A f, g \in Handles :
        (/\ calls'[f] # None /\ calls'[f].op = "subscribe"
         /\ calls'[g] # None /\ calls'[g].op = "subscribe"
         /\ calls'[f].uid = calls'[g].uid) => f = g
  BY DEF SubUIDsFresh
<1> QED
  BY <1>1, <1>2, <1>3 DEF SubUIDsFresh

LEMMA SendSound ==
  ASSUME IInv, NEW h \in Handles, Send(h)
  PROVE  IInv'
<1> USE DEF IInv
<1> DEFINE c == calls[h]
<1>1. c \in Calls /\ c # None
  BY DEF Send, TypeOK
<1>2. /\ c.op \in TopicOps \cup SubOps
      /\ c.op \in TopicOps => c.uid \in PubUIDs
      /\ c.op \in SubOps => c.uid \in SubUIDs
  BY <1>1 DEF Calls, TopicOps, SubOps
<1>3. [kind |-> c.op, uid |-> c.uid] \in Messages
  BY <1>2 DEF Messages
<1>4. \A a \in {"record", "panicked"} : [c EXCEPT !.at = a] \in Calls
  BY <1>1 DEF Calls
<1>5. /\ calls' \in [Handles -> Calls \cup {None}]
      /\ \A g \in Handles : calls'[g] # None /\ calls'[g].op = "subscribe" =>
           calls[g] # None /\ calls[g].op = "subscribe" /\ calls'[g].uid = calls[g].uid
  <2>1. calls' = [calls EXCEPT ![h].at = "panicked"] \/ calls' = [calls EXCEPT ![h] = None]
        \/ calls' = [calls EXCEPT ![h].at = "record"]
    BY DEF Send
  <2>2. \A a \in {"record", "panicked"} :
          [c EXCEPT !.at = a].op = c.op /\ [c EXCEPT !.at = a].uid = c.uid
    BY <1>1 DEF Calls
  <2>3. calls \in [Handles -> Calls \cup {None}]
    BY DEF TypeOK
  <2> HIDE DEF c
  <2>4. c = calls[h]
    BY DEF c
  <2> QED
    BY <1>1, <1>4, <2>1, <2>2, <2>3, <2>4
<1>6. chan' \in Seq(Messages) /\ Len(chan') <= ChanCap
  <2>1. CASE Room /\ chan' = Append(chan, [kind |-> c.op, uid |-> c.uid])
    BY <1>3, <2>1, AppendRoom, ClientAssumption DEF Room, TypeOK
  <2>2. CASE chan' = chan
    BY <2>2 DEF TypeOK
  <2> QED
    BY <2>1, <2>2 DEF Send
<1>7. TypeOK'
  <2>1. released' \subseteq PubUIDs /\ streams' \subseteq SubUIDs
    BY <1>2 DEF Send, TypeOK, TopicOps
  <2> QED
    BY <1>5, <1>6, <2>1 DEF Send, TypeOK, linkVars, histVars
<1>8. WorkOK'
  BY DEF Send, WorkOK
<1>9. SubUIDsFresh'
  BY <1>5, CallsMoveOn DEF Send, histVars
<1>10. NoGaps'
  BY DEF Send, NoGaps, histVars
<1> QED
  BY <1>7, <1>8, <1>9, <1>10

LEMMA RecordSound ==
  ASSUME IInv, NEW h \in Handles, Record(h)
  PROVE  IInv'
<1> USE DEF IInv
<1> DEFINE c == calls[h]
<1>1. c \in Calls /\ c # None
  BY DEF Record, TypeOK
<1>2. /\ c.op \in {"publish", "unpublish", "value"} => c.uid \in PubUIDs
      /\ c.op \in {"subscribe", "unsubscribe"} => c.uid \in SubUIDs
  BY <1>1 DEF Calls, TopicOps, SubOps
<1>3. TypeOK'
  <2>1. published' \subseteq PubUIDs /\ subs' \subseteq SubUIDs /\ streams' \subseteq SubUIDs
    BY <1>2 DEF Record, TypeOK
  <2>2. calls' \in [Handles -> Calls \cup {None}]
    BY DEF Record, TypeOK
  <2> QED
    BY <2>1, <2>2 DEF Record, TypeOK, linkVars, histVars
<1>4. WorkOK'
  BY DEF Record, WorkOK
<1>5. \A g \in Handles : calls'[g] # None => g # h /\ calls'[g] = calls[g]
  BY DEF Record, TypeOK
<1>6. next_sub' = next_sub /\ missed' = missed
  BY DEF Record, histVars
<1>7. CASE c.op = "subscribe"
  <2>1. subs' = subs \cup {c.uid}
    BY <1>7 DEF Record
  <2>2. c.uid < next_sub /\ c.uid \notin missed
    BY <1>1, <1>7 DEF SubUIDsFresh
  <2>3. \A g \in Handles : calls'[g] # None /\ calls'[g].op = "subscribe" => calls[g].uid # c.uid
    BY <1>1, <1>5, <1>7 DEF SubUIDsFresh
  <2>4. SubUIDsFresh'
    BY <1>5, <1>6, <2>1, <2>2, <2>3 DEF SubUIDsFresh
  <2>5. NoGaps'
    BY <1>6, <2>1, <2>2 DEF NoGaps
  <2> QED
    BY <1>3, <1>4, <2>4, <2>5
<1>8. CASE c.op # "subscribe"
  <2>1. subs' \subseteq subs
    BY <1>8 DEF Record
  <2>2. SubUIDsFresh'
    BY <1>5, <1>6, <2>1, CallsMoveOn
  <2>3. NoGaps'
    BY <1>6, <2>1 DEF NoGaps
  <2> QED
    BY <1>3, <1>4, <2>2, <2>3
<1> QED
  BY <1>7, <1>8

\* What the program does with its streams.
LEMMA StreamStepSound ==
  ASSUME IInv, NEW s \in SubUIDs, Read(s) \/ DropStream(s)
  PROVE  IInv'
<1> USE DEF IInv
<1>1. TypeOK'
  <2>1. unread' \in [SubUIDs -> 0 .. StreamCap]
    <3>1. unread \in [SubUIDs -> 0 .. StreamCap] /\ StreamCap \in Nat
      BY ClientAssumption DEF TypeOK
    <3>2. CASE unread' = unread
      BY <3>1, <3>2
    <3>3. CASE unread[s] > 0 /\ unread' = [unread EXCEPT ![s] = @ - 1]
      <4>1. unread[s] - 1 \in 0 .. StreamCap
        BY <3>1, <3>3
      <4> QED
        BY <3>1, <3>3, <4>1
    <3> QED
      BY <3>2, <3>3 DEF Read, DropStream
  <2>2. streams' \subseteq SubUIDs
    BY DEF Read, DropStream, TypeOK, progVars
  <2> QED
    BY <2>1, <2>2 DEF Read, DropStream, TypeOK, progVars, linkVars, histVars
<1>2. WorkOK' /\ NoGaps'
  BY DEF Read, DropStream, WorkOK, NoGaps, progVars, linkVars, histVars
<1>3. SubUIDsFresh'
  BY DEF Read, DropStream, SubUIDsFresh, progVars, linkVars, histVars
<1> QED
  BY <1>1, <1>2, <1>3

--------------------------------------------------------------------------------
\* Steps that leave the tables of subscriptions and the calls alone

\* SubUIDsFresh and NoGaps speak of these variables only.
LEMMA SubscriptionsUntouched ==
  ASSUME SubUIDsFresh, NoGaps, UNCHANGED <<subs, missed, calls, next_sub>>
  PROVE  SubUIDsFresh' /\ NoGaps'
  BY DEF SubUIDsFresh, NoGaps

\* A message of this task or another is queued.
LEMMA QueueTyped ==
  ASSUME TypeOK, Room, NEW m \in Messages, chan' = Append(chan, m)
  PROVE  chan' \in Seq(Messages) /\ Len(chan') <= ChanCap
  BY AppendRoom, ClientAssumption DEF TypeOK, Room

LEMMA TickerSound ==
  ASSUME IInv, Tick \/ TickSends
  PROVE  IInv'
<1> USE DEF IInv
<1>1. UNCHANGED <<published, subs, unread, announced, progVars, calls, sock, work, linkVars,
                  histVars>>
  BY DEF Tick, TickSends
<1>2. used' \in [conns : Nat, calls : Nat, ticks : Nat]
  <2>1. used \in [conns : Nat, calls : Nat, ticks : Nat]
    BY DEF TypeOK
  <2>2. used' = [used EXCEPT !.ticks = @ + 1] \/ used' = used
    BY DEF Tick, TickSends
  <2> QED
    BY <2>1, <2>2
<1>3. chan' \in Seq(Messages) /\ Len(chan') <= ChanCap
  <2>1. CASE chan' = chan
    BY <2>1 DEF TypeOK
  <2>2. CASE Room /\ chan' = Append(chan, [kind |-> "time"])
    BY <2>2, TimeIsMessage, QueueTyped
  <2> QED
    BY <2>1, <2>2 DEF Tick, TickSends
<1>4. /\ ticker' \in {"asleep", "sending", "panicked"}
      /\ panic' \in {"empty", "sent", "taken"}
  BY DEF Tick, TickSends, TypeOK
<1>5. TypeOK'
  BY <1>1, <1>2, <1>3, <1>4 DEF TypeOK, progVars, linkVars, histVars
<1>6. WorkOK'
  BY <1>1 DEF WorkOK
<1> QED
  BY <1>1, <1>5, <1>6, SubscriptionsUntouched DEF progVars, histVars

\* The socket task sends, takes a message, or finds the connection broken.
LEMMA SelectSound ==
  ASSUME IInv, Transmit \/ Receive \/ NoticeBreak
  PROVE  IInv'
<1> USE DEF IInv
<1>1. UNCHANGED <<published, subs, unread, announced, progVars, calls, ticker, up, ids, used,
                  histVars>>
  BY DEF Transmit, Receive, NoticeBreak, linkVars
<1>2. chan' \in Seq(Messages) /\ Len(chan') <= ChanCap
  <2>1. chan \in Seq(Messages) /\ Len(chan) <= ChanCap /\ ChanCap \in Nat
    BY ClientAssumption DEF TypeOK
  <2>2. CASE chan # <<>> /\ chan' = Tail(chan)
    BY <2>1, <2>2, TailNoLonger
  <2>3. CASE chan' = chan
    BY <2>1, <2>3
  <2> QED
    BY <2>2, <2>3 DEF Transmit, Receive, NoticeBreak
<1>3. wire' \in Seq(ServerMessages) /\ Len(wire') <= MaxWire
  <2>1. wire \in Seq(ServerMessages) /\ Len(wire) <= MaxWire /\ MaxWire \in Nat
    BY ClientAssumption DEF TypeOK
  <2>2. CASE wire # <<>> /\ wire' = Tail(wire)
    BY <2>1, <2>2, TailNoLonger
  <2>3. CASE wire' = wire
    BY <2>1, <2>3
  <2> QED
    BY <2>2, <2>3 DEF Transmit, Receive, NoticeBreak, linkVars
<1>4. srv' \in [pubs : SUBSET PubUIDs, subs : SUBSET SubUIDs, asked : BOOLEAN]
  <2>1. CASE srv' = srv
    BY <2>1 DEF TypeOK
  <2>2. CASE chan # <<>> /\ srv' = Told(Head(chan))
    <3>1. Head(chan) \in Messages
      BY <2>2, TailShorter DEF TypeOK
    <3> QED
      BY <2>2, <3>1, ToldTyped DEF TypeOK
  <2> QED
    BY <2>1, <2>2 DEF Transmit, Receive, NoticeBreak, linkVars
<1>5. /\ sock' \in {"select", "handle", "down", "dying"}
      /\ sock' = "handle" => work' \in ServerMessages
      /\ work' = work \/ work' \in ServerMessages
  BY TailShorter DEF Transmit, Receive, NoticeBreak, Disconnected, TypeOK
<1>6. panic' \in {"empty", "sent", "taken"}
  BY DEF Transmit, Receive, NoticeBreak, Disconnected, TypeOK
<1>7. TypeOK'
  BY <1>1, <1>2, <1>3, <1>4, <1>5, <1>6 DEF TypeOK, progVars, histVars
<1>8. WorkOK'
  BY <1>5 DEF WorkOK
<1> QED
  BY <1>1, <1>7, <1>8, SubscriptionsUntouched DEF progVars, histVars

\* A message of the server is handled, short of delivering a value.
LEMMA HandleSound ==
  ASSUME IInv, LinkInv, HandleAnnounce \/ HandleUnAnnounce \/ HandleValue \/ HandleTime
  PROVE  IInv'
<1>a. HandleValue => missed' = missed
  BY Understood DEF HandleValue
<1> USE DEF IInv
<1>1. UNCHANGED <<chan, published, subs, unread, progVars, calls, ticker, panic, linkVars,
                  used, histVars>>
  BY <1>a DEF HandleAnnounce, HandleUnAnnounce, HandleValue, HandleTime, histVars
<1>2. announced' \in [Ids -> Names \cup {None}]
  <2>1. CASE announced' = announced
    BY <2>1 DEF TypeOK
  <2>2. CASE announced' = [announced EXCEPT ![work.id] = None]
    BY <2>2 DEF TypeOK
  <2>3. CASE HandleAnnounce /\ announced' = [announced EXCEPT ![work.id] = work.name]
    <3>1. work \in ServerMessages /\ work.kind = "announce"
      BY <2>3 DEF HandleAnnounce, WorkOK
    <3>2. work.name \in Names
      BY <3>1 DEF ServerMessages
    <3> QED
      BY <2>3, <3>2 DEF TypeOK
  <2> QED
    BY <2>1, <2>2, <2>3 DEF HandleAnnounce, HandleUnAnnounce, HandleValue, HandleTime
<1>3. /\ sock' \in {"select", "deliver", "retime"}
      /\ work' = work \/ work' = None
      /\ sock' = "deliver" => work' = work /\ work \in ServerMessages /\ work.kind = "value"
  BY DEF HandleAnnounce, HandleUnAnnounce, HandleValue, HandleTime, WorkOK
<1>4. TypeOK'
  BY <1>1, <1>2, <1>3 DEF TypeOK, progVars, linkVars, histVars
<1>5. WorkOK'
  BY <1>3 DEF WorkOK
<1> QED
  BY <1>1, <1>4, <1>5, SubscriptionsUntouched DEF progVars, histVars

\* A value is delivered: a subscription that misses it is removed in the same step.
LEMMA DeliverSound ==
  ASSUME IInv, LinkInv, Deliver
  PROVE  IInv'
<1> DEFINE n == announced[work.id]
<1>a. work.name = n
  BY Understood DEF Deliver, IInv, WorkOK
<1> USE DEF IInv
<1>1. Deliverable(n) \subseteq Concerned(n) /\ Concerned(n) \subseteq subs
  BY DEF Deliverable, Concerned
<1>2. /\ subs' \subseteq subs /\ subs' \cap (Concerned(n) \ Deliverable(n)) = {}
      /\ missed' = missed \cup (Concerned(n) \ Deliverable(n))
  BY <1>a DEF Deliver
<1>3. unread' \in [SubUIDs -> 0 .. StreamCap]
  <2>1. \A s \in Deliverable(n) : unread[s] < StreamCap
    BY DEF Deliverable
  <2>2. unread' = [s \in SubUIDs |-> IF s \in Deliverable(n) THEN unread[s] + 1 ELSE unread[s]]
    BY DEF Deliver
  <2>3. unread \in [SubUIDs -> 0 .. StreamCap] /\ StreamCap \in Nat
    BY ClientAssumption DEF TypeOK
  <2> HIDE DEF n
  <2> QED
    BY <2>1, <2>2, <2>3
<1>4. subs' \subseteq SubUIDs /\ missed' \subseteq SubUIDs
  BY <1>1, <1>2 DEF TypeOK
<1>5. TypeOK'
  BY <1>3, <1>4 DEF Deliver, TypeOK, progVars, linkVars
<1>6. WorkOK'
  BY DEF Deliver, WorkOK
<1>7. SubUIDsFresh'
  BY <1>1, <1>2, CallsMoveOn DEF Deliver, progVars
<1>8. NoGaps'
  BY <1>2 DEF NoGaps
<1> QED
  BY <1>5, <1>6, <1>7, <1>8

\* on_open prepares its batch.
LEMMA OpenSound ==
  ASSUME IInv, Open
  PROVE  IInv'
<1> USE DEF IInv
<1>1. work' \in Messages /\ work'.kind = "batch"
  BY DEF Open, TypeOK, Messages
<1>2. announced' \in [Ids -> Names \cup {None}]
  BY DEF Open, NoIds
<1>3. raced' \subseteq (TopicOps \cup SubOps) \X (PubUIDs \cup SubUIDs)
  <2>1. \A h \in Handles : calls[h] # None =>
          calls[h].op \in TopicOps \cup SubOps /\ calls[h].uid \in PubUIDs \cup SubUIDs
    BY DEF TypeOK, Calls
  <2>2. BeingRecorded \subseteq (TopicOps \cup SubOps) \X (PubUIDs \cup SubUIDs)
    BY <2>1 DEF BeingRecorded
  <2> QED
    BY <2>2 DEF Open, TypeOK
<1>4. TypeOK'
  BY <1>1, <1>2, <1>3 DEF Open, TypeOK, progVars, linkVars
<1>5. WorkOK'
  BY <1>1 DEF Open, WorkOK
<1>6. SubUIDsFresh'
  BY CallsMoveOn DEF Open, progVars
<1>7. NoGaps'
  BY DEF Open, NoGaps
<1> QED
  BY <1>4, <1>5, <1>6, <1>7

\* The socket task queues a message, in on_open or to ask for the time again, or dies.
LEMMA SocketSendSound ==
  ASSUME IInv, OpenTime \/ OpenBatch \/ Retime \/ Die
  PROVE  IInv'
<1> USE DEF IInv
<1>1. UNCHANGED <<published, subs, unread, announced, progVars, calls, ticker, panic,
                  linkVars, used, histVars>>
  BY DEF OpenTime, OpenBatch, Retime, Die
<1>2. chan' \in Seq(Messages) /\ Len(chan') <= ChanCap
  <2>1. CASE Room /\ chan' = Append(chan, [kind |-> "time"])
    BY <2>1, TimeIsMessage, QueueTyped
  <2>2. CASE OpenBatch
    <3>1. work \in Messages
      BY <2>2 DEF OpenBatch, WorkOK
    <3> QED
      BY <2>2, <3>1, QueueTyped DEF OpenBatch
  <2>3. CASE Die
    BY <2>3, ClientAssumption DEF Die
  <2> QED
    BY <2>1, <2>2, <2>3 DEF OpenTime, Retime
<1>3. /\ sock' \in {"select", "batch", "dead"}
      /\ work' = work \/ work' = None
      /\ sock' = "batch" => work' = work /\ work \in Messages /\ work.kind = "batch"
  BY DEF OpenTime, OpenBatch, Retime, Die, WorkOK
<1>4. TypeOK'
  BY <1>1, <1>2, <1>3 DEF TypeOK, progVars, linkVars, histVars
<1>5. WorkOK'
  BY <1>3 DEF WorkOK
<1> QED
  BY <1>1, <1>4, <1>5, SubscriptionsUntouched DEF progVars, histVars

--------------------------------------------------------------------------------
\* The server and the connection

LEMMA LinkSound ==
  ASSUME IInv, Reconnect \/ Break
  PROVE  IInv'
<1> USE DEF IInv
<1>1. UNCHANGED <<chan, published, subs, unread, announced, progVars, calls, ticker, panic,
                  work, histVars>>
  BY DEF Reconnect, Break
<1>2. used' \in [conns : Nat, calls : Nat, ticks : Nat]
  <2>1. used \in [conns : Nat, calls : Nat, ticks : Nat]
    BY DEF TypeOK
  <2>2. used' = [used EXCEPT !.conns = @ + 1] \/ used' = used
    BY DEF Reconnect, Break
  <2> QED
    BY <2>1, <2>2
<1>3. wire' \in Seq(ServerMessages) /\ Len(wire') <= MaxWire
  <2>1. CASE Reconnect
    BY <2>1, ClientAssumption DEF Reconnect
  <2>2. CASE Break
    BY <2>2, PrefixShorter, ClientAssumption DEF Break, TypeOK
  <2> QED
    BY <2>1, <2>2
<1>4. /\ srv' \in [pubs : SUBSET PubUIDs, subs : SUBSET SubUIDs, asked : BOOLEAN]
      /\ ids' \in [Ids -> Names \cup {None}]
      /\ up' \in BOOLEAN
      /\ sock' = sock \/ sock' = "open"
  <2>1. CASE Reconnect
    <3>1. NothingTold \in [pubs : SUBSET PubUIDs, subs : SUBSET SubUIDs, asked : BOOLEAN]
      BY DEF NothingTold
    <3>2. NoIds \in [Ids -> Names \cup {None}]
      BY DEF NoIds
    <3> QED
      BY <2>1, <3>1, <3>2 DEF Reconnect
  <2>2. CASE Break
    BY <2>2 DEF Break, TypeOK
  <2> QED
    BY <2>1, <2>2
<1>5. TypeOK'
  BY <1>1, <1>2, <1>3, <1>4 DEF TypeOK, progVars, histVars
<1>6. WorkOK'
  BY <1>1, <1>4 DEF WorkOK
<1> QED
  BY <1>1, <1>5, <1>6, SubscriptionsUntouched DEF progVars, histVars

LEMMA ServerSound ==
  ASSUME IInv, NEW m \in ServerMessages, ServerSends(m),
         srv' \in [pubs : SUBSET PubUIDs, subs : SUBSET SubUIDs, asked : BOOLEAN],
         ids' \in [Ids -> Names \cup {None}]
  PROVE  IInv'
<1> USE DEF IInv
<1>1. wire' \in Seq(ServerMessages) /\ Len(wire') <= MaxWire
  BY AppendRoom, ClientAssumption DEF ServerSends, TypeOK
<1>2. TypeOK'
  BY <1>1 DEF ServerSends, TypeOK, progVars, histVars
<1>3. WorkOK'
  BY DEF ServerSends, WorkOK
<1> QED
  BY <1>2, <1>3, SubscriptionsUntouched DEF ServerSends, progVars, histVars

--------------------------------------------------------------------------------

LEMMA InitInv == Init => IInv
  BY ClientAssumption DEF Init, IInv, TypeOK, WorkOK, SubUIDsFresh, NoGaps, NothingTold, NoIds

LEMMA NextInv == IInv /\ LinkInv /\ [Next]_vars => IInv'
<1> SUFFICES ASSUME IInv, LinkInv, [Next]_vars PROVE IInv'
  OBVIOUS
<1>1. ASSUME NEW h \in Handles, NEW c \in Callable, Call(h, c) PROVE IInv'
  BY <1>1, CallSound
<1>2. ASSUME NEW h \in Handles, Send(h) \/ Record(h) PROVE IInv'
  BY <1>2, SendSound, RecordSound
<1>3. ASSUME NEW s \in SubUIDs, Read(s) \/ DropStream(s) PROVE IInv'
  BY <1>3, StreamStepSound
<1>4. CASE Tick \/ TickSends
  BY <1>4, TickerSound
<1>5. CASE SocketStep
  BY <1>5, SelectSound, HandleSound, DeliverSound, OpenSound, SocketSendSound DEF SocketStep
<1>6. CASE Reconnect \/ Break
  BY <1>6, LinkSound
<1>7. ASSUME NEW i \in Ids, NEW n \in Names, ServerAnnounces(i, n) PROVE IInv'
  <2>1. [kind |-> "announce", id |-> i, name |-> n] \in ServerMessages
    BY DEF ServerMessages
  <2>2. srv' = srv /\ ids' = [ids EXCEPT ![i] = n]
    BY <1>7 DEF ServerAnnounces
  <2>3. ids' \in [Ids -> Names \cup {None}]
    BY <2>2 DEF IInv, TypeOK
  <2>4. srv' \in [pubs : SUBSET PubUIDs, subs : SUBSET SubUIDs, asked : BOOLEAN]
    BY <2>2 DEF IInv, TypeOK
  <2> QED
    BY <1>7, <2>1, <2>3, <2>4, ServerSound DEF ServerAnnounces
<1>8. ASSUME NEW i \in Ids, ServerUnAnnounces(i) PROVE IInv'
  <2>1. [kind |-> "unannounce", id |-> i] \in ServerMessages
    BY DEF ServerMessages
  <2>2. srv' = srv /\ ids' = [ids EXCEPT ![i] = None]
    BY <1>8 DEF ServerUnAnnounces
  <2>3. ids' \in [Ids -> Names \cup {None}]
    BY <2>2 DEF IInv, TypeOK
  <2>4. srv' \in [pubs : SUBSET PubUIDs, subs : SUBSET SubUIDs, asked : BOOLEAN]
    BY <2>2 DEF IInv, TypeOK
  <2> QED
    BY <1>8, <2>1, <2>3, <2>4, ServerSound DEF ServerUnAnnounces
<1>9. ASSUME NEW i \in Ids, ServerSendsValue(i) PROVE IInv'
  <2>1. [kind |-> "value", id |-> i, name |-> ids[i]] \in ServerMessages
    BY <1>9 DEF ServerSendsValue, ServerMessages, IInv, TypeOK
  <2> QED
    BY <1>9, <2>1, ServerSound DEF ServerSendsValue, IInv, TypeOK
<1>10. CASE ServerSendsTime
  <2>1. srv' \in [pubs : SUBSET PubUIDs, subs : SUBSET SubUIDs, asked : BOOLEAN]
    BY <1>10 DEF ServerSendsTime, IInv, TypeOK
  <2> QED
    BY <1>10, <2>1, TimeIsMessage, ServerSound DEF ServerSendsTime, IInv, TypeOK
<1>11. CASE UNCHANGED vars
  BY <1>11 DEF vars, progVars, linkVars, histVars, IInv, TypeOK, WorkOK, SubUIDsFresh, NoGaps
<1> QED
  BY <1>1, <1>2, <1>3, <1>4, <1>5, <1>6, <1>7, <1>8, <1>9, <1>10, <1>11 DEF Next

--------------------------------------------------------------------------------

\* A step that touches neither the connection nor announced_topics.
LEMMA LinkUntouched ==
  ASSUME LinkInv, UNCHANGED <<announced, sock, work, linkVars>>
  PROVE  LinkInv'
  BY DEF LinkInv, Explains, Going, linkVars

\* The socket task moves on between two messages of the server.
LEMMA LinkBetween ==
  ASSUME LinkInv, UNCHANGED <<announced, wire, ids, up>>,
         sock \notin {"handle", "deliver"}, sock' \notin {"handle", "deliver"}, Going' => Going,
         sock' \in {"open", "time", "batch"} => sock \in {"open", "time", "batch"} /\ srv' = srv
  PROVE  LinkInv'
  BY DEF LinkInv, Explains

LEMMA ReceiveFollows ==
  ASSUME IInv, LinkInv, Receive
  PROVE  LinkInv'
<1>1. PICK e \in [0 .. Len(wire) -> Meanings] : Explains(e)
  BY DEF LinkInv, Going, Receive
<1>2. /\ wire \in Seq(ServerMessages) /\ wire # <<>> /\ wire' = Tail(wire)
      /\ work' = wire[1] /\ sock = "select" /\ sock' = "handle"
      /\ UNCHANGED <<announced, up, ids>>
  BY DEF IInv, TypeOK, Receive
<1>3. /\ Len(wire) \in Nat \ {0} /\ Len(wire') = Len(wire) - 1
      /\ \A k \in 1 .. Len(wire') : wire'[k] = wire[k + 1]
  BY <1>2
<1> DEFINE f == [k \in 0 .. Len(wire') |-> e[k + 1]]
<1>4. f \in [0 .. Len(wire') -> Meanings]
  BY <1>3
<1>5. Reads(announced', work', f[0])
  <2>1. f[0] = e[1] /\ e[0] = announced /\ Reads(e[0], wire[1], e[1])
    BY <1>1, <1>2, <1>3 DEF Explains
  <2> QED
    BY <1>2, <2>1
<1>6. \A k \in 1 .. Len(wire') : Reads(f[k - 1], wire'[k], f[k])
  <2>1. SUFFICES ASSUME NEW k \in 1 .. Len(wire') PROVE Reads(f[k - 1], wire'[k], f[k])
    OBVIOUS
  <2>2. k + 1 \in 1 .. Len(wire) /\ (k + 1) - 1 = k
    BY <1>3
  <2>3. Reads(e[k], wire[k + 1], e[k + 1])
    BY <1>1, <2>2 DEF Explains
  <2>4. f[k - 1] = e[k] /\ f[k] = e[k + 1] /\ wire'[k] = wire[k + 1]
    BY <1>3
  <2> QED
    BY <2>3, <2>4
<1>7. up' => f[Len(wire')] = ids'
  BY <1>1, <1>2, <1>3 DEF Explains
<1> HIDE DEF f
<1> QED
  BY <1>2, <1>4, <1>5, <1>6, <1>7 DEF LinkInv, Explains

\* What a message was to bring about is brought about when it has been handled.
LEMMA HandleFollows ==
  ASSUME IInv, LinkInv,
         HandleAnnounce \/ HandleUnAnnounce \/ HandleValue \/ HandleTime \/ Deliver
  PROVE  LinkInv'
<1>1. PICK e \in [0 .. Len(wire) -> Meanings] : Explains(e)
  BY DEF LinkInv, Going, HandleAnnounce, HandleUnAnnounce, HandleValue, HandleTime, Deliver
<1>2. /\ sock \in {"handle", "deliver"} /\ sock' \in {"select", "retime", "deliver"}
      /\ UNCHANGED <<wire, up, ids>>
  BY DEF HandleAnnounce, HandleUnAnnounce, HandleValue, HandleTime, Deliver, linkVars
<1>3. Reads(announced, work, e[0])
  BY <1>1, <1>2 DEF Explains
<1>4. CASE sock' = "deliver"
  <2>1. UNCHANGED <<announced, work>>
    BY <1>4 DEF HandleAnnounce, HandleUnAnnounce, HandleValue, HandleTime, Deliver
  <2> QED
    BY <1>1, <1>2, <1>3, <1>4, <2>1 DEF LinkInv, Explains
<1>5. CASE sock' # "deliver"
  <2>1. announced' = e[0]
    <3>1. announced \in Meanings /\ (work.kind = "announce" => work.name # None)
      <4>1. work \in ServerMessages
        BY <1>2 DEF IInv, WorkOK
      <4> QED
        BY <4>1, ClientAssumption DEF IInv, TypeOK, ServerMessages, Meanings
    <3>2. CASE HandleAnnounce
      <4>1. announced[work.id] \in {None, work.name} /\ e[0] = [announced EXCEPT ![work.id] = work.name]
        BY <1>3, <3>2 DEF Reads, HandleAnnounce
      <4>2. CASE announced[work.id] = None
        BY <3>2, <4>1, <4>2 DEF HandleAnnounce
      <4>3. CASE announced[work.id] # None
        <5>1. announced' = announced /\ announced[work.id] = work.name
          BY <3>2, <4>1, <4>3 DEF HandleAnnounce
        <5> QED
          BY <3>1, <4>1, <5>1 DEF Meanings
      <4> QED
        BY <4>2, <4>3
    <3>3. CASE HandleUnAnnounce
      BY <1>3, <3>3 DEF Reads, HandleUnAnnounce
    <3>4. CASE HandleValue
      BY <1>3, <3>4 DEF Reads, HandleValue
    <3>5. CASE HandleTime
      BY <1>3, <3>5 DEF Reads, HandleTime
    <3>6. CASE Deliver
      <4>1. work.kind = "value"
        BY <3>6 DEF Deliver, IInv, WorkOK
      <4> QED
        BY <1>3, <3>6, <4>1 DEF Reads, Deliver
    <3> QED
      BY <3>2, <3>3, <3>4, <3>5, <3>6
  <2> QED
    BY <1>1, <1>2, <1>5, <2>1 DEF LinkInv, Explains
<1> QED
  BY <1>4, <1>5

\* on_open forgets the ids while the new connection has announced none.
LEMMA OpenFollows ==
  ASSUME IInv, LinkInv, Open
  PROVE  LinkInv'
<1>1. /\ sock = "open" /\ sock' = "time" /\ announced' = NoIds
      /\ UNCHANGED <<wire, up, ids, srv>>
  BY DEF Open, linkVars
<1>2. wire = <<>> /\ ids = NoIds /\ srv = NothingTold
  BY <1>1 DEF LinkInv
<1> DEFINE e == [k \in 0 .. 0 |-> NoIds]
<1>3. NoIds \in Meanings
  BY DEF NoIds, Meanings
<1>4. e \in [0 .. Len(wire') -> Meanings] /\ Explains(e)'
  BY <1>1, <1>2, <1>3 DEF Explains
<1> HIDE DEF e
<1> QED
  BY <1>1, <1>2, <1>4 DEF LinkInv

LEMMA BreakFollows ==
  ASSUME IInv, LinkInv, Break
  PROVE  LinkInv'
<1>1. PICK n \in 0 .. Len(wire) : wire' = SubSeq(wire, 1, n)
  BY DEF Break
<1>2. /\ wire \in Seq(ServerMessages) /\ up' = FALSE
      /\ UNCHANGED <<announced, sock, work, ids, srv>>
  BY DEF IInv, TypeOK, Break
<1>3. n \in Nat /\ Len(wire') = n /\ \A k \in 1 .. n : wire'[k] = wire[k]
  BY <1>1, <1>2
<1>4. sock \in {"open", "time", "batch"} => wire' = <<>> /\ ids' = NoIds /\ srv' = NothingTold
  BY <1>1, <1>2 DEF LinkInv
<1>5. ASSUME Going PROVE \E e \in [0 .. Len(wire') -> Meanings] : Explains(e)'
  <2>1. PICK e \in [0 .. Len(wire) -> Meanings] : Explains(e)
    BY <1>5 DEF LinkInv
  <2> DEFINE f == [k \in 0 .. n |-> e[k]]
  <2>2. f \in [0 .. Len(wire') -> Meanings]
    BY <1>3
  <2>3. \A k \in 0 .. n : f[k] = e[k]
    OBVIOUS
  <2> HIDE DEF f
  <2>4. \A k \in 1 .. n : Reads(f[k - 1], wire'[k], f[k])
    <3>1. SUFFICES ASSUME NEW k \in 1 .. n PROVE Reads(f[k - 1], wire'[k], f[k])
      OBVIOUS
    <3>2. k \in 1 .. Len(wire) /\ k - 1 \in 0 .. n /\ k \in 0 .. n
      BY <1>1, <1>3
    <3>3. Reads(e[k - 1], wire[k], e[k])
      BY <2>1, <3>2 DEF Explains
    <3> QED
      BY <1>3, <2>3, <3>2, <3>3
  <2>5. f[0] = e[0]
    BY <1>3, <2>3
  <2>6. Explains(f)'
    BY <1>2, <1>3, <2>1, <2>4, <2>5 DEF Explains
  <2> QED
    BY <2>2, <2>6
<1> QED
  BY <1>2, <1>4, <1>5 DEF LinkInv, Going

\* The server sends a message that fits what its ids mean.
LEMMA ServerFollows ==
  ASSUME IInv, LinkInv, NEW m \in ServerMessages, ServerSends(m), ids' \in Meanings,
         Reads(ids, m, ids'), sock \notin {"open", "time", "batch"}
  PROVE  LinkInv'
<1>1. /\ wire \in Seq(ServerMessages) /\ wire' = Append(wire, m) /\ up
      /\ UNCHANGED <<announced, sock, work, up>>
  BY DEF IInv, TypeOK, ServerSends
<1>2. /\ Len(wire) \in Nat /\ Len(wire') = Len(wire) + 1 /\ wire'[Len(wire) + 1] = m
      /\ \A k \in 1 .. Len(wire) : wire'[k] = wire[k]
  BY <1>1
<1>3. ASSUME Going PROVE \E e \in [0 .. Len(wire') -> Meanings] : Explains(e)'
  <2>1. PICK e \in [0 .. Len(wire) -> Meanings] : Explains(e)
    BY <1>3 DEF LinkInv
  <2>2. PICK n \in Nat : n = Len(wire)
    BY <1>2
  <2>3. PICK v \in Meanings : v = ids'
    OBVIOUS
  <2> DEFINE f == [k \in 0 .. n + 1 |-> IF k = n + 1 THEN v ELSE e[k]]
  <2>4. f \in [0 .. Len(wire') -> Meanings]
    BY <1>2, <2>2
  <2>5. f[n + 1] = v /\ \A k \in 0 .. n : f[k] = e[k]
    BY <2>2
  <2> HIDE DEF f
  <2>6. \A k \in 1 .. n + 1 : Reads(f[k - 1], wire'[k], f[k])
    <3>1. SUFFICES ASSUME NEW k \in 1 .. n + 1 PROVE Reads(f[k - 1], wire'[k], f[k])
      OBVIOUS
    <3>2. CASE k = n + 1
      <4>1. k - 1 = n /\ n \in 0 .. n
        BY <3>2
      <4>2. f[k - 1] = ids
        BY <1>1, <2>1, <2>2, <2>5, <4>1 DEF Explains
      <4> QED
        BY <1>2, <2>2, <2>5, <2>3, <3>2, <4>2
    <3>3. CASE k # n + 1
      <4>1. k \in 1 .. n /\ k - 1 \in 0 .. n /\ k \in 0 .. n
        BY <3>3
      <4>2. Reads(e[k - 1], wire[k], e[k])
        BY <2>1, <2>2, <4>1 DEF Explains
      <4> QED
        BY <1>2, <2>2, <2>5, <4>1, <4>2
    <3> QED
      BY <3>2, <3>3
  <2>7. f[0] = e[0]
    BY <2>5
  <2>8. Len(wire') = n + 1
    BY <1>2, <2>2
  <2>9. Explains(f)'
    BY <1>1, <2>1, <2>5, <2>6, <2>7, <2>8, <2>3 DEF Explains
  <2> QED
    BY <2>4, <2>9
<1> QED
  BY <1>1, <1>3 DEF LinkInv, Going

LEMMA NextLink == IInv /\ LinkInv /\ [Next]_vars => LinkInv'
<1> SUFFICES ASSUME IInv, LinkInv, [Next]_vars PROVE LinkInv'
  OBVIOUS
<1>1. ASSUME NEW h \in Handles, NEW c \in Callable, Call(h, c) PROVE LinkInv'
  BY <1>1, LinkUntouched DEF Call
<1>2. ASSUME NEW h \in Handles, Send(h) \/ Record(h) PROVE LinkInv'
  BY <1>2, LinkUntouched DEF Send, Record
<1>3. ASSUME NEW s \in SubUIDs, Read(s) \/ DropStream(s) PROVE LinkInv'
  BY <1>3, LinkUntouched DEF Read, DropStream
<1>4. CASE Tick \/ TickSends
  BY <1>4, LinkUntouched DEF Tick, TickSends
<1>5. CASE Transmit \/ NoticeBreak \/ Retime \/ Die \/ OpenTime \/ OpenBatch
  <2>1. UNCHANGED <<announced, wire, ids, up>>
    BY <1>5 DEF Transmit, NoticeBreak, Retime, Die, OpenTime, OpenBatch, linkVars
  <2>2. /\ sock \in {"select", "retime", "dying", "time", "batch"}
        /\ sock' \in {"select", "down", "dying", "dead", "batch"}
        /\ sock = "dying" => sock' = "dead"
        /\ sock' = "batch" => sock = "time" /\ srv' = srv
    BY <1>5 DEF Transmit, NoticeBreak, Retime, Die, OpenTime, OpenBatch, linkVars, Disconnected
  <2> QED
    BY <2>1, <2>2, LinkBetween DEF Going
<1>6. CASE Receive
  BY <1>6, ReceiveFollows
<1>7. CASE HandleAnnounce \/ HandleUnAnnounce \/ HandleValue \/ HandleTime \/ Deliver
  BY <1>7, HandleFollows
<1>8. CASE Open
  BY <1>8, OpenFollows
<1>9. CASE Reconnect
  BY <1>9 DEF Reconnect, LinkInv, Going
<1>10. CASE Break
  BY <1>10, BreakFollows
<1>11. ASSUME NEW i \in Ids, NEW n \in Names, ServerAnnounces(i, n) PROVE LinkInv'
  <2> DEFINE m == [kind |-> "announce", id |-> i, name |-> n]
  <2>1. m \in ServerMessages /\ ServerSends(m)
    BY <1>11 DEF ServerMessages, ServerAnnounces
  <2>2. (srv.pubs # {} \/ srv.subs # {}) /\ ids[i] \in {None, n} /\ ids' = [ids EXCEPT ![i] = n]
    BY <1>11 DEF ServerAnnounces
  <2>3. Reads(ids, m, ids') /\ ids' \in Meanings
    BY <2>2 DEF Reads, IInv, TypeOK, Meanings
  <2>4. sock \notin {"open", "time", "batch"}
    BY <2>2 DEF LinkInv, NothingTold
  <2> QED
    BY <2>1, <2>3, <2>4, ServerFollows
<1>12. ASSUME NEW i \in Ids, ServerUnAnnounces(i) PROVE LinkInv'
  <2> DEFINE m == [kind |-> "unannounce", id |-> i]
  <2>1. m \in ServerMessages /\ ServerSends(m)
    BY <1>12 DEF ServerMessages, ServerUnAnnounces
  <2>2. ids[i] # None /\ ids' = [ids EXCEPT ![i] = None]
    BY <1>12 DEF ServerUnAnnounces
  <2>3. Reads(ids, m, ids') /\ ids' \in Meanings
    BY <2>2 DEF Reads, IInv, TypeOK, Meanings
  <2>4. sock \notin {"open", "time", "batch"}
    BY <2>2 DEF LinkInv, NoIds
  <2> QED
    BY <2>1, <2>3, <2>4, ServerFollows
<1>13. ASSUME NEW i \in Ids, ServerSendsValue(i) PROVE LinkInv'
  <2> DEFINE m == [kind |-> "value", id |-> i, name |-> ids[i]]
  <2>1. ids[i] # None /\ ServerSends(m) /\ ids' = ids
    BY <1>13 DEF ServerSendsValue
  <2>2. m \in ServerMessages
    BY <2>1 DEF ServerMessages, IInv, TypeOK
  <2>3. Reads(ids, m, ids') /\ ids' \in Meanings
    BY <2>1 DEF Reads, IInv, TypeOK, Meanings
  <2>4. sock \notin {"open", "time", "batch"}
    BY <2>1 DEF LinkInv, NoIds
  <2> QED
    BY <2>1, <2>2, <2>3, <2>4, ServerFollows
<1>14. CASE ServerSendsTime
  <2>1. srv.asked /\ ServerSends([kind |-> "time"]) /\ ids' = ids
    BY <1>14 DEF ServerSendsTime
  <2>2. Reads(ids, [kind |-> "time"], ids') /\ ids' \in Meanings
    BY <2>1 DEF Reads, IInv, TypeOK, Meanings
  <2>3. sock \notin {"open", "time", "batch"}
    BY <2>1 DEF LinkInv, NothingTold
  <2> QED
    BY <2>1, <2>2, <2>3, TimeIsMessage, ServerFollows
<1>15. CASE UNCHANGED vars
  BY <1>15, LinkUntouched DEF vars
<1> QED
  BY <1>1, <1>2, <1>3, <1>4, <1>5, <1>6, <1>7, <1>8, <1>9, <1>10, <1>11, <1>12, <1>13,
     <1>14, <1>15 DEF Next, SocketStep

LEMMA InitLink == Init => LinkInv
<1> SUFFICES ASSUME Init PROVE LinkInv
  OBVIOUS
<1> DEFINE e == [k \in 0 .. 0 |-> NoIds]
<1>1. NoIds \in Meanings
  BY DEF NoIds, Meanings
<1>2. e \in [0 .. Len(wire) -> Meanings] /\ Explains(e)
  BY <1>1 DEF Init, Explains
<1> HIDE DEF e
<1> QED
  BY <1>2 DEF Init, LinkInv

--------------------------------------------------------------------------------

\* What the server learns.  Everything published and subscribed is known to the server, in
\* a message on its way to it, or was missed by on_open while it was being recorded.

Queued == {chan[k] : k \in 1 .. Len(chan)}

Publishes(m, p)  == (m.kind = "publish" /\ m.uid = p) \/ (m.kind = "batch" /\ p \in m.pubs)
Subscribes(m, s) == (m.kind = "subscribe" /\ m.uid = s) \/ (m.kind = "batch" /\ s \in m.subs)

PubKnown(p) ==
  \/ p \in srv.pubs \/ <<"publish", p>> \in raced
  \/ \E m \in Queued : Publishes(m, p)
  \/ sock \in {"time", "batch"} /\ Publishes(work, p)

SubKnown(s) ==
  \/ s \in srv.subs \/ <<"subscribe", s>> \in raced
  \/ \E m \in Queued : Subscribes(m, s)
  \/ sock \in {"time", "batch"} /\ Subscribes(work, s)

\* What the server is to know: what the tables hold, and what is about to be recorded.
PubDue == {p \in PubUIDs \ released : p \in published \/ <<"publish", p>> \in BeingRecorded}
SubDue == {s \in SubUIDs \ Busy({"unsubscribe"}) :
             s \in subs \cap streams \/ <<"subscribe", s>> \in BeingRecorded}

Serving == up /\ Going

\* Only what was released or unsubscribed is taken back.
NothingUndone ==
  \A m \in Queued :
     /\ m.kind = "unpublish" => m.uid \in released
     /\ m.kind = "unsubscribe" => m.uid \notin streams \ Busy({"unsubscribe"})

\* Subuids that have had a stream: a call that subscribes has a newer one.
Streamed == streams \cup Busy({"unsubscribe"}) \cup {m.uid : m \in {m \in Queued : m.kind = "unsubscribe"}}

StreamsFresh ==
  /\ \A s \in Streamed : s < next_sub
  /\ \A h \in Handles : calls[h] # None /\ calls[h].op = "subscribe" => calls[h].uid \notin Streamed

SyncInv ==
  /\ NothingUndone
  /\ StreamsFresh
  /\ Serving => (\A p \in PubDue : PubKnown(p)) /\ (\A s \in SubDue : SubKnown(s))

LEMMA QueuedAppend ==
  ASSUME NEW m \in Messages, chan \in Seq(Messages), chan' = Append(chan, m)
  PROVE  Queued' = Queued \cup {m}
<1>1. /\ Len(chan) \in Nat /\ Len(chan') = Len(chan) + 1 /\ chan'[Len(chan) + 1] = m
      /\ \A k \in 1 .. Len(chan) : chan'[k] = chan[k]
  OBVIOUS
<1>2. ASSUME NEW k \in 1 .. Len(chan') PROVE chan'[k] \in Queued \cup {m}
  <2>1. k \in 1 .. Len(chan) \/ k = Len(chan) + 1
    BY <1>1
  <2> QED
    BY <1>1, <2>1 DEF Queued
<1>3. ASSUME NEW k \in 1 .. Len(chan) PROVE chan[k] \in Queued'
  <2>1. k \in 1 .. Len(chan') /\ chan'[k] = chan[k]
    BY <1>1
  <2> QED
    BY <2>1 DEF Queued
<1>4. m \in Queued'
  <2>1. Len(chan) + 1 \in 1 .. Len(chan')
    BY <1>1
  <2> QED
    BY <1>1, <2>1 DEF Queued
<1> QED
  BY <1>2, <1>3, <1>4 DEF Queued

LEMMA QueuedTail ==
  ASSUME chan \in Seq(Messages), chan # <<>>, chan' = Tail(chan)
  PROVE  Head(chan) \in Queued /\ Queued = Queued' \cup {Head(chan)}
<1>1. /\ Len(chan) \in Nat \ {0} /\ Len(chan') = Len(chan) - 1 /\ Head(chan) = chan[1]
      /\ \A k \in 1 .. Len(chan') : chan'[k] = chan[k + 1]
  OBVIOUS
<1>2. Head(chan) \in Queued
  BY <1>1 DEF Queued
<1>3. ASSUME NEW k \in 1 .. Len(chan) PROVE chan[k] \in Queued' \cup {Head(chan)}
  <2>1. CASE k = 1
    BY <1>1, <2>1
  <2>2. CASE k # 1
    <3>1. k - 1 \in 1 .. Len(chan') /\ chan'[k - 1] = chan[k]
      BY <1>1, <2>2
    <3> QED
      BY <3>1 DEF Queued
  <2> QED
    BY <2>1, <2>2
<1>4. ASSUME NEW k \in 1 .. Len(chan') PROVE chan'[k] \in Queued
  <2>1. k + 1 \in 1 .. Len(chan) /\ chan'[k] = chan[k + 1]
    BY <1>1
  <2> QED
    BY <2>1 DEF Queued
<1> QED
  BY <1>2, <1>3, <1>4 DEF Queued

\* A step that takes nothing from what the server knows or is to be told.
LEMMA KnownKept ==
  ASSUME srv'.pubs = srv.pubs, srv'.subs = srv.subs, raced' = raced, Queued \subseteq Queued',
         sock \in {"time", "batch"} => sock' \in {"time", "batch"} /\ work' = work
  PROVE  /\ \A p \in PubUIDs : PubKnown(p) => PubKnown(p)'
         /\ \A s \in SubUIDs : SubKnown(s) => SubKnown(s)'
<1>1. ASSUME NEW p \in PubUIDs, PubKnown(p) PROVE PubKnown(p)'
  <2>1. CASE \E m \in Queued : Publishes(m, p)
    BY <2>1 DEF PubKnown, Publishes
  <2>2. CASE sock \in {"time", "batch"} /\ Publishes(work, p)
    BY <2>2 DEF PubKnown, Publishes
  <2> QED
    BY <1>1, <2>1, <2>2 DEF PubKnown
<1>2. ASSUME NEW s \in SubUIDs, SubKnown(s) PROVE SubKnown(s)'
  <2>1. CASE \E m \in Queued : Subscribes(m, s)
    BY <2>1 DEF SubKnown, Subscribes
  <2>2. CASE sock \in {"time", "batch"} /\ Subscribes(work, s)
    BY <2>2 DEF SubKnown, Subscribes
  <2> QED
    BY <1>2, <2>1, <2>2 DEF SubKnown
<1> QED
  BY <1>1, <1>2

\* A step of the socket task, the connection or the timestamp task.
LEMMA QuietSync ==
  ASSUME SyncInv, UNCHANGED <<calls, published, released, next_sub>>,
         subs' \subseteq subs, streams' \subseteq streams,
         \A m \in Queued' : m \in Queued \/ m.kind \in {"time", "batch"},
         Serving' => /\ Serving
                     /\ \A p \in PubDue : PubKnown(p) => PubKnown(p)'
                     /\ \A s \in SubDue : SubKnown(s) => SubKnown(s)'
  PROVE  SyncInv'
<1>1. BeingRecorded' = BeingRecorded /\ Busy({"unsubscribe"})' = Busy({"unsubscribe"})
  BY DEF BeingRecorded, Busy
<1>2. NothingUndone'
  <2>1. ASSUME NEW m \in Queued', m.kind = "unpublish" PROVE m.uid \in released'
    BY <2>1 DEF SyncInv, NothingUndone
  <2>2. ASSUME NEW m \in Queued', m.kind = "unsubscribe"
        PROVE  m.uid \notin streams' \ Busy({"unsubscribe"})'
    BY <1>1, <2>2 DEF SyncInv, NothingUndone
  <2> QED
    BY <2>1, <2>2 DEF NothingUndone
<1>3. StreamsFresh'
  <2>1. {m.uid : m \in {m \in Queued' : m.kind = "unsubscribe"}}
          \subseteq {m.uid : m \in {m \in Queued : m.kind = "unsubscribe"}}
    OBVIOUS
  <2>2. Streamed' \subseteq Streamed
    BY <1>1, <2>1 DEF Streamed
  <2> QED
    BY <2>2 DEF SyncInv, StreamsFresh
<1>4. PubDue' \subseteq PubDue /\ SubDue' \subseteq SubDue
  BY <1>1 DEF PubDue, SubDue
<1>5. ASSUME Serving' PROVE (\A p \in PubDue' : PubKnown(p)') /\ (\A s \in SubDue' : SubKnown(s)')
  BY <1>4, <1>5 DEF SyncInv
<1> QED
  BY <1>2, <1>3, <1>5 DEF SyncInv

\* The socket task sends a message on a working connection.
LEMMA TransmitSync ==
  ASSUME IInv, SyncInv, Transmit
  PROVE  SyncInv'
<1>1. /\ UNCHANGED <<calls, published, released, next_sub, subs, streams, work, raced>>
      /\ sock = "select" /\ up' = up
  BY DEF Transmit, progVars, histVars
<1>2. Head(chan) \in Queued /\ Queued = Queued' \cup {Head(chan)}
  BY QueuedTail DEF IInv, TypeOK, Transmit
<1>3. CASE ~up
  BY <1>1, <1>2, <1>3, QuietSync DEF Serving
<1>4. CASE up
  <2>1. PICK m \in Messages : m = Head(chan)
    BY TailShorter DEF IInv, TypeOK, Transmit
  <2>2. /\ sock' = sock /\ srv' = Told(m) /\ Serving
        /\ srv \in [pubs : SUBSET PubUIDs, subs : SUBSET SubUIDs, asked : BOOLEAN]
    BY <1>1, <1>4, <2>1 DEF Transmit, IInv, TypeOK, Serving, Going
  <2>3. ASSUME NEW p \in PubDue, PubKnown(p) PROVE PubKnown(p)'
    <3>1. CASE p \in srv.pubs
      <4>1. ~(m.kind = "unpublish" /\ m.uid = p)
        BY <1>2, <2>1 DEF SyncInv, NothingUndone, PubDue
      <4>2. p \in srv'.pubs
        <5>1. CASE m.kind = "unpublish"
          BY <2>2, <3>1, <4>1, <5>1 DEF Told
        <5>2. CASE m.kind \in {"publish", "batch", "subscribe", "unsubscribe", "time"}
          BY <2>2, <3>1, <5>2 DEF Told
        <5>3. CASE m.kind \notin {"publish", "unpublish", "batch", "subscribe", "unsubscribe", "time"}
          BY <2>2, <3>1, <5>3 DEF Told
        <5> QED
          BY <5>1, <5>2, <5>3
      <4> QED
        BY <4>2 DEF PubKnown
    <3>2. CASE Publishes(m, p)
      <4>1. p \in srv'.pubs
        BY <2>2, <3>2 DEF Publishes, Told
      <4> QED
        BY <4>1 DEF PubKnown
    <3>3. CASE \E q \in Queued' : Publishes(q, p)
      BY <3>3 DEF PubKnown, Publishes
    <3>4. CASE <<"publish", p>> \in raced
      BY <1>1, <3>4 DEF PubKnown
    <3> QED
      BY <1>1, <1>2, <2>1, <2>3, <3>1, <3>2, <3>3, <3>4 DEF PubKnown
  <2>4. ASSUME NEW s \in SubDue, SubKnown(s) PROVE SubKnown(s)'
    <3>1. CASE s \in srv.subs
      <4>1. ~(m.kind = "unsubscribe" /\ m.uid = s)
        <5>1. SUFFICES ASSUME m.kind = "unsubscribe", m.uid = s PROVE FALSE
          OBVIOUS
        <5>2. s \notin streams \ Busy({"unsubscribe"})
          BY <1>2, <2>1, <5>1 DEF SyncInv, NothingUndone
        <5>3. s \in Streamed
          BY <1>2, <2>1, <5>1 DEF Streamed
        <5>4. <<"subscribe", s>> \in BeingRecorded
          BY <5>2 DEF SubDue
        <5>5. PICK h \in Handles : calls[h] # None /\ <<calls[h].op, calls[h].uid>> = <<"subscribe", s>>
          BY <5>4 DEF BeingRecorded
        <5>6. calls[h].op = "subscribe" /\ calls[h].uid = s
          BY <5>5
        <5> QED
          BY <5>3, <5>5, <5>6 DEF SyncInv, StreamsFresh
      <4>2. s \in srv'.subs
        <5>1. CASE m.kind = "unsubscribe"
          BY <2>2, <3>1, <4>1, <5>1 DEF Told
        <5>2. CASE m.kind \in {"publish", "batch", "subscribe", "unpublish", "time"}
          BY <2>2, <3>1, <5>2 DEF Told
        <5>3. CASE m.kind \notin {"publish", "unpublish", "batch", "subscribe", "unsubscribe", "time"}
          BY <2>2, <3>1, <5>3 DEF Told
        <5> QED
          BY <5>1, <5>2, <5>3
      <4> QED
        BY <4>2 DEF SubKnown
    <3>2. CASE Subscribes(m, s)
      <4>1. s \in srv'.subs
        BY <2>2, <3>2 DEF Subscribes, Told
      <4> QED
        BY <4>1 DEF SubKnown
    <3>3. CASE \E q \in Queued' : Subscribes(q, s)
      BY <3>3 DEF SubKnown, Subscribes
    <3>4. CASE <<"subscribe", s>> \in raced
      BY <1>1, <3>4 DEF SubKnown
    <3> QED
      BY <1>1, <1>2, <2>1, <2>4, <3>1, <3>2, <3>3, <3>4 DEF SubKnown
  <2> QED
    BY <1>1, <1>2, <2>2, <2>3, <2>4, QuietSync
<1> QED
  <2>1. up \in BOOLEAN
    BY DEF IInv, TypeOK
  <2> QED
    BY <1>3, <1>4, <2>1

LEMMA QueuedTyped ==
  ASSUME chan \in Seq(Messages)
  PROVE  \A m \in Queued : m \in Messages /\ (m.kind = "unsubscribe" => m.uid \in SubUIDs)
<1>1. SUFFICES ASSUME NEW k \in 1 .. Len(chan)
      PROVE  /\ chan[k] \in Messages
             /\ chan[k].kind = "unsubscribe" => chan[k].uid \in SubUIDs
  BY DEF Queued
<1>2. chan[k] \in Messages
  OBVIOUS
<1>3. PICK m \in Messages : m = chan[k]
  BY <1>2
<1>4. m.kind = "unsubscribe" => m.uid \in SubUIDs
  BY DEF Messages, TopicOps, SubOps
<1> QED
  BY <1>2, <1>3, <1>4

\* on_open takes everything published and subscribed into its batch.
LEMMA OpenSync ==
  ASSUME IInv, SyncInv, Open
  PROVE  SyncInv'
<1>1. /\ UNCHANGED <<chan, calls, published, released, next_sub, streams, srv>>
      /\ sock' = "time" /\ subs' = subs \cap streams /\ raced' = raced \cup BeingRecorded
      /\ work' = [kind |-> "batch", pubs |-> published, subs |-> subs \cap streams]
  BY DEF Open, progVars, linkVars
<1>2. /\ BeingRecorded' = BeingRecorded /\ Busy({"unsubscribe"})' = Busy({"unsubscribe"})
      /\ Queued' = Queued
  BY <1>1 DEF BeingRecorded, Busy, Queued
<1>3. NothingUndone'
  BY <1>1, <1>2 DEF SyncInv, NothingUndone
<1>4. StreamsFresh'
  <2>1. Streamed' = Streamed
    BY <1>1, <1>2 DEF Streamed
  <2> QED
    BY <1>1, <2>1 DEF SyncInv, StreamsFresh
<1>5. ASSUME NEW p \in PubDue' PROVE PubKnown(p)'
  <2>1. CASE p \in published
    BY <1>1, <2>1 DEF PubKnown, Publishes
  <2>2. CASE <<"publish", p>> \in BeingRecorded
    BY <1>1, <2>2 DEF PubKnown
  <2> QED
    BY <1>1, <1>2, <1>5, <2>1, <2>2 DEF PubDue
<1>6. ASSUME NEW s \in SubDue' PROVE SubKnown(s)'
  <2>1. CASE s \in subs \cap streams
    BY <1>1, <2>1 DEF SubKnown, Subscribes
  <2>2. CASE <<"subscribe", s>> \in BeingRecorded
    BY <1>1, <2>2 DEF SubKnown
  <2> QED
    BY <1>1, <1>2, <1>6, <2>1, <2>2 DEF SubDue
<1> QED
  BY <1>3, <1>4, <1>5, <1>6 DEF SyncInv

\* The batch goes into the channel.
LEMMA OpenBatchSync ==
  ASSUME IInv, SyncInv, OpenBatch
  PROVE  SyncInv'
<1>1. /\ UNCHANGED <<calls, published, released, next_sub, subs, streams, srv, raced, up>>
      /\ sock = "batch" /\ sock' = "select" /\ work \in Messages /\ work.kind = "batch"
  BY DEF OpenBatch, progVars, linkVars, histVars, IInv, WorkOK
<1>2. Queued' = Queued \cup {work}
  BY <1>1, QueuedAppend DEF OpenBatch, IInv, TypeOK
<1>3. ASSUME NEW p \in PubDue, PubKnown(p) PROVE PubKnown(p)'
  <2>1. CASE \E m \in Queued \cup {work} : Publishes(m, p)
    BY <1>2, <2>1 DEF PubKnown, Publishes
  <2> QED
    BY <1>1, <1>3, <2>1 DEF PubKnown
<1>4. ASSUME NEW s \in SubDue, SubKnown(s) PROVE SubKnown(s)'
  <2>1. CASE \E m \in Queued \cup {work} : Subscribes(m, s)
    BY <1>2, <2>1 DEF SubKnown, Subscribes
  <2> QED
    BY <1>1, <1>4, <2>1 DEF SubKnown
<1>5. Serving' => Serving
  BY <1>1 DEF Serving, Going
<1> QED
  BY <1>1, <1>2, <1>3, <1>4, <1>5, QuietSync

\* A call begins.
LEMMA CallSync ==
  ASSUME IInv, SyncInv, NEW h \in Handles, NEW c \in Callable, Call(h, c)
  PROVE  SyncInv'
<1>1. /\ UNCHANGED <<chan, published, released, subs, srv, raced, sock, work, up>>
      /\ streams' \subseteq streams /\ calls[h] = None
      /\ next_sub' = (IF c.op = "subscribe" THEN next_sub + 1 ELSE next_sub)
  BY DEF Call, linkVars, histVars
<1>2. \/ calls' = calls
      \/ calls' = [calls EXCEPT ![h] = [op |-> c.op, uid |-> c.uid, at |-> "send"]]
  BY DEF Call
<1>3. /\ c.op \in SubOps => c.uid \in SubUIDs
      /\ c.op = "subscribe" => c.uid = next_sub
      /\ c.op = "unsubscribe" => c.uid \in streams
  BY DEF Callable, IInv, TypeOK, TopicOps, SubOps
<1>4. Queued' = Queued
  BY <1>1 DEF Queued
<1>5. calls \in [Handles -> Calls \cup {None}] /\ next_sub \in Nat
  BY DEF IInv, TypeOK
<1>6. \A g \in Handles : calls'[g] # None =>
        calls'[g] = calls[g] \/ (g = h /\ calls'[g] = [op |-> c.op, uid |-> c.uid, at |-> "send"])
  BY <1>2, <1>5
<1>7. \A g \in Handles : calls[g] # None => calls'[g] = calls[g]
  BY <1>1, <1>2, <1>5
<1>8. BeingRecorded' \subseteq BeingRecorded
  <2>1. ASSUME NEW g \in Handles, calls'[g] # None, calls'[g].at = "record"
        PROVE  <<calls'[g].op, calls'[g].uid>> \in BeingRecorded
    BY <1>6, <2>1 DEF BeingRecorded
  <2> QED
    BY <2>1 DEF BeingRecorded
<1>9. /\ Busy({"unsubscribe"}) \subseteq Busy({"unsubscribe"})'
      /\ Busy({"unsubscribe"})' \subseteq Busy({"unsubscribe"}) \cup streams
  <2>1. ASSUME NEW g \in Handles, calls[g] # None, calls[g].op = "unsubscribe"
        PROVE  calls[g].uid \in Busy({"unsubscribe"})'
    <3>1. calls'[g] = calls[g]
      BY <1>7, <2>1
    <3> QED
      BY <2>1, <3>1 DEF Busy
  <2>2. ASSUME NEW g \in Handles, calls'[g] # None, calls'[g].op = "unsubscribe"
        PROVE  calls'[g].uid \in Busy({"unsubscribe"}) \cup streams
    BY <1>3, <1>6, <2>2 DEF Busy
  <2> QED
    BY <2>1, <2>2 DEF Busy
<1>10. Streamed' \subseteq Streamed
  BY <1>1, <1>4, <1>9 DEF Streamed
<1>11. NothingUndone'
  BY <1>1, <1>4, <1>9 DEF SyncInv, NothingUndone
<1>12. StreamsFresh'
  <2>1. Streamed \subseteq Nat /\ \A s \in Streamed : s < next_sub
    <3>1. Streamed \subseteq SubUIDs
      <4>1. \A m \in Queued : m.kind = "unsubscribe" => m.uid \in SubUIDs
        BY QueuedTyped DEF IInv, TypeOK
      <4>2. Busy({"unsubscribe"}) \subseteq SubUIDs
        BY <1>5 DEF Busy, Calls, TopicOps, SubOps
      <4> QED
        BY <4>1, <4>2 DEF Streamed, IInv, TypeOK
    <3> QED
      BY <3>1 DEF SubUIDs, SyncInv, StreamsFresh
  <2>2. \A s \in Streamed' : s < next_sub'
    BY <1>1, <1>5, <1>10, <2>1
  <2>3. ASSUME NEW g \in Handles, calls'[g] # None, calls'[g].op = "subscribe"
        PROVE  calls'[g].uid \notin Streamed'
    <3>1. CASE calls'[g] = calls[g]
      BY <1>10, <2>3, <3>1 DEF SyncInv, StreamsFresh
    <3>2. CASE calls'[g].uid = next_sub
      BY <1>5, <1>10, <2>1, <3>2
    <3> QED
      BY <1>3, <1>6, <2>3, <3>1, <3>2
  <2> QED
    BY <2>2, <2>3 DEF StreamsFresh
<1>13. PubDue' \subseteq PubDue /\ SubDue' \subseteq SubDue
  BY <1>1, <1>8, <1>9 DEF PubDue, SubDue
<1>14. /\ \A p \in PubUIDs : PubKnown(p) => PubKnown(p)'
       /\ \A s \in SubUIDs : SubKnown(s) => SubKnown(s)'
  BY <1>1, <1>4, KnownKept
<1>15. Serving' => Serving
  BY <1>1 DEF Serving, Going
<1>16. PubDue \subseteq PubUIDs /\ SubDue \subseteq SubUIDs
  BY DEF PubDue, SubDue
<1> QED
  BY <1>11, <1>12, <1>13, <1>14, <1>15, <1>16 DEF SyncInv

\* The message of a call is queued.
LEMMA SendSync ==
  ASSUME IInv, SyncInv, NEW h \in Handles, Send(h)
  PROVE  SyncInv'
<1>1. PICK c \in Calls : c = calls[h] /\ c # None /\ c.at = "send"
  BY DEF Send, IInv, TypeOK
<1>2. UNCHANGED <<published, next_sub, subs, srv, raced, sock, work, up>>
  BY DEF Send, linkVars, histVars
<1>3. /\ calls \in [Handles -> Calls \cup {None}]
      /\ c.op \in TopicOps \cup SubOps
      /\ c.op \in TopicOps => c.uid \in PubUIDs
      /\ c.op \in SubOps => c.uid \in SubUIDs
  BY DEF IInv, TypeOK, Calls, TopicOps, SubOps
<1>4. \A g \in Handles : g # h => calls'[g] = calls[g]
  BY <1>3 DEF Send
<1>5. Serving' => Serving
  BY <1>2 DEF Serving, Going
<1>6. CASE Closed
  <2>1. calls' = [calls EXCEPT ![h].at = "panicked"]
    BY <1>6 DEF Send
  <2>2. /\ UNCHANGED <<chan, released>> /\ streams' \subseteq streams
    BY <1>6 DEF Send
  <2>3. calls'[h] = [c EXCEPT !.at = "panicked"]
    BY <1>1, <1>3, <2>1
  <2>4. calls'[h].op = c.op /\ calls'[h].uid = c.uid /\ calls'[h] # None
    <3>1. calls'[h] = [op |-> c.op, uid |-> c.uid, at |-> "panicked"]
      BY <2>3 DEF Calls
    <3>2. [op |-> c.op, uid |-> c.uid, at |-> "panicked"] \in Calls
      BY <1>3 DEF Calls
    <3> QED
      BY <3>1, <3>2, NoneIsNoCall
  <2>5. Queued' = Queued /\ ~Serving'
    BY <1>2, <1>6, <2>2 DEF Queued, Serving, Going, Closed
  <2>6. Busy({"unsubscribe"})' = Busy({"unsubscribe"})
    BY <1>1, <1>4, <2>4 DEF Busy
  <2>7. NothingUndone'
    BY <2>2, <2>5, <2>6 DEF SyncInv, NothingUndone
  <2>8. Streamed' \subseteq Streamed
    BY <2>2, <2>5, <2>6 DEF Streamed
  <2>9. StreamsFresh'
    BY <1>1, <1>2, <1>4, <2>4, <2>8 DEF SyncInv, StreamsFresh
  <2> QED
    BY <2>5, <2>7, <2>9 DEF SyncInv
<1>7. CASE ~Closed
  <2>1. PICK m \in Messages : m = [kind |-> c.op, uid |-> c.uid]
    BY <1>3 DEF Messages
  <2>2. /\ chan' = Append(chan, m) /\ streams' = streams
        /\ released' = (IF c.op = "unpublish" THEN released \cup {c.uid} ELSE released)
    BY <1>1, <1>7, <2>1 DEF Send
  <2>3. Queued' = Queued \cup {m}
    BY <2>2, QueuedAppend DEF IInv, TypeOK
  <2>4. \/ c.op \in {"unpublish", "value"} /\ calls'[h] = None
        \/ /\ c.op \notin {"unpublish", "value"}
           /\ calls'[h] = [op |-> c.op, uid |-> c.uid, at |-> "record"]
    <3>1. CASE c.op \in {"unpublish", "value"}
      <4>1. calls' = [calls EXCEPT ![h] = None]
        BY <1>1, <1>7, <3>1 DEF Send
      <4> QED
        BY <1>3, <3>1, <4>1
    <3>2. CASE c.op \notin {"unpublish", "value"}
      <4>1. calls' = [calls EXCEPT ![h].at = "record"]
        BY <1>1, <1>7, <3>2 DEF Send
      <4>2. calls'[h] = [c EXCEPT !.at = "record"]
        BY <1>1, <1>3, <4>1
      <4>3. calls'[h] = [op |-> c.op, uid |-> c.uid, at |-> "record"]
        BY <4>2 DEF Calls
      <4> QED
        BY <3>2, <4>3
    <3> QED
      BY <3>1, <3>2
  <2>5. Busy({"unsubscribe"})' = Busy({"unsubscribe"})
    <3>1. (calls'[h] # None /\ calls'[h].op = "unsubscribe") <=> c.op = "unsubscribe"
      <4>1. [op |-> c.op, uid |-> c.uid, at |-> "record"] \in Calls
        BY <1>3 DEF Calls
      <4> QED
        BY <2>4, <4>1, NoneIsNoCall
    <3>2. c.op = "unsubscribe" => calls'[h].uid = c.uid
      BY <2>4
    <3> QED
      BY <1>1, <1>4, <3>1, <3>2 DEF Busy
  <2>6. BeingRecorded' \subseteq BeingRecorded \cup {<<c.op, c.uid>>}
    <3>1. ASSUME NEW g \in Handles, calls'[g] # None, calls'[g].at = "record"
          PROVE  <<calls'[g].op, calls'[g].uid>> \in BeingRecorded \cup {<<c.op, c.uid>>}
      BY <1>4, <2>4, <3>1 DEF BeingRecorded
    <3> QED
      BY <3>1 DEF BeingRecorded
  <2>7. c.op = "unsubscribe" => c.uid \in Busy({"unsubscribe"})
    BY <1>1 DEF Busy
  <2>8. NothingUndone'
    BY <2>1, <2>2, <2>3, <2>5, <2>7 DEF SyncInv, NothingUndone
  <2>9. Streamed' \subseteq Streamed
    BY <2>1, <2>2, <2>3, <2>5, <2>7 DEF Streamed
  <2>10. StreamsFresh'
    <3>1. \A g \in Handles : calls'[g] # None /\ calls'[g].op = "subscribe" =>
            calls[g] # None /\ calls[g].op = "subscribe" /\ calls'[g].uid = calls[g].uid
      BY <1>1, <1>4, <2>4
    <3> QED
      BY <1>2, <2>9, <3>1 DEF SyncInv, StreamsFresh
  <2>11. /\ \A p \in PubUIDs : PubKnown(p) => PubKnown(p)'
         /\ \A s \in SubUIDs : SubKnown(s) => SubKnown(s)'
    BY <1>2, <2>3, KnownKept
  <2>12. ASSUME Serving', NEW p \in PubDue' PROVE PubKnown(p)'
    <3>1. CASE c.op = "publish" /\ p = c.uid
      BY <2>1, <2>3, <3>1 DEF PubKnown, Publishes
    <3>2. CASE ~(c.op = "publish" /\ p = c.uid)
      <4>1. p \in PubDue
        BY <1>2, <2>2, <2>6, <2>12, <3>2 DEF PubDue
      <4> QED
        BY <1>5, <2>11, <2>12, <4>1 DEF SyncInv, PubDue
    <3> QED
      BY <3>1, <3>2
  <2>13. ASSUME Serving', NEW s \in SubDue' PROVE SubKnown(s)'
    <3>1. CASE c.op = "subscribe" /\ s = c.uid
      BY <2>1, <2>3, <3>1 DEF SubKnown, Subscribes
    <3>2. CASE ~(c.op = "subscribe" /\ s = c.uid)
      <4>1. s \in SubDue
        BY <1>2, <2>2, <2>5, <2>6, <2>13, <3>2 DEF SubDue
      <4> QED
        BY <1>5, <2>11, <2>13, <4>1 DEF SyncInv, SubDue
    <3> QED
      BY <3>1, <3>2
  <2> QED
    BY <2>8, <2>10, <2>12, <2>13 DEF SyncInv
<1> QED
  BY <1>6, <1>7

\* A call enters what it queued into its table.
LEMMA RecordSync ==
  ASSUME IInv, SyncInv, NEW h \in Handles, Record(h)
  PROVE  SyncInv'
<1>1. PICK c \in Calls : c = calls[h] /\ c # None /\ c.at = "record"
  BY DEF Record, IInv, TypeOK
<1>2. UNCHANGED <<chan, released, next_sub, srv, raced, sock, work, up>>
  BY DEF Record, linkVars, histVars
<1>3. /\ published' = (IF c.op = "publish" THEN published \cup {c.uid} ELSE published)
      /\ c.op = "subscribe" =>
           subs' = subs \cup {c.uid} /\ streams' = streams \cup {c.uid}
      /\ c.op = "unsubscribe" =>
           subs' = subs \ {c.uid} /\ streams' = streams \ {c.uid}
      /\ c.op \notin {"subscribe", "unsubscribe"} => subs' = subs /\ streams' = streams
  BY <1>1 DEF Record
<1>4. \A g \in Handles : calls'[g] # None => g # h /\ calls'[g] = calls[g]
  BY DEF Record, IInv, TypeOK
<1>5. \A g \in Handles : g # h => calls'[g] = calls[g]
  BY DEF Record, IInv, TypeOK
<1>6. Queued' = Queued
  BY <1>2 DEF Queued
<1>7. BeingRecorded' \subseteq BeingRecorded /\ <<c.op, c.uid>> \in BeingRecorded
  <2>1. ASSUME NEW g \in Handles, calls'[g] # None, calls'[g].at = "record"
        PROVE  <<calls'[g].op, calls'[g].uid>> \in BeingRecorded
    <3>1. calls'[g] = calls[g]
      BY <1>4, <2>1
    <3> QED
      BY <2>1, <3>1 DEF BeingRecorded
  <2> QED
    BY <1>1, <2>1 DEF BeingRecorded
<1>8. /\ Busy({"unsubscribe"})' \subseteq Busy({"unsubscribe"})
      /\ Busy({"unsubscribe"}) \subseteq Busy({"unsubscribe"})' \cup {c.uid}
      /\ c.op # "unsubscribe" => Busy({"unsubscribe"})' = Busy({"unsubscribe"})
  <2>1. ASSUME NEW g \in Handles, calls'[g] # None, calls'[g].op = "unsubscribe"
        PROVE  calls'[g].uid \in Busy({"unsubscribe"})
    <3>1. calls'[g] = calls[g]
      BY <1>4, <2>1
    <3> QED
      BY <2>1, <3>1 DEF Busy
  <2>2. ASSUME NEW g \in Handles, calls[g] # None, calls[g].op = "unsubscribe"
        PROVE  \/ calls[g].uid \in Busy({"unsubscribe"})'
               \/ calls[g].uid = c.uid /\ c.op = "unsubscribe"
    <3>1. CASE g = h
      BY <1>1, <2>2, <3>1
    <3>2. CASE g # h
      <4>1. calls'[g] = calls[g]
        BY <1>5, <3>2
      <4> QED
        BY <2>2, <4>1 DEF Busy
    <3> QED
      BY <3>1, <3>2
  <2> QED
    BY <2>1, <2>2 DEF Busy
<1>9. streams' \ Busy({"unsubscribe"})' \subseteq
        (streams \ Busy({"unsubscribe"})) \cup (IF c.op = "subscribe" THEN {c.uid} ELSE {})
  <2>1. CASE c.op = "unsubscribe"
    BY <1>3, <1>8, <2>1
  <2>2. CASE c.op # "unsubscribe"
    BY <1>3, <1>8, <2>2
  <2> QED
    BY <2>1, <2>2
<1>10. c.op = "subscribe" => c.uid \notin Streamed /\ c.uid < next_sub
  BY <1>1 DEF SyncInv, StreamsFresh, IInv, SubUIDsFresh
<1>11. NothingUndone'
  <2>1. ASSUME NEW m \in Queued, m.kind = "unsubscribe"
        PROVE  m.uid \notin streams' \ Busy({"unsubscribe"})'
    <3>1. m.uid \in Streamed
      BY <2>1 DEF Streamed
    <3>2. m.uid \notin streams \ Busy({"unsubscribe"})
      BY <2>1 DEF SyncInv, NothingUndone
    <3> QED
      BY <1>9, <1>10, <3>1, <3>2
  <2> QED
    BY <1>2, <1>6, <2>1 DEF SyncInv, NothingUndone
<1>12. Streamed' \subseteq Streamed \cup (IF c.op = "subscribe" THEN {c.uid} ELSE {})
  <2>1. streams' \subseteq streams \cup (IF c.op = "subscribe" THEN {c.uid} ELSE {})
    <3>1. CASE c.op = "subscribe"
      BY <1>3, <3>1
    <3>2. CASE c.op # "subscribe"
      BY <1>3, <3>2
    <3> QED
      BY <3>1, <3>2
  <2> QED
    BY <1>6, <1>8, <2>1 DEF Streamed
<1>13. StreamsFresh'
  <2>1. \A s \in Streamed' : s < next_sub'
    BY <1>2, <1>10, <1>12 DEF SyncInv, StreamsFresh
  <2>2. ASSUME NEW g \in Handles, calls'[g] # None, calls'[g].op = "subscribe"
        PROVE  calls'[g].uid \notin Streamed'
    <3>1. g # h /\ calls'[g] = calls[g]
      BY <1>4, <2>2
    <3>2. calls[g].uid \notin Streamed
      BY <2>2, <3>1 DEF SyncInv, StreamsFresh
    <3>3. c.op = "subscribe" => calls[g].uid # c.uid
      BY <1>1, <2>2, <3>1 DEF IInv, SubUIDsFresh
    <3> QED
      BY <1>12, <3>1, <3>2, <3>3
  <2> QED
    BY <2>1, <2>2 DEF StreamsFresh
<1>14. PubDue' \subseteq PubDue
  <2>1. published' \subseteq published \cup (IF c.op = "publish" THEN {c.uid} ELSE {})
    BY <1>3
  <2> QED
    BY <1>2, <1>7, <2>1 DEF PubDue
<1>15. SubDue' \subseteq SubDue
  <2>1. SUFFICES ASSUME NEW s \in SubDue' PROVE s \in SubDue
    OBVIOUS
  <2>2. s \in SubUIDs /\ s \notin Busy({"unsubscribe"})'
    BY DEF SubDue
  <2>3. s \in subs' \cap streams' \/ <<"subscribe", s>> \in BeingRecorded
    BY <1>7 DEF SubDue
  <2>4. CASE c.op = "subscribe" /\ s = c.uid
    <3>1. s \notin Busy({"unsubscribe"})
      BY <1>8, <2>2, <2>4
    <3> QED
      BY <1>7, <2>2, <2>4, <3>1 DEF SubDue
  <2>5. CASE s \in subs' \cap streams' /\ ~(c.op = "subscribe" /\ s = c.uid)
    <3>1. s \in subs \cap streams /\ s \notin Busy({"unsubscribe"})
      <4>1. CASE c.op = "unsubscribe"
        BY <1>3, <1>8, <2>2, <2>5, <4>1
      <4>2. CASE c.op # "unsubscribe"
        BY <1>3, <1>8, <2>2, <2>5, <4>2
      <4> QED
        BY <4>1, <4>2
    <3> QED
      BY <2>2, <3>1 DEF SubDue
  <2>6. CASE <<"subscribe", s>> \in BeingRecorded
    <3>1. PICK g \in Handles :
            calls[g] # None /\ <<calls[g].op, calls[g].uid>> = <<"subscribe", s>>
      BY <2>6 DEF BeingRecorded
    <3>2. s \notin Streamed
      BY <3>1 DEF SyncInv, StreamsFresh
    <3>3. s \notin Busy({"unsubscribe"})
      BY <3>2 DEF Streamed
    <3> QED
      BY <2>2, <2>6, <3>3 DEF SubDue
  <2> QED
    BY <2>3, <2>4, <2>5, <2>6
<1>16. /\ \A p \in PubUIDs : PubKnown(p) => PubKnown(p)'
       /\ \A s \in SubUIDs : SubKnown(s) => SubKnown(s)'
  BY <1>2, <1>6, KnownKept
<1>17. Serving' => Serving
  BY <1>2 DEF Serving, Going
<1>18. PubDue \subseteq PubUIDs /\ SubDue \subseteq SubUIDs
  BY DEF PubDue, SubDue
<1> QED
  BY <1>11, <1>13, <1>14, <1>15, <1>16, <1>17, <1>18 DEF SyncInv

\* Steps that leave the calls alone and only add questions for the time to the channel.
LEMMA AsideSync ==
  ASSUME IInv, SyncInv, UNCHANGED <<calls, published, released, next_sub, raced>>,
         subs' \subseteq subs, streams' \subseteq streams,
         \/ chan' = chan
         \/ chan \in Seq(Messages) /\ chan' = Append(chan, [kind |-> "time"]),
         Serving' => /\ Serving
                     /\ srv'.pubs = srv.pubs /\ srv'.subs = srv.subs
                     /\ sock \in {"time", "batch"} => sock' \in {"time", "batch"} /\ work' = work
  PROVE  SyncInv'
<1>1. Queued' = Queued \/ Queued' = Queued \cup {[kind |-> "time"]}
  <2>1. CASE chan' = chan
    BY <2>1 DEF Queued
  <2>2. CASE chan \in Seq(Messages) /\ chan' = Append(chan, [kind |-> "time"])
    BY <2>2, QueuedAppend, TimeIsMessage
  <2> QED
    BY <2>1, <2>2
<1>2. \A m \in Queued' : m \in Queued \/ m.kind \in {"time", "batch"}
  BY <1>1
<1>3. PubDue \subseteq PubUIDs /\ SubDue \subseteq SubUIDs
  BY DEF PubDue, SubDue
<1>4. ASSUME Serving'
      PROVE  /\ Serving
             /\ \A p \in PubDue : PubKnown(p) => PubKnown(p)'
             /\ \A s \in SubDue : SubKnown(s) => SubKnown(s)'
  <2>1. Queued \subseteq Queued'
    BY <1>1
  <2> QED
    BY <1>3, <1>4, <2>1, KnownKept
<1> QED
  BY <1>2, <1>4, QuietSync

LEMMA NextSync == IInv /\ SyncInv /\ [Next]_vars => SyncInv'
<1> SUFFICES ASSUME IInv, SyncInv, [Next]_vars PROVE SyncInv'
  OBVIOUS
<1>1. ASSUME NEW h \in Handles, NEW c \in Callable, Call(h, c) PROVE SyncInv'
  BY <1>1, CallSync
<1>2. ASSUME NEW h \in Handles, Send(h) \/ Record(h) PROVE SyncInv'
  BY <1>2, SendSync, RecordSync
<1>3. ASSUME NEW s \in SubUIDs, Read(s) \/ DropStream(s) PROVE SyncInv'
  <2>1. UNCHANGED <<chan, calls, published, released, next_sub, raced, subs, srv, sock, work, up>>
    BY <1>3 DEF Read, DropStream, progVars, linkVars, histVars
  <2>2. streams' \subseteq streams
    BY <1>3 DEF Read, DropStream, progVars
  <2> QED
    BY <2>1, <2>2, AsideSync DEF Serving, Going
<1>4. CASE Tick \/ TickSends
  <2>1. /\ UNCHANGED <<calls, published, released, next_sub, raced, subs, streams, srv, sock,
                       work, up>>
        /\ chan' = chan \/ chan' = Append(chan, [kind |-> "time"])
    BY <1>4 DEF Tick, TickSends, progVars, linkVars, histVars
  <2> QED
    BY <2>1, AsideSync DEF Serving, Going, IInv, TypeOK
<1>5. CASE Transmit
  BY <1>5, TransmitSync
<1>6. CASE \/ Receive \/ NoticeBreak \/ Retime \/ OpenTime
           \/ HandleAnnounce \/ HandleUnAnnounce \/ HandleValue \/ HandleTime \/ Deliver
  <2>1. /\ UNCHANGED <<calls, published, released, next_sub, raced, streams, srv, up>>
        /\ chan' = chan \/ chan' = Append(chan, [kind |-> "time"])
        /\ subs' \subseteq subs
    BY <1>6 DEF Receive, NoticeBreak, Retime, OpenTime, HandleAnnounce, HandleUnAnnounce,
                HandleValue, HandleTime, Deliver, progVars, linkVars, histVars
  <2>2. /\ sock \notin {"down", "open", "dying", "dead"}
        /\ sock \in {"time", "batch"} => sock' = "batch" /\ work' = work
    BY <1>6 DEF Receive, NoticeBreak, Retime, OpenTime, HandleAnnounce, HandleUnAnnounce,
                HandleValue, HandleTime, Deliver
  <2> QED
    BY <2>1, <2>2, AsideSync DEF Serving, Going, IInv, TypeOK
<1>7. CASE Open
  BY <1>7, OpenSync
<1>8. CASE OpenBatch
  BY <1>8, OpenBatchSync
<1>9. CASE Die
  <2>1. /\ UNCHANGED <<calls, published, released, next_sub, raced, subs, streams>>
        /\ chan' = <<>> /\ sock' = "dead"
    BY <1>9 DEF Die, progVars, histVars
  <2>2. Queued' = {} /\ ~Serving'
    BY <2>1 DEF Queued, Serving, Going
  <2> QED
    BY <2>1, <2>2, QuietSync
<1>10. CASE Reconnect
  <2>1. /\ UNCHANGED <<chan, calls, published, released, next_sub, raced, subs, streams>>
        /\ ~Serving'
    BY <1>10 DEF Reconnect, progVars, histVars, Serving, Going
  <2> QED
    BY <2>1, AsideSync
<1>11. CASE Break
  <2>1. /\ UNCHANGED <<chan, calls, published, released, next_sub, raced, subs, streams>>
        /\ ~Serving'
    BY <1>11 DEF Break, progVars, histVars, Serving, Going
  <2> QED
    BY <2>1, AsideSync
<1>12. ASSUME NEW m, ServerSends(m), srv'.pubs = srv.pubs, srv'.subs = srv.subs PROVE SyncInv'
  <2>1. UNCHANGED <<chan, calls, published, released, next_sub, raced, subs, streams, sock, work,
                    up>>
    BY <1>12 DEF ServerSends, progVars, histVars
  <2> QED
    BY <1>12, <2>1, AsideSync DEF Serving, Going
<1>13. ASSUME NEW i \in Ids, NEW n \in Names, ServerAnnounces(i, n) PROVE SyncInv'
  BY <1>12, <1>13 DEF ServerAnnounces
<1>14. ASSUME NEW i \in Ids, ServerUnAnnounces(i) \/ ServerSendsValue(i) PROVE SyncInv'
  BY <1>12, <1>14 DEF ServerUnAnnounces, ServerSendsValue
<1>15. CASE ServerSendsTime
  <2>1. srv'.pubs = srv.pubs /\ srv'.subs = srv.subs
    BY <1>15 DEF ServerSendsTime, IInv, TypeOK
  <2> QED
    BY <1>12, <1>15, <2>1 DEF ServerSendsTime
<1>16. CASE UNCHANGED vars
  <2>1. UNCHANGED <<chan, calls, published, released, next_sub, raced, subs, streams, srv, sock,
                    work, up>>
    BY <1>16 DEF vars, progVars, linkVars, histVars
  <2> QED
    BY <2>1, AsideSync DEF Serving, Going
<1> QED
  BY <1>1, <1>2, <1>3, <1>4, <1>5, <1>6, <1>7, <1>8, <1>9, <1>10, <1>11, <1>13, <1>14, <1>15,
     <1>16 DEF Next, SocketStep

LEMMA InitSync == Init => SyncInv
<1> SUFFICES ASSUME Init PROVE SyncInv
  OBVIOUS
<1>1. Queued = {}
  BY DEF Init, Queued
<1>2. BeingRecorded = {} /\ Busy({"unsubscribe"}) = {}
  BY DEF Init, BeingRecorded, Busy
<1>3. Streamed = {} /\ PubDue = {} /\ SubDue = {}
  BY <1>1, <1>2 DEF Init, Streamed, PubDue, SubDue
<1> QED
  BY <1>1, <1>3 DEF Init, SyncInv, NothingUndone, StreamsFresh

\* The invariant of every run.
LEMMA ClientInvariant == Spec => [](IInv /\ LinkInv)
<1>1. Init => IInv /\ LinkInv
  BY InitInv, InitLink
<1>2. (IInv /\ LinkInv) /\ [Next]_vars => (IInv /\ LinkInv)'
  BY NextInv, NextLink
<1> QED
  BY <1>1, <1>2, PTL DEF Spec

\* The client keeps its tables, queues and tasks within their types and capacities,
\* whatever the program calls and whenever connections break.
THEOREM ClientTyped == Spec => []TypeOK
<1>1. IInv => TypeOK
  BY DEF IInv
<1> QED
  BY <1>1, ClientInvariant, PTL

\* A recorded subscription gets every value of its topics that the socket task takes off
\* a connection, or it is over for good: no value comes under an id that the client does
\* not know or takes for another topic, a full stream ends its subscription in the same
\* step, uids are fresh, and neither a call in progress nor on_open brings one back.
THEOREM StreamsHaveNoGaps == Spec => []NoGaps
<1>1. IInv => NoGaps
  BY DEF IInv
<1> QED
  BY <1>1, ClientInvariant, PTL

LEMMA SyncedAtRest == IInv /\ SyncInv => Resynced
<1> SUFFICES ASSUME IInv, SyncInv, sock = "select", up, chan = <<>>
    PROVE /\ \A p \in published \ released : p \in srv.pubs \/ <<"publish", p>> \in raced
          /\ \A s \in (subs \cap streams) \ Busy({"unsubscribe"}) :
                s \in srv.subs \/ <<"subscribe", s>> \in raced
  BY DEF Resynced
<1>1. Serving /\ Queued = {}
  BY DEF Serving, Going, Queued
<1>2. ASSUME NEW p \in published \ released PROVE p \in srv.pubs \/ <<"publish", p>> \in raced
  <2>1. p \in PubDue
    BY <1>2 DEF PubDue, IInv, TypeOK
  <2> QED
    BY <1>1, <2>1 DEF SyncInv, PubKnown
<1>3. ASSUME NEW s \in (subs \cap streams) \ Busy({"unsubscribe"})
      PROVE  s \in srv.subs \/ <<"subscribe", s>> \in raced
  <2>1. s \in SubDue
    BY <1>3 DEF SubDue, IInv, TypeOK
  <2> QED
    BY <1>1, <2>1 DEF SyncInv, SubKnown
<1> QED
  BY <1>2, <1>3

\* A value is delivered under the name the server meant by its id, however many ids were
\* announced, taken back and given out anew on however many connections: on_open clears
\* announced_topics before the new connection can announce anything, and the socket task
\* handles one message at a time, in the order of the wire.
THEOREM ValuesUnderRightTopic == Spec => []RightTopic
<1>1. IInv /\ LinkInv => RightTopic
  BY Understood DEF RightTopic, IInv, WorkOK
<1> QED
  BY <1>1, ClientInvariant, PTL

\* A socket task that has sent all there was has told the server of everything published
\* and subscribed, on every connection, save for what was queued before a reconnection
\* and entered in its table after on_open had read it.
THEOREM ServerResynced == Spec => []Resynced
<1>1. IInv /\ SyncInv /\ [Next]_vars => SyncInv'
  BY NextSync
<1> QED
  BY <1>1, InitSync, ClientInvariant, SyncedAtRest, PTL DEF Spec
================================================================================
