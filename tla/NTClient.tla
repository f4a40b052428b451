------------------------------- MODULE NTClient -------------------------------
(***************************************************************************)
(* The client of the library: InnerClient and its socket task              *)
(* (src/src/client/inner.rs), and the handles and the timestamp task that  *)
(* share it (src/src/client/async_handle.rs).  The program's calls, the    *)
(* timestamp task and the socket task are processes; they meet in a bounded *)
(* channel of outgoing messages and in three tables, each with a lock of   *)
(* its own that is held across awaits:                                     *)
(*                                                                         *)
(*   announced_topics         by the timestamp task while it waits to send *)
(*                            and by the socket task while it delivers     *)
(*   client_published_topics  by on_open, from its first step to its last  *)
(*   subscriptions            likewise                                     *)
(*                                                                         *)
(* Init is the state in which `start` has returned.  The server and the    *)
(* connection are external: what a server may do to a client.              *)
(***************************************************************************)
EXTENDS Naturals, Sequences

CONSTANTS
  Handles,    \* tasks of the program that use a clone of the handle
  MaxPubs,    \* bound: pubuids handed out
  MaxSubs,    \* bound: subuids handed out
  Names,      \* topics of the server
  Ids,        \* the ids it announces them under
  Covers,     \* InternalSub::matches_topic: the names a subuid covers
  ChanCap,    \* capacity of the channel to the socket task (100)
  StreamCap,  \* capacity of a subscription's stream (256)
  MayGiveUp,  \* should_reconnect may answer no
  MaxConns,   \* bound: connections ever made
  MaxCalls,   \* bound: calls ever made
  MaxTicks,   \* bound: turns of the timestamp task
  MaxWire,    \* bound: messages of the server under way
  None

\* What topic_counter and sub_counter hand out.
PubUIDs == 1 .. MaxPubs
SubUIDs == 1 .. MaxSubs

ASSUME ClientAssumption ==
  /\ MaxPubs \in Nat /\ MaxSubs \in Nat
  /\ Covers \in [SubUIDs -> SUBSET Names]
  /\ ChanCap \in Nat \ {0} /\ StreamCap \in Nat
  /\ MayGiveUp \in BOOLEAN
  /\ MaxConns \in Nat /\ MaxCalls \in Nat /\ MaxTicks \in Nat /\ MaxWire \in Nat
  /\ None \notin Names

VARIABLES
  chan,       \* messages in the channel to the socket task
  published,  \* the keys of client_published_topics
  subs,       \* the keys of subscriptions
  streams,    \* subuids whose SubscriptionStream the program still has
  unread,     \* messages in each stream
  announced,  \* announced_topics without the entry -1, which is always there
  next_pub,   \* topic_counter + 1
  next_sub,   \* sub_counter + 1
  calls,      \* each handle's call in progress, or None
  ticker,     \* the timestamp task: "asleep", "sending" or "panicked"
  panic,      \* the panic channel: "empty", "sent" or "taken"
  sock,       \* where the socket task is
  work,       \* the message it handles, or the batch on_open is to send
  up,         \* the connection works
  wire,       \* messages of the server under way to the client
  srv,        \* what the server has been told on this connection
  ids,        \* the names it has announced on this connection, by id
  used,       \* how much of the bounds is used up
  released,   \* history: pubuids whose unpublish was queued
  raced,      \* history: what on_open missed because it was being recorded
  missed      \* history: recorded subuids that a value taken off the connection passed by

progVars == <<next_pub, next_sub, streams, released>>
linkVars == <<up, wire, srv, ids>>
histVars == <<raced, missed>>
vars == <<chan, published, subs, unread, announced, progVars, calls, ticker, panic,
          sock, work, linkVars, used, histVars>>

NothingTold == [pubs |-> {}, subs |-> {}, asked |-> FALSE]
NoIds == [i \in Ids |-> None]

Init ==
  /\ chan = <<>>
  /\ published = {}
  /\ subs = {}
  /\ streams = {}
  /\ unread = [s \in SubUIDs |-> 0]
  /\ announced = NoIds
  /\ next_pub = 1
  /\ next_sub = 1
  /\ calls = [h \in Handles |-> None]
  /\ ticker = "asleep"
  /\ panic = "empty"
  /\ sock = "select"
  /\ work = None
  /\ up = TRUE
  /\ wire = <<>>
  /\ srv = NothingTold
  /\ ids = NoIds
  /\ used = [conns |-> 1, calls |-> 0, ticks |-> 0]
  /\ released = {}
  /\ raced = {}
  /\ missed = {}

--------------------------------------------------------------------------------
\* Locks and the channel

\* announced_topics is not held by another task.  (update_time on the socket task
\* holds it too, but that task is then the one that waits.)
AnnouncedFree == ticker # "sending" /\ sock # "deliver"

\* client_published_topics and subscriptions, which on_open holds.
TablesFree == sock \notin {"time", "batch"}

Room == Len(chan) < ChanCap

\* Mutant of Closed: the receiver outlives the task that was to empty the channel.
ClosedNever == FALSE

\* The receiver has been dropped: a send fails and its unwrap panics.
Closed == sock = "dead"

--------------------------------------------------------------------------------
\* Calls of the program

TopicOps == {"publish", "unpublish", "value"}
SubOps   == {"subscribe", "unsubscribe"}
Calls    == [op : TopicOps, uid : PubUIDs, at : {"send", "record", "panicked"}]
            \cup [op : SubOps, uid : SubUIDs, at : {"send", "record", "panicked"}]

\* A call in progress is told from none.
ASSUME NoneIsNoCall == None \notin Calls

\* Uids in a call of one of the operations ops.
Busy(ops) == {calls[h].uid : h \in {h \in Handles : calls[h] # None /\ calls[h].op \in ops}}

\* What the program can call: the uids come from the counters, or from what it was
\* given and has not handed back.
Callable ==
  [op : {"publish"}, uid : PubUIDs \cap {next_pub}]
  \cup [op : {"unpublish", "value"}, uid : published \ (released \cup Busy({"unpublish"}))]
  \cup [op : {"subscribe"}, uid : SubUIDs \cap {next_sub}]
  \cup [op : {"unsubscribe"}, uid : streams \ Busy({"unsubscribe"})]

\* A call begins with check_task_panic, which takes the error out of its channel:
\* only one call ever returns it.  unsubscribe owns its stream and drops it then.
Call(h, c) ==
  /\ calls[h] = None
  /\ used.calls < MaxCalls
  /\ c \in Callable
  /\ used' = [used EXCEPT !.calls = @ + 1]
  /\ next_pub' = IF c.op = "publish" THEN next_pub + 1 ELSE next_pub
  /\ next_sub' = IF c.op = "subscribe" THEN next_sub + 1 ELSE next_sub
  /\ IF panic = "sent"
     THEN /\ panic' = "taken"
          /\ streams' = IF c.op = "unsubscribe" THEN streams \ {c.uid} ELSE streams
          /\ UNCHANGED calls
     ELSE /\ calls' = [calls EXCEPT ![h] = [op |-> c.op, uid |-> c.uid, at |-> "send"]]
          /\ UNCHANGED <<panic, streams>>
  /\ UNCHANGED <<chan, published, subs, unread, announced, released, ticker, sock, work,
                 linkVars, histVars>>

\* socket_sender.send(message).await.unwrap() of a call
Send(h) ==
  /\ calls[h] # None
  /\ calls[h].at = "send"
  /\ LET c == calls[h]
     IN  IF Closed
         THEN /\ calls' = [calls EXCEPT ![h].at = "panicked"]
              /\ streams' = IF c.op = "unsubscribe" THEN streams \ {c.uid} ELSE streams
              /\ UNCHANGED <<chan, released>>
         ELSE /\ Room
              /\ chan' = Append(chan, [kind |-> c.op, uid |-> c.uid])
              /\ calls' = IF c.op \in {"unpublish", "value"} THEN [calls EXCEPT ![h] = None]
                          ELSE [calls EXCEPT ![h].at = "record"]
              /\ released' = IF c.op = "unpublish" THEN released \cup {c.uid} ELSE released
              /\ UNCHANGED streams
  /\ UNCHANGED <<published, subs, unread, announced, next_pub, next_sub, ticker, panic,
                 sock, work, linkVars, used, histVars>>

\* The table is updated after the message was queued.
Record(h) ==
  /\ calls[h] # None
  /\ calls[h].at = "record"
  /\ TablesFree
  /\ LET c == calls[h]
     IN  /\ published' = IF c.op = "publish" THEN published \cup {c.uid} ELSE published
         /\ subs' = CASE c.op = "subscribe"   -> subs \cup {c.uid}
                      [] c.op = "unsubscribe" -> subs \ {c.uid}
                      [] OTHER                -> subs
         /\ streams' = CASE c.op = "subscribe"   -> streams \cup {c.uid}
                         [] c.op = "unsubscribe" -> streams \ {c.uid}
                         [] OTHER                -> streams
  /\ calls' = [calls EXCEPT ![h] = None]
  /\ UNCHANGED <<chan, unread, announced, next_pub, next_sub, released, ticker, panic,
                 sock, work, linkVars, used, histVars>>

\* The program takes a message out of a stream, or drops the stream.
Read(s) ==
  /\ s \in streams
  /\ unread[s] > 0
  /\ unread' = [unread EXCEPT ![s] = @ - 1]
  /\ UNCHANGED <<chan, published, subs, announced, progVars, calls, ticker, panic, sock,
                 work, linkVars, used, histVars>>

DropStream(s) ==
  /\ s \in streams \ Busy({"unsubscribe"})
  /\ streams' = streams \ {s}
  /\ UNCHANGED <<chan, published, subs, unread, announced, next_pub, next_sub, released,
                 calls, ticker, panic, sock, work, linkVars, used, histVars>>

--------------------------------------------------------------------------------
\* The timestamp task: update_time keeps announced_topics locked while it sends, and
\* an error of check_task_panic is taken and thrown away.

Tick ==
  /\ ticker = "asleep"
  /\ used.ticks < MaxTicks
  /\ AnnouncedFree
  /\ used' = [used EXCEPT !.ticks = @ + 1]
  /\ IF panic = "sent" THEN panic' = "taken" /\ UNCHANGED ticker
     ELSE ticker' = "sending" /\ UNCHANGED panic
  /\ UNCHANGED <<chan, published, subs, unread, announced, progVars, calls, sock, work,
                 linkVars, histVars>>

TickSends ==
  /\ ticker = "sending"
  /\ IF Closed THEN ticker' = "panicked" /\ UNCHANGED chan
     ELSE Room /\ chan' = Append(chan, [kind |-> "time"]) /\ ticker' = "asleep"
  /\ UNCHANGED <<published, subs, unread, announced, progVars, calls, panic, sock, work,
                 linkVars, used, histVars>>

--------------------------------------------------------------------------------
\* The socket task

\* handle_disconnect on an error: reconnect, or tell the panic channel and end.
Disconnected ==
  \/ sock' = "down" /\ UNCHANGED panic
  \/ MayGiveUp /\ sock' = "dying" /\ panic' = "sent"

\* What the server knows after message m.
Told(m) ==
  CASE m.kind = "publish"     -> [srv EXCEPT !.pubs = @ \cup {m.uid}]
    [] m.kind = "unpublish"   -> [srv EXCEPT !.pubs = @ \ {m.uid}]
    [] m.kind = "subscribe"   -> [srv EXCEPT !.subs = @ \cup {m.uid}]
    [] m.kind = "unsubscribe" -> [srv EXCEPT !.subs = @ \ {m.uid}]
    [] m.kind = "batch"       -> [srv EXCEPT !.pubs = @ \cup m.pubs, !.subs = @ \cup m.subs]
    [] m.kind = "time"        -> [srv EXCEPT !.asked = TRUE]
    [] OTHER                  -> srv

\* A message of the channel is sent.  On a broken connection it is lost, with an
\* error or without; it is not sent again.
Transmit ==
  /\ sock = "select"
  /\ chan # <<>>
  /\ chan' = Tail(chan)
  /\ \/ up /\ srv' = Told(Head(chan)) /\ UNCHANGED <<sock, panic>>
     \/ ~up /\ UNCHANGED <<srv, sock, panic>>
     \/ ~up /\ UNCHANGED srv /\ Disconnected
  /\ UNCHANGED <<published, subs, unread, announced, progVars, calls, ticker, work, up, wire,
                 ids, used, histVars>>

\* A message of the server is taken from the connection; from here on the task
\* sends nothing before it has handled it.
Receive ==
  /\ sock = "select"
  /\ wire # <<>>
  /\ wire' = Tail(wire)
  /\ work' = Head(wire)
  /\ sock' = "handle"
  /\ UNCHANGED <<chan, published, subs, unread, announced, progVars, calls, ticker, panic,
                 up, srv, ids, used, histVars>>

\* The connection turns out to be closed or broken.
NoticeBreak ==
  /\ sock = "select"
  /\ ~up
  /\ wire = <<>>
  /\ Disconnected
  /\ UNCHANGED <<chan, published, subs, unread, announced, progVars, calls, ticker, work,
                 linkVars, used, histVars>>

\* An id that is already announced keeps its entry.
HandleAnnounce ==
  /\ sock = "handle" /\ work.kind = "announce"
  /\ AnnouncedFree
  /\ announced' = IF announced[work.id] = None
                  THEN [announced EXCEPT ![work.id] = work.name] ELSE announced
  /\ sock' = "select"
  /\ work' = None
  /\ UNCHANGED <<chan, published, subs, unread, progVars, calls, ticker, panic, linkVars,
                 used, histVars>>

HandleUnAnnounce ==
  /\ sock = "handle" /\ work.kind = "unannounce"
  /\ AnnouncedFree
  /\ announced' = [announced EXCEPT ![work.id] = None]
  /\ sock' = "select"
  /\ work' = None
  /\ UNCHANGED <<chan, published, subs, unread, progVars, calls, ticker, panic, linkVars,
                 used, histVars>>

\* The subscriptions that get a value of topic n, and those of them that can take it.
Concerned(n) == {s \in subs \cap streams : n \in Covers[s]}

\* Mutant of Deliverable: the stream has no limit.
DeliverableAlways(n) == Concerned(n)

Deliverable(n) == {s \in Concerned(n) : unread[s] < StreamCap}

\* A value is dropped if its id is unknown.  Otherwise announced_topics stays locked
\* until it has been delivered, across a yield.
HandleValue ==
  /\ sock = "handle" /\ work.kind = "value"
  /\ AnnouncedFree
  /\ IF announced[work.id] = None
     THEN sock' = "select" /\ work' = None /\ missed' = missed \cup Concerned(work.name)
     ELSE sock' = "deliver" /\ UNCHANGED <<work, missed>>
  /\ UNCHANGED <<chan, published, subs, unread, announced, progVars, calls, ticker, panic,
                 linkVars, used, raced>>

\* Mutant of Deliver: a subscription whose stream is full skips the value.
DeliverSkipping ==
  /\ sock = "deliver"
  /\ LET n == announced[work.id]
     IN  /\ unread' = [s \in SubUIDs |-> IF s \in Deliverable(n) THEN unread[s] + 1
                                         ELSE unread[s]]
         /\ missed' = missed \cup (Concerned(work.name) \ Deliverable(n))
  /\ subs' = subs \cap streams
  /\ sock' = "select"
  /\ work' = None
  /\ UNCHANGED <<chan, published, announced, progVars, calls, ticker, panic, linkVars,
                 used, raced>>

\* send_value_to_subscriber: subscriptions whose stream is gone or full are removed.
Deliver ==
  /\ sock = "deliver"
  /\ LET n == announced[work.id]
     IN  /\ unread' = [s \in SubUIDs |-> IF s \in Deliverable(n) THEN unread[s] + 1
                                         ELSE unread[s]]
         /\ subs' = (subs \cap streams) \ (Concerned(n) \ Deliverable(n))
         /\ missed' = missed \cup (Concerned(work.name) \ Deliverable(n))
  /\ sock' = "select"
  /\ work' = None
  /\ UNCHANGED <<chan, published, announced, progVars, calls, ticker, panic, linkVars,
                 used, raced>>

\* An answer to a time message.  If the arithmetic fails, the clock is reset and
\* update_time asks again.
HandleTime ==
  /\ sock = "handle" /\ work.kind = "time"
  /\ \/ sock' = "select"
     \/ sock' = "retime"
  /\ work' = None
  /\ UNCHANGED <<chan, published, subs, unread, announced, progVars, calls, ticker, panic,
                 linkVars, used, histVars>>

Retime ==
  /\ sock = "retime"
  /\ AnnouncedFree
  /\ Room
  /\ chan' = Append(chan, [kind |-> "time"])
  /\ sock' = "select"
  /\ UNCHANGED <<published, subs, unread, announced, progVars, calls, ticker, panic, work,
                 linkVars, used, histVars>>

\* The task ends: its receiver goes, and what is in the channel with it.
Die ==
  /\ sock = "dying"
  /\ sock' = "dead"
  /\ chan' = <<>>
  /\ UNCHANGED <<published, subs, unread, announced, progVars, calls, ticker, panic, work,
                 linkVars, used, histVars>>

--------------------------------------------------------------------------------
\* Reconnection

\* An attempt to connect succeeds, and on_open begins.
Reconnect ==
  /\ sock = "down"
  /\ used.conns < MaxConns
  /\ used' = [used EXCEPT !.conns = @ + 1]
  /\ sock' = "open"
  /\ up' = TRUE
  /\ wire' = <<>>
  /\ srv' = NothingTold
  /\ ids' = NoIds
  /\ UNCHANGED <<chan, published, subs, unread, announced, progVars, calls, ticker, panic,
                 work, histVars>>

\* Calls whose message was queued and whose table entry is still to come.
BeingRecorded ==
  {<<calls[h].op, calls[h].uid>> : h \in {h \in Handles : calls[h] # None /\ calls[h].at = "record"}}

\* Mutant of Open: the ids of the old connection are kept.
OpenKeepingIds ==
  /\ sock = "open"
  /\ AnnouncedFree
  /\ subs' = subs \cap streams
  /\ work' = [kind |-> "batch", pubs |-> published, subs |-> subs \cap streams]
  /\ raced' = raced \cup BeingRecorded
  /\ sock' = "time"
  /\ UNCHANGED <<chan, published, unread, announced, progVars, calls, ticker, panic,
                 linkVars, used, missed>>

\* Mutant of Open: only the publications are prepared for the new connection.
OpenPublishing ==
  /\ sock = "open"
  /\ AnnouncedFree
  /\ announced' = NoIds
  /\ subs' = subs \cap streams
  /\ work' = [kind |-> "batch", pubs |-> published, subs |-> {}]
  /\ raced' = raced \cup BeingRecorded
  /\ sock' = "time"
  /\ UNCHANGED <<chan, published, unread, progVars, calls, ticker, panic, linkVars, used,
                 missed>>

\* on_open: forget the old connection's ids and prepare one message with everything
\* published and subscribed.  The two tables stay locked until it is queued.
Open ==
  /\ sock = "open"
  /\ AnnouncedFree
  /\ announced' = NoIds
  /\ subs' = subs \cap streams
  /\ work' = [kind |-> "batch", pubs |-> published, subs |-> subs \cap streams]
  /\ raced' = raced \cup BeingRecorded
  /\ sock' = "time"
  /\ UNCHANGED <<chan, published, unread, progVars, calls, ticker, panic, linkVars, used,
                 missed>>

\* Mutant of OpenTime: announced_topics is still locked when update_time wants it.
OpenTimeLocked ==
  /\ sock = "time"
  /\ AnnouncedFree /\ sock # "time"
  /\ UNCHANGED vars

\* on_open: update_time, on the task that drains the channel.
OpenTime ==
  /\ sock = "time"
  /\ AnnouncedFree
  /\ Room
  /\ chan' = Append(chan, [kind |-> "time"])
  /\ sock' = "batch"
  /\ UNCHANGED <<published, subs, unread, announced, progVars, calls, ticker, panic, work,
                 linkVars, used, histVars>>

\* on_open: the prepared message goes behind what is already in the channel.
OpenBatch ==
  /\ sock = "batch"
  /\ Room
  /\ chan' = Append(chan, work)
  /\ sock' = "select"
  /\ work' = None
  /\ UNCHANGED <<published, subs, unread, announced, progVars, calls, ticker, panic,
                 linkVars, used, histVars>>

--------------------------------------------------------------------------------
\* The server and the connection (external)

\* The connection breaks: what was under way may be lost from some point on.
Break ==
  /\ up
  /\ up' = FALSE
  /\ \E k \in 0 .. Len(wire) : wire' = SubSeq(wire, 1, k)
  /\ UNCHANGED <<chan, published, subs, unread, announced, progVars, calls, ticker, panic,
                 sock, work, srv, ids, used, histVars>>

ServerSends(m) ==
  /\ up
  /\ Len(wire) < MaxWire
  /\ wire' = Append(wire, m)
  /\ UNCHANGED <<chan, published, subs, unread, announced, progVars, calls, ticker, panic,
                 sock, work, up, used, histVars>>

\* A topic is announced to its publisher and its subscribers, under an id that no other
\* topic has.  (Any topic may be what the client publishes.)
ServerAnnounces(i, n) ==
  /\ srv.pubs # {} \/ \E s \in srv.subs : n \in Covers[s]
  /\ \/ ids[i] = n
     \/ ids[i] = None /\ \A j \in Ids : ids[j] # n
  /\ ids' = [ids EXCEPT ![i] = n]
  /\ ServerSends([kind |-> "announce", id |-> i, name |-> n])
  /\ UNCHANGED srv

ServerUnAnnounces(i) ==
  /\ ids[i] # None
  /\ ids' = [ids EXCEPT ![i] = None]
  /\ ServerSends([kind |-> "unannounce", id |-> i])
  /\ UNCHANGED srv

\* A value of an announced topic; its name is what the server means by the id.
ServerSendsValue(i) ==
  /\ ids[i] # None
  /\ ServerSends([kind |-> "value", id |-> i, name |-> ids[i]])
  /\ UNCHANGED <<srv, ids>>

ServerSendsTime ==
  /\ srv.asked
  /\ srv' = [srv EXCEPT !.asked = FALSE]
  /\ ServerSends([kind |-> "time"])
  /\ UNCHANGED ids

--------------------------------------------------------------------------------

SocketStep ==
  \/ Transmit \/ Receive \/ NoticeBreak
  \/ HandleAnnounce \/ HandleUnAnnounce \/ HandleValue \/ Deliver
  \/ HandleTime \/ Retime
  \/ Die
  \/ Open \/ OpenTime \/ OpenBatch

Next ==
  \/ \E h \in Handles, c \in Callable : Call(h, c)
  \/ \E h \in Handles : Send(h) \/ Record(h)
  \/ \E s \in SubUIDs : Read(s) \/ DropStream(s)
  \/ Tick
  \/ TickSends
  \/ SocketStep
  \/ Reconnect
  \/ Break
  \/ \E i \in Ids, n \in Names : ServerAnnounces(i, n)
  \/ \E i \in Ids : ServerUnAnnounces(i) \/ ServerSendsValue(i)
  \/ ServerSendsTime

\* The runtime polls every task that can go on, and its locks and channels serve
\* waiters in turn: a step that is possible again and again is taken.  select! picks
\* at random among what is ready, so that messages of the server never keep those of
\* the channel waiting for ever.  An open connection takes what is written to it, or it
\* breaks.  Nothing is assumed of the program's next call, the server or the connection.
Fairness ==
  /\ \A h \in Handles : SF_vars(Send(h)) /\ SF_vars(Record(h))
  /\ WF_vars(TickSends)
  /\ SF_vars(SocketStep) /\ SF_vars(Transmit)

Spec     == Init /\ [][Next]_vars
FairSpec == Spec /\ Fairness

--------------------------------------------------------------------------------
\* What is checked

Messages ==
  [kind : TopicOps, uid : PubUIDs] \cup [kind : SubOps, uid : SubUIDs] \cup [kind : {"time"}]
  \cup [kind : {"batch"}, pubs : SUBSET PubUIDs, subs : SUBSET SubUIDs]

ServerMessages ==
  [kind : {"announce", "value"}, id : Ids, name : Names] \cup [kind : {"unannounce"}, id : Ids]
  \cup [kind : {"time"}]

\* Every table, channel and task holds what its type says; a stream never holds more
\* than its capacity.
TypeOK ==
  /\ chan \in Seq(Messages) /\ Len(chan) <= ChanCap
  /\ published \subseteq PubUIDs
  /\ subs \subseteq SubUIDs
  /\ streams \subseteq SubUIDs
  /\ unread \in [SubUIDs -> 0 .. StreamCap]
  /\ announced \in [Ids -> Names \cup {None}]
  /\ next_pub \in Nat /\ next_sub \in Nat
  /\ calls \in [Handles -> Calls \cup {None}]
  /\ ticker \in {"asleep", "sending", "panicked"}
  /\ panic \in {"empty", "sent", "taken"}
  /\ sock \in {"select", "handle", "deliver", "retime", "down", "open", "time", "batch",
               "dying", "dead"}
  /\ work \in Messages \cup ServerMessages \cup {None}
  /\ up \in BOOLEAN
  /\ wire \in Seq(ServerMessages) /\ Len(wire) <= MaxWire
  /\ srv \in [pubs : SUBSET PubUIDs, subs : SUBSET SubUIDs, asked : BOOLEAN]
  /\ ids \in [Ids -> Names \cup {None}]
  /\ used \in [conns : Nat, calls : Nat, ticks : Nat]
  /\ released \subseteq PubUIDs
  /\ raced \subseteq (TopicOps \cup SubOps) \X (PubUIDs \cup SubUIDs)
  /\ missed \subseteq SubUIDs

\* A value reaches subscribers under the name the server meant by its id, although
\* ids are given out anew on every connection and taken back in between.
RightTopic == sock = "deliver" => announced[work.id] = work.name

\* Every value that the socket task takes off a connection reaches every recorded
\* subscription to its topic, or that subscription is over: its stream ends and never
\* goes on with a gap, not after a reconnection either.  (A value that is lost with a
\* connection, or comes before its subscription is recorded, is noticed by nobody.)
NoGaps == subs \cap missed = {}

\* When the socket task has sent all there was, the server knows everything that is
\* published and subscribed, except what on_open missed while it was being recorded.
Resynced ==
  sock = "select" /\ up /\ chan = <<>> =>
    /\ \A p \in published \ released : p \in srv.pubs \/ <<"publish", p>> \in raced
    /\ \A s \in (subs \cap streams) \ Busy({"unsubscribe"}) :
          s \in srv.subs \/ <<"subscribe", s>> \in raced

\* The channel is full and will stay so: the socket task, which alone empties it, waits
\* for room itself, or for announced_topics while the timestamp task holds it and waits
\* for room.
Standstill ==
  /\ ~Room
  /\ \/ sock \in {"retime", "time", "batch"}
     \/ /\ ticker = "sending"
        /\ \/ sock = "open"
           \/ sock = "handle" /\ work.kind # "time"

\* on_open ends, so that the socket task serves the new connection, unless it comes to
\* a standstill over a channel that filled up while there was no connection.
OpenEnds == sock \in {"open", "time", "batch"} ~> sock = "select" \/ Standstill

\* A call returns or, once the socket task is dead, panics.  It waits for ever only at
\* a standstill, or for room in an outage that lasts.
CallsEnd ==
  \/ \A h \in Handles : calls[h] # None ~>
       calls[h] = None \/ calls[h].at = "panicked" \/ Standstill
  \/ <>[](sock = "down" /\ ~Room)
================================================================================
