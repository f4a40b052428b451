------------------------------ MODULE ServerLocks ------------------------------
(***************************************************************************)
(* The mutexes of InnerServer (src/src/server/inner.rs) and the order in   *)
(* which the tasks of a server take them: the parser, the send_out task,   *)
(* connections that are being set up, and the program's own calls.         *)
(*                                                                         *)
(* An operation is a list of points, one for each lock!(...).await it      *)
(* meets.  A guard that lives on is kept; a guard that is a temporary of   *)
(* its statement is gone before the next point, unless that statement is an *)
(* if let or a match, which keeps it to its end.  What an operation does   *)
(* with the tables is left out, sends to clients included: here every      *)
(* channel has room.                                                       *)
(***************************************************************************)
EXTENDS Naturals, Sequences

CONSTANTS
  Parser,       \* the task of message_parser
  SendOut,      \* the send_out task
  Connecting,   \* tasks that call connect_client
  Handles       \* the program's tasks with a server handle

Tasks == {Parser, SendOut} \cup Connecting \cup Handles

ASSUME TaskAssumption ==
  /\ Parser # SendOut
  /\ {Parser, SendOut} \cap (Connecting \cup Handles) = {}
  /\ Connecting \cap Handles = {}

Locks ==
  {"topics", "topic_map", "pub_count", "topic_value_map", "metatopic_value_map",
   "client_map", "clients", "client_metatopic_map", "subscriptions", "topic_sub_map",
   "sub_send_timestamps", "sub_values", "counters"}

\* A point of an operation: the lock it waits for, the locks it keeps when it goes
\* on, how many points it may skip then, and whether it may instead return, which
\* drops every guard.
Points == [take : Locks, keep : SUBSET Locks, skip : Nat, ends : BOOLEAN]

At(l, kept)          == [take |-> l, keep |-> kept, skip |-> 0, ends |-> FALSE]
AtOrEnd(l, kept)     == [take |-> l, keep |-> kept, skip |-> 0, ends |-> TRUE]
AtOrSkip(l, kept, n) == [take |-> l, keep |-> kept, skip |-> n, ends |-> FALSE]

--------------------------------------------------------------------------------
\* Topics

\* The insertion of a new topic by add_topic
Insert ==
  << At("topics", {"topics"}), At("counters", {}),
     At("pub_count", {}), At("topic_map", {}), At("topic_sub_map", {}) >>

\* add_topic of a metatopic: a name that is there is not inserted.
AddMeta == << AtOrSkip("topic_map", {}, Len(Insert)) >> \o Insert

\* The end of announce_topic: who covers the name, and a send to each of them.
Notify == << At("subscriptions", {}), AtOrEnd("clients", {}) >>

\* announce_topic without a response
AnnounceAll == << AtOrEnd("topics", {}) >> \o Notify

\* announce_topic with a response: topics is held while the publisher is answered.
AnnounceTo == << AtOrEnd("topics", {"topics"}), AtOrEnd("clients", {}) >> \o Notify

\* add_topic of an ordinary name, whose metatopics are added and announced too
AddNew   == Insert \o AddMeta \o AnnounceAll \o AddMeta \o AnnounceAll
AddTopic == << AtOrSkip("topic_map", {}, Len(AddNew)) >> \o AddNew

\* The metatopic in which inner_publish_topic and inner_unpublish_topic list what a
\* peer or the server publishes; kept is what the caller holds.
ListForClient(kept) ==
  << AtOrEnd("client_metatopic_map", kept \cup {"client_metatopic_map"}),
     At("metatopic_value_map", {}) >>
ListForServer == << At("metatopic_value_map", {}) >>

\* inner_publish_topic, with list for the update of the metatopic
PublishThen(list) == AddTopic \o AnnounceTo \o << AtOrEnd("clients", {}) >> \o list

\* remove_topic, called with the locks kept, and after what its caller holds later.
RemoveTopic(kept, after) ==
  << AtOrEnd("topics", kept \cup {"topics"}), AtOrEnd("topic_map", kept),
     At("topic_sub_map", kept \cup {"topic_sub_map"}),
     At("topic_value_map", kept \cup {"topic_sub_map", "topic_value_map"}),
     At("metatopic_value_map", after) >>

\* Mutant of Unpublish: the count is locked again to take the entry out.
UnpublishCountingTwice ==
  << AtOrEnd("clients", {"clients"}), At("topics", {}),
     AtOrEnd("pub_count", {"pub_count"}) >>
  \o RemoveTopic({"pub_count"}, {"pub_count"})
  \o << At("pub_count", {"pub_count"}) >> \o ListForClient({"pub_count"})

\* inner_unpublish_topic of a peer: pub_count is held to its end.  Without an entry
\* there it returns; while publishers remain the topic is not removed.
Unpublish ==
  LET removal == RemoveTopic({"pub_count"}, {"pub_count"})
      count   == [AtOrEnd("pub_count", {"pub_count"}) EXCEPT !.skip = Len(removal)]
  IN  << AtOrEnd("clients", {"clients"}), At("topics", {}) >>
      \o (<< count >> \o removal) \o ListForClient({"pub_count"})

\* set_properties
SetProperties == << AtOrEnd("topic_map", {}), At("topics", {}) >>

\* set_value, called with the locks kept: the queues are held while the topic's
\* list is read.
SetValue(kept) ==
  << AtOrEnd("topics", kept), At("sub_values", kept \cup {"sub_values"}),
     At("topic_sub_map", kept), At("topic_value_map", {}) >>

--------------------------------------------------------------------------------
\* Clients and subscriptions

\* Mutant of Connect: clients is held until the metatopics are there.
ConnectKeepingClients ==
  << AtOrEnd("client_map", {}),
     At("clients", {"clients"}), At("counters", {"clients", "counters"}),
     At("client_map", {"clients", "counters"}), At("metatopic_value_map", {"clients"}),
     At("topic_map", {"clients"}), At("topics", {"clients", "topics"}) >>

\* connect_client.  clients and counters are held until $clients has the new entry.
Connect ==
  << AtOrEnd("client_map", {}),
     At("clients", {"clients"}), At("counters", {"clients", "counters"}),
     At("client_map", {"clients", "counters"}), At("metatopic_value_map", {}) >>
  \o AddMeta \o AddMeta \o << At("client_metatopic_map", {}) >>

\* One turn of the loop of disconnect_client over the topics the client publishes:
\* the count is held only while the topic is removed.
ReleaseTopic ==
  {<< At("pub_count", {"clients"}) >>,
   << At("pub_count", {"clients", "pub_count"}) >>
     \o RemoveTopic({"clients", "pub_count"}, {"clients"})}

\* disconnect_client of a client that publishes one topic or none: clients is held
\* to its end.
Disconnect ==
  {<< AtOrEnd("client_map", {}), AtOrEnd("clients", {"clients"}) >> \o turn
   \o << AtOrEnd("client_metatopic_map", {"clients"}) >>
   \o RemoveTopic({"clients"}, {"clients"}) \o RemoveTopic({"clients"}, {}) :
     turn \in {<<>>} \cup ReleaseTopic}

\* subscribe: every guard that has a name lives to the end.
SubscribeLocks == {"clients", "topic_map", "topic_sub_map", "topic_value_map"}
Subscribe ==
  << AtOrEnd("clients", {"clients"}), At("topic_map", {"clients", "topic_map"}),
     At("topic_sub_map", {"clients", "topic_map", "topic_sub_map"}),
     At("topic_value_map", SubscribeLocks), At("counters", SubscribeLocks),
     AtOrEnd("topics", SubscribeLocks \cup {"topics"}),
     At("sub_send_timestamps", SubscribeLocks \cup {"topics"}),
     At("sub_values", SubscribeLocks \cup {"topics"}),
     At("subscriptions", {}) >>

\* unsubscribe
Unsubscribe ==
  << AtOrEnd("clients", {"clients"}), At("topic_sub_map", {"clients", "topic_sub_map"}),
     At("subscriptions", {"clients", "topic_sub_map"}),
     At("sub_values", {"clients", "topic_sub_map"}), At("sub_send_timestamps", {}) >>

--------------------------------------------------------------------------------
\* Who runs what

\* One turn of send_out, over at once when nobody subscribes to anything
SendPass ==
  << AtOrEnd("subscriptions", {"subscriptions"}),
     At("sub_values", {"subscriptions", "sub_values"}),
     At("sub_send_timestamps", {"subscriptions", "sub_values", "sub_send_timestamps"}),
     At("clients", {}) >>

\* The messages of message_parser.  Those of a binary frame are handled under the
\* clients lock; one value stands for all of them.
ParserPrograms ==
  Disconnect
  \cup {PublishThen(ListForClient({})), Unpublish, SetProperties, Subscribe, Unsubscribe,
        << AtOrEnd("clients", {"clients"}) >> \o SetValue({"clients"})}

\* The calls of a server handle: publish_topic, set_topic_props, and those that only
\* look at topic_map (get_topic_idx, which always fails, and get_topic_names).
HandlePrograms ==
  {PublishThen(ListForServer) \o SetValue({}), SetProperties, << At("topic_map", {}) >>}

Programs(t) ==
  CASE t = Parser        -> ParserPrograms
    [] t = SendOut       -> {SendPass}
    [] t \in Connecting  -> {Connect}
    [] OTHER             -> HandlePrograms

VARIABLES
  todo,   \* the points each task has before it, the first of which it waits for
  held    \* the locks whose guards each task has

vars == <<todo, held>>

Init ==
  /\ todo = [t \in Tasks |-> <<>>]
  /\ held = [t \in Tasks |-> {}]

\* Mutant of Free: clients is behind a lock that its users share.
FreeOrShared(l) == l = "clients" \/ \A t \in Tasks : l \notin held[t]

Free(l) == \A t \in Tasks : l \notin held[t]

\* A task that is idle calls an operation.
Call(t) ==
  /\ todo[t] = <<>>
  /\ \E p \in Programs(t) : todo' = [todo EXCEPT ![t] = p]
  /\ UNCHANGED held

\* A task gets the lock it waits for and goes on, or returns.
Step(t) ==
  /\ todo[t] # <<>>
  /\ LET point == Head(todo[t])
     IN  /\ Free(point.take)
         /\ \/ /\ \E k \in {0, point.skip} :
                    todo' = [todo EXCEPT ![t] = SubSeq(@, k + 2, Len(@))]
               /\ held' = [held EXCEPT ![t] = point.keep]
            \/ /\ point.ends
               /\ todo' = [todo EXCEPT ![t] = <<>>]
               /\ held' = [held EXCEPT ![t] = {}]

Next == \E t \in Tasks : Call(t) \/ Step(t)

Spec == Init /\ [][Next]_vars

--------------------------------------------------------------------------------
\* What is checked

\* The points before a task are points, and a lock has one owner at most.
TypeOK ==
  /\ todo \in [Tasks -> Seq(Points)]
  /\ held \in [Tasks -> SUBSET Locks]
  /\ \A t, u \in Tasks : t # u => held[t] \cap held[u] = {}

Waits(t, u) == todo[t] # <<>> /\ Head(todo[t]).take \in held[u]

\* Every task of S waits for another of S: none of them ever goes on.
Deadlocked(S) == S # {} /\ \A t \in S : \E u \in S : Waits(t, u)

\* The other tasks take the locks in one common order: wherever tasks of a server
\* wait for each other in a circle, the parser is one of them.
DeadlocksNeedParser == \A S \in SUBSET Tasks : Deadlocked(S) => Parser \in S

\* The messages of peers and new connections by themselves never come to a stop:
\* no operation waits for a lock its own task holds, although they call each other
\* with locks held, and connect_client frees clients before it calls add_topic (356).
PeersNeverDeadlock == \A S \in SUBSET ({Parser} \cup Connecting) : ~Deadlocked(S)

\* "The inner server is thread safe, and can be shared between threads. this is
\* through each mutable field being wrapped in a mutex" (inner.rs:122): tasks that
\* share it do not stop each other for ever.
SharedBetweenThreads == \A S \in SUBSET Tasks : ~Deadlocked(S)
================================================================================
