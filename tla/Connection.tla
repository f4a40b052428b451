------------------------------ MODULE Connection ------------------------------
(***************************************************************************)
(* The connections of a server (handle_connection in                       *)
(* src/src/server/runner.rs) with the channels around them: the one that   *)
(* all connections fill and the parser task drains, and one for each        *)
(* client that its connection drains.  Three fill that, with the clients    *)
(* lock held: the parser, the send_out task, and a server handle that       *)
(* publishes a topic (src/src/server/handles.rs).                          *)
(*                                                                         *)
(* handle_connection is one task.  When its select! is over, its futures    *)
(* are neither polled nor dropped before it returns, and it returns only    *)
(* when its close message has found room: a handler of a message that waits *)
(* for room until then keeps its place, and the room it is given.           *)
(*                                                                         *)
(* What a message says is left out, except whether it makes the parser tell *)
(* clients something, disconnect one, or neither.                          *)
(***************************************************************************)
EXTENDS Naturals, Sequences, SequencesExt

CONSTANTS
  Clients,   \* the connections there can be
  InCap,     \* capacity of the channel to the parser (127)
  OutCap,    \* capacity of a client's channel (127)
  None,
  MaxSent,   \* bound: messages a peer sends, and times it stops to read
  MaxOut,    \* bound: passes of send_out
  MaxHandled, \* bound: messages that make the parser send or disconnect
  MaxCalls   \* bound: calls of a handle that tell clients something

ASSUME ConnectionAssumption ==
  /\ InCap \in Nat \ {0}
  /\ OutCap \in Nat \ {0}
  /\ MaxSent \in Nat /\ MaxOut \in Nat /\ MaxHandled \in Nat /\ MaxCalls \in Nat
  /\ None \notin Clients \cup {"parser", "send_out", "handle"}

VARIABLES
  conn,      \* handle_connection of each client: "absent", "running", "closing", "done"
  peer,      \* its peer, as far as its connection still listens: "reading", "stalled",
             \* "ended" or "broken"
  sent,      \* how many messages the peer has sent
  answers,   \* answers in the time channel, of capacity 1, or waiting for room there
  loop,      \* the outgoing loop: "select", or what it writes to the peer
  kill,      \* kill_bool
  out,       \* the client's channel
  connected, \* the keys of clients
  inq,       \* the channel to the parser: who sent, and whether it is a close message
  waiting,   \* who waits for room in it, first come first served
  granted,   \* who has been given room and not gone on yet
  lock,      \* who holds clients: "parser", "send_out", "handle" or nobody
  parser,    \* what the parser is about to do under clients, or does
  sender,    \* the same of send_out
  handle,    \* the same of the call of a handle that has got clients
  passes,    \* how many passes send_out has begun
  handled,   \* how many messages made the parser send or disconnect
  calls      \* how many calls of handles have told clients something

connVars == <<conn, sent, answers, loop>>
inVars   == <<inq, waiting, granted>>
taskVars == <<parser, sender, handle, passes, handled, calls>>
vars == <<connVars, peer, kill, out, connected, inVars, lock, taskVars>>

\* What a task does with the clients: tell those of left, of whom `to` is next.
Idle == [does |-> "idle", to |-> None, left |-> {}]

Init ==
  /\ conn = [c \in Clients |-> "absent"]
  /\ peer = [c \in Clients |-> "reading"]
  /\ sent = [c \in Clients |-> 0]
  /\ answers = [c \in Clients |-> 0]
  /\ loop = [c \in Clients |-> "select"]
  /\ kill = [c \in Clients |-> FALSE]
  /\ out = [c \in Clients |-> <<>>]
  /\ connected = {}
  /\ inq = <<>>
  /\ waiting = <<>>
  /\ granted = <<>>
  /\ lock = None
  /\ parser = Idle
  /\ sender = Idle
  /\ handle = Idle
  /\ passes = 0
  /\ handled = 0
  /\ calls = 0

--------------------------------------------------------------------------------
\* The channel to the parser (external: a bounded channel of tokio).  Room that gets
\* free is given to those who wait, in their order.
Share(q, g, w) ==
  LET free  == InCap - Len(q) - Len(g)
      given == IF free < Len(w) THEN free ELSE Len(w)
  IN  /\ inq' = q
      /\ granted' = g \o SubSeq(w, 1, given)
      /\ waiting' = SubSeq(w, given + 1, Len(w))

MessageOf(c) == [from |-> c, close |-> FALSE]
CloseOf(c)   == [from |-> c, close |-> TRUE]

\* The senders of c are dropped, and with them the room they have been given.
Without(s, c) ==
  LET kept[k \in 0 .. Len(s)] ==
        IF k = 0 THEN <<>>
        ELSE IF s[k].from = c THEN kept[k - 1] ELSE Append(kept[k - 1], s[k])
  IN  kept[Len(s)]

--------------------------------------------------------------------------------
\* Connections

\* connect_client registers the client, and handle_connection begins.
Connect(c) ==
  /\ conn[c] = "absent"
  /\ lock = None
  /\ conn' = [conn EXCEPT ![c] = "running"]
  /\ connected' = connected \cup {c}
  /\ UNCHANGED <<sent, answers, loop, peer, kill, out, inVars, lock, taskVars>>

\* Mutant of PeerActs: broadcast_incoming is a task of its own, which goes on.
PeerActsStill(c) ==
  /\ conn[c] # "absent"
  /\ sent[c] < MaxSent
  /\ sent' = [sent EXCEPT ![c] = @ + 1]

\* The peer does something that counts.
PeerActs(c) ==
  /\ conn[c] = "running"
  /\ peer[c] \in {"reading", "stalled"}
  /\ sent[c] < MaxSent
  /\ sent' = [sent EXCEPT ![c] = @ + 1]

\* A message comes in, and its handler sends it on to the parser or waits for room.
\* All handlers of a connection run side by side, and nothing bounds their number.
Receive(c) ==
  /\ PeerActs(c)
  /\ IF Len(inq) + Len(granted) < InCap
     THEN inq' = Append(inq, MessageOf(c)) /\ UNCHANGED waiting
     ELSE waiting' = Append(waiting, MessageOf(c)) /\ UNCHANGED inq
  /\ UNCHANGED <<conn, answers, loop, peer, kill, out, connected, granted, lock, taskVars>>

\* A request for the time, or a ping: its handler answers through the time channel.
ReceiveTime(c) ==
  /\ PeerActs(c)
  /\ answers' = [answers EXCEPT ![c] = @ + 1]
  /\ UNCHANGED <<conn, loop, peer, kill, out, connected, inVars, lock, taskVars>>

\* The peer's close frame sets the kill switch and is the last of its stream; the
\* stream may also end without one.
PeerCloses(c) ==
  /\ conn[c] = "running"
  /\ peer[c] \in {"reading", "stalled"}
  /\ peer' = [peer EXCEPT ![c] = "ended"]
  /\ kill' \in {kill, [kill EXCEPT ![c] = TRUE]}
  /\ UNCHANGED <<connVars, out, connected, inVars, lock, taskVars>>

\* External: the stream breaks.
PeerBreaks(c) ==
  /\ conn[c] = "running"
  /\ peer[c] \in {"reading", "stalled"}
  /\ peer' = [peer EXCEPT ![c] = "broken"]
  /\ UNCHANGED <<connVars, kill, out, connected, inVars, lock, taskVars>>

\* External: the peer stops to read, and reads again.
PeerStalls(c) ==
  /\ PeerActs(c)
  /\ peer[c] = "reading"
  /\ peer' = [peer EXCEPT ![c] = "stalled"]
  /\ UNCHANGED <<conn, answers, loop, kill, out, connected, inVars, lock, taskVars>>

PeerResumes(c) ==
  /\ peer[c] = "stalled"
  /\ peer' = [peer EXCEPT ![c] = "reading"]
  /\ UNCHANGED <<connVars, kill, out, connected, inVars, lock, taskVars>>

\* A handler that has been given room goes on, if the select! is there to poll it.
HandOver(c) ==
  \E k \in DOMAIN granted :
    /\ granted[k] = MessageOf(c)
    /\ conn[c] = "running"
    /\ inq' = Append(inq, granted[k])
    /\ granted' = RemoveAt(granted, k)
    /\ UNCHANGED <<connVars, peer, kill, out, connected, waiting, lock, taskVars>>

\* The select! is over: nobody listens to the peer any more, nor answers it.
Over(c) ==
  /\ conn' = [conn EXCEPT ![c] = "closing"]
  /\ peer' = [peer EXCEPT ![c] = "ended"]
  /\ answers' = [answers EXCEPT ![c] = 0]

\* broadcast_incoming ends: with its last handler when the stream ends, and at once when
\* the stream breaks, which drops the handlers.
IncomingEnds(c) ==
  /\ conn[c] = "running"
  /\ \/ peer[c] = "broken"
     \/ /\ peer[c] = "ended"
        /\ answers[c] <= 1
        /\ \A e \in ToSet(waiting \o granted) : e.from # c
  /\ kill' = [kill EXCEPT ![c] = TRUE]
  /\ Over(c)
  /\ loop' = [loop EXCEPT ![c] = "select"]
  /\ Share(inq, Without(granted, c), Append(Without(waiting, c), CloseOf(c)))
  /\ UNCHANGED <<sent, out, connected, lock, taskVars>>

\* The outgoing loop ends, and with it the select!.  The handlers that wait are not
\* dropped: they stay in front of the close message.
OutgoingEnds(c) ==
  /\ Over(c)
  /\ Share(inq, granted, Append(waiting, CloseOf(c)))

GoesOn == UNCHANGED <<conn, peer, answers, inVars>>

\* Mutant of EndOfTurn: the kill switch is not looked at.
EndOfTurnAlways(c) == GoesOn

\* The end of a turn of the outgoing loop, which looks at the kill switch then only.
EndOfTurn(c) == IF kill[c] THEN OutgoingEnds(c) ELSE GoesOn

Selects(c) == conn[c] = "running" /\ loop[c] = "select"

\* The loop takes a message from the client's channel.  A binary message is dropped
\* unless it is the flush marker, which nothing sends.
TakeOut(c) ==
  /\ Selects(c)
  /\ out[c] # <<>>
  /\ out' = [out EXCEPT ![c] = Tail(@)]
  /\ IF Head(out[c]) = "binary"
     THEN EndOfTurn(c) /\ UNCHANGED loop
     ELSE loop' = [loop EXCEPT ![c] = Head(out[c])] /\ GoesOn
  /\ UNCHANGED <<sent, kill, connected, lock, taskVars>>

\* disconnect_client dropped the sender of the client's channel: recv returns None.
OutClosed(c) ==
  /\ Selects(c)
  /\ c \notin connected
  /\ out[c] = <<>>
  /\ kill' = [kill EXCEPT ![c] = TRUE]
  /\ OutgoingEnds(c)
  /\ UNCHANGED <<sent, loop, out, connected, lock, taskVars>>

\* It takes an answer.
TakeTime(c) ==
  /\ Selects(c)
  /\ answers[c] > 0
  /\ answers' = [answers EXCEPT ![c] = @ - 1]
  /\ loop' = [loop EXCEPT ![c] = "time"]
  /\ UNCHANGED <<conn, sent, peer, kill, out, connected, inVars, lock, taskVars>>

\* Its interval is up, and it flushes.  While the kill switch is off that changes
\* nothing that lasts.
Tick(c) ==
  /\ Selects(c)
  /\ kill[c]
  /\ loop' = [loop EXCEPT ![c] = "flush"]
  /\ UNCHANGED <<conn, sent, answers, peer, kill, out, connected, inVars, lock, taskVars>>

\* Writing ends when the peer takes what is written, or with an error when it is gone.
Written(c) ==
  /\ conn[c] = "running"
  /\ loop[c] # "select"
  /\ peer[c] # "stalled"
  /\ loop' = [loop EXCEPT ![c] = "select"]
  /\ EndOfTurn(c)
  /\ UNCHANGED <<sent, kill, out, connected, lock, taskVars>>

\* The close message has found room: handle_connection returns, which drops what is
\* left of it, the receiver of the client's channel and its handlers.
Close(c) ==
  \E k \in DOMAIN granted :
    /\ granted[k] = CloseOf(c)
    /\ Share(Append(inq, granted[k]), Without(granted, c), Without(waiting, c))
    /\ conn' = [conn EXCEPT ![c] = "done"]
    /\ out' = [out EXCEPT ![c] = <<>>]
    /\ UNCHANGED <<sent, answers, loop, peer, kill, connected, lock, taskVars>>

--------------------------------------------------------------------------------
\* The parser, send_out and handles

\* The clients of left are told one after the other, in the order of a hash map.
Tells(left) ==
  IF left = {} THEN {Idle}
  ELSE {[does |-> "telling", to |-> c, left |-> left \ {c}] : c \in left}

\* message_parser takes a message.  The close of a connection is no array of messages
\* and is dropped; others change tables only, tell clients, or disconnect one.
ParserTakes ==
  /\ parser.does = "idle"
  /\ inq # <<>>
  /\ Share(Tail(inq), granted, waiting)
  /\ \/ UNCHANGED <<parser, handled>>
     \/ /\ ~Head(inq).close
        /\ handled < MaxHandled
        /\ handled' = handled + 1
        /\ parser' \in {[Idle EXCEPT !.does = "tell"], [Idle EXCEPT !.does = "disconnect"]}
  /\ UNCHANGED <<connVars, peer, kill, out, connected, lock, sender, handle, passes, calls>>

\* announce_topic and subscribe lock clients to send.
ParserLocks ==
  /\ parser.does = "tell"
  /\ lock = None
  /\ \E S \in SUBSET connected : parser' \in Tells(S)
  /\ lock' = IF parser'.does = "telling" THEN "parser" ELSE None
  /\ UNCHANGED <<connVars, peer, kill, out, connected, inVars, sender, handle, passes, handled,
                 calls>>

\* disconnect_client: an error if the client is not there, and else clients are told
\* that topics are gone.
ParserDisconnects ==
  /\ parser.does = "disconnect"
  /\ lock = None
  /\ \/ parser' = Idle /\ UNCHANGED <<connected, kill>>
     \/ \E c \in connected : /\ connected' = connected \ {c}
                             /\ kill' = [kill EXCEPT ![c] = TRUE]
                             /\ parser' = [Idle EXCEPT !.does = "tell"]
  /\ UNCHANGED <<connVars, peer, out, inVars, lock, sender, handle, passes, handled, calls>>

\* Mutant of Accepts: the channel has no bound.
AcceptsAll(c) == conn[c] # "done"

\* Mutant of Fails: the receiver is not seen to be gone.
FailsNever(c) == FALSE

\* A send waits for room while the receiver is there, which is until handle_connection
\* returns; after that it fails.
Accepts(c) == conn[c] # "done" /\ Len(out[c]) < OutCap
Fails(c) == conn[c] = "done"

\* What the parser does fails with the first send that does.
ParserSends ==
  LET c == parser.to
  IN  /\ parser.does = "telling"
      /\ \/ Fails(c) /\ parser' = Idle /\ UNCHANGED out
         \/ /\ Accepts(c)
            /\ out' = [out EXCEPT ![c] = Append(@, "text")]
            /\ parser' \in Tells(parser.left)
      /\ lock' = IF parser'.does = "idle" THEN None ELSE lock
      /\ UNCHANGED <<connVars, peer, kill, connected, inVars, sender, handle, passes, handled,
                 calls>>

\* A pass of send_out: values for some of the clients.
SenderLocks ==
  /\ sender.does = "idle"
  /\ lock = None
  /\ passes < MaxOut
  /\ \E S \in (SUBSET connected) \ {{}} : sender' \in Tells(S)
  /\ lock' = "send_out"
  /\ passes' = passes + 1
  /\ UNCHANGED <<connVars, peer, kill, out, connected, inVars, parser, handle, handled, calls>>

\* An error is ignored.
SenderSends ==
  LET c == sender.to
  IN  /\ sender.does = "telling"
      /\ \/ Fails(c) /\ UNCHANGED out
         \/ Accepts(c) /\ out' = [out EXCEPT ![c] = Append(@, "binary")]
      /\ sender' \in Tells(sender.left)
      /\ lock' = IF sender'.does = "idle" THEN None ELSE lock
      /\ UNCHANGED <<connVars, peer, kill, connected, inVars, parser, handle, passes, handled,
                     calls>>

\* A handle publishes a topic.  Handles may call at any time, and as many as there are:
\* this is the call that gets clients next.
HandleLocks ==
  /\ handle.does = "idle"
  /\ lock = None
  /\ calls < MaxCalls
  /\ \E S \in (SUBSET connected) \ {{}} : handle' \in Tells(S)
  /\ lock' = "handle"
  /\ calls' = calls + 1
  /\ UNCHANGED <<connVars, peer, kill, out, connected, inVars, parser, sender, passes, handled>>

\* The call fails with the first send that does.
HandleSends ==
  LET c == handle.to
  IN  /\ handle.does = "telling"
      /\ \/ Fails(c) /\ handle' = Idle /\ UNCHANGED out
         \/ /\ Accepts(c)
            /\ out' = [out EXCEPT ![c] = Append(@, "text")]
            /\ handle' \in Tells(handle.left)
      /\ lock' = IF handle'.does = "idle" THEN None ELSE lock
      /\ UNCHANGED <<connVars, peer, kill, connected, inVars, parser, sender, passes, handled,
                     calls>>

--------------------------------------------------------------------------------

Loop(c)    == TakeOut(c) \/ OutClosed(c) \/ TakeTime(c) \/ Tick(c) \/ Written(c)
ParserStep == ParserTakes \/ ParserLocks \/ ParserDisconnects \/ ParserSends

Next ==
  \/ \E c \in Clients :
       \/ Connect(c) \/ Receive(c) \/ ReceiveTime(c)
       \/ PeerCloses(c) \/ PeerBreaks(c) \/ PeerStalls(c) \/ PeerResumes(c)
       \/ HandOver(c) \/ IncomingEnds(c) \/ Loop(c) \/ Close(c)
  \/ ParserStep \/ SenderLocks \/ SenderSends \/ HandleLocks \/ HandleSends

\* A task is polled while it can go on, and handle_connection is one task.  Nothing is
\* assumed of a peer: one that has stopped to read may never read again, and nothing gives
\* up writing to it.
Fairness ==
  /\ \A c \in Clients : WF_vars(HandOver(c) \/ IncomingEnds(c) \/ Loop(c) \/ Close(c))
  /\ WF_vars(ParserStep) /\ WF_vars(SenderSends) /\ WF_vars(HandleSends)

Spec     == Init /\ [][Next]_vars
FairSpec == Spec /\ Fairness

--------------------------------------------------------------------------------
\* What is checked

Task == [does : {"idle", "tell", "disconnect", "telling"}, to : Clients \cup {None},
         left : SUBSET Clients]

Senders == Seq([from : Clients, close : BOOLEAN])

\* No channel exceeds its capacity, nobody waits for room while there is some, and
\* whoever sends to clients holds the lock.
TypeOK ==
  /\ conn \in [Clients -> {"absent", "running", "closing", "done"}]
  /\ peer \in [Clients -> {"reading", "stalled", "ended", "broken"}]
  /\ sent \in [Clients -> 0 .. MaxSent]
  /\ answers \in [Clients -> 0 .. MaxSent]
  /\ loop \in [Clients -> {"select", "text", "time", "flush"}]
  /\ kill \in [Clients -> BOOLEAN]
  /\ out \in [Clients -> Seq({"text", "binary"})] /\ \A c \in Clients : Len(out[c]) <= OutCap
  /\ connected \subseteq Clients
  /\ inq \in Senders /\ waiting \in Senders /\ granted \in Senders
  /\ Len(inq) + Len(granted) <= InCap
  /\ waiting # <<>> => Len(inq) + Len(granted) = InCap
  /\ lock \in {"parser", "send_out", "handle", None}
  /\ parser \in Task /\ sender \in Task /\ handle \in Task
  /\ passes \in 0 .. MaxOut /\ handled \in 0 .. MaxHandled /\ calls \in 0 .. MaxCalls
  /\ (parser.does = "telling") = (lock = "parser")
  /\ (sender.does = "telling") = (lock = "send_out")
  /\ (handle.does = "telling") = (lock = "handle")

\* The close message of a connection is the last of its messages that the parser gets,
\* nothing of it comes when the parser has taken that, and with it a connection gives back
\* what room its handlers had been given.
CloseIsLast ==
  /\ \A j, k \in DOMAIN inq : inq[j].close /\ inq[j].from = inq[k].from => k <= j
  /\ \A k \in DOMAIN inq :
       LET c == inq[k].from
       IN  conn[c] = "done" => \E j \in DOMAIN inq : k <= j /\ inq[j] = CloseOf(c)
  /\ \A e \in ToSet(waiting \o granted) : conn[e.from] # "done"

\* Handlers that have been given room which they neither use nor give back before
\* their connection has found room for its close message.
Stranded == SelectSeq(granted, LAMBDA e : ~e.close /\ conn[e.from] = "closing")

\* Somebody waits, with clients, for room in the channel of c.
WaitsFor(c) ==
  /\ Len(out[c]) = OutCap
  /\ \E t \in {parser, sender, handle} : t.does = "telling" /\ t.to = c

\* The parser is at a message, and it, or send_out or a handle with the lock it needs, tells
\* a connection that takes nothing any more what its channel has no room for.
ParserStuck ==
  /\ parser.does # "idle"
  /\ \E c \in Clients : conn[c] = "closing" /\ WaitsFor(c)

\* There is no room for a close message, and there never will be: all room is taken by
\* stranded handlers and by messages that a stuck parser does not take.
Standstill ==
  /\ Len(inq) + Len(Stranded) = InCap
  /\ inq = <<>> \/ ParserStuck

\* c's connection writes to a peer that does not read, which nothing ends: the write has no
\* timeout, and the kill switch is looked at between two writes.
Blocked(c) == conn[c] = "running" /\ loop[c] # "select" /\ peer[c] = "stalled"

\* A connection whose kill switch is set ends, whatever the server is stuck in, unless it
\* writes for ever to a peer that reads no more.
KilledConnectionsEnd ==
  \A c \in Clients :
    <>[]Blocked(c) \/ []<>~(kill[c] /\ conn[c] = "running")

\* The parser comes to the end of every message, and every connection that has ended is
\* reported: only Standstill stops them, and a peer that reads no more while the channel
\* that its connection does not drain is full and somebody tells it more, with clients.
ServerGoesOn ==
  \/ \E c \in Clients : <>[](Blocked(c) /\ WaitsFor(c))
  \/ /\ []<>(parser.does = "idle" \/ Standstill)
     /\ \A c \in Clients : []<>(conn[c] # "closing" \/ Standstill)

\* "Persists all values of the topic to be sent to the client on sub period"
\* (util.rs:159): a value that send_out has taken from there goes to the client, unless
\* its connection ends or its peer does not read.
ValuesReachClients ==
  \A c \in Clients :
    (\E k \in DOMAIN out[c] : out[c][k] = "binary")
      ~> loop[c] = "binary" \/ conn[c] # "running" \/ peer[c] = "stalled"
================================================================================
