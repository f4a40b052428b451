-------------------------------- MODULE TimeSync --------------------------------
(***************************************************************************)
(* The clock of a client (client_time, server_time, handle_new_timestamp,   *)
(* reset_time and update_time in src/src/client/inner.rs), which it sets by *)
(* asking the server for its time, and the server's answer                  *)
(* (src/src/server/runner.rs).                                              *)
(*                                                                         *)
(* A request carries the client's time, and the answer returns it with the  *)
(* server's.  The client's time counts from start_instant, which moves when *)
(* a connection opens and when the arithmetic fails, so that an answer may  *)
(* come back to another time than its request was sent from.                *)
(***************************************************************************)
EXTENDS Integers, Sequences, SequencesExt

CONSTANTS
  Ahead,    \* what the server's clock shows when the server starts
  None,
  MaxTime,  \* bound: how long it all goes on
  MaxTicks, \* bound: turns of the timestamp task
  MaxBreaks \* bound: connections lost

ASSUME TimeSyncAssumption ==
  /\ Ahead \in Nat
  /\ MaxTime \in Nat /\ MaxTicks \in Nat /\ MaxBreaks \in Nat

VARIABLES
  now,       \* the time
  boot,      \* when the server has started
  start_instant,
  server_time_offset,
  connected, \* whether the connection is open
  asking,    \* the timestamp task in update_time, which holds announced_topics: its
             \* request, or None
  retrying,  \* the socket task in handle_value, between the two attempts: the answer, or None
  chan,      \* requests in the channel to the socket task
  requests,  \* under way to the server
  answers,   \* under way to the client
  trip,      \* history: how long the answer has taken, since its request, by which the
             \* offset was set for this start_instant, or None
  ticks,     \* how many turns the timestamp task has had
  breaks     \* how many connections have been lost

clockVars == <<start_instant, server_time_offset, trip>>
boundVars == <<ticks, breaks>>
vars == <<now, boot, clockVars, connected, asking, retrying, chan, requests, answers, boundVars>>

server_clock == Ahead + now - boot
client_time  == now - start_instant
server_time  == client_time + server_time_offset

\* A request has the client's time; when it was sent is history.
Request == [client |-> client_time, at |-> now]

Init ==
  /\ now = 0
  /\ boot = 0
  /\ start_instant = 0
  /\ server_time_offset = 0
  /\ connected = FALSE
  /\ asking = None
  /\ retrying = None
  /\ chan = <<>>
  /\ requests = <<>>
  /\ answers = <<>>
  /\ trip = None
  /\ ticks = 0
  /\ breaks = 0

--------------------------------------------------------------------------------

Tick ==
  /\ now < MaxTime
  /\ now' = now + 1
  /\ UNCHANGED <<boot, clockVars, connected, asking, retrying, chan, requests, answers,
                 boundVars>>

\* Mutant of reset_time: the offset stays until the first answer.
reset_instant ==
  /\ start_instant' = now
  /\ trip' = None
  /\ UNCHANGED server_time_offset

reset_time ==
  /\ start_instant' = now
  /\ server_time_offset' = 0
  /\ trip' = None

\* A connection has been made, by start or after another was lost.  on_open waits for
\* announced_topics, resets the time and asks for the server's.
Open ==
  /\ ~connected
  /\ asking = None
  /\ connected' = TRUE
  /\ reset_time
  /\ chan' = Append(chan, [client |-> 0, at |-> now])
  /\ UNCHANGED <<now, boot, asking, retrying, requests, answers, boundVars>>

\* The connection is lost with what is under way, and the server may have started anew.
\* What is in the channel stays.
Lose ==
  /\ connected
  /\ retrying = None
  /\ breaks < MaxBreaks
  /\ breaks' = breaks + 1
  /\ connected' = FALSE
  /\ boot' \in {boot, now}
  /\ requests' = <<>>
  /\ answers' = <<>>
  /\ UNCHANGED <<now, clockVars, asking, retrying, chan, ticks>>

\* The timestamp task, every five seconds, connected or not, once start has opened a
\* connection.  The lock it holds keeps on_open away, but not a failed attempt in
\* handle_value.
Ask ==
  /\ connected \/ breaks > 0
  /\ ticks < MaxTicks
  /\ asking = None
  /\ ticks' = ticks + 1
  /\ asking' = Request
  /\ UNCHANGED <<now, boot, clockVars, connected, retrying, chan, requests, answers, breaks>>

AskEnds ==
  /\ asking # None
  /\ chan' = Append(chan, asking)
  /\ asking' = None
  /\ UNCHANGED <<now, boot, clockVars, connected, retrying, requests, answers, boundVars>>

\* The socket task sends what is in the channel.
Send ==
  /\ connected
  /\ retrying = None
  /\ chan # <<>>
  /\ requests' = Append(requests, Head(chan))
  /\ chan' = Tail(chan)
  /\ UNCHANGED <<now, boot, clockVars, connected, asking, retrying, answers, boundVars>>

\* The handler of the connection answers with its time and the client's.
Answer ==
  /\ requests # <<>>
  /\ answers' = Append(answers, [request |-> Head(requests), server |-> server_clock])
  /\ requests' = Tail(requests)
  /\ UNCHANGED <<now, boot, clockVars, connected, asking, retrying, chan, boundVars>>

\* Mutants of Offsets: the subtractions are not checked; the whole trip counts.
OffsetsUnchecked(a, receive_time) ==
  LET round_trip_time == receive_time - a.request.client
  IN  {a.server - round_trip_time \div 2 - receive_time}

OffsetsWhole(a, receive_time) ==
  LET round_trip_time        == receive_time - a.request.client
      server_time_at_receive == a.server - round_trip_time
      offset                 == server_time_at_receive - receive_time
  IN  {o \in {offset} : round_trip_time >= 0 /\ server_time_at_receive >= 0 /\ offset >= 0}

\* The offset that handle_new_timestamp computes: none if one of its subtractions fails.
\* Half of the trip is taken from the server's time, where the protocol adds it.
Offsets(a, receive_time) ==
  LET round_trip_time        == receive_time - a.request.client
      server_time_at_receive == a.server - round_trip_time \div 2
      offset                 == server_time_at_receive - receive_time
  IN  {o \in {offset} : round_trip_time >= 0 /\ server_time_at_receive >= 0 /\ offset >= 0}

\* handle_new_timestamp sets the offset.
Sets(a) ==
  /\ server_time_offset' \in Offsets(a, client_time)
  /\ trip' = now - a.request.at

\* handle_value with an answer.
Receive ==
  /\ connected
  /\ retrying = None
  /\ answers # <<>>
  /\ answers' = Tail(answers)
  /\ \/ Sets(Head(answers)) /\ UNCHANGED <<start_instant, retrying>>
     \/ /\ Offsets(Head(answers), client_time) = {}
        /\ start_instant' = now
        /\ trip' = None
        /\ retrying' = Head(answers)
        /\ UNCHANGED server_time_offset
  /\ UNCHANGED <<now, boot, connected, asking, chan, requests, boundVars>>

\* Mutant of AsksAgain: the next turn of the timestamp task is soon enough.
AsksLater == UNCHANGED chan

\* update_time
AsksAgain == chan' = Append(chan, Request)

\* After a failed attempt handle_value asks again, which waits for announced_topics, and
\* tries the same answer with the new start_instant.
Retry ==
  /\ retrying # None
  /\ asking = None
  /\ AsksAgain
  /\ \/ Sets(retrying)
     \/ Offsets(retrying, client_time) = {} /\ UNCHANGED <<server_time_offset, trip>>
  /\ retrying' = None
  /\ UNCHANGED <<now, boot, start_instant, connected, asking, requests, answers, boundVars>>

Next ==
  Tick \/ Open \/ Lose \/ Ask \/ AskEnds \/ Send \/ Answer \/ Receive \/ Retry

\* Tasks are polled while they can go on, and an open connection delivers.
Fairness ==
  /\ WF_vars(Open) /\ WF_vars(AskEnds) /\ WF_vars(Send) /\ WF_vars(Answer)
  /\ WF_vars(Receive) /\ WF_vars(Retry)

Spec     == Init /\ [][Next]_vars
FairSpec == Spec /\ Fairness

--------------------------------------------------------------------------------
\* What is checked

Times    == 0 .. MaxTime
ARequest == [client : Times, at : Times]
AnAnswer == [request : ARequest, server : Nat]

TypeOK ==
  /\ now \in Times /\ boot \in 0 .. now /\ start_instant \in 0 .. now
  /\ server_time_offset \in Nat
  /\ connected \in BOOLEAN
  /\ asking \in ARequest \cup {None}
  /\ retrying \in AnAnswer \cup {None}
  /\ chan \in Seq(ARequest) /\ requests \in Seq(ARequest) /\ answers \in Seq(AnAnswer)
  /\ trip \in Times \cup {None}
  /\ ticks \in 0 .. MaxTicks /\ breaks \in 0 .. MaxBreaks

\* While it is connected, a client never takes the server's time to be later than it is,
\* even when an answer comes back to another start_instant, or the server has started
\* anew: values it sets are not from the future.
NeverAhead == connected => server_time <= server_clock

\* Once an answer has set the offset, the client is behind by one and a half times the
\* time that answer took, at most.
LagBounded == connected /\ trip # None => server_clock - server_time <= trip + trip \div 2

\* After the time has been reset, by a new connection or by an answer whose arithmetic
\* failed, an answer sets it again while the connection lasts: old answers fail, and
\* each failure resets the time, but that does not go on for ever.
SetAgain == connected /\ trip = None ~> trip # None \/ ~connected
================================================================================
