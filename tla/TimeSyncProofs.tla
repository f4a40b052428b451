---------------------------- MODULE TimeSyncProofs ----------------------------
(***************************************************************************)
(* Proofs about TimeSync: for any delays, number of requests and breaks,   *)
(* the client's idea of the server's time is never ahead, and no further   *)
(* behind than the trip of the answer that set it explains.                *)
(***************************************************************************)
EXTENDS TimeSync, SequenceTheorems, TLAPS

\* A request says no earlier time than it was sent at: start_instant only moves on.
SentRequests == {r \in ARequest : r.at <= now /\ r.client >= r.at - start_instant}

\* An answer has the server's time of some moment since its request was sent.
SentAnswers ==
  {a \in AnAnswer : /\ a.request \in SentRequests
                    /\ a.server <= Ahead + now - boot
                    /\ a.server >= Ahead + a.request.at - boot}

\* What is under way, wherever it is, was sent, and no connection is lost while an answer
\* is tried again.
UnderWay ==
  /\ retrying # None => connected
  /\ asking \in SentRequests \cup {None}
  /\ retrying \in SentAnswers \cup {None}
  /\ chan \in Seq(SentRequests)
  /\ requests \in Seq(SentRequests)
  /\ answers \in Seq(SentAnswers)

\* The time was reset after the server had started, so that the offset is at most what
\* the server's clock showed then; once set by an answer it is no less than that by more
\* than the trip explains.
OffsetBounded ==
  connected =>
    /\ boot <= start_instant
    /\ server_time_offset <= Ahead + start_instant - boot
    /\ trip # None =>
         server_time_offset >= Ahead + start_instant - boot - (trip + trip \div 2)

IInv == TypeOK /\ UnderWay /\ OffsetBounded

--------------------------------------------------------------------------------
\* What happens to what is under way

LEMMA Appended ==
  ASSUME NEW S, NEW q \in Seq(S), NEW e \in S
  PROVE  Append(q, e) \in Seq(S)
BY AppendProperties

LEMMA Taken ==
  ASSUME NEW S, NEW q \in Seq(S), q # <<>>
  PROVE  Head(q) \in S /\ Tail(q) \in Seq(S)
BY HeadTailProperties

\* Requests stay requests as time goes on and start_instant moves on.
LEMMA RequestsStay ==
  ASSUME TypeOK, TypeOK', now <= now', start_instant <= start_instant'
  PROVE  SentRequests \subseteq SentRequests' /\ Seq(SentRequests) \subseteq Seq(SentRequests')
<1>1. SentRequests \subseteq SentRequests'
  <2> SUFFICES ASSUME NEW r \in SentRequests PROVE r \in SentRequests'
    OBVIOUS
  <2>1. r \in ARequest /\ r.at \in Int /\ r.client \in Int
    BY TimeSyncAssumption DEF SentRequests, ARequest, Times
  <2>2. r.at <= now /\ r.client >= r.at - start_instant
    BY DEF SentRequests
  <2>3. now \in Int /\ now' \in Int /\ start_instant \in Int /\ start_instant' \in Int
    BY TimeSyncAssumption DEF TypeOK, Times
  <2> QED BY <2>1, <2>2, <2>3 DEF SentRequests
<1> QED BY <1>1, SeqMonotonic

\* So do answers, while the server stays.
LEMMA AnswersStay ==
  ASSUME TypeOK, TypeOK', now <= now', start_instant <= start_instant', boot' = boot
  PROVE  SentAnswers \subseteq SentAnswers' /\ Seq(SentAnswers) \subseteq Seq(SentAnswers')
<1>1. SentAnswers \subseteq SentAnswers'
  <2> SUFFICES ASSUME NEW a \in SentAnswers PROVE a \in SentAnswers'
    OBVIOUS
  <2>1. a \in AnAnswer /\ a.request \in SentRequests /\ a.server \in Int
    BY DEF SentAnswers, AnAnswer
  <2>2. a.request \in SentRequests'
    BY <2>1, RequestsStay
  <2>3. a.server <= Ahead + now - boot /\ a.server >= Ahead + a.request.at - boot
    BY DEF SentAnswers
  <2>4. Ahead \in Int /\ now \in Int /\ now' \in Int /\ boot \in Int
    BY TimeSyncAssumption DEF TypeOK, Times
  <2>5. a.server <= Ahead + now' - boot'
    BY <2>1, <2>3, <2>4
  <2> QED BY <2>1, <2>2, <2>3, <2>5 DEF SentAnswers
<1> QED BY <1>1, SeqMonotonic

\* Whatever handle_new_timestamp makes of an answer keeps the offset within its bounds.
LEMMA SetsWithinBounds ==
  ASSUME IInv, connected, NEW a \in SentAnswers, Sets(a),
         start_instant' = start_instant, boot' = boot
  PROVE  /\ server_time_offset' \in Nat
         /\ trip' \in Times
         /\ OffsetBounded'
<1> DEFINE at     == a.request.at
           client == a.request.client
           rtt    == client_time - client
           half   == rtt \div 2
           t      == now - at
<1>1. /\ at \in Times /\ client \in Times /\ a.server \in Nat
      /\ at <= now /\ client >= at - start_instant
      /\ a.server <= Ahead + now - boot /\ a.server >= Ahead + at - boot
  BY DEF SentAnswers, SentRequests, AnAnswer, ARequest
<1>2. /\ now \in Times /\ start_instant \in 0 .. now /\ boot \in 0 .. now
      /\ Ahead \in Nat /\ MaxTime \in Nat
  BY TimeSyncAssumption DEF IInv, TypeOK
<1>3. at \in Int /\ client \in Int /\ now \in Int /\ start_instant \in Int /\ boot \in Int
  BY <1>1, <1>2 DEF Times
<1>4. trip' = t /\ t \in Times
  BY <1>1, <1>2 DEF Sets, Times
<1>5. /\ rtt \in Nat /\ rtt <= t
      /\ server_time_offset' = a.server - half - client_time
      /\ server_time_offset' \in Nat
  <2>1. client_time \in Int /\ client_time = now - start_instant /\ rtt \in Int
    BY <1>3 DEF client_time
  <2>2. /\ server_time_offset' = a.server - half - client_time
        /\ rtt >= 0 /\ server_time_offset' >= 0
    BY DEF Sets, Offsets
  <2>3. half \in Int
    BY <2>1
  <2>4. rtt <= t
    BY <1>1, <1>3, <2>1
  <2>5. a.server - half - client_time \in Int
    BY <2>1, <2>3, <1>1
  <2> QED BY <2>1, <2>2, <2>4, <2>5
<1>6. half \in Nat /\ t \div 2 \in Nat /\ half <= t \div 2
  <2>1. t \in Nat
    BY <1>4 DEF Times
  <2> HIDE DEF rtt, t
  <2> QED BY <1>5, <2>1
<1>7. server_time_offset' = a.server - half - now + start_instant
  <2> HIDE DEF half
  <2> QED BY <1>1, <1>3, <1>5, <1>6 DEF client_time
<1>8. boot <= start_instant
  BY DEF IInv, OffsetBounded
<1>9. server_time_offset' <= Ahead + start_instant - boot
  <2> HIDE DEF half
  <2> QED BY <1>1, <1>2, <1>3, <1>6, <1>7
<1>10. server_time_offset' >= Ahead + start_instant - boot - (t + t \div 2)
  <2> DEFINE ht == t \div 2
  <2>1. half <= ht /\ ht \in Nat /\ half \in Nat
    BY <1>6
  <2> HIDE DEF half, ht
  <2>2. server_time_offset' >= Ahead + start_instant - boot - (t + ht)
    BY <1>1, <1>2, <1>3, <1>7, <2>1
  <2> QED BY <2>2 DEF ht
<1> QED BY <1>4, <1>5, <1>8, <1>9, <1>10 DEF OffsetBounded

--------------------------------------------------------------------------------
\* The invariant

LEMMA InitEstablishes == Init => IInv
<1> SUFFICES ASSUME Init PROVE IInv
  OBVIOUS
<1>1. TypeOK
  <2>1. 0 \in Times /\ 0 \in 0 .. 0 /\ 0 \in Nat /\ 0 \in 0 .. MaxTicks /\ 0 \in 0 .. MaxBreaks
    BY TimeSyncAssumption DEF Times
  <2>2. <<>> \in Seq(ARequest) /\ <<>> \in Seq(AnAnswer)
    BY EmptySeq
  <2> QED BY <2>1, <2>2 DEF Init, TypeOK
<1>2. UnderWay
  BY EmptySeq DEF Init, UnderWay
<1> QED BY <1>1, <1>2 DEF Init, IInv, OffsetBounded

\* A request made now is one of those under way.
LEMMA RequestSent ==
  ASSUME TypeOK
  PROVE  Request \in ARequest /\ Request \in SentRequests
<1>1. now \in Times /\ start_instant \in 0 .. now /\ MaxTime \in Nat
  BY TimeSyncAssumption DEF TypeOK
<1>2. client_time \in Times /\ client_time >= now - start_instant /\ now <= now
  BY <1>1 DEF Times, client_time
<1> QED BY <1>1, <1>2 DEF Request, SentRequests, ARequest

LEMMA TickPreserves == ASSUME IInv, Tick PROVE IInv'
<1>1. TypeOK'
  <2>1. now' \in Times /\ boot' \in 0 .. now' /\ start_instant' \in 0 .. now'
    BY TimeSyncAssumption DEF IInv, TypeOK, Times, Tick, clockVars
  <2> QED BY <2>1 DEF IInv, TypeOK, Tick, clockVars, boundVars
<1>2. now <= now' /\ start_instant <= start_instant' /\ boot' = boot
  BY TimeSyncAssumption DEF IInv, TypeOK, Times, Tick, clockVars
<1>3. UnderWay'
  BY <1>1, <1>2, RequestsStay, AnswersStay DEF IInv, UnderWay, Tick
<1>4. OffsetBounded'
  BY DEF IInv, OffsetBounded, Tick, clockVars
<1> QED BY <1>1, <1>3, <1>4 DEF IInv

LEMMA OpenPreserves == ASSUME IInv, Open PROVE IInv'
<1>1. /\ now \in Times /\ boot \in 0 .. now /\ start_instant \in 0 .. now
      /\ Ahead \in Nat /\ MaxTime \in Nat
  BY TimeSyncAssumption DEF IInv, TypeOK
<1>2. start_instant' = now /\ server_time_offset' = 0 /\ trip' = None /\ now' = now /\ boot' = boot
  BY DEF Open, reset_time
<1> DEFINE r == [client |-> 0, at |-> now]
<1>3. r \in ARequest
  BY <1>1 DEF ARequest, Times
<1>4. TypeOK'
  <2>1. chan' \in Seq(ARequest)
    BY <1>3, Appended DEF IInv, TypeOK, Open
  <2>2. start_instant' \in 0 .. now'
    BY <1>1, <1>2 DEF Times
  <2> QED BY <1>1, <1>2, <2>1, <2>2 DEF IInv, TypeOK, Open, boundVars
<1>5. now <= now' /\ start_instant <= start_instant' /\ boot' = boot
  BY <1>1, <1>2 DEF Times
<1>6. r \in SentRequests'
  BY <1>1, <1>2, <1>3 DEF SentRequests, Times
<1>7. chan \in Seq(SentRequests')
  BY <1>4, <1>5, RequestsStay DEF IInv, UnderWay
<1>8. chan' \in Seq(SentRequests')
  BY <1>6, <1>7, Appended DEF Open
<1>9. UnderWay'
  BY <1>4, <1>5, <1>8, RequestsStay, AnswersStay DEF IInv, UnderWay, Open
<1>10. OffsetBounded'
  BY <1>1, <1>2 DEF OffsetBounded, Times
<1> QED BY <1>4, <1>9, <1>10 DEF IInv

LEMMA LosePreserves == ASSUME IInv, Lose PROVE IInv'
<1>1. /\ now' = now /\ start_instant' = start_instant /\ requests' = <<>> /\ answers' = <<>>
      /\ retrying = None /\ retrying' = None /\ asking' = asking /\ chan' = chan
      /\ connected' = FALSE
  BY DEF Lose, clockVars
<1>2. TypeOK'
  <2>1. boot' \in 0 .. now'
    BY <1>1, TimeSyncAssumption DEF IInv, TypeOK, Lose, Times
  <2>2. breaks' \in 0 .. MaxBreaks
    BY TimeSyncAssumption DEF IInv, TypeOK, Lose
  <2> QED BY <1>1, <2>1, <2>2, EmptySeq DEF IInv, TypeOK, Lose, clockVars
<1>3. SentRequests' = SentRequests
  BY <1>1 DEF SentRequests
<1>4. UnderWay'
  BY <1>1, <1>3, EmptySeq DEF IInv, UnderWay
<1> QED BY <1>1, <1>2, <1>4 DEF IInv, OffsetBounded

\* Nothing that an answer or the offset is measured by changes.
LEMMA ClocksStand ==
  ASSUME IInv, UNCHANGED <<now, boot, clockVars, connected>>
  PROVE  OffsetBounded' /\ SentRequests' = SentRequests /\ SentAnswers' = SentAnswers
BY DEF IInv, OffsetBounded, clockVars, SentRequests, SentAnswers

LEMMA AskPreserves == ASSUME IInv, Ask PROVE IInv'
<1>1. TypeOK'
  <2>1. ticks' \in 0 .. MaxTicks
    BY TimeSyncAssumption DEF IInv, TypeOK, Ask
  <2>2. asking' \in ARequest
    BY RequestSent DEF IInv, Ask
  <2> QED BY <2>1, <2>2 DEF IInv, TypeOK, Ask, clockVars
<1>2. OffsetBounded' /\ SentRequests' = SentRequests /\ SentAnswers' = SentAnswers
  BY ClocksStand DEF Ask
<1>3. UnderWay'
  BY <1>2, RequestSent DEF IInv, UnderWay, Ask
<1> QED BY <1>1, <1>2, <1>3 DEF IInv

LEMMA AskEndsPreserves == ASSUME IInv, AskEnds PROVE IInv'
<1>1. asking \in ARequest /\ asking \in SentRequests
  BY DEF IInv, TypeOK, UnderWay, AskEnds
<1>2. TypeOK'
  <2>1. chan' \in Seq(ARequest)
    BY <1>1, Appended DEF IInv, TypeOK, AskEnds
  <2> QED BY <2>1 DEF IInv, TypeOK, AskEnds, clockVars, boundVars
<1>3. OffsetBounded' /\ SentRequests' = SentRequests /\ SentAnswers' = SentAnswers
  BY ClocksStand DEF AskEnds
<1>4. UnderWay'
  <2>1. chan' \in Seq(SentRequests)
    BY <1>1, Appended DEF IInv, UnderWay, AskEnds
  <2> QED BY <1>3, <2>1 DEF IInv, UnderWay, AskEnds
<1> QED BY <1>2, <1>3, <1>4 DEF IInv

LEMMA SendPreserves == ASSUME IInv, Send PROVE IInv'
<1>1. TypeOK'
  <2>1. Head(chan) \in ARequest /\ Tail(chan) \in Seq(ARequest)
    BY Taken DEF IInv, TypeOK, Send
  <2>2. chan' \in Seq(ARequest) /\ requests' \in Seq(ARequest)
    BY <2>1, Appended DEF IInv, TypeOK, Send
  <2> QED BY <2>2 DEF IInv, TypeOK, Send, clockVars, boundVars
<1>2. OffsetBounded' /\ SentRequests' = SentRequests /\ SentAnswers' = SentAnswers
  BY ClocksStand DEF Send
<1>3. UnderWay'
  <2>1. Head(chan) \in SentRequests /\ Tail(chan) \in Seq(SentRequests)
    BY Taken DEF IInv, UnderWay, Send
  <2>2. chan' \in Seq(SentRequests) /\ requests' \in Seq(SentRequests)
    BY <2>1, Appended DEF IInv, UnderWay, Send
  <2> QED BY <1>2, <2>2 DEF IInv, UnderWay, Send
<1> QED BY <1>1, <1>2, <1>3 DEF IInv

LEMMA AnswerPreserves == ASSUME IInv, Answer PROVE IInv'
<1> DEFINE r == Head(requests)
           a == [request |-> r, server |-> server_clock]
<1>1. r \in ARequest /\ Tail(requests) \in Seq(ARequest)
  BY Taken DEF IInv, TypeOK, Answer
<1>2. r \in SentRequests /\ Tail(requests) \in Seq(SentRequests)
  BY Taken DEF IInv, UnderWay, Answer
<1>3. a \in AnAnswer /\ a \in SentAnswers
  <2>1. /\ now \in Nat /\ boot \in 0 .. now /\ Ahead \in Nat /\ r.at \in Nat /\ r.at <= now
        /\ server_clock = Ahead + now - boot
    BY <1>1, <1>2, TimeSyncAssumption DEF IInv, TypeOK, Times, ARequest, SentRequests, server_clock
  <2>2. server_clock \in Nat /\ server_clock >= Ahead + r.at - boot
        /\ server_clock <= Ahead + now - boot
    BY <2>1
  <2> QED BY <1>1, <1>2, <2>2 DEF AnAnswer, SentAnswers
<1>4. answers' = Append(answers, a) /\ requests' = Tail(requests)
  BY DEF Answer
<1> HIDE DEF a, r
<1>5. TypeOK'
  <2>1. answers' \in Seq(AnAnswer)
    BY <1>3, <1>4, Appended DEF IInv, TypeOK
  <2> QED BY <1>1, <1>4, <2>1 DEF IInv, TypeOK, Answer, clockVars, boundVars
<1>6. OffsetBounded' /\ SentRequests' = SentRequests /\ SentAnswers' = SentAnswers
  BY ClocksStand DEF Answer
<1>7. UnderWay'
  <2>1. answers' \in Seq(SentAnswers)
    BY <1>3, <1>4, Appended DEF IInv, UnderWay
  <2> QED BY <1>2, <1>4, <1>6, <2>1 DEF IInv, UnderWay, Answer
<1> QED BY <1>5, <1>6, <1>7 DEF IInv

LEMMA ReceivePreserves == ASSUME IInv, Receive PROVE IInv'
<1> DEFINE a == Head(answers)
<1>1. a \in AnAnswer /\ Tail(answers) \in Seq(AnAnswer)
  BY Taken DEF IInv, TypeOK, Receive
<1>2. a \in SentAnswers /\ Tail(answers) \in Seq(SentAnswers)
  BY Taken DEF IInv, UnderWay, Receive
<1>3. /\ connected /\ connected' = connected /\ now' = now /\ boot' = boot
      /\ answers' = Tail(answers)
  BY DEF Receive
<1>4. CASE Sets(a) /\ UNCHANGED <<start_instant, retrying>>
  <2>1. server_time_offset' \in Nat /\ trip' \in Times /\ OffsetBounded'
    BY <1>2, <1>3, <1>4, SetsWithinBounds
  <2>2. TypeOK'
    BY <1>1, <1>3, <1>4, <2>1 DEF IInv, TypeOK, Receive, boundVars
  <2>3. SentRequests' = SentRequests /\ SentAnswers' = SentAnswers
    BY <1>3, <1>4 DEF SentRequests, SentAnswers
  <2>4. UnderWay'
    BY <1>2, <1>3, <1>4, <2>3 DEF IInv, UnderWay, Receive
  <2> QED BY <2>1, <2>2, <2>4 DEF IInv
<1>5. CASE /\ start_instant' = now
           /\ trip' = None
           /\ retrying' = a
           /\ UNCHANGED server_time_offset
  <2>1. /\ now \in Times /\ boot \in 0 .. now /\ start_instant \in 0 .. now
        /\ Ahead \in Nat /\ MaxTime \in Nat /\ server_time_offset \in Nat
    BY TimeSyncAssumption DEF IInv, TypeOK
  <2>2. TypeOK'
    <3>1. start_instant' \in 0 .. now'
      BY <1>3, <1>5, <2>1 DEF Times
    <3> QED BY <1>1, <1>3, <1>5, <3>1 DEF IInv, TypeOK, Receive, boundVars
  <2>3. now <= now' /\ start_instant <= start_instant' /\ boot' = boot
    BY <1>3, <1>5, <2>1 DEF Times
  <2>4. UnderWay'
    <3>1. retrying' \in SentAnswers' /\ answers' \in Seq(SentAnswers')
      BY <1>2, <1>3, <1>5, <2>2, <2>3, AnswersStay DEF IInv
    <3> QED BY <2>2, <2>3, <3>1, RequestsStay DEF IInv, UnderWay, Receive
  <2>5. OffsetBounded'
    <3>1. server_time_offset <= Ahead + start_instant - boot
      BY <1>3 DEF IInv, OffsetBounded
    <3>2. server_time_offset <= Ahead + now - boot /\ boot <= now
      BY <2>1, <3>1 DEF Times
    <3> QED BY <1>3, <1>5, <3>2 DEF OffsetBounded
  <2> QED BY <2>2, <2>4, <2>5 DEF IInv
<1> QED BY <1>4, <1>5 DEF Receive

LEMMA RetryPreserves == ASSUME IInv, Retry PROVE IInv'
<1>1. /\ UNCHANGED <<now, boot, start_instant, connected, asking, requests, answers>>
      /\ retrying' = None /\ chan' = Append(chan, Request)
  BY DEF Retry, AsksAgain
<1>2. retrying \in SentAnswers /\ connected
  BY DEF IInv, UnderWay, Retry
<1>3. SentRequests' = SentRequests /\ SentAnswers' = SentAnswers
  BY <1>1 DEF SentRequests, SentAnswers
<1>4. chan' \in Seq(ARequest) /\ chan' \in Seq(SentRequests)
  BY <1>1, RequestSent, Appended DEF IInv, TypeOK, UnderWay
<1>5. UnderWay'
  BY <1>1, <1>3, <1>4 DEF IInv, UnderWay
<1>6. server_time_offset' \in Nat /\ trip' \in Times \cup {None} /\ OffsetBounded'
  <2>1. CASE Sets(retrying)
    BY <1>1, <1>2, <2>1, SetsWithinBounds
  <2>2. CASE UNCHANGED <<server_time_offset, trip>>
    <3>1. server_time_offset \in Nat /\ trip \in Times \cup {None} /\ OffsetBounded
      BY DEF IInv, TypeOK
    <3> QED BY <1>1, <2>2, <3>1 DEF OffsetBounded
  <2> QED BY <2>1, <2>2 DEF Retry
<1>7. TypeOK'
  BY <1>1, <1>4, <1>6 DEF IInv, TypeOK, Retry, boundVars
<1> QED BY <1>5, <1>6, <1>7 DEF IInv

LEMMA StepPreserves == IInv /\ [Next]_vars => IInv'
<1> SUFFICES ASSUME IInv, [Next]_vars PROVE IInv'
  OBVIOUS
<1>1. CASE UNCHANGED vars
  <2>1. UNCHANGED <<now, boot, clockVars, connected, asking, retrying, chan, requests, answers,
                    boundVars>>
    BY <1>1 DEF vars
  <2>2. OffsetBounded' /\ SentRequests' = SentRequests /\ SentAnswers' = SentAnswers
    BY <2>1, ClocksStand
  <2>3. UnderWay'
    BY <2>1, <2>2 DEF IInv, UnderWay
  <2>4. TypeOK'
    BY <2>1 DEF IInv, TypeOK, clockVars, boundVars
  <2> QED BY <2>2, <2>3, <2>4 DEF IInv
<1>2. CASE Next
  BY <1>2, TickPreserves, OpenPreserves, LosePreserves, AskPreserves, AskEndsPreserves,
     SendPreserves, AnswerPreserves, ReceivePreserves, RetryPreserves DEF Next
<1> QED BY <1>1, <1>2

\* The types, what is under way and the bounds of the offset hold together in every
\* behaviour of the clock.
THEOREM ClockInvariant == Spec => []IInv
BY InitEstablishes, StepPreserves, PTL DEF Spec

\* Every time, request and answer is what its type says; the offset is never negative.
THEOREM ClockTyped == Spec => []TypeOK
<1>1. IInv => TypeOK
  BY DEF IInv
<1> QED BY <1>1, ClockInvariant, PTL

\* A connected client never takes the server's time to be later than it is
\* (server_time, client/inner.rs:75).
THEOREM ClientNeverAhead == Spec => []NeverAhead
<1>1. IInv => NeverAhead
  <2> SUFFICES ASSUME IInv, connected PROVE server_time <= server_clock
    BY DEF NeverAhead
  <2>1. /\ now \in Nat /\ boot \in Int /\ start_instant \in Int
        /\ server_time_offset \in Nat /\ Ahead \in Nat
    BY TimeSyncAssumption DEF IInv, TypeOK, Times
  <2>2. server_time_offset <= Ahead + start_instant - boot
    BY DEF IInv, OffsetBounded
  <2> QED BY <2>1, <2>2 DEF server_time, client_time, server_clock
<1> QED BY <1>1, ClockInvariant, PTL

\* An answer leaves the client behind by one and a half times its trip at most
\* (handle_new_timestamp, client/inner.rs:101).
THEOREM ClientLagBounded == Spec => []LagBounded
<1>1. IInv => LagBounded
  <2> SUFFICES ASSUME IInv, connected, trip # None
               PROVE  server_clock - server_time <= trip + trip \div 2
    BY DEF LagBounded
  <2>1. /\ now \in Nat /\ boot \in Int /\ start_instant \in Int
        /\ server_time_offset \in Nat /\ Ahead \in Nat /\ trip \in Nat
    BY TimeSyncAssumption DEF IInv, TypeOK, Times
  <2>2. server_time_offset >= Ahead + start_instant - boot - (trip + trip \div 2)
    BY DEF IInv, OffsetBounded
  <2>3. trip \div 2 \in Nat
    BY <2>1
  <2>4. server_clock - server_time = Ahead + start_instant - boot - server_time_offset
    BY <2>1 DEF server_time, client_time, server_clock
  <2> QED BY <2>1, <2>2, <2>3, <2>4
<1> QED BY <1>1, ClockInvariant, PTL
================================================================================
