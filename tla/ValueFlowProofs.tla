---------------------------- MODULE ValueFlowProofs ----------------------------
(***************************************************************************)
(* Proofs about ValueFlow, for any number of writers, subscriptions and    *)
(* values: the topic's value is the newest, and a subscription follows the  *)
(* values as they are set and catches up with the newest.                 *)
(***************************************************************************)
EXTENDS ValueFlow, SequenceTheorems, TLAPS

\* What a subscription has been sent and is to be sent
Sequel(s) == given[s] \o sub_values[s]

\* A value is on its way to topic_value_map in one writer at most.
OneWriter == \A w, x \in Writers : between[w] = between[x] /\ w # x => between[w] = 0

\* Nothing waits for a subscription that has not been made.
NothingBefore == \A s \in SubIdx : subs[s] = "none" => sub_values[s] = <<>>

\* The last that a subscription has had or is to have is the value added last, if one was
\* added since it was made, and else what it began with.
EndsWithLast(s) ==
  IF Len(timestamps) > first[s]
  THEN Sequel(s) # <<>> /\ Sequel(s)[Len(Sequel(s))] = Len(timestamps)
  ELSE missed[s] = {} =>
         /\ \A w \in Writers : between[w] = 0
         /\ Sequel(s) = CurrentValue

AllEndWithLast ==
  \A s \in SubIdx : /\ first[s] <= Len(timestamps)
                    /\ s \in Subscriptions => EndsWithLast(s)

IInv == TypeOK /\ OneWriter /\ NothingBefore /\ StoredIsNewest /\ AllEndWithLast

--------------------------------------------------------------------------------
\* Sequences

LEMMA LastOfConcat ==
  ASSUME NEW S, NEW p \in Seq(S), NEW r \in Seq(S), Len(r) > 0
  PROVE  p \o r # <<>> /\ (p \o r)[Len(p \o r)] = r[Len(r)]
<1>1. Len(p) \in Nat /\ Len(r) \in Nat
  BY LenProperties
<1>2. /\ Len(p \o r) = Len(p) + Len(r)
      /\ \A i \in 1 .. Len(p) + Len(r) :
           (p \o r)[i] = IF i <= Len(p) THEN p[i] ELSE r[i - Len(p)]
  BY ConcatProperties
<1>3. Len(<<>>) = 0
  OBVIOUS
<1> QED BY <1>1, <1>2, <1>3

\* What send_out takes goes from the one sequence to the other.
LEMMA Moved ==
  ASSUME NEW S, NEW p \in Seq(S), NEW q \in Seq(S)
  PROVE  p \o q \in Seq(S) /\ (p \o q) \o <<>> = p \o q
BY ConcatProperties, ConcatEmptySeq

LEMMA PhaseNames ==
  {Phases[k] : k \in DOMAIN Phases} = {"early", "before", "after", "late"}
<1>1. DOMAIN Phases = {1, 2, 3, 4}
  BY DEF Phases
<1>2. Phases[1] = "early" /\ Phases[2] = "before" /\ Phases[3] = "after" /\ Phases[4] = "late"
  BY DEF Phases
<1> QED BY <1>1, <1>2

LEMMA InitEstablishes == Init => IInv
<1> SUFFICES ASSUME Init PROVE IInv
  OBVIOUS
<1>1. TypeOK
  <2>1. /\ <<>> \in Seq(1 .. MaxTime) /\ <<>> \in Seq(Values) /\ Len(<<>>) = 0
    BY EmptySeq
  <2>2. 0 \in 0 .. 0 /\ 0 \in 0 .. MaxValues /\ 0 <= MaxValues
    BY ValueFlowAssumption
  <2> QED BY <2>1, <2>2, PhaseNames DEF Init, TypeOK
<1>2. OneWriter /\ NothingBefore
  BY DEF Init, OneWriter, NothingBefore
<1>3. StoredIsNewest
  <2>1. Len(timestamps) = 0
    BY DEF Init
  <2> QED BY <2>1 DEF Init, StoredIsNewest, Settled
<1>4. AllEndWithLast
  BY DEF Init, AllEndWithLast, Subscriptions
<1> QED BY <1>1, <1>2, <1>3, <1>4 DEF IInv

--------------------------------------------------------------------------------
\* Setting a value

LEMMA AddPreserves ==
  ASSUME IInv, NEW w \in Writers, NEW t \in 1 .. MaxTime, Add(w, t)
  PROVE  IInv'
<1> DEFINE n == Len(timestamps)
           v == n + 1
<1>1. /\ timestamps \in Seq(1 .. MaxTime) /\ n \in Nat /\ n <= MaxValues /\ MaxValues \in Nat
      /\ v \in Values /\ between[w] = 0 /\ between \in [Writers -> 0 .. n]
      /\ stored \in 0 .. n
  BY ValueFlowAssumption, LenProperties DEF IInv, TypeOK, Add, Values
<1>2. /\ timestamps' = Append(timestamps, t) /\ timestamps' \in Seq(1 .. MaxTime)
      /\ Len(timestamps') = v
      /\ \A u \in 1 .. n : timestamps'[u] = timestamps[u]
  BY <1>1, AppendProperties DEF Add
<1>3. /\ between' = [between EXCEPT ![w] = v]
      /\ UNCHANGED <<stored, subs, options, given, first, missed, phase, pump, offset>>
      /\ sub_values' =
           [s \in SubIdx |-> IF s \in Subscriptions THEN add_value(s, v) ELSE sub_values[s]]
  BY DEF Add, subVars
<1> HIDE DEF v
<1>4. ASSUME NEW s \in SubIdx
      PROVE  /\ given[s] \in Seq(Values) /\ sub_values[s] \in Seq(Values)
             /\ add_value(s, v) \in Seq(Values)
             /\ options[s].all \/ Len(add_value(s, v)) <= 1
             /\ given[s] \o add_value(s, v) # <<>>
             /\ (given[s] \o add_value(s, v))[Len(given[s] \o add_value(s, v))] = v
  <2>1. given[s] \in Seq(Values) /\ sub_values[s] \in Seq(Values)
    BY DEF IInv, TypeOK
  <2>2. /\ add_value(s, v) \in Seq(Values)
        /\ Len(add_value(s, v)) > 0 /\ add_value(s, v)[Len(add_value(s, v))] = v
        /\ options[s].all \/ Len(add_value(s, v)) <= 1
    <3>1. CASE options[s].all
      <4>1. add_value(s, v) = Append(sub_values[s], v)
        BY <3>1 DEF add_value
      <4>2. /\ add_value(s, v) \in Seq(Values)
            /\ Len(add_value(s, v)) > 0 /\ add_value(s, v)[Len(add_value(s, v))] = v
        BY <1>1, <2>1, <4>1, AppendProperties, LenProperties
      <4> QED BY <3>1, <4>2
    <3>2. CASE ~options[s].all
      <4>1. add_value(s, v) = <<v>>
        BY <3>2 DEF add_value
      <4>2. /\ add_value(s, v) \in Seq(Values)
            /\ Len(add_value(s, v)) = 1 /\ add_value(s, v)[1] = v
        BY <1>1, <4>1
      <4> QED BY <4>2
    <3> QED BY <3>1, <3>2
  <2> QED BY <2>1, <2>2, LastOfConcat
<1> HIDE DEF n
<1>5. TypeOK'
  <2>1. between' \in [Writers -> 0 .. Len(timestamps')] /\ stored' \in 0 .. Len(timestamps')
    BY <1>1, <1>2, <1>3 DEF v
  <2>2. Len(timestamps') <= MaxValues
    BY <1>1, <1>2 DEF v, Values
  <2>3. sub_values' \in [SubIdx -> Seq(Values)]
    BY <1>3, <1>4
  <2>4. \A s \in SubIdx : options'[s].all \/ Len(sub_values'[s]) <= 1
    <3> SUFFICES ASSUME NEW s \in SubIdx
                 PROVE  options'[s].all \/ Len(sub_values'[s]) <= 1
      OBVIOUS
    <3>1. options[s].all \/ Len(sub_values[s]) <= 1
      BY DEF IInv, TypeOK
    <3>2. CASE s \in Subscriptions
      BY <1>3, <1>4, <3>2
    <3>3. CASE s \notin Subscriptions
      BY <1>3, <1>4, <3>1, <3>3
    <3> QED BY <3>2, <3>3
  <2> QED BY <1>2, <1>3, <2>1, <2>2, <2>3, <2>4 DEF IInv, TypeOK
<1>6. OneWriter'
  BY <1>1, <1>3 DEF IInv, OneWriter, v
<1>7. NothingBefore'
  BY <1>3 DEF IInv, NothingBefore, Subscriptions
<1>8. Settled' = Settled
  <2>1. 1 .. v = (1 .. n) \cup {v}
    BY <1>1 DEF v
  <2>2. {between'[x] : x \in Writers} \ {0} = ({between[x] : x \in Writers} \ {0}) \cup {v}
    BY <1>1, <1>3 DEF v
  <2>3. v \notin 1 .. n /\ 0 \notin 1 .. n /\ 0 # v
    BY <1>1 DEF v
  <2> HIDE DEF v
  <2> QED BY <1>2, <2>1, <2>2, <2>3 DEF Settled, n
<1>9. StoredIsNewest'
  <2>1. \A u \in Settled : u \in 1 .. n
    BY DEF Settled, n
  <2> QED BY <1>2, <1>3, <1>8, <2>1 DEF IInv, StoredIsNewest
<1>10. AllEndWithLast'
  <2> SUFFICES ASSUME NEW s \in SubIdx
               PROVE  /\ first'[s] <= Len(timestamps')
                      /\ s \in Subscriptions' => EndsWithLast(s)'
    BY DEF AllEndWithLast
  <2>1. first[s] <= n /\ first[s] \in Int
    BY <1>1 DEF IInv, AllEndWithLast, TypeOK, n
  <2>2. first'[s] < Len(timestamps')
    BY <1>1, <1>2, <1>3, <2>1 DEF v
  <2>3. ASSUME s \in Subscriptions' PROVE EndsWithLast(s)'
    <3>1. s \in Subscriptions
      BY <1>3, <2>3 DEF Subscriptions
    <3>2. sub_values'[s] = add_value(s, v) /\ given'[s] = given[s]
      BY <1>3, <3>1
    <3> QED BY <1>2, <1>4, <2>2, <3>2 DEF EndsWithLast, Sequel
  <2> QED BY <1>1, <1>2, <2>2, <2>3, <2>1, <1>3 DEF v
<1> QED BY <1>5, <1>6, <1>7, <1>9, <1>10 DEF IInv

LEMMA StorePreserves ==
  ASSUME IInv, NEW w \in Writers, Store(w)
  PROVE  IInv'
<1> DEFINE n == Len(timestamps)
           v == between[w]
<1>1. /\ n \in Nat /\ v \in 1 .. n /\ between \in [Writers -> 0 .. n] /\ stored \in 0 .. n
      /\ \A u \in 1 .. n : timestamps[u] \in Nat
  <2>1. /\ timestamps \in Seq(1 .. MaxTime) /\ between \in [Writers -> 0 .. n]
        /\ stored \in 0 .. n /\ v # 0
    BY DEF IInv, TypeOK, Store
  <2>2. n \in Nat /\ \A u \in 1 .. n : timestamps[u] \in 1 .. MaxTime
    BY <2>1, ElementOfSeq, LenProperties
  <2> QED BY <2>1, <2>2, ValueFlowAssumption
<1>2. /\ stored' = IF Replaces(v) THEN v ELSE stored
      /\ between' = [between EXCEPT ![w] = 0]
      /\ UNCHANGED <<timestamps, subs, options, given, first, missed, sub_values, phase, pump,
                     offset>>
  BY DEF Store, subVars
<1> HIDE DEF v, n
<1>3. TypeOK'
  <2>1. between' \in [Writers -> 0 .. n] /\ stored' \in 0 .. n
    BY <1>1, <1>2
  <2> QED BY <1>2, <2>1 DEF IInv, TypeOK, n
<1>4. OneWriter'
  BY <1>1, <1>2 DEF IInv, OneWriter
<1>5. NothingBefore'
  BY <1>2 DEF IInv, NothingBefore
<1>6. Settled' = Settled \cup {v}
  <2>1. \A x \in Writers : x # w => between[x] # v
    BY <1>1 DEF IInv, OneWriter, v
  <2>2. {between'[x] : x \in Writers} \ {0} = ({between[x] : x \in Writers} \ {0}) \ {v}
    <3>1. \A x \in Writers : between'[x] = IF x = w THEN 0 ELSE between[x]
      BY <1>1, <1>2
    <3> QED BY <1>1, <2>1, <3>1 DEF v
  <2>3. 0 \notin 1 .. n
    OBVIOUS
  <2> QED BY <1>1, <1>2, <2>2, <2>3 DEF Settled, n
<1>7. StoredIsNewest'
  <2>1. \A u \in Settled : u \in 1 .. n
    BY DEF Settled, n
  <2>2. CASE stored = 0
    BY <1>1, <1>2, <1>6, <2>2 DEF IInv, StoredIsNewest, Replaces
  <2>3. CASE stored # 0 /\ timestamps[stored] < timestamps[v]
    BY <1>1, <1>2, <1>6, <2>1, <2>3 DEF IInv, StoredIsNewest, Replaces
  <2>4. CASE stored # 0 /\ ~(timestamps[stored] < timestamps[v])
    BY <1>1, <1>2, <1>6, <2>1, <2>4 DEF IInv, StoredIsNewest, Replaces
  <2> QED BY <2>2, <2>3, <2>4
<1>8. AllEndWithLast'
  <2> SUFFICES ASSUME NEW s \in SubIdx
               PROVE  /\ first'[s] <= Len(timestamps')
                      /\ s \in Subscriptions' => EndsWithLast(s)'
    BY DEF AllEndWithLast
  <2>1. first'[s] <= Len(timestamps')
    BY <1>2 DEF IInv, AllEndWithLast
  <2>2. ASSUME s \in Subscriptions' PROVE EndsWithLast(s)'
    <3>1. EndsWithLast(s)
      BY <1>2, <2>2 DEF IInv, AllEndWithLast, Subscriptions
    <3>2. CASE Len(timestamps) > first[s]
      BY <1>2, <3>1, <3>2 DEF EndsWithLast, Sequel
    <3>3. CASE ~(Len(timestamps) > first[s])
      <4>1. missed[s] # {}
        BY <1>1, <3>1, <3>3 DEF EndsWithLast, v
      <4> QED BY <1>2, <3>3, <4>1 DEF EndsWithLast
    <3> QED BY <3>2, <3>3
  <2> QED BY <2>1, <2>2
<1> QED BY <1>3, <1>4, <1>5, <1>7, <1>8 DEF IInv

--------------------------------------------------------------------------------
\* Subscriptions

LEMMA SubscribePreserves ==
  ASSUME IInv, NEW s \in SubIdx, NEW o \in Options, Subscribe(s, o)
  PROVE  IInv'
<1>1. /\ subs[s] = "none"
      /\ subs' = [subs EXCEPT ![s] = "on"]
      /\ options' = [options EXCEPT ![s] = o]
      /\ phase' = [phase EXCEPT ![s] = Sent(o)]
      /\ given' = [given EXCEPT ![s] = CurrentValue]
      /\ first' = [first EXCEPT ![s] = Len(timestamps)]
      /\ missed' = [missed EXCEPT ![s] = {between[w] : w \in Writers} \ {0}]
      /\ UNCHANGED <<timestamps, between, stored, sub_values, pump, offset>>
  BY DEF Subscribe
<1>2. sub_values[s] = <<>>
  BY <1>1 DEF IInv, NothingBefore
<1>3. Len(timestamps) \in Nat /\ Len(timestamps) <= MaxValues /\ MaxValues \in Nat
  BY ValueFlowAssumption, LenProperties DEF IInv, TypeOK
<1>4. CurrentValue \in Seq(Values)
  <2>1. stored \in 0 .. Len(timestamps)
    BY DEF IInv, TypeOK
  <2>2. stored # 0 => stored \in Values
    BY <1>3, <2>1 DEF Values
  <2> QED BY <2>2, EmptySeq DEF CurrentValue
<1>5. TypeOK'
  <2>1. \A x \in SubIdx : options'[x].all \/ Len(sub_values'[x]) <= 1
    <3> SUFFICES ASSUME NEW x \in SubIdx
                 PROVE  options'[x].all \/ Len(sub_values'[x]) <= 1
      OBVIOUS
    <3>1. Len(<<>>) <= 1
      OBVIOUS
    <3>2. options[x].all \/ Len(sub_values[x]) <= 1
      BY DEF IInv, TypeOK
    <3>3. CASE x = s
      <4>1. Len(sub_values'[x]) <= 1
        BY <1>1, <1>2, <3>1, <3>3
      <4> QED BY <4>1
    <3>4. CASE x # s
      <4>1. options'[x] = options[x]
        BY <1>1, <3>4 DEF IInv, TypeOK
      <4> QED BY <1>1, <3>2, <4>1
    <3> QED BY <3>3, <3>4
  <2>2. phase' \in [SubIdx -> {Phases[k] : k \in DOMAIN Phases}]
    BY <1>1, PhaseNames DEF IInv, TypeOK, Sent
  <2>3. missed' \in [SubIdx -> SUBSET Values]
    BY <1>1, <1>3 DEF IInv, TypeOK, Values
  <2>4. first' \in [SubIdx -> 0 .. MaxValues]
    BY <1>1, <1>3 DEF IInv, TypeOK
  <2>5. given' \in [SubIdx -> Seq(Values)]
    BY <1>1, <1>4 DEF IInv, TypeOK
  <2> QED BY <1>1, <2>1, <2>2, <2>3, <2>4, <2>5 DEF IInv, TypeOK
<1>6. OneWriter' /\ StoredIsNewest'
  BY <1>1 DEF IInv, OneWriter, StoredIsNewest, Settled
<1>7. NothingBefore'
  BY <1>1, <1>2 DEF IInv, NothingBefore, TypeOK
<1>8. AllEndWithLast'
  <2> SUFFICES ASSUME NEW x \in SubIdx
               PROVE  /\ first'[x] <= Len(timestamps')
                      /\ x \in Subscriptions' => EndsWithLast(x)'
    BY DEF AllEndWithLast
  <2>1. CASE x = s
    <3>1. first'[x] = Len(timestamps) /\ given'[x] = CurrentValue /\ CurrentValue' = CurrentValue
      BY <1>1, <2>1 DEF IInv, TypeOK, CurrentValue
    <3>2. missed'[x] = {between[w] : w \in Writers} \ {0}
      BY <1>1, <2>1 DEF IInv, TypeOK
    <3>3. Sequel(x)' = CurrentValue
      BY <1>1, <1>2, <1>4, <2>1, <3>1, ConcatEmptySeq DEF Sequel
    <3>4. missed'[x] = {} => \A w \in Writers : between'[w] = 0
      BY <1>1, <3>2
    <3>5. ~(Len(timestamps') > first'[x]) /\ first'[x] <= Len(timestamps')
      BY <1>1, <1>3, <3>1
    <3>6. EndsWithLast(x)'
      BY <1>1, <3>1, <3>3, <3>4, <3>5 DEF EndsWithLast
    <3> QED BY <3>5, <3>6
  <2>2. CASE x # s
    <3>1. /\ first'[x] = first[x] /\ given'[x] = given[x] /\ missed'[x] = missed[x]
          /\ subs'[x] = subs[x]
      BY <1>1, <2>2 DEF IInv, TypeOK
    <3>2. /\ first[x] <= Len(timestamps)
          /\ x \in Subscriptions => EndsWithLast(x)
      BY DEF IInv, AllEndWithLast
    <3> QED BY <1>1, <3>1, <3>2 DEF EndsWithLast, Sequel, Subscriptions, CurrentValue
  <2> QED BY <2>1, <2>2
<1> QED BY <1>5, <1>6, <1>7, <1>8 DEF IInv

LEMMA UnsubscribePreserves ==
  ASSUME IInv, NEW s \in SubIdx, Unsubscribe(s)
  PROVE  IInv'
<1>1. /\ subs' = [subs EXCEPT ![s] = "off"]
      /\ sub_values' = [sub_values EXCEPT ![s] = <<>>]
      /\ UNCHANGED <<timestamps, between, stored, options, given, first, missed, phase, pump,
                     offset>>
  BY DEF Unsubscribe
<1>2. TypeOK'
  <2>1. \A x \in SubIdx : options'[x].all \/ Len(sub_values'[x]) <= 1
    <3> SUFFICES ASSUME NEW x \in SubIdx
                 PROVE  options'[x].all \/ Len(sub_values'[x]) <= 1
      OBVIOUS
    <3>1. options[x].all \/ Len(sub_values[x]) <= 1
      BY DEF IInv, TypeOK
    <3>2. sub_values'[x] = <<>> \/ sub_values'[x] = sub_values[x]
      BY <1>1 DEF IInv, TypeOK
    <3>3. Len(<<>>) <= 1
      OBVIOUS
    <3> QED BY <1>1, <3>1, <3>2, <3>3
  <2>2. subs' \in [SubIdx -> {"none", "on", "left", "off"}]
    BY <1>1 DEF IInv, TypeOK
  <2>3. sub_values' \in [SubIdx -> Seq(Values)]
    BY <1>1, EmptySeq DEF IInv, TypeOK
  <2> QED BY <1>1, <2>1, <2>2, <2>3 DEF IInv, TypeOK
<1>3. OneWriter' /\ StoredIsNewest'
  BY <1>1 DEF IInv, OneWriter, StoredIsNewest, Settled
<1>4. NothingBefore'
  BY <1>1 DEF IInv, NothingBefore, TypeOK
<1>5. AllEndWithLast'
  <2> SUFFICES ASSUME NEW x \in SubIdx
               PROVE  /\ first'[x] <= Len(timestamps')
                      /\ x \in Subscriptions' => EndsWithLast(x)'
    BY DEF AllEndWithLast
  <2>1. first'[x] <= Len(timestamps')
    BY <1>1 DEF IInv, AllEndWithLast
  <2>2. ASSUME x \in Subscriptions' PROVE EndsWithLast(x)'
    <3>1. x # s
      BY <1>1, <2>2 DEF Subscriptions, IInv, TypeOK
    <3>2. x \in Subscriptions /\ sub_values'[x] = sub_values[x]
      BY <1>1, <2>2, <3>1 DEF Subscriptions
    <3>3. EndsWithLast(x)
      BY <3>2 DEF IInv, AllEndWithLast
    <3> QED BY <1>1, <3>2, <3>3 DEF EndsWithLast, Sequel, CurrentValue
  <2> QED BY <2>1, <2>2
<1> QED BY <1>2, <1>3, <1>4, <1>5 DEF IInv

\* Steps that leave the values and the subscriptions as they are
LEMMA OthersPreserve ==
  ASSUME IInv,
         UNCHANGED <<timestamps, between, stored, options, given, first, missed, sub_values>>,
         Subscriptions' = Subscriptions,
         \A s \in SubIdx : subs'[s] = "none" => subs[s] = "none",
         subs' \in [SubIdx -> {"none", "on", "left", "off"}],
         phase' \in [SubIdx -> {Phases[k] : k \in DOMAIN Phases}],
         pump' \in BOOLEAN, offset' = offset
  PROVE  IInv'
<1>1. TypeOK'
  BY DEF IInv, TypeOK
<1>2. OneWriter' /\ StoredIsNewest' /\ NothingBefore'
  BY DEF IInv, OneWriter, StoredIsNewest, Settled, NothingBefore
<1>3. AllEndWithLast'
  BY DEF IInv, AllEndWithLast, EndsWithLast, Sequel, CurrentValue
<1> QED BY <1>1, <1>2, <1>3 DEF IInv

LEMMA DisconnectPreserves ==
  ASSUME IInv, NEW s \in SubIdx, Disconnect(s)
  PROVE  IInv'
<1>1. /\ subs[s] = "on" /\ subs' = [subs EXCEPT ![s] = "left"]
      /\ UNCHANGED <<timestamps, between, stored, options, given, first, missed, sub_values,
                     phase, pump, offset>>
  BY DEF Disconnect
<1>2. subs \in [SubIdx -> {"none", "on", "left", "off"}]
  BY DEF IInv, TypeOK
<1>3. /\ Subscriptions' = Subscriptions
      /\ \A x \in SubIdx : subs'[x] = "none" => subs[x] = "none"
      /\ subs' \in [SubIdx -> {"none", "on", "left", "off"}]
  BY <1>1, <1>2 DEF Subscriptions
<1>4. phase' \in [SubIdx -> {Phases[k] : k \in DOMAIN Phases}] /\ pump' \in BOOLEAN
  BY <1>1 DEF IInv, TypeOK
<1> QED BY <1>1, <1>3, <1>4, OthersPreserve

LEMMA TimePassesPreserves ==
  ASSUME IInv, NEW s \in SubIdx, TimePasses(s)
  PROVE  IInv'
<1>1. /\ UNCHANGED <<timestamps, between, stored, subs, options, given, first, missed,
                     sub_values, pump, offset>>
      /\ \E l \in DOMAIN Phases : phase' = [phase EXCEPT ![s] = Phases[l]]
  BY DEF TimePasses, subVars
<1>2. phase' \in [SubIdx -> {Phases[k] : k \in DOMAIN Phases}] /\ pump' \in BOOLEAN
  BY <1>1 DEF IInv, TypeOK
<1>3. Subscriptions' = Subscriptions /\ subs' \in [SubIdx -> {"none", "on", "left", "off"}]
  BY <1>1 DEF IInv, TypeOK, Subscriptions
<1> QED BY <1>1, <1>2, <1>3, OthersPreserve

LEMMA EmptyPassPreserves ==
  ASSUME IInv, EmptyPass
  PROVE  IInv'
<1>1. /\ UNCHANGED <<timestamps, between, stored, subs, options, given, first, missed,
                     sub_values, phase, offset>>
      /\ pump' = FALSE
  BY DEF EmptyPass, subVars
<1>2. /\ phase' \in [SubIdx -> {Phases[k] : k \in DOMAIN Phases}] /\ pump' \in BOOLEAN
      /\ Subscriptions' = Subscriptions /\ subs' \in [SubIdx -> {"none", "on", "left", "off"}]
  BY <1>1 DEF IInv, TypeOK, Subscriptions
<1> QED BY <1>1, <1>2, OthersPreserve

\* What a pass takes of sub_values it adds to what has been sent.
LEMMA PassPreserves ==
  ASSUME IInv, Pass
  PROVE  IInv'
<1> DEFINE Regular == {s \in Subscriptions : ~options[s].topics_only}
           Skips   == {s \in Regular : Skipped(s)}
           Takes   == {s \in Regular \ Skips : subs[s] = "on"}
<1>1. /\ phase' = [s \in SubIdx |->
                     IF s \in Regular \ Skips THEN Sent(options[s]) ELSE phase[s]]
      /\ given' = [s \in SubIdx |->
                     IF s \in Takes THEN given[s] \o sub_values[s] ELSE given[s]]
      /\ sub_values' = [s \in SubIdx |->
                          IF s \in Takes THEN take_values(s) ELSE sub_values[s]]
      /\ IF Skips = {} THEN offset' = offset
         ELSE \E s \in Skips : offset' = IF phase[s] = "after" THEN "negative" ELSE "positive"
      /\ UNCHANGED <<timestamps, between, stored, subs, options, first, missed, pump>>
  BY DEF Pass
<1> HIDE DEF Takes, Skips, Regular
<1>2. ASSUME NEW s \in SubIdx
      PROVE  /\ given'[s] \in Seq(Values) /\ sub_values'[s] \in Seq(Values)
             /\ Sequel(s)' = Sequel(s)
             /\ sub_values'[s] = <<>> \/ sub_values'[s] = sub_values[s]
  <2>1. given[s] \in Seq(Values) /\ sub_values[s] \in Seq(Values)
    BY DEF IInv, TypeOK
  <2>2. CASE s \in Takes
    <3>1. given'[s] = given[s] \o sub_values[s] /\ sub_values'[s] = <<>>
      BY <1>1, <2>2 DEF take_values
    <3> QED BY <2>1, <3>1, Moved, EmptySeq DEF Sequel
  <2>3. CASE s \notin Takes
    BY <1>1, <2>1, <2>3 DEF Sequel
  <2> QED BY <2>2, <2>3
<1>3. TypeOK'
  <2>1. phase' \in [SubIdx -> {Phases[k] : k \in DOMAIN Phases}]
    BY <1>1, PhaseNames DEF IInv, TypeOK, Sent
  <2>2. given' \in [SubIdx -> Seq(Values)] /\ sub_values' \in [SubIdx -> Seq(Values)]
    <3>1. given' = [s \in SubIdx |-> given'[s]] /\ sub_values' = [s \in SubIdx |-> sub_values'[s]]
      BY <1>1
    <3> QED BY <1>2, <3>1
  <2>3. offset' \in {"tenth", "positive", "negative"}
    BY <1>1 DEF IInv, TypeOK
  <2>4. \A s \in SubIdx : options'[s].all \/ Len(sub_values'[s]) <= 1
    <3> SUFFICES ASSUME NEW s \in SubIdx
                 PROVE  options'[s].all \/ Len(sub_values'[s]) <= 1
      OBVIOUS
    <3>1. options[s].all \/ Len(sub_values[s]) <= 1
      BY DEF IInv, TypeOK
    <3>2. Len(<<>>) <= 1
      OBVIOUS
    <3> QED BY <1>1, <1>2, <3>1, <3>2
  <2> QED BY <1>1, <2>1, <2>2, <2>3, <2>4 DEF IInv, TypeOK
<1>4. OneWriter' /\ StoredIsNewest'
  BY <1>1 DEF IInv, OneWriter, StoredIsNewest, Settled
<1>5. NothingBefore'
  BY <1>1, <1>2 DEF IInv, NothingBefore
<1>6. AllEndWithLast'
  <2> SUFFICES ASSUME NEW s \in SubIdx
               PROVE  /\ first'[s] <= Len(timestamps')
                      /\ s \in Subscriptions' => EndsWithLast(s)'
    BY DEF AllEndWithLast
  <2>1. /\ first[s] <= Len(timestamps)
        /\ s \in Subscriptions => EndsWithLast(s)
    BY DEF IInv, AllEndWithLast
  <2>2. Sequel(s)' = Sequel(s) /\ CurrentValue' = CurrentValue
        /\ Subscriptions' = Subscriptions
    BY <1>1, <1>2 DEF CurrentValue, Subscriptions
  <2> QED BY <1>1, <2>1, <2>2 DEF EndsWithLast
<1> QED BY <1>3, <1>4, <1>5, <1>6 DEF IInv

--------------------------------------------------------------------------------
\* The theorems

LEMMA StepPreserves == IInv /\ [Next]_vars => IInv'
<1> SUFFICES ASSUME IInv, [Next]_vars PROVE IInv'
  OBVIOUS
<1>1. ASSUME NEW w \in Writers, Store(w) PROVE IInv'
  BY <1>1, StorePreserves
<1>2. ASSUME NEW w \in Writers, NEW t \in 1 .. MaxTime, Add(w, t) PROVE IInv'
  BY <1>2, AddPreserves
<1>3. ASSUME NEW s \in SubIdx, NEW o \in Options, Subscribe(s, o) PROVE IInv'
  BY <1>3, SubscribePreserves
<1>4. ASSUME NEW s \in SubIdx, Unsubscribe(s) \/ Disconnect(s) \/ TimePasses(s) PROVE IInv'
  BY <1>4, UnsubscribePreserves, DisconnectPreserves, TimePassesPreserves
<1>5. CASE Pass \/ EmptyPass
  BY <1>5, PassPreserves, EmptyPassPreserves
<1>6. CASE UNCHANGED vars
  <2>1. /\ UNCHANGED <<timestamps, between, stored, subs, options, given, first, missed,
                       sub_values, phase, offset, pump>>
    BY <1>6 DEF vars, subVars
  <2>2. /\ phase \in [SubIdx -> {Phases[k] : k \in DOMAIN Phases}] /\ pump \in BOOLEAN
        /\ subs \in [SubIdx -> {"none", "on", "left", "off"}]
    BY DEF IInv, TypeOK
  <2>3. Subscriptions' = Subscriptions
    BY <2>1 DEF Subscriptions
  <2> QED BY <2>1, <2>2, <2>3, OthersPreserve
<1>7. CASE \E w \in Writers : Store(w) \/ \E t \in 1 .. MaxTime : Add(w, t)
  <2>1. PICK w \in Writers : Store(w) \/ \E t \in 1 .. MaxTime : Add(w, t)
    BY <1>7
  <2>2. CASE Store(w)
    BY <1>1, <2>2
  <2>3. CASE \E t \in 1 .. MaxTime : Add(w, t)
    <3>1. PICK t \in 1 .. MaxTime : Add(w, t)
      BY <2>3
    <3> QED BY <1>2, <3>1
  <2> QED BY <2>1, <2>2, <2>3
<1>8. CASE \E s \in SubIdx : \/ \E o \in Options : Subscribe(s, o)
                             \/ Unsubscribe(s) \/ Disconnect(s) \/ TimePasses(s)
  <2>1. PICK s \in SubIdx : \/ \E o \in Options : Subscribe(s, o)
                           \/ Unsubscribe(s) \/ Disconnect(s) \/ TimePasses(s)
    BY <1>8
  <2>2. CASE \E o \in Options : Subscribe(s, o)
    BY <1>3, <2>2
  <2>3. CASE Unsubscribe(s) \/ Disconnect(s) \/ TimePasses(s)
    BY <1>4, <2>3
  <2> QED BY <2>1, <2>2, <2>3
<1> QED BY <1>5, <1>6, <1>7, <1>8 DEF Next

\* What is known of the values in every state that the server can be in.
THEOREM ValuesInvariant == Spec => []IInv
<1> QED BY InitEstablishes, StepPreserves, PTL DEF Spec

\* A subscription that does not ask for all values keeps one at most (StoredSubValue), and
\* what is stored and sent has been set.
THEOREM ValuesTyped == Spec => []TypeOK
<1>1. IInv => TypeOK
  BY DEF IInv
<1> QED BY <1>1, ValuesInvariant, PTL

\* The value set_value leaves in topic_value_map is the newest of those set, though it is
\* compared under another lock than the one it was added under.
THEOREM StoredStaysNewest == Spec => []StoredIsNewest
<1>1. IInv => StoredIsNewest
  BY DEF IInv
<1> QED BY <1>1, ValuesInvariant, PTL

\* Without values in flight the last that a subscription has or will have is the topic's.
LEMMA EndIsStored == IInv => CaughtUp
<1> SUFFICES ASSUME IInv, NEW s \in Subscriptions,
                    \A w \in Writers : between[w] = 0,
                    stored # 0, missed[s] = {},
                    \A v, u \in DOMAIN timestamps : v < u => timestamps[v] < timestamps[u]
             PROVE  Sequel(s) # <<>> /\ Sequel(s)[Len(Sequel(s))] = stored
  <2>1. ASSUME NEW v \in DOMAIN timestamps, NEW u \in DOMAIN timestamps, IInv
        PROVE  timestamps[v] >= timestamps[u] <=> ~(timestamps[v] < timestamps[u])
    <3>1. timestamps \in Seq(1 .. MaxTime) /\ MaxTime \in Nat
      BY <2>1, ValueFlowAssumption DEF IInv, TypeOK
    <3>2. v \in 1 .. Len(timestamps) /\ u \in 1 .. Len(timestamps)
      BY <3>1, LenProperties
    <3>3. timestamps[v] \in 1 .. MaxTime /\ timestamps[u] \in 1 .. MaxTime
      BY <3>1, <3>2, ElementOfSeq
    <3> QED BY <3>1, <3>3
  <2> QED BY <2>1 DEF CaughtUp, Sequel
<1>1. s \in SubIdx /\ EndsWithLast(s) /\ first[s] <= Len(timestamps)
  BY DEF IInv, AllEndWithLast, Subscriptions
<1>2. CASE Len(timestamps) > first[s]
  <2> DEFINE n == Len(timestamps)
  <2>1. n \in Nat /\ n # 0 /\ stored \in 1 .. n /\ DOMAIN timestamps = 1 .. n
    <3>1. timestamps \in Seq(1 .. MaxTime) /\ stored \in 0 .. n
      BY DEF IInv, TypeOK
    <3> QED BY <3>1, LenProperties
  <2>2. n \in Settled
    BY <2>1 DEF Settled
  <2>3. timestamps[n] <= timestamps[stored]
    BY <2>2 DEF IInv, StoredIsNewest
  <2>4. stored = n
    <3>1. stored < n => timestamps[stored] < timestamps[n]
      BY <2>1
    <3>2. timestamps[n] \in Int /\ timestamps[stored] \in Int
      <4>1. timestamps \in Seq(1 .. MaxTime)
        BY DEF IInv, TypeOK
      <4>2. n \in 1 .. Len(timestamps) /\ stored \in 1 .. Len(timestamps)
        BY <2>1
      <4>3. timestamps[n] \in 1 .. MaxTime /\ timestamps[stored] \in 1 .. MaxTime
        BY <4>1, <4>2, ElementOfSeq
      <4> QED BY <4>3
    <3>3. ~(timestamps[stored] < timestamps[n])
      BY <2>3, <3>2
    <3>4. ~(stored < n)
      BY <3>1, <3>3
    <3>5. stored \in Int /\ n \in Int /\ stored <= n
      BY <2>1
    <3> HIDE DEF n
    <3> QED BY <3>4, <3>5
  <2> QED BY <1>1, <1>2, <2>4 DEF EndsWithLast
<1>3. CASE ~(Len(timestamps) > first[s])
  <2>1. Sequel(s) = <<stored>>
    BY <1>1, <1>3 DEF EndsWithLast, CurrentValue
  <2> QED BY <2>1
<1> QED BY <1>2, <1>3

\* Once nobody sets it, the topic's value is the last that a subscription has had or is to
\* have, with the two exceptions CaughtUp names.
THEOREM SubscriptionsCatchUp == Spec => []CaughtUp
<1> QED BY ValuesInvariant, EndIsStored, PTL

--------------------------------------------------------------------------------
\* A subscription follows the topic

\* How many of q are from before a subscription that was made after f values: the one it
\* began with.
Old(q, f) == IF q # <<>> /\ q[1] <= f THEN 1 ELSE 0

\* q grows, and is newer than the subscription but for a first value, which is among the
\* g it has had; with `all` it leaves out nothing of what was added up to n.
ChainOf(q, g, f, n, all) ==
  /\ \A k \in 1 .. Len(q) : /\ q[k] <= n
                            /\ q[k] > f \/ (k = 1 /\ g > 0)
                            /\ \A j \in 1 .. (k - 1) : q[j] < q[k]
  /\ all => /\ Len(q) = n - f + Old(q, f)
            /\ \A k \in 1 .. Len(q) : k > Old(q, f) => q[k] = f + k - Old(q, f)

Chain(s) == ChainOf(Sequel(s), Len(given[s]), first[s], Len(timestamps), options[s].all)

FollowInv == \A s \in Subscriptions : Chain(s)

LEMMA SequelTyped ==
  ASSUME IInv, NEW s \in SubIdx
  PROVE  /\ given[s] \in Seq(Values) /\ sub_values[s] \in Seq(Values)
         /\ given[s] \in Seq(Nat) /\ sub_values[s] \in Seq(Nat) /\ Sequel(s) \in Seq(Nat)
         /\ Len(Sequel(s)) \in Nat /\ Len(given[s]) \in Nat /\ Len(sub_values[s]) \in Nat
         /\ \A k \in 1 .. Len(Sequel(s)) : Sequel(s)[k] \in Nat
         /\ first[s] \in Nat /\ Len(timestamps) \in Nat /\ first[s] <= Len(timestamps)
<1>1. given[s] \in Seq(Values) /\ sub_values[s] \in Seq(Values)
  BY DEF IInv, TypeOK
<1>2. Values \subseteq Nat
  BY ValueFlowAssumption DEF Values
<1>3. given[s] \in Seq(Nat) /\ sub_values[s] \in Seq(Nat)
  <2>1. ASSUME NEW q \in Seq(Values) PROVE q \in Seq(Nat)
    <3>1. Len(q) \in Nat /\ q \in [1 .. Len(q) -> Values]
      BY LenProperties
    <3>2. q \in [1 .. Len(q) -> Nat]
      BY <1>2, <3>1
    <3> QED BY <3>1, <3>2, SeqDef
  <2> QED BY <1>1, <2>1
<1>4. Sequel(s) \in Seq(Nat)
  BY <1>3, ConcatProperties DEF Sequel
<1>5. /\ Len(Sequel(s)) \in Nat /\ Len(given[s]) \in Nat /\ Len(sub_values[s]) \in Nat
      /\ \A k \in 1 .. Len(Sequel(s)) : Sequel(s)[k] \in Nat
  BY <1>3, <1>4, LenProperties, ElementOfSeq
<1>6. first[s] \in Nat /\ Len(timestamps) \in Nat /\ first[s] <= Len(timestamps)
  BY ValueFlowAssumption, LenProperties DEF IInv, TypeOK, AllEndWithLast
<1> QED BY <1>1, <1>3, <1>4, <1>5, <1>6

\* Nothing that is followed changes when a subscription's values stay as they are.
LEMMA SameChain ==
  ASSUME IInv, NEW s \in Subscriptions, Chain(s), Sequel(s)' = Sequel(s),
         Len(given[s]) > 0 => Len(given'[s]) > 0,
         first'[s] = first[s], options'[s] = options[s], timestamps' = timestamps
  PROVE  Chain(s)'
<1>1. ChainOf(Sequel(s), Len(given'[s]), first[s], Len(timestamps), options[s].all)
  BY DEF Chain, ChainOf
<1> QED BY <1>1 DEF Chain

\* The first m stay, those that have been sent among them, and the next value comes after
\* them.
LEMMA ChainGrows ==
  ASSUME NEW q \in Seq(Nat), NEW r \in Seq(Nat), NEW g \in Nat, NEW f \in Nat, NEW n \in Nat,
         f <= n, NEW all, NEW m \in 0 .. Len(q), g <= m,
         Len(r) = m + 1, r[m + 1] = n + 1,
         \A k \in 1 .. m : r[k] = q[k],
         all => m = Len(q),
         ChainOf(q, g, f, n, all)
  PROVE  ChainOf(r, g, f, n + 1, all)
<1>1. /\ \A k \in 1 .. Len(q) : q[k] \in Nat
      /\ Len(q) \in Nat /\ m \in Nat /\ m <= Len(q)
  BY ElementOfSeq, LenProperties
<1>2. \A k \in 1 .. Len(q) : /\ q[k] <= n
                             /\ q[k] > f \/ (k = 1 /\ g > 0)
                             /\ \A j \in 1 .. (k - 1) : q[j] < q[k]
  BY DEF ChainOf
<1>3. \A k \in 1 .. Len(r) : /\ r[k] <= n + 1
                             /\ r[k] > f \/ (k = 1 /\ g > 0)
                             /\ \A j \in 1 .. (k - 1) : r[j] < r[k]
  <2> SUFFICES ASSUME NEW k \in 1 .. (m + 1)
               PROVE  /\ r[k] <= n + 1
                      /\ r[k] > f \/ (k = 1 /\ g > 0)
                      /\ \A j \in 1 .. (k - 1) : r[j] < r[k]
    OBVIOUS
  <2>1. CASE k = m + 1
    <3>1. ASSUME NEW j \in 1 .. (k - 1) PROVE r[j] < n + 1
      <4>1. j \in 1 .. m /\ j \in 1 .. Len(q)
        BY <1>1, <2>1
      <4>2. r[j] = q[j] /\ q[j] <= n /\ q[j] \in Nat
        BY <1>1, <1>2, <4>1
      <4> QED BY <4>2
    <3>2. r[k] = n + 1 /\ n + 1 > f /\ n + 1 <= n + 1
      BY <2>1
    <3> QED BY <3>1, <3>2
  <2>2. CASE k # m + 1
    <3>1. k \in 1 .. m /\ k \in 1 .. Len(q)
      BY <1>1, <2>2
    <3>2. r[k] = q[k] /\ q[k] \in Nat /\ q[k] <= n
      BY <1>1, <1>2, <3>1
    <3>3. r[k] > f \/ (k = 1 /\ g > 0)
      BY <1>2, <3>1, <3>2
    <3>4. ASSUME NEW j \in 1 .. (k - 1) PROVE r[j] < r[k]
      <4>1. j \in 1 .. m
        BY <1>1, <3>1
      <4> QED BY <1>2, <3>1, <3>2, <4>1
    <3> QED BY <3>2, <3>3, <3>4
  <2> QED BY <2>1, <2>2
<1>4. Old(r, f) = IF m > 0 THEN Old(q, f) ELSE 0
  <2>1. r # <<>>
    BY <1>1
  <2>2. CASE m = 0
    <3>1. r[1] = n + 1
      BY <2>2
    <3> QED BY <2>1, <2>2, <3>1 DEF Old
  <2>3. CASE m # 0
    <3>1. m > 0 /\ 1 \in 1 .. m /\ Len(q) # 0
      BY <1>1, <2>3
    <3>2. q # <<>> /\ r[1] = q[1]
      BY <3>1
    <3> QED BY <2>1, <3>1, <3>2 DEF Old
  <2> QED BY <2>2, <2>3
<1>5. ASSUME all
      PROVE  /\ Len(r) = n + 1 - f + Old(r, f)
             /\ \A k \in 1 .. Len(r) : k > Old(r, f) => r[k] = f + k - Old(r, f)
  <2>1. PICK b \in {0, 1} : b = Old(q, f)
    BY DEF Old
  <2>2. /\ Len(q) = n - f + b /\ m = Len(q)
        /\ \A k \in 1 .. Len(q) : k > b => q[k] = f + k - b
    BY <1>5, <2>1 DEF ChainOf
  <2>3. Old(r, f) = b
    <3>1. CASE Len(q) = 0
      <4>1. b = 0
        BY <2>1, <3>1 DEF Old
      <4> QED BY <1>4, <2>2, <3>1, <4>1
    <3>2. CASE Len(q) # 0
      BY <1>1, <1>4, <2>1, <2>2, <3>2
    <3> QED BY <3>1, <3>2
  <2>4. ASSUME NEW k \in 1 .. (m + 1), k > b PROVE r[k] = f + k - b
    <3>1. CASE k = m + 1
      BY <2>2, <3>1
    <3>2. CASE k # m + 1
      BY <1>1, <2>2, <2>4, <3>2
    <3> QED BY <3>1, <3>2
  <2> QED BY <2>2, <2>3, <2>4
<1> QED BY <1>3, <1>5 DEF ChainOf

\* What sending v adds to what a subscription has had and is to have.
LEMMA SequelGrows ==
  ASSUME NEW g \in Seq(Nat), NEW a \in Seq(Nat), NEW v \in Nat
  PROVE  /\ g \o Append(a, v) \in Seq(Nat)
         /\ Len(g \o Append(a, v)) = Len(g \o a) + 1
         /\ (g \o Append(a, v))[Len(g \o a) + 1] = v
         /\ \A k \in 1 .. Len(g \o a) : (g \o Append(a, v))[k] = (g \o a)[k]
         /\ g \o <<v>> \in Seq(Nat)
         /\ Len(g \o <<v>>) = Len(g) + 1
         /\ (g \o <<v>>)[Len(g) + 1] = v
         /\ \A k \in 1 .. Len(g) : (g \o <<v>>)[k] = (g \o a)[k]
         /\ Len(g) \in 0 .. Len(g \o a)
  OBVIOUS

LEMMA AddFollows ==
  ASSUME IInv, FollowInv, NEW w \in Writers, NEW t \in 1 .. MaxTime, Add(w, t)
  PROVE  FollowInv'
<1> DEFINE n == Len(timestamps)
           v == n + 1
<1>1. /\ n \in Nat /\ v \in Nat /\ Len(timestamps') = v
  <2>1. timestamps \in Seq(1 .. MaxTime) /\ n \in Nat
    BY LenProperties DEF IInv, TypeOK
  <2> QED BY <2>1, AppendProperties DEF Add
<1>2. /\ UNCHANGED <<subs, options, given, first>>
      /\ sub_values' =
           [s \in SubIdx |-> IF s \in Subscriptions THEN add_value(s, v) ELSE sub_values[s]]
      /\ Subscriptions' = Subscriptions
  BY DEF Add, subVars, Subscriptions
<1> SUFFICES ASSUME NEW s \in Subscriptions PROVE Chain(s)'
  BY <1>2 DEF FollowInv
<1>3. s \in SubIdx /\ Chain(s) /\ sub_values'[s] = add_value(s, v)
  BY <1>2 DEF FollowInv, Subscriptions
<1>4. /\ given[s] \in Seq(Nat) /\ sub_values[s] \in Seq(Nat) /\ Sequel(s) \in Seq(Nat)
      /\ Len(given[s]) \in Nat
      /\ first[s] \in Nat /\ first[s] <= n
  BY <1>3, SequelTyped
<1> DEFINE r == Sequel(s)'
<1>5. \E m \in 0 .. Len(Sequel(s)) :
        /\ Len(given[s]) <= m
        /\ r \in Seq(Nat) /\ Len(r) = m + 1 /\ r[m + 1] = v
        /\ \A k \in 1 .. m : r[k] = Sequel(s)[k]
        /\ options[s].all => m = Len(Sequel(s))
  <2> HIDE DEF v
  <2>1. CASE options[s].all
    <3>1. r = given[s] \o Append(sub_values[s], v)
      BY <1>2, <1>3, <2>1 DEF Sequel, add_value
    <3>2. /\ Len(given[s]) \in 0 .. Len(Sequel(s)) /\ Len(Sequel(s)) \in Nat
          /\ r \in Seq(Nat) /\ Len(r) = Len(Sequel(s)) + 1 /\ r[Len(Sequel(s)) + 1] = v
          /\ \A k \in 1 .. Len(Sequel(s)) : r[k] = Sequel(s)[k]
      <4> DEFINE g == given[s]
                 a == sub_values[s]
      <4>1. g \in Seq(Nat) /\ a \in Seq(Nat) /\ v \in Nat /\ Sequel(s) = g \o a
            /\ r = g \o Append(a, v) /\ g \o a \in Seq(Nat)
        BY <1>1, <1>4, <3>1 DEF Sequel
      <4> HIDE DEF g, a, r
      <4>2. /\ Len(g) \in 0 .. Len(g \o a) /\ Len(g \o a) \in Nat
            /\ r \in Seq(Nat) /\ Len(r) = Len(g \o a) + 1 /\ r[Len(g \o a) + 1] = v
            /\ \A k \in 1 .. Len(g \o a) : r[k] = (g \o a)[k]
        BY <4>1, SequelGrows, LenProperties
      <4> QED BY <4>1, <4>2 DEF g
    <3> HIDE DEF r
    <3> WITNESS Len(Sequel(s)) \in 0 .. Len(Sequel(s))
    <3> QED BY <3>2
  <2>2. CASE ~options[s].all
    <3>1. r = given[s] \o <<v>>
      BY <1>2, <1>3, <2>2 DEF Sequel, add_value
    <3>2. /\ Len(given[s]) \in 0 .. Len(Sequel(s))
          /\ r \in Seq(Nat) /\ Len(r) = Len(given[s]) + 1 /\ r[Len(given[s]) + 1] = v
          /\ \A k \in 1 .. Len(given[s]) : r[k] = Sequel(s)[k]
      <4> DEFINE g == given[s]
                 a == sub_values[s]
      <4>1. g \in Seq(Nat) /\ a \in Seq(Nat) /\ v \in Nat /\ Sequel(s) = g \o a
            /\ r = g \o <<v>>
        BY <1>1, <1>4, <3>1 DEF Sequel
      <4> HIDE DEF g, a, r
      <4>2. /\ Len(g) \in 0 .. Len(g \o a)
            /\ r \in Seq(Nat) /\ Len(r) = Len(g) + 1 /\ r[Len(g) + 1] = v
            /\ \A k \in 1 .. Len(g) : r[k] = (g \o a)[k]
        BY <4>1, SequelGrows
      <4> QED BY <4>1, <4>2 DEF g
    <3> HIDE DEF r
    <3>3. Len(given[s]) \in 0 .. Len(Sequel(s)) /\ Len(given[s]) <= Len(given[s])
      BY <1>4, <3>2
    <3> QED BY <2>2, <3>2, <3>3
  <2> QED BY <2>1, <2>2
<1> HIDE DEF r
<1>6. ChainOf(r, Len(given[s]), first[s], n + 1, options[s].all)
  BY <1>1, <1>3, <1>4, <1>5, ChainGrows DEF Chain
<1> QED BY <1>1, <1>2, <1>6 DEF Chain, r

LEMMA SubscribeFollows ==
  ASSUME IInv, FollowInv, NEW s \in SubIdx, NEW o \in Options, Subscribe(s, o)
  PROVE  FollowInv'
<1>1. /\ subs[s] = "none"
      /\ subs' = [subs EXCEPT ![s] = "on"]
      /\ options' = [options EXCEPT ![s] = o]
      /\ given' = [given EXCEPT ![s] = CurrentValue]
      /\ first' = [first EXCEPT ![s] = Len(timestamps)]
      /\ UNCHANGED <<timestamps, sub_values>>
  BY DEF Subscribe
<1>2. sub_values[s] = <<>>
  BY <1>1 DEF IInv, NothingBefore
<1>3. /\ subs \in [SubIdx -> {"none", "on", "left", "off"}]
      /\ given \in [SubIdx -> Seq(Values)] /\ first \in [SubIdx -> 0 .. MaxValues]
      /\ options \in [SubIdx -> Options \cup {NoOptions}]
      /\ stored \in 0 .. Len(timestamps) /\ Len(timestamps) \in Nat
      /\ Len(timestamps) <= MaxValues /\ MaxValues \in Nat
  BY ValueFlowAssumption, LenProperties DEF IInv, TypeOK
<1> SUFFICES ASSUME NEW x \in Subscriptions' PROVE Chain(x)'
  BY DEF FollowInv
<1>4. CASE x = s
  <2>1. given'[s] = CurrentValue /\ first'[s] = Len(timestamps)
    BY <1>1, <1>3
  <2>2. CurrentValue \in Seq(Values)
    <3>1. stored # 0 => stored \in Values
      BY <1>3 DEF Values
    <3> QED BY <3>1, EmptySeq DEF CurrentValue
  <2>3. Sequel(s)' = CurrentValue
    BY <1>1, <1>2, <2>1, <2>2, ConcatEmptySeq DEF Sequel
  <2>4. CASE stored = 0
    <3>1. Sequel(s)' = <<>> /\ Len(<<>>) = 0
      BY <2>3, <2>4 DEF CurrentValue
    <3>2. Old(<<>>, Len(timestamps)) = 0
      BY DEF Old
    <3>3. ChainOf(<<>>, Len(given'[s]), Len(timestamps), Len(timestamps), o.all)
      BY <1>3, <3>1, <3>2 DEF ChainOf
    <3> QED BY <1>1, <1>3, <1>4, <2>1, <3>1, <3>3 DEF Chain
  <2>5. CASE stored # 0
    <3>1. Sequel(s)' = <<stored>> /\ given'[s] = <<stored>>
      BY <2>1, <2>3, <2>5 DEF CurrentValue
    <3>2. <<stored>> # <<>> /\ <<stored>>[1] = stored /\ Len(<<stored>>) = 1
      OBVIOUS
    <3>3. Old(<<stored>>, Len(timestamps)) = 1
      BY <1>3, <3>2 DEF Old
    <3>4. ChainOf(<<stored>>, 1, Len(timestamps), Len(timestamps), o.all)
      <4>1. \A k \in 1 .. 1 : k = 1 /\ 1 .. (k - 1) = {} /\ ~(k > 1)
        OBVIOUS
      <4> QED BY <1>3, <3>2, <3>3, <4>1 DEF ChainOf
    <3> QED BY <1>1, <1>3, <1>4, <2>1, <3>1, <3>2, <3>4 DEF Chain
  <2> QED BY <2>4, <2>5
<1>5. CASE x # s
  <2>1. /\ x \in Subscriptions /\ given'[x] = given[x] /\ first'[x] = first[x]
        /\ options'[x] = options[x]
    BY <1>1, <1>3, <1>5 DEF Subscriptions
  <2> QED BY <1>1, <2>1, SameChain DEF FollowInv, Sequel
<1> QED BY <1>4, <1>5

LEMMA PassFollows ==
  ASSUME IInv, FollowInv, Pass
  PROVE  FollowInv'
<1> DEFINE Regular == {s \in Subscriptions : ~options[s].topics_only}
           Skips   == {s \in Regular : Skipped(s)}
           Takes   == {s \in Regular \ Skips : subs[s] = "on"}
<1>1. /\ given' = [s \in SubIdx |->
                     IF s \in Takes THEN given[s] \o sub_values[s] ELSE given[s]]
      /\ sub_values' = [s \in SubIdx |->
                          IF s \in Takes THEN take_values(s) ELSE sub_values[s]]
      /\ UNCHANGED <<timestamps, subs, options, first>>
  BY DEF Pass
<1> HIDE DEF Takes
<1>2. Subscriptions' = Subscriptions
  BY <1>1 DEF Subscriptions
<1> SUFFICES ASSUME NEW s \in Subscriptions PROVE Chain(s)'
  BY <1>2 DEF FollowInv
<1>3. s \in SubIdx
  BY DEF Subscriptions
<1>4. /\ given[s] \in Seq(Values) /\ sub_values[s] \in Seq(Values)
      /\ Len(given[s]) \in Nat /\ Len(sub_values[s]) \in Nat
  BY <1>3, SequelTyped
<1>5. Sequel(s)' = Sequel(s) /\ (Len(given[s]) > 0 => Len(given'[s]) > 0)
  <2>1. CASE s \in Takes
    <3>1. given'[s] = given[s] \o sub_values[s] /\ sub_values'[s] = <<>>
      BY <1>1, <1>3, <2>1 DEF take_values
    <3>2. Len(given'[s]) = Len(given[s]) + Len(sub_values[s])
      BY <1>4, <3>1, ConcatProperties
    <3>3. Len(given[s]) > 0 => Len(given'[s]) > 0
      <4> DEFINE j == Len(given[s])
                 k == Len(sub_values[s])
      <4>1. j \in Nat /\ k \in Nat /\ Len(given'[s]) = j + k
        BY <1>4, <3>2
      <4> HIDE DEF j, k
      <4>2. j > 0 => j + k > 0
        BY <4>1
      <4> QED BY <4>1, <4>2 DEF j
    <3>4. Sequel(s)' = Sequel(s)
      BY <1>4, <3>1, Moved DEF Sequel
    <3> QED BY <3>3, <3>4
  <2>2. CASE s \notin Takes
    BY <1>1, <1>3, <2>2 DEF Sequel
  <2> QED BY <2>1, <2>2
<1> QED BY <1>1, <1>5, SameChain DEF FollowInv

LEMMA StepFollows == IInv /\ FollowInv /\ [Next]_vars => FollowInv'
<1> SUFFICES ASSUME IInv, FollowInv, [Next]_vars PROVE FollowInv'
  OBVIOUS
<1>1. ASSUME Subscriptions' \subseteq Subscriptions, UNCHANGED <<timestamps, options, given, first>>,
             \A s \in Subscriptions' : sub_values'[s] = sub_values[s]
      PROVE  FollowInv'
  BY <1>1, SameChain DEF FollowInv, Sequel
<1>2. ASSUME NEW w \in Writers, Store(w) PROVE FollowInv'
  BY <1>1, <1>2 DEF Store, subVars, Subscriptions
<1>3. ASSUME NEW w \in Writers, NEW t \in 1 .. MaxTime, Add(w, t) PROVE FollowInv'
  BY <1>3, AddFollows
<1>4. ASSUME NEW s \in SubIdx, NEW o \in Options, Subscribe(s, o) PROVE FollowInv'
  BY <1>4, SubscribeFollows
<1>5. ASSUME NEW s \in SubIdx, Unsubscribe(s) PROVE FollowInv'
  <2>1. /\ subs' = [subs EXCEPT ![s] = "off"]
        /\ sub_values' = [sub_values EXCEPT ![s] = <<>>]
        /\ UNCHANGED <<timestamps, options, given, first>>
    BY <1>5 DEF Unsubscribe
  <2>2. \A x \in Subscriptions' : x \in Subscriptions /\ x # s /\ sub_values'[x] = sub_values[x]
    BY <2>1 DEF IInv, TypeOK, Subscriptions
  <2> QED BY <1>1, <2>1, <2>2
<1>6. ASSUME NEW s \in SubIdx, Disconnect(s) PROVE FollowInv'
  <2>1. /\ subs[s] = "on" /\ subs' = [subs EXCEPT ![s] = "left"]
        /\ UNCHANGED <<timestamps, options, given, first, sub_values>>
    BY <1>6 DEF Disconnect
  <2>2. Subscriptions' \subseteq Subscriptions
    BY <2>1 DEF IInv, TypeOK, Subscriptions
  <2> QED BY <1>1, <2>1, <2>2
<1>7. ASSUME NEW s \in SubIdx, TimePasses(s) PROVE FollowInv'
  BY <1>1, <1>7 DEF TimePasses, subVars, Subscriptions
<1>8. CASE Pass
  BY <1>8, PassFollows
<1>9. CASE EmptyPass \/ UNCHANGED vars
  BY <1>1, <1>9 DEF EmptyPass, vars, subVars, Subscriptions
<1>10. CASE \E w \in Writers : Store(w) \/ \E t \in 1 .. MaxTime : Add(w, t)
  BY <1>2, <1>3, <1>10
<1>11. CASE \E s \in SubIdx : \/ \E o \in Options : Subscribe(s, o)
                              \/ Unsubscribe(s) \/ Disconnect(s) \/ TimePasses(s)
  BY <1>4, <1>5, <1>6, <1>7, <1>11
<1> QED BY <1>8, <1>9, <1>10, <1>11 DEF Next

\* What a subscription follows, read off its chain.
LEMMA ChainFollows == IInv /\ FollowInv => FollowsTopic
<1> SUFFICES ASSUME IInv, FollowInv, NEW s \in Subscriptions
             PROVE  LET f == Followed(s)
                    IN  /\ \A k \in DOMAIN f : f[k] > first[s] /\ \A j \in 1 .. (k - 1) : f[j] < f[k]
                        /\ \A v \in (first[s] + 1) .. Len(timestamps) :
                             IF options[s].all THEN \E k \in DOMAIN f : f[k] = v
                             ELSE f # <<>> /\ v <= f[Len(f)]
  BY DEF FollowsTopic
<1> DEFINE q == Sequel(s)
           f == Followed(s)
           b == Old(q, first[s])
           n == Len(timestamps) - first[s]
<1>1. s \in SubIdx /\ Chain(s) /\ EndsWithLast(s)
  BY DEF FollowInv, Subscriptions, IInv, AllEndWithLast
<1>2. /\ q \in Seq(Nat) /\ Len(q) \in Nat
      /\ \A k \in 1 .. Len(q) : q[k] \in Nat
      /\ first[s] \in Nat /\ Len(timestamps) \in Nat /\ first[s] <= Len(timestamps)
  BY <1>1, SequelTyped
<1>3. b \in {0, 1} /\ (b = 1 <=> q # <<>> /\ q[1] <= first[s])
  BY DEF Old
<1>4. b <= Len(q)
  BY <1>2, <1>3
<1>5. f = IF b = 1 THEN Tail(q) ELSE q
  BY <1>3 DEF Followed, Sequel
<1>6. /\ f \in Seq(Nat) /\ Len(f) = Len(q) - b /\ Len(f) \in Nat
      /\ DOMAIN f = 1 .. Len(f)
      /\ \A k \in 1 .. Len(f) : f[k] = q[k + b]
  <2>1. CASE b = 1
    <3>1. q # <<>> /\ f = Tail(q)
      BY <1>3, <1>5, <2>1
    <3>2. /\ f \in Seq(Nat) /\ Len(f) = Len(q) - 1
          /\ \A k \in 1 .. Len(f) : f[k] = q[k + 1]
      BY <1>2, <3>1, HeadTailProperties
    <3> HIDE DEF f, q
    <3> QED BY <1>2, <1>4, <2>1, <3>2, LenProperties
  <2>2. CASE b = 0
    <3>1. f = q
      BY <1>5, <2>2
    <3> HIDE DEF f, q
    <3> QED BY <1>2, <2>2, <3>1, LenProperties
  <2> QED BY <1>3, <2>1, <2>2
<1> HIDE DEF f, q
<1>7. \A k \in 1 .. Len(q) : /\ q[k] > first[s] \/ k = 1
                             /\ \A j \in 1 .. (k - 1) : q[j] < q[k]
  BY <1>1 DEF Chain, ChainOf, q
<1>8. options[s].all => /\ Len(q) = n + b
                        /\ \A k \in 1 .. Len(q) : k > b => q[k] = first[s] + k - b
  BY <1>1, <1>2 DEF Chain, ChainOf, q
<1> HIDE DEF b
<1>9. \A k \in DOMAIN f : f[k] > first[s] /\ \A j \in 1 .. (k - 1) : f[j] < f[k]
  <2> SUFFICES ASSUME NEW k \in 1 .. Len(f)
               PROVE  f[k] > first[s] /\ \A j \in 1 .. (k - 1) : f[j] < f[k]
    BY <1>6
  <2>1. k + b \in 1 .. Len(q) /\ f[k] = q[k + b]
    BY <1>2, <1>3, <1>6
  <2>2. \A j \in 1 .. (k - 1) : f[j] = q[j + b] /\ j + b \in 1 .. (k + b - 1)
    BY <1>3, <1>6
  <2>3. f[k] > first[s]
    <3>1. CASE k + b # 1
      BY <1>7, <2>1, <3>1
    <3>2. CASE k + b = 1
      <4>1. b = 0 /\ q # <<>>
        BY <1>2, <1>3, <2>1, <3>2
      <4> QED BY <1>2, <1>3, <2>1, <3>2, <4>1
    <3> QED BY <3>1, <3>2
  <2>4. \A j \in 1 .. (k - 1) : q[j + b] < q[k + b]
    <3>1. PICK i \in 1 .. Len(q) : i = k + b
      BY <2>1
    <3>2. \A j \in 1 .. (i - 1) : q[j] < q[i]
      BY <1>7, <3>1
    <3>3. ASSUME NEW j \in 1 .. (k - 1) PROVE q[j + b] < q[k + b]
      <4>1. j + b \in 1 .. (i - 1)
        <5>1. j + b \in 1 .. (k + b - 1)
          BY <2>2
        <5> QED BY <1>2, <1>3, <3>1, <5>1
      <4> QED BY <3>1, <3>2, <4>1
    <3> QED BY <3>3
  <2> QED BY <2>1, <2>2, <2>3, <2>4
<1>10. n > 0 => f # <<>> /\ f[Len(f)] = Len(timestamps)
  <2> SUFFICES ASSUME n > 0 PROVE f # <<>> /\ f[Len(f)] = Len(timestamps)
    OBVIOUS
  <2>1. q # <<>> /\ q[Len(q)] = Len(timestamps)
    BY <1>1, <1>2 DEF EndsWithLast, q
  <2>2. Len(q) >= 1
    BY <1>2, <2>1
  <2>3. Len(f) >= 1
    <3>1. b = 1 => Len(q) # 1
      BY <1>2, <1>3, <2>1
    <3> QED BY <1>2, <1>3, <1>6, <2>2, <3>1
  <2>4. f[Len(f)] = q[Len(q)]
    BY <1>2, <1>3, <1>6, <2>3
  <2> QED BY <1>6, <2>1, <2>3, <2>4
<1>11. options[s].all => Len(f) = n /\ \A k \in 1 .. n : f[k] = first[s] + k
  <2> SUFFICES ASSUME options[s].all PROVE Len(f) = n /\ \A k \in 1 .. n : f[k] = first[s] + k
    OBVIOUS
  <2>1. Len(f) = n
    BY <1>2, <1>3, <1>6, <1>8
  <2>2. \A k \in 1 .. n : f[k] = first[s] + k
    <3> SUFFICES ASSUME NEW k \in 1 .. n PROVE f[k] = first[s] + k
      OBVIOUS
    <3>1. k \in Int /\ k + b \in 1 .. Len(q) /\ k + b > b /\ f[k] = q[k + b]
      <4>1. k \in 1 .. Len(f) /\ Len(f) = Len(q) - b
        BY <1>6, <2>1
      <4>2. k \in Int /\ k + b \in 1 .. Len(q) /\ k + b > b
        BY <1>2, <1>3, <4>1
      <4> QED BY <1>6, <4>1, <4>2
    <3>2. q[k + b] = first[s] + (k + b) - b
      BY <1>8, <3>1
    <3> QED BY <1>2, <1>3, <3>1, <3>2
  <2> QED BY <2>1, <2>2
<1>12. ASSUME NEW v \in (first[s] + 1) .. Len(timestamps)
       PROVE  IF options[s].all THEN \E k \in DOMAIN f : f[k] = v ELSE f # <<>> /\ v <= f[Len(f)]
  <2>1. n > 0 /\ v - first[s] \in 1 .. n /\ v <= Len(timestamps)
    BY <1>2
  <2>2. CASE options[s].all
    <3>1. v - first[s] \in DOMAIN f /\ f[v - first[s]] = first[s] + (v - first[s])
      BY <1>6, <1>11, <2>1, <2>2
    <3>2. first[s] + (v - first[s]) = v
      BY <1>2
    <3> QED BY <2>2, <3>1, <3>2
  <2>3. CASE ~options[s].all
    BY <1>10, <2>1, <2>3
  <2> QED BY <2>2, <2>3
<1> QED BY <1>9, <1>12 DEF f

\* A subscription is sent, or is to be sent, values set since it was made, once and in
\* order: with `all` each that is set in time, and else never less than the last of them,
\* whatever passes send_out makes in between.
THEOREM SubscriptionsFollow == Spec => []FollowsTopic
<1>1. Init => FollowInv
  BY DEF Init, FollowInv, Subscriptions
<1> QED BY <1>1, ValuesInvariant, StepFollows, ChainFollows, PTL DEF Spec
================================================================================
