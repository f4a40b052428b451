------------------------------- MODULE ValueFlow -------------------------------
(***************************************************************************)
(* The values of one topic of a server: set_value in                       *)
(* src/src/server/inner.rs, which adds a value to what the subscriptions of *)
(* the topic are to be sent and, under another lock, stores it as the       *)
(* topic's; subscribe, which sends the stored value; and the send_out task  *)
(* of src/src/server/runner.rs, which sends what has been added.            *)
(*                                                                         *)
(* A value is the number of the set_value that added it.  What is sent goes *)
(* to the channel of the client; each subscription has a client of its own. *)
(***************************************************************************)
EXTENDS Integers, Sequences, FiniteSets

CONSTANTS
  Writers,   \* the tasks that call set_value: the parser, and the server's handles
  SubIdx,    \* the subscriptions there can be
  Options,   \* the options they ask for: all and topics_only, and whether periodic is short,
             \* under a millisecond
  MaxTime,   \* bound: timestamps are 1 .. MaxTime
  MaxValues  \* bound: values set

ASSUME ValueFlowAssumption ==
  /\ Options \subseteq [all : BOOLEAN, topics_only : BOOLEAN, short : BOOLEAN]
  /\ MaxTime \in Nat /\ MaxValues \in Nat

VARIABLES
  timestamps, \* history: the timestamps of the values that have been added, in order
  between,    \* the value of a writer that it has added and not stored, or 0
  stored,     \* topic_value_map: the topic's value, or 0
  subs,       \* the subscriptions: "none", "on", "left" (its client is gone), "off"
  options,    \* their options
  sub_values, \* StoredSubValue: what each is to be sent
  phase,      \* sub_send_timestamps: where the time since it was sent to stands to its
              \* period; "before" and "after" are within a millisecond of it
  given,      \* history: what each has been sent
  first,      \* history: how many values had been added when it was made
  missed,     \* history: the values that were added and not stored when it was made
  pump,       \* send_out: is it up?
  offset      \* soonest_offset: "tenth" (as it begins), "positive" or "negative"

subVars == <<subs, options, given, first, missed>>
vars == <<timestamps, between, stored, subVars, sub_values, phase, pump, offset>>

Values == 1 .. MaxValues
Phases == <<"early", "before", "after", "late">>

NoOptions == [all |-> FALSE, topics_only |-> FALSE, short |-> FALSE]

Init ==
  /\ timestamps = <<>>
  /\ between = [w \in Writers |-> 0]
  /\ stored = 0
  /\ subs = [s \in SubIdx |-> "none"]
  /\ options = [s \in SubIdx |-> NoOptions]
  /\ sub_values = [s \in SubIdx |-> <<>>]
  /\ phase = [s \in SubIdx |-> "early"]
  /\ given = [s \in SubIdx |-> <<>>]
  /\ first = [s \in SubIdx |-> 0]
  /\ missed = [s \in SubIdx |-> {}]
  /\ pump = TRUE
  /\ offset = "tenth"

\* The keys of subscriptions, which a client that leaves does not take with it.
Subscriptions == {s \in SubIdx : subs[s] \in {"on", "left"}}

\* Mutant of add_value: One appends like All.
add_value_to_all(s, v) == Append(sub_values[s], v)

\* All keeps every value, One the one added last.
add_value(s, v) == IF options[s].all THEN Append(sub_values[s], v) ELSE <<v>>

\* set_value, under sub_values and topic_sub_map.
Add(w, t) ==
  LET v == Len(timestamps) + 1
  IN  /\ between[w] = 0
      /\ v <= MaxValues
      /\ timestamps' = Append(timestamps, t)
      /\ sub_values' =
           [s \in SubIdx |-> IF s \in Subscriptions THEN add_value(s, v) ELSE sub_values[s]]
      /\ between' = [between EXCEPT ![w] = v]
      /\ UNCHANGED <<stored, subVars, phase, pump, offset>>

\* Mutant of Replaces: the value set last is the topic's.
ReplacesAlways(v) == TRUE

\* A value replaces an older one, and of two of the same time the first stays.
Replaces(v) == stored = 0 \/ timestamps[stored] < timestamps[v]

\* set_value, under topic_value_map.
Store(w) ==
  /\ between[w] # 0
  /\ stored' = IF Replaces(between[w]) THEN between[w] ELSE stored
  /\ between' = [between EXCEPT ![w] = 0]
  /\ UNCHANGED <<timestamps, subVars, sub_values, phase, pump, offset>>

\* Mutant of CurrentValue: a subscription begins with what is set from now on.
NoCurrentValue == <<>>

\* What a new subscription is sent.
CurrentValue == IF stored = 0 THEN <<>> ELSE <<stored>>

\* The phase of a subscription that has just been made, or sent to.
Sent(o) == IF o.short THEN "before" ELSE "early"

\* subscribe holds topic_sub_map and topic_value_map.
Subscribe(s, o) ==
  /\ subs[s] = "none"
  /\ subs' = [subs EXCEPT ![s] = "on"]
  /\ options' = [options EXCEPT ![s] = o]
  /\ phase' = [phase EXCEPT ![s] = Sent(o)]
  /\ given' = [given EXCEPT ![s] = CurrentValue]
  /\ first' = [first EXCEPT ![s] = Len(timestamps)]
  /\ missed' = [missed EXCEPT ![s] = {between[w] : w \in Writers} \ {0}]
  /\ UNCHANGED <<timestamps, between, stored, sub_values, pump, offset>>

Unsubscribe(s) ==
  /\ subs[s] = "on"
  /\ subs' = [subs EXCEPT ![s] = "off"]
  /\ sub_values' = [sub_values EXCEPT ![s] = <<>>]
  /\ UNCHANGED <<timestamps, between, stored, options, given, first, missed, phase, pump,
                 offset>>

\* disconnect_client leaves the subscriptions of the client where they are.
Disconnect(s) ==
  /\ subs[s] = "on"
  /\ subs' = [subs EXCEPT ![s] = "left"]
  /\ UNCHANGED <<timestamps, between, stored, options, given, first, missed, sub_values, phase,
                 pump, offset>>

TimePasses(s) ==
  /\ s \in Subscriptions
  /\ \E k, l \in DOMAIN Phases :
       k < l /\ phase[s] = Phases[k] /\ phase' = [phase EXCEPT ![s] = Phases[l]]
  /\ UNCHANGED <<timestamps, between, stored, subVars, sub_values, pump, offset>>

\* Mutant of Skipped: what the name of the option says.
SkippedEarly(s) == phase[s] # "after"

\* send_out skips a subscription whose period is up to within a millisecond, and no other.
Skipped(s) == phase[s] \in {"before", "after"}

\* Mutant of take_values: a copy is taken.
take_values_copied(s) == sub_values[s]

\* What take_values leaves.
take_values(s) == <<>>

\* A pass of send_out, under subscriptions, sub_values, sub_send_timestamps and clients:
\* the one it skips last says how soon the next pass is to be.
Pass ==
  LET Regular == {s \in Subscriptions : ~options[s].topics_only}
      Skips   == {s \in Regular : Skipped(s)}
      Takes   == {s \in Regular \ Skips : subs[s] = "on"}
  IN  /\ pump
      /\ Subscriptions # {}
      /\ phase' = [s \in SubIdx |->
                     IF s \in Regular \ Skips THEN Sent(options[s]) ELSE phase[s]]
      /\ given' = [s \in SubIdx |->
                     IF s \in Takes THEN given[s] \o sub_values[s] ELSE given[s]]
      /\ sub_values' = [s \in SubIdx |->
                          IF s \in Takes THEN take_values(s) ELSE sub_values[s]]
      /\ IF Skips = {} THEN offset' = offset
         ELSE \E s \in Skips : offset' = IF phase[s] = "after" THEN "negative" ELSE "positive"
      /\ UNCHANGED <<timestamps, between, stored, subs, options, first, missed, pump>>

\* Without subscriptions send_out sleeps for soonest_offset as it is, and to sleep for a
\* negative time panics.
EmptyPass ==
  /\ pump
  /\ Subscriptions = {}
  /\ offset = "negative"
  /\ pump' = FALSE
  /\ UNCHANGED <<timestamps, between, stored, subVars, sub_values, phase, offset>>

Next ==
  \/ \E w \in Writers : Store(w) \/ \E t \in 1 .. MaxTime : Add(w, t)
  \/ \E s \in SubIdx :
       \/ \E o \in Options : Subscribe(s, o)
       \/ Unsubscribe(s) \/ Disconnect(s) \/ TimePasses(s)
  \/ Pass \/ EmptyPass

\* The tasks are polled, and time passes.
Fairness ==
  /\ WF_vars(Pass) /\ WF_vars(EmptyPass)
  /\ \A s \in SubIdx : WF_vars(TimePasses(s))

Spec     == Init /\ [][Next]_vars
FairSpec == Spec /\ Fairness

--------------------------------------------------------------------------------
\* What is checked

\* A subscription that does not ask for all values keeps one.
TypeOK ==
  /\ timestamps \in Seq(1 .. MaxTime) /\ Len(timestamps) <= MaxValues
  /\ between \in [Writers -> 0 .. Len(timestamps)]
  /\ stored \in 0 .. Len(timestamps)
  /\ subs \in [SubIdx -> {"none", "on", "left", "off"}]
  /\ options \in [SubIdx -> Options \cup {NoOptions}]
  /\ phase \in [SubIdx -> {Phases[k] : k \in DOMAIN Phases}]
  /\ sub_values \in [SubIdx -> Seq(Values)] /\ given \in [SubIdx -> Seq(Values)]
  /\ \A s \in SubIdx : options[s].all \/ Len(sub_values[s]) <= 1
  /\ first \in [SubIdx -> 0 .. MaxValues]
  /\ missed \in [SubIdx -> SUBSET Values]
  /\ pump \in BOOLEAN /\ offset \in {"tenth", "positive", "negative"}

\* The values that have been stored, or passed over for the one that was.
Settled == (1 .. Len(timestamps)) \ {between[w] : w \in Writers}

\* The topic's value is the newest of those set, in whatever order their writers came to
\* store them.
StoredIsNewest ==
  /\ stored = 0 => Settled = {}
  /\ stored # 0 => /\ stored \in Settled
                   /\ \A v \in Settled : timestamps[v] <= timestamps[stored]

\* What a subscription has been sent, and is to be sent, without the value it began with.
Followed(s) ==
  LET sent == given[s] \o sub_values[s]
  IN  IF sent # <<>> /\ sent[1] <= first[s] THEN Tail(sent) ELSE sent

\* No value set before v is later than it.  Of a value that comes too late a comment says
\* that to set it has no effect (handles.rs 141), and add_value keeps it: no property below
\* asks that it be sent, or that it be not.
InTime(v) == \A u \in 1 .. (v - 1) : timestamps[u] <= timestamps[v]

\* A subscription follows the values as they are set, from the moment it is made: none
\* twice, none out of order, and a value from before is only the one it began with.  With
\* `all` it is to have every value that is set in time, and without it the last of them or
\* what was set after that.
FollowsTopic ==
  \A s \in Subscriptions :
    LET f == Followed(s)
    IN  /\ \A k \in DOMAIN f : f[k] > first[s] /\ \A j \in 1 .. (k - 1) : f[j] < f[k]
        /\ \A v \in (first[s] + 1) .. Len(timestamps) :
             InTime(v) => IF options[s].all THEN \E k \in DOMAIN f : f[k] = v
                          ELSE f # <<>> /\ v <= f[Len(f)]

\* Once nobody sets it, the topic's value is the last that a subscription has had or is
\* to have.  Two things undo that: values that are not set in the order of their
\* timestamps, and a value that was between its two critical sections while the
\* subscription was made.
CaughtUp ==
  \A s \in Subscriptions :
    \/ \E w \in Writers : between[w] # 0
    \/ stored = 0
    \/ missed[s] # {}
    \/ \E v, u \in DOMAIN timestamps : v < u /\ timestamps[v] >= timestamps[u]
    \/ LET all == given[s] \o sub_values[s]
       IN  all # <<>> /\ all[Len(all)] = stored

\* What is added for a subscription goes out, but for one of topics only, while its client
\* is there and send_out has not been killed by the sleep of an empty pass.
ValuesGoOut ==
  \A s \in SubIdx :
    (sub_values[s] # <<>> /\ ~options[s].topics_only)
      ~> (sub_values[s] = <<>> \/ subs[s] # "on" \/ ~pump)
================================================================================
