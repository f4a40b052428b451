---------------------------- MODULE NameDirectory ----------------------------
(***************************************************************************)
(* What the server's topic tables promise peers about ids: a peer learns   *)
(* the id of a name once, in an Announce, and uses it from then on.  So at *)
(* any time an id stands for at most one name, and an id that has stood    *)
(* for a name that is gone never stands for a name again.                  *)
(*                                                                         *)
(* A comment says otherwise: a new topic "can overwrite a None", that is,  *)
(* take the index of one that is gone (inner.rs:132).  The code never      *)
(* does, and must not: no UnAnnounce is ever sent (un_announce_topics has  *)
(* no caller), so peers would take the id for that of the old topic.       *)
(***************************************************************************)
CONSTANTS Names, Ids, None

VARIABLES
  bound,    \* the id of each name, or None
  retired   \* the ids whose name is gone

vars == <<bound, retired>>

Used(b) == {b[n] : n \in Names} \ {None}

TypeOK ==
  /\ bound \in [Names -> Ids \cup {None}]
  /\ retired \subseteq Ids

OneNamePerId(b) == \A m, n \in Names : b[m] = b[n] /\ b[m] # None => m = n

Init ==
  /\ TypeOK
  /\ OneNamePerId(bound)
  /\ retired = {}

\* Names without an id get one that no name has or had.
Bind ==
  /\ bound' \in [Names -> Ids \cup {None}]
  /\ OneNamePerId(bound')
  /\ \A n \in Names : bound'[n] # bound[n] =>
        bound[n] = None /\ bound'[n] \notin Used(bound) \cup retired
  /\ UNCHANGED retired

\* Names lose their ids.
Unbind ==
  /\ bound' \in [Names -> Ids \cup {None}]
  /\ \A n \in Names : bound'[n] # bound[n] => bound'[n] = None
  /\ retired' = retired \cup (Used(bound) \ Used(bound'))

Next == Unbind \/ Bind

Spec == Init /\ [][Next]_vars
================================================================================
