------------------------------ MODULE Registry -------------------------------
(***************************************************************************)
(* What the actor pool promises its users: a handle is issued for one      *)
(* actor only and is good until that actor is removed; it is never issued  *)
(* a second time, so that a handle kept too long finds nothing rather than *)
(* another actor.                                                          *)
(***************************************************************************)
CONSTANT Handles

VARIABLES
  issued,   \* the handles ever given out
  live      \* those whose actors have not been removed

Init == issued = {} /\ live = {}

Issue(h) ==
  /\ h \notin issued
  /\ issued' = issued \cup {h}
  /\ live' = live \cup {h}

Revoke(h) ==
  /\ h \in live
  /\ live' = live \ {h}
  /\ UNCHANGED issued

Next == \E h \in Handles : Issue(h) \/ Revoke(h)

Spec == Init /\ [][Next]_<<issued, live>>
=============================================================================
