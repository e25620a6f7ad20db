------------------------------ MODULE Sessions -------------------------------
(***************************************************************************)
(* What the server promises the people who connect to it, with nothing of  *)
(* sockets, telnet or rendering: each waits for a seat, is given one that  *)
(* nobody else has, keeps that seat for as long as the session lasts, and  *)
(* never comes back from having left.                                      *)
(***************************************************************************)
CONSTANTS
  Peers,   \* the people
  Slots,   \* the seats
  NoSlot   \* no seat

VARIABLES
  stage,   \* "away", "waiting", "seated" or "left", for each peer
  seat     \* the seat of each peer

vars == <<stage, seat>>

Stages == {"away", "waiting", "seated", "left"}

TypeOK ==
  /\ stage \in [Peers -> Stages]
  /\ seat \in [Peers -> Slots \cup {NoSlot}]

Init ==
  /\ stage = [p \in Peers |-> "away"]
  /\ seat = [p \in Peers |-> NoSlot]

Arrive(p) ==
  /\ stage[p] = "away"
  /\ stage' = [stage EXCEPT ![p] = "waiting"]
  /\ UNCHANGED seat

Sit(p, s) ==
  /\ stage[p] = "waiting"
  /\ \A q \in Peers : seat[q] # s
  /\ stage' = [stage EXCEPT ![p] = "seated"]
  /\ seat' = [seat EXCEPT ![p] = s]

(* Some of those waiting or seated leave; at shutdown, all of them. *)
Leave(group) ==
  /\ \A p \in group : stage[p] \in {"waiting", "seated"}
  /\ stage' = [p \in Peers |-> IF p \in group THEN "left" ELSE stage[p]]
  /\ seat' = [p \in Peers |-> IF p \in group THEN NoSlot ELSE seat[p]]

Next ==
  \/ \E p \in Peers : Arrive(p)
  \/ \E p \in Peers, s \in Slots : Sit(p, s)
  \/ \E group \in SUBSET Peers : Leave(group)

Spec == Init /\ [][Next]_vars
=============================================================================
