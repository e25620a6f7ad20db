------------------------------ MODULE MCServer -------------------------------
(* Server on small instances, for TLC. *)
EXTENDS ServerProps, TLC

(* Peers whose terminals are never resized are alike, and so are descriptors. *)
Others == Permutations(Peers \ Resizing) \cup Permutations(Fds)
OthersAndColours == Others \cup Permutations(Colours)

FirstSlot == {0}
FirstTwoSlots == {0, 1}
=============================================================================
