------------------------------- MODULE MCUiBridge -------------------------------
(* UiBridge with as many workers as can be alive at once: one per session,   *)
(* because each Bind may leave one of the previous session behind.           *)
EXTENDS UiBridge, TLC

CONSTANTS w1, w2, w3

WorkersTwo   == {w1, w2}
WorkersThree == {w1, w2, w3}

(* Workers are interchangeable in the safety properties. *)
Symmetry == Permutations(WorkersThree)
=================================================================================
