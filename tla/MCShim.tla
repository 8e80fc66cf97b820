-------------------------------- MODULE MCShim --------------------------------
(* Shim with two event threads, so that one waits at callbackGate while the  *)
(* other is in the plugin, and two kinds, so that a plugin can leave one out. *)
EXTENDS Shim, TLC

CONSTANTS s1, s2, uiWorker, uiThread, k1, k2, p1

SourcesTwo == {s1, s2}
SourcesOne == {s1}
KindsTwo   == {k1, k2}
OneInstance == {p1}

(* The event threads are interchangeable, and so are the kinds. *)
Symmetry == Permutations(SourcesTwo) \cup Permutations(KindsTwo)
===============================================================================
