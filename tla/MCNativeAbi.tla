------------------------------ MODULE MCNativeAbi ------------------------------
(* NativeAbi with as many instance names as threads: each thread can be     *)
(* inside a start of its own while the others install and shut down theirs. *)
EXTENDS NativeAbi, TLC

CONSTANTS t1, t2, t3, p1, p2, p3

ThreadsThree   == {t1, t2, t3}
InstancesThree == {p1, p2, p3}
ThreadsTwo     == {t1, t2}
InstancesTwo   == {p1, p2}

(* Threads and instances are interchangeable in the safety properties. *)
Symmetry == Permutations(ThreadsThree) \cup Permutations(InstancesThree)
================================================================================
