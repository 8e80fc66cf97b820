------------------------------ MODULE MCBoundary -------------------------------
(* Boundary with a text that fills a command to the last byte allowed and   *)
(* one that is too long, numbers on both sides of every bound (-1 in four   *)
(* bytes is 2^32 - 1), and blobs with a byte that no text has.              *)
EXTENDS Boundary

NumbersSmall == -1..1
TextsSmall   == {<<>>, <<65>>, [i \in 1..39 |-> 66]}
BlobsSmall   == {<<>>, <<255, 1>>}

(* The theorem CodecRoundTrip, on this instance.                            *)
ASSUME RoundTripHolds == RoundTrip
===============================================================================
