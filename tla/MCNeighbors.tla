----------------------------- MODULE MCNeighbors -----------------------------
(* Instances of Neighbors over 64 identifiers; none of them is a midpoint. *)
(* The server of Low is at the bottom of the space, the one of High at its *)
(* top: the buckets of its table are above its own, or below it.           *)
EXTENDS Neighbors

MidIds == {21, 19, 29, 9, 35, 51, 55, 61}
HighIds == {61, 3, 35, 51, 59}
SomeKeys == {1, 17, 23, 43, 63}
=============================================================================
