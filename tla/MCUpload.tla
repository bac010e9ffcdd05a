------------------------------ MODULE MCUpload ------------------------------
(* One file of two chunks, or two files that share a chunk or do not, on two *)
(* or three servers.                                                         *)
EXTENDS Upload

CONSTANTS f, g, x, y
TwoServers == 1..2
ThreeServers == 1..3
FourIds == 1..4
NoneMet == {}
OneFile == {f}
TwoFiles == {f, g}
TwoChunks == {x, y}

Alone == {[n \in OneFile |-> <<x, y>>]}
Single == {[n \in OneFile |-> <<x>>]}
AloneOrEmpty == {[n \in OneFile |-> q] : q \in {<<>>, <<x, y>>}}
Apart == {[n \in TwoFiles |-> IF n = f THEN <<x>> ELSE <<y>>]}
Sharing == {[n \in TwoFiles |-> IF n = f THEN <<x, y>> ELSE <<y>>]}
ApartOrSharing == Apart \cup Sharing

\* An identifier that is near to some keys is far from others.
Distances == [k \in Keys |-> [i \in Ids |-> IF k \in {f, x} THEN i ELSE 5 - i]]
=============================================================================
