--------------------------- MODULE MCRoutingTable ---------------------------
(* Instances of RoutingTable over 64 identifiers.  An odd identifier is    *)
(* never the midpoint of a bucket that is split in these instances, an     *)
(* even one may be.                                                        *)
EXTENDS RoutingTable

EdgeIds == {5, 3, 4, 6, 8, 9, 32, 33}
MidpointIds == {5, 9, 32, 51}
=============================================================================
