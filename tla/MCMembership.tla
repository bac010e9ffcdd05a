---------------------------- MODULE MCMembership ----------------------------
(* Two, three or four servers.                                             *)
EXTENDS Membership

CONSTANTS a, b, c, d
TwoServers == {a, b}
ThreeServers == {a, b, c}
FourServers == {a, b, c, d}
None == {}
OneKeeper == {a}
=============================================================================
