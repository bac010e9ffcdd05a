---------------------------- MODULE MCReplication ----------------------------
(* Small networks: a file, or two versions of it, on two to four servers.  *)
EXTENDS Replication

CONSTANTS v1, v2
OneValue == {v1}
TwoValues == {v1, v2}
TwoNodes == 1..2
ThreeNodes == 1..3
FourNodes == 1..4
FourPlaces == 1..4
NearestAlone == {1}

Maintain == {"upload", "republish", "trim"}
Republishing == {"upload", "republish", "push"}
AllOps == {"upload", "republish", "trim", "delete", "push"}
NoDeletes == AllOps \ {"delete"}
=============================================================================
