---------------------------- MODULE MCSpiderCrawl ----------------------------
(* Three peers and one or two values.                                       *)
EXTENDS SpiderCrawl

CONSTANTS v, w
TwoValues == {v, w}
OneValue == {v}
=============================================================================
