------------------------ MODULE MCRoutingTableThreads ------------------------
(* Two threads on one table.                                               *)
EXTENDS RoutingTableThreads, TLC

CONSTANTS t1, t2
TwoThreads == {t1, t2}
ThreadSymmetry == Permutations(TwoThreads)

\* A bucket that neither the table nor a thread has any more does not change and is read by
\* no step: states that differ in such buckets are one for TLC.
InUse(b) == b \in ToSet(order) \/ \E t \in Threads : held[t] = b
LiveView ==
    <<[b \in DOMAIN objects |-> IF InUse(b) THEN objects[b] ELSE Empty],
      order, at, node, call, index, held, halves, overwritten>>
=============================================================================
