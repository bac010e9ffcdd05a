------------------------------ MODULE Neighbors ------------------------------
(***************************************************************************)
(* RoutingTable.find_neighbors and the TableTraverser it walks the table   *)
(* with (src/kade_drive/core/routing.py), evaluated in every state the     *)
(* routing table reaches between two calls of add_contact.  The store, the *)
(* crawls, the replica count and the "am I alone" test start from it.      *)
(***************************************************************************)
EXTENDS RoutingTable, Bitwise

CONSTANT Keys       \* digests looked up, besides the identifiers of nodes

ASSUME KeysAssumption == Keys \subseteq 0..(IdBound - 1)

Targets == Ids \cup Keys

(***************************************************************************)
(* The buckets in the order TableTraverser visits them: the one of the     *)
(* target, then one below, one above, one below...  After a bucket below,  *)
(* only one above is tried: with none left, the traversal stops.           *)
(***************************************************************************)
Walk(i) ==
    LET walk[l \in 0..(i - 1), r \in (i + 1)..(Len(buckets) + 1), left \in BOOLEAN] ==
            IF left /\ l # 0
            THEN <<l>> \o walk[l - 1, r, FALSE]
            ELSE IF r <= Len(buckets)
                 THEN <<r>> \o walk[l, r + 1, TRUE]
                 ELSE <<>>
    IN  <<i>> \o walk[i - 1, i + 1, TRUE]

\* A bucket is emptied from its end: its newest contact comes first.
Traversed(target) ==
    LET walk == Walk(BucketFor(target))
    IN  FlattenSeq([j \in DOMAIN walk |-> Reverse(buckets[walk[j]].nodes)])

Distance(m, n) == m ^^ n

Sorted(S, target) ==
    SetToSortSeq(S, LAMBDA m, n : Distance(m, target) < Distance(n, target))

\* The traversal stops one node too early.
FindNeighborsMutant(target, k, exclude) ==
    LET eligible == SelectSeq(Traversed(target), LAMBDA n : n \notin {target, exclude})
    IN  Sorted(ToSet(SubSeq(eligible, 1, Min({k - 1, Len(eligible)}))), target)

\* The first k nodes traversed, in the order of their distance to the target.  The
\* node excluded is the one that asks; NoNode when nobody is.
FindNeighbors(target, k, exclude) ==
    LET eligible == SelectSeq(Traversed(target), LAMBDA n : n \notin {target, exclude})
    IN  Sorted(ToSet(SubSeq(eligible, 1, Min({k, Len(eligible)}))), target)

-----------------------------------------------------------------------------
(* Properties                                                              *)

\* Contacts that could be part of an answer about the target.
Candidates(target) == Contacts \ {target}

OwnContacts(target) == ToSet(buckets[BucketFor(target)].nodes) \ {target}

\* The ksize closest: no contact left out is closer than one of the answer.
Closest(answer, target) ==
    \A n \in Candidates(target) \ ToSet(answer) :
        /\ Len(answer) = KSize
        /\ \A m \in ToSet(answer) : Distance(m, target) < Distance(n, target)

\* Whenever the bucket of the target has a contact, the first node of the answer is the
\* contact of the whole table that is closest to the target (find_neighbors sorts only
\* what it traversed): a bucket is a subtree of the identifier space.
NearestAnsweredFirst ==
    pc = "idle" =>
        \A t \in Targets : OwnContacts(t) # {} =>
            LET first == Head(FindNeighbors(t, KSize, NoNode))
            IN  \A n \in Candidates(t) : Distance(first, t) <= Distance(n, t)

\* An empty answer means that the table has no other contact: _detect_alone, set_digest
\* and get take it for that, and fault-tolerance.md has a node that "runs out of
\* neighbors" listen to the broadcasts.  With an empty bucket at the top of the space
\* and an empty one below it, the traversal stops before the contacts further below.
AloneOnlyWithoutContacts ==
    pc = "idle" =>
        \A t \in Targets : FindNeighbors(t, KSize, NoNode) = <<>> => Candidates(t) = {}

\* The answer is the k closest contacts: wellcome_if_new says "For each key in storage,
\* get k closest nodes" of this call.
AnswersClosest ==
    pc = "idle" => \A t \in Targets : Closest(FindNeighbors(t, KSize, NoNode), t)
=============================================================================
