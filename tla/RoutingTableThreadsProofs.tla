---------------------- MODULE RoutingTableThreadsProofs ----------------------
(***************************************************************************)
(* Proofs about RoutingTableThreads for any number of threads.             *)
(***************************************************************************)
EXTENDS RoutingTableThreads, Integers, SequenceTheorems, FiniteSetTheorems, WellFoundedInduction, TLAPS

(* A set of numbers has a smallest one: Nat is well-founded. *)
LEMMA SmallestNat ==
    ASSUME NEW T, T \subseteq Nat, T # {}
    PROVE  \E x \in T : \A y \in T : x <= y
<1>1. \E x \in T : \A y \in T : ~(<<y, x>> \in OpToRel(<, Nat))
  BY NatLessThanWellFounded, WFMin
<1>2. ASSUME NEW x \in Nat, NEW y \in Nat, ~(<<y, x>> \in OpToRel(<, Nat)) PROVE x <= y
  BY <1>2 DEF OpToRel
<1> QED BY <1>1, <1>2

-----------------------------------------------------------------------------
(* Buckets *)

LEMMA MaxReplacementType == RT!MaxReplacement \in Nat
BY TableAssumption DEF RT!MaxReplacement

(* The lower end of a range is at most one above its upper end. *)
RangeOK(b) == b.lo <= b.hi + 1

(* del d[n] leaves one key less. *)
LEMMA WithoutOK ==
    ASSUME NEW s \in Seq(Ids), NEW n
    PROVE  /\ RT!Without(s, n) \in Seq(Ids)
           /\ n \in RT!ToSet(s) => Len(RT!Without(s, n)) = Len(s) - 1
           /\ n \notin RT!ToSet(s) => RT!Without(s, n) = s
<1>1. CASE n \notin RT!ToSet(s)
  BY <1>1 DEF RT!Without
<1>2. CASE n \in RT!ToSet(s)
  <2> DEFINE i == CHOOSE j \in DOMAIN s : s[j] = n
  <2>1. i \in 1..Len(s)
    BY <1>2 DEF RT!ToSet
  <2>2. RT!Without(s, n) = RT!RemoveAt(s, i)
    BY <1>2 DEF RT!Without
  <2> HIDE DEF i
  <2>3. RT!RemoveAt(s, i) = SubSeq(s, 1, i - 1) \o SubSeq(s, i + 1, Len(s))
    BY DEF RT!RemoveAt
  <2>4. /\ SubSeq(s, 1, i - 1) \in Seq(Ids) /\ Len(SubSeq(s, 1, i - 1)) = i - 1
        /\ SubSeq(s, i + 1, Len(s)) \in Seq(Ids) /\ Len(SubSeq(s, i + 1, Len(s))) = Len(s) - i
    BY <2>1, SubSeqProperties
  <2> DEFINE l == SubSeq(s, 1, i - 1)
             r == SubSeq(s, i + 1, Len(s))
  <2>5. l \o r \in Seq(Ids) /\ Len(l \o r) = Len(l) + Len(r)
    <3>1. l \in Seq(Ids) /\ r \in Seq(Ids)
      BY <2>4
    <3> HIDE DEF l, r
    <3> QED BY <3>1, ConcatProperties
  <2>6. RT!Without(s, n) = l \o r
    BY <2>2, <2>3
  <2>7. Len(l) + Len(r) = Len(s) - 1
    <3>1. Len(s) \in Nat /\ Len(l) = i - 1 /\ Len(r) = Len(s) - i
      BY <2>4
    <3> HIDE DEF l, r
    <3> QED BY <2>1, <3>1
  <2> HIDE DEF l, r
  <2> QED BY <1>2, <2>5, <2>6, <2>7
<1> QED BY <1>1, <1>2

LEMMA SetKeyOK ==
    ASSUME NEW s \in Seq(Ids), NEW n \in Ids
    PROVE  RT!SetKey(s, n) \in Seq(Ids) /\ Len(RT!SetKey(s, n)) \in Len(s)..(Len(s) + 1)
BY DEF RT!SetKey

LEMMA AsNewestOK ==
    ASSUME NEW s \in Seq(Ids), NEW n \in Ids
    PROVE  /\ RT!AsNewest(s, n) \in Seq(Ids)
           /\ Len(RT!AsNewest(s, n)) = IF n \in RT!ToSet(s) THEN Len(s) ELSE Len(s) + 1
BY WithoutOK DEF RT!AsNewest

LEMMA NewestOK ==
    ASSUME NEW s \in Seq(Ids), NEW k \in Nat
    PROVE  RT!Newest(s, k) \in Seq(Ids)
<1>1. CASE Len(s) > k
  <2>1. SubSeq(s, Len(s) - k + 1, Len(s)) \in Seq(Ids)
    BY <1>1, SubSeqProperties
  <2> QED BY <1>1, <2>1 DEF RT!Newest
<1>2. CASE ~(Len(s) > k)
  BY <1>2 DEF RT!Newest
<1> QED BY <1>1, <1>2

(* add_node keeps the range, and adds a contact only while there is room. *)
LEMMA AddNodeOK ==
    ASSUME NEW b \in Bucket, NEW n \in Ids
    PROVE  /\ RT!AddNode(b, n) \in Bucket
           /\ RT!AddNode(b, n).lo = b.lo /\ RT!AddNode(b, n).hi = b.hi
           /\ Len(b.nodes) <= KSize => Len(RT!AddNode(b, n).nodes) <= KSize
<1> DEFINE spares == RT!Newest(RT!AsNewest(b.replacement, n), RT!MaxReplacement)
<1>1. b.nodes \in Seq(Ids) /\ b.replacement \in Seq(Ids)
  BY DEF Bucket
<1>2. CASE RT!Accepts(b, n)
  <2>1. RT!AddNode(b, n) = [b EXCEPT !.nodes = RT!AsNewest(b.nodes, n)]
    BY <1>2 DEF RT!AddNode
  <2>2. n \in RT!ToSet(b.nodes) \/ Len(b.nodes) < KSize
    BY <1>1, <1>2, TableAssumption DEF RT!Accepts, RT!IsNewIn, RT!Full
  <2>3. RT!AsNewest(b.nodes, n) \in Seq(Ids)
        /\ (Len(b.nodes) <= KSize => Len(RT!AsNewest(b.nodes, n)) <= KSize)
    BY <1>1, <2>2, AsNewestOK, TableAssumption
  <2> QED BY <2>1, <2>3 DEF Bucket
<1>3. CASE ~RT!Accepts(b, n)
  <2>1. RT!AddNode(b, n) = [b EXCEPT !.replacement = spares]
    BY <1>3 DEF RT!AddNode
  <2>2. spares \in Seq(Ids)
    BY <1>1, AsNewestOK, NewestOK, MaxReplacementType
  <2> HIDE DEF spares
  <2> QED BY <2>1, <2>2 DEF Bucket
<1> QED BY <1>2, <1>3

(* remove_node keeps the range, and never adds a contact. *)
LEMMA RemoveNodeOK ==
    ASSUME NEW b \in Bucket, NEW n \in Ids
    PROVE  /\ RT!RemoveNode(b, n) \in Bucket
           /\ RT!RemoveNode(b, n).lo = b.lo /\ RT!RemoveNode(b, n).hi = b.hi
           /\ Len(RT!RemoveNode(b, n).nodes) <= Len(b.nodes)
<1> DEFINE spare == RT!Without(b.replacement, n)
           kept  == RT!Without(b.nodes, n)
<1>1. b.nodes \in Seq(Ids) /\ b.replacement \in Seq(Ids)
  BY DEF Bucket
<1>2. /\ spare \in Seq(Ids) /\ kept \in Seq(Ids) /\ Len(kept) <= Len(b.nodes)
      /\ ~RT!IsNewIn(b, n) => Len(kept) = Len(b.nodes) - 1
  BY <1>1, WithoutOK DEF RT!IsNewIn
<1>3. RT!RemoveNode(b, n) =
        IF RT!IsNewIn(b, n) \/ spare = <<>>
        THEN [b EXCEPT !.replacement = spare, !.nodes = kept]
        ELSE [b EXCEPT !.replacement = RT!Front(spare), !.nodes = RT!SetKey(kept, RT!Last(spare))]
  BY DEF RT!RemoveNode
<1> HIDE DEF spare, kept
<1>4. CASE RT!IsNewIn(b, n) \/ spare = <<>>
  BY <1>2, <1>3, <1>4 DEF Bucket
<1>5. CASE ~(RT!IsNewIn(b, n) \/ spare = <<>>)
  <2>1. Len(spare) \in Nat \ {0} /\ spare[Len(spare)] \in Ids
    BY <1>2, <1>5, EmptySeq
  <2>2. RT!Front(spare) \in Seq(Ids) /\ RT!Last(spare) \in Ids
    <3>1. SubSeq(spare, 1, Len(spare) - 1) \in Seq(Ids)
      BY <1>2, <2>1, SubSeqProperties
    <3> QED BY <2>1, <3>1 DEF RT!Front, RT!Last
  <2>3. RT!SetKey(kept, RT!Last(spare)) \in Seq(Ids) /\ Len(RT!SetKey(kept, RT!Last(spare))) <= Len(b.nodes)
    <3>1. Len(kept) = Len(b.nodes) - 1 /\ Len(b.nodes) \in Nat
      BY <1>1, <1>2, <1>5
    <3>2. RT!SetKey(kept, RT!Last(spare)) \in Seq(Ids)
          /\ Len(RT!SetKey(kept, RT!Last(spare))) \in Len(kept)..(Len(kept) + 1)
      BY <1>2, <2>2, SetKeyOK
    <3> QED BY <3>1, <3>2
  <2> QED BY <1>3, <1>5, <2>2, <2>3 DEF Bucket
<1> QED BY <1>4, <1>5

(* The halves of a bucket begin empty; the upper one ends where the bucket does. *)
LEMMA StartSplitOK ==
    ASSUME NEW b \in Bucket, RangeOK(b)
    PROVE  LET s == RT!StartSplit(0, b)
           IN  /\ s.one \in Bucket /\ s.two \in Bucket
               /\ RangeOK(s.one) /\ RangeOK(s.two)
               /\ s.one.nodes = <<>> /\ s.two.nodes = <<>>
               /\ s.two.hi = b.hi
<1> DEFINE m == RT!Mid(b)
<1>1. b.lo \in 0..(RT!IdBound + 1) /\ b.hi \in 0..RT!IdBound /\ b.lo <= b.hi + 1 /\ RT!IdBound \in Nat
  BY TableAssumption DEF Bucket, RangeOK
<1>2. m \in 0..b.hi /\ b.lo <= m + 1
  BY <1>1 DEF RT!Mid
<1> DEFINE one == [lo |-> b.lo, hi |-> m, nodes |-> <<>>, replacement |-> <<>>]
           two == [lo |-> m + 1, hi |-> b.hi, nodes |-> <<>>, replacement |-> <<>>]
<1>3. RT!StartSplit(0, b).one = one /\ RT!StartSplit(0, b).two = two
  BY DEF RT!StartSplit, RT!NewBucket
<1> HIDE DEF m
<1>4. one \in Bucket /\ two \in Bucket
  BY <1>1, <1>2 DEF Bucket
<1>5. RangeOK(one) /\ RangeOK(two) /\ one.nodes = <<>> /\ two.nodes = <<>> /\ two.hi = b.hi
  BY <1>1, <1>2 DEF RangeOK
<1> HIDE DEF one, two
<1> QED BY <1>3, <1>4, <1>5

-----------------------------------------------------------------------------
(* The inductive invariant *)

(***************************************************************************)
(* What the place of a thread says of its locals: they name a node, an     *)
(* index of the table and a bucket once they are read; the halves never    *)
(* hold more than a bucket may, and the upper one ends where the bucket    *)
(* ends that is being split.                                               *)
(***************************************************************************)
ThreadOK(t) ==
    /\ at[t] \notin {"idle", "void"} => node[t] \in Ids
    /\ at[t] \notin {"idle", "void", "lookup"} => index[t] \in DOMAIN order
    /\ at[t] \notin {"idle", "void", "lookup", "fetch"} => held[t] \in DOMAIN objects
    /\ at[t] \in {"contacts", "spares"} => halves[t].two.hi = objects[held[t]].hi
    /\ RangeOK(halves[t].one) /\ RangeOK(halves[t].two)
    /\ Len(halves[t].one.nodes) <= KSize /\ Len(halves[t].two.nodes) <= KSize

ThreadsOK == \A t \in Threads : ThreadOK(t)

RangesOK == \A b \in DOMAIN objects : RangeOK(objects[b])

(* The threads that have found room in bucket b and not used it yet. *)
Inserting(b) == {t \in Threads : at[t] = "insert" /\ held[t] = b}

(* A thread adds to the excess of a bucket before it inserts, when it tests its length. *)
InsertsBounded ==
    \A b \in DOMAIN objects :
        Len(objects[b].nodes) + Cardinality(Inserting(b)) <= KSize + Cardinality(Threads) - 1

InTable(i) == i \in DOMAIN order /\ objects[order[i]].hi = RT!IdBound

InHand(t) == t \in Threads /\ at[t] = "splice" /\ halves[t].two.hi = RT!IdBound

(* The bucket at the top of the space is in the table, or a thread is about to insert it. *)
TopKept == overwritten \/ (\E i \in DOMAIN order : InTable(i)) \/ (\E t \in Threads : InHand(t))

IInv == TypeOK /\ RangesOK /\ ThreadsOK /\ InsertsBounded /\ TopKept

-----------------------------------------------------------------------------
(* Steps of one thread *)

(* The step is thread t's: it changes nobody else's locals. *)
Moves(t) ==
    /\ at' = [at EXCEPT ![t] = at'[t]]
    /\ node' = [node EXCEPT ![t] = node'[t]]
    /\ call' = [call EXCEPT ![t] = call'[t]]
    /\ index' = [index EXCEPT ![t] = index'[t]]
    /\ held' = [held EXCEPT ![t] = held'[t]]
    /\ halves' = [halves EXCEPT ![t] = halves'[t]]

CallNames == {"none", "is_new_node", "remove_contact", "add_contact"}

(* Buckets are objects: they are never deleted, and their ranges never change. *)
ObjectsGrow ==
    /\ objects' \in Seq(Bucket)
    /\ Len(objects) <= Len(objects')
    /\ \A b \in DOMAIN objects : objects'[b].lo = objects[b].lo /\ objects'[b].hi = objects[b].hi
    /\ \A b \in DOMAIN objects' \ DOMAIN objects : RangeOK(objects'[b])
    /\ order' \in Seq(DOMAIN objects')
    /\ Len(order) <= Len(order')

LEMMA NoHalvesOK ==
    /\ NoHalves \in Locals
    /\ RangeOK(NoHalves.one) /\ RangeOK(NoHalves.two)
    /\ Len(NoHalves.one.nodes) <= KSize /\ Len(NoHalves.two.nodes) <= KSize
<1>1. Empty \in Bucket /\ RangeOK(Empty) /\ Empty.nodes = <<>>
  BY TableAssumption DEF Empty, RT!NewBucket, Bucket, RangeOK
<1> QED BY <1>1, TableAssumption DEF NoHalves, Locals

(* What a thread's own locals must be after its step for all of them to be well formed. *)
LEMMA LocalsKept ==
    ASSUME TypeOK, RangesOK, ThreadsOK, NEW t \in Threads, Moves(t), ObjectsGrow,
           at'[t] \in Places, node'[t] \in Ids \cup {NoNode}, call'[t] \in CallNames,
           index'[t] \in 0..Len(order'), held'[t] \in 0..Len(objects'), halves'[t] \in Locals,
           overwritten' \in BOOLEAN,
           ThreadOK(t)'
    PROVE  TypeOK' /\ RangesOK' /\ ThreadsOK'
<1>1. TypeOK'
  <2>1. at' \in [Threads -> Places] /\ node' \in [Threads -> Ids \cup {NoNode}]
        /\ call' \in [Threads -> CallNames]
    BY DEF TypeOK, Moves, CallNames
  <2> DEFINE I == 0..Len(order')
             H == 0..Len(objects')
  <2>2. index' \in [Threads -> I]
    <3>1. index \in [Threads -> I] /\ index'[t] \in I
      BY DEF TypeOK, ObjectsGrow
    <3> HIDE DEF I
    <3> QED BY <3>1 DEF Moves
  <2>3. held' \in [Threads -> H]
    <3>1. held \in [Threads -> H] /\ held'[t] \in H
      BY DEF TypeOK, ObjectsGrow
    <3> HIDE DEF H
    <3> QED BY <3>1 DEF Moves
  <2>4. halves' \in [Threads -> Locals]
    BY DEF TypeOK, Moves
  <2> QED BY <2>1, <2>2, <2>3, <2>4 DEF TypeOK, ObjectsGrow, CallNames
<1>2. RangesOK'
  BY DEF RangesOK, ObjectsGrow, RangeOK
<1>3. ASSUME NEW u \in Threads, u # t PROVE ThreadOK(u)'
  <2>1. /\ at'[u] = at[u] /\ node'[u] = node[u] /\ index'[u] = index[u]
        /\ held'[u] = held[u] /\ halves'[u] = halves[u]
    BY <1>3 DEF TypeOK, Moves
  <2>2. ThreadOK(u)
    BY DEF ThreadsOK
  <2>3. /\ DOMAIN order \subseteq DOMAIN order' /\ DOMAIN objects \subseteq DOMAIN objects'
        /\ \A b \in DOMAIN objects : objects'[b].hi = objects[b].hi
    BY DEF TypeOK, ObjectsGrow
  <2> QED BY <2>1, <2>2, <2>3 DEF ThreadOK
<1> QED BY <1>1, <1>2, <1>3 DEF ThreadsOK

(* The step of a thread that begins a call. *)
LEMMA CallsOK ==
    ASSUME TypeOK, NEW t \in Threads, NEW c \in CallNames, NEW n \in Ids, Calls(t, c, n),
           ObjectsGrow
    PROVE  /\ Moves(t) /\ at'[t] = "lookup" /\ node'[t] = n /\ call'[t] = c
           /\ at'[t] \in Places /\ node'[t] \in Ids \cup {NoNode} /\ call'[t] \in CallNames
           /\ index'[t] \in 0..Len(order') /\ held'[t] \in 0..Len(objects') /\ halves'[t] \in Locals
           /\ ThreadOK(t)'
<1>1. /\ at' = [at EXCEPT ![t] = "lookup"] /\ node' = [node EXCEPT ![t] = n]
      /\ call' = [call EXCEPT ![t] = c] /\ index' = [index EXCEPT ![t] = 0]
      /\ held' = [held EXCEPT ![t] = 0] /\ halves' = [halves EXCEPT ![t] = NoHalves]
  BY DEF Calls, Goto
<1>2. /\ at'[t] = "lookup" /\ node'[t] = n /\ call'[t] = c /\ index'[t] = 0 /\ held'[t] = 0
      /\ halves'[t] = NoHalves
  BY <1>1 DEF TypeOK
<1>3. Len(order') \in Nat /\ Len(objects') \in Nat
  BY DEF ObjectsGrow
<1>4. ThreadOK(t)'
  BY <1>2, NoHalvesOK DEF ThreadOK
<1>5. Moves(t)
  BY <1>1, <1>2 DEF Moves
<1> QED BY <1>2, <1>3, <1>4, <1>5, NoHalvesOK DEF Places

(* The step of a thread that ends a call. *)
LEMMA EndsOK ==
    ASSUME TypeOK, NEW t \in Threads, NEW p \in {"idle", "void"}, Ends(t, p), ObjectsGrow
    PROVE  /\ Moves(t) /\ at'[t] = p
           /\ at'[t] \in Places /\ node'[t] \in Ids \cup {NoNode} /\ call'[t] \in CallNames
           /\ index'[t] \in 0..Len(order') /\ held'[t] \in 0..Len(objects') /\ halves'[t] \in Locals
           /\ ThreadOK(t)'
<1>1. /\ at' = [at EXCEPT ![t] = p] /\ node' = [node EXCEPT ![t] = NoNode]
      /\ call' = [call EXCEPT ![t] = "none"] /\ index' = [index EXCEPT ![t] = 0]
      /\ held' = [held EXCEPT ![t] = 0] /\ halves' = [halves EXCEPT ![t] = NoHalves]
  BY DEF Ends, Goto
<1>2. /\ at'[t] = p /\ node'[t] = NoNode /\ call'[t] = "none" /\ index'[t] = 0 /\ held'[t] = 0
      /\ halves'[t] = NoHalves
  BY <1>1 DEF TypeOK
<1>3. Len(order') \in Nat /\ Len(objects') \in Nat
  BY DEF ObjectsGrow
<1>4. ThreadOK(t)'
  BY <1>2, NoHalvesOK DEF ThreadOK
<1>5. Moves(t)
  BY <1>1, <1>2 DEF Moves
<1> QED BY <1>2, <1>3, <1>4, <1>5, NoHalvesOK DEF Places, CallNames

LEMMA InsertingFinite ==
    \A b : /\ Inserting(b) \subseteq Threads /\ Inserting(b)' \subseteq Threads
           /\ IsFiniteSet(Inserting(b)) /\ IsFiniteSet(Inserting(b)')
           /\ Cardinality(Inserting(b)) \in 0..Cardinality(Threads)
           /\ Cardinality(Inserting(b)') \in 0..Cardinality(Threads)
<1> SUFFICES ASSUME NEW b
             PROVE  /\ Inserting(b) \subseteq Threads /\ Inserting(b)' \subseteq Threads
                    /\ IsFiniteSet(Inserting(b)) /\ IsFiniteSet(Inserting(b)')
                    /\ Cardinality(Inserting(b)) \in 0..Cardinality(Threads)
                    /\ Cardinality(Inserting(b)') \in 0..Cardinality(Threads)
  OBVIOUS
<1>1. Inserting(b) \in SUBSET Threads /\ Inserting(b)' \in SUBSET Threads
  BY DEF Inserting
<1> QED BY <1>1, ThreadsAssumption, FS_Subset, FS_CardinalityType

LEMMA NodesLength ==
    ASSUME TypeOK, ObjectsGrow
    PROVE  /\ \A b \in DOMAIN objects : Len(objects[b].nodes) \in Nat
           /\ \A b \in DOMAIN objects' : Len(objects'[b].nodes) \in Nat
           /\ DOMAIN objects = 1..Len(objects) /\ DOMAIN objects' = 1..Len(objects')
           /\ DOMAIN objects \subseteq DOMAIN objects'
BY DEF TypeOK, ObjectsGrow, Bucket

(* A thread that does not get ready to insert, and no bucket that grows. *)
LEMMA InsertsKept ==
    ASSUME IInv, NEW t \in Threads, Moves(t), ObjectsGrow,
           \A b \in DOMAIN objects : Len(objects'[b].nodes) <= Len(objects[b].nodes),
           \A b \in DOMAIN objects' \ DOMAIN objects : Len(objects'[b].nodes) <= KSize,
           at'[t] # "insert"
    PROVE  InsertsBounded'
<1> SUFFICES ASSUME NEW b \in DOMAIN objects'
             PROVE  Len(objects'[b].nodes) + Cardinality(Inserting(b)') <= KSize + Cardinality(Threads) - 1
  BY DEF InsertsBounded
<1>1. Inserting(b)' \in SUBSET Inserting(b)
  <2>1. ASSUME NEW u \in Threads, u # t PROVE at'[u] = at[u] /\ held'[u] = held[u]
    BY <2>1 DEF Moves, IInv, TypeOK
  <2> QED BY <2>1 DEF Inserting
<1>2. Cardinality(Inserting(b)') <= Cardinality(Inserting(b))
  BY <1>1, InsertingFinite, FS_Subset
<1>3. /\ Cardinality(Inserting(b)') \in Nat /\ Cardinality(Inserting(b)) \in Nat
      /\ Cardinality(Threads) \in Nat /\ KSize \in Nat /\ Len(objects'[b].nodes) \in Nat
  BY InsertingFinite, ThreadsAssumption, FS_CardinalityType, TableAssumption, NodesLength DEF IInv
<1>4. CASE b \in DOMAIN objects
  <2>1. /\ Len(objects[b].nodes) + Cardinality(Inserting(b)) <= KSize + Cardinality(Threads) - 1
        /\ Len(objects'[b].nodes) <= Len(objects[b].nodes) /\ Len(objects[b].nodes) \in Nat
    BY <1>4, NodesLength DEF IInv, InsertsBounded
  <2> QED BY <1>2, <1>3, <2>1
<1>5. CASE b \notin DOMAIN objects
  <2>1. Inserting(b) = {}
    BY <1>5 DEF Inserting, IInv, ThreadsOK, ThreadOK
  <2>2. Cardinality(Inserting(b)') = 0
    BY <1>1, <2>1, FS_EmptySet
  <2>3. Cardinality(Threads) # 0
    BY ThreadsAssumption, FS_EmptySet
  <2>4. Len(objects'[b].nodes) <= KSize
    BY <1>5
  <2> QED BY <1>3, <2>2, <2>3, <2>4
<1> QED BY <1>4, <1>5

(* A thread that gets ready to insert has found room, or has just deleted the node. *)
LEMMA InsertsReady ==
    ASSUME IInv, NEW t \in Threads, Moves(t), ObjectsGrow, Len(objects') = Len(objects),
           at[t] # "insert", at'[t] = "insert", held[t] \in DOMAIN objects, held'[t] = held[t],
           \A b \in DOMAIN objects \ {held[t]} : objects'[b] = objects[b],
           \/ objects'[held[t]] = objects[held[t]] /\ Len(objects[held[t]].nodes) < KSize
           \/ Len(objects'[held[t]].nodes) = Len(objects[held[t]].nodes) - 1
    PROVE  InsertsBounded'
<1> SUFFICES ASSUME NEW b \in DOMAIN objects
             PROVE  Len(objects'[b].nodes) + Cardinality(Inserting(b)') <= KSize + Cardinality(Threads) - 1
  BY NodesLength DEF InsertsBounded, IInv
<1>0. ASSUME NEW u \in Threads, u # t PROVE at'[u] = at[u] /\ held'[u] = held[u]
  BY <1>0 DEF Moves, IInv, TypeOK
<1>1. /\ Cardinality(Inserting(b)') \in 0..Cardinality(Threads) /\ Cardinality(Inserting(b)) \in Nat
      /\ Cardinality(Threads) \in Nat /\ KSize \in Nat
      /\ Len(objects'[b].nodes) \in Nat /\ Len(objects[b].nodes) \in Nat
      /\ Len(objects[b].nodes) + Cardinality(Inserting(b)) <= KSize + Cardinality(Threads) - 1
  BY InsertingFinite, ThreadsAssumption, FS_CardinalityType, TableAssumption, NodesLength
     DEF IInv, InsertsBounded
<1>2. CASE b # held[t]
  <2>1. Inserting(b)' = Inserting(b)
    BY <1>0, <1>2 DEF Inserting
  <2> QED BY <1>1, <1>2, <2>1
<1>3. CASE b = held[t] /\ Len(objects'[b].nodes) < KSize
  BY <1>1, <1>3
<1>4. CASE b = held[t] /\ Len(objects'[b].nodes) = Len(objects[b].nodes) - 1
  <2>1. Inserting(b)' = Inserting(b) \cup {t} /\ t \notin Inserting(b)
    BY <1>0, <1>4 DEF Inserting
  <2>2. Cardinality(Inserting(b)') = Cardinality(Inserting(b)) + 1
    BY <2>1, InsertingFinite, FS_AddElement
  <2> QED BY <1>1, <1>4, <2>2, SMTT(30)
<1> QED BY <1>2, <1>3, <1>4

(* A thread that inserts uses what it has been counted for. *)
LEMMA InsertsDone ==
    ASSUME IInv, NEW t \in Threads, Moves(t), ObjectsGrow, Len(objects') = Len(objects),
           at[t] = "insert", at'[t] # "insert", held[t] \in DOMAIN objects,
           \A b \in DOMAIN objects \ {held[t]} : objects'[b] = objects[b],
           Len(objects'[held[t]].nodes) <= Len(objects[held[t]].nodes) + 1
    PROVE  InsertsBounded'
<1> SUFFICES ASSUME NEW b \in DOMAIN objects
             PROVE  Len(objects'[b].nodes) + Cardinality(Inserting(b)') <= KSize + Cardinality(Threads) - 1
  BY NodesLength DEF InsertsBounded, IInv
<1>0. ASSUME NEW u \in Threads, u # t PROVE at'[u] = at[u] /\ held'[u] = held[u]
  BY <1>0 DEF Moves, IInv, TypeOK
<1>1. /\ Cardinality(Inserting(b)') \in 0..Cardinality(Threads) /\ Cardinality(Inserting(b)) \in Nat
      /\ Cardinality(Threads) \in Nat /\ KSize \in Nat
      /\ Len(objects'[b].nodes) \in Nat /\ Len(objects[b].nodes) \in Nat
      /\ Len(objects[b].nodes) + Cardinality(Inserting(b)) <= KSize + Cardinality(Threads) - 1
  BY InsertingFinite, ThreadsAssumption, FS_CardinalityType, TableAssumption, NodesLength
     DEF IInv, InsertsBounded
<1>2. Inserting(b)' = Inserting(b) \ {t}
  BY <1>0 DEF Inserting
<1>3. CASE b # held[t]
  <2>1. t \notin Inserting(b)
    BY <1>3 DEF Inserting
  <2>2. Inserting(b)' = Inserting(b)
    BY <1>2, <2>1
  <2> QED BY <1>1, <1>3, <2>2
<1>4. CASE b = held[t]
  <2>1. t \in Inserting(b)
    BY <1>4 DEF Inserting
  <2>2. Cardinality(Inserting(b)') = Cardinality(Inserting(b)) - 1
    BY <1>2, <2>1, InsertingFinite, FS_RemoveElement
  <2>3. Len(objects'[b].nodes) <= Len(objects[b].nodes) + 1
    BY <1>4
  <2> QED BY <1>1, <2>2, <2>3, SMTT(30)
<1> QED BY <1>3, <1>4

(* A step that changes neither the table nor a thread between the writes of a split. *)
LEMMA TopStays ==
    ASSUME IInv, NEW t \in Threads, Moves(t), ObjectsGrow, order' = order,
           at[t] # "splice", overwritten' = overwritten
    PROVE  TopKept'
<1>1. CASE overwritten
  BY <1>1 DEF TopKept
<1>2. ASSUME NEW i \in DOMAIN order, InTable(i) PROVE TopKept'
  <2>1. order[i] \in DOMAIN objects
    BY DEF IInv, TypeOK
  <2>2. objects'[order[i]].hi = RT!IdBound
    BY <1>2, <2>1 DEF InTable, ObjectsGrow
  <2> QED BY <2>2 DEF TopKept, InTable
<1>3. ASSUME NEW u \in Threads, InHand(u) PROVE TopKept'
  <2>1. u # t
    BY <1>3 DEF InHand
  <2>2. at'[u] = at[u] /\ halves'[u] = halves[u]
    BY <2>1 DEF Moves, IInv, TypeOK
  <2> QED BY <1>3, <2>2 DEF TopKept, InHand
<1> QED BY <1>1, <1>2, <1>3 DEF IInv, TopKept

(* A step that leaves the table alone. *)
LEMMA NothingGrows ==
    ASSUME TypeOK, objects' = objects, order' = order
    PROVE  ObjectsGrow
BY DEF TypeOK, ObjectsGrow

(* A call that begins, goes on with another one, or ends, when the table is left alone. *)
LEMMA QuietCall ==
    ASSUME IInv, NEW t \in Threads, at[t] # "splice",
           objects' = objects, order' = order, overwritten' = overwritten,
           \/ \E c \in CallNames, n \in Ids : Calls(t, c, n)
           \/ \E p \in {"idle", "void"} : Ends(t, p)
    PROVE  IInv'
<1>1. ObjectsGrow /\ TypeOK /\ overwritten \in BOOLEAN
  BY NothingGrows DEF IInv, TypeOK
<1>2. /\ Moves(t) /\ at'[t] # "insert"
      /\ at'[t] \in Places /\ node'[t] \in Ids \cup {NoNode} /\ call'[t] \in CallNames
      /\ index'[t] \in 0..Len(order') /\ held'[t] \in 0..Len(objects') /\ halves'[t] \in Locals
      /\ ThreadOK(t)'
  <2>1. CASE \E c \in CallNames, n \in Ids : Calls(t, c, n)
    BY <1>1, <2>1, CallsOK
  <2>2. CASE \E p \in {"idle", "void"} : Ends(t, p)
    BY <1>1, <2>2, EndsOK
  <2> QED BY <2>1, <2>2
<1>3. TypeOK' /\ RangesOK' /\ ThreadsOK'
  BY <1>1, <1>2, LocalsKept DEF IInv
<1>4. InsertsBounded'
  BY <1>1, <1>2, InsertsKept, NodesLength
<1>5. TopKept'
  BY <1>1, <1>2, TopStays
<1> QED BY <1>3, <1>4, <1>5 DEF IInv

(* A step that changes nothing but where its thread is, what it holds, or its index. *)
LEMMA QuietStep ==
    ASSUME IInv, NEW t \in Threads, at[t] # "splice", NEW p \in Places \ {"insert"},
           objects' = objects, order' = order, overwritten' = overwritten,
           UNCHANGED <<node, call>>, Goto(t, p),
           index' = [index EXCEPT ![t] = index'[t]], held' = [held EXCEPT ![t] = held'[t]],
           halves' = [halves EXCEPT ![t] = halves'[t]],
           index'[t] \in 0..Len(order), held'[t] \in 0..Len(objects), halves'[t] \in Locals,
           ThreadOK(t)'
    PROVE  IInv'
<1>1. ObjectsGrow /\ TypeOK /\ overwritten \in BOOLEAN
  BY NothingGrows DEF IInv, TypeOK
<1>2. /\ at' = [at EXCEPT ![t] = at'[t]] /\ at'[t] = p
      /\ node' = [node EXCEPT ![t] = node'[t]] /\ node'[t] = node[t]
      /\ call' = [call EXCEPT ![t] = call'[t]] /\ call'[t] = call[t]
  BY <1>1 DEF Goto, TypeOK
<1>3. Moves(t)
  BY <1>2 DEF Moves
<1>4. TypeOK' /\ RangesOK' /\ ThreadsOK'
  <2>1. node'[t] \in Ids \cup {NoNode} /\ call'[t] \in CallNames /\ at'[t] \in Places
    BY <1>1, <1>2 DEF TypeOK, CallNames
  <2> QED BY <1>1, <1>3, <2>1, LocalsKept DEF IInv
<1>5. InsertsBounded'
  BY <1>1, <1>2, <1>3, InsertsKept, NodesLength
<1>6. TopKept'
  BY <1>1, <1>3, TopStays
<1> QED BY <1>4, <1>5, <1>6 DEF IInv

-----------------------------------------------------------------------------
(* The invariant is inductive: one lemma per action *)

LEMMA BeginHolds ==
    ASSUME IInv, NEW t \in Threads, Begin(t), overwritten' = overwritten
    PROVE  IInv'
<1>1. PICK n \in Ids \ {Self}, c \in {"is_new_node", "remove_contact"} : Calls(t, c, n)
  BY DEF Begin
<1>2. c \in CallNames
  BY DEF CallNames
<1> QED BY <1>1, <1>2, QuietCall DEF Begin

(* get_bucket_for returns an index of the table. *)
LEMMA BucketForOK ==
    ASSUME TypeOK, NEW n \in Ids, RT!HasBucket(n)
    PROVE  RT!BucketFor(n) \in DOMAIN order
<1> DEFINE above == {i \in DOMAIN order : n < Table[i].hi}
<1>1. DOMAIN Table = DOMAIN order /\ above \subseteq Nat
  BY DEF TypeOK, Table
<1>2. above # {}
  BY <1>1 DEF RT!HasBucket
<1>3. PICK i \in above : \A j \in above : i <= j
  <2> HIDE DEF above
  <2> QED BY <1>1, <1>2, SmallestNat
<1>4. ASSUME NEW j \in 1..(i - 1) PROVE n >= Table[j].hi
  <2>1. j \in DOMAIN order /\ ~(i <= j) /\ i \in Nat
    BY <1>1, <1>3 DEF TypeOK
  <2>2. Table[j].hi \in Nat /\ n \in Nat
    <3>1. order[j] \in DOMAIN objects /\ Table[j] = objects[order[j]]
      BY <2>1 DEF TypeOK, Table
    <3>2. Table[j] \in Bucket
      BY <3>1 DEF TypeOK
    <3> QED BY <3>2, TableAssumption DEF Bucket
  <2> QED BY <1>3, <2>1, <2>2
<1>5. i \in DOMAIN Table /\ n < Table[i].hi
  BY <1>1, <1>3
<1> HIDE DEF above
<1> QED BY <1>1, <1>4, <1>5 DEF RT!BucketFor

LEMMA LookupHolds ==
    ASSUME IInv, NEW t \in Threads, Lookup(t), overwritten' = overwritten
    PROVE  IInv'
<1>1. TypeOK /\ ThreadOK(t) /\ at[t] = "lookup" /\ node[t] \in Ids
  BY DEF IInv, ThreadsOK, ThreadOK, Lookup
<1>2. CASE RT!HasBucket(node[t])
  <2>1. RT!BucketFor(node[t]) \in DOMAIN order
    BY <1>1, <1>2, BucketForOK
  <2> DEFINE i == RT!BucketFor(node[t])
  <2>2. /\ objects' = objects /\ order' = order
        /\ index' = [index EXCEPT ![t] = i] /\ Goto(t, "fetch")
        /\ node' = node /\ call' = call /\ held' = held /\ halves' = halves
    BY <1>2 DEF Lookup
  <2> HIDE DEF i
  <2>3. /\ index'[t] = i /\ at'[t] = "fetch" /\ held'[t] \in 0..Len(objects) /\ halves'[t] \in Locals
        /\ held' = [held EXCEPT ![t] = held'[t]] /\ halves' = [halves EXCEPT ![t] = halves'[t]]
    BY <1>1, <2>2 DEF TypeOK, Goto
  <2>4. i \in 0..Len(order)
    BY <1>1, <2>1 DEF TypeOK, i
  <2>5. ThreadOK(t)'
    BY <1>1, <2>1, <2>2, <2>3 DEF ThreadOK, i
  <2> QED BY <1>1, <2>2, <2>3, <2>4, <2>5, QuietStep DEF Places
<1>3. CASE ~RT!HasBucket(node[t])
  BY <1>1, <1>3, QuietCall DEF Lookup
<1> QED BY <1>2, <1>3

LEMMA TestNewHolds ==
    ASSUME IInv, NEW t \in Threads, TestNew(t), overwritten' = overwritten
    PROVE  IInv'
<1>1. at[t] = "fetch" /\ node[t] \in Ids /\ "add_contact" \in CallNames
  BY DEF IInv, ThreadsOK, ThreadOK, TestNew, CallNames
<1> QED BY <1>1, QuietCall DEF TestNew

LEMMA FetchHolds ==
    ASSUME IInv, NEW t \in Threads, Fetch(t), overwritten' = overwritten
    PROVE  IInv'
<1>1. TypeOK /\ ThreadOK(t) /\ at[t] = "fetch" /\ node[t] \in Ids /\ index[t] \in DOMAIN order
  BY DEF IInv, ThreadsOK, ThreadOK, Fetch
<1>2. order[index[t]] \in DOMAIN objects /\ DOMAIN objects = 1..Len(objects)
  BY <1>1 DEF TypeOK
<1>3. /\ objects' = objects /\ order' = order
      /\ held' = [held EXCEPT ![t] = order[index[t]]] /\ Goto(t, "add")
      /\ node' = node /\ call' = call /\ index' = index /\ halves' = halves
  BY DEF Fetch
<1>4. /\ held'[t] = order[index[t]] /\ at'[t] = "add"
      /\ index'[t] \in 0..Len(order) /\ halves'[t] \in Locals
      /\ index' = [index EXCEPT ![t] = index'[t]] /\ halves' = [halves EXCEPT ![t] = halves'[t]]
  BY <1>1, <1>3 DEF TypeOK, Goto
<1>5. ThreadOK(t)'
  BY <1>1, <1>2, <1>3, <1>4 DEF ThreadOK
<1>6. held' = [held EXCEPT ![t] = held'[t]]
  BY <1>3, <1>4
<1>7. held'[t] \in 0..Len(objects)
  <2>1. order[index[t]] \in 1..Len(objects)
    BY <1>2
  <2> QED BY <1>4, <2>1
<1>8. "add" \in Places \ {"insert"}
  BY DEF Places
<1> QED BY <1>1, <1>3, <1>4, <1>5, <1>6, <1>7, <1>8, QuietStep

(* A step of add_node or remove_node changes one bucket and not its range. *)
LEMMA OneGrows ==
    ASSUME IInv, NEW h \in DOMAIN objects, NEW b \in Bucket,
           b.lo = objects[h].lo, b.hi = objects[h].hi,
           objects' = [objects EXCEPT ![h] = b], order' = order
    PROVE  /\ ObjectsGrow /\ Len(objects') = Len(objects) /\ DOMAIN objects' = DOMAIN objects
           /\ objects'[h] = b
           /\ \A c \in DOMAIN objects \ {h} : objects'[c] = objects[c]
<1>1. objects \in Seq(Bucket) /\ order \in Seq(DOMAIN objects) /\ RangesOK
  BY DEF IInv, TypeOK
<1>2. /\ objects' \in Seq(Bucket) /\ Len(objects') = Len(objects) /\ DOMAIN objects' = DOMAIN objects
      /\ objects'[h] = b /\ \A c \in DOMAIN objects \ {h} : objects'[c] = objects[c]
  BY <1>1
<1> QED BY <1>1, <1>2 DEF ObjectsGrow

(* The bucket a thread holds. *)
LEMMA HeldOK ==
    ASSUME IInv, NEW t \in Threads, at[t] \notin {"idle", "void", "lookup", "fetch"}
    PROVE  /\ held[t] \in DOMAIN objects /\ objects[held[t]] \in Bucket /\ RangeOK(objects[held[t]])
           /\ objects[held[t]].nodes \in Seq(Ids) /\ objects[held[t]].replacement \in Seq(Ids)
           /\ node[t] \in Ids /\ index[t] \in DOMAIN order
<1>1. held[t] \in DOMAIN objects /\ node[t] \in Ids /\ index[t] \in DOMAIN order
  BY DEF IInv, ThreadsOK, ThreadOK
<1>2. objects[held[t]] \in Bucket
  BY <1>1 DEF IInv, TypeOK
<1> QED BY <1>1, <1>2 DEF IInv, RangesOK, Bucket

LEMMA RemoveNodeHolds ==
    ASSUME IInv, NEW t \in Threads, RemoveNodeStep(t), overwritten' = overwritten
    PROVE  IInv'
<1> DEFINE h == order[index[t]]
           b == RT!RemoveNode(objects[h], node[t])
<1>1. TypeOK /\ at[t] = "fetch" /\ node[t] \in Ids /\ index[t] \in DOMAIN order
  BY DEF IInv, ThreadsOK, ThreadOK, RemoveNodeStep
<1>2. h \in DOMAIN objects /\ objects[h] \in Bucket
  BY <1>1 DEF TypeOK
<1>3. /\ b \in Bucket /\ b.lo = objects[h].lo /\ b.hi = objects[h].hi
      /\ Len(b.nodes) <= Len(objects[h].nodes)
  BY <1>1, <1>2, RemoveNodeOK
<1>4. objects' = [objects EXCEPT ![h] = b] /\ order' = order /\ Ends(t, "idle")
  BY DEF RemoveNodeStep
<1> HIDE DEF h, b
<1>5. /\ ObjectsGrow /\ Len(objects') = Len(objects) /\ DOMAIN objects' = DOMAIN objects
      /\ objects'[h] = b /\ \A c \in DOMAIN objects \ {h} : objects'[c] = objects[c]
  BY <1>2, <1>3, <1>4, OneGrows
<1>6. /\ Moves(t) /\ at'[t] = "idle"
      /\ at'[t] \in Places /\ node'[t] \in Ids \cup {NoNode} /\ call'[t] \in CallNames
      /\ index'[t] \in 0..Len(order') /\ held'[t] \in 0..Len(objects') /\ halves'[t] \in Locals
      /\ ThreadOK(t)'
  BY <1>1, <1>4, <1>5, EndsOK
<1>7. TypeOK' /\ RangesOK' /\ ThreadsOK'
  BY <1>1, <1>5, <1>6, LocalsKept DEF IInv, TypeOK
<1>8. InsertsBounded'
  <2>1. \A c \in DOMAIN objects : Len(objects'[c].nodes) <= Len(objects[c].nodes)
    BY <1>1, <1>3, <1>5, NodesLength
  <2> QED BY <1>5, <1>6, <2>1, InsertsKept
<1>9. TopKept'
  BY <1>1, <1>4, <1>5, <1>6, TopStays
<1> QED BY <1>7, <1>8, <1>9 DEF IInv

LEMMA AddTestHolds ==
    ASSUME IInv, NEW t \in Threads, AddTest(t), overwritten' = overwritten
    PROVE  IInv'
<1> DEFINE b == objects[held[t]]
           p == IF ~RT!IsNewIn(b, node[t]) THEN "refresh" ELSE IF RT!Full(b) THEN "spare" ELSE "insert"
<1>1. TypeOK /\ ThreadOK(t) /\ at[t] = "add"
  BY DEF IInv, ThreadsOK, AddTest
<1>2. held[t] \in DOMAIN objects /\ node[t] \in Ids /\ index[t] \in DOMAIN order
  BY <1>1, HeldOK
<1>3. /\ objects' = objects /\ order' = order /\ Goto(t, p)
      /\ node' = node /\ call' = call /\ index' = index /\ held' = held /\ halves' = halves
  BY DEF AddTest
<1>4. p = "insert" => Len(b.nodes) < KSize
  <2>1. Len(b.nodes) \in Nat
    BY <1>1, HeldOK
  <2> QED BY <2>1, TableAssumption DEF RT!Full
<1>5. p \in {"refresh", "spare", "insert"}
  OBVIOUS
<1> HIDE DEF p, b
<1>6. /\ at'[t] = p /\ node'[t] = node[t] /\ call'[t] = call[t] /\ index'[t] = index[t]
      /\ held'[t] = held[t] /\ halves'[t] = halves[t]
  BY <1>1, <1>3 DEF TypeOK, Goto
<1>7. Moves(t)
  BY <1>1, <1>3, <1>6 DEF Moves, Goto, TypeOK
<1>8. ObjectsGrow
  BY <1>1, <1>3, NothingGrows
<1>9. ThreadOK(t)'
  BY <1>1, <1>2, <1>3, <1>5, <1>6 DEF ThreadOK
<1>10. TypeOK' /\ RangesOK' /\ ThreadsOK'
  <2>1. at'[t] \in Places
    BY <1>5, <1>6 DEF Places
  <2>2. /\ node'[t] \in Ids \cup {NoNode} /\ call'[t] \in CallNames
        /\ index'[t] \in 0..Len(order') /\ held'[t] \in 0..Len(objects') /\ halves'[t] \in Locals
        /\ overwritten' \in BOOLEAN
    BY <1>1, <1>3, <1>6 DEF TypeOK, CallNames
  <2> QED BY <1>1, <1>7, <1>8, <1>9, <2>1, <2>2, LocalsKept DEF IInv
<1>11. InsertsBounded'
  <2>1. CASE p = "insert"
    BY <1>1, <1>2, <1>3, <1>4, <1>6, <1>7, <1>8, <2>1, InsertsReady DEF b
  <2>2. CASE p # "insert"
    BY <1>1, <1>3, <1>6, <1>7, <1>8, <2>2, InsertsKept, NodesLength
  <2> QED BY <2>1, <2>2
<1>12. TopKept'
  BY <1>1, <1>3, <1>7, <1>8, TopStays
<1> QED BY <1>10, <1>11, <1>12 DEF IInv

(* A step of add_node on the bucket a thread holds, after which it goes on with its call. *)
LEMMA HeldStep ==
    ASSUME IInv, NEW t \in Threads, at[t] \in {"refresh", "spare"}, NEW p \in {"insert", "choose"},
           NEW b \in Bucket, b.lo = objects[held[t]].lo, b.hi = objects[held[t]].hi,
           objects' = [objects EXCEPT ![held[t]] = b], order' = order, overwritten' = overwritten,
           Goto(t, p), UNCHANGED <<node, call, index, held, halves>>
    PROVE  /\ TypeOK' /\ RangesOK' /\ ThreadsOK' /\ TopKept'
           /\ Moves(t) /\ ObjectsGrow /\ Len(objects') = Len(objects) /\ DOMAIN objects' = DOMAIN objects
           /\ at'[t] = p /\ held'[t] = held[t] /\ objects'[held[t]] = b
           /\ \A c \in DOMAIN objects \ {held[t]} : objects'[c] = objects[c]
<1>1. TypeOK /\ ThreadOK(t) /\ held[t] \in DOMAIN objects /\ node[t] \in Ids /\ index[t] \in DOMAIN order
  BY HeldOK DEF IInv, ThreadsOK
<1>2. /\ ObjectsGrow /\ Len(objects') = Len(objects) /\ DOMAIN objects' = DOMAIN objects
      /\ objects'[held[t]] = b
      /\ \A c \in DOMAIN objects \ {held[t]} : objects'[c] = objects[c]
  BY <1>1, OneGrows
<1>3. /\ at'[t] = p /\ node'[t] = node[t] /\ call'[t] = call[t] /\ index'[t] = index[t]
      /\ held'[t] = held[t] /\ halves'[t] = halves[t]
  BY <1>1 DEF TypeOK, Goto
<1>4. Moves(t)
  BY <1>1, <1>3 DEF Moves, Goto, TypeOK
<1>5. ThreadOK(t)'
  BY <1>1, <1>2, <1>3 DEF ThreadOK
<1>6. TypeOK' /\ RangesOK' /\ ThreadsOK'
  <2>1. at'[t] \in Places
    BY <1>3 DEF Places
  <2>2. /\ node'[t] \in Ids \cup {NoNode} /\ call'[t] \in CallNames
        /\ index'[t] \in 0..Len(order') /\ held'[t] \in 0..Len(objects') /\ halves'[t] \in Locals
        /\ overwritten' \in BOOLEAN
    BY <1>1, <1>2, <1>3 DEF TypeOK, CallNames
  <2> QED BY <1>1, <1>2, <1>4, <1>5, <2>1, <2>2, LocalsKept DEF IInv
<1>7. TopKept'
  BY <1>2, <1>4, TopStays
<1> QED BY <1>2, <1>3, <1>4, <1>6, <1>7

LEMMA AddRefreshHolds ==
    ASSUME IInv, NEW t \in Threads, AddRefresh(t), overwritten' = overwritten
    PROVE  IInv'
<1> DEFINE h == held[t]
           b == [objects[h] EXCEPT !.nodes = RT!Without(@, node[t])]
<1>1. at[t] = "refresh" /\ h \in DOMAIN objects /\ objects[h] \in Bucket /\ objects[h].nodes \in Seq(Ids)
  BY HeldOK DEF AddRefresh
<1>2. CASE RT!IsNewIn(objects[h], node[t])
  BY <1>1, <1>2, QuietCall DEF AddRefresh
<1>3. CASE ~RT!IsNewIn(objects[h], node[t])
  <2>1. /\ RT!Without(objects[h].nodes, node[t]) \in Seq(Ids)
        /\ Len(RT!Without(objects[h].nodes, node[t])) = Len(objects[h].nodes) - 1
    BY <1>1, <1>3, WithoutOK DEF RT!IsNewIn
  <2>2. /\ b \in Bucket /\ b.lo = objects[h].lo /\ b.hi = objects[h].hi
        /\ b.nodes = RT!Without(objects[h].nodes, node[t])
    BY <1>1, <2>1 DEF Bucket
  <2>3. /\ objects' = [objects EXCEPT ![h] = b] /\ order' = order
        /\ Goto(t, "insert") /\ UNCHANGED <<node, call, index, held, halves>>
    BY <1>3 DEF AddRefresh, Holds
  <2> HIDE DEF b
  <2>4. /\ TypeOK' /\ RangesOK' /\ ThreadsOK' /\ TopKept'
        /\ Moves(t) /\ ObjectsGrow /\ Len(objects') = Len(objects)
        /\ at'[t] = "insert" /\ held'[t] = held[t] /\ objects'[held[t]] = b
        /\ \A c \in DOMAIN objects \ {held[t]} : objects'[c] = objects[c]
    BY <1>1, <2>2, <2>3, HeldStep
  <2>5. InsertsBounded'
    BY <1>1, <2>1, <2>2, <2>4, InsertsReady
  <2> QED BY <2>4, <2>5 DEF IInv
<1> QED BY <1>2, <1>3

LEMMA AddInsertHolds ==
    ASSUME IInv, NEW t \in Threads, AddInsert(t), overwritten' = overwritten
    PROVE  IInv'
<1> DEFINE h == held[t]
           b == [objects[h] EXCEPT !.nodes = RT!SetKey(@, node[t])]
<1>1. /\ TypeOK /\ at[t] = "insert" /\ h \in DOMAIN objects /\ objects[h] \in Bucket
      /\ objects[h].nodes \in Seq(Ids) /\ node[t] \in Ids
  BY HeldOK DEF AddInsert, IInv
<1>2. /\ RT!SetKey(objects[h].nodes, node[t]) \in Seq(Ids)
      /\ Len(RT!SetKey(objects[h].nodes, node[t])) <= Len(objects[h].nodes) + 1
  BY <1>1, SetKeyOK
<1>3. /\ b \in Bucket /\ b.lo = objects[h].lo /\ b.hi = objects[h].hi
      /\ Len(b.nodes) <= Len(objects[h].nodes) + 1
  BY <1>1, <1>2 DEF Bucket
<1>4. objects' = [objects EXCEPT ![h] = b] /\ order' = order /\ Ends(t, "idle")
  BY DEF AddInsert, Holds
<1> HIDE DEF b
<1>5. /\ ObjectsGrow /\ Len(objects') = Len(objects) /\ DOMAIN objects' = DOMAIN objects
      /\ objects'[h] = b /\ \A c \in DOMAIN objects \ {h} : objects'[c] = objects[c]
  BY <1>1, <1>3, <1>4, OneGrows
<1>6. /\ Moves(t) /\ at'[t] = "idle"
      /\ at'[t] \in Places /\ node'[t] \in Ids \cup {NoNode} /\ call'[t] \in CallNames
      /\ index'[t] \in 0..Len(order') /\ held'[t] \in 0..Len(objects') /\ halves'[t] \in Locals
      /\ ThreadOK(t)'
  BY <1>1, <1>4, <1>5, EndsOK
<1>7. TypeOK' /\ RangesOK' /\ ThreadsOK'
  BY <1>1, <1>5, <1>6, LocalsKept DEF IInv, TypeOK
<1>8. InsertsBounded'
  BY <1>1, <1>3, <1>5, <1>6, InsertsDone
<1>9. TopKept'
  BY <1>1, <1>4, <1>5, <1>6, TopStays
<1> QED BY <1>7, <1>8, <1>9 DEF IInv

LEMMA AddSpareHolds ==
    ASSUME IInv, NEW t \in Threads, AddSpare(t), overwritten' = overwritten
    PROVE  IInv'
<1> DEFINE h == held[t]
           b == [objects[h] EXCEPT !.replacement = RT!Newest(RT!AsNewest(@, node[t]), RT!MaxReplacement)]
<1>1. /\ TypeOK /\ at[t] = "spare" /\ h \in DOMAIN objects /\ objects[h] \in Bucket
      /\ objects[h].replacement \in Seq(Ids) /\ node[t] \in Ids
  BY HeldOK DEF AddSpare, IInv
<1>2. RT!Newest(RT!AsNewest(objects[h].replacement, node[t]), RT!MaxReplacement) \in Seq(Ids)
  BY <1>1, AsNewestOK, NewestOK, MaxReplacementType
<1>3. b \in Bucket /\ b.lo = objects[h].lo /\ b.hi = objects[h].hi /\ b.nodes = objects[h].nodes
  BY <1>1, <1>2 DEF Bucket
<1>4. /\ objects' = [objects EXCEPT ![h] = b] /\ order' = order /\ Goto(t, "choose")
      /\ UNCHANGED <<node, call, index, held, halves>>
  BY DEF AddSpare, Holds
<1> HIDE DEF b
<1>5. /\ TypeOK' /\ RangesOK' /\ ThreadsOK' /\ TopKept'
      /\ Moves(t) /\ ObjectsGrow /\ DOMAIN objects' = DOMAIN objects
      /\ at'[t] = "choose" /\ objects'[h] = b
      /\ \A c \in DOMAIN objects \ {h} : objects'[c] = objects[c]
  BY <1>1, <1>3, <1>4, HeldStep
<1>6. \A c \in DOMAIN objects : Len(objects'[c].nodes) <= Len(objects[c].nodes)
  BY <1>1, <1>3, <1>5, NodesLength
<1>7. InsertsBounded'
  BY <1>5, <1>6, InsertsKept
<1> QED BY <1>5, <1>7 DEF IInv

LEMMA ChooseSplitHolds ==
    ASSUME IInv, NEW t \in Threads, ChooseSplit(t), overwritten' = overwritten
    PROVE  IInv'
<1>1. TypeOK /\ ThreadOK(t) /\ at[t] = "choose"
  BY DEF IInv, ThreadsOK, ChooseSplit
<1>2. held[t] \in DOMAIN objects /\ node[t] \in Ids /\ index[t] \in DOMAIN order
  BY <1>1, HeldOK
<1>3. /\ objects' = objects /\ order' = order /\ Goto(t, "split")
      /\ UNCHANGED <<node, call, index, held, halves>>
  BY DEF ChooseSplit
<1>4. /\ at'[t] = "split" /\ index'[t] = index[t] /\ held'[t] = held[t] /\ halves'[t] = halves[t]
      /\ node'[t] = node[t]
  BY <1>1, <1>3 DEF TypeOK, Goto
<1>5. /\ index'[t] \in 0..Len(order) /\ held'[t] \in 0..Len(objects) /\ halves'[t] \in Locals
      /\ index' = [index EXCEPT ![t] = index'[t]] /\ held' = [held EXCEPT ![t] = held'[t]]
      /\ halves' = [halves EXCEPT ![t] = halves'[t]]
  BY <1>1, <1>3, <1>4 DEF TypeOK
<1>6. ThreadOK(t)'
  BY <1>1, <1>2, <1>3, <1>4 DEF ThreadOK
<1>7. "split" \in Places \ {"insert"}
  BY DEF Places
<1> QED BY <1>1, <1>3, <1>5, <1>6, <1>7, QuietStep

LEMMA ChoosePingHolds ==
    ASSUME IInv, NEW t \in Threads, ChoosePing(t), overwritten' = overwritten
    PROVE  IInv'
<1> DEFINE n == Head(objects[held[t]].nodes)
<1>1. at[t] = "choose" /\ objects[held[t]].nodes \in Seq(Ids) /\ objects[held[t]].nodes # <<>>
  BY HeldOK DEF ChoosePing
<1>2. n \in Ids
  BY <1>1
<1>3. PICK c \in {"is_new_node", "remove_contact"} : Calls(t, c, n)
  BY DEF ChoosePing
<1>4. c \in CallNames
  BY DEF CallNames
<1> HIDE DEF n
<1> QED BY <1>1, <1>2, <1>3, <1>4, QuietCall DEF ChoosePing

LEMMA ChooseRaisesHolds ==
    ASSUME IInv, NEW t \in Threads, ChooseRaises(t), overwritten' = overwritten
    PROVE  IInv'
BY QuietCall DEF ChooseRaises

LEMMA SplitReadHolds ==
    ASSUME IInv, NEW t \in Threads, SplitRead(t), overwritten' = overwritten
    PROVE  IInv'
<1> DEFINE h == order[index[t]]
           b == objects[h]
           s == RT!StartSplit(0, b)
           l == [read |-> b.nodes, todo |-> b.nodes, one |-> s.one, two |-> s.two]
<1>1. TypeOK /\ RangesOK /\ ThreadOK(t) /\ at[t] = "split" /\ node[t] \in Ids /\ index[t] \in DOMAIN order
  BY HeldOK DEF IInv, ThreadsOK, SplitRead
<1>2. h \in DOMAIN objects /\ h \in 1..Len(objects) /\ b \in Bucket /\ RangeOK(b) /\ b.nodes \in Seq(Ids)
  <2>1. order \in Seq(DOMAIN objects) /\ objects \in Seq(Bucket)
    BY <1>1 DEF TypeOK
  <2>2. h \in DOMAIN objects /\ DOMAIN objects = 1..Len(objects)
    BY <1>1, <2>1
  <2> HIDE DEF h
  <2>3. b \in Bucket /\ RangeOK(b)
    BY <1>1, <2>1, <2>2 DEF RangesOK
  <2>4. b.nodes \in Seq(Ids)
    BY <2>3 DEF Bucket
  <2> QED BY <2>2, <2>3, <2>4
<1>3. /\ s.one \in Bucket /\ s.two \in Bucket /\ RangeOK(s.one) /\ RangeOK(s.two)
      /\ s.one.nodes = <<>> /\ s.two.nodes = <<>> /\ s.two.hi = b.hi
  BY <1>2, StartSplitOK
<1>4. Table[index[t]] = b
  BY <1>1 DEF Table
<1>5. /\ objects' = objects /\ order' = order /\ node' = node /\ call' = call /\ index' = index
      /\ held' = [held EXCEPT ![t] = h] /\ halves' = [halves EXCEPT ![t] = l] /\ Goto(t, "contacts")
  BY <1>4 DEF SplitRead
<1> HIDE DEF s
<1>6. l \in Locals /\ l.one = s.one /\ l.two = s.two
  BY <1>2, <1>3 DEF Locals
<1> HIDE DEF h, l
<1>7. /\ at'[t] = "contacts" /\ index'[t] = index[t] /\ held'[t] = h /\ halves'[t] = l
      /\ node'[t] = node[t]
  BY <1>1, <1>5 DEF TypeOK, Goto
<1>8. index'[t] \in 0..Len(order) /\ index' = [index EXCEPT ![t] = index'[t]]
  BY <1>1, <1>5, <1>7 DEF TypeOK
<1>9. held'[t] \in 0..Len(objects) /\ held' = [held EXCEPT ![t] = held'[t]]
  <2>1. h \in 0..Len(objects)
    BY <1>2
  <2> QED BY <1>5, <1>7, <2>1
<1>10. ThreadOK(t)'
  <2>1. Len(l.one.nodes) <= KSize /\ Len(l.two.nodes) <= KSize
    BY <1>3, <1>6, TableAssumption
  <2>2. l.two.hi = objects[h].hi /\ RangeOK(l.one) /\ RangeOK(l.two)
    BY <1>3, <1>6
  <2> QED BY <1>1, <1>2, <1>5, <1>7, <2>1, <2>2 DEF ThreadOK
<1>11. "contacts" \in Places \ {"insert"}
  BY DEF Places
<1> QED BY <1>1, <1>5, <1>6, <1>7, <1>8, <1>9, <1>10, <1>11, QuietStep

LEMMA SplitMoveHolds ==
    ASSUME IInv, NEW t \in Threads, SplitMove(t), overwritten' = overwritten
    PROVE  IInv'
<1> DEFINE l == halves[t]
           n == Head(l.todo)
<1>1. /\ TypeOK /\ ThreadOK(t) /\ at[t] \in {"contacts", "spares"} /\ l.todo # <<>>
      /\ objects' = objects /\ order' = order
  BY DEF IInv, ThreadsOK, SplitMove
<1>2. CASE Iterated(t) # l.read
  <2>1. Ends(t, "idle")
    BY <1>2 DEF SplitMove
  <2> QED BY <1>1, <2>1, QuietCall
<1>3. CASE Iterated(t) = l.read
  <2>1. l \in Locals /\ l.todo \in Seq(Ids) /\ l.one \in Bucket /\ l.two \in Bucket
    BY <1>1 DEF TypeOK, Locals
  <2>2. n \in Ids /\ Tail(l.todo) \in Seq(Ids)
    BY <1>1, <2>1
  <2> DEFINE one == [l EXCEPT !.todo = Tail(@), !.one = RT!AddNode(@, n)]
             two == [l EXCEPT !.todo = Tail(@), !.two = RT!AddNode(@, n)]
  <2>3. /\ halves' = [halves EXCEPT ![t] = one] \/ halves' = [halves EXCEPT ![t] = two]
        /\ at' = at /\ node' = node /\ call' = call /\ index' = index /\ held' = held
    BY <1>1, <1>3 DEF SplitMove, TypeOK
  <2> HIDE DEF n
  <2>4. /\ RangeOK(l.one) /\ RangeOK(l.two) /\ Len(l.one.nodes) <= KSize /\ Len(l.two.nodes) <= KSize
        /\ l.two.hi = objects[held[t]].hi
    BY <1>1 DEF ThreadOK
  <2>5. /\ one \in Locals /\ RangeOK(one.one) /\ RangeOK(one.two)
        /\ Len(one.one.nodes) <= KSize /\ Len(one.two.nodes) <= KSize
        /\ one.two.hi = objects[held[t]].hi
    <3>1. /\ RT!AddNode(l.one, n) \in Bucket /\ RangeOK(RT!AddNode(l.one, n))
          /\ Len(RT!AddNode(l.one, n).nodes) <= KSize
      BY <2>1, <2>2, <2>4, AddNodeOK DEF RangeOK
    <3>2. one.one = RT!AddNode(l.one, n) /\ one.two = l.two
      BY <2>1 DEF Locals
    <3>3. one \in Locals
      BY <2>1, <2>2, <3>1 DEF Locals
    <3> QED BY <2>4, <3>1, <3>2, <3>3
  <2>6. /\ two \in Locals /\ RangeOK(two.one) /\ RangeOK(two.two)
        /\ Len(two.one.nodes) <= KSize /\ Len(two.two.nodes) <= KSize
        /\ two.two.hi = objects[held[t]].hi
    <3>1. /\ RT!AddNode(l.two, n) \in Bucket /\ RangeOK(RT!AddNode(l.two, n))
          /\ Len(RT!AddNode(l.two, n).nodes) <= KSize /\ RT!AddNode(l.two, n).hi = l.two.hi
      BY <2>1, <2>2, <2>4, AddNodeOK DEF RangeOK
    <3>2. two.two = RT!AddNode(l.two, n) /\ two.one = l.one
      BY <2>1 DEF Locals
    <3>3. two \in Locals
      BY <2>1, <2>2, <3>1 DEF Locals
    <3> QED BY <2>4, <3>1, <3>2, <3>3
  <2> HIDE DEF one, two
  <2>7. /\ halves'[t] \in Locals /\ halves' = [halves EXCEPT ![t] = halves'[t]]
        /\ RangeOK(halves'[t].one) /\ RangeOK(halves'[t].two)
        /\ Len(halves'[t].one.nodes) <= KSize /\ Len(halves'[t].two.nodes) <= KSize
        /\ halves'[t].two.hi = objects[held[t]].hi
    <3>1. halves'[t] \in {one, two} /\ halves' = [halves EXCEPT ![t] = halves'[t]]
      BY <1>1, <2>3 DEF TypeOK
    <3> QED BY <2>5, <2>6, <3>1
  <2>8. ThreadOK(t)'
    BY <1>1, <2>3, <2>7 DEF ThreadOK
  <2>9. /\ Goto(t, at[t]) /\ at[t] \in Places \ {"insert"}
        /\ index' = [index EXCEPT ![t] = index'[t]] /\ held' = [held EXCEPT ![t] = held'[t]]
        /\ index'[t] \in 0..Len(order) /\ held'[t] \in 0..Len(objects)
    BY <1>1, <2>3 DEF TypeOK, Goto
  <2> QED BY <1>1, <2>3, <2>7, <2>8, <2>9, QuietStep
<1> QED BY <1>2, <1>3

LEMMA SplitSparesHolds ==
    ASSUME IInv, NEW t \in Threads, SplitSpares(t), overwritten' = overwritten
    PROVE  IInv'
<1> DEFINE spares == objects[held[t]].replacement
           l == [halves[t] EXCEPT !.read = spares, !.todo = spares]
<1>1. /\ TypeOK /\ ThreadOK(t) /\ at[t] = "contacts" /\ held[t] \in DOMAIN objects
      /\ spares \in Seq(Ids) /\ halves[t] \in Locals
  BY HeldOK DEF IInv, ThreadsOK, SplitSpares, TypeOK
<1>2. /\ objects' = objects /\ order' = order /\ node' = node /\ call' = call /\ index' = index
      /\ held' = held /\ halves' = [halves EXCEPT ![t] = l] /\ Goto(t, "spares")
  BY <1>1 DEF SplitSpares, TypeOK
<1>3. l \in Locals /\ l.one = halves[t].one /\ l.two = halves[t].two
  BY <1>1 DEF Locals
<1> HIDE DEF l, spares
<1>4. /\ at'[t] = "spares" /\ halves'[t] = l /\ node'[t] = node[t] /\ index'[t] = index[t]
      /\ held'[t] = held[t]
  BY <1>1, <1>2 DEF TypeOK, Goto
<1>5. ThreadOK(t)'
  BY <1>1, <1>2, <1>3, <1>4 DEF ThreadOK
<1>6. /\ index' = [index EXCEPT ![t] = index'[t]] /\ held' = [held EXCEPT ![t] = held'[t]]
      /\ halves' = [halves EXCEPT ![t] = halves'[t]]
      /\ index'[t] \in 0..Len(order) /\ held'[t] \in 0..Len(objects)
  BY <1>1, <1>2, <1>4 DEF TypeOK
<1>7. "spares" \in Places \ {"insert"}
  BY DEF Places
<1> QED BY <1>1, <1>2, <1>3, <1>4, <1>5, <1>6, <1>7, QuietStep

(* A half is a new object, whose identifier is the next one. *)
LEMMA HalfAppended ==
    ASSUME TypeOK, NEW b \in Bucket, RangeOK(b), objects' = Append(objects, b),
           order' \in Seq(DOMAIN objects'), Len(order) <= Len(order')
    PROVE  /\ ObjectsGrow /\ Len(objects') = Len(objects) + 1 /\ objects'[Len(objects')] = b
           /\ \A c \in DOMAIN objects : objects'[c] = objects[c]
           /\ \A c \in DOMAIN objects' \ DOMAIN objects : objects'[c] = b
<1>1. /\ objects \in Seq(Bucket) /\ objects' \in Seq(Bucket) /\ Len(objects') = Len(objects) + 1
      /\ objects'[Len(objects) + 1] = b /\ \A c \in 1..Len(objects) : objects'[c] = objects[c]
      /\ DOMAIN objects = 1..Len(objects) /\ DOMAIN objects' = 1..(Len(objects) + 1)
      /\ Len(objects) \in Nat
  BY DEF TypeOK
<1>2. \A c \in DOMAIN objects' \ DOMAIN objects : c = Len(objects) + 1
  BY <1>1
<1> QED BY <1>1, <1>2 DEF ObjectsGrow

LEMMA SplitAssignHolds ==
    ASSUME IInv, NEW t \in Threads, SplitAssign(t)
    PROVE  IInv'
<1> DEFINE i == index[t]
           one == halves[t].one
<1>1. /\ TypeOK /\ ThreadOK(t) /\ at[t] = "spares" /\ held[t] \in DOMAIN objects /\ i \in DOMAIN order
      /\ node[t] \in Ids
  BY HeldOK DEF IInv, ThreadsOK, SplitAssign
<1>2. one \in Bucket /\ RangeOK(one) /\ Len(one.nodes) <= KSize /\ halves[t].two.hi = objects[held[t]].hi
  BY <1>1 DEF TypeOK, Locals, ThreadOK
<1>3. /\ objects' = Append(objects, one) /\ order' = [order EXCEPT ![i] = Len(objects')]
      /\ overwritten' = (overwritten \/ order[i] # held[t]) /\ Goto(t, "splice")
      /\ node' = node /\ call' = call /\ index' = index /\ held' = held /\ halves' = halves
  BY DEF SplitAssign
<1>4. order \in Seq(DOMAIN objects) /\ objects \in Seq(Bucket)
  BY <1>1 DEF TypeOK
<1> HIDE DEF one, i
<1>5. /\ DOMAIN objects' = 1..(Len(objects) + 1) /\ DOMAIN objects = 1..Len(objects)
      /\ Len(objects') = Len(objects) + 1 /\ Len(objects) \in Nat
  BY <1>2, <1>3, <1>4
<1>6. order' \in Seq(DOMAIN objects') /\ Len(order') = Len(order) /\ Len(order) \in Nat
  <2>1. DOMAIN objects \subseteq DOMAIN objects' /\ Len(objects') \in DOMAIN objects'
    BY <1>5
  <2> QED BY <1>1, <1>3, <1>4, <2>1
<1>7. /\ ObjectsGrow /\ objects'[Len(objects')] = one
      /\ \A c \in DOMAIN objects : objects'[c] = objects[c]
      /\ \A c \in DOMAIN objects' \ DOMAIN objects : objects'[c] = one
  BY <1>1, <1>2, <1>3, <1>6, HalfAppended
<1>8. /\ at'[t] = "splice" /\ node'[t] = node[t] /\ call'[t] = call[t] /\ index'[t] = index[t]
      /\ held'[t] = held[t] /\ halves'[t] = halves[t]
  BY <1>1, <1>3 DEF TypeOK, Goto
<1>9. Moves(t)
  BY <1>1, <1>3, <1>8 DEF Moves, Goto, TypeOK
<1>10. ThreadOK(t)'
  <2>1. i \in DOMAIN order' /\ held[t] \in DOMAIN objects'
    BY <1>1, <1>3, <1>5
  <2> QED BY <1>1, <1>8, <2>1 DEF ThreadOK, i
<1>11. TypeOK' /\ RangesOK' /\ ThreadsOK'
  <2>1. at'[t] \in Places /\ halves'[t] \in Locals /\ overwritten' \in BOOLEAN
    BY <1>1, <1>3, <1>8 DEF Places, TypeOK
  <2>2. node'[t] \in Ids \cup {NoNode} /\ call'[t] \in CallNames
    BY <1>1, <1>8 DEF TypeOK, CallNames
  <2>3. index'[t] \in 0..Len(order')
    BY <1>1, <1>6, <1>8 DEF TypeOK
  <2>4. held'[t] \in 0..Len(objects')
    <3>1. held'[t] \in 0..Len(objects)
      BY <1>1, <1>8 DEF TypeOK
    <3> QED BY <1>5, <3>1
  <2> QED BY <1>1, <1>7, <1>9, <1>10, <2>1, <2>2, <2>3, <2>4, LocalsKept DEF IInv
<1>12. InsertsBounded'
  <2>1. \A c \in DOMAIN objects : Len(objects'[c].nodes) <= Len(objects[c].nodes)
    BY <1>1, <1>7, NodesLength
  <2> QED BY <1>2, <1>7, <1>8, <1>9, <2>1, InsertsKept
<1>13. TopKept'
  <2>1. CASE overwritten'
    BY <2>1 DEF TopKept
  <2>2. ASSUME NEW j \in DOMAIN order, InTable(j), j # i PROVE TopKept'
    <3>1. order'[j] = order[j] /\ order[j] \in DOMAIN objects /\ j \in DOMAIN order'
      BY <1>3, <1>4, <1>6, <2>2
    <3>2. objects'[order'[j]].hi = RT!IdBound
      BY <1>7, <2>2, <3>1 DEF InTable
    <3> QED BY <3>1, <3>2 DEF TopKept, InTable
  <2>3. ASSUME InTable(i), ~overwritten' PROVE TopKept'
    <3>1. objects[held[t]].hi = RT!IdBound
      BY <1>3, <2>3 DEF InTable
    <3>2. InHand(t)'
      BY <1>2, <1>8, <3>1 DEF InHand
    <3> QED BY <3>2 DEF TopKept
  <2>4. ASSUME NEW u \in Threads, InHand(u) PROVE TopKept'
    <3>1. u # t
      BY <1>1, <2>4 DEF InHand
    <3>2. at'[u] = at[u] /\ halves'[u] = halves[u]
      BY <1>1, <1>9, <3>1 DEF Moves, TypeOK
    <3> QED BY <2>4, <3>2 DEF TopKept, InHand
  <2>5. CASE ~overwritten'
    BY <1>1, <1>3, <2>2, <2>3, <2>4, <2>5 DEF IInv, TopKept
  <2> QED BY <2>1, <2>5
<1> QED BY <1>11, <1>12, <1>13 DEF IInv

(* list.insert keeps every element and adds one. *)
LEMMA InsertAtElements ==
    ASSUME NEW S, NEW s \in Seq(S), NEW i \in 1..(Len(s) + 1), NEW x \in S
    PROVE  /\ InsertAt(s, i, x) \in Seq(S) /\ Len(InsertAt(s, i, x)) = Len(s) + 1
           /\ \A j \in DOMAIN s : \E k \in DOMAIN InsertAt(s, i, x) : InsertAt(s, i, x)[k] = s[j]
           /\ \E k \in DOMAIN InsertAt(s, i, x) : InsertAt(s, i, x)[k] = x
<1> DEFINE l == SubSeq(s, 1, i - 1)
           m == l \o <<x>>
           q == SubSeq(s, i, Len(s))
           r == InsertAt(s, i, x)
<1>1. Len(s) \in Nat /\ i \in Nat /\ i >= 1 /\ i <= Len(s) + 1 /\ DOMAIN s = 1..Len(s)
  OBVIOUS
<1>2. l \in Seq(S) /\ Len(l) = i - 1 /\ \A j \in 1..(i - 1) : l[j] = s[j]
  BY <1>1, SubSeqProperties
<1>3. q \in Seq(S) /\ Len(q) = Len(s) - i + 1 /\ \A j \in 1..(Len(s) - i + 1) : q[j] = s[i + j - 1]
  BY <1>1, SubSeqProperties
<1>4. r = m \o q
  BY DEF InsertAt
<1> HIDE DEF l, q, r
<1>5. m \in Seq(S) /\ Len(m) = i /\ (\A j \in 1..(i - 1) : m[j] = l[j]) /\ m[i] = x
  <2>1. <<x>> \in Seq(S) /\ Len(<<x>>) = 1 /\ <<x>>[1] = x
    OBVIOUS
  <2>2. /\ m \in Seq(S) /\ Len(m) = Len(l) + 1
        /\ \A j \in 1..(Len(l) + 1) : m[j] = IF j <= Len(l) THEN l[j] ELSE <<x>>[j - Len(l)]
    BY <1>2, <2>1, ConcatProperties
  <2> QED BY <1>1, <1>2, <2>1, <2>2
<1> HIDE DEF m
<1>6. /\ r \in Seq(S) /\ Len(r) = Len(m) + Len(q)
      /\ \A j \in 1..(Len(m) + Len(q)) : r[j] = IF j <= Len(m) THEN m[j] ELSE q[j - Len(m)]
  BY <1>3, <1>4, <1>5, ConcatProperties
<1>7. Len(m) + Len(q) = Len(s) + 1 /\ Len(m) = i /\ DOMAIN r = 1..(Len(s) + 1)
  BY <1>1, <1>3, <1>5, <1>6
<1>8. i \in DOMAIN r /\ r[i] = x
  BY <1>1, <1>5, <1>6, <1>7
<1>9. ASSUME NEW j \in DOMAIN s PROVE \E k \in DOMAIN r : r[k] = s[j]
  <2>1. CASE j < i
    <3>1. j \in 1..(i - 1) /\ j \in DOMAIN r
      BY <1>1, <1>7, <2>1
    <3>2. r[j] = s[j]
      BY <1>1, <1>2, <1>5, <1>6, <1>7, <2>1, <3>1
    <3> QED BY <3>1, <3>2
  <2>2. CASE j >= i
    <3>1. /\ j + 1 \in DOMAIN r /\ j + 1 > i /\ (j + 1) - i \in 1..(Len(s) - i + 1)
          /\ i + ((j + 1) - i) - 1 = j
      BY <1>1, <1>7, <2>2
    <3>2. r[j + 1] = q[(j + 1) - i]
      BY <1>1, <1>6, <1>7, <3>1, SMTT(30)
    <3>3. q[(j + 1) - i] = s[j]
      BY <1>3, <3>1
    <3> QED BY <3>1, <3>2, <3>3
  <2> QED BY <1>1, <2>1, <2>2
<1> QED BY <1>6, <1>7, <1>8, <1>9 DEF r

LEMMA SplitInsertHolds ==
    ASSUME IInv, NEW t \in Threads, SplitInsert(t), overwritten' = overwritten
    PROVE  IInv'
<1> DEFINE i == index[t] + 1
           two == halves[t].two
           x == Len(objects')
           D == DOMAIN objects'
<1>1. /\ TypeOK /\ ThreadOK(t) /\ at[t] = "splice" /\ index[t] \in DOMAIN order /\ node[t] \in Ids
      /\ order \in Seq(DOMAIN objects) /\ objects \in Seq(Bucket)
  BY HeldOK DEF IInv, ThreadsOK, SplitInsert, TypeOK
<1>2. two \in Bucket /\ RangeOK(two) /\ Len(two.nodes) <= KSize
  BY <1>1 DEF TypeOK, Locals, ThreadOK
<1>3. /\ objects' = Append(objects, two) /\ order' = InsertAt(order, i, x)
      /\ Calls(t, "add_contact", node[t])
  BY DEF SplitInsert
<1>4. i \in 1..(Len(order) + 1) /\ Len(order) \in Nat
  BY <1>1
<1> HIDE DEF two, i
<1>5. /\ D = 1..(Len(objects) + 1) /\ DOMAIN objects = 1..Len(objects)
      /\ x = Len(objects) + 1 /\ Len(objects) \in Nat
  BY <1>1, <1>2, <1>3
<1>6. order \in Seq(D) /\ x \in D
  <2>1. DOMAIN objects \subseteq D /\ x \in D
    BY <1>5
  <2> HIDE DEF D, x
  <2> QED BY <1>1, <2>1
<1>7. /\ order' \in Seq(D) /\ Len(order') = Len(order) + 1
      /\ \A j \in DOMAIN order : \E k \in DOMAIN order' : order'[k] = order[j]
      /\ \E k \in DOMAIN order' : order'[k] = x
  <2> HIDE DEF D, x
  <2>1. /\ InsertAt(order, i, x) \in Seq(D) /\ Len(InsertAt(order, i, x)) = Len(order) + 1
        /\ \A j \in DOMAIN order : \E k \in DOMAIN InsertAt(order, i, x) : InsertAt(order, i, x)[k] = order[j]
        /\ \E k \in DOMAIN InsertAt(order, i, x) : InsertAt(order, i, x)[k] = x
    BY <1>4, <1>6, InsertAtElements, SMTT(30)
  <2> QED BY <1>3, <2>1
<1>8. /\ ObjectsGrow /\ objects'[Len(objects')] = two
      /\ \A c \in DOMAIN objects : objects'[c] = objects[c]
      /\ \A c \in DOMAIN objects' \ DOMAIN objects : objects'[c] = two
  BY <1>1, <1>2, <1>3, <1>4, <1>7, HalfAppended, SMTT(30)
<1>9. /\ Moves(t) /\ at'[t] = "lookup"
      /\ at'[t] \in Places /\ node'[t] \in Ids \cup {NoNode} /\ call'[t] \in CallNames
      /\ index'[t] \in 0..Len(order') /\ held'[t] \in 0..Len(objects') /\ halves'[t] \in Locals
      /\ ThreadOK(t)'
  <2>1. "add_contact" \in CallNames
    BY DEF CallNames
  <2> QED BY <1>1, <1>3, <1>8, <2>1, CallsOK
<1>10. TypeOK' /\ RangesOK' /\ ThreadsOK'
  BY <1>1, <1>8, <1>9, LocalsKept DEF IInv, TypeOK
<1>11. InsertsBounded'
  <2>1. \A c \in DOMAIN objects : Len(objects'[c].nodes) <= Len(objects[c].nodes)
    BY <1>1, <1>8, NodesLength
  <2> QED BY <1>2, <1>8, <1>9, <2>1, InsertsKept
<1>12. TopKept'
  <2>1. CASE overwritten
    BY <2>1 DEF TopKept
  <2>2. ASSUME NEW j \in DOMAIN order, InTable(j) PROVE TopKept'
    <3>1. PICK k \in DOMAIN order' : order'[k] = order[j]
      BY <1>7
    <3>2. order[j] \in DOMAIN objects
      BY <1>1
    <3>3. objects'[order'[k]].hi = RT!IdBound
      BY <1>8, <2>2, <3>1, <3>2 DEF InTable
    <3> QED BY <3>3 DEF TopKept, InTable
  <2>3. ASSUME InHand(t) PROVE TopKept'
    <3>1. PICK k \in DOMAIN order' : order'[k] = x
      BY <1>7
    <3>2. objects'[order'[k]].hi = RT!IdBound
      BY <1>8, <2>3, <3>1 DEF InHand, two
    <3> QED BY <3>2 DEF TopKept, InTable
  <2>4. ASSUME NEW u \in Threads, u # t, InHand(u) PROVE TopKept'
    <3>1. at'[u] = at[u] /\ halves'[u] = halves[u]
      BY <1>1, <1>9, <2>4 DEF Moves, TypeOK
    <3> QED BY <2>4, <3>1 DEF TopKept, InHand
  <2> QED BY <2>1, <2>2, <2>3, <2>4 DEF IInv, TopKept
<1> QED BY <1>10, <1>11, <1>12 DEF IInv

-----------------------------------------------------------------------------
(* The theorems *)

LEMMA InitIInv == Init => IInv
<1> SUFFICES ASSUME Init PROVE IInv
  OBVIOUS
<1> DEFINE b == RT!NewBucket(0, RT!IdBound)
<1>1. b \in Bucket /\ RangeOK(b) /\ b.nodes = <<>> /\ b.hi = RT!IdBound
  BY TableAssumption DEF RT!NewBucket, Bucket, RangeOK
<1>2. /\ objects = <<b>> /\ order = <<1>>
      /\ at = [t \in Threads |-> "idle"] /\ node = [t \in Threads |-> NoNode]
      /\ call = [t \in Threads |-> "none"] /\ index = [t \in Threads |-> 0]
      /\ held = [t \in Threads |-> 0] /\ halves = [t \in Threads |-> NoHalves]
      /\ overwritten = FALSE
  BY DEF Init
<1> HIDE DEF b
<1>3. /\ objects \in Seq(Bucket) /\ DOMAIN objects = {1} /\ objects[1] = b /\ Len(objects) = 1
      /\ order \in Seq({1}) /\ DOMAIN order = {1} /\ order[1] = 1 /\ Len(order) = 1
  BY <1>1, <1>2
<1>4. TypeOK
  <2>1. at \in [Threads -> Places] /\ halves \in [Threads -> Locals]
    BY <1>2, NoHalvesOK DEF Places
  <2>2. objects \in Seq(Bucket) /\ order \in Seq(DOMAIN objects)
    BY <1>3
  <2>3. /\ node \in [Threads -> Ids \cup {NoNode}]
        /\ call \in [Threads -> {"none", "is_new_node", "remove_contact", "add_contact"}]
    BY <1>2
  <2>4. index \in [Threads -> 0..Len(order)] /\ held \in [Threads -> 0..Len(objects)]
    <3>1. 0 \in 0..Len(order) /\ 0 \in 0..Len(objects)
      BY <1>3
    <3> QED BY <1>2, <3>1
  <2> QED BY <1>2, <2>1, <2>2, <2>3, <2>4 DEF TypeOK
<1>5. RangesOK /\ TopKept
  BY <1>1, <1>3 DEF RangesOK, TopKept, InTable
<1>6. ThreadsOK
  BY <1>2, NoHalvesOK DEF ThreadsOK, ThreadOK
<1>7. InsertsBounded
  <2>1. Inserting(1) = {}
    BY <1>2 DEF Inserting
  <2>2. Cardinality(Inserting(1)) = 0 /\ Cardinality(Threads) \in Nat
    BY <2>1, FS_EmptySet, ThreadsAssumption, FS_CardinalityType
  <2>3. Len(objects[1].nodes) = 0
    BY <1>1, <1>3
  <2> QED BY <1>3, <2>2, <2>3, TableAssumption DEF InsertsBounded
<1> QED BY <1>4, <1>5, <1>6, <1>7 DEF IInv

LEMMA StepIInv == IInv /\ [Next]_vars => IInv'
<1> SUFFICES ASSUME IInv, [Next]_vars PROVE IInv'
  OBVIOUS
<1>1. ASSUME NEW t \in Threads, SplitAssign(t) PROVE IInv'
  BY <1>1, SplitAssignHolds
<1>2. ASSUME NEW t \in Threads, Begin(t), overwritten' = overwritten PROVE IInv'
  BY <1>2, BeginHolds
<1>3. ASSUME NEW t \in Threads, Step(t), overwritten' = overwritten PROVE IInv'
  BY <1>3, LookupHolds, TestNewHolds, RemoveNodeHolds, FetchHolds, AddTestHolds, AddRefreshHolds,
     AddInsertHolds, AddSpareHolds, ChooseSplitHolds, ChoosePingHolds, ChooseRaisesHolds,
     SplitReadHolds, SplitMoveHolds, SplitSparesHolds, SplitInsertHolds DEF Step
<1>4. CASE UNCHANGED vars
  BY <1>4 DEF vars, IInv, TypeOK, RangesOK, ThreadsOK, ThreadOK, InsertsBounded, Inserting, TopKept,
              InTable, InHand
<1> QED BY <1>1, <1>2, <1>3, <1>4 DEF Next

LEMMA SpecIInv == Spec => []IInv
BY InitIInv, StepIInv, PTL DEF Spec

(***************************************************************************)
(* Across any number of interleaved statements of add_contact,             *)
(* remove_contact and split_bucket, every index a thread has looked up     *)
(* stays an index of the table, so that no lock is needed against an       *)
(* IndexError: the table never shrinks.  A bucket a thread holds is one    *)
(* that was created; it may have left the table.                           *)
(***************************************************************************)
THEOREM TypeCorrect == Spec => []TypeOK
BY SpecIInv, PTL DEF IInv

(***************************************************************************)
(* Whatever the number of threads and their interleaving, a lookup finds a *)
(* bucket for every identifier, except between the two writes of a split   *)
(* (split_bucket), until a split has put its lower half in the place of a  *)
(* bucket that another split has moved to its index.                       *)
(***************************************************************************)
THEOREM FoundUntilOverwritten == Spec => []FoundUnlessOverwritten
<1>1. ASSUME IInv, ~Splicing, ~overwritten, NEW n \in 0..(RT!IdBound - 1) PROVE RT!HasBucket(n)
  <2>1. PICK i \in DOMAIN order : InTable(i)
    BY <1>1 DEF IInv, TopKept, InHand, Splicing
  <2>2. DOMAIN Table = DOMAIN order /\ Table[i] = objects[order[i]]
    BY DEF Table
  <2>3. n < Table[i].hi
    BY <2>1, <2>2, TableAssumption DEF InTable
  <2> QED BY <2>1, <2>2, <2>3 DEF RT!HasBucket
<1>2. IInv => FoundUnlessOverwritten
  BY <1>1 DEF FoundUnlessOverwritten, AllFound
<1> QED BY SpecIInv, <1>2, PTL

(***************************************************************************)
(* Threads that test the length of a bucket at once (add_node) overfill it *)
(* by one contact each at most, however long they run: neither the spare   *)
(* that remove_node promotes, nor a split, nor the refresh of a contact    *)
(* that another thread has removed adds to the excess.                     *)
(***************************************************************************)
THEOREM OverfilledBounded == Spec => []OverfilledByThreads
<1>1. ASSUME IInv, NEW b \in DOMAIN objects
      PROVE  Len(objects[b].nodes) <= KSize + Cardinality(Threads) - 1
  <2>1. /\ Len(objects[b].nodes) + Cardinality(Inserting(b)) <= KSize + Cardinality(Threads) - 1
        /\ Len(objects[b].nodes) \in Nat
    BY <1>1 DEF IInv, InsertsBounded, TypeOK, Bucket
  <2>2. Cardinality(Inserting(b)) \in Nat /\ Cardinality(Threads) \in Nat /\ KSize \in Nat
    BY InsertingFinite, ThreadsAssumption, FS_CardinalityType, TableAssumption
  <2> QED BY <2>1, <2>2
<1>2. IInv => OverfilledByThreads
  BY <1>1 DEF OverfilledByThreads
<1> QED BY SpecIInv, <1>2, PTL

=============================================================================
