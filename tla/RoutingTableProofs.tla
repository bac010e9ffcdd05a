------------------------- MODULE RoutingTableProofs -------------------------
(***************************************************************************)
(* Proofs about RoutingTable for every value of its constants.             *)
(***************************************************************************)
EXTENDS RoutingTable, Integers, SequenceTheorems, FiniteSetTheorems, WellFoundedInduction, TLAPS

(* A set of numbers has a smallest one: Nat is well-founded. *)
LEMMA SmallestNat ==
    ASSUME NEW T, T \subseteq Nat, T # {}
    PROVE  \E x \in T : \A y \in T : x <= y
<1>1. \E x \in T : \A y \in T : ~(<<y, x>> \in OpToRel(<, Nat))
  BY NatLessThanWellFounded, WFMin
<1>2. ASSUME NEW x \in Nat, NEW y \in Nat, ~(<<y, x>> \in OpToRel(<, Nat)) PROVE x <= y
  BY <1>2 DEF OpToRel
<1> QED BY <1>1, <1>2


(* Removing one element of a sequence. *)
LEMMA RemoveAtElements ==
    ASSUME NEW S, NEW s \in Seq(S), NEW i \in 1..Len(s)
    PROVE  /\ RemoveAt(s, i) \in Seq(S)
           /\ Len(RemoveAt(s, i)) = Len(s) - 1
           /\ \A j \in 1..(Len(s) - 1) :
                  RemoveAt(s, i)[j] = IF j < i THEN s[j] ELSE s[j + 1]
<1> DEFINE l == SubSeq(s, 1, i - 1)
           r == SubSeq(s, i + 1, Len(s))
<1>1. l \in Seq(S) /\ Len(l) = i - 1 /\ \A j \in 1..(i - 1) : l[j] = s[j]
  BY SubSeqProperties
<1>2. r \in Seq(S) /\ Len(r) = Len(s) - i /\ \A j \in 1..(Len(s) - i) : r[j] = s[i + j]
  BY SubSeqProperties
<1> HIDE DEF l, r
<1>3. /\ l \o r \in Seq(S) /\ Len(l \o r) = Len(l) + Len(r)
      /\ \A j \in 1..(Len(l) + Len(r)) :
            (l \o r)[j] = IF j <= Len(l) THEN l[j] ELSE r[j - Len(l)]
  BY <1>1, <1>2, ConcatProperties
<1>4. Len(l) + Len(r) = Len(s) - 1 /\ Len(s) \in Nat
  BY <1>1, <1>2
<1>5. ASSUME NEW j \in 1..(Len(s) - 1)
      PROVE  (l \o r)[j] = IF j < i THEN s[j] ELSE s[j + 1]
  <2>1. CASE j < i
    BY <2>1, <1>1, <1>3, <1>4
  <2>2. CASE j >= i
    <3>1. j - Len(l) \in 1..(Len(s) - i) /\ j > Len(l) /\ i + (j - Len(l)) = j + 1
      BY <2>2, <1>1, <1>4
    <3>2. (l \o r)[j] = r[j - Len(l)]
      BY <3>1, <1>1, <1>3, <1>4
    <3> QED BY <3>1, <3>2, <2>2, <1>2, SMTT(30)
  <2> QED BY <2>1, <2>2, <1>4
<1> QED BY <1>3, <1>4, <1>5 DEF RemoveAt, l, r

(* What del d[n] leaves of a duplicate-free list of identifiers. *)
LEMMA WithoutProperties ==
    ASSUME NEW s \in Seq(Ids), NEW n, Distinct(s)
    PROVE  /\ Without(s, n) \in Seq(Ids)
           /\ Len(Without(s, n)) = IF n \in ToSet(s) THEN Len(s) - 1 ELSE Len(s)
           /\ ToSet(Without(s, n)) = ToSet(s) \ {n}
           /\ Distinct(Without(s, n))
<1>1. CASE n \notin ToSet(s)
  BY <1>1 DEF Without
<1>2. CASE n \in ToSet(s)
  <2> DEFINE i == CHOOSE i \in DOMAIN s : s[i] = n
             w == RemoveAt(s, i)
  <2>1. i \in 1..Len(s) /\ s[i] = n
    BY <1>2 DEF ToSet
  <2>2. Without(s, n) = w
    BY <1>2 DEF Without
  <2> HIDE DEF i
  <2>3. /\ w \in Seq(Ids) /\ Len(w) = Len(s) - 1
        /\ \A j \in 1..(Len(s) - 1) : w[j] = IF j < i THEN s[j] ELSE s[j + 1]
    BY <2>1, RemoveAtElements
  <2> HIDE DEF w
  <2>4. Distinct(w)
    <3> SUFFICES ASSUME NEW a \in 1..(Len(s) - 1), NEW b \in 1..(Len(s) - 1), w[a] = w[b]
                 PROVE  a = b
      BY <2>3 DEF Distinct
    <3>1. PICK c \in 1..Len(s) : w[a] = s[c] /\ (c = a \/ c = a + 1) /\ (c = a <=> a < i)
      BY <2>1, <2>3
    <3>2. PICK d \in 1..Len(s) : w[b] = s[d] /\ (d = b \/ d = b + 1) /\ (d = b <=> b < i)
      BY <2>1, <2>3
    <3>3. c = d
      BY <3>1, <3>2 DEF Distinct
    <3> QED BY <3>1, <3>2, <3>3, <2>1
  <2>5. ToSet(w) \subseteq ToSet(s) \ {n}
    BY <2>1, <2>3 DEF ToSet, Distinct
  <2>6. ToSet(s) \ {n} \subseteq ToSet(w)
    <3> SUFFICES ASSUME NEW j \in 1..Len(s), s[j] # n PROVE s[j] \in ToSet(w)
      BY DEF ToSet
    <3>1. CASE j < i
      BY <3>1, <2>1, <2>3 DEF ToSet
    <3>2. CASE j > i
      <4>1. j - 1 \in 1..(Len(s) - 1) /\ w[j - 1] = s[j]
        BY <3>2, <2>1, <2>3
      <4> QED BY <4>1, <2>3 DEF ToSet
    <3> QED BY <3>1, <3>2, <2>1
  <2> QED BY <1>2, <2>2, <2>3, <2>4, <2>5, <2>6
<1> QED BY <1>1, <1>2

(* Adding an element at the end, as the newest key of an OrderedDict. *)
LEMMA AppendElements ==
    ASSUME NEW s \in Seq(Ids), NEW n \in Ids
    PROVE  /\ Append(s, n) \in Seq(Ids)
           /\ Len(Append(s, n)) = Len(s) + 1
           /\ ToSet(Append(s, n)) = ToSet(s) \cup {n}
           /\ Distinct(s) /\ n \notin ToSet(s) => Distinct(Append(s, n))
<1> DEFINE t == Append(s, n)
<1>1. /\ t \in Seq(Ids) /\ Len(t) = Len(s) + 1 /\ Len(s) \in Nat
      /\ \A i \in 1..Len(s) : t[i] = s[i]
      /\ t[Len(s) + 1] = n
  BY AppendProperties
<1> HIDE DEF t
<1>2. ToSet(t) = ToSet(s) \cup {n}
  <2>1. ToSet(t) \subseteq ToSet(s) \cup {n}
    BY <1>1 DEF ToSet
  <2>2. ToSet(s) \subseteq ToSet(t)
    BY <1>1 DEF ToSet
  <2>3. n \in ToSet(t)
    <3>1. Len(s) + 1 \in DOMAIN t
      BY <1>1
    <3> QED BY <3>1, <1>1 DEF ToSet
  <2> QED BY <2>1, <2>2, <2>3
<1>3. Distinct(s) /\ n \notin ToSet(s) => Distinct(t)
  <2>1. ASSUME n \notin ToSet(s), NEW i \in 1..Len(s) PROVE s[i] # n
    BY <2>1 DEF ToSet
  <2> QED BY <2>1, <1>1 DEF Distinct
<1> QED BY <1>1, <1>2, <1>3 DEF t

LEMMA AsNewestProperties ==
    ASSUME NEW s \in Seq(Ids), NEW n \in Ids, Distinct(s)
    PROVE  /\ AsNewest(s, n) \in Seq(Ids)
           /\ Len(AsNewest(s, n)) = IF n \in ToSet(s) THEN Len(s) ELSE Len(s) + 1
           /\ ToSet(AsNewest(s, n)) = ToSet(s) \cup {n}
           /\ Distinct(AsNewest(s, n))
<1> DEFINE w == Without(s, n)
<1>1. /\ w \in Seq(Ids) /\ ToSet(w) = ToSet(s) \ {n} /\ Distinct(w)
      /\ Len(w) = IF n \in ToSet(s) THEN Len(s) - 1 ELSE Len(s)
  BY WithoutProperties
<1>2. Len(s) \in Nat
  OBVIOUS
<1> HIDE DEF w
<1>3. /\ Append(w, n) \in Seq(Ids) /\ Len(Append(w, n)) = Len(w) + 1
      /\ ToSet(Append(w, n)) = ToSet(w) \cup {n} /\ Distinct(Append(w, n))
  BY <1>1, AppendElements
<1> QED BY <1>1, <1>2, <1>3 DEF AsNewest, w

(* The last k keys are a duplicate-free sublist. *)
LEMMA NewestProperties ==
    ASSUME NEW s \in Seq(Ids), NEW k \in Nat \ {0}, Distinct(s)
    PROVE  /\ Newest(s, k) \in Seq(Ids)
           /\ Len(Newest(s, k)) <= k
           /\ ToSet(Newest(s, k)) \subseteq ToSet(s)
           /\ Distinct(Newest(s, k))
<1>1. CASE Len(s) <= k
  BY <1>1 DEF Newest
<1>2. CASE Len(s) > k
  <2> DEFINE m == Len(s) - k
             t == SubSeq(s, m + 1, Len(s))
  <2>1. m \in Nat /\ Len(s) \in Nat /\ Len(s) = m + k
    BY <1>2
  <2> HIDE DEF m
  <2>2. /\ t \in Seq(Ids) /\ Len(t) = k /\ \A i \in 1..k : t[i] = s[m + i]
    BY <2>1, SubSeqProperties
  <2>3. Newest(s, k) = t
    BY <1>2 DEF Newest, m
  <2> HIDE DEF t
  <2>4. ToSet(t) \subseteq ToSet(s)
    BY <2>1, <2>2 DEF ToSet
  <2>5. Distinct(t)
    <3> SUFFICES ASSUME NEW a \in 1..k, NEW b \in 1..k, t[a] = t[b] PROVE a = b
      BY <2>2 DEF Distinct
    <3>1. m + a \in 1..Len(s) /\ m + b \in 1..Len(s) /\ s[m + a] = s[m + b]
      BY <2>1, <2>2
    <3>2. m + a = m + b
      BY <3>1 DEF Distinct
    <3> QED BY <3>2, <2>1
  <2> QED BY <2>2, <2>3, <2>4, <2>5
<1> QED BY <1>1, <1>2

(* popitem splits a non-empty list into its newest key and the rest. *)
LEMMA FrontLast ==
    ASSUME NEW s \in Seq(Ids), s # <<>>, Distinct(s)
    PROVE  /\ Front(s) \in Seq(Ids) /\ Len(Front(s)) = Len(s) - 1
           /\ Last(s) \in ToSet(s) /\ Last(s) \in Ids
           /\ ToSet(Front(s)) = ToSet(s) \ {Last(s)}
           /\ Distinct(Front(s))
<1> DEFINE f == Front(s)
<1>1. Len(s) \in Nat \ {0}
  BY EmptySeq
<1>2. f \in Seq(Ids) /\ Len(f) = Len(s) - 1 /\ \A i \in 1..(Len(s) - 1) : f[i] = s[i]
  <2> DEFINE k == Len(s) - 1
  <2>1. k \in Nat /\ \A i \in 1..k : s[i] \in Ids
    BY <1>1
  <2> HIDE DEF k
  <2>2. /\ SubSeq(s, 1, k) \in Seq(Ids)
        /\ Len(SubSeq(s, 1, k)) = IF 1 <= k THEN k - 1 + 1 ELSE 0
        /\ \A i \in 1..(k - 1 + 1) : SubSeq(s, 1, k)[i] = s[1 + i - 1]
    BY <2>1, SubSeqProperties
  <2>3. Len(SubSeq(s, 1, k)) = k /\ \A i \in 1..k : SubSeq(s, 1, k)[i] = s[i]
    BY <2>1, <2>2
  <2> QED BY <2>2, <2>3 DEF Front, k
<1>3. Last(s) = s[Len(s)] /\ Len(s) \in DOMAIN s
  BY <1>1 DEF Last
<1> HIDE DEF f
<1>4. Distinct(f)
  BY <1>1, <1>2 DEF Distinct
<1>5. ToSet(f) \subseteq ToSet(s) \ {Last(s)}
  BY <1>1, <1>2, <1>3 DEF ToSet, Distinct
<1>6. ToSet(s) \ {Last(s)} \subseteq ToSet(f)
  BY <1>1, <1>2, <1>3 DEF ToSet
<1>7. Last(s) \in ToSet(s) /\ Last(s) \in Ids
  BY <1>3 DEF ToSet
<1> QED BY <1>2, <1>4, <1>5, <1>6, <1>7 DEF f

-----------------------------------------------------------------------------
(* Buckets *)

BucketOK(b) == b \in KBucket /\ BucketWF(b) /\ AllNear(b)

LEMMA MaxReplacementType == MaxReplacement \in Nat \ {0}
BY KSizeAssumption DEF MaxReplacement

LEMMA EmptyBucketOK ==
    ASSUME NEW lo \in 0..IdBound, NEW hi \in 0..IdBound
    PROVE  BucketOK(NewBucket(lo, hi))
BY KSizeAssumption, MaxReplacementType
   DEF BucketOK, NewBucket, KBucket, BucketWF, AllNear, Distinct, ToSet

(* add_node keeps a bucket well formed, and its contacts when it refuses the node. *)
LEMMA AddNodeOK ==
    ASSUME NEW b, BucketOK(b), NEW n \in Ids, Near(b, n)
    PROVE  /\ BucketOK(AddNode(b, n))
           /\ AddNode(b, n).lo = b.lo /\ AddNode(b, n).hi = b.hi
           /\ ~Accepts(b, n) => AddNode(b, n).nodes = b.nodes
<1> DEFINE nn == AsNewest(b.nodes, n)
           rr == Newest(AsNewest(b.replacement, n), MaxReplacement)
<1>1. b \in KBucket /\ b.nodes \in Seq(Ids) /\ b.replacement \in Seq(Ids)
  BY DEF BucketOK, KBucket
<1>2. BucketWF(b) /\ AllNear(b)
  BY DEF BucketOK
<1>3. CASE Accepts(b, n)
  <2>1. /\ nn \in Seq(Ids) /\ ToSet(nn) = ToSet(b.nodes) \cup {n} /\ Distinct(nn)
        /\ Len(nn) = IF n \in ToSet(b.nodes) THEN Len(b.nodes) ELSE Len(b.nodes) + 1
    BY <1>1, <1>2, AsNewestProperties DEF BucketWF
  <2> HIDE DEF nn
  <2> DEFINE c == [b EXCEPT !.nodes = nn]
  <2>2. AddNode(b, n) = c
    BY <1>3 DEF AddNode, nn
  <2>3. /\ c \in KBucket /\ c.nodes = nn /\ c.replacement = b.replacement
        /\ c.lo = b.lo /\ c.hi = b.hi
    BY <1>1, <2>1 DEF KBucket
  <2> HIDE DEF c
  <2>4. Len(b.nodes) \in Nat /\ KSize \in Nat
    BY <1>1, KSizeAssumption
  <2>5. Len(nn) <= KSize /\ Len(nn) >= Len(b.nodes)
    BY <1>2, <1>3, <2>1, <2>4 DEF BucketWF, Accepts, IsNewIn, Full
  <2>6. ToSet(nn) \cap ToSet(b.replacement) = {}
    <3>1. CASE n \in ToSet(b.nodes)
      BY <3>1, <2>1, <1>2 DEF BucketWF
    <3>2. CASE n \notin ToSet(b.nodes)
      <4>1. b.replacement = <<>>
        BY <3>2, <1>2, <1>3 DEF BucketWF, Accepts, IsNewIn
      <4> QED BY <4>1 DEF ToSet
    <3> QED BY <3>1, <3>2
  <2>7. b.replacement # <<>> => Full(c)
    BY <1>2, <2>3, <2>4, <2>5, <2>1 DEF BucketWF, Full
  <2>8. BucketWF(c)
    BY <1>2, <2>1, <2>3, <2>5, <2>6, <2>7 DEF BucketWF
  <2>9. AllNear(c)
    BY <1>2, <2>1, <2>3 DEF AllNear, Near
  <2> QED BY <1>3, <2>2, <2>3, <2>8, <2>9 DEF BucketOK
<1>4. CASE ~Accepts(b, n)
  <2>1. /\ AsNewest(b.replacement, n) \in Seq(Ids) /\ Distinct(AsNewest(b.replacement, n))
        /\ ToSet(AsNewest(b.replacement, n)) = ToSet(b.replacement) \cup {n}
    BY <1>1, <1>2, AsNewestProperties DEF BucketWF
  <2>2. /\ rr \in Seq(Ids) /\ Len(rr) <= MaxReplacement /\ Distinct(rr)
        /\ ToSet(rr) \subseteq ToSet(b.replacement) \cup {n}
    BY <2>1, NewestProperties, MaxReplacementType
  <2> HIDE DEF rr
  <2> DEFINE c == [b EXCEPT !.replacement = rr]
  <2>3. AddNode(b, n) = c
    BY <1>4 DEF AddNode, rr
  <2>4. /\ c \in KBucket /\ c.nodes = b.nodes /\ c.replacement = rr
        /\ c.lo = b.lo /\ c.hi = b.hi
    BY <1>1, <2>2 DEF KBucket
  <2> HIDE DEF c
  <2>5. n \notin ToSet(b.nodes) /\ Full(b)
    BY <1>4 DEF Accepts, IsNewIn
  <2>6. ToSet(c.nodes) \cap ToSet(c.replacement) = {}
    BY <1>2, <2>2, <2>4, <2>5 DEF BucketWF
  <2>7. BucketWF(c)
    BY <1>2, <2>2, <2>4, <2>5, <2>6 DEF BucketWF, Full
  <2>8. AllNear(c)
    BY <1>2, <2>2, <2>4 DEF AllNear, Near
  <2> QED BY <2>3, <2>4, <2>7, <2>8 DEF BucketOK
<1> QED BY <1>3, <1>4

(* remove_node keeps a bucket well formed: the newest spare fills the gap. *)
LEMMA RemoveNodeOK ==
    ASSUME NEW b, BucketOK(b), NEW n
    PROVE  /\ BucketOK(RemoveNode(b, n))
           /\ RemoveNode(b, n).lo = b.lo /\ RemoveNode(b, n).hi = b.hi
<1> DEFINE spare == Without(b.replacement, n)
           kept  == Without(b.nodes, n)
<1>1. b \in KBucket /\ b.nodes \in Seq(Ids) /\ b.replacement \in Seq(Ids)
  BY DEF BucketOK, KBucket
<1>2. BucketWF(b) /\ AllNear(b)
  BY DEF BucketOK
<1>3. /\ spare \in Seq(Ids) /\ Distinct(spare)
      /\ ToSet(spare) = ToSet(b.replacement) \ {n}
      /\ Len(spare) <= Len(b.replacement)
  BY <1>1, <1>2, WithoutProperties DEF BucketWF
<1>4. /\ kept \in Seq(Ids) /\ Distinct(kept)
      /\ ToSet(kept) = ToSet(b.nodes) \ {n}
      /\ Len(kept) = IF n \in ToSet(b.nodes) THEN Len(b.nodes) - 1 ELSE Len(b.nodes)
  BY <1>1, <1>2, WithoutProperties DEF BucketWF
<1>5. Len(b.nodes) \in Nat /\ Len(b.replacement) \in Nat /\ Len(spare) \in Nat
      /\ KSize \in Nat /\ MaxReplacement \in Nat
  BY <1>1, <1>3, KSizeAssumption, MaxReplacementType
<1>6. Len(spare) <= MaxReplacement
  BY <1>2, <1>3, <1>5 DEF BucketWF
<1>7. ToSet(kept) \cap ToSet(spare) = {}
  BY <1>2, <1>3, <1>4 DEF BucketWF
<1>8. spare # <<>> => b.replacement # <<>>
  BY <1>1, <1>3, EmptySeq DEF ToSet
<1>9. CASE IsNewIn(b, n) \/ spare = <<>>
  <2> HIDE DEF spare, kept
  <2> DEFINE c == [b EXCEPT !.replacement = spare, !.nodes = kept]
  <2>1. RemoveNode(b, n) = c
    BY <1>9 DEF RemoveNode, spare, kept
  <2>2. /\ c \in KBucket /\ c.nodes = kept /\ c.replacement = spare
        /\ c.lo = b.lo /\ c.hi = b.hi
    BY <1>1, <1>3, <1>4 DEF KBucket
  <2> HIDE DEF c
  <2>3. c.replacement # <<>> => Full(c)
    BY <1>2, <1>4, <1>8, <1>9, <2>2 DEF BucketWF, Full, IsNewIn
  <2>4. Len(kept) <= KSize
    BY <1>2, <1>4, <1>5 DEF BucketWF
  <2>5. BucketWF(c)
    BY <1>3, <1>4, <1>6, <1>7, <2>2, <2>3, <2>4 DEF BucketWF
  <2>6. AllNear(c)
    BY <1>2, <1>3, <1>4, <2>2 DEF AllNear, Near
  <2> QED BY <2>1, <2>2, <2>5, <2>6 DEF BucketOK
<1>10. CASE ~IsNewIn(b, n) /\ spare # <<>>
  <2> HIDE DEF spare, kept
  <2> DEFINE f == Front(spare)
             a == Append(kept, Last(spare))
             c == [b EXCEPT !.replacement = f, !.nodes = a]
  <2>2. /\ f \in Seq(Ids) /\ Len(f) = Len(spare) - 1 /\ Distinct(f)
        /\ Last(spare) \in ToSet(spare) /\ Last(spare) \in Ids
        /\ ToSet(f) = ToSet(spare) \ {Last(spare)}
    BY <1>3, <1>10, FrontLast
  <2>3. Last(spare) \notin ToSet(kept)
    BY <2>2, <1>7
  <2>1. RemoveNode(b, n) = c
    BY <1>10, <2>3 DEF RemoveNode, SetKey, spare, kept
  <2>4. /\ a \in Seq(Ids) /\ Len(a) = Len(kept) + 1 /\ Distinct(a)
        /\ ToSet(a) = ToSet(kept) \cup {Last(spare)}
    BY <1>4, <2>2, <2>3, AppendElements
  <2> HIDE DEF f, a
  <2>5. /\ c \in KBucket /\ c.nodes = a /\ c.replacement = f
        /\ c.lo = b.lo /\ c.hi = b.hi
    BY <1>1, <2>2, <2>4 DEF KBucket
  <2> HIDE DEF c
  <2>6. Len(a) = Len(b.nodes)
    BY <1>4, <1>5, <1>10, <2>4 DEF IsNewIn
  <2>7. Full(c) /\ Len(a) <= KSize
    BY <1>2, <1>8, <1>10, <2>5, <2>6 DEF BucketWF, Full
  <2>8. ToSet(a) \cap ToSet(f) = {}
    BY <1>7, <2>2, <2>4
  <2>9. Len(f) <= MaxReplacement
    BY <1>5, <1>6, <2>2
  <2>10. BucketWF(c)
    BY <2>2, <2>4, <2>5, <2>7, <2>8, <2>9 DEF BucketWF
  <2>11. AllNear(c)
    BY <1>2, <1>3, <1>4, <2>2, <2>4, <2>5 DEF AllNear, Near
  <2> QED BY <2>1, <2>5, <2>10, <2>11 DEF BucketOK
<1> QED BY <1>9, <1>10

-----------------------------------------------------------------------------
(* The table *)

TableOK ==
    /\ buckets \in Seq(KBucket)
    /\ RangesPartition
    /\ \A i \in DOMAIN buckets : BucketOK(buckets[i])

(***************************************************************************)
(* The halves of a split in progress have the two halves of the range, and *)
(* the nodes still to move are near the range of the bucket they are in.   *)
(* Without Near, a bucket of a single identifier could be split again and  *)
(* leave a half with no identifier at all.                                 *)
(***************************************************************************)
SplitOK ==
    LET b == buckets[split.at]
    IN  /\ split.at \in DOMAIN buckets
        /\ Mid(b) < b.hi
        /\ split.one.lo = b.lo /\ split.one.hi = Mid(b)
        /\ split.two.lo = Mid(b) + 1 /\ split.two.hi = b.hi
        /\ BucketOK(split.one) /\ BucketOK(split.two)
        /\ \A n \in ToSet(split.todo) : Near(b, n)

IInv ==
    /\ TypeOK
    /\ TableOK
    /\ pc # "idle" => contact \in Ids \ {Self}
    /\ pc = "split" => SplitOK

(* get_bucket_for returns a bucket, and one the node is near: VoidNodeException  *)
(* is never raised.                                                              *)
LEMMA BucketForOK ==
    ASSUME TableOK, NEW n \in Ids
    PROVE  /\ BucketFor(n) \in DOMAIN buckets
           /\ n < buckets[BucketFor(n)].hi
           /\ n # Self => Near(buckets[BucketFor(n)], n)
<1> DEFINE T == {i \in DOMAIN buckets : n < buckets[i].hi}
<1>1. /\ Len(buckets) \in Nat /\ DOMAIN buckets = 1..Len(buckets)
      /\ \A i \in DOMAIN buckets : buckets[i].lo \in Nat /\ buckets[i].hi \in Nat
  <2>1. Len(buckets) \in Nat /\ DOMAIN buckets = 1..Len(buckets)
    BY DEF TableOK
  <2>2. ASSUME NEW i \in DOMAIN buckets PROVE buckets[i].lo \in Nat /\ buckets[i].hi \in Nat
    BY IdBitsAssumption DEF TableOK, BucketOK, KBucket
  <2> QED BY <2>1, <2>2
<1>2. Len(buckets) \in T
  BY <1>1, IdsAssumption, IdBitsAssumption DEF TableOK, RangesPartition
<1>3. PICK i \in T : \A j \in T : i <= j
  <2>1. T \subseteq Nat /\ T # {}
    BY <1>1, <1>2
  <2> HIDE DEF T
  <2> QED BY <2>1, SmallestNat
<1>4. /\ i \in DOMAIN buckets /\ n < buckets[i].hi
      /\ \A j \in 1..(i - 1) : n >= buckets[j].hi
  BY <1>1, <1>3, IdsAssumption, IdBitsAssumption
<1>5. /\ BucketFor(n) \in DOMAIN buckets
      /\ n < buckets[BucketFor(n)].hi
      /\ \A j \in 1..(BucketFor(n) - 1) : n >= buckets[j].hi
  BY <1>4 DEF BucketFor
<1> DEFINE k == BucketFor(n)
<1> HIDE DEF k
<1>6. k \in 1..Len(buckets) /\ n < buckets[k].hi /\ \A j \in 1..(k - 1) : n >= buckets[j].hi
  BY <1>1, <1>5 DEF k
<1>7. buckets[k].lo <= n + 1
  <2>1. CASE k = 1
    BY <2>1, IdsAssumption, IdBitsAssumption DEF TableOK, RangesPartition
  <2>2. CASE k # 1
    <3>1. k - 1 \in 1..(Len(buckets) - 1) /\ n >= buckets[k - 1].hi /\ k - 1 \in DOMAIN buckets
      BY <2>2, <1>1, <1>6
    <3>2. buckets[(k - 1) + 1].lo = buckets[k - 1].hi + 1
      BY <3>1 DEF TableOK, RangesPartition
    <3> QED BY <3>1, <3>2, <1>1, <1>6, IdsAssumption, IdBitsAssumption, SMTT(30)
  <2> QED BY <2>1, <2>2
<1>8. n <= buckets[k].hi
  BY <1>1, <1>6, IdsAssumption, IdBitsAssumption
<1> QED BY <1>5, <1>7, <1>8 DEF k, Near

(* A bucket of one contact is as deep as an identifier is wide. *)
LEMMA DepthOfSingle ==
    ASSUME NEW b, NEW x, ToSet(b.nodes) = {x}
    PROVE  Depth(b) = IdBits
<1> DEFINE S == {d \in 0..IdBits : SamePrefix(ToSet(b.nodes), d)}
<1>1. S = 0..IdBits
  BY DEF SamePrefix
<1>2. IdBits \in S /\ \A d \in S : IdBits >= d /\ d \in Nat
  BY <1>1, IdBitsAssumption
<1> HIDE DEF S
<1> DEFINE m == CHOOSE d \in S : \A e \in S : d >= e
<1>3. m \in S /\ \A e \in S : m >= e
  BY <1>2
<1> HIDE DEF m
<1>4. m = IdBits
  <2>1. m \in Nat /\ m >= IdBits /\ IdBits >= m
    BY <1>2, <1>3
  <2> QED BY <2>1, IdBitsAssumption
<1> QED BY <1>4 DEF Depth, Max, S, m

(* A bucket that add_contact splits has at least two identifiers. *)
LEMMA SplitIsWide ==
    ASSUME NEW b, BucketOK(b), b.lo <= b.hi, NEW n \in Ids, n < b.hi, Near(b, n),
           ~Accepts(b, n), ShouldSplit(b)
    PROVE  Mid(b) < b.hi /\ b.lo <= Mid(b) /\ Mid(b) \in 0..IdBound
<1>1. b.lo \in Nat /\ b.hi \in 0..IdBound /\ b.nodes \in Seq(Ids) /\ IdBound \in Nat
  BY IdBitsAssumption DEF BucketOK, KBucket
<1>2. n \in Nat /\ Self \in Nat /\ Ids \subseteq Nat
  BY IdsAssumption, IdBitsAssumption
<1>3. b.lo < b.hi
  <2> SUFFICES ASSUME b.lo = b.hi PROVE FALSE
    BY <1>1
  <2>1. n + 1 = b.lo
    BY <1>1, <1>2 DEF Near
  <2>2. n \notin ToSet(b.nodes) /\ Len(b.nodes) >= KSize
    BY DEF Accepts, IsNewIn, Full
  <2>3. ASSUME NEW m \in ToSet(b.nodes) PROVE m = b.lo /\ m # Self
    <3>1. m \in Ids /\ m # n
      BY <1>1, <2>2 DEF ToSet
    <3>2. Near(b, m)
      BY DEF BucketOK, AllNear
    <3> QED BY <3>1, <3>2, <1>1, <1>2, <2>1 DEF Near
  <2>4. b.nodes[1] \in ToSet(b.nodes)
    BY <1>1, <2>2, KSizeAssumption DEF ToSet
  <2>5. ToSet(b.nodes) = {b.lo} /\ b.lo # Self
    BY <2>3, <2>4
  <2>6. ~HasInRange(b, Self)
    BY <1>1, <1>2, <2>5 DEF HasInRange
  <2>7. Depth(b) % DepthStep = 0
    BY <2>5, DepthOfSingle, DepthAssumption
  <2> QED BY <2>6, <2>7 DEF ShouldSplit
<1> QED BY <1>1, <1>3 DEF Mid

(* A step that changes what one bucket holds and not its range. *)
LEMMA UpdateBucketOK ==
    ASSUME TableOK, NEW i \in DOMAIN buckets, NEW c, BucketOK(c),
           c.lo = buckets[i].lo, c.hi = buckets[i].hi,
           buckets' = [buckets EXCEPT ![i] = c]
    PROVE  TableOK'
<1>1. buckets \in Seq(KBucket) /\ c \in KBucket
  BY DEF TableOK, BucketOK
<1>2. /\ buckets' \in Seq(KBucket) /\ Len(buckets') = Len(buckets)
      /\ DOMAIN buckets' = DOMAIN buckets /\ Len(buckets) \in Nat
      /\ DOMAIN buckets = 1..Len(buckets)
      /\ \A j \in DOMAIN buckets : buckets'[j] = IF j = i THEN c ELSE buckets[j]
  BY <1>1
<1>3. \A j \in DOMAIN buckets : buckets'[j].lo = buckets[j].lo /\ buckets'[j].hi = buckets[j].hi
  BY <1>2
<1>4. \A j \in DOMAIN buckets' : BucketOK(buckets'[j])
  BY <1>2 DEF TableOK
<1>5. RangesPartition'
  BY <1>2, <1>3 DEF TableOK, RangesPartition
<1> QED BY <1>2, <1>4, <1>5 DEF TableOK, BucketOK, BucketWF, AllNear

(* split_bucket is an assignment and a list.insert. *)
LEMMA SplitBucketElements ==
    ASSUME buckets \in Seq(KBucket), NEW a \in 1..Len(buckets),
           NEW one \in KBucket, NEW two \in KBucket,
           buckets' = InsertAt(ReplaceAt(buckets, a, one), a + 1, two)
    PROVE  /\ buckets' \in Seq(KBucket) /\ Len(buckets') = Len(buckets) + 1
           /\ \A j \in 1..(a - 1) : buckets'[j] = buckets[j]
           /\ buckets'[a] = one /\ buckets'[a + 1] = two
           /\ \A j \in (a + 1)..Len(buckets) : buckets'[j + 1] = buckets[j]
<1> DEFINE s == buckets
           t == buckets'
           r == [s EXCEPT ![a] = one]
           l == SubSeq(r, 1, (a + 1) - 1)
           m == l \o <<two>>
           q == SubSeq(r, a + 1, Len(r))
<1>1. Len(s) \in Nat /\ a \in Nat /\ a <= Len(s)
  OBVIOUS
<1>2. /\ r \in Seq(KBucket) /\ Len(r) = Len(s)
      /\ \A j \in 1..Len(s) : r[j] = IF j = a THEN one ELSE s[j]
  BY <1>1
<1> HIDE DEF r
<1>3. l \in Seq(KBucket) /\ Len(l) = a /\ \A j \in 1..a : l[j] = r[j]
  BY <1>1, <1>2, SubSeqProperties
<1>4. /\ q \in Seq(KBucket) /\ Len(q) = Len(s) - a
      /\ \A j \in 1..(Len(s) - a) : q[j] = r[a + j]
  BY <1>1, <1>2, SubSeqProperties
<1> HIDE DEF l, q
<1>5. m \in Seq(KBucket) /\ Len(m) = a + 1 /\ (\A j \in 1..a : m[j] = l[j]) /\ m[a + 1] = two
  <2>1. <<two>> \in Seq(KBucket) /\ Len(<<two>>) = 1 /\ <<two>>[1] = two
    OBVIOUS
  <2>2. /\ m \in Seq(KBucket) /\ Len(m) = Len(l) + 1
        /\ \A j \in 1..(Len(l) + 1) : m[j] = IF j <= Len(l) THEN l[j] ELSE <<two>>[j - Len(l)]
    BY <1>3, <2>1, ConcatProperties
  <2> QED BY <1>1, <1>3, <2>1, <2>2
<1> HIDE DEF m
<1>6. /\ m \o q \in Seq(KBucket) /\ Len(m \o q) = Len(m) + Len(q)
      /\ \A j \in 1..(Len(m) + Len(q)) :
            (m \o q)[j] = IF j <= Len(m) THEN m[j] ELSE q[j - Len(m)]
  BY <1>4, <1>5, ConcatProperties
<1>7. t = m \o q
  BY Zenon DEF InsertAt, ReplaceAt, l, m, q, r
<1> HIDE DEF s, t
<1>8. /\ t \in Seq(KBucket) /\ Len(t) = Len(s) + 1
      /\ \A j \in 1..(a + 1) : t[j] = m[j]
  <2>1. Len(m) + Len(q) = Len(s) + 1 /\ Len(m) = a + 1
    BY <1>1, <1>4, <1>5
  <2> QED BY <1>1, <1>6, <1>7, <2>1
<1>9. (\A j \in 1..(a - 1) : t[j] = s[j]) /\ t[a] = one /\ t[a + 1] = two
  <2>1. \A j \in 1..a : t[j] = r[j]
    BY <1>1, <1>3, <1>5, <1>8
  <2>2. t[a + 1] = two
    BY <1>1, <1>5, <1>8
  <2> QED BY <2>1, <2>2, <1>1, <1>2
<1>10. ASSUME NEW j \in (a + 1)..Len(s) PROVE t[j + 1] = s[j]
  <2>1. j - a \in 1..(Len(s) - a) /\ a + (j - a) = j /\ (j + 1) - (a + 1) = j - a
    BY <1>1
  <2>2. t[j + 1] = q[j - a]
    BY <1>1, <1>4, <1>5, <1>6, <1>7, <2>1
  <2>3. q[j - a] = r[a + (j - a)]
    BY <1>4, <2>1
  <2>4. j \in 1..Len(s) /\ j # a /\ r[j] = s[j]
    BY <1>1, <1>2
  <2> QED BY <2>1, <2>2, <2>3, <2>4
<1> QED BY <1>8, <1>9, <1>10 DEF s, t

(* split_bucket puts two halves where their bucket was. *)
LEMMA SplitBucketOK ==
    ASSUME TableOK, SplitOK, split.one \in KBucket, split.two \in KBucket,
           buckets' = InsertAt(ReplaceAt(buckets, split.at, split.one), split.at + 1, split.two)
    PROVE  TableOK'
<1> DEFINE a == split.at
<1>1. /\ buckets \in Seq(KBucket) /\ Len(buckets) \in Nat
      /\ DOMAIN buckets = 1..Len(buckets) /\ a \in 1..Len(buckets)
  BY DEF TableOK, SplitOK
<1>4. /\ buckets' \in Seq(KBucket) /\ Len(buckets') = Len(buckets) + 1
      /\ \A j \in 1..(a - 1) : buckets'[j] = buckets[j]
      /\ buckets'[a] = split.one /\ buckets'[a + 1] = split.two
      /\ \A j \in (a + 1)..Len(buckets) : buckets'[j + 1] = buckets[j]
  <2> SUFFICES ASSUME NEW x, x = split.at, NEW y, y = split.one, NEW z, z = split.two
      PROVE  /\ buckets' \in Seq(KBucket) /\ Len(buckets') = Len(buckets) + 1
             /\ \A j \in 1..(x - 1) : buckets'[j] = buckets[j]
             /\ buckets'[x] = y /\ buckets'[x + 1] = z
             /\ \A j \in (x + 1)..Len(buckets) : buckets'[j + 1] = buckets[j]
    OBVIOUS
  <2>1. /\ buckets \in Seq(KBucket) /\ x \in 1..Len(buckets) /\ y \in KBucket /\ z \in KBucket
        /\ buckets' = InsertAt(ReplaceAt(buckets, x, y), x + 1, z)
    BY <1>1
  <2> QED BY ONLY <2>1, SplitBucketElements
<1>6. DOMAIN buckets' = 1..(Len(buckets) + 1)
  BY <1>4
<1>7. /\ split.one.lo = buckets[a].lo /\ split.one.hi = Mid(buckets[a])
      /\ split.two.lo = Mid(buckets[a]) + 1 /\ split.two.hi = buckets[a].hi
      /\ Mid(buckets[a]) < buckets[a].hi
      /\ BucketOK(split.one) /\ BucketOK(split.two)
  BY DEF SplitOK
<1>5. ASSUME NEW j \in 1..(Len(buckets) + 1), j # a, j # a + 1
      PROVE  \E i \in 1..Len(buckets) : buckets'[j] = buckets[i]
  <2>1. CASE j < a
    BY <2>1, <1>1, <1>4
  <2>2. CASE j > a + 1
    <3>1. j - 1 \in (a + 1)..Len(buckets) /\ (j - 1) + 1 = j
      BY <2>2, <1>1
    <3> QED BY <3>1, <1>1, <1>4
  <2> QED BY <2>1, <2>2, <1>1, <1>5
<1>8. \A j \in DOMAIN buckets' : BucketOK(buckets'[j])
  BY <1>1, <1>4, <1>5, <1>6, <1>7 DEF TableOK
<1>9. RangesPartition'
  <2>1. \A j \in 1..Len(buckets) : buckets[j].lo \in Nat /\ buckets[j].hi \in Nat /\ buckets[j].lo <= buckets[j].hi
    <3> TAKE j \in 1..Len(buckets)
    <3>1. buckets[j] \in KBucket
      BY <1>1
    <3>2. buckets[j].lo \in Nat /\ buckets[j].hi \in Nat
      BY <3>1, IdBitsAssumption DEF KBucket
    <3>3. buckets[j].lo <= buckets[j].hi
      BY <1>1 DEF TableOK, RangesPartition
    <3> QED BY <3>2, <3>3
  <2>2. buckets[a].lo <= Mid(buckets[a]) /\ Mid(buckets[a]) \in Nat
    BY <2>1, <1>1, <1>7 DEF Mid
  <2>3. Len(buckets') >= 1 /\ buckets'[1].lo = 0
    BY <1>1, <1>4, <1>7 DEF TableOK, RangesPartition
  <2>4. buckets'[Len(buckets')].hi = IdBound
    BY <1>1, <1>4, <1>7 DEF TableOK, RangesPartition
  <2>5. \A j \in DOMAIN buckets' : buckets'[j].lo <= buckets'[j].hi
    <3> TAKE j \in DOMAIN buckets'
    <3>1. CASE j # a /\ j # a + 1
      BY <3>1, <1>5, <1>6, <2>1
    <3>2. CASE j = a \/ j = a + 1
      BY <3>2, <1>1, <1>4, <1>7, <2>1, <2>2
    <3> QED BY <3>1, <3>2
  <2>6. ASSUME NEW j \in 1..(Len(buckets') - 1) PROVE buckets'[j + 1].lo = buckets'[j].hi + 1
    <3>0. j \in 1..Len(buckets) /\ j + 1 \in 1..(Len(buckets) + 1) /\ j \in 1..(Len(buckets) + 1)
      BY <1>1, <1>4
    <3>1. CASE j < a - 1
      <4>1. j \in 1..(a - 1) /\ j + 1 \in 1..(a - 1) /\ j \in 1..(Len(buckets) - 1)
        BY <3>0, <3>1, <1>1
      <4>2. buckets'[j] = buckets[j] /\ buckets'[j + 1] = buckets[j + 1]
        BY <4>1, <1>4
      <4> QED BY <4>1, <4>2 DEF TableOK, RangesPartition
    <3>2. CASE j = a - 1
      <4>1. j \in 1..(a - 1) /\ j + 1 = a /\ j \in 1..(Len(buckets) - 1)
        BY <3>0, <3>2, <1>1
      <4>2. buckets'[j] = buckets[j] /\ buckets'[j + 1] = split.one
        BY <4>1, <1>4
      <4> QED BY <4>1, <4>2, <1>7 DEF TableOK, RangesPartition
    <3>3. CASE j = a
      BY <3>0, <3>3, <1>1, <1>4, <1>7
    <3>4. CASE j = a + 1
      <4>1. /\ buckets'[j] = split.two /\ buckets'[j + 1] = buckets[a + 1]
            /\ a \in 1..(Len(buckets) - 1) /\ a + 1 \in (a + 1)..Len(buckets)
        BY <3>0, <3>4, <1>1, <1>4
      <4> QED BY <4>1, <1>7 DEF TableOK, RangesPartition
    <3>5. CASE j > a + 1
      <4>1. j - 1 \in (a + 1)..Len(buckets) /\ j \in (a + 1)..Len(buckets) /\ (j - 1) + 1 = j
            /\ j - 1 \in 1..(Len(buckets) - 1)
        BY <3>0, <3>5, <1>1, <1>4
      <4>2. buckets'[j] = buckets[j - 1] /\ buckets'[j + 1] = buckets[j]
        BY <4>1, <1>4
      <4>3. buckets[(j - 1) + 1].lo = buckets[j - 1].hi + 1
        BY <4>1 DEF TableOK, RangesPartition
      <4> QED BY <4>1, <4>2, <4>3
    <3> QED BY <3>0, <3>1, <3>2, <3>3, <3>4, <3>5, <1>1
  <2> QED BY <2>3, <2>4, <2>5, <2>6 DEF RangesPartition
<1> QED BY <1>4, <1>8, <1>9 DEF TableOK, BucketOK, BucketWF, AllNear

-----------------------------------------------------------------------------
(* The invariant *)

LEMMA InitIInv == Init => IInv
<1> SUFFICES ASSUME Init PROVE IInv
  OBVIOUS
<1> DEFINE b == NewBucket(0, IdBound)
<1>1. 0 \in 0..IdBound /\ IdBound \in 0..IdBound /\ IdBound \in Nat
  BY IdBitsAssumption
<1>2. BucketOK(b) /\ b \in KBucket /\ b.lo = 0 /\ b.hi = IdBound
  BY <1>1, EmptyBucketOK DEF BucketOK, NewBucket
<1>3. buckets = <<b>>
  BY DEF Init
<1> HIDE DEF b
<1>4. buckets \in Seq(KBucket) /\ Len(buckets) = 1 /\ buckets[1] = b
  BY <1>2, <1>3
<1>5. RangesPartition
  BY <1>1, <1>2, <1>4 DEF RangesPartition
<1>6. TableOK
  BY <1>2, <1>4, <1>5 DEF TableOK
<1>7. NewBucket(0, 0) \in KBucket
  BY <1>1, EmptyBucketOK DEF BucketOK
<1>8. TypeOK
  BY <1>4, <1>7 DEF TypeOK, Init, NoSplit
<1> QED BY <1>6, <1>8 DEF IInv, Init

LEMMA NoSplitType == NoSplit \in [at : Nat, todo : Seq(Ids), one : KBucket, two : KBucket]
BY EmptyBucketOK, IdBitsAssumption DEF NoSplit, BucketOK

(* add_node and remove_node of the bucket a node is looked up in keep the table. *)
LEMMA AddInBucket ==
    ASSUME TableOK, NEW n \in Ids \ {Self},
           buckets' = [buckets EXCEPT ![BucketFor(n)] = AddNode(@, n)]
    PROVE  TableOK' /\ BucketFor(n) \in DOMAIN buckets
           /\ buckets'[BucketFor(n)] = AddNode(buckets[BucketFor(n)], n)
<1> DEFINE i == BucketFor(n)
           c == AddNode(buckets[i], n)
<1>1. i \in DOMAIN buckets /\ Near(buckets[i], n) /\ BucketOK(buckets[i])
  BY BucketForOK DEF TableOK
<1>2. BucketOK(c) /\ c.lo = buckets[i].lo /\ c.hi = buckets[i].hi
  BY <1>1, AddNodeOK
<1>3. buckets' = [buckets EXCEPT ![i] = c]
  OBVIOUS
<1> HIDE DEF i, c
<1>4. TableOK'
  BY <1>1, <1>2, <1>3, UpdateBucketOK
<1>5. buckets'[i] = c
  BY <1>1, <1>3 DEF TableOK
<1> QED BY <1>1, <1>4, <1>5 DEF i, c

LEMMA RemoveInBucket ==
    ASSUME TableOK, NEW n \in Ids,
           buckets' = [buckets EXCEPT ![BucketFor(n)] = RemoveNode(@, n)]
    PROVE  TableOK'
<1> DEFINE i == BucketFor(n)
           c == RemoveNode(buckets[i], n)
<1>1. i \in DOMAIN buckets /\ BucketOK(buckets[i])
  BY BucketForOK DEF TableOK
<1>2. BucketOK(c) /\ c.lo = buckets[i].lo /\ c.hi = buckets[i].hi
  BY <1>1, RemoveNodeOK
<1>3. buckets' = [buckets EXCEPT ![i] = c]
  OBVIOUS
<1> HIDE DEF i, c
<1> QED BY <1>1, <1>2, <1>3, UpdateBucketOK

(* KBucket.split starts with a range that has two halves, and nodes near it. *)
LEMMA StartSplitOK ==
    ASSUME IInv, AddThenSplit
    PROVE  /\ TableOK'
           /\ split'.at \in Nat /\ split'.todo \in Seq(Ids)
           /\ split'.one \in KBucket /\ split'.two \in KBucket
           /\ split' = [at |-> split'.at, todo |-> split'.todo,
                        one |-> split'.one, two |-> split'.two]
           /\ SplitOK'
<1> DEFINE n == contact
           i == BucketFor(n)
           b == buckets[i]
           c == AddNode(b, n)
<1>1. TableOK /\ n \in Ids /\ n # Self
  BY DEF IInv, AddThenSplit
<1>2. i \in DOMAIN buckets /\ n < b.hi /\ Near(b, n) /\ BucketOK(b) /\ b.lo <= b.hi
  BY <1>1, BucketForOK DEF TableOK, RangesPartition
<1>3. ~Accepts(b, n) /\ ShouldSplit(b) /\ split' = StartSplit(i, buckets'[i])
  BY DEF AddThenSplit
<1>4. TableOK' /\ buckets'[i] = c
  BY <1>1, AddInBucket DEF AddThenSplit
<1>5. BucketOK(c) /\ c.lo = b.lo /\ c.hi = b.hi /\ c.nodes = b.nodes
  BY <1>1, <1>2, <1>3, AddNodeOK
<1>6. Mid(b) < b.hi /\ b.lo <= Mid(b) /\ Mid(b) \in 0..IdBound
  BY <1>1, <1>2, <1>3, SplitIsWide
<1>7. Mid(c) = Mid(b)
  BY <1>5 DEF Mid
<1>8. /\ c \in KBucket /\ c.lo \in 0..IdBound /\ c.hi \in 0..IdBound /\ IdBound \in Nat
      /\ c.nodes \in Seq(Ids) /\ c.replacement \in Seq(Ids)
  BY <1>5, IdBitsAssumption DEF BucketOK, KBucket
<1>9. i \in Nat /\ i \in DOMAIN buckets'
  <2>1. buckets \in Seq(KBucket)
    BY <1>1 DEF TableOK
  <2>2. i \in Nat
    BY <1>2, <2>1
  <2>3. buckets' = [buckets EXCEPT ![i] = AddNode(@, n)]
    BY DEF AddThenSplit
  <2> HIDE DEF i
  <2> QED BY <1>2, <2>2, <2>3
<1> HIDE DEF c, b, i
<1>10. split' = [at |-> i, todo |-> c.nodes \o c.replacement,
                 one |-> NewBucket(c.lo, Mid(c)), two |-> NewBucket(Mid(c) + 1, c.hi)]
  BY <1>3, <1>4 DEF StartSplit
<1>11. /\ NewBucket(c.lo, Mid(c)).lo = c.lo /\ NewBucket(c.lo, Mid(c)).hi = Mid(c)
       /\ NewBucket(Mid(c) + 1, c.hi).lo = Mid(c) + 1 /\ NewBucket(Mid(c) + 1, c.hi).hi = c.hi
  BY DEF NewBucket
<1>12. Mid(c) \in 0..IdBound /\ Mid(c) + 1 \in 0..IdBound
  BY <1>5, <1>6, <1>7, <1>8
<1>13. BucketOK(NewBucket(c.lo, Mid(c))) /\ BucketOK(NewBucket(Mid(c) + 1, c.hi))
  BY <1>8, <1>12, EmptyBucketOK
<1>14. c.nodes \o c.replacement \in Seq(Ids)
  BY <1>8
<1>15. ASSUME NEW m \in ToSet(c.nodes \o c.replacement) PROVE Near(c, m)
  <2> DEFINE x == c.nodes
             y == c.replacement
  <2>1. x \in Seq(Ids) /\ y \in Seq(Ids)
    BY <1>8
  <2>2. m \in ToSet(x \o y)
    OBVIOUS
  <2> HIDE DEF x, y
  <2>3. PICK j \in 1..(Len(x) + Len(y)) : m = (x \o y)[j]
    BY <2>1, <2>2, ConcatProperties DEF ToSet
  <2>4. m = IF j <= Len(x) THEN x[j] ELSE y[j - Len(x)]
    BY <2>1, <2>3, ConcatProperties
  <2>5. m \in ToSet(x) \cup ToSet(y)
    BY <2>1, <2>3, <2>4 DEF ToSet
  <2> QED BY <2>5, <1>5 DEF BucketOK, AllNear, x, y
<1>16. SplitOK'
  <2>1. split'.at = i /\ buckets'[split'.at] = c
    BY <1>4, <1>10 DEF i, c
  <2>2. Mid(c) < c.hi
    BY <1>5, <1>6, <1>7
  <2>3. /\ split'.one = NewBucket(c.lo, Mid(c)) /\ split'.two = NewBucket(Mid(c) + 1, c.hi)
        /\ split'.todo = c.nodes \o c.replacement
    BY <1>10
  <2>4. split'.one.lo = c.lo /\ split'.one.hi = Mid(c) /\ split'.two.lo = Mid(c) + 1 /\ split'.two.hi = c.hi
    BY <2>3, <1>11
  <2>5. BucketOK(split'.one) /\ BucketOK(split'.two)
    BY <2>3, <1>13
  <2>6. \A m \in ToSet(split'.todo) : Near(c, m)
    BY <2>3, <1>15
  <2> QED BY <1>9, <2>1, <2>2, <2>4, <2>5, <2>6 DEF SplitOK, BucketOK, BucketWF, AllNear, Mid, Near
<1> QED BY <1>4, <1>9, <1>10, <1>13, <1>14, <1>16 DEF BucketOK

(* One iteration of the loop of KBucket.split. *)
LEMMA SplitMoveOK ==
    ASSUME IInv, SplitMove
    PROVE  IInv'
<1> DEFINE n == Head(split.todo)
           b == buckets[split.at]
<1>1. /\ TypeOK /\ TableOK /\ SplitOK /\ split.todo \in Seq(Ids) /\ split.todo # <<>>
      /\ split.one \in KBucket /\ split.two \in KBucket /\ split.at \in Nat
      /\ contact \in Ids \ {Self} /\ pc = "split"
  BY DEF IInv, TypeOK, SplitMove
<1>2. /\ n \in Ids /\ n \in ToSet(split.todo) /\ Tail(split.todo) \in Seq(Ids)
      /\ ToSet(Tail(split.todo)) \subseteq ToSet(split.todo)
  <2> DEFINE s == split.todo
  <2>1. s \in Seq(Ids) /\ s # <<>> /\ Head(s) = s[1] /\ Len(s) \in Nat /\ Len(s) >= 1
    BY <1>1, EmptySeq
  <2> HIDE DEF s
  <2>2. /\ Head(s) \in Ids /\ Tail(s) \in Seq(Ids) /\ Len(Tail(s)) = Len(s) - 1
        /\ \A i \in 1..Len(Tail(s)) : Tail(s)[i] = s[i + 1]
    BY <2>1, HeadTailProperties
  <2>3. Head(s) \in ToSet(s) /\ ToSet(Tail(s)) \subseteq ToSet(s)
    BY <2>1, <2>2 DEF ToSet
  <2> QED BY <2>2, <2>3 DEF s
<1>3. Near(b, n) /\ n \in Nat /\ n # Self /\ split.at \in DOMAIN buckets /\ b \in KBucket
  <2>1. split.at \in DOMAIN buckets /\ Near(b, n)
    BY <1>1, <1>2 DEF SplitOK
  <2>2. b \in KBucket
    BY <1>1, <2>1 DEF TableOK
  <2>3. n # Self
    BY <2>1 DEF Near
  <2> HIDE DEF n, b
  <2> QED BY <1>2, <2>1, <2>2, <2>3, IdsAssumption, IdBitsAssumption
<1>4. b.lo \in Nat /\ b.hi \in Nat /\ Mid(b) \in Nat
  BY <1>3, IdBitsAssumption DEF KBucket, Mid
<1>5. /\ UNCHANGED <<buckets, pc, contact>>
      /\ split' = IF n <= Mid(b)
                  THEN [split EXCEPT !.todo = Tail(@), !.one = AddNode(@, n)]
                  ELSE [split EXCEPT !.todo = Tail(@), !.two = AddNode(@, n)]
  BY DEF SplitMove
<1>6. split \in [at : Nat, todo : Seq(Ids), one : KBucket, two : KBucket]
  BY <1>1 DEF TypeOK
<1>7. CASE n <= Mid(b)
  <2> DEFINE c == AddNode(split.one, n)
  <2>1. Near(split.one, n)
    BY <1>1, <1>3, <1>7 DEF SplitOK, Near
  <2>2. BucketOK(c) /\ c.lo = split.one.lo /\ c.hi = split.one.hi /\ c \in KBucket
    BY <1>1, <1>2, <2>1, AddNodeOK DEF SplitOK, BucketOK
  <2> HIDE DEF c
  <2>3. /\ split' \in [at : Nat, todo : Seq(Ids), one : KBucket, two : KBucket]
        /\ split'.at = split.at /\ split'.todo = Tail(split.todo)
        /\ split'.one = c /\ split'.two = split.two
    <3>1. split' = [split EXCEPT !.todo = Tail(@), !.one = c]
      BY <1>5, <1>7 DEF c
    <3> QED BY <3>1, <1>2, <1>6, <2>2
  <2>4. SplitOK'
    <3>1. /\ split.at \in DOMAIN buckets /\ Mid(b) < b.hi
          /\ split'.one.lo = b.lo /\ split'.one.hi = Mid(b)
          /\ split'.two.lo = Mid(b) + 1 /\ split'.two.hi = b.hi
          /\ BucketOK(split'.one) /\ BucketOK(split'.two)
          /\ \A m \in ToSet(split'.todo) : Near(b, m)
      BY <1>1, <1>2, <2>2, <2>3 DEF SplitOK
    <3>2. buckets' = buckets /\ split'.at = split.at
      BY <1>5, <2>3
    <3> QED BY <3>1, <3>2 DEF SplitOK, BucketOK, BucketWF, AllNear, Mid, Near
  <2> QED BY <1>1, <1>5, <2>3, <2>4 DEF IInv, TypeOK, TableOK, RangesPartition, BucketOK, BucketWF, AllNear
<1>8. CASE ~(n <= Mid(b))
  <2> DEFINE c == AddNode(split.two, n)
  <2>1. Near(split.two, n)
    BY <1>1, <1>3, <1>4, <1>8 DEF SplitOK, Near
  <2>2. BucketOK(c) /\ c.lo = split.two.lo /\ c.hi = split.two.hi /\ c \in KBucket
    BY <1>1, <1>2, <2>1, AddNodeOK DEF SplitOK, BucketOK
  <2> HIDE DEF c
  <2>3. /\ split' \in [at : Nat, todo : Seq(Ids), one : KBucket, two : KBucket]
        /\ split'.at = split.at /\ split'.todo = Tail(split.todo)
        /\ split'.one = split.one /\ split'.two = c
    <3>1. split' = [split EXCEPT !.todo = Tail(@), !.two = c]
      BY <1>5, <1>8 DEF c
    <3> QED BY <3>1, <1>2, <1>6, <2>2
  <2>4. SplitOK'
    <3>1. /\ split.at \in DOMAIN buckets /\ Mid(b) < b.hi
          /\ split'.one.lo = b.lo /\ split'.one.hi = Mid(b)
          /\ split'.two.lo = Mid(b) + 1 /\ split'.two.hi = b.hi
          /\ BucketOK(split'.one) /\ BucketOK(split'.two)
          /\ \A m \in ToSet(split'.todo) : Near(b, m)
      BY <1>1, <1>2, <2>2, <2>3 DEF SplitOK
    <3>2. buckets' = buckets /\ split'.at = split.at
      BY <1>5, <2>3
    <3> QED BY <3>1, <3>2 DEF SplitOK, BucketOK, BucketWF, AllNear, Mid, Near
  <2> QED BY <1>1, <1>5, <2>3, <2>4 DEF IInv, TypeOK, TableOK, RangesPartition, BucketOK, BucketWF, AllNear
<1> QED BY <1>7, <1>8

LEMMA NextIInv == IInv /\ [Next]_vars => IInv'
<1> SUFFICES ASSUME IInv, [Next]_vars PROVE IInv'
  OBVIOUS
<1>0. TypeOK /\ TableOK /\ NoSplit \in [at : Nat, todo : Seq(Ids), one : KBucket, two : KBucket]
  BY NoSplitType DEF IInv
<1>1. ASSUME NEW n \in Ids, WellcomeIfNew(n) PROVE IInv'
  BY <1>0, <1>1 DEF WellcomeIfNew, IInv, TypeOK, TableOK, RangesPartition, BucketOK, BucketWF, AllNear
<1>2. ASSUME NEW n \in Ids, RemoveContact(n) PROVE IInv'
  <2>1. TableOK'
    BY <1>0, <1>2, RemoveInBucket DEF RemoveContact
  <2> QED BY <1>0, <1>2, <2>1 DEF RemoveContact, IInv, TypeOK, TableOK
<1>3. CASE AddAccepted
  <2>1. TableOK'
    BY <1>0, <1>3, AddInBucket DEF AddAccepted, IInv
  <2>2. pc' = "idle" /\ contact' = NoNode /\ split' = NoSplit
    BY <1>3 DEF AddAccepted, Idle
  <2> QED BY <1>0, <2>1, <2>2 DEF IInv, TypeOK, TableOK
<1>4. CASE AddThenSplit
  <2>1. pc' = "split" /\ contact' = contact /\ contact \in Ids \ {Self}
    BY <1>4 DEF AddThenSplit, IInv
  <2>2. /\ TableOK' /\ SplitOK'
        /\ split' \in [at : Nat, todo : Seq(Ids), one : KBucket, two : KBucket]
    BY <1>4, StartSplitOK
  <2> QED BY <2>1, <2>2 DEF IInv, TypeOK, TableOK
<1>5. CASE AddThenPing
  <2> DEFINE b == buckets[BucketFor(contact)]
  <2>1. contact \in Ids \ {Self} /\ pc' = "ping" /\ contact' = Head(b.nodes) /\ split' = split
    BY <1>5 DEF AddThenPing, IInv
  <2>2. TableOK'
    BY <1>0, <1>5, <2>1, AddInBucket DEF AddThenPing
  <2>3. BucketOK(b) /\ b.nodes \in Seq(Ids) /\ Len(b.nodes) >= KSize
    BY <1>0, <1>5, <2>1, BucketForOK DEF AddThenPing, Accepts, Full, TableOK, BucketOK, KBucket
  <2>4. b.nodes[1] \in ToSet(b.nodes) /\ Head(b.nodes) = b.nodes[1] /\ b.nodes[1] \in Ids
    BY <2>3, KSizeAssumption DEF ToSet
  <2>5. Head(b.nodes) \in Ids \ {Self}
    BY <2>3, <2>4 DEF BucketOK, AllNear, Near
  <2> QED BY <1>0, <2>1, <2>2, <2>5 DEF IInv, TypeOK, TableOK
<1>6. CASE SplitMove
  BY <1>6, SplitMoveOK
<1>7. CASE SplitFinish
  <2>1. SplitOK /\ split.one \in KBucket /\ split.two \in KBucket /\ contact \in Ids \ {Self}
    BY <1>0, <1>7 DEF SplitFinish, IInv, TypeOK
  <2>2. TableOK'
    BY <1>0, <1>7, <2>1, SplitBucketOK DEF SplitFinish
  <2>3. pc' = "add" /\ split' = NoSplit /\ contact' = contact
    BY <1>7 DEF SplitFinish
  <2> QED BY <1>0, <2>1, <2>2, <2>3 DEF IInv, TypeOK, TableOK
<1>8. CASE PingAnswered
  <2>1. buckets' = buckets /\ contact \in Ids \ {Self}
    BY <1>8 DEF PingAnswered, Idle, IInv
  <2>2. \/ pc' = "add" /\ contact' = contact /\ split' = split
        \/ pc' = "idle" /\ contact' = NoNode /\ split' = NoSplit
    BY <1>8 DEF PingAnswered, Idle
  <2>3. TableOK'
    BY <1>0, <2>1 DEF TableOK, RangesPartition, BucketOK, BucketWF, AllNear
  <2> QED BY <1>0, <2>1, <2>2, <2>3 DEF IInv, TypeOK, TableOK
<1>9. CASE PingFailed
  <2>1. pc' = "idle" /\ contact' = NoNode /\ split' = NoSplit /\ contact \in Ids
    BY <1>9 DEF PingFailed, Idle, IInv
  <2>2. TableOK'
    BY <1>0, <1>9, <2>1, RemoveInBucket DEF PingFailed
  <2> QED BY <1>0, <2>1, <2>2 DEF IInv, TypeOK, TableOK
<1>10. CASE PingRaised
  <2>1. pc' = "idle" /\ contact' = NoNode /\ split' = NoSplit /\ buckets' = buckets
    BY <1>10 DEF PingRaised, Idle
  <2>2. TableOK'
    BY <1>0, <2>1 DEF TableOK, RangesPartition, BucketOK, BucketWF, AllNear
  <2> QED BY <1>0, <2>1, <2>2 DEF IInv, TypeOK, TableOK
<1>11. CASE UNCHANGED vars
  BY <1>11 DEF vars, IInv, TypeOK, TableOK, RangesPartition, BucketOK, BucketWF, AllNear, SplitOK
<1> QED BY <1>1, <1>2, <1>3, <1>4, <1>5, <1>6, <1>7, <1>8, <1>9, <1>10, <1>11
        DEF Next, AddStep, SplitStep, PingStep

LEMMA SpecIInv == Spec => []IInv
BY InitIInv, NextIInv, PTL DEF Spec

(* The variables keep their types, whatever the identifiers and the bucket size. *)
THEOREM TypeCorrect == Spec => []TypeOK
BY SpecIInv, PTL DEF IInv

(* However often add_contact splits, the buckets partition the identifier space,     *)
(* including the identifiers on a midpoint.                                          *)
THEOREM RangesAlwaysPartition == Spec => []RangesPartition
<1>1. IInv => RangesPartition
  BY DEF IInv, TableOK
<1> QED BY <1>1, SpecIInv, PTL

(* No bucket exceeds its bounds or lists a node twice, and spares exist only while   *)
(* the bucket is full.                                                               *)
THEOREM BucketsWellFormed == Spec => []BucketsWF
<1>1. IInv => BucketsWF
  BY DEF IInv, TableOK, BucketOK, BucketsWF
<1> QED BY <1>1, SpecIInv, PTL

(* A node is listed in its own bucket or in the one just above, and never this       *)
(* server itself: the most a midpoint identifier can be misplaced by.                *)
THEOREM ListedAlwaysNearRange == Spec => []ListedNearRange
<1>1. IInv => ListedNearRange
  BY DEF IInv, TableOK, BucketOK, ListedNearRange
<1> QED BY <1>1, SpecIInv, PTL

(* get_bucket_for finds a bucket for every identifier: VoidNodeException is never    *)
(* raised by a table that one thread changes.                                        *)
THEOREM EveryNodeHasBucket == Spec => [](\A n \in Ids : HasBucket(n))
<1>1. IInv => \A n \in Ids : HasBucket(n)
  BY BucketForOK DEF IInv, HasBucket
<1> QED BY <1>1, SpecIInv, PTL
-----------------------------------------------------------------------------
(* Contacts are kept *)

(***************************************************************************)
(* A split in progress has moved the contacts of its bucket in order, the  *)
(* spares after them, and none of the contacts was turned away: as long as *)
(* contacts are left to move, the halves together list no more nodes than  *)
(* were moved, so that neither is full.                                    *)
(***************************************************************************)
SplitKeeps ==
    LET b == buckets[split.at]
        all == b.nodes \o b.replacement
        moved == Len(all) - Len(split.todo)
    IN  /\ moved \in Nat
        /\ \A j \in 1..Len(split.todo) : split.todo[j] = all[moved + j]
        /\ \A j \in 1..Len(b.nodes) :
               j <= moved => b.nodes[j] \in ToSet(split.one.nodes) \cup ToSet(split.two.nodes)
        /\ moved < Len(b.nodes) => Len(split.one.nodes) + Len(split.two.nodes) <= moved

KeepInv == IInv /\ (pc = "split" => SplitKeeps)

(* add_node loses no contact, and takes the node while the bucket is not full. *)
LEMMA AddNodeKeeps ==
    ASSUME NEW b, BucketOK(b), NEW n \in Ids
    PROVE  /\ ToSet(b.nodes) \subseteq ToSet(AddNode(b, n).nodes)
           /\ Len(AddNode(b, n).nodes) \in Nat
           /\ Len(AddNode(b, n).nodes) <= Len(b.nodes) + 1
           /\ ~Full(b) => n \in ToSet(AddNode(b, n).nodes)
<1>1. b \in KBucket /\ b.nodes \in Seq(Ids) /\ Distinct(b.nodes)
  BY DEF BucketOK, KBucket, BucketWF
<1> DEFINE nn == AsNewest(b.nodes, n)
<1>2. /\ nn \in Seq(Ids) /\ ToSet(nn) = ToSet(b.nodes) \cup {n}
      /\ Len(nn) = IF n \in ToSet(b.nodes) THEN Len(b.nodes) ELSE Len(b.nodes) + 1
  BY <1>1, AsNewestProperties
<1>3. Len(b.nodes) \in Nat
  BY <1>1
<1>4. CASE Accepts(b, n)
  <2>1. AddNode(b, n).nodes = nn
    BY <1>1, <1>4 DEF AddNode, KBucket
  <2> HIDE DEF nn
  <2> QED BY <1>2, <1>3, <2>1
<1>5. CASE ~Accepts(b, n)
  <2>1. AddNode(b, n).nodes = b.nodes
    BY <1>1, <1>5 DEF AddNode, KBucket
  <2>2. Full(b)
    BY <1>5 DEF Accepts
  <2> QED BY <1>3, <2>1, <2>2
<1> QED BY <1>4, <1>5

(* remove_node takes no contact but its argument. *)
LEMMA RemoveNodeKeeps ==
    ASSUME NEW b, BucketOK(b), NEW n
    PROVE  ToSet(b.nodes) \ {n} \subseteq ToSet(RemoveNode(b, n).nodes)
<1> DEFINE spare == Without(b.replacement, n)
           kept  == Without(b.nodes, n)
<1>1. b \in KBucket /\ b.nodes \in Seq(Ids) /\ b.replacement \in Seq(Ids)
      /\ Distinct(b.nodes) /\ Distinct(b.replacement)
  BY DEF BucketOK, KBucket, BucketWF
<1>2. kept \in Seq(Ids) /\ ToSet(kept) = ToSet(b.nodes) \ {n} /\ Distinct(kept)
  BY <1>1, WithoutProperties
<1>3. spare \in Seq(Ids) /\ Distinct(spare)
  BY <1>1, WithoutProperties
<1> HIDE DEF spare, kept
<1>4. CASE IsNewIn(b, n) \/ spare = <<>>
  <2>1. RemoveNode(b, n) = [b EXCEPT !.replacement = spare, !.nodes = kept]
    BY <1>4 DEF RemoveNode, spare, kept
  <2>2. RemoveNode(b, n).nodes = kept
    BY <1>1, <2>1 DEF KBucket
  <2> QED BY <1>2, <2>2
<1>5. CASE ~(IsNewIn(b, n) \/ spare = <<>>)
  <2> DEFINE a == SetKey(kept, Last(spare))
  <2>1. Last(spare) \in Ids
    BY <1>3, <1>5, FrontLast
  <2>2. ToSet(kept) \subseteq ToSet(a)
    BY <1>2, <2>1, AppendElements DEF SetKey
  <2> HIDE DEF a
  <2>3. RemoveNode(b, n) = [b EXCEPT !.replacement = Front(spare), !.nodes = a]
    BY <1>5 DEF RemoveNode, spare, kept, a
  <2>4. RemoveNode(b, n).nodes = a
    BY <1>1, <2>3 DEF KBucket
  <2> QED BY <1>2, <2>2, <2>4
<1> QED BY <1>4, <1>5

(* A change of one bucket keeps the contacts that bucket keeps. *)
LEMMA UpdateKeeps ==
    ASSUME buckets \in Seq(KBucket), NEW i \in DOMAIN buckets, NEW c, NEW n \in Contacts,
           buckets' = [buckets EXCEPT ![i] = c],
           n \in ToSet(buckets[i].nodes) => n \in ToSet(c.nodes)
    PROVE  n \in Contacts'
<1>1. PICK j \in DOMAIN buckets : n \in ToSet(buckets[j].nodes)
  BY DEF Contacts
<1>2. DOMAIN buckets' = DOMAIN buckets /\ buckets'[j] = IF j = i THEN c ELSE buckets[j]
  OBVIOUS
<1>3. n \in ToSet(buckets'[j].nodes)
  BY <1>1, <1>2
<1> QED BY <1>1, <1>2, <1>3 DEF Contacts
LEMMA BucketFields ==
    ASSUME NEW b \in KBucket
    PROVE  /\ b.nodes \in Seq(Ids) /\ b.replacement \in Seq(Ids)
           /\ Len(b.nodes) \in Nat /\ Len(b.replacement) \in Nat
           /\ b.nodes \o b.replacement \in Seq(Ids)
           /\ Len(b.nodes \o b.replacement) \in Nat
           /\ Len(b.nodes \o b.replacement) = Len(b.nodes) + Len(b.replacement)
           /\ \A j \in 1..Len(b.nodes) : (b.nodes \o b.replacement)[j] = b.nodes[j]
<1>1. b.nodes \in Seq(Ids) /\ b.replacement \in Seq(Ids)
  BY DEF KBucket
<1>2. ASSUME NEW x \in Seq(Ids), NEW y \in Seq(Ids)
      PROVE  /\ Len(x) \in Nat /\ Len(y) \in Nat
             /\ x \o y \in Seq(Ids) /\ Len(x \o y) \in Nat /\ Len(x \o y) = Len(x) + Len(y)
             /\ \A j \in 1..Len(x) : (x \o y)[j] = x[j]
  BY <1>2, ConcatProperties
<1> QED BY <1>1, <1>2

(* At the start of a split nothing is moved. *)
LEMMA StartSplitKeeps ==
    ASSUME IInv, AddThenSplit
    PROVE  SplitKeeps'
<1> DEFINE c == buckets'[split'.at]
           all == c.nodes \o c.replacement
<1>1. TableOK' /\ SplitOK' /\ TableOK /\ contact \in Ids \ {Self}
  BY StartSplitOK DEF IInv, AddThenSplit
<1>2. c \in KBucket
  <2>1. split'.at \in DOMAIN buckets' /\ buckets' \in Seq(KBucket)
    BY <1>1 DEF SplitOK, TableOK
  <2> QED BY <2>1
<1>3. split' = StartSplit(BucketFor(contact), buckets'[BucketFor(contact)])
  BY DEF AddThenSplit
<1>4. split'.todo = all /\ split'.one.nodes = <<>> /\ split'.two.nodes = <<>>
  BY <1>3 DEF StartSplit, NewBucket
<1> HIDE DEF c
<1>5. all \in Seq(Ids) /\ Len(all) \in Nat /\ Len(c.nodes) \in Nat
  BY <1>2, BucketFields
<1> HIDE DEF all
<1>6. Len(all) - Len(split'.todo) = 0
  BY <1>4, <1>5
<1>7. \A j \in 1..Len(split'.todo) : split'.todo[j] = all[(Len(all) - Len(split'.todo)) + j]
  BY <1>4, <1>5, <1>6
<1>8. Len(split'.one.nodes) + Len(split'.two.nodes) = 0
  BY <1>4
<1>9. c = buckets'[split'.at] /\ all = c.nodes \o c.replacement
  BY DEF c, all
<1>10. \A j \in 1..Len(c.nodes) : ~(j <= 0)
  BY <1>5
<1>11. 0 \in Nat /\ Len(split'.one.nodes) + Len(split'.two.nodes) <= 0
  <2>1. 0 <= 0 /\ 0 \in Nat
    OBVIOUS
  <2> QED BY Zenon, <1>8, <2>1
<1> QED BY <1>6, <1>7, <1>9, <1>10, <1>11 DEF SplitKeeps

(* A step of a split moves a contact to a half that is not full. *)
LEMMA SplitMoveKeeps ==
    ASSUME IInv, SplitKeeps, SplitMove
    PROVE  SplitKeeps'
<1> DEFINE b == buckets[split.at]
           all == b.nodes \o b.replacement
           n == Head(split.todo)
           k == Len(all) - Len(split.todo)
           one == split.one
           two == split.two
<1>1. /\ TypeOK /\ SplitOK /\ TableOK /\ split.todo \in Seq(Ids) /\ split.todo # <<>>
      /\ split \in [at : Nat, todo : Seq(Ids), one : KBucket, two : KBucket]
  BY DEF IInv, TypeOK, SplitMove
<1>2. BucketOK(one) /\ BucketOK(two) /\ BucketOK(b) /\ b \in KBucket
  BY <1>1 DEF SplitOK, TableOK, BucketOK
<1>3. b.nodes \in Seq(Ids) /\ b.replacement \in Seq(Ids) /\ one.nodes \in Seq(Ids) /\ two.nodes \in Seq(Ids)
      /\ Len(b.nodes) <= KSize
  BY <1>2 DEF BucketOK, KBucket, BucketWF
<1>4. /\ Len(b.nodes) \in Nat /\ Len(all) \in Nat
      /\ \A j \in 1..Len(b.nodes) : all[j] = b.nodes[j]
      /\ Len(one.nodes) \in Nat /\ Len(two.nodes) \in Nat
  <2>1. one \in KBucket /\ two \in KBucket
    BY <1>1
  <2> HIDE DEF b, one, two
  <2>2. Len(all) \in Nat
    BY <1>2, BucketFields
  <2> QED BY <1>2, <2>1, <2>2, BucketFields
<1>5. /\ n \in Ids /\ n = split.todo[1]
      /\ Len(split.todo) \in Nat \ {0} /\ Len(Tail(split.todo)) = Len(split.todo) - 1
      /\ \A j \in 1..(Len(split.todo) - 1) : Tail(split.todo)[j] = split.todo[j + 1]
  <2>1. ASSUME NEW s \in Seq(Ids), s # <<>>
        PROVE  /\ Head(s) \in Ids /\ Head(s) = s[1]
               /\ Len(s) \in Nat \ {0} /\ Len(Tail(s)) = Len(s) - 1
               /\ \A j \in 1..(Len(s) - 1) : Tail(s)[j] = s[j + 1]
    BY <2>1, EmptySeq, HeadTailProperties
  <2> QED BY <1>1, <2>1
<1>6. k \in Nat /\ (k < Len(b.nodes) => Len(one.nodes) + Len(two.nodes) <= k)
  BY DEF SplitKeeps
<1>7. \A j \in 1..Len(split.todo) : split.todo[j] = all[k + j]
  BY DEF SplitKeeps
<1>8. \A j \in 1..Len(b.nodes) : j <= k => b.nodes[j] \in ToSet(one.nodes) \cup ToSet(two.nodes)
  BY DEF SplitKeeps
<1>9. /\ buckets' = buckets
      /\ \/ split' = [split EXCEPT !.todo = Tail(split.todo), !.one = AddNode(one, n)]
         \/ split' = [split EXCEPT !.todo = Tail(split.todo), !.two = AddNode(two, n)]
  BY DEF SplitMove
<1>10. /\ split'.at = split.at /\ split'.todo = Tail(split.todo)
       /\ \/ split'.one = AddNode(one, n) /\ split'.two = two
          \/ split'.one = one /\ split'.two = AddNode(two, n)
  <2> DEFINE x == Tail(split.todo)
             y == AddNode(one, n)
             z == AddNode(two, n)
  <2>1. \/ split' = [split EXCEPT !.todo = x, !.one = y]
        \/ split' = [split EXCEPT !.todo = x, !.two = z]
    BY <1>9
  <2> HIDE DEF x, y, z
  <2>2. /\ split'.at = split.at /\ split'.todo = x
        /\ \/ split'.one = y /\ split'.two = split.two
           \/ split'.one = split.one /\ split'.two = z
    BY <1>1, <2>1
  <2> QED BY <2>2 DEF x, y, z
<1>11. /\ b = buckets[split.at] /\ all = b.nodes \o b.replacement /\ k = Len(all) - Len(split.todo)
       /\ one = split.one /\ two = split.two
  OBVIOUS
<1> HIDE DEF b, all, n, k, one, two
<1>12. k < Len(b.nodes) => n = b.nodes[k + 1] /\ ~Full(one) /\ ~Full(two)
  <2> SUFFICES ASSUME k < Len(b.nodes) PROVE n = b.nodes[k + 1] /\ ~Full(one) /\ ~Full(two)
    OBVIOUS
  <2>1. n = all[k + 1]
    BY <1>5, <1>6, <1>7
  <2>2. all[k + 1] = b.nodes[k + 1]
    BY <1>4, <1>6
  <2>3. Len(one.nodes) < KSize /\ Len(two.nodes) < KSize
    <3> DEFINE p == Len(one.nodes)
               q == Len(two.nodes)
               m == Len(b.nodes)
    <3>1. p \in Nat /\ q \in Nat /\ m \in Nat
      BY <1>4
    <3>2. m <= KSize /\ KSize \in Nat
      BY <1>3, KSizeAssumption
    <3>3. k \in Nat /\ k < m /\ p + q <= k
      BY <1>6
    <3> HIDE DEF p, q, m
    <3>4. p < KSize /\ q < KSize
      BY <3>1, <3>2, <3>3
    <3> QED BY <3>4 DEF p, q
  <2> QED BY <1>4, <2>1, <2>2, <2>3, KSizeAssumption DEF Full
<1>13. /\ ToSet(one.nodes) \subseteq ToSet(AddNode(one, n).nodes)
       /\ Len(AddNode(one, n).nodes) \in Nat /\ Len(AddNode(one, n).nodes) <= Len(one.nodes) + 1
       /\ ~Full(one) => n \in ToSet(AddNode(one, n).nodes)
  BY <1>2, <1>5, AddNodeKeeps
<1>14. /\ ToSet(two.nodes) \subseteq ToSet(AddNode(two, n).nodes)
       /\ Len(AddNode(two, n).nodes) \in Nat /\ Len(AddNode(two, n).nodes) <= Len(two.nodes) + 1
       /\ ~Full(two) => n \in ToSet(AddNode(two, n).nodes)
  BY <1>2, <1>5, AddNodeKeeps
<1> DEFINE oneN == split'.one.nodes
           twoN == split'.two.nodes
<1>15. oneN = split'.one.nodes /\ twoN = split'.two.nodes
  OBVIOUS
<1>16. /\ ToSet(one.nodes) \cup ToSet(two.nodes) \subseteq ToSet(oneN) \cup ToSet(twoN)
       /\ Len(oneN) \in Nat /\ Len(twoN) \in Nat
       /\ Len(oneN) + Len(twoN) <= Len(one.nodes) + Len(two.nodes) + 1
       /\ ~Full(one) /\ ~Full(two) => n \in ToSet(oneN) \cup ToSet(twoN)
  <2>1. CASE split'.one = AddNode(one, n) /\ split'.two = two
    <3>1. oneN = AddNode(one, n).nodes /\ twoN = two.nodes
      BY <2>1
    <3> HIDE DEF oneN, twoN
    <3>2. Len(oneN) \in Nat /\ Len(twoN) \in Nat
      BY <3>1, <1>4, <1>13
    <3>3. Len(oneN) + Len(twoN) <= Len(one.nodes) + Len(two.nodes) + 1
      <4>1. \A x, y, z \in Nat : x <= y + 1 => x + z <= y + z + 1 /\ z + x <= z + y + 1
        OBVIOUS
      <4> QED BY <4>1, <3>1, <1>4, <1>13
    <3> QED BY <3>1, <3>2, <3>3, <1>13
  <2>2. CASE split'.one = one /\ split'.two = AddNode(two, n)
    <3>1. oneN = one.nodes /\ twoN = AddNode(two, n).nodes
      BY <2>2
    <3> HIDE DEF oneN, twoN
    <3>2. Len(oneN) \in Nat /\ Len(twoN) \in Nat
      BY <3>1, <1>4, <1>14
    <3>3. Len(oneN) + Len(twoN) <= Len(one.nodes) + Len(two.nodes) + 1
      <4>1. \A x, y, z \in Nat : x <= y + 1 => x + z <= y + z + 1 /\ z + x <= z + y + 1
        OBVIOUS
      <4> QED BY <4>1, <3>1, <1>4, <1>14
    <3> QED BY <3>1, <3>2, <3>3, <1>14
  <2> QED BY <2>1, <2>2, <1>10
<1>17. Len(all) - Len(split'.todo) = k + 1
  <2>1. Len(all) \in Nat /\ Len(split.todo) \in Nat /\ Len(split'.todo) = Len(split.todo) - 1
    BY <1>4, <1>5, <1>10
  <2> QED BY <2>1, <1>11
<1> HIDE DEF oneN, twoN
<1>18. \A j \in 1..Len(split'.todo) : split'.todo[j] = all[(k + 1) + j]
  <2> SUFFICES ASSUME NEW j \in 1..(Len(split.todo) - 1)
               PROVE  Tail(split.todo)[j] = all[(k + 1) + j]
    BY <1>5, <1>10
  <2>1. Tail(split.todo)[j] = split.todo[j + 1] /\ j + 1 \in 1..Len(split.todo)
    BY <1>5
  <2>2. split.todo[j + 1] = all[k + (j + 1)]
    BY <1>7, <2>1
  <2>3. k + (j + 1) = (k + 1) + j
    BY <1>6
  <2> QED BY <2>1, <2>2, <2>3
<1>19. \A j \in 1..Len(b.nodes) : j <= k + 1 => b.nodes[j] \in ToSet(oneN) \cup ToSet(twoN)
  <2> SUFFICES ASSUME NEW j \in 1..Len(b.nodes), j <= k + 1
               PROVE  b.nodes[j] \in ToSet(oneN) \cup ToSet(twoN)
    OBVIOUS
  <2>1. CASE j <= k
    BY <2>1, <1>8, <1>16
  <2>2. CASE j = k + 1
    BY <2>2, <1>4, <1>6, <1>12, <1>16
  <2> QED BY <2>1, <2>2, <1>6
<1>20. k + 1 < Len(b.nodes) => Len(oneN) + Len(twoN) <= k + 1
  <2>1. /\ Len(oneN) \in Nat /\ Len(twoN) \in Nat /\ Len(b.nodes) \in Nat
        /\ Len(one.nodes) \in Nat /\ Len(two.nodes) \in Nat
        /\ Len(oneN) + Len(twoN) <= Len(one.nodes) + Len(two.nodes) + 1
    BY <1>4, <1>16
  <2> DEFINE p == Len(one.nodes)
             q == Len(two.nodes)
             m == Len(b.nodes)
             x == Len(oneN)
             y == Len(twoN)
  <2>2. /\ p \in Nat /\ q \in Nat /\ m \in Nat /\ x \in Nat /\ y \in Nat
        /\ x + y <= p + q + 1 /\ (k < m => p + q <= k) /\ k \in Nat
    BY <2>1, <1>6
  <2> HIDE DEF p, q, m, x, y
  <2>3. k + 1 < m => x + y <= k + 1
    BY <2>2
  <2> QED BY <2>3 DEF m, x, y
<1>21. buckets'[split'.at] = b
  BY <1>9, <1>10, <1>11
<1>22. k + 1 \in Nat
  BY <1>6
<1> QED BY <1>17, <1>18, <1>19, <1>20, <1>11, <1>15, <1>21, <1>22 DEF SplitKeeps

(* At the end of a split the halves list every contact of the bucket. *)
LEMMA SplitFinishKeeps ==
    ASSUME IInv, SplitKeeps, SplitFinish
    PROVE  Contacts \subseteq Contacts'
<1> SUFFICES ASSUME NEW n \in Contacts PROVE n \in Contacts'
  OBVIOUS
<1> DEFINE a == split.at
           b == buckets[a]
           one == split.one
           two == split.two
<1>1. TypeOK /\ TableOK /\ SplitOK /\ split.todo = <<>> /\ one \in KBucket /\ two \in KBucket
  BY DEF IInv, TypeOK, SplitFinish
<1>2. /\ buckets \in Seq(KBucket) /\ a \in 1..Len(buckets) /\ Len(buckets) \in Nat
      /\ DOMAIN buckets = 1..Len(buckets) /\ b \in KBucket
  BY <1>1 DEF TableOK, SplitOK
<1>3. buckets' = InsertAt(ReplaceAt(buckets, a, one), a + 1, two)
  BY DEF SplitFinish
<1>4. \A j \in 1..Len(b.nodes) : b.nodes[j] \in ToSet(one.nodes) \cup ToSet(two.nodes)
  <2> DEFINE k == Len(b.nodes \o b.replacement) - Len(split.todo)
  <2>1. Len(split.todo) = 0
    BY <1>1
  <2>2. k >= Len(b.nodes) /\ Len(b.nodes) \in Nat /\ k \in Nat
    <3> HIDE DEF b
    <3>1. /\ Len(b.nodes \o b.replacement) = Len(b.nodes) + Len(b.replacement)
          /\ Len(b.nodes) \in Nat /\ Len(b.replacement) \in Nat
      BY <1>2, BucketFields
    <3>2. k = Len(b.nodes) + Len(b.replacement)
      BY <2>1, <3>1
    <3>3. \A x, y \in Nat : x + y >= x /\ x + y \in Nat
      OBVIOUS
    <3> HIDE DEF k
    <3> QED BY <3>1, <3>2, <3>3
  <2>3. \A j \in 1..Len(b.nodes) :
           j <= k => b.nodes[j] \in ToSet(one.nodes) \cup ToSet(two.nodes)
    BY DEF SplitKeeps
  <2> HIDE DEF k, b
  <2> QED BY <2>2, <2>3
<1> HIDE DEF a, b, one, two
<1>5. /\ buckets' \in Seq(KBucket) /\ Len(buckets') = Len(buckets) + 1
      /\ \A j \in 1..(a - 1) : buckets'[j] = buckets[j]
      /\ buckets'[a] = one /\ buckets'[a + 1] = two
      /\ \A j \in (a + 1)..Len(buckets) : buckets'[j + 1] = buckets[j]
  BY <1>1, <1>2, <1>3, SplitBucketElements
<1>6. DOMAIN buckets' = 1..(Len(buckets) + 1)
  BY <1>5
<1>7. PICK i \in 1..Len(buckets) : n \in ToSet(buckets[i].nodes)
  BY <1>2 DEF Contacts
<1>8. CASE i < a
  <2>1. i \in DOMAIN buckets' /\ buckets'[i] = buckets[i]
    BY <1>2, <1>5, <1>6, <1>8
  <2> QED BY <1>7, <2>1 DEF Contacts
<1>9. CASE i = a
  <2>1. n \in ToSet(one.nodes) \cup ToSet(two.nodes)
    <3>1. n \in ToSet(b.nodes) /\ b.nodes \in Seq(Ids)
      BY <1>2, <1>7, <1>9 DEF b, KBucket
    <3> QED BY <3>1, <1>4 DEF ToSet
  <2>2. a \in DOMAIN buckets' /\ a + 1 \in DOMAIN buckets'
    BY <1>2, <1>6
  <2> QED BY <1>5, <2>1, <2>2 DEF Contacts
<1>10. CASE i > a
  <2>1. i + 1 \in DOMAIN buckets' /\ buckets'[i + 1] = buckets[i]
    BY <1>2, <1>5, <1>6, <1>10
  <2> QED BY <1>7, <2>1 DEF Contacts
<1> QED BY <1>2, <1>8, <1>9, <1>10

LEMMA SpecKeepInv == Spec => []KeepInv
<1>1. Init => KeepInv
  BY InitIInv DEF Init, KeepInv
<1>2. KeepInv /\ [Next]_vars => KeepInv'
  <2> SUFFICES ASSUME KeepInv, [Next]_vars, pc' = "split" PROVE SplitKeeps'
    BY NextIInv DEF KeepInv
  <2>1. CASE AddThenSplit
    BY <2>1, StartSplitKeeps DEF KeepInv
  <2>2. CASE SplitMove
    BY <2>2, SplitMoveKeeps DEF KeepInv, SplitMove
  <2>3. CASE UNCHANGED vars
    BY <2>3 DEF vars, KeepInv, SplitKeeps
  <2>4. ASSUME NEW n \in Ids, WellcomeIfNew(n) \/ RemoveContact(n) PROVE FALSE
    BY <2>4 DEF WellcomeIfNew, RemoveContact
  <2>5. CASE AddAccepted \/ AddThenPing \/ SplitFinish \/ PingStep
    BY <2>5 DEF AddAccepted, AddThenPing, SplitFinish, PingStep, PingAnswered, PingFailed,
                PingRaised, Idle
  <2> QED BY <2>1, <2>2, <2>3, <2>4, <2>5 DEF Next, AddStep, SplitStep
<1> QED BY <1>1, <1>2, PTL DEF Spec

(* Adding a node to the bucket it is looked up in loses no contact. *)
LEMMA AddKeeps ==
    ASSUME TableOK, NEW n \in Ids \ {Self},
           buckets' = [buckets EXCEPT ![BucketFor(n)] = AddNode(@, n)]
    PROVE  Contacts \subseteq Contacts'
<1> DEFINE i == BucketFor(n)
           c == AddNode(buckets[i], n)
<1>1. i \in DOMAIN buckets /\ BucketOK(buckets[i]) /\ buckets \in Seq(KBucket)
  BY BucketForOK DEF TableOK
<1>2. ToSet(buckets[i].nodes) \subseteq ToSet(c.nodes)
  BY <1>1, AddNodeKeeps
<1>3. buckets' = [buckets EXCEPT ![i] = c]
  OBVIOUS
<1> HIDE DEF i, c
<1> QED BY <1>1, <1>2, <1>3, UpdateKeeps

(* Removing a node from the bucket it is looked up in loses no other contact. *)
LEMMA RemoveKeeps ==
    ASSUME TableOK, NEW n \in Ids,
           buckets' = [buckets EXCEPT ![BucketFor(n)] = RemoveNode(@, n)]
    PROVE  Contacts \ {n} \subseteq Contacts'
<1> DEFINE i == BucketFor(n)
           c == RemoveNode(buckets[i], n)
<1>1. i \in DOMAIN buckets /\ BucketOK(buckets[i]) /\ buckets \in Seq(KBucket)
  BY BucketForOK DEF TableOK
<1>2. ToSet(buckets[i].nodes) \ {n} \subseteq ToSet(c.nodes)
  BY <1>1, RemoveNodeKeeps
<1>3. buckets' = [buckets EXCEPT ![i] = c]
  OBVIOUS
<1> HIDE DEF i, c
<1> QED BY <1>1, <1>2, <1>3, UpdateKeeps

(* No contact leaves the table but one that failed to answer: not for a newcomer, nor *)
(* when its bucket is split while it is full (routing.py:43-52, 189-206).             *)
THEOREM ContactsAlwaysKept == Spec => ContactsKept
<1>1. KeepInv /\ [Next]_vars =>
         [\A n \in Contacts \ Contacts' : RemoveContact(n) \/ (PingFailed /\ contact = n)]_vars
  <2> SUFFICES ASSUME KeepInv, Next, NEW n \in Contacts \ Contacts'
               PROVE  RemoveContact(n) \/ (PingFailed /\ contact = n)
    OBVIOUS
  <2>0. TableOK /\ (pc # "idle" => contact \in Ids \ {Self})
    BY DEF KeepInv, IInv
  <2>1. ASSUME NEW m \in Ids, RemoveContact(m) PROVE m = n
    BY <2>0, <2>1, RemoveKeeps DEF RemoveContact
  <2>2. ASSUME AddAccepted \/ AddThenSplit \/ AddThenPing PROVE FALSE
    <3>1. pc # "idle" /\ buckets' = [buckets EXCEPT ![BucketFor(contact)] = AddNode(@, contact)]
      BY <2>2 DEF AddAccepted, AddThenSplit, AddThenPing
    <3> QED BY <2>0, <3>1, AddKeeps
  <2>3. ASSUME SplitFinish PROVE FALSE
    BY <2>3, SplitFinishKeeps DEF KeepInv, SplitFinish
  <2>4. ASSUME buckets' = buckets PROVE FALSE
    BY <2>4 DEF Contacts
  <2>5. ASSUME PingFailed PROVE contact = n
    BY <2>0, <2>5, RemoveKeeps DEF PingFailed
  <2>6. ASSUME (\E m \in Ids : WellcomeIfNew(m)) \/ SplitMove \/ PingAnswered \/ PingRaised
        PROVE  FALSE
    BY <2>4, <2>6 DEF WellcomeIfNew, SplitMove, PingAnswered, PingRaised
  <2> QED BY <2>1, <2>2, <2>3, <2>5, <2>6 DEF Next, AddStep, SplitStep, PingStep
<1> QED BY <1>1, SpecKeepInv, PTL DEF Spec, ContactsKept

-----------------------------------------------------------------------------
(* Where nodes are listed and looked up *)

(* No identifier of a node is the upper end of a bucket, which get_bucket_for excludes. *)
OffBounds == \A i \in DOMAIN buckets : buckets[i].hi \notin Ids

(* What TableOK says of the bounds, as numbers. *)
LEMMA BoundsAreNumbers ==
    ASSUME TableOK
    PROVE  /\ Len(buckets) \in Nat /\ DOMAIN buckets = 1..Len(buckets)
           /\ \A i \in DOMAIN buckets : buckets[i].lo \in Nat /\ buckets[i].hi \in Nat
<1>1. Len(buckets) \in Nat /\ DOMAIN buckets = 1..Len(buckets)
  BY DEF TableOK
<1>2. ASSUME NEW i \in DOMAIN buckets PROVE buckets[i].lo \in Nat /\ buckets[i].hi \in Nat
  BY IdBitsAssumption DEF TableOK, BucketOK, KBucket
<1> QED BY <1>1, <1>2

(* Neighbouring ranges touch, so that all of them are in order: a smallest exception *)
(* would have a neighbour below it.                                                  *)
LEMMA RangesInOrder ==
    ASSUME TableOK, NEW i \in DOMAIN buckets, NEW j \in DOMAIN buckets, i < j
    PROVE  buckets[i].hi < buckets[j].lo
<1> DEFINE T == {k \in DOMAIN buckets : i < k /\ ~(buckets[i].hi < buckets[k].lo)}
<1>1. /\ Len(buckets) \in Nat /\ DOMAIN buckets = 1..Len(buckets)
      /\ \A k \in DOMAIN buckets : buckets[k].lo \in Nat /\ buckets[k].hi \in Nat
  BY BoundsAreNumbers
<1>2. T = {}
  <2> SUFFICES ASSUME T # {} PROVE FALSE
    OBVIOUS
  <2>1. T \subseteq Nat
    BY <1>1
  <2>2. PICK k \in T : \A l \in T : k <= l
    <3> HIDE DEF T
    <3> QED BY <2>1, SmallestNat
  <2>3. /\ k \in 1..Len(buckets) /\ i \in 1..Len(buckets) /\ i < k /\ ~(buckets[i].hi < buckets[k].lo)
        /\ k - 1 \in 1..(Len(buckets) - 1) /\ k - 1 \in DOMAIN buckets /\ k - 1 \notin T
    BY <1>1, <2>2
  <2>4. buckets[(k - 1) + 1].lo = buckets[k - 1].hi + 1 /\ buckets[k - 1].lo <= buckets[k - 1].hi
    BY <2>3 DEF TableOK, RangesPartition
  <2>5. buckets[k].lo = buckets[k - 1].hi + 1
    <3>1. (k - 1) + 1 = k
      BY <2>3
    <3> QED BY <2>4, <3>1
  <2>6. CASE k - 1 = i
    BY <1>1, <2>3, <2>5, <2>6
  <2>7. CASE i < k - 1
    <3>1. buckets[i].hi < buckets[k - 1].lo
      BY <2>3, <2>7
    <3> QED BY <1>1, <2>3, <2>4, <2>5, <3>1
  <2> QED BY <2>3, <2>6, <2>7
<1> QED BY <1>2

(* A node near a range, and on no bound, is in it. *)
LEMMA ListedOffBounds ==
    ASSUME TableOK, OffBounds
    PROVE  ListedWhereLookedUp
<1> SUFFICES ASSUME NEW i \in DOMAIN buckets,
                    NEW n \in ToSet(buckets[i].nodes) \cup ToSet(buckets[i].replacement)
             PROVE  BucketFor(n) = i
  BY DEF ListedWhereLookedUp
<1>1. /\ Len(buckets) \in Nat /\ DOMAIN buckets = 1..Len(buckets)
      /\ \A k \in DOMAIN buckets : buckets[k].lo \in Nat /\ buckets[k].hi \in Nat
  BY BoundsAreNumbers
<1>2. n \in Ids /\ n \in Nat /\ buckets[i].lo <= n + 1 /\ n <= buckets[i].hi
  <2>1. BucketOK(buckets[i]) /\ buckets[i].nodes \in Seq(Ids) /\ buckets[i].replacement \in Seq(Ids)
    BY DEF TableOK, BucketOK, KBucket
  <2>2. n \in Ids
    BY <2>1 DEF ToSet
  <2> QED BY <2>1, <2>2, IdsAssumption, IdBitsAssumption DEF BucketOK, AllNear, Near
<1>3. n < buckets[i].hi
  BY <1>1, <1>2 DEF OffBounds
<1>4. buckets[i].lo <= n
  <2>1. CASE i = 1
    BY <1>2, <2>1 DEF TableOK, RangesPartition
  <2>2. CASE i # 1
    <3>1. i - 1 \in 1..(Len(buckets) - 1) /\ i - 1 \in DOMAIN buckets /\ (i - 1) + 1 = i
      BY <1>1, <2>2
    <3>2. buckets[i].lo = buckets[i - 1].hi + 1
      BY <3>1 DEF TableOK, RangesPartition
    <3>3. buckets[i - 1].hi # n
      BY <1>2, <3>1 DEF OffBounds
    <3> QED BY <1>1, <1>2, <3>1, <3>2, <3>3
  <2> QED BY <2>1, <2>2
<1>5. \A j \in 1..(i - 1) : n >= buckets[j].hi
  <2> SUFFICES ASSUME NEW j \in 1..(i - 1) PROVE n >= buckets[j].hi
    OBVIOUS
  <2>1. j \in DOMAIN buckets /\ j < i
    BY <1>1
  <2>2. buckets[j].hi < buckets[i].lo
    BY <2>1, RangesInOrder
  <2> QED BY <1>1, <1>2, <1>4, <2>1, <2>2
<1>6. ASSUME NEW k \in DOMAIN buckets, n < buckets[k].hi, \A j \in 1..(k - 1) : n >= buckets[j].hi
      PROVE  k = i
  <2>1. CASE k < i
    <3>1. k \in 1..(i - 1)
      BY <1>1, <2>1
    <3> QED BY <1>1, <1>2, <1>5, <1>6, <3>1
  <2>2. CASE i < k
    <3>1. i \in 1..(k - 1)
      BY <1>1, <2>2
    <3> QED BY <1>1, <1>2, <1>3, <1>6, <3>1
  <2> QED BY <1>1, <2>1, <2>2
<1> QED BY <1>3, <1>5, <1>6 DEF BucketFor

(* As long as no identifier of a node is a bound of a bucket (the midpoint of a split), *)
(* every contact and every replacement is in the bucket get_bucket_for returns for it.  *)
THEOREM ListedOffMidpoints == Spec => [](OffBounds => ListedWhereLookedUp)
<1>1. IInv /\ OffBounds => ListedWhereLookedUp
  BY ListedOffBounds DEF IInv
<1> QED BY <1>1, SpecIInv, PTL

-----------------------------------------------------------------------------
(* Odd identifiers *)

OddIds == \A n \in Ids : n % 2 = 1

(* The end of the range below, or the beginning of the space. *)
Base(b) == IF b.lo = 0 THEN 0 ELSE b.lo - 1

(* A subtree of the space that is not a single identifier: a power of two wide, between *)
(* even bounds.                                                                         *)
Subtree(b) ==
    /\ \E h \in Nat : Base(b) = 2 * h
    /\ \E j \in 1..IdBits : b.hi = Base(b) + 2^j

SubtreesOK ==
    /\ \A i \in DOMAIN buckets : Subtree(buckets[i])
    /\ pc = "split" => Subtree(split.one) /\ Subtree(split.two)

(* A bucket that is split has two odd nodes near its range, so that the range has four *)
(* identifiers at least and its midpoint is even.                                      *)
LEMMA HalvesAreSubtrees ==
    ASSUME OddIds, NEW b, BucketOK(b), Subtree(b), NEW n \in Ids, Near(b, n), ~Accepts(b, n)
    PROVE  /\ Subtree(NewBucket(b.lo, Mid(b)))
           /\ Subtree(NewBucket(Mid(b) + 1, b.hi))
<1>1. b.lo \in Nat /\ b.hi \in Nat /\ b.nodes \in Seq(Ids)
  BY IdBitsAssumption DEF BucketOK, KBucket
<1> DEFINE m == b.nodes[1]
           base == Base(b)
<1>2. m \in ToSet(b.nodes) /\ m \in Ids
  <2>1. Len(b.nodes) >= KSize /\ Len(b.nodes) \in Nat
    BY <1>1 DEF Accepts, Full
  <2> QED BY <1>1, <2>1, KSizeAssumption DEF ToSet
<1>3. m # n /\ Near(b, m)
  BY <1>2 DEF Accepts, IsNewIn, BucketOK, AllNear
<1>4. m \in Nat /\ n \in Nat /\ m % 2 = 1 /\ n % 2 = 1
  <2>1. ASSUME NEW x \in Ids PROVE x \in Nat /\ x % 2 = 1
    <3>1. x \in 0..(IdBound - 1)
      BY IdsAssumption
    <3> QED BY <3>1, IdBitsAssumption DEF OddIds
  <2> HIDE DEF m
  <2> QED BY <1>2, <2>1
<1>5. base \in Nat /\ ((b.lo = base /\ base = 0) \/ b.lo = base + 1)
  BY <1>1 DEF Base
<1>6. PICK h \in Nat : base = 2 * h
  BY DEF Subtree
<1>7. PICK j \in 1..IdBits : b.hi = base + 2^j
  BY DEF Subtree
<1>8. base <= m /\ m <= b.hi /\ base <= n /\ n <= b.hi
  BY <1>1, <1>3, <1>4, <1>5, SMTT(30) DEF Near
<1>9. IdBits \in Nat /\ 2^(j - 1) \in Nat /\ 2^j = 2 * 2^(j - 1) /\ 2^0 = 1
  BY <1>7, IdBitsAssumption, PowersAssumption
<1> HIDE DEF m, base
<1>10. j # 1
  <2> SUFFICES ASSUME j = 1 PROVE FALSE
    OBVIOUS
  <2>1. 2^(j - 1) = 1
    BY <1>9
  <2>2. b.hi = 2 * h + 2
    BY <1>6, <1>7, <1>9, <2>1
  <2>3. m = 2 * h + 1 /\ n = 2 * h + 1
    BY <1>4, <1>6, <1>8, <2>2
  <2> QED BY <1>3, <2>3
<1> DEFINE w == 2^(j - 2)
           v == 2^(j - 1)
<1>11. j - 1 \in 1..IdBits /\ w \in Nat /\ v = 2 * w
  <2>1. j - 1 \in 1..IdBits /\ (j - 1) - 1 = j - 2
    BY <1>9, <1>10
  <2> QED BY <2>1, PowersAssumption
<1>12. b.hi = 2 * h + 4 * w
  <2>1. 2^j = 2 * v
    BY <1>9
  <2> HIDE DEF v, w
  <2> QED BY <1>6, <1>7, <1>11, <2>1
<1> HIDE DEF w, v
<1>13. Mid(b) = 2 * h + 2 * w
  BY <1>1, <1>5, <1>6, <1>11, <1>12 DEF Mid
<1>14. Subtree(NewBucket(b.lo, Mid(b)))
  <2> DEFINE c == NewBucket(b.lo, Mid(b))
  <2>1. Base(c) = base /\ c.hi = Mid(b)
    BY DEF NewBucket, Base, base
  <2> HIDE DEF c
  <2>2. c.hi = Base(c) + v
    BY <1>6, <1>11, <1>13, <2>1
  <2> QED BY <1>6, <1>11, <2>1, <2>2 DEF Subtree, v, c
<1>15. Subtree(NewBucket(Mid(b) + 1, b.hi))
  <2> DEFINE c == NewBucket(Mid(b) + 1, b.hi)
  <2>1. c.lo = Mid(b) + 1 /\ c.hi = b.hi
    BY DEF NewBucket
  <2> HIDE DEF c
  <2>2. Base(c) = 2 * (h + w) /\ h + w \in Nat
    BY <1>6, <1>11, <1>13, <2>1 DEF Base
  <2>3. c.hi = Base(c) + v
    BY <1>11, <1>12, <2>1, <2>2
  <2> QED BY <1>11, <2>2, <2>3 DEF Subtree, v, c
<1> QED BY <1>14, <1>15

(* A bucket that changes but for its range is as wide as it was. *)
LEMMA SameSubtree ==
    ASSUME NEW b, NEW c, Subtree(b), c.lo = b.lo, c.hi = b.hi
    PROVE  Subtree(c)
BY DEF Subtree, Base

(* A change of one bucket but for its range keeps the subtrees. *)
LEMMA UpdateSubtrees ==
    ASSUME TableOK, \A i \in DOMAIN buckets : Subtree(buckets[i]),
           NEW i \in DOMAIN buckets, NEW c, c.lo = buckets[i].lo, c.hi = buckets[i].hi,
           buckets' = [buckets EXCEPT ![i] = c]
    PROVE  \A j \in DOMAIN buckets' : Subtree(buckets'[j])
<1> SUFFICES ASSUME NEW j \in DOMAIN buckets PROVE Subtree(buckets'[j])
  BY DEF TableOK
<1>1. buckets'[j] = IF j = i THEN c ELSE buckets[j]
  BY DEF TableOK
<1> QED BY <1>1, SameSubtree

LEMMA SubtreesStep ==
    ASSUME IInv, SubtreesOK, OddIds, [Next]_vars
    PROVE  SubtreesOK'
<1>0. /\ TypeOK /\ TableOK /\ (pc # "idle" => contact \in Ids \ {Self})
      /\ \A i \in DOMAIN buckets : Subtree(buckets[i])
  BY DEF IInv, SubtreesOK
<1>1. ASSUME NEW n \in Ids \ {Self}, buckets' = [buckets EXCEPT ![BucketFor(n)] = AddNode(@, n)]
      PROVE  \A j \in DOMAIN buckets' : Subtree(buckets'[j])
  <2> DEFINE i == BucketFor(n)
             c == AddNode(buckets[i], n)
  <2>1. i \in DOMAIN buckets /\ c.lo = buckets[i].lo /\ c.hi = buckets[i].hi
    BY <1>0, BucketForOK, AddNodeOK DEF TableOK
  <2>2. buckets' = [buckets EXCEPT ![i] = c]
    BY <1>1
  <2> HIDE DEF i, c
  <2> QED BY <1>0, <2>1, <2>2, UpdateSubtrees
<1>2. ASSUME NEW n \in Ids, buckets' = [buckets EXCEPT ![BucketFor(n)] = RemoveNode(@, n)]
      PROVE  \A j \in DOMAIN buckets' : Subtree(buckets'[j])
  <2> DEFINE i == BucketFor(n)
             c == RemoveNode(buckets[i], n)
  <2>1. i \in DOMAIN buckets /\ c.lo = buckets[i].lo /\ c.hi = buckets[i].hi
    BY <1>0, BucketForOK, RemoveNodeOK DEF TableOK
  <2>2. buckets' = [buckets EXCEPT ![i] = c]
    BY <1>2
  <2> HIDE DEF i, c
  <2> QED BY <1>0, <2>1, <2>2, UpdateSubtrees
<1>3. ASSUME NEW n \in Ids, WellcomeIfNew(n) \/ RemoveContact(n) PROVE SubtreesOK'
  BY <1>0, <1>2, <1>3 DEF WellcomeIfNew, RemoveContact, SubtreesOK
<1>4. CASE AddAccepted \/ AddThenPing
  BY <1>0, <1>1, <1>4 DEF AddAccepted, AddThenPing, Idle, SubtreesOK
<1>5. CASE AddThenSplit
  <2> DEFINE n == contact
             i == BucketFor(n)
             b == buckets[i]
             c == AddNode(b, n)
  <2>1. n \in Ids \ {Self} /\ i \in DOMAIN buckets /\ Near(b, n) /\ BucketOK(b) /\ Subtree(b)
    BY <1>0, <1>5, BucketForOK DEF AddThenSplit, TableOK
  <2>2. /\ ~Accepts(b, n) /\ split' = StartSplit(i, buckets'[i])
        /\ buckets' = [buckets EXCEPT ![i] = AddNode(@, n)]
    BY <1>5 DEF AddThenSplit
  <2>3. buckets'[i] = c /\ c.lo = b.lo /\ c.hi = b.hi
    BY <1>0, <2>1, <2>2, AddInBucket, AddNodeOK
  <2>4. split'.one = NewBucket(b.lo, Mid(b)) /\ split'.two = NewBucket(Mid(b) + 1, b.hi)
    BY <2>2, <2>3 DEF StartSplit, Mid
  <2>5. Subtree(split'.one) /\ Subtree(split'.two)
    BY <2>1, <2>2, <2>4, HalvesAreSubtrees
  <2>6. \A j \in DOMAIN buckets' : Subtree(buckets'[j])
    BY <1>1, <2>1, <2>2
  <2> QED BY <2>5, <2>6 DEF SubtreesOK, Subtree, Base
<1>6. CASE SplitMove
  <2> DEFINE n == Head(split.todo)
             x == AddNode(split.one, n)
             y == AddNode(split.two, n)
             todo == Tail(split.todo)
  <2>1. SplitOK' /\ SplitOK /\ split' \in [at : Nat, todo : Seq(Ids), one : KBucket, two : KBucket]
        /\ buckets' = buckets /\ split'.at = split.at
    <3>1. IInv' /\ pc' = "split"
      BY <1>6, SplitMoveOK DEF SplitMove
    <3>2. split \in [at : Nat, todo : Seq(Ids), one : KBucket, two : KBucket]
      BY <1>0 DEF TypeOK
    <3>3. buckets' = buckets /\ (split' = [split EXCEPT !.todo = todo, !.one = x]
                                 \/ split' = [split EXCEPT !.todo = todo, !.two = y])
      BY <1>6 DEF SplitMove
    <3> HIDE DEF todo, x, y
    <3>4. split'.at = split.at
      BY <3>2, <3>3
    <3> QED BY <1>6, <3>1, <3>3, <3>4 DEF IInv, TypeOK, SplitMove
  <2>2. /\ split'.one.lo = split.one.lo /\ split'.one.hi = split.one.hi
        /\ split'.two.lo = split.two.lo /\ split'.two.hi = split.two.hi
    BY <2>1 DEF SplitOK, Mid
  <2>3. Subtree(split.one) /\ Subtree(split.two)
    BY <1>6 DEF SubtreesOK, SplitMove
  <2>4. Subtree(split'.one) /\ Subtree(split'.two)
    BY <2>2, <2>3, SameSubtree
  <2> QED BY <1>0, <2>1, <2>4 DEF SubtreesOK, Subtree, Base
<1>7. CASE SplitFinish
  <2> DEFINE a == split.at
             x == split.one
             y == split.two
  <2>1. Subtree(x) /\ Subtree(y) /\ SplitOK /\ x \in KBucket /\ y \in KBucket
    BY <1>0, <1>7 DEF SplitFinish, SubtreesOK, IInv, TypeOK
  <2>2. buckets \in Seq(KBucket) /\ a \in 1..Len(buckets) /\ Len(buckets) \in Nat
    BY <1>0, <2>1 DEF TableOK, SplitOK
  <2>3. buckets' = InsertAt(ReplaceAt(buckets, a, x), a + 1, y) /\ pc' = "add"
    BY <1>7 DEF SplitFinish
  <2> HIDE DEF a, x, y
  <2>4. /\ buckets' \in Seq(KBucket) /\ Len(buckets') = Len(buckets) + 1
        /\ \A j \in 1..(a - 1) : buckets'[j] = buckets[j]
        /\ buckets'[a] = x /\ buckets'[a + 1] = y
        /\ \A j \in (a + 1)..Len(buckets) : buckets'[j + 1] = buckets[j]
    BY <2>1, <2>2, <2>3, SplitBucketElements
  <2>5. ASSUME NEW j \in 1..(Len(buckets) + 1) PROVE Subtree(buckets'[j])
    <3>1. CASE j < a
      BY <1>0, <2>2, <2>4, <3>1
    <3>2. CASE j = a \/ j = a + 1
      BY <2>1, <2>4, <3>2
    <3>3. CASE j > a + 1
      <4>1. j - 1 \in (a + 1)..Len(buckets) /\ (j - 1) + 1 = j /\ j - 1 \in DOMAIN buckets
        BY <2>2, <3>3
      <4> QED BY <1>0, <2>4, <4>1
    <3> QED BY <2>2, <3>1, <3>2, <3>3
  <2> QED BY <2>3, <2>4, <2>5 DEF SubtreesOK
<1>8. CASE PingStep
  BY <1>0, <1>2, <1>8 DEF PingStep, PingAnswered, PingFailed, PingRaised, Idle, SubtreesOK
<1>9. CASE UNCHANGED vars
  BY <1>9 DEF vars, SubtreesOK, Subtree, Base
<1> QED BY <1>3, <1>4, <1>5, <1>6, <1>7, <1>8, <1>9 DEF Next, AddStep, SplitStep

LEMMA InitSubtrees ==
    ASSUME Init, OddIds
    PROVE  SubtreesOK
<1>1. IdBits \in 1..IdBits
  <2>1. Self \in 0..(IdBound - 1) /\ Self % 2 = 1
    BY IdsAssumption DEF OddIds
  <2>2. IdBits # 0
    <3> SUFFICES ASSUME IdBits = 0 PROVE FALSE
      OBVIOUS
    <3>1. IdBound = 1
      BY PowersAssumption DEF IdBound
    <3> QED BY <2>1, <3>1
  <2> QED BY <2>2, IdBitsAssumption
<1> DEFINE b == NewBucket(0, IdBound)
<1>2. Base(b) = 0 /\ b.hi = IdBound
  BY DEF NewBucket, Base
<1>3. buckets = <<b>> /\ pc = "idle"
  BY DEF Init
<1> HIDE DEF b
<1>4. b.hi = Base(b) + 2^IdBits
  BY <1>2, IdBitsAssumption DEF IdBound
<1>5. Subtree(b)
  <2>1. Base(b) = 2 * 0 /\ 0 \in Nat
    BY <1>2
  <2> QED BY <1>1, <1>4, <2>1 DEF Subtree
<1> QED BY <1>3, <1>5 DEF SubtreesOK

LEMMA SpecSubtrees == Spec => [](IInv /\ (OddIds => SubtreesOK))
<1>1. IInv /\ (OddIds => SubtreesOK) /\ [Next]_vars => IInv' /\ (OddIds => SubtreesOK)'
  BY NextIInv, SubtreesStep DEF OddIds
<1>2. Init => IInv /\ (OddIds => SubtreesOK)
  BY InitIInv, InitSubtrees
<1> QED BY <1>1, <1>2, PTL DEF Spec

LEMMA OddOffBounds ==
    ASSUME TableOK, SubtreesOK, OddIds
    PROVE  OffBounds
<1> SUFFICES ASSUME NEW i \in DOMAIN buckets, buckets[i].hi \in Ids PROVE FALSE
  BY DEF OffBounds
<1> DEFINE b == buckets[i]
<1>1. PICK h \in Nat : Base(b) = 2 * h
  BY DEF SubtreesOK, Subtree
<1>2. PICK j \in 1..IdBits : b.hi = Base(b) + 2^j
  BY DEF SubtreesOK, Subtree
<1>3. 2^(j - 1) \in Nat /\ 2^j = 2 * 2^(j - 1)
  BY PowersAssumption
<1> DEFINE w == 2^(j - 1)
<1>4. b.hi = 2 * h + 2 * w /\ w \in Nat
  BY <1>1, <1>2, <1>3
<1>5. b.hi % 2 = 1
  BY DEF OddIds
<1> HIDE DEF b, w
<1> QED BY <1>4, <1>5

(* Every contact and every replacement is in the bucket get_bucket_for returns for it when *)
(* the identifiers of the nodes are odd: the ends of the ranges are then even, however     *)
(* often the buckets are split.                                                            *)
THEOREM OddListedWhereLookedUp == Spec => [](OddIds => ListedWhereLookedUp)
<1>1. IInv /\ (OddIds => SubtreesOK) => (OddIds => ListedWhereLookedUp)
  BY ListedOffBounds, OddOffBounds DEF IInv
<1> QED BY <1>1, SpecSubtrees, PTL

-----------------------------------------------------------------------------
(* The bucket of this server *)

Spares(b) == ToSet(b.replacement)

(***************************************************************************)
(* While a node is being added it may be the one replacement of the bucket *)
(* around this server, or of the halves of that bucket; between two calls, *)
(* and while another bucket's head is pinged, there is none.               *)
(***************************************************************************)
OwnOK ==
    /\ \A i \in DOMAIN buckets :
           HasInRange(buckets[i], Self) =>
               Spares(buckets[i]) \subseteq (IF pc \in {"add", "split"} THEN {contact} ELSE {})
    /\ pc = "split" =>
           ((HasInRange(split.one, Self) \/ HasInRange(split.two, Self)) =>
                Spares(split.one) \cup Spares(split.two) \subseteq {contact})

(* add_node makes a spare of the node only when it turns it away. *)
LEMMA AddNodeSpares ==
    ASSUME NEW b, BucketOK(b), NEW n \in Ids
    PROVE  /\ Spares(AddNode(b, n)) \subseteq Spares(b) \cup {n}
           /\ Accepts(b, n) => Spares(AddNode(b, n)) = Spares(b) /\ n \notin Spares(b)
<1>1. /\ b \in KBucket /\ b.replacement \in Seq(Ids) /\ Distinct(b.replacement)
      /\ ToSet(b.nodes) \cap ToSet(b.replacement) = {} /\ (b.replacement # <<>> => Full(b))
  BY DEF BucketOK, KBucket, BucketWF
<1>2. CASE Accepts(b, n)
  <2>1. AddNode(b, n).replacement = b.replacement
    BY <1>1, <1>2 DEF AddNode, KBucket
  <2>2. n \notin Spares(b)
    <3>1. CASE n \in ToSet(b.nodes)
      BY <1>1, <3>1 DEF Spares
    <3>2. CASE b.replacement = <<>>
      BY <3>2 DEF Spares, ToSet
    <3> QED BY <1>1, <1>2, <3>1, <3>2 DEF Accepts, IsNewIn
  <2> QED BY <2>1, <2>2 DEF Spares
<1>3. CASE ~Accepts(b, n)
  <2> DEFINE a == AsNewest(b.replacement, n)
             r == Newest(a, MaxReplacement)
  <2>1. a \in Seq(Ids) /\ Distinct(a) /\ ToSet(a) = ToSet(b.replacement) \cup {n}
    BY <1>1, AsNewestProperties
  <2>2. ToSet(r) \subseteq ToSet(a)
    <3> HIDE DEF a
    <3> QED BY <2>1, NewestProperties, MaxReplacementType
  <2> HIDE DEF r
  <2>3. AddNode(b, n).replacement = r
    BY <1>1, <1>3 DEF AddNode, KBucket, r
  <2> QED BY <1>3, <2>1, <2>2, <2>3 DEF Spares
<1> QED BY <1>2, <1>3

LEMMA RemoveNodeSpares ==
    ASSUME NEW b, BucketOK(b), NEW n
    PROVE  Spares(RemoveNode(b, n)) \subseteq Spares(b)
<1> DEFINE spare == Without(b.replacement, n)
           kept  == Without(b.nodes, n)
<1>1. b \in KBucket /\ b.replacement \in Seq(Ids) /\ Distinct(b.replacement)
  BY DEF BucketOK, KBucket, BucketWF
<1>2. spare \in Seq(Ids) /\ Distinct(spare) /\ ToSet(spare) \subseteq ToSet(b.replacement)
  BY <1>1, WithoutProperties
<1> HIDE DEF spare, kept
<1>3. CASE IsNewIn(b, n) \/ spare = <<>>
  <2>1. RemoveNode(b, n) = [b EXCEPT !.replacement = spare, !.nodes = kept]
    BY <1>3 DEF RemoveNode, spare, kept
  <2>2. RemoveNode(b, n).replacement = spare
    BY <1>1, <2>1 DEF KBucket
  <2> QED BY <1>2, <2>2 DEF Spares
<1>4. CASE ~(IsNewIn(b, n) \/ spare = <<>>)
  <2> DEFINE f == Front(spare)
             a == SetKey(kept, Last(spare))
  <2>1. ToSet(f) \subseteq ToSet(spare)
    BY <1>2, <1>4, FrontLast
  <2> HIDE DEF f, a
  <2>2. RemoveNode(b, n) = [b EXCEPT !.replacement = f, !.nodes = a]
    BY <1>4 DEF RemoveNode, spare, kept, f, a
  <2>3. RemoveNode(b, n).replacement = f
    BY <1>1, <2>2 DEF KBucket
  <2> QED BY <1>2, <2>1, <2>3 DEF Spares
<1> QED BY <1>3, <1>4

(* While contacts are left to move, no half is full; what is moved after them was a spare. *)
LEMMA SplitMoveOrder ==
    ASSUME IInv, SplitKeeps, SplitMove
    PROVE  LET n == Head(split.todo)
           IN  \/ Accepts(split.one, n) /\ Accepts(split.two, n)
               \/ n \in Spares(buckets[split.at])
<1> DEFINE b == buckets[split.at]
           all == b.nodes \o b.replacement
           n == Head(split.todo)
           k == Len(all) - Len(split.todo)
           p == Len(split.one.nodes)
           q == Len(split.two.nodes)
           m == Len(b.nodes)
           l == Len(split.todo)
<1>1. TypeOK /\ SplitOK /\ TableOK /\ split.todo \in Seq(Ids) /\ split.todo # <<>>
  BY DEF IInv, TypeOK, SplitMove
<1>2. b \in KBucket /\ BucketWF(b) /\ split.one \in KBucket /\ split.two \in KBucket
  BY <1>1 DEF SplitOK, TableOK, BucketOK
<1>3. p \in Nat /\ q \in Nat
  BY <1>2 DEF KBucket
<1>4. m \in Nat /\ m <= KSize /\ KSize \in Nat
  BY <1>2, KSizeAssumption DEF KBucket, BucketWF
<1>5. l \in Nat \ {0} /\ n = split.todo[1] /\ 1 \in 1..l
  <2>1. ASSUME NEW s \in Seq(Ids), s # <<>> PROVE Len(s) \in Nat \ {0} /\ Head(s) = s[1]
    BY <2>1, EmptySeq
  <2> QED BY <1>1, <2>1
<1>6. k \in Nat /\ (k < m => p + q <= k) /\ n = all[k + 1]
  <2>1. \A j \in 1..Len(split.todo) : split.todo[j] = all[k + j]
    BY DEF SplitKeeps
  <2>2. k \in Nat /\ (k < m => p + q <= k)
    BY DEF SplitKeeps
  <2> HIDE DEF k, all
  <2> QED BY <1>5, <2>1, <2>2
<1>7. CASE k < m
  <2> HIDE DEF k, m, p, q
  <2>1. p < KSize /\ q < KSize
    BY <1>3, <1>4, <1>6, <1>7
  <2> QED BY <1>3, <1>4, <2>1 DEF Accepts, Full, p, q
<1>8. CASE ~(k < m)
  <2> DEFINE x == b.nodes
             y == b.replacement
  <2>1. x \in Seq(Ids) /\ y \in Seq(Ids)
    BY <1>2 DEF KBucket
  <2>2. k = Len(x \o y) - l /\ m = Len(x) /\ n = (x \o y)[k + 1]
    BY <1>6
  <2> HIDE DEF k, l, m, n, x, y
  <2>3. /\ Len(x) \in Nat /\ Len(y) \in Nat /\ Len(x \o y) = Len(x) + Len(y)
        /\ \A j \in 1..(Len(x) + Len(y)) : (x \o y)[j] = IF j <= Len(x) THEN x[j] ELSE y[j - Len(x)]
    BY <2>1, ConcatProperties
  <2>4. k + 1 \in 1..(Len(x) + Len(y)) /\ k + 1 > Len(x) /\ (k + 1) - Len(x) \in 1..Len(y)
    BY <1>5, <1>6, <1>8, <2>2, <2>3
  <2>5. n = y[(k + 1) - Len(x)]
    BY <2>2, <2>3, <2>4
  <2>6. n \in ToSet(y)
    BY <2>1, <2>4, <2>5 DEF ToSet
  <2> QED BY <2>6 DEF Spares, y, n
<1> QED BY <1>7, <1>8

(* A change of one bucket, of which the spares are those the bucket may have. *)
LEMMA UpdateOwn ==
    ASSUME TableOK, NEW i \in DOMAIN buckets, NEW c, c.lo = buckets[i].lo, c.hi = buckets[i].hi,
           buckets' = [buckets EXCEPT ![i] = c], NEW S,
           HasInRange(buckets[i], Self) => Spares(c) \subseteq S,
           \A j \in DOMAIN buckets \ {i} : HasInRange(buckets[j], Self) => Spares(buckets[j]) \subseteq S
    PROVE  \A j \in DOMAIN buckets' : HasInRange(buckets'[j], Self) => Spares(buckets'[j]) \subseteq S
<1> SUFFICES ASSUME NEW j \in DOMAIN buckets, HasInRange(buckets'[j], Self)
             PROVE  Spares(buckets'[j]) \subseteq S
  BY DEF TableOK
<1>1. buckets'[j] = IF j = i THEN c ELSE buckets[j]
  BY DEF TableOK
<1> QED BY <1>1 DEF HasInRange

(* The one step that could leave a spare behind: the node it has just accepted in another *)
(* bucket.  A node is looked up where it is listed, so that there is no such spare.       *)
LEMMA OwnStep ==
    ASSUME KeepInv, OwnOK, ListedWhereLookedUp, [Next]_vars
    PROVE  OwnOK'
<1>0. /\ IInv /\ TypeOK /\ TableOK /\ (pc # "idle" => contact \in Ids \ {Self})
      /\ \A i \in DOMAIN buckets : BucketOK(buckets[i])
  BY DEF KeepInv, IInv, TableOK
<1>1. ASSUME NEW i \in DOMAIN buckets, HasInRange(buckets[i], Self), pc \in {"add", "split"}
      PROVE  /\ Spares(buckets[i]) \subseteq {contact}
             /\ BucketFor(contact) # i => Spares(buckets[i]) = {}
  <2>1. Spares(buckets[i]) \subseteq {contact}
    BY <1>1 DEF OwnOK
  <2>2. contact \in Spares(buckets[i]) => BucketFor(contact) = i
    BY DEF ListedWhereLookedUp, Spares
  <2> QED BY <2>1, <2>2
<1>2. ASSUME NEW i \in DOMAIN buckets, HasInRange(buckets[i], Self), pc \notin {"add", "split"}
      PROVE  Spares(buckets[i]) = {}
  BY <1>2 DEF OwnOK
<1>3. ASSUME NEW n \in Ids, buckets' = [buckets EXCEPT ![BucketFor(n)] = RemoveNode(@, n)],
             pc \notin {"add", "split"}
      PROVE  \A j \in DOMAIN buckets' : HasInRange(buckets'[j], Self) => Spares(buckets'[j]) \subseteq {}
  <2> DEFINE i == BucketFor(n)
             c == RemoveNode(buckets[i], n)
  <2>1. /\ i \in DOMAIN buckets /\ c.lo = buckets[i].lo /\ c.hi = buckets[i].hi
        /\ Spares(c) \subseteq Spares(buckets[i])
    BY <1>0, BucketForOK, RemoveNodeOK, RemoveNodeSpares
  <2>2. buckets' = [buckets EXCEPT ![i] = c]
    BY <1>3
  <2> HIDE DEF i, c
  <2> DEFINE S == {}
  <2>3. /\ HasInRange(buckets[i], Self) => Spares(c) \subseteq S
        /\ \A j \in DOMAIN buckets \ {i} : HasInRange(buckets[j], Self) => Spares(buckets[j]) \subseteq S
    BY <1>2, <1>3, <2>1
  <2> HIDE DEF S
  <2>4. \A j \in DOMAIN buckets' : HasInRange(buckets'[j], Self) => Spares(buckets'[j]) \subseteq S
    BY <1>0, <2>1, <2>2, <2>3, UpdateOwn
  <2> QED BY <2>4 DEF S
<1>4. ASSUME NEW n \in Ids, WellcomeIfNew(n) PROVE OwnOK'
  BY <1>2, <1>4 DEF WellcomeIfNew, OwnOK, HasInRange, Spares
<1>5. ASSUME NEW n \in Ids, RemoveContact(n) PROVE OwnOK'
  BY <1>3, <1>5 DEF RemoveContact, OwnOK
<1>6. ASSUME pc = "add", buckets' = [buckets EXCEPT ![BucketFor(contact)] = AddNode(@, contact)]
      PROVE  LET i == BucketFor(contact)
                 c == AddNode(buckets[i], contact)
             IN  /\ i \in DOMAIN buckets /\ BucketOK(buckets[i])
                 /\ c.lo = buckets[i].lo /\ c.hi = buckets[i].hi
                 /\ buckets' = [buckets EXCEPT ![i] = c]
                 /\ Spares(c) \subseteq Spares(buckets[i]) \cup {contact}
                 /\ Accepts(buckets[i], contact) =>
                        Spares(c) = Spares(buckets[i]) /\ contact \notin Spares(buckets[i])
  BY <1>0, <1>6, BucketForOK, AddNodeOK, AddNodeSpares
<1>7. CASE AddAccepted
  <2> DEFINE i == BucketFor(contact)
             c == AddNode(buckets[i], contact)
  <2>1. /\ pc = "add" /\ Accepts(buckets[i], contact) /\ pc' = "idle"
        /\ buckets' = [buckets EXCEPT ![BucketFor(contact)] = AddNode(@, contact)]
    BY <1>7 DEF AddAccepted, Idle
  <2>2. /\ i \in DOMAIN buckets /\ c.lo = buckets[i].lo /\ c.hi = buckets[i].hi
        /\ buckets' = [buckets EXCEPT ![i] = c]
        /\ Spares(c) = Spares(buckets[i]) /\ contact \notin Spares(buckets[i])
    BY <1>6, <2>1
  <2>3. i = BucketFor(contact)
    OBVIOUS
  <2> HIDE DEF i, c
  <2>4. HasInRange(buckets[i], Self) => Spares(c) \subseteq {}
    BY <1>1, <2>1, <2>2
  <2>5. \A j \in DOMAIN buckets \ {i} : HasInRange(buckets[j], Self) => Spares(buckets[j]) \subseteq {}
    BY <1>1, <2>1, <2>3
  <2>6. \A j \in DOMAIN buckets' : HasInRange(buckets'[j], Self) => Spares(buckets'[j]) \subseteq {}
    <3> DEFINE S == {}
    <3>1. /\ HasInRange(buckets[i], Self) => Spares(c) \subseteq S
          /\ \A j \in DOMAIN buckets \ {i} : HasInRange(buckets[j], Self) => Spares(buckets[j]) \subseteq S
      BY <2>4, <2>5
    <3> HIDE DEF S
    <3>2. \A j \in DOMAIN buckets' : HasInRange(buckets'[j], Self) => Spares(buckets'[j]) \subseteq S
      BY <1>0, <2>2, <3>1, UpdateOwn
    <3> QED BY <3>2 DEF S
  <2> QED BY <2>1, <2>6 DEF OwnOK
<1>8. CASE AddThenSplit
  <2> DEFINE i == BucketFor(contact)
             c == AddNode(buckets[i], contact)
  <2>1. /\ pc = "add" /\ pc' = "split" /\ contact' = contact
        /\ buckets' = [buckets EXCEPT ![BucketFor(contact)] = AddNode(@, contact)]
        /\ split' = StartSplit(i, buckets'[i])
    BY <1>8 DEF AddThenSplit
  <2>2. /\ i \in DOMAIN buckets /\ c.lo = buckets[i].lo /\ c.hi = buckets[i].hi
        /\ buckets' = [buckets EXCEPT ![i] = c]
        /\ Spares(c) \subseteq Spares(buckets[i]) \cup {contact}
    BY <1>6, <2>1
  <2>3. Spares(split'.one) = {} /\ Spares(split'.two) = {}
    BY <2>1 DEF StartSplit, NewBucket, Spares, ToSet
  <2> HIDE DEF i, c
  <2>4. HasInRange(buckets[i], Self) => Spares(c) \subseteq {contact}
    BY <1>1, <2>1, <2>2
  <2>5. \A j \in DOMAIN buckets \ {i} :
            HasInRange(buckets[j], Self) => Spares(buckets[j]) \subseteq {contact}
    BY <1>1, <2>1
  <2>6. \A j \in DOMAIN buckets' : HasInRange(buckets'[j], Self) => Spares(buckets'[j]) \subseteq {contact}
    BY <1>0, <2>2, <2>4, <2>5, UpdateOwn
  <2> QED BY <2>1, <2>3, <2>6 DEF OwnOK, Spares
<1>9. CASE AddThenPing
  <2> DEFINE i == BucketFor(contact)
             c == AddNode(buckets[i], contact)
  <2>1. /\ pc = "add" /\ pc' = "ping" /\ ~HasInRange(buckets[i], Self)
        /\ buckets' = [buckets EXCEPT ![BucketFor(contact)] = AddNode(@, contact)]
    BY <1>9 DEF AddThenPing, ShouldSplit
  <2>2. /\ i \in DOMAIN buckets /\ c.lo = buckets[i].lo /\ c.hi = buckets[i].hi
        /\ buckets' = [buckets EXCEPT ![i] = c]
    BY <1>6, <2>1
  <2>3. i = BucketFor(contact)
    OBVIOUS
  <2> HIDE DEF i, c
  <2>4. \A j \in DOMAIN buckets \ {i} : HasInRange(buckets[j], Self) => Spares(buckets[j]) \subseteq {}
    BY <1>1, <2>1, <2>3
  <2>5. \A j \in DOMAIN buckets' : HasInRange(buckets'[j], Self) => Spares(buckets'[j]) \subseteq {}
    <3> DEFINE S == {}
    <3>1. /\ HasInRange(buckets[i], Self) => Spares(c) \subseteq S
          /\ \A j \in DOMAIN buckets \ {i} : HasInRange(buckets[j], Self) => Spares(buckets[j]) \subseteq S
      BY <2>1, <2>4
    <3> HIDE DEF S
    <3>2. \A j \in DOMAIN buckets' : HasInRange(buckets'[j], Self) => Spares(buckets'[j]) \subseteq S
      BY <1>0, <2>2, <3>1, UpdateOwn
    <3> QED BY <3>2 DEF S
  <2> QED BY <2>1, <2>5 DEF OwnOK
<1>10. CASE SplitMove
  <2> DEFINE n == Head(split.todo)
             a == split.at
             x == split.one
             y == split.two
             x1 == AddNode(x, n)
             y1 == AddNode(y, n)
             todo == Tail(split.todo)
  <2>1. /\ pc = "split" /\ pc' = "split" /\ contact' = contact /\ buckets' = buckets
        /\ SplitOK /\ SplitKeeps /\ split.todo \in Seq(Ids) /\ split.todo # <<>>
        /\ split \in [at : Nat, todo : Seq(Ids), one : KBucket, two : KBucket]
    BY <1>0, <1>10 DEF SplitMove, KeepInv, IInv, TypeOK
  <2>2. n \in Ids
    BY <2>1
  <2>3. \/ split'.one = x1 /\ split'.two = y
        \/ split'.one = x /\ split'.two = y1
    <3>1. \/ split' = [split EXCEPT !.todo = todo, !.one = x1]
          \/ split' = [split EXCEPT !.todo = todo, !.two = y1]
      BY <1>10 DEF SplitMove
    <3> HIDE DEF todo, x1, y1
    <3> QED BY <2>1, <3>1
  <2>4. /\ BucketOK(x) /\ BucketOK(y) /\ a \in DOMAIN buckets
        /\ x.lo = buckets[a].lo /\ x.hi = Mid(buckets[a])
        /\ y.lo = Mid(buckets[a]) + 1 /\ y.hi = buckets[a].hi /\ Mid(buckets[a]) < buckets[a].hi
    BY <2>1 DEF SplitOK
  <2>5. x1.lo = x.lo /\ x1.hi = x.hi /\ y1.lo = y.lo /\ y1.hi = y.hi
    <3>1. ASSUME NEW b \in KBucket PROVE AddNode(b, n).lo = b.lo /\ AddNode(b, n).hi = b.hi
      BY DEF AddNode, KBucket
    <3> QED BY <2>1, <3>1
  <2>6. /\ Spares(x1) \subseteq Spares(x) \cup {n} /\ (Accepts(x, n) => Spares(x1) = Spares(x))
        /\ Spares(y1) \subseteq Spares(y) \cup {n} /\ (Accepts(y, n) => Spares(y1) = Spares(y))
    BY <2>2, <2>4, AddNodeSpares
  <2>7. (Accepts(x, n) /\ Accepts(y, n)) \/ n \in Spares(buckets[a])
    BY <1>0, <1>10, <2>1, SplitMoveOrder
  <2> HIDE DEF n, x1, y1
  <2>8. ASSUME HasInRange(x, Self) \/ HasInRange(y, Self)
        PROVE  Spares(split'.one) \cup Spares(split'.two) \subseteq {contact}
    <3>1. HasInRange(buckets[a], Self)
      <4>1. buckets[a] \in KBucket /\ Self \in Nat
        BY <1>0, <2>4, IdsAssumption, IdBitsAssumption DEF BucketOK
      <4>2. buckets[a].lo \in Nat /\ buckets[a].hi \in Nat /\ Mid(buckets[a]) \in Nat
            /\ buckets[a].lo <= Mid(buckets[a])
        <5>1. buckets[a].lo \in Nat /\ buckets[a].hi \in Nat
          BY <4>1, IdBitsAssumption DEF KBucket
        <5>2. buckets[a].lo <= buckets[a].hi
          BY <1>0, <2>4 DEF TableOK, RangesPartition
        <5> QED BY <5>1, <5>2 DEF Mid
      <4> HIDE DEF x, y, a
      <4> QED BY <2>4, <2>8, <4>1, <4>2 DEF HasInRange
    <3>2. Spares(x) \cup Spares(y) \subseteq {contact}
      BY <2>1, <2>8 DEF OwnOK
    <3>3. n \in Spares(buckets[a]) => n = contact
      BY <1>1, <2>1, <2>4, <3>1
    <3> QED BY <2>3, <2>6, <2>7, <3>2, <3>3
  <2>9. (HasInRange(split'.one, Self) \/ HasInRange(split'.two, Self))
            => HasInRange(x, Self) \/ HasInRange(y, Self)
    BY <2>3, <2>5 DEF HasInRange
  <2>10. \A i \in DOMAIN buckets : HasInRange(buckets[i], Self) => Spares(buckets[i]) \subseteq {contact}
    BY <1>1, <2>1
  <2> HIDE DEF x, y, a
  <2> QED BY <2>1, <2>8, <2>9, <2>10 DEF OwnOK, Spares, HasInRange
<1>11. CASE SplitFinish
  <2> DEFINE a == split.at
             x == split.one
             y == split.two
  <2>1. /\ pc = "split" /\ pc' = "add" /\ contact' = contact
        /\ SplitOK /\ x \in KBucket /\ y \in KBucket
        /\ buckets' = InsertAt(ReplaceAt(buckets, a, x), a + 1, y)
    BY <1>0, <1>11 DEF SplitFinish, IInv, TypeOK
  <2>2. buckets \in Seq(KBucket) /\ a \in 1..Len(buckets) /\ Len(buckets) \in Nat
    BY <1>0, <2>1 DEF TableOK, SplitOK
  <2>3. HasInRange(x, Self) \/ HasInRange(y, Self) => Spares(x) \cup Spares(y) \subseteq {contact}
    BY <2>1 DEF OwnOK
  <2> HIDE DEF a, x, y
  <2>4. /\ buckets' \in Seq(KBucket) /\ Len(buckets') = Len(buckets) + 1
        /\ \A j \in 1..(a - 1) : buckets'[j] = buckets[j]
        /\ buckets'[a] = x /\ buckets'[a + 1] = y
        /\ \A j \in (a + 1)..Len(buckets) : buckets'[j + 1] = buckets[j]
    BY <2>1, <2>2, SplitBucketElements
  <2>5. ASSUME NEW j \in 1..(Len(buckets) + 1), HasInRange(buckets'[j], Self)
        PROVE  Spares(buckets'[j]) \subseteq {contact}
    <3>1. CASE j < a
      <4>1. j \in DOMAIN buckets /\ buckets'[j] = buckets[j]
        BY <2>2, <2>4, <3>1
      <4> QED BY <1>1, <2>1, <2>5, <4>1
    <3>2. CASE j = a \/ j = a + 1
      BY <2>3, <2>4, <2>5, <3>2
    <3>3. CASE j > a + 1
      <4>1. j - 1 \in (a + 1)..Len(buckets) /\ (j - 1) + 1 = j /\ j - 1 \in DOMAIN buckets
        BY <2>2, <3>3
      <4>2. buckets'[j] = buckets[j - 1]
        BY <2>4, <4>1
      <4> QED BY <1>1, <2>1, <2>5, <4>1, <4>2
    <3> QED BY <2>2, <3>1, <3>2, <3>3
  <2>6. DOMAIN buckets' = 1..(Len(buckets) + 1)
    BY <2>4
  <2> QED BY <2>1, <2>5, <2>6 DEF OwnOK
<1>12. CASE PingAnswered \/ PingRaised
  BY <1>2, <1>12 DEF PingAnswered, PingRaised, Idle, OwnOK, HasInRange, Spares
<1>13. CASE PingFailed
  BY <1>0, <1>3, <1>13 DEF PingFailed, Idle, OwnOK
<1>14. CASE UNCHANGED vars
  BY <1>14 DEF vars, OwnOK, HasInRange, Spares
<1> QED BY <1>4, <1>5, <1>7, <1>8, <1>9, <1>10, <1>11, <1>12, <1>13, <1>14
        DEF Next, AddStep, SplitStep, PingStep

LEMMA OwnTakesAll ==
    ASSUME TableOK, OwnOK
    PROVE  OwnBucketTakesAll
<1> SUFFICES ASSUME pc = "idle", NEW i \in DOMAIN buckets, HasInRange(buckets[i], Self)
             PROVE  buckets[i].replacement = <<>>
  BY DEF OwnBucketTakesAll
<1>1. ToSet(buckets[i].replacement) = {}
  BY DEF OwnOK, Spares
<1>2. buckets[i].replacement \in Seq(Ids)
  <2>1. buckets[i] \in KBucket
    BY DEF TableOK
  <2> QED BY <2>1 DEF KBucket
<1>3. ASSUME NEW s \in Seq(Ids), ToSet(s) = {} PROVE s = <<>>
  <2>1. \A j \in DOMAIN s : s[j] \in ToSet(s)
    BY DEF ToSet
  <2>2. Len(s) \in Nat /\ DOMAIN s = 1..Len(s)
    OBVIOUS
  <2>3. 1 \notin DOMAIN s
    BY <1>3, <2>1
  <2>4. Len(s) = 0
    BY <2>2, <2>3
  <2> QED BY <2>4, EmptySeq
<1> QED BY <1>1, <1>2, <1>3

LEMMA InitOwn == Init => OwnOK
<1> SUFFICES ASSUME Init PROVE OwnOK
  OBVIOUS
<1>1. buckets = <<NewBucket(0, IdBound)>> /\ pc = "idle"
  BY DEF Init
<1>2. Spares(NewBucket(0, IdBound)) = {}
  BY DEF NewBucket, Spares, ToSet
<1> QED BY <1>1, <1>2 DEF OwnOK

(* The bucket around this server turns no contact away, in every history in which each    *)
(* node has been looked up where it is listed: a midpoint identifier is the only obstacle. *)
THEOREM OwnTakesAllWhileListed == Spec /\ []ListedWhereLookedUp => []OwnBucketTakesAll
<1>1. KeepInv /\ OwnOK /\ ListedWhereLookedUp /\ [Next]_vars => OwnOK'
  BY OwnStep
<1>2. KeepInv /\ OwnOK => OwnBucketTakesAll
  BY OwnTakesAll DEF KeepInv, IInv
<1> QED BY <1>1, <1>2, InitOwn, SpecKeepInv, PTL DEF Spec

(* The same with odd identifiers, for which no such hypothesis is needed. *)
THEOREM OddOwnBucketTakesAll == Spec => [](OddIds => OwnBucketTakesAll)
<1> DEFINE K == OddIds => OwnOK
<1>1. KeepInv /\ (OddIds => SubtreesOK) /\ K /\ [Next]_vars => K'
  BY OwnStep, ListedOffBounds, OddOffBounds DEF KeepInv, IInv, OddIds
<1>2. KeepInv /\ K => (OddIds => OwnBucketTakesAll)
  BY OwnTakesAll DEF KeepInv, IInv
<1>3. Init => K
  BY InitOwn
<1> QED BY <1>1, <1>2, <1>3, SpecSubtrees, SpecKeepInv, PTL DEF Spec
=============================================================================
