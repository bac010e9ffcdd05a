-------------------------- MODULE SpiderCrawlProofs --------------------------
(***************************************************************************)
(* Proofs about SpiderCrawl for any peers, sizes of the heap and of a      *)
(* round, and values.                                                      *)
(***************************************************************************)
EXTENDS SpiderCrawl, Integers, FiniteSetTheorems, WellFoundedInduction, TLAPS

Below(S, n) == {m \in S : m < n}

(* The k nearest of S, as NodeHeap.__iter__ yields them. *)
FewBelow(S, k) == {n \in S : Cardinality({m \in S : m < n}) < k}

(* A set of numbers has a smallest one: Nat is well-founded. *)
LEMMA SmallestNat ==
    ASSUME NEW T, T \subseteq Nat, T # {}
    PROVE  \E x \in T : \A y \in T : x <= y
<1>1. \E x \in T : \A y \in T : ~(<<y, x>> \in OpToRel(<, Nat))
  BY NatLessThanWellFounded, WFMin
<1>2. ASSUME NEW x \in Nat, NEW y \in Nat, ~(<<y, x>> \in OpToRel(<, Nat)) PROVE x <= y
  BY <1>2 DEF OpToRel
<1> QED BY <1>1, <1>2

LEMMA BelowFinite ==
    ASSUME NEW S, IsFiniteSet(S), NEW n
    PROVE  IsFiniteSet(Below(S, n)) /\ Cardinality(Below(S, n)) \in Nat
BY FS_Subset, FS_CardinalityType DEF Below

(* Farther nodes have more nodes below them. *)
LEMMA BelowGrows ==
    ASSUME NEW S, S \subseteq Nat, IsFiniteSet(S), NEW x \in S, NEW y \in S, x < y
    PROVE  Cardinality(Below(S, x)) < Cardinality(Below(S, y))
<1>1. x \in Nat /\ y \in Nat /\ \A m \in S : m \in Nat
  OBVIOUS
<1>2. \A m \in Below(S, x) : m \in Below(S, y)
  BY <1>1 DEF Below
<1>3. x \in Below(S, y) /\ ~(x \in Below(S, x))
  BY <1>1 DEF Below
<1>4. /\ IsFiniteSet(Below(S, x)) /\ Cardinality(Below(S, x)) \in Nat
      /\ IsFiniteSet(Below(S, y)) /\ Cardinality(Below(S, y)) \in Nat
  BY BelowFinite
<1>5. Below(S, x) \in SUBSET Below(S, y) /\ Below(S, x) # Below(S, y)
  BY <1>2, <1>3
<1> QED BY <1>4, <1>5, FS_Subset

(* There are at most k nearest nodes. *)
LEMMA NearestAtMost ==
    ASSUME NEW S, S \subseteq Nat, IsFiniteSet(S), NEW k \in Nat
    PROVE  Cardinality(FewBelow(S, k)) <= k
<1> DEFINE N == FewBelow(S, k)
           f == [n \in N |-> Cardinality(Below(S, n))]
<1>1. N \subseteq S /\ IsFiniteSet(N) /\ \A n \in N : Cardinality(Below(S, n)) < k
  BY FS_Subset DEF FewBelow, Below
<1>2. f \in [N -> 0..(k - 1)]
  BY <1>1, BelowFinite
<1>3. IsFiniteSet(0..(k - 1)) /\ Cardinality(0..(k - 1)) = k
  BY FS_Interval
<1> HIDE DEF N
<1>4. ASSUME Cardinality(0..(k - 1)) < Cardinality(N) PROVE FALSE
  <2>1. PICK x \in N, y \in N : x # y /\ f[x] = f[y]
    <3> HIDE DEF f
    <3> QED BY <1>1, <1>2, <1>3, <1>4, FS_PigeonHole
  <2>2. x \in S /\ y \in S /\ (x < y \/ y < x) /\ Cardinality(Below(S, x)) = Cardinality(Below(S, y))
    BY <1>1, <2>1
  <2>3. Cardinality(Below(S, x)) \in Nat /\ Cardinality(Below(S, y)) \in Nat
    BY BelowFinite
  <2>4. CASE x < y
    <3>1. Cardinality(Below(S, x)) < Cardinality(Below(S, y))
      BY <2>2, <2>4, BelowGrows
    <3> QED BY <2>2, <2>3, <3>1
  <2>5. CASE y < x
    <3>1. Cardinality(Below(S, y)) < Cardinality(Below(S, x))
      BY <2>2, <2>5, BelowGrows
    <3> QED BY <2>2, <2>3, <3>1
  <2> QED BY <2>2, <2>4, <2>5
<1> QED BY <1>1, <1>3, <1>4, FS_CardinalityType DEF N

(* A node that is not among the k nearest is behind k that are. *)
LEMMA NearestFull ==
    ASSUME NEW S, S \subseteq Nat, IsFiniteSet(S), NEW k \in Nat, NEW n \in S \ FewBelow(S, k)
    PROVE  Cardinality(FewBelow(S, k)) = k /\ \A m \in FewBelow(S, k) : m < n
<1> DEFINE Far == {x \in S : ~(Cardinality(Below(S, x)) < k)}
<1>1. Far \subseteq Nat /\ n \in Far
  BY DEF FewBelow, Below
<1>2. PICK z \in Far : \A x \in Far : z <= x
  BY <1>1, SmallestNat
<1>3. FewBelow(S, k) = Below(S, z)
  <2>1. ASSUME NEW m \in S, m < z PROVE Cardinality(Below(S, m)) < k
    BY <1>1, <1>2, <2>1
  <2>2. ASSUME NEW m \in S, Cardinality(Below(S, m)) < k PROVE m < z
    <3>1. m # z /\ m \in Nat /\ z \in Nat /\ z \in S
      BY <1>1, <1>2, <2>2
    <3>2. ~(z < m)
      <4>1. Cardinality(Below(S, z)) \in Nat /\ Cardinality(Below(S, m)) \in Nat
        BY BelowFinite
      <4>2. z < m => Cardinality(Below(S, z)) < Cardinality(Below(S, m))
        BY <3>1, BelowGrows
      <4>3. ~(Cardinality(Below(S, z)) < k)
        BY <1>2
      <4> QED BY <2>2, <4>1, <4>2, <4>3
    <3> QED BY <3>1, <3>2
  <2> QED BY <2>1, <2>2 DEF FewBelow, Below
<1>4. Cardinality(FewBelow(S, k)) = k
  <2>1. Cardinality(FewBelow(S, k)) <= k
    BY NearestAtMost
  <2>2. ~(Cardinality(Below(S, z)) < k) /\ Cardinality(Below(S, z)) \in Nat
    BY <1>2, BelowFinite
  <2> QED BY <1>3, <2>1, <2>2
<1>5. \A m \in FewBelow(S, k) : m < n
  <2>1. z \in Nat /\ n \in Nat /\ z <= n
    BY <1>1, <1>2
  <2>2. \A m \in Below(S, z) : m \in Nat /\ m < z
    BY DEF Below
  <2> QED BY <1>3, <2>1, <2>2
<1> QED BY <1>4, <1>5


(* What a peer may have answered, or None. *)
ResponseOK(r) ==
    \/ r = NoResponse
    \/ /\ method \in {"find_node", "find_value", "find_chunk_location"}
       /\ \E S \in SUBSET Peers : r = NodeList(S)
    \/ method = "find_value" /\ \E v \in Values : r = Value(v)
    \/ method = "find_chunk_location" /\ \E p \in Peers : r = Value(p)
    \/ method \in {"delete", "confirm_integrity"} /\ \E b \in BOOLEAN : r = Value(b)
    \/ method = "get_metadata_list" /\ \E S \in SUBSET Values : r = Value(S)

ResponsesOK == \A p \in DOMAIN responses : ResponseOK(responses[p])

(* The peers that were pushed and not removed are in the heap, also those out of sight. *)
HeapKeepsAll == seen \ removed \subseteq heap

(* A peer that answered and has what is looked for said so in this round. *)
HeardOf(p) == p \in DOMAIN responses /\ HasValue(responses[p])

ValueHeard ==
    method \in {"find_value", "find_chunk_location"} =>
        \A p \in contacted \ silent : Contains(p) =>
            \/ pc = "call" /\ HeardOf(p)
            \/ pc = "done" /\ result # Nothing
            \/ pc = "raised"

(* A crawl that deletes or confirms has one round with responses, and who said True did it. *)
DoneAt(p) == copy[p] = Nothing \/ (method = "confirm_integrity" /\ copy[p].integrity)

OneRound ==
    method \in {"delete", "confirm_integrity"} =>
        /\ pc = "round" => contacted = {}
        /\ pc = "call" =>
              /\ contacted = DOMAIN responses
              /\ \A p \in contacted : responses[p] = Value(TRUE) => DoneAt(p)

IInv ==
    /\ TypeOK /\ ResponsesOK
    /\ HeapKeepsAll /\ ValueHeard /\ OneRound
    /\ NearestReturned /\ TrueMeansDone

-----------------------------------------------------------------------------
(* Responses and values *)

LEMMA ResponseKinds ==
    /\ ~Happened(NoResponse) /\ ~HasValue(NoResponse)
    /\ \A S : ~HasValue(NodeList(S)) /\ NodeList(S).nodes = S /\ (Happened(NodeList(S)) <=> S # {})
    /\ \A v : HasValue(Value(v)) /\ Happened(Value(v)) /\ Value(v).value = v
BY DEF Happened, HasValue, NoResponse, NodeList, Value

LEMMA AnswersOK ==
    ASSUME TypeOK, NEW p \in Peers, NEW r \in Answers(p)
    PROVE  ResponseOK(r)
<1>1. method \in AllMethods
  BY MethodsAssumption DEF TypeOK
<1>2. ASSUME Contains(p) PROVE copy[p].value \in Values
  BY <1>2 DEF Contains, TypeOK, Copy
<1>3. ASSUME r \in NodeLists(p) PROVE \E S \in SUBSET Peers : r = NodeList(S)
  BY <1>3 DEF NodeLists
<1>4. CASE method = "find_node"
  BY <1>3, <1>4 DEF Answers, ResponseOK
<1>5. CASE method = "find_value"
  BY <1>2, <1>3, <1>5 DEF Answers, ResponseOK
<1>6. CASE method = "find_chunk_location"
  BY <1>3, <1>6 DEF Answers, ResponseOK
<1>7. CASE method \in {"delete", "confirm_integrity"}
  BY <1>7 DEF Answers, ResponseOK
<1>8. CASE method = "get_metadata_list"
  BY <1>2, <1>8 DEF Answers, ResponseOK
<1> QED BY <1>1, <1>4, <1>5, <1>6, <1>7, <1>8 DEF AllMethods

LEMMA NodesFoundOK ==
    ASSUME ResponsesOK
    PROVE  NodesFound \subseteq Peers
<1>1. ASSUME NEW p \in Responding \ WithValue PROVE responses[p].nodes \subseteq Peers
  BY ResponseKinds DEF Responding, WithValue, ResponsesOK, ResponseOK
<1> QED BY <1>1 DEF NodesFound

(* One of the values is the most common one, so that CHOOSE has one to choose. *)
LEMMA MostCommonExists ==
    ASSUME TypeOK, Found # {}
    PROVE  (CHOOSE v \in Found : MostCommon(v)) \in Found
<1>1. IsFiniteSet(WithValue) /\ WithValue \subseteq Peers /\ Peers \subseteq Nat
  BY PeersAssumption, FS_Subset DEF TypeOK, WithValue
<1>2. ASSUME NEW v
      PROVE  /\ Cardinality(Supporters(v)) \in Nat /\ Cardinality(WithValue) \in Nat
             /\ Cardinality(Supporters(v)) <= Cardinality(WithValue)
  BY <1>1, FS_Subset, FS_CardinalityType DEF Supporters
<1> DEFINE Rest(v) == Cardinality(WithValue) - Cardinality(Supporters(v))
           Rests == {Rest(v) : v \in Found}
<1>3. PICK least \in Rests : \A r \in Rests : least <= r
  <2>1. Rests \subseteq Nat /\ Rests # {}
    BY <1>2
  <2> HIDE DEF Rests
  <2> QED BY <2>1, SmallestNat
<1> DEFINE Top == {v \in Found : Rest(v) = least}
           TopPeers == {p \in WithValue : responses[p].value \in Top}
<1>4. PICK p \in TopPeers : \A q \in TopPeers : p <= q
  <2>1. TopPeers \subseteq Nat
    BY <1>1
  <2>2. TopPeers # {}
    BY <1>3 DEF Found
  <2> HIDE DEF TopPeers
  <2> QED BY <2>1, <2>2, SmallestNat
<1> DEFINE top == responses[p].value
<1>5. top \in Found /\ p \in Supporters(top) /\ Rest(top) = least /\ p \in Nat
  BY <1>1, <1>4 DEF Supporters
<1>6. ASSUME NEW w \in Found \ {top}
      PROVE  \/ Cardinality(Supporters(top)) > Cardinality(Supporters(w))
             \/ /\ Cardinality(Supporters(top)) = Cardinality(Supporters(w))
                /\ \A q \in Supporters(w) : p < q
  <2>1. Rest(top) <= Rest(w)
    BY <1>3, <1>5
  <2>2. CASE Rest(top) = Rest(w)
    <3>1. ASSUME NEW q \in Supporters(w) PROVE p < q
      <4>1. q \in TopPeers /\ q # p /\ q \in Nat
        BY <1>1, <1>5, <2>2 DEF Supporters
      <4> QED BY <1>4, <1>5, <4>1
    <3> QED BY <1>2, <2>2, <3>1
  <2>3. CASE Rest(top) < Rest(w)
    BY <1>2, <2>3
  <2> QED BY <1>2, <2>1, <2>2, <2>3
<1>7. MostCommon(top)
  BY <1>5, <1>6 DEF MostCommon
<1> QED BY <1>5, <1>7

(* What a crawl finds is what its peers answered. *)
LEMMA FoundOK ==
    ASSUME ResponsesOK
    PROVE  /\ method = "find_node" => Found = {}
           /\ method = "find_value" => Found \subseteq Values
           /\ method = "find_chunk_location" => Found \subseteq Peers
           /\ method \in {"delete", "confirm_integrity"} => Found \subseteq BOOLEAN
           /\ method = "get_metadata_list" => Found \subseteq SUBSET Values
BY ResponseKinds DEF Found, WithValue, ResponsesOK, ResponseOK

-----------------------------------------------------------------------------
(* Rounds *)

LEMMA RoundOK ==
    ASSUME TypeOK, ResponsesOK, HeapKeepsAll, NEW finished \in BOOLEAN, NEW answer,
           RoundDone(finished, answer), answer # Nothing => answer \in Results
    PROVE  TypeOK' /\ ResponsesOK' /\ HeapKeepsAll'
<1> USE DEF RoundDone, world
<1>1. NodesFound \subseteq Peers /\ NotResponding \subseteq Peers
  BY NodesFoundOK DEF NotResponding, TypeOK
<1>2. heap' \subseteq Peers /\ seen' \subseteq Peers /\ removed' \subseteq Peers
  BY <1>1 DEF TypeOK, NextHeap, Push, Remove
<1>3. pc' \in {"done", "round"} /\ (result' # Nothing => result' \in Results')
  BY DEF TypeOK, Results
<1>4. TypeOK'
  BY <1>2, <1>3 DEF TypeOK
<1>5. ResponsesOK'
  BY DEF ResponsesOK, ResponseOK
<1>6. HeapKeepsAll'
  BY DEF HeapKeepsAll, NextHeap, Push, Remove
<1> QED BY <1>4, <1>5, <1>6

LEMMA NodeSpiderOK ==
    ASSUME IInv, NodesFoundByNodeSpider
    PROVE  IInv'
<1> USE DEF world, RoundOf, RoundDone, NodesFoundByNodeSpider
<1>1. Visible(NextHeap) \subseteq Peers
  BY NodesFoundOK DEF IInv, TypeOK, NextHeap, Push, Remove, Visible, Nearest
<1>2. TypeOK' /\ ResponsesOK' /\ HeapKeepsAll'
  BY <1>1, RoundOK DEF IInv, Results, HaveContactedAll
<1>3. CASE pc' = "done"
  <2>1. result' = Visible(NextHeap) /\ heap' = NextHeap /\ Uncontacted(NextHeap) = {}
    BY <1>3 DEF HaveContactedAll
  <2>2. NearestReturned'
    <3> SUFFICES ASSUME NEW n \in seen' \ (result' \cup removed')
                 PROVE  Cardinality(result') = KSize /\ \A m \in result' : m < n
      BY DEF NearestReturned
    <3>1. n \in heap' \ FewBelow(heap', KSize) /\ result' = FewBelow(heap', KSize)
      BY <1>2, <2>1 DEF HeapKeepsAll, Visible, Nearest, FewBelow
    <3>2. heap' \subseteq Nat /\ IsFiniteSet(heap') /\ KSize \in Nat
      BY <1>2, PeersAssumption, SizesAssumption, FS_Subset DEF TypeOK
    <3> QED BY <3>1, <3>2, NearestFull
  <2> QED BY <1>2, <2>2 DEF IInv, ValueHeard, OneRound, TrueMeansDone
<1>4. CASE pc' # "done"
  BY <1>2, <1>4 DEF IInv, ValueHeard, OneRound, TrueMeansDone, NearestReturned
<1> QED BY <1>3, <1>4

(* A value or the peers that have it end the crawl when a peer said so. *)
LEMMA ValueSpidersOK ==
    ASSUME IInv, NodesFoundByValueSpider \/ NodesFoundByLocationSpider
    PROVE  IInv'
<1> USE DEF world, RoundOf
<1> PICK answer : /\ pc = "call" /\ method \in {"find_value", "find_chunk_location"}
                  /\ RoundDone(Found # {} \/ HaveContactedAll, answer)
                  /\ Found = {} => answer = Nothing
                  /\ Found # {} => answer # Nothing /\ answer \in Results
  <2>1. CASE NodesFoundByValueSpider
    <3> DEFINE a == IF Found = {} THEN Nothing ELSE CHOOSE v \in Found : MostCommon(v)
    <3>1. Found # {} => a \in Found
      BY MostCommonExists DEF IInv
    <3>2. method = "find_value" /\ Found \subseteq Values
      BY <2>1, FoundOK DEF NodesFoundByValueSpider, IInv
    <3>3. pc = "call" /\ RoundDone(Found # {} \/ HaveContactedAll, a)
      BY <2>1 DEF NodesFoundByValueSpider
    <3>4. Found = {} => a = Nothing
      OBVIOUS
    <3> HIDE DEF a
    <3> QED BY <3>1, <3>2, <3>3, <3>4, NothingAssumption DEF Results
  <2>2. CASE NodesFoundByLocationSpider
    BY <2>2, FoundOK, NothingAssumption DEF NodesFoundByLocationSpider, IInv, Results
  <2> QED BY <2>1, <2>2
<1>1. TypeOK' /\ ResponsesOK' /\ HeapKeepsAll'
  BY RoundOK DEF IInv
<1>2. ValueHeard'
  <2> SUFFICES ASSUME NEW p \in contacted \ silent, Contains(p), pc' # "done" \/ result' = Nothing
               PROVE  FALSE
    BY DEF ValueHeard, RoundDone, Contains
  <2>1. HeardOf(p)
    BY DEF IInv, ValueHeard
  <2>2. Found # {}
    BY <2>1 DEF HeardOf, Found, WithValue
  <2> QED BY <2>2 DEF RoundDone
<1> QED BY <1>1, <1>2 DEF IInv, OneRound, TrueMeansDone, NearestReturned, RoundDone

(* True takes an answer of every peer that was called, and a true one. *)
LEMMA AllSpiderOK ==
    ASSUME IInv, NodesFoundByAllSpider
    PROVE  IInv'
<1> USE DEF world, RoundOf
<1> DEFINE found == Found \cup (IF NotResponding = {} THEN {} ELSE {Nothing})
           answer == IF found = {} THEN Nothing ELSE \A v \in found : v = TRUE
<1>1. /\ pc = "call" /\ method \in {"delete", "confirm_integrity"}
      /\ RoundDone(found # {} \/ HaveContactedAll, answer)
  BY DEF NodesFoundByAllSpider
<1>2. answer # Nothing => answer \in Results
  BY <1>1 DEF Results
<1>3. ASSUME NEW p \in contacted, NotResponding = {}
      PROVE  \E b \in Found : responses[p] = Value(b)
  <2>1. p \in DOMAIN responses /\ ResponseOK(responses[p]) /\ p \in Responding
    BY <1>1, <1>3 DEF IInv, OneRound, ResponsesOK, NotResponding
  <2>2. PICK b \in BOOLEAN : responses[p] = Value(b)
    BY <1>1, <2>1, ResponseKinds DEF ResponseOK, Responding
  <2> QED BY <2>1, <2>2, ResponseKinds DEF Found, WithValue
<1>4. ASSUME found = {} PROVE contacted = {}
  BY <1>3, <1>4
<1>5. ASSUME answer = TRUE, NEW p \in contacted PROVE DoneAt(p)
  <2>1. NotResponding = {} /\ \A v \in Found : v = TRUE
    BY <1>5, NothingAssumption
  <2>2. responses[p] = Value(TRUE)
    BY <1>3, <2>1
  <2> QED BY <1>1, <2>2 DEF IInv, OneRound
<1> HIDE DEF answer, found
<1>6. TypeOK' /\ ResponsesOK' /\ HeapKeepsAll'
  BY <1>1, <1>2, RoundOK DEF IInv
<1>7. OneRound'
  BY <1>1, <1>4 DEF OneRound, RoundDone
<1>8. TrueMeansDone'
  BY <1>1, <1>5 DEF TrueMeansDone, RoundDone, DoneAt
<1> QED BY <1>1, <1>6, <1>7, <1>8 DEF IInv, ValueHeard, NearestReturned, RoundDone

LEMMA LsSpiderOK ==
    ASSUME IInv, NodesFoundByLsSpider
    PROVE  IInv'
<1> USE DEF world, RoundOf
<1> DEFINE found == UNION Found
<1>1. /\ pc = "call" /\ method = "get_metadata_list"
      /\ RoundDone(found # {} \/ HaveContactedAll, IF found = {} THEN Nothing ELSE found)
  BY DEF NodesFoundByLsSpider
<1>2. found \subseteq Values
  BY <1>1, FoundOK DEF IInv
<1> HIDE DEF found
<1>3. TypeOK' /\ ResponsesOK' /\ HeapKeepsAll'
  BY <1>1, <1>2, RoundOK DEF IInv, Results
<1> QED BY <1>1, <1>3
        DEF IInv, ValueHeard, OneRound, TrueMeansDone, NearestReturned, RoundDone

-----------------------------------------------------------------------------
(* Calls *)

(* What the handler does to the copies: only a delete or a confirmation, and only at p. *)
LEMMA StoredOK ==
    ASSUME TypeOK, NEW p \in Peers, NEW r
    PROVE  /\ Stored(p, r) \in [Peers -> Copy \cup {Nothing}]
           /\ method \notin {"delete", "confirm_integrity"} => Stored(p, r) = copy
           /\ \A q \in Peers : DoneAt(q) \/ (q = p /\ r = Value(TRUE)) =>
                 \/ method \notin {"delete", "confirm_integrity"}
                 \/ Stored(p, r)[q] = Nothing
                 \/ method = "confirm_integrity" /\ Stored(p, r)[q].integrity
<1>1. copy \in [Peers -> Copy \cup {Nothing}]
  BY DEF TypeOK
<1>2. CASE ~(method \in {"delete", "confirm_integrity"} /\ r = Value(TRUE) /\ copy[p] # Nothing)
  <2>1. Stored(p, r) = copy
    BY <1>2 DEF Stored
  <2> QED BY <1>1, <1>2, <2>1 DEF DoneAt
<1>3. CASE method = "delete" /\ r = Value(TRUE) /\ copy[p] # Nothing
  <2>1. Stored(p, r) = [copy EXCEPT ![p] = Nothing]
    BY <1>3 DEF Stored
  <2> QED BY <1>1, <1>3, <2>1 DEF DoneAt
<1>4. CASE method = "confirm_integrity" /\ r = Value(TRUE) /\ copy[p] # Nothing
  <2> DEFINE c == [copy[p] EXCEPT !.integrity = TRUE]
  <2>1. c \in Copy /\ c.integrity
    BY <1>1, <1>4 DEF Copy
  <2>2. Stored(p, r) = [copy EXCEPT ![p] = c]
    BY <1>4 DEF Stored
  <2> HIDE DEF c
  <2> QED BY <1>1, <1>4, <2>1, <2>2 DEF DoneAt
<1> QED BY <1>2, <1>3, <1>4

LEMMA CallAnsweredOK ==
    ASSUME IInv, NEW p \in todo, CallAnswered(p)
    PROVE  IInv'
<1> USE DEF Responded
<1>0. TypeOK /\ p \in Peers /\ pc = "call" /\ pc' = "call" /\ method' = method
  BY DEF IInv, TypeOK, CallAnswered
<1>1. PICK r \in Answers(p) : Responded(p, r) /\ copy' = Stored(p, r)
  BY DEF CallAnswered
<1>2. /\ DOMAIN responses' = DOMAIN responses \cup {p}
      /\ responses'[p] = r
      /\ \A q \in DOMAIN responses \ {p} : responses'[q] = responses[q]
  BY <1>1
<1>3. TypeOK'
  <2>1. copy' \in [Peers -> Copy \cup {Nothing}]
    BY <1>0, <1>1, StoredOK
  <2>2. contacts' \subseteq Peers \ {Self}
    BY <1>0 DEF TypeOK, CallAnswered
  <2> QED BY <1>0, <1>1, <1>2, <2>1, <2>2 DEF TypeOK, CallAnswered, Results
<1>4. ResponsesOK'
  <2>1. ResponseOK(r)
    BY <1>0, AnswersOK
  <2> QED BY <1>0, <1>2, <2>1 DEF IInv, ResponsesOK, ResponseOK
<1>5. HeapKeepsAll'
  BY <1>1 DEF IInv, HeapKeepsAll
<1>6. ValueHeard'
  <2> SUFFICES ASSUME method \in {"find_value", "find_chunk_location"},
                      NEW q \in contacted' \ silent, Contains(q)'
               PROVE  HeardOf(q)'
    BY <1>0 DEF ValueHeard, CallAnswered
  <2>1. copy' = copy /\ Contains(q)
    BY <1>0, <1>1, StoredOK DEF Contains
  <2>2. CASE q = p
    <3>1. HasValue(r)
      BY <2>1, <2>2, ResponseKinds DEF Answers
    <3> QED BY <1>2, <2>2, <3>1 DEF HeardOf, HasValue
  <2>3. CASE q # p
    <3>1. HeardOf(q)
      BY <1>0, <1>1, <2>1, <2>3 DEF IInv, ValueHeard
    <3> QED BY <1>2, <2>3, <3>1 DEF HeardOf, HasValue
  <2> QED BY <2>2, <2>3
<1>7. OneRound'
  <2> SUFFICES ASSUME method \in {"delete", "confirm_integrity"}
               PROVE  /\ contacted' = DOMAIN responses'
                      /\ \A q \in contacted' : responses'[q] = Value(TRUE) => DoneAt(q)'
    BY <1>0 DEF OneRound
  <2>1. contacted' = DOMAIN responses'
    BY <1>0, <1>1, <1>2 DEF IInv, OneRound
  <2>2. ASSUME NEW q \in contacted', responses'[q] = Value(TRUE) PROVE DoneAt(q)'
    <3>1. q \in Peers /\ (DoneAt(q) \/ (q = p /\ r = Value(TRUE)))
      BY <1>0, <1>2, <2>1, <2>2 DEF IInv, OneRound, TypeOK
    <3>2. copy'[q] = Nothing \/ (method = "confirm_integrity" /\ copy'[q].integrity)
      BY <1>0, <1>1, <3>1, StoredOK
    <3> QED BY <1>0, <3>2 DEF DoneAt
  <2> QED BY <2>1, <2>2
<1> QED BY <1>0, <1>3, <1>4, <1>5, <1>6, <1>7
        DEF IInv, NearestReturned, TrueMeansDone

LEMMA CallFailedOK ==
    ASSUME IInv, NEW p \in todo, CallFailed(p)
    PROVE  IInv'
<1> USE DEF Responded
<1>0. /\ TypeOK /\ p \in Peers /\ pc = "call" /\ pc' = "call" /\ method' = method /\ copy' = copy
      /\ Responded(p, NoResponse) /\ silent' = silent \cup {p}
  BY DEF IInv, TypeOK, CallFailed
<1>1. /\ DOMAIN responses' = DOMAIN responses \cup {p}
      /\ responses'[p] = NoResponse
      /\ \A q \in DOMAIN responses \ {p} : responses'[q] = responses[q]
  BY <1>0
<1>2. TypeOK'
  BY <1>0, <1>1 DEF TypeOK, CallFailed, Results
<1>3. ResponsesOK'
  BY <1>0, <1>1 DEF IInv, ResponsesOK, ResponseOK
<1>4. HeapKeepsAll'
  BY <1>0 DEF IInv, HeapKeepsAll
<1>5. ValueHeard'
  BY <1>0, <1>1 DEF IInv, ValueHeard, HeardOf, HasValue, Contains
<1>6. OneRound'
  BY <1>0, <1>1 DEF IInv, OneRound, DoneAt, NoResponse, Value
<1> QED BY <1>0, <1>2, <1>3, <1>4, <1>5, <1>6
        DEF IInv, NearestReturned, TrueMeansDone

LEMMA CallRaisedOK ==
    ASSUME IInv, NEW p \in todo, CallRaised(p)
    PROVE  IInv'
<1>1. p \in Peers /\ pc' = "raised" /\ UNCHANGED <<up, contacts, method, heap, contacted, last, todo, responses, result, history>>
  BY DEF IInv, TypeOK, CallRaised
<1>2. copy' \in [Peers -> Copy \cup {Nothing}]
  <2>1. MarkedOnly(p) \in [Peers -> Copy \cup {Nothing}]
    BY <1>1 DEF MarkedOnly, IInv, TypeOK, Copy
  <2> QED BY <1>1, <2>1, StoredOK DEF IInv, TypeOK, CallRaised
<1>3. TypeOK'
  BY <1>1, <1>2 DEF IInv, TypeOK, history, Results
<1>4. ResponsesOK' /\ HeapKeepsAll'
  BY <1>1 DEF IInv, ResponsesOK, ResponseOK, HeapKeepsAll, history
<1> QED BY <1>1, <1>3, <1>4
        DEF IInv, ValueHeard, OneRound, NearestReturned, TrueMeansDone, history

-----------------------------------------------------------------------------
(* The crawl *)

LEMMA InitOK == Init => IInv
<1> SUFFICES ASSUME Init PROVE IInv
  OBVIOUS
<1>1. DOMAIN responses = {}
  BY DEF Init, NoResponses
<1>2. TypeOK
  BY <1>1, PeersAssumption DEF Init, TypeOK
<1> QED BY <1>1, <1>2
        DEF Init, IInv, ResponsesOK, HeapKeepsAll, ValueHeard, OneRound,
            NearestReturned, TrueMeansDone

LEMMA StartRoundOK ==
    ASSUME IInv, StartRound
    PROVE  IInv'
<1> USE DEF world, history
<1>1. DOMAIN responses' = {} /\ pc' = "call"
  BY DEF StartRound, NoResponses
<1>2. last' \subseteq heap /\ todo' \subseteq heap
  BY DEF StartRound, Visible, Nearest, Uncontacted
<1>3. TypeOK'
  BY <1>1, <1>2 DEF IInv, TypeOK, StartRound, Results
<1>4. ResponsesOK' /\ HeapKeepsAll'
  BY <1>1 DEF IInv, ResponsesOK, HeapKeepsAll, StartRound
<1>5. ValueHeard' /\ OneRound'
  BY <1>1 DEF IInv, ValueHeard, OneRound, StartRound, Contains, DoneAt
<1> QED BY <1>1, <1>3, <1>4, <1>5
        DEF IInv, NearestReturned, TrueMeansDone

LEMMA NextOK == IInv /\ [Next]_vars => IInv'
<1> SUFFICES ASSUME IInv, [Next]_vars PROVE IInv'
  OBVIOUS
<1>1. CASE RoundStep
  BY <1>1, StartRoundOK, CallAnsweredOK, CallFailedOK, CallRaisedOK, NodeSpiderOK, ValueSpidersOK,
     AllSpiderOK, LsSpiderOK DEF RoundStep
<1>2. ASSUME UNCHANGED <<copy, contacts, crawl, history>>, up' \subseteq Peers PROVE IInv'
  BY <1>2 DEF IInv, TypeOK, Results, ResponsesOK, ResponseOK, HeapKeepsAll, ValueHeard, HeardOf, OneRound,
     DoneAt, NearestReturned, TrueMeansDone, Contains, crawl, history
<1>3. CASE \E p \in Peers : Stop(p) \/ Restart(p)
  BY <1>2, <1>3 DEF Stop, Restart, IInv, TypeOK
<1>4. CASE UNCHANGED vars
  BY <1>2, <1>4 DEF vars, world, IInv, TypeOK
<1> QED BY <1>1, <1>3, <1>4 DEF Next

LEMMA Invariant == Spec => []IInv
BY InitOK, NextOK, PTL DEF Spec

(* Every variable keeps its type; what a finished crawl returns is of its method's kind. *)
THEOREM TypeCorrect == Spec => []TypeOK
<1>1. IInv => TypeOK
  BY DEF IInv
<1> QED BY <1>1, Invariant, PTL

(* A node crawl returns the ksize nearest of all it ever heard of and did not remove. *)
THEOREM NearestAlwaysReturned == Spec => []NearestReturned
<1>1. IInv => NearestReturned
  BY DEF IInv
<1> QED BY <1>1, Invariant, PTL

(* None from get: no peer that answered had the value confirmed. *)
THEOREM NothingMissed == Spec => []MissedOnlyIfNotHeld
<1>1. IInv => MissedOnlyIfNotHeld
  BY DEF IInv, ValueHeard, MissedOnlyIfNotHeld
<1> QED BY <1>1, Invariant, PTL

(* True from a delete or a confirmation: every peer that was called did it. *)
THEOREM TrueAlwaysMeansDone == Spec => []TrueMeansDone
<1>1. IInv => TrueMeansDone
  BY DEF IInv
<1> QED BY <1>1, Invariant, PTL
=============================================================================
