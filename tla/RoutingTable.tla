---------------------------- MODULE RoutingTable ----------------------------
(***************************************************************************)
(* The Kademlia routing table of one kade-drive server                     *)
(* (src/kade_drive/core/routing.py) as one thread drives it: a sequence of *)
(* k-buckets that together cover the identifier space, a contact being     *)
(* added (bucket by bucket, split by split), and the ping that decides     *)
(* whether the oldest contact of a full bucket stays.  The calls come from *)
(* FileSystemProtocol.wellcome_if_new and process_response (protocol.py).  *)
(***************************************************************************)
EXTENDS Naturals, SequencesExt

CONSTANTS
    Ids,                \* identifiers of the nodes this server may hear of
    Self,               \* identifier of this server
    IdBits,             \* width of an identifier (160 in the code)
    KSize,              \* contacts a bucket holds (ksize)
    ReplacementFactor,  \* replacement nodes kept per contact (5 in the code)
    DepthStep,          \* a bucket whose depth is a multiple of it is not split (5)
    NoNode              \* "no contact is being handled"

IdBound == 2^IdBits

ASSUME IdBitsAssumption == IdBits \in Nat /\ IdBound \in Nat \ {0}
\* What a power of two is, for the proofs.
ASSUME PowersAssumption == 2^0 = 1 /\ \A j \in 1..IdBits : 2^(j - 1) \in Nat /\ 2^j = 2 * 2^(j - 1)
ASSUME IdsAssumption == Ids \subseteq 0..(IdBound - 1) /\ Self \in Ids
ASSUME NoNodeAssumption == NoNode \notin Ids
ASSUME KSizeAssumption == KSize \in Nat \ {0} /\ ReplacementFactor \in Nat \ {0}
\* 160 is a multiple of 5: a bucket with a single contact is not split for its depth.
ASSUME DepthAssumption == DepthStep \in Nat \ {0} /\ IdBits % DepthStep = 0

VARIABLES
    buckets,    \* RoutingTable.buckets, in the order of their ranges
    pc,         \* where the thread is in add_contact
    contact,    \* the node being added, or the one being pinged
    split       \* the locals of KBucket.split

vars == <<buckets, pc, contact, split>>

-----------------------------------------------------------------------------
(* KBucket: an OrderedDict is the sequence of its keys, oldest first.  The *)
(* definitions named ...Mutant are what a bug would make of the definition *)
(* after them; nothing uses them but the tests of the properties.          *)

MaxReplacement == KSize * ReplacementFactor

KBucket == [lo : 0..IdBound, hi : 0..IdBound, nodes : Seq(Ids), replacement : Seq(Ids)]

NewBucket(lo, hi) == [lo |-> lo, hi |-> hi, nodes |-> <<>>, replacement |-> <<>>]

\* del d[n], or d unchanged when n is not a key of it.
Without(s, n) ==
    IF n \in ToSet(s) THEN RemoveAt(s, CHOOSE i \in DOMAIN s : s[i] = n) ELSE s

\* d[n] = node after del d[n]: n becomes the newest key.
AsNewest(s, n) == Append(Without(s, n), n)

\* d[n] = node: a key that is there keeps its place.
SetKey(s, n) == IF n \in ToSet(s) THEN s ELSE Append(s, n)

Newest(s, k) == IF Len(s) > k THEN SubSeq(s, Len(s) - k + 1, Len(s)) ELSE s

Full(b) == Len(b.nodes) >= KSize

IsNewIn(b, n) == n \notin ToSet(b.nodes)

\* What add_node returns.
Accepts(b, n) == ~IsNewIn(b, n) \/ ~Full(b)

\* What add_node makes of the bucket.
AddNode(b, n) ==
    IF Accepts(b, n)
    THEN [b EXCEPT !.nodes = AsNewest(@, n)]
    ELSE [b EXCEPT !.replacement = Newest(AsNewest(@, n), MaxReplacement)]

\* The spare is not promoted.
RemoveNodeMutant(b, n) ==
    [b EXCEPT !.replacement = Without(@, n), !.nodes = Without(@, n)]

\* A contact that leaves is replaced by the newest replacement node.
RemoveNode(b, n) ==
    LET spare == Without(b.replacement, n)
        kept  == Without(b.nodes, n)
    IN  IF IsNewIn(b, n) \/ spare = <<>>
        THEN [b EXCEPT !.replacement = spare, !.nodes = kept]
        ELSE [b EXCEPT !.replacement = Front(spare), !.nodes = SetKey(kept, Last(spare))]

HasInRange(b, n) == b.lo <= n /\ n <= b.hi

\* Length of the common bit prefix of the identifiers in the bucket.
SamePrefix(S, d) == \A m, n \in S : m \div 2^(IdBits - d) = n \div 2^(IdBits - d)
Depth(b) == Max({d \in 0..IdBits : SamePrefix(ToSet(b.nodes), d)})

\* The division by two is forgotten.
MidMutant(b) == b.lo + b.hi

Mid(b) == (b.lo + b.hi) \div 2

\* The bucket around this server is treated like any other.
ShouldSplitMutant(b) == Depth(b) % DepthStep # 0

\* The depth rule is forgotten: a full bucket is always split.
ShouldSplitAlwaysMutant(b) == TRUE

ShouldSplit(b) == HasInRange(b, Self) \/ Depth(b) % DepthStep # 0

-----------------------------------------------------------------------------
(* RoutingTable                                                            *)

\* get_bucket_for raises VoidNodeException when no bucket qualifies.
HasBucket(n) == \E i \in DOMAIN buckets : n < buckets[i].hi

BucketFor(n) ==
    CHOOSE i \in DOMAIN buckets :
        /\ n < buckets[i].hi
        /\ \A j \in 1..(i - 1) : n >= buckets[j].hi

IsNewNode(n) == IsNewIn(buckets[BucketFor(n)], n)

Contacts == UNION {ToSet(buckets[i].nodes) : i \in DOMAIN buckets}
Replacements == UNION {ToSet(buckets[i].replacement) : i \in DOMAIN buckets}

\* KBucket.split before its loop: the halves are empty, the nodes are all to move.
NoSplit == [at |-> 0, todo |-> <<>>, one |-> NewBucket(0, 0), two |-> NewBucket(0, 0)]

\* The halves overlap at the midpoint.
StartSplitOverlapMutant(i, b) ==
    [at |-> i, todo |-> b.nodes \o b.replacement,
     one |-> NewBucket(b.lo, Mid(b)), two |-> NewBucket(Mid(b), b.hi)]

\* The replacement nodes are moved before the contacts.
StartSplitOrderMutant(i, b) ==
    [at |-> i, todo |-> b.replacement \o b.nodes,
     one |-> NewBucket(b.lo, Mid(b)), two |-> NewBucket(Mid(b) + 1, b.hi)]

StartSplit(i, b) ==
    [at   |-> i,
     todo |-> b.nodes \o b.replacement,
     one  |-> NewBucket(b.lo, Mid(b)),
     two  |-> NewBucket(Mid(b) + 1, b.hi)]

Idle == pc' = "idle" /\ contact' = NoNode /\ split' = NoSplit

Init ==
    /\ buckets = <<NewBucket(0, IdBound)>>
    /\ pc = "idle"
    /\ contact = NoNode
    /\ split = NoSplit

(***************************************************************************)
(* A node answered a call, or pinged this server (wellcome_if_new).  A     *)
(* node with this server's own address is not added.                       *)
(***************************************************************************)
WellcomeIfNew(n) ==
    /\ pc = "idle"
    /\ n # Self
    /\ IsNewNode(n)
    /\ pc' = "add"
    /\ contact' = n
    /\ UNCHANGED <<buckets, split>>

\* A node did not answer a call (process_response).
RemoveContact(n) ==
    /\ pc = "idle"
    /\ buckets' = [buckets EXCEPT ![BucketFor(n)] = RemoveNode(@, n)]
    /\ UNCHANGED <<pc, contact, split>>

\* add_contact, the bucket takes the node.
AddAccepted ==
    LET i == BucketFor(contact)
    IN  /\ pc = "add"
        /\ Accepts(buckets[i], contact)
        /\ buckets' = [buckets EXCEPT ![i] = AddNode(@, contact)]
        /\ Idle

\* add_contact, the bucket is full and is split before another attempt.
AddThenSplit ==
    LET i == BucketFor(contact)
    IN  /\ pc = "add"
        /\ ~Accepts(buckets[i], contact)
        /\ ShouldSplit(buckets[i])
        /\ buckets' = [buckets EXCEPT ![i] = AddNode(@, contact)]
        /\ split' = StartSplit(i, buckets'[i])
        /\ pc' = "split"
        /\ UNCHANGED contact

\* add_contact, the bucket is full and stays: its oldest contact is pinged.
AddThenPing ==
    LET i == BucketFor(contact)
    IN  /\ pc = "add"
        /\ ~Accepts(buckets[i], contact)
        /\ ~ShouldSplit(buckets[i])
        /\ buckets' = [buckets EXCEPT ![i] = AddNode(@, contact)]
        /\ contact' = Head(buckets[i].nodes)
        /\ pc' = "ping"
        /\ UNCHANGED split

\* Every node goes to the lower half.
SplitMoveMutant ==
    /\ pc = "split" /\ split.todo # <<>>
    /\ split' = [split EXCEPT !.todo = Tail(@), !.one = AddNode(@, Head(split.todo))]
    /\ UNCHANGED <<buckets, pc, contact>>

\* One iteration of the loop of KBucket.split.
SplitMove ==
    LET n == Head(split.todo)
    IN  /\ pc = "split"
        /\ split.todo # <<>>
        /\ split' = IF n <= Mid(buckets[split.at])
                    THEN [split EXCEPT !.todo = Tail(@), !.one = AddNode(@, n)]
                    ELSE [split EXCEPT !.todo = Tail(@), !.two = AddNode(@, n)]
        /\ UNCHANGED <<buckets, pc, contact>>

\* The halves are computed and not stored.
SplitFinishMutant ==
    /\ pc = "split" /\ split.todo = <<>>
    /\ pc' = "add" /\ split' = NoSplit
    /\ UNCHANGED <<buckets, contact>>

\* split_bucket puts the halves in the place of the bucket; add_contact recurses.
SplitFinish ==
    /\ pc = "split"
    /\ split.todo = <<>>
    /\ buckets' = InsertAt(ReplaceAt(buckets, split.at, split.one), split.at + 1, split.two)
    /\ pc' = "add"
    /\ split' = NoSplit
    /\ UNCHANGED contact

\* The pinged head answered: wellcome_if_new finds it in its bucket, or adds it again.
PingAnswered ==
    /\ pc = "ping"
    /\ IF IsNewNode(contact)
       THEN pc' = "add" /\ UNCHANGED <<buckets, contact, split>>
       ELSE Idle /\ UNCHANGED buckets

\* The connection was refused: process_response removes the head.
PingFailed ==
    /\ pc = "ping"
    /\ buckets' = [buckets EXCEPT ![BucketFor(contact)] = RemoveNode(@, contact)]
    /\ Idle

\* ServerSession lets every other connection error out of add_contact.
PingRaised == pc = "ping" /\ Idle /\ UNCHANGED buckets

AddStep == AddAccepted \/ AddThenSplit \/ AddThenPing
SplitStep == SplitMove \/ SplitFinish
PingStep == PingAnswered \/ PingFailed \/ PingRaised

Next ==
    \/ \E n \in Ids : WellcomeIfNew(n) \/ RemoveContact(n)
    \/ AddStep
    \/ SplitStep
    \/ PingStep

Spec == Init /\ [][Next]_vars

\* The thread that runs add_contact is scheduled and its ping returns or raises.
Fairness == WF_vars(AddStep \/ SplitStep \/ PingStep)
FairSpec == Spec /\ Fairness

-----------------------------------------------------------------------------
(* Properties                                                              *)

\* Every variable has its type: RoutingTable.buckets is a list of KBucket.
TypeOK ==
    /\ buckets \in Seq(KBucket)
    /\ pc \in {"idle", "add", "split", "ping"}
    /\ contact \in Ids \cup {NoNode}
    /\ split \in [at : Nat, todo : Seq(Ids), one : KBucket, two : KBucket]

\* The buckets cover the identifier space without gap or overlap, in order, however
\* many splits add_contact makes; get_bucket_for relies on it.
RangesPartition ==
    /\ Len(buckets) >= 1
    /\ buckets[1].lo = 0
    /\ buckets[Len(buckets)].hi = IdBound
    /\ \A i \in DOMAIN buckets : buckets[i].lo <= buckets[i].hi
    /\ \A i \in 1..(Len(buckets) - 1) : buckets[i + 1].lo = buckets[i].hi + 1

\* A bucket never exceeds ksize contacts nor its replacement bound, lists nobody twice,
\* and keeps spares only while it is full, so that a removal is always made good
\* (add_node and remove_node, KBucket.split).
Distinct(s) == \A i, j \in 1..Len(s) : s[i] = s[j] => i = j

BucketWF(b) ==
    /\ Len(b.nodes) <= KSize
    /\ Len(b.replacement) <= MaxReplacement
    /\ Distinct(b.nodes)
    /\ Distinct(b.replacement)
    /\ ToSet(b.nodes) \cap ToSet(b.replacement) = {}
    /\ b.replacement # <<>> => Full(b)

BucketsWF == \A i \in DOMAIN buckets : BucketWF(buckets[i])

\* A node is listed in the bucket whose range it is in, or in the bucket just above when
\* it is the highest identifier of the one below (the exclusive bound of get_bucket_for),
\* and this server is never in its own table (wellcome_if_new).
Near(b, n) == n # Self /\ b.lo <= n + 1 /\ n <= b.hi

AllNear(b) == \A n \in ToSet(b.nodes) \cup ToSet(b.replacement) : Near(b, n)

ListedNearRange == \A i \in DOMAIN buckets : AllNear(buckets[i])

\* Every node a bucket lists, as contact or as replacement, is listed in the bucket
\* get_bucket_for returns for it, so it can be found again, refreshed and removed.
\* It fails for an identifier on a split midpoint (see LookupFindsContacts).
ListedWhereLookedUp ==
    \A i \in DOMAIN buckets :
        \A n \in ToSet(buckets[i].nodes) \cup ToSet(buckets[i].replacement) :
            BucketFor(n) = i

\* get_bucket_for returns the bucket a contact of the table is in: what its docstring
\* promises.  A contact whose identifier is the midpoint of a split stays in the lower
\* half (KBucket.split) and is looked up in the upper one (get_bucket_for).
LookupFindsContacts ==
    pc = "idle" =>
        \A n \in Contacts : n \in ToSet(buckets[BucketFor(n)].nodes)

\* The bucket around this server's own identifier never turns a contact away: after
\* add_contact it has no replacement nodes, because it is split for as long as it is full.
OwnBucketTakesAll ==
    pc = "idle" =>
        \A i \in DOMAIN buckets : HasInRange(buckets[i], Self) => buckets[i].replacement = <<>>

\* A contact leaves the table only when it itself failed to answer: neither a split nor
\* a newcomer displaces it (the halves take the contacts before the replacements).
ContactsKept ==
    [][\A n \in Contacts \ Contacts' :
           RemoveContact(n) \/ (PingFailed /\ contact = n)]_vars

\* add_contact returns: its recursion stops splitting and its ping ends.
AddReturns == pc # "idle" ~> pc = "idle"
=============================================================================
