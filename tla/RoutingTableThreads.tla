------------------------- MODULE RoutingTableThreads -------------------------
(***************************************************************************)
(* The routing table as the threads of one server share it: rpyc's         *)
(* ThreadedServer runs a thread per connection, and the refresh and        *)
(* detect-alone threads crawl beside them.  No lock protects the table.  A *)
(* step is what a thread does between two reads or writes of shared state; *)
(* a KBucket is an object that a thread may still hold when the table has  *)
(* another in its place.                                                   *)
(***************************************************************************)
EXTENDS Naturals, FiniteSets, SequencesExt

CONSTANTS
    Ids, Self, IdBits, KSize, ReplacementFactor, DepthStep, NoNode,  \* as in RoutingTable
    Threads,
    MaxObjects      \* bound: no split is begun once so many buckets were created

ASSUME MaxObjectsAssumption == MaxObjects \in Nat
ASSUME ThreadsAssumption == IsFiniteSet(Threads)

VARIABLES
    objects,    \* the KBucket objects ever created
    order,      \* RoutingTable.buckets, as indices of objects
    at,         \* the statement each thread is about to execute
    node,       \* the node its call is about
    call,       \* the call it is in
    index,      \* the bucket index it looked up
    held,       \* the object it holds in the local `bucket`, or is splitting
    halves,     \* the locals of KBucket.split
    overwritten \* history: a split has put its lower half in the place of another bucket

vars == <<objects, order, at, node, call, index, held, halves, overwritten>>

\* RoutingTable.buckets
Table == [i \in DOMAIN order |-> objects[order[i]]]

RT == INSTANCE RoutingTable
        WITH buckets <- Table, pc <- "idle", contact <- NoNode, split <- <<>>

ASSUME TableAssumption ==
    /\ RT!IdBound \in Nat \ {0} /\ Ids \subseteq 0..(RT!IdBound - 1)
    /\ KSize \in Nat \ {0} /\ ReplacementFactor \in Nat \ {0}

Empty == RT!NewBucket(0, 0)
NoHalves == [read |-> <<>>, todo |-> <<>>, one |-> Empty, two |-> Empty]

Init ==
    /\ objects = <<RT!NewBucket(0, RT!IdBound)>>
    /\ order = <<1>>
    /\ at = [t \in Threads |-> "idle"]
    /\ node = [t \in Threads |-> NoNode]
    /\ call = [t \in Threads |-> "none"]
    /\ index = [t \in Threads |-> 0]
    /\ held = [t \in Threads |-> 0]
    /\ halves = [t \in Threads |-> NoHalves]
    /\ overwritten = FALSE

Goto(t, place) == at' = [at EXCEPT ![t] = place]

\* Thread t goes on with another call of the table about node n.
Calls(t, c, n) ==
    /\ call' = [call EXCEPT ![t] = c]
    /\ node' = [node EXCEPT ![t] = n]
    /\ index' = [index EXCEPT ![t] = 0]
    /\ held' = [held EXCEPT ![t] = 0]
    /\ halves' = [halves EXCEPT ![t] = NoHalves]
    /\ Goto(t, "lookup")

\* The call ends, by its return or by an exception.
Ends(t, place) ==
    /\ call' = [call EXCEPT ![t] = "none"]
    /\ node' = [node EXCEPT ![t] = NoNode]
    /\ index' = [index EXCEPT ![t] = 0]
    /\ held' = [held EXCEPT ![t] = 0]
    /\ halves' = [halves EXCEPT ![t] = NoHalves]
    /\ Goto(t, place)

Holds(t, b) == objects' = [objects EXCEPT ![held[t]] = b]

-----------------------------------------------------------------------------

\* wellcome_if_new, of a node that answered or pinged, or remove_contact.
Begin(t) ==
    /\ at[t] \in {"idle", "void"}
    /\ \E n \in Ids \ {Self}, c \in {"is_new_node", "remove_contact"} : Calls(t, c, n)
    /\ UNCHANGED <<objects, order>>

\* get_bucket_for, or its VoidNodeException.
Lookup(t) ==
    /\ at[t] = "lookup"
    /\ IF RT!HasBucket(node[t])
       THEN /\ index' = [index EXCEPT ![t] = RT!BucketFor(node[t])]
            /\ Goto(t, "fetch")
            /\ UNCHANGED <<node, call, held, halves>>
       ELSE Ends(t, "void")
    /\ UNCHANGED <<objects, order>>

\* self.buckets[index] of is_new_node
TestNew(t) ==
    /\ at[t] = "fetch" /\ call[t] = "is_new_node"
    /\ IF RT!IsNewIn(Table[index[t]], node[t])
       THEN Calls(t, "add_contact", node[t])
       ELSE Ends(t, "idle")
    /\ UNCHANGED <<objects, order>>

\* An emptied bucket is dropped from the table.
RemoveNodeStepMutant(t) ==
    /\ at[t] = "fetch" /\ call[t] = "remove_contact"
    /\ objects' = [objects EXCEPT ![order[index[t]]] = RT!RemoveNode(@, node[t])]
    /\ order' = IF Len(order) > 1 /\ objects'[order[index[t]]].nodes = <<>>
                THEN RemoveAt(order, index[t])
                ELSE order
    /\ Ends(t, "idle")

\* self.buckets[index].remove_node(node)
RemoveNodeStep(t) ==
    /\ at[t] = "fetch" /\ call[t] = "remove_contact"
    /\ objects' = [objects EXCEPT ![order[index[t]]] = RT!RemoveNode(@, node[t])]
    /\ Ends(t, "idle")
    /\ UNCHANGED order

\* bucket = self.buckets[index] of add_contact
Fetch(t) ==
    /\ at[t] = "fetch" /\ call[t] = "add_contact"
    /\ held' = [held EXCEPT ![t] = order[index[t]]]
    /\ Goto(t, "add")
    /\ UNCHANGED <<objects, order, node, call, index, halves>>

\* The length is not tested.
AddTestMutant(t) ==
    /\ at[t] = "add"
    /\ Goto(t, IF RT!IsNewIn(objects[held[t]], node[t]) THEN "insert" ELSE "refresh")
    /\ UNCHANGED <<objects, order, node, call, index, held, halves>>

\* The tests of add_node.
AddTest(t) ==
    LET b == objects[held[t]]
    IN  /\ at[t] = "add"
        /\ Goto(t, IF ~RT!IsNewIn(b, node[t]) THEN "refresh" ELSE IF RT!Full(b) THEN "spare" ELSE "insert")
        /\ UNCHANGED <<objects, order, node, call, index, held, halves>>

\* del self.nodes[node.id], or its KeyError when another thread removed the node.
AddRefresh(t) ==
    /\ at[t] = "refresh"
    /\ IF RT!IsNewIn(objects[held[t]], node[t])
       THEN Ends(t, "idle") /\ UNCHANGED objects
       ELSE /\ Holds(t, [objects[held[t]] EXCEPT !.nodes = RT!Without(@, node[t])])
            /\ Goto(t, "insert")
            /\ UNCHANGED <<node, call, index, held, halves>>
    /\ UNCHANGED order

\* self.nodes[node.id] = node
AddInsert(t) ==
    /\ at[t] = "insert"
    /\ Holds(t, [objects[held[t]] EXCEPT !.nodes = RT!SetKey(@, node[t])])
    /\ Ends(t, "idle")
    /\ UNCHANGED order

\* self.replacement_nodes[node.id] = node, cut to its bound
AddSpare(t) ==
    /\ at[t] = "spare"
    /\ Holds(t, [objects[held[t]] EXCEPT
                    !.replacement = RT!Newest(RT!AsNewest(@, node[t]), RT!MaxReplacement)])
    /\ Goto(t, "choose")
    /\ UNCHANGED <<order, node, call, index, held, halves>>

\* The bucket is to be split.
ChooseSplit(t) ==
    /\ at[t] = "choose"
    /\ RT!ShouldSplit(objects[held[t]])
    /\ Len(objects) < MaxObjects
    /\ Goto(t, "split")
    /\ UNCHANGED <<objects, order, node, call, index, held, halves>>

\* The head of the bucket is pinged: it answers, or it is removed.
ChoosePing(t) ==
    /\ at[t] = "choose"
    /\ objects[held[t]].nodes # <<>>
    /\ ~RT!ShouldSplit(objects[held[t]])
    /\ \E c \in {"is_new_node", "remove_contact"} : Calls(t, c, Head(objects[held[t]].nodes))
    /\ UNCHANGED <<objects, order>>

\* depth() of a bucket that another thread emptied, the ping of a node that hangs up, and
\* a recursion that splits without end raise.
ChooseRaises(t) ==
    LET b == objects[held[t]]
    IN  /\ at[t] = "choose"
        /\ \/ ~RT!HasInRange(b, Self) /\ (b.nodes = <<>> \/ ~RT!ShouldSplit(b))
           \/ RT!ShouldSplit(b) /\ Len(objects) >= MaxObjects
        /\ Ends(t, "idle")
        /\ UNCHANGED <<objects, order>>

\* The upper half ends below the end of the bucket.
SplitReadMutant(t) ==
    LET b == Table[index[t]]
    IN  /\ at[t] = "split"
        /\ held' = [held EXCEPT ![t] = order[index[t]]]
        /\ halves' = [halves EXCEPT ![t] =
                         [read |-> b.nodes, todo |-> b.nodes,
                          one |-> RT!StartSplit(0, b).one, two |-> [RT!StartSplit(0, b).two EXCEPT !.hi = @ - 1]]]
        /\ Goto(t, "contacts")
        /\ UNCHANGED <<objects, order, node, call, index>>

\* split_bucket reads self.buckets[index] again; KBucket.split starts to iterate over its
\* contacts.
SplitRead(t) ==
    LET b == Table[index[t]]
    IN  /\ at[t] = "split"
        /\ held' = [held EXCEPT ![t] = order[index[t]]]
        /\ halves' = [halves EXCEPT ![t] =
                         [read |-> b.nodes, todo |-> b.nodes,
                          one |-> RT!StartSplit(0, b).one, two |-> RT!StartSplit(0, b).two]]
        /\ Goto(t, "contacts")
        /\ UNCHANGED <<objects, order, node, call, index>>

Iterated(t) ==
    IF at[t] = "contacts" THEN objects[held[t]].nodes ELSE objects[held[t]].replacement

\* One iteration, which raises when another thread has changed the dictionary since; of a
\* change that was undone meanwhile, which raises too, the model takes no notice.
SplitMove(t) ==
    LET n == Head(halves[t].todo)
    IN  /\ at[t] \in {"contacts", "spares"}
        /\ halves[t].todo # <<>>
        /\ IF Iterated(t) # halves[t].read
           THEN Ends(t, "idle")
           ELSE /\ halves' = IF n <= RT!Mid(objects[held[t]])
                             THEN [halves EXCEPT ![t].todo = Tail(@), ![t].one = RT!AddNode(@, n)]
                             ELSE [halves EXCEPT ![t].todo = Tail(@), ![t].two = RT!AddNode(@, n)]
                /\ UNCHANGED <<at, node, call, index, held>>
        /\ UNCHANGED <<objects, order>>

\* The chain goes on with the replacement nodes, as they are by now.
SplitSpares(t) ==
    LET spares == objects[held[t]].replacement
    IN  /\ at[t] = "contacts"
        /\ halves[t].todo = <<>>
        /\ halves' = [halves EXCEPT ![t].read = spares, ![t].todo = spares]
        /\ Goto(t, "spares")
        /\ UNCHANGED <<objects, order, node, call, index, held>>

\* self.buckets[index] = one, with an index that may be of another bucket by now
SplitAssign(t) ==
    /\ at[t] = "spares"
    /\ halves[t].todo = <<>>
    /\ objects' = Append(objects, halves[t].one)
    /\ order' = [order EXCEPT ![index[t]] = Len(objects')]
    /\ overwritten' = (overwritten \/ order[index[t]] # held[t])
    /\ Goto(t, "splice")
    /\ UNCHANGED <<node, call, index, held, halves>>

\* self.buckets.insert(index + 1, two), then add_contact again
SplitInsert(t) ==
    /\ at[t] = "splice"
    /\ objects' = Append(objects, halves[t].two)
    /\ order' = InsertAt(order, index[t] + 1, Len(objects'))
    /\ Calls(t, "add_contact", node[t])

Step(t) ==
    \/ Lookup(t) \/ TestNew(t) \/ RemoveNodeStep(t) \/ Fetch(t)
    \/ AddTest(t) \/ AddRefresh(t) \/ AddInsert(t) \/ AddSpare(t)
    \/ ChooseSplit(t) \/ ChoosePing(t) \/ ChooseRaises(t)
    \/ SplitRead(t) \/ SplitMove(t) \/ SplitSpares(t) \/ SplitInsert(t)

Next == \E t \in Threads : SplitAssign(t) \/ ((Begin(t) \/ Step(t)) /\ UNCHANGED overwritten)

Spec == Init /\ [][Next]_vars

-----------------------------------------------------------------------------
(* Properties                                                              *)

Places == {"idle", "lookup", "fetch", "add", "refresh", "insert", "spare", "choose", "split",
           "contacts", "spares", "splice", "void"}

\* Unlike one thread alone, threads may split the range of a single identifier; the upper
\* half is then empty and begins above its end.
Bucket == [lo : 0..(RT!IdBound + 1), hi : 0..RT!IdBound, nodes : Seq(Ids), replacement : Seq(Ids)]

Locals == [read : Seq(Ids), todo : Seq(Ids), one : Bucket, two : Bucket]

\* Every variable has its type, and every index a thread holds is one of the table: the
\* table never shrinks.
TypeOK ==
    /\ objects \in Seq(Bucket)
    /\ order \in Seq(DOMAIN objects)
    /\ at \in [Threads -> Places]
    /\ node \in [Threads -> Ids \cup {NoNode}]
    /\ call \in [Threads -> {"none", "is_new_node", "remove_contact", "add_contact"}]
    /\ index \in [Threads -> 0..Len(order)]
    /\ held \in [Threads -> 0..Len(objects)]
    /\ halves \in [Threads -> Locals]
    /\ overwritten \in BOOLEAN

\* Between the two writes of split_bucket the upper half of a range is missing.
Splicing == \E t \in Threads : at[t] = "splice"

AllFound == \A n \in 0..(RT!IdBound - 1) : RT!HasBucket(n)

\* However the threads interleave, a lookup fails only in the gap between the two writes of
\* a split, until a split writes its lower half over a bucket that another split has moved
\* to its index (split_bucket).
FoundUnlessOverwritten == ~Splicing /\ ~overwritten => AllFound

\* Threads that test the length of a bucket at once overfill it by one contact each, and
\* never again by more: neither a removal that promotes a spare nor a split adds to it.
OverfilledByThreads ==
    \A b \in DOMAIN objects : Len(objects[b].nodes) <= KSize + Cardinality(Threads) - 1

\* The node a thread inserts is in the table: "If we get a response, add the node to the
\* routing table" (process_response).
AddedIsListed == [][\A t \in Threads : AddInsert(t) => node[t] \in RT!Contacts']_vars

\* A lookup fails in the gap of a split at most.  It fails for good when a second split of
\* the lower half of a bucket overwrites the upper half the first one has just inserted.
FoundOutsideGap == ~Splicing => AllFound

\* get_bucket_for finds a bucket: "we should never be here" (its comment).
NeverVoid == \A t \in Threads : at[t] # "void"

\* When no thread is in the table its ranges partition the space: "together cover the
\* entire 160-bit ID space without overlap" (description.md).
PartitionAtRest == (\A t \in Threads : at[t] = "idle") => RT!RangesPartition

\* "K is the number of entries in a bucket" (docstring of KBucket).
AtMostK == \A i \in DOMAIN order : Len(Table[i].nodes) <= KSize
=============================================================================
