----------------------------- MODULE SpiderCrawl -----------------------------
(***************************************************************************)
(* One crawl of the network (src/kade_drive/core/crawling.py): the heap of *)
(* the nearest peers seen, the rounds of calls to the alpha nearest that   *)
(* were not called yet, and what each kind of spider makes of a round's    *)
(* responses.  A peer is named by its XOR distance to the key looked up.   *)
(* Peers stop and restart at any moment, and a call may raise.             *)
(***************************************************************************)
EXTENDS Naturals, FiniteSets

CONSTANTS
    Peers,      \* nodes of the network, as distances to the key
    Self,       \* the node that crawls
    KSize,      \* size of the heap's visible part (ksize)
    Alpha,      \* peers called in a round (alpha)
    Methods,    \* the remote methods a crawl may call
    Values,     \* what a node may store under the key
    Nothing     \* None

AllMethods ==
    {"find_node", "find_value", "find_chunk_location", "delete", "confirm_integrity",
     "get_metadata_list"}

ASSUME PeersAssumption == Peers \subseteq Nat /\ IsFiniteSet(Peers) /\ Self \in Peers
ASSUME SizesAssumption == KSize \in Nat \ {0} /\ Alpha \in Nat \ {0}
ASSUME MethodsAssumption == Methods \subseteq AllMethods
\* None is no node, no value and no answer to the crawl.
ASSUME NothingAssumption ==
    /\ Nothing \notin Values \cup Peers
    /\ \A S \in SUBSET Peers \cup SUBSET Values : S # Nothing
    /\ Nothing \notin BOOLEAN

VARIABLES
    up,         \* nodes that accept connections
    copy,       \* what each node stores under the key
    contacts,   \* the contacts of Self's routing table
    method,     \* the method of this crawl (rpcmethod)
    heap,       \* NodeHeap.heap
    contacted,  \* NodeHeap.contacted
    last,       \* last_ids_crawled
    todo,       \* peers left to call in this round
    responses,  \* response_dict
    pc,
    result,
    silent,     \* history: peers whose call returned None
    removed,    \* history: peers ever removed from the heap
    seen        \* history: peers ever pushed onto the heap

world == <<up, copy, contacts>>
crawl == <<method, heap, contacted, last, todo, responses, pc, result>>
history == <<silent, removed, seen>>
vars == <<world, crawl, history>>

-----------------------------------------------------------------------------
(* NodeHeap                                                                *)

Nearest(S, k) == {n \in S : Cardinality({m \in S : m < n}) < k}

Farthest(n, S) == \A m \in S : m <= n
Closest(n, S) == n \in S /\ \A m \in S : n <= m

\* The heap as iterated over: its ksize nearest nodes.
Visible(h) == Nearest(h, KSize)

Uncontacted(h) == Visible(h) \ contacted

\* The heap is cut to its visible size.
PushMutant(h, nodes) == Visible(h \cup nodes)

Push(h, nodes) == h \cup nodes

Remove(h, nodes) == h \ nodes

-----------------------------------------------------------------------------
(* Responses                                                               *)

Copy == [value : Values, integrity : BOOLEAN]

NoResponse == [kind |-> "none"]
NodeList(S) == [kind |-> "nodes", nodes |-> S]
Value(v) == [kind |-> "value", value |-> v]

\* RPCFindResponse.happened: None and the empty list are false.
Happened(r) == r.kind = "value" \/ (r.kind = "nodes" /\ r.nodes # {})

HasValue(r) == r.kind = "value"

Responding == {p \in DOMAIN responses : Happened(responses[p])}
NotResponding == DOMAIN responses \ Responding
WithValue == {p \in DOMAIN responses : HasValue(responses[p])}
Found == {responses[p].value : p \in WithValue}
NodesFound == UNION {responses[p].nodes : p \in Responding \ WithValue}

\* PersistentStorage.contains
Contains(p) == copy[p] # Nothing /\ copy[p].integrity

\* rpc_find_node: find_neighbors of the callee's table, at most ksize of them.
NodeLists(p) == {NodeList(S) : S \in {S \in SUBSET (Peers \ {p}) : Cardinality(S) <= KSize}}

\* What the callee may answer.
Answers(p) ==
    CASE method = "find_node" -> NodeLists(p)
      [] method = "find_value" -> IF Contains(p) THEN {Value(copy[p].value)} ELSE NodeLists(p)
      [] method = "find_chunk_location" -> IF Contains(p) THEN {Value(p)} ELSE NodeLists(p)
      [] method \in {"delete", "confirm_integrity"} -> {Value(TRUE), Value(FALSE)}
      [] method = "get_metadata_list" ->
            {Value(IF Contains(p) THEN {copy[p].value} ELSE {})}

\* What the handler leaves stored at the callee when it returns.
Stored(p, r) ==
    IF method \in {"delete", "confirm_integrity"} /\ r = Value(TRUE) /\ copy[p] # Nothing
    THEN [copy EXCEPT ![p] = IF method = "delete" THEN Nothing ELSE [@ EXCEPT !.integrity = TRUE]]
    ELSE copy

\* A delete marks the metadata as not confirmed before it removes it, and may raise between.
MarkedOnly(p) ==
    IF method = "delete" /\ copy[p] # Nothing
    THEN [copy EXCEPT ![p] = [@ EXCEPT !.integrity = FALSE]]
    ELSE copy

-----------------------------------------------------------------------------
(* SpiderCrawl                                                             *)

NoResponses == [p \in {} |-> NoResponse]

\* A crawl starts from what find_neighbors returned, at most ksize contacts.
Init ==
    /\ up = Peers
    /\ method \in Methods
    /\ copy \in [Peers -> Copy \cup {Nothing}]
    /\ Cardinality({p \in Peers : copy[p] # Nothing}) <= KSize
    /\ method = "find_node" => \A p \in Peers : copy[p] = Nothing
    /\ contacts \in SUBSET (Peers \ {Self})
    /\ heap \in SUBSET contacts \ {{}}
    /\ Cardinality(heap) <= KSize
    /\ contacted = {}
    /\ last = {}
    /\ todo = {}
    /\ responses = NoResponses
    /\ pc = "round"
    /\ result = Nothing
    /\ silent = {}
    /\ removed = {}
    /\ seen = heap

\* _find up to its loop: alpha peers, or all of them when the last round brought no change.
StartRound ==
    /\ pc = "round"
    /\ last' = Visible(heap)
    /\ todo' = Nearest(Uncontacted(heap), IF last' = last THEN Cardinality(last') ELSE Alpha)
    /\ responses' = NoResponses
    /\ pc' = "call"
    /\ UNCHANGED <<world, method, heap, contacted, result, history>>

\* An answered call is not marked.
RespondedMutant(p, r) ==
    /\ responses' = [q \in DOMAIN responses \cup {p} |-> IF q = p THEN r ELSE responses[q]]
    /\ todo' = todo \ {p}
    /\ contacted' = IF Happened(r) THEN contacted ELSE contacted \cup {p}
    /\ UNCHANGED <<up, method, heap, last, pc, result, removed, seen>>

\* The response is kept and the peer marked as contacted.
Responded(p, r) ==
    /\ responses' = [q \in DOMAIN responses \cup {p} |-> IF q = p THEN r ELSE responses[q]]
    /\ todo' = todo \ {p}
    /\ contacted' = contacted \cup {p}
    /\ UNCHANGED <<up, method, heap, last, pc, result, removed, seen>>

\* This node becomes a contact of itself.
CallAnsweredMutant(p) ==
    /\ pc = "call" /\ Closest(p, todo)
    /\ p \in up
    /\ \E r \in Answers(p) : Responded(p, r) /\ copy' = Stored(p, r)
    /\ contacts' \in {contacts, contacts \cup {p}}
    /\ UNCHANGED silent

\* The call returns.  process_response lets the routing table know the peer, which a
\* full bucket may refuse.
CallAnswered(p) ==
    /\ pc = "call" /\ Closest(p, todo)
    /\ p \in up
    /\ \E r \in Answers(p) : Responded(p, r) /\ copy' = Stored(p, r)
    /\ contacts' \in {contacts, contacts \cup ({p} \ {Self})}
    /\ UNCHANGED silent

\* The connection failed: the response is None and the routing table forgets the peer.
CallFailed(p) ==
    /\ pc = "call" /\ Closest(p, todo)
    /\ p \notin up
    /\ Responded(p, NoResponse)
    /\ contacts' = contacts \ {p}
    /\ silent' = silent \cup {p}
    /\ UNCHANGED copy

\* The connection breaks, or times out, during the call: the exception ends the crawl,
\* whether the callee had run the handler, a part of it, or nothing.
CallRaised(p) ==
    /\ pc = "call" /\ Closest(p, todo)
    /\ \E r \in Answers(p) : copy' \in {copy, MarkedOnly(p), Stored(p, r)}
    /\ pc' = "raised"
    /\ UNCHANGED <<up, contacts, method, heap, contacted, last, todo, responses, result, history>>

\* The heap when the responses of the round are in: nodes are pushed, then removed.
NextHeap == Remove(Push(heap, NodesFound), NotResponding)

\* A round of the spider that returns `answer` if it is finished.
RoundDone(finished, answer) ==
    /\ heap' = NextHeap
    /\ seen' = seen \cup NodesFound
    /\ removed' = removed \cup NotResponding
    /\ IF finished
       THEN pc' = "done" /\ result' = answer
       ELSE pc' = "round" /\ UNCHANGED result
    /\ UNCHANGED <<world, method, contacted, last, todo, responses, silent>>

RoundOf(methods) == pc = "call" /\ todo = {} /\ method \in methods

HaveContactedAll == Uncontacted(NextHeap) = {}

\* NodeSpiderCrawl._nodes_found
NodesFoundByNodeSpider ==
    /\ RoundOf({"find_node"})
    /\ RoundDone(HaveContactedAll, Visible(NextHeap))

\* The most common value; of several, the one the nearest peer answered.
Supporters(v) == {p \in WithValue : responses[p].value = v}
MostCommon(v) ==
    \A w \in Found \ {v} :
        \/ Cardinality(Supporters(v)) > Cardinality(Supporters(w))
        \/ /\ Cardinality(Supporters(v)) = Cardinality(Supporters(w))
           /\ \E p \in Supporters(v) : \A q \in Supporters(w) : p < q

\* The values are looked at when nobody is left to ask.
NodesFoundByValueSpiderMutant ==
    /\ RoundOf({"find_value"})
    /\ RoundDone(HaveContactedAll,
                 IF Found = {} THEN Nothing ELSE CHOOSE v \in Found : MostCommon(v))

\* ValueSpiderCrawl._nodes_found and _handle_found_values
NodesFoundByValueSpider ==
    /\ RoundOf({"find_value"})
    /\ RoundDone(Found # {} \/ HaveContactedAll,
                 IF Found = {} THEN Nothing ELSE CHOOSE v \in Found : MostCommon(v))

\* ChunkLocationSpiderCrawl._nodes_found
NodesFoundByLocationSpider ==
    /\ RoundOf({"find_chunk_location"})
    /\ RoundDone(Found # {} \/ HaveContactedAll, IF Found = {} THEN Nothing ELSE Found)

\* The peers that did not answer are not counted.
NodesFoundByAllSpiderMutant ==
    /\ RoundOf({"delete", "confirm_integrity"})
    /\ RoundDone(Found # {} \/ HaveContactedAll,
                 IF Found = {} THEN Nothing ELSE \A v \in Found : v = TRUE)

\* DeleteSpiderCrawl and ConfirmIntegritySpiderCrawl: a peer that did not answer counts
\* as a None among the found values, and None is false.
NodesFoundByAllSpider ==
    LET found == Found \cup (IF NotResponding = {} THEN {} ELSE {Nothing})
    IN  /\ RoundOf({"delete", "confirm_integrity"})
        /\ RoundDone(found # {} \/ HaveContactedAll,
                     IF found = {} THEN Nothing ELSE \A v \in found : v = TRUE)

\* LsSpiderCrawl: the union of the lists, or another round if it is empty.
NodesFoundByLsSpider ==
    LET found == UNION Found
    IN  /\ RoundOf({"get_metadata_list"})
        /\ RoundDone(found # {} \/ HaveContactedAll, IF found = {} THEN Nothing ELSE found)

\* A node other than this one stops, or starts again with what it has on disk.
Stop(p) ==
    /\ p \in up \ {Self}
    /\ up' = up \ {p}
    /\ UNCHANGED <<copy, contacts, crawl, history>>

Restart(p) ==
    /\ p \in Peers \ up
    /\ up' = up \cup {p}
    /\ UNCHANGED <<copy, contacts, crawl, history>>

RoundStep ==
    \/ StartRound
    \/ \E p \in todo : CallAnswered(p) \/ CallFailed(p) \/ CallRaised(p)
    \/ NodesFoundByNodeSpider
    \/ NodesFoundByValueSpider
    \/ NodesFoundByLocationSpider
    \/ NodesFoundByAllSpider
    \/ NodesFoundByLsSpider

Next == RoundStep \/ \E p \in Peers : Stop(p) \/ Restart(p)

Spec == Init /\ [][Next]_vars

\* The crawling thread runs; rpyc ends a call that hangs by raising after 30 seconds.
FairSpec == Spec /\ WF_vars(RoundStep)

-----------------------------------------------------------------------------
(* Properties                                                              *)

\* What a finished crawl returns, besides None.
Results ==
    CASE method = "find_node" -> SUBSET Peers
      [] method = "find_value" -> Values
      [] method = "find_chunk_location" -> SUBSET Peers
      [] method \in {"delete", "confirm_integrity"} -> BOOLEAN
      [] method = "get_metadata_list" -> SUBSET Values

\* Every variable has its type.
TypeOK ==
    /\ up \subseteq Peers
    /\ copy \in [Peers -> Copy \cup {Nothing}]
    /\ contacts \subseteq Peers \ {Self}
    /\ method \in Methods
    /\ heap \subseteq Peers
    /\ contacted \subseteq Peers
    /\ last \subseteq Peers
    /\ todo \subseteq Peers
    /\ DOMAIN responses \subseteq Peers
    /\ pc \in {"round", "call", "done", "raised"}
    /\ result # Nothing => result \in Results
    /\ silent \subseteq Peers
    /\ removed \subseteq Peers
    /\ seen \subseteq Peers

\* A node crawl returns the ksize nearest of all the peers any answer named, but for
\* those it removed for not responding: a peer hidden behind nearer ones comes back when
\* these are removed (the heap keeps more than it shows).
NearestReturned ==
    pc = "done" /\ method = "find_node" =>
        \A n \in seen \ (result \cup removed) :
            Cardinality(result) = KSize /\ \A m \in result : m < n

\* get answers None only when none of the peers that answered had the value confirmed.
MissedOnlyIfNotHeld ==
    pc = "done" /\ method \in {"find_value", "find_chunk_location"} /\ result = Nothing =>
        \A p \in contacted \ silent : ~Contains(p)

\* True from a crawl of delete or confirm_integrity: every peer called, also one that
\* stopped during the crawl, did what it was asked.
TrueMeansDone ==
    pc = "done" /\ method \in {"delete", "confirm_integrity"} /\ result = TRUE =>
        \A p \in contacted :
            copy[p] = Nothing \/ (method = "confirm_integrity" /\ copy[p].integrity)

\* The crawl ends, however its peers stop, restart and answer.
CrawlEnds == pc \in {"round", "call"} ~> pc \in {"done", "raised"}

\* A peer is dropped from the heap only if it did not respond: the docstring of
\* RPCFindResponse.happened asks "Did the other host actually respond?".
RemovedDidNotRespond == removed \subseteq silent

\* A node crawl returns no peer whose call failed: set_digest would call it again.
ReturnedAnswered == pc = "done" /\ method = "find_node" => result \cap silent = {}

\* After a delete that returned true nobody has the file: "Deletes a file from the network".
DeletedFromNetwork ==
    pc = "done" /\ method = "delete" /\ result = TRUE => \A p \in up : ~Contains(p)

\* ls returns the files of all the nodes: "returns a list of all files in the system".
ListsTheSystem ==
    pc = "done" /\ method = "get_metadata_list" =>
        \A p \in up : Contains(p) => result # Nothing /\ copy[p].value \in result
=============================================================================
