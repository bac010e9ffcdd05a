----------------------------- MODULE Membership -----------------------------
(***************************************************************************)
(* How servers find and forget each other: start_server with the broadcast *)
(* it may hear, Server.bootstrap, the _detect_alone thread, the calls of   *)
(* crawls through process_response, and what a server that is stopped,     *)
(* started again or cut off does to the tables                             *)
(* (src/kade_drive/server.py, core/network.py, core/protocol.py).          *)
(* A contact is an id at an address.  A server has its address for good    *)
(* and takes a new random id whenever it starts, so a table may hold an id *)
(* nobody has any more at an address where somebody answers.               *)
(* Who is crawled.  _detect_alone looks into a bucket every 15 seconds and *)
(* so keeps it from the refresh of buckets untouched for 20 (network.py:   *)
(* 382-391, routing.py:112, :173-179).  While there is one bucket only the *)
(* lookups of stored keys are sure to call the contacts: those of the      *)
(* refresh thread of a server that keeps a record (network.py:317-328).    *)
(* Abstracted: the distances.  Any contact may be named, and crawls are    *)
(* split into single calls; of a table that has been split the model says  *)
(* neither in which bucket a contact is nor whether there is room for it   *)
(* (RoutingTable does), and promises nothing.                              *)
(***************************************************************************)
EXTENDS Naturals, FiniteSets

CONSTANTS
    Servers,    \* addresses
    Nobody,     \* no address
    Met,        \* the servers that run and know each other at first
    Keepers,    \* the servers that keep a record on disk throughout
    KSize,      \* the contacts of one bucket
    MaxFaults   \* bound: servers stopped and times the network is cut in two

ASSUME ServersAssumption ==
    IsFiniteSet(Servers) /\ Nobody \notin Servers /\ Met \subseteq Servers /\ Keepers \subseteq Servers
ASSUME KSizeAssumption == KSize \in Nat \ {0} /\ Cardinality(Met) <= KSize + 1
ASSUME BoundsAssumption == MaxFaults \in Nat

VARIABLES
    up,         \* the servers that run
    starts,     \* how often each has started: with its address this is its id
    table,      \* the contacts of each server, its spares, whether it was split
    hint,       \* the address each thread that bootstraps has received and not used yet
    detect,     \* what the _detect_alone thread of each server does
    refresh,    \* its _refresh_table thread lives
    side,       \* the smaller side of the network when it is cut
    faults

vars == <<up, starts, table, hint, detect, refresh, side, faults>>

Threads == {"start", "detect"}

Ids == Servers \X (1..(MaxFaults + 1))
Home(i) == i[1]
IdOf(s) == <<s, starts[s]>>
Known(s) == {Home(i) : i \in table[s].nodes}

Tables == [nodes : SUBSET Ids, spares : SUBSET Ids, split : BOOLEAN]
Empty == [nodes |-> {}, spares |-> {}, split |-> FALSE]

\* add_contact: the one bucket has room or is split; then i is a contact or a spare.
Added(r, i) ==
    IF i \in r.nodes THEN {r}
    ELSE IF ~r.split /\ Cardinality(r.nodes) < KSize THEN {[r EXCEPT !.nodes = @ \cup {i}]}
    ELSE {[r EXCEPT !.nodes = @ \cup {i}, !.split = TRUE],
          [r EXCEPT !.spares = @ \cup {i}, !.split = TRUE]}

\* remove_contact: a spare of the bucket, if there is one, takes the place.
Removed(r, i) ==
    LET left == [r EXCEPT !.nodes = @ \ {i}, !.spares = @ \ {i}]
    IN  {left} \cup {[left EXCEPT !.nodes = @ \cup {j}, !.spares = @ \ {j}] : j \in left.spares}

\* Servers on different sides cannot call each other.
Reachable(s, p) == s \in side <=> p \in side
Answers(s, p) == p \in up /\ Reachable(s, p)

-----------------------------------------------------------------------------
(* Actions                                                                 *)

Init ==
    /\ up = Met
    /\ starts = [s \in Servers |-> IF s \in Met THEN 1 ELSE 0]
    /\ table = [s \in Servers |->
                   IF s \in Met THEN [Empty EXCEPT !.nodes = (Met \ {s}) \X {1}] ELSE Empty]
    /\ hint = [t \in Threads |-> [s \in Servers |-> Nobody]]
    /\ detect = [s \in Servers |-> IF s \in Met THEN "looks" ELSE "ended"]
    /\ refresh = [s \in Servers |-> s \in Met]
    /\ side = {}
    /\ faults = 0

\* start_server: it waits for one broadcast, which it may miss, and starts its threads.
Start(s) ==
    /\ s \notin up
    /\ up' = up \cup {s}
    /\ starts' = [starts EXCEPT ![s] = @ + 1]
    /\ \E p \in {q \in Servers : Answers(s, q)} \cup {Nobody} : hint' = [hint EXCEPT !["start"][s] = p]
    /\ detect' = [detect EXCEPT ![s] = "looks"]
    /\ refresh' = [refresh EXCEPT ![s] = TRUE]
    /\ UNCHANGED <<table, side, faults>>

\* The thread sleeps while the server is alone.
DetectAloneMutant(s) ==
    /\ s \in up /\ detect[s] = "looks"
    /\ table[s].nodes # {} /\ table[s].split
    /\ detect' = [detect EXCEPT ![s] = "listens"]
    /\ UNCHANGED <<up, starts, table, hint, refresh, side, faults>>

\* _detect_alone finds no neighbor of one id: there is no contact, or the traversal of a
\* split table stops before it comes to one.
DetectAlone(s) ==
    /\ s \in up /\ detect[s] = "looks"
    /\ table[s].nodes = {} \/ table[s].split
    /\ detect' = [detect EXCEPT ![s] = "listens"]
    /\ UNCHANGED <<up, starts, table, hint, refresh, side, faults>>

\* It waits for the broadcast of another, asleep over its own; by then the server may have
\* contacts.
Hear(s) ==
    /\ s \in up /\ detect[s] = "listens"
    /\ \E p \in {q \in Servers \ {s} : Answers(s, q)} : hint' = [hint EXCEPT !["detect"][s] = p]
    /\ detect' = [detect EXCEPT ![s] = "looks"]
    /\ UNCHANGED <<up, starts, table, refresh, side, faults>>

\* bootstrap: the ping names the caller's address, so both sides add the other; a crawl
\* then calls the contacts of the one pinged.  An address that refuses leaves nothing.
\* One that cannot be reached raises, and so does a call of the crawl during which the
\* callee goes; that ends the thread.
Bootstrap(t, s) ==
    LET p == hint[t][s]
    IN  /\ s \in up /\ p # Nobody
        /\ IF Answers(s, p)
           THEN \E mine \in Added(table[s], IdOf(p)), its \in Added(table[p], IdOf(s)) :
                    table' = [table EXCEPT ![s] = mine, ![p] = its]
           ELSE table' = table
        /\ hint' = [hint EXCEPT ![t][s] = Nobody]
        /\ \E raises \in BOOLEAN :
              /\ ~Reachable(s, p) => raises
              /\ raises => \E q \in {p} \cup Known(p) : ~Answers(s, q)
              /\ detect' = [detect EXCEPT ![s] = IF t = "detect" /\ raises THEN "ended" ELSE @]
        /\ UNCHANGED <<up, starts, refresh, side, faults>>

\* A contact that does not answer is kept.
ForgetMutant(s, i) ==
    /\ s \in up /\ i \in table[s].nodes
    /\ ~Answers(s, Home(i))
    /\ UNCHANGED vars

\* A crawl cannot connect to the contact i: process_response removes it.
Forget(s, i) ==
    /\ s \in up /\ i \in table[s].nodes
    /\ ~Answers(s, Home(i))
    /\ \E r \in Removed(table[s], i) : table' = [table EXCEPT ![s] = r]
    /\ UNCHANGED <<up, starts, hint, detect, refresh, side, faults>>

\* A server adds itself.
LearnMutant(s, i, j) ==
    /\ s \in up /\ i \in table[s].nodes
    /\ Answers(s, Home(i)) /\ j \in table[Home(i)].nodes
    /\ Answers(s, Home(j)) /\ j \notin table[s].nodes
    /\ \E r \in Added(table[s], j) : table' = [table EXCEPT ![s] = r]
    /\ UNCHANGED <<up, starts, hint, detect, refresh, side, faults>>

\* What a contact names is added before it has answered.
UnaskedLearnMutant(s, i, j) ==
    /\ s \in up /\ i \in table[s].nodes
    /\ Answers(s, Home(i)) /\ j \in table[Home(i)].nodes
    /\ Home(j) # s /\ j \notin table[s].nodes
    /\ \E r \in Added(table[s], j) : table' = [table EXCEPT ![s] = r]
    /\ UNCHANGED <<up, starts, hint, detect, refresh, side, faults>>

\* The contact i answers with the id j.  Whoever answers at its address, j is added.  The
\* servers called do not learn of the caller: the stubs name the address of the callee.
Learn(s, i, j) ==
    /\ s \in up /\ i \in table[s].nodes
    /\ Answers(s, Home(i)) /\ j \in table[Home(i)].nodes
    /\ Answers(s, Home(j)) /\ Home(j) # s /\ j \notin table[s].nodes
    /\ \E r \in Added(table[s], j) : table' = [table EXCEPT ![s] = r]
    /\ UNCHANGED <<up, starts, hint, detect, refresh, side, faults>>

\* A contact goes while find_replicas looks for the replicas of a record: the exception ends
\* _refresh_table.
RefreshEnds(s) ==
    /\ s \in up \cap Keepers /\ refresh[s]
    /\ \E p \in Known(s) : ~Answers(s, p)
    /\ refresh' = [refresh EXCEPT ![s] = FALSE]
    /\ UNCHANGED <<up, starts, table, hint, detect, side, faults>>

\* The process is killed.
Stop(s) ==
    /\ s \in up /\ faults < MaxFaults
    /\ up' = up \ {s}
    /\ table' = [table EXCEPT ![s] = Empty]
    /\ hint' = [t \in Threads |-> [hint[t] EXCEPT ![s] = Nobody]]
    /\ detect' = [detect EXCEPT ![s] = "ended"]
    /\ refresh' = [refresh EXCEPT ![s] = FALSE]
    /\ faults' = faults + 1
    /\ UNCHANGED <<starts, side>>

Cut ==
    /\ side = {} /\ faults < MaxFaults
    /\ side' \in {S \in SUBSET Servers : S # {} /\ 2 * Cardinality(S) <= Cardinality(Servers)}
    /\ faults' = faults + 1
    /\ UNCHANGED <<up, starts, table, hint, detect, refresh>>

Heal ==
    /\ side # {}
    /\ side' = {}
    /\ UNCHANGED <<up, starts, table, hint, detect, refresh, faults>>

Next ==
    \/ \E s \in Servers :
          \/ Start(s) \/ DetectAlone(s) \/ Hear(s) \/ RefreshEnds(s) \/ Stop(s)
          \/ \E t \in Threads : Bootstrap(t, s)
          \/ \E i \in Ids : Forget(s, i) \/ \E j \in Ids : Learn(s, i, j)
    \/ Cut \/ Heal

Spec == Init /\ [][Next]_vars

\* A refresh thread that lives looks up each stored key in every round, and with one bucket
\* that calls every contact.
Crawled(s) == s \in Keepers /\ refresh[s] /\ ~table[s].split

\* Heartbeats are sent for ever and threads run.  Of what a server learns nothing is assumed:
\* a contact names its ksize nearest to the key looked up, always the same ones perhaps.
FairSpec ==
    /\ Spec
    /\ \A s \in Servers :
          /\ WF_vars(table[s].nodes = {} /\ DetectAlone(s)) /\ WF_vars(Hear(s))
          /\ \A t \in Threads : WF_vars(Bootstrap(t, s))
          /\ \A i \in Ids : WF_vars(Crawled(s) /\ Forget(s, i))

-----------------------------------------------------------------------------
(* Properties                                                              *)

\* Every variable has its type; the ids in a table are ids that other servers have taken, and
\* a server that does not run has none.
TypeOK ==
    /\ up \subseteq Servers /\ side \subseteq Servers
    /\ starts \in [Servers -> 0..(MaxFaults + 1)]
    /\ table \in [Servers -> Tables]
    /\ \A s \in Servers :
          /\ s \notin up => table[s] = Empty
          /\ \A i \in table[s].nodes \cup table[s].spares :
                Home(i) # s /\ i[2] <= starts[Home(i)]
    /\ hint \in [Threads -> [Servers -> Servers \cup {Nobody}]]
    /\ detect \in [Servers -> {"looks", "listens", "ended"}]
    /\ refresh \in [Servers -> BOOLEAN]
    /\ faults \in 0..MaxFaults

\* A server without contacts gets one for as long as its _detect_alone thread lives and
\* another server can be reached, whoever stops, restarts or is cut off meanwhile
\* (network.py:379-416).
AloneEnds ==
    \A s \in Servers :
        []<>(\/ s \notin up \/ detect[s] = "ended"
             \/ table[s].nodes # {}
             \/ \A p \in Servers \ {s} : ~Answers(s, p))

\* A server that keeps a record forgets whoever stays stopped or cut off, as long as its
\* refresh thread lives and its table has not been split (network.py:317-328,
\* protocol.py:316-326).
Forgotten == <>[](\A s \in up : Crawled(s) => \A p \in Known(s) : Answers(s, p))

\* Such a server does not end up with contacts that are all gone while others run: it forgets
\* them, finds itself alone, hears of another and joins it.
Linked ==
    <>[](\A s \in up :
            /\ Crawled(s) /\ detect[s] # "ended"
            /\ \E p \in Servers \ {s} : Answers(s, p)
            => \E p \in Known(s) : Answers(s, p))

\* The servers that run are one network: none are without a contact between them and the
\* rest.
OneNetwork ==
    \A S \in SUBSET up \ {{}, up} :
        \E s \in S, p \in up \ S : p \in Known(s) \/ s \in Known(p)

\* "over time, all nodes will converge to the same state. Nodes periodically exchange
\* information and update their routing tables" (docs/cap-analysis): servers that stay up
\* end up in one network.
Joined == <>[](up = Servers => OneNetwork)

\* "Nodes that had the failed node in their routing table update that entry by removing it"
\* (docs/fault-tolerance).  While _detect_alone looks on, no refresh comes to the bucket.
FailedRemoved ==
    <>[](\A s \in up : refresh[s] /\ detect[s] = "looks" => \A p \in Known(s) : Answers(s, p))

\* The same when it was started again, under a new id.
EntryRemoved == <>[](\A s \in up : \A i \in table[s].nodes : i = IdOf(Home(i)))

\* No server is without a contact, and without the thread that would notice.
NobodyDeaf == [](\A s \in up : table[s].nodes # {} \/ detect[s] # "ended")
=============================================================================
