----------------------------- MODULE Replication -----------------------------
(***************************************************************************)
(* The copies the servers keep of one key, and the threads that write,     *)
(* confirm, republish, trim, push and delete them: Server.set_digest,      *)
(* find_replicas, _refresh_table and delete_data_from_network of           *)
(* src/kade_drive/core/network.py, wellcome_if_new of protocol.py.  Nodes  *)
(* stop, restart with what is on their disk and a new identifier, and are  *)
(* partitioned; a remote call is a step.  Each server has a thread that    *)
(* serves a client, one that refreshes and one that greets a new node.     *)
(* Abstracted: a crawl finds the nearest nodes that can be reached when it *)
(* runs (SpiderCrawl is about what it really finds); any node may be new   *)
(* to any other's table (Membership is about the tables); storage          *)
(* operations are those of KeyStore (StorageFiles is about what they       *)
(* really are).                                                            *)
(***************************************************************************)
EXTENDS Naturals, FiniteSets

CONSTANTS
    Nodes,          \* the servers, named by the distance of their first identifier to the key
    Places,         \* the distances identifiers may have
    KSize,          \* replication factor (ksize)
    Values,
    Nothing,        \* None
    Left,           \* one side of a partition
    Ops,            \* the jobs the servers run
    MaxClock,       \* bound: the clock stops there
    MaxUploads,     \* bound: uploads begun
    MaxMeetings,    \* bound: new nodes greeted
    MaxFaults,      \* bound: crashes and partitions
    MaxJobs         \* bound: jobs that run at once

ASSUME NodesAssumption == Nodes \subseteq Places /\ Places \subseteq Nat
ASSUME KSizeAssumption == KSize \in Nat \ {0}
ASSUME OpsAssumption == Ops \subseteq {"upload", "republish", "trim", "delete", "push"}
ASSUME BoundsAssumption == MaxClock \in Nat /\ MaxUploads \in Nat /\ MaxMeetings \in Nat /\ MaxFaults \in Nat
                            /\ MaxJobs \in Nat

VARIABLES
    up,         \* the servers that run
    working,    \* whether no server's refresh thread has ended or is kept from its work
    place,      \* the distance of each server's identifier to the key
    split,      \* whether the network is partitioned
    clock,      \* seconds
    copy,       \* the record each server stores
    job,        \* the job each thread is in
    uploads,
    meetings,
    faults

environment == <<up, place, split, clock, uploads, meetings, faults>>
vars == <<environment, working, copy, job>>

Record == [value : Values \cup {Nothing}, integrity : BOOLEAN, stamp : 0..MaxClock]

\* None is no date and no record.
ASSUME NothingAssumption == Nothing \notin Values \cup 0..MaxClock /\ Nothing \notin Record

\* The servers n can connect to; its own port is one of them.
Reachable(n) == {m \in up : split => (n \in Left <=> m \in Left)}

Nearest(S, k) == {n \in S : Cardinality({m \in S : place[m] < place[n]}) < k}

First(S) == CHOOSE n \in S : \A m \in S : place[n] <= place[m]

\* NodeSpiderCrawl.find: the caller is among the nodes when another one knows it.
Crawls(n, k) == {Nearest(Reachable(n), k), Nearest(Reachable(n) \ {n}, k)}

\* The times are not compared.
NecessaryMutant(stamp, r) == stamp = Nothing \/ r = Nothing

\* A record of the same second is written over.
NecessaryTieMutant(stamp, r) == stamp = Nothing \/ r = Nothing \/ r.stamp <= stamp

\* it_is_necessary_to_write
Necessary(stamp, r) == stamp = Nothing \/ r = Nothing \/ r.stamp < stamp

\* An upload leaves the time open.
WrittenMutant(v, stamp) == [value |-> v, integrity |-> FALSE, stamp |-> stamp]

\* The record set_value builds.
Written(v, stamp) ==
    [value |-> v, integrity |-> FALSE, stamp |-> IF stamp = Nothing THEN clock ELSE stamp]

\* confirm_integrity of a file that does not exist does nothing.
Confirmed(r) == IF r = Nothing THEN Nothing ELSE [r EXCEPT !.integrity = TRUE]

\* What get answers of a record: None of one that is not confirmed.
Got(r) == IF r.integrity THEN r.value ELSE Nothing

Holders == {n \in Nodes : copy[n] # Nothing /\ Got(copy[n]) # Nothing}

-----------------------------------------------------------------------------
(* Jobs                                                                    *)

\* The three threads of each server.
Workers == Nodes \X {"client", "refresh", "greeting"}

Steps == {"none", "check", "store", "confirm", "crawl", "sweep"}

Job ==
    [op : {"idle", "upload", "republish", "trim", "delete", "push"},
     value : Values \cup {Nothing}, stamp : 0..MaxClock \cup {Nothing},
     todo : SUBSET Nodes, at : Nodes \cup {Nothing}, step : Steps, stored : BOOLEAN]

Doing(o, v, stamp) ==
    [op |-> o, value |-> v, stamp |-> stamp, todo |-> {}, at |-> Nothing, step |-> "none",
     stored |-> FALSE]

Idle == Doing("idle", Nothing, Nothing)

\* The job visits the nodes of S, the nearest first.
Visit(j, S, s) == [j EXCEPT !.todo = S, !.at = First(S), !.step = s]

MayBegin(w, o) ==
    /\ w[1] \in up /\ job[w] = Idle /\ o \in Ops
    /\ Cardinality({x \in Workers : job[x] # Idle}) < MaxJobs

Becomes(w, j) == job' = [job EXCEPT ![w] = j]

Target(w) == job[w].at
Reached(w) == Target(w) \in Reachable(w[1])

AtStep(w, s) == job[w].step = s /\ w[1] \in up

\* The job goes on with its next node; set_digest ends after the last one, and an upload
\* that stored somewhere is confirmed then.
NextNode(j) ==
    LET rest == j.todo \ {j.at}
    IN  IF rest # {}
        THEN Visit(j, rest, IF j.step = "sweep" THEN "sweep" ELSE "check")
        ELSE IF j.op = "upload" /\ j.step # "sweep" /\ j.stored
             THEN [j EXCEPT !.todo = {}, !.at = Nothing, !.step = "crawl"]
             ELSE Idle

Init ==
    /\ up \in SUBSET Nodes
    /\ working = TRUE
    /\ place = [n \in Nodes |-> n]
    /\ split = FALSE
    /\ clock = 0
    /\ copy = [n \in Nodes |-> Nothing]
    /\ job = [w \in Workers |-> Idle]
    /\ uploads = 0
    /\ meetings = 0
    /\ faults = 0

\* A client's upload: set_digest without a time of its own.  The server stores the value
\* itself when it is nearer than the farthest node found, or when it found none.
BeginUpload(n) ==
    LET w == <<n, "client">>
    IN  /\ MayBegin(w, "upload") /\ uploads < MaxUploads
        /\ \E v \in Values, found \in Crawls(n, KSize) :
              LET here == found = {} \/ \E m \in found : place[n] < place[m]
                  j == [Doing("upload", v, Nothing) EXCEPT !.stored = here]
              IN  /\ copy' = IF here THEN [copy EXCEPT ![n] = Written(v, Nothing)] ELSE copy
                  /\ Becomes(w, IF found = {} THEN [j EXCEPT !.step = "crawl"]
                                ELSE Visit(j, found, "check"))
        /\ uploads' = uploads + 1
        /\ UNCHANGED <<up, working, place, split, clock, meetings, faults>>

\* _refresh_table: a confirmed record with a value is set again with its own time, elsewhere.
BeginRepublish(n) ==
    LET w == <<n, "refresh">>
    IN  /\ MayBegin(w, "republish") /\ n \in Holders
        /\ \E found \in Crawls(n, KSize) \ {{}} :
              Becomes(w, Visit(Doing("republish", copy[n].value, copy[n].stamp), found, "check"))
        /\ UNCHANGED <<environment, working, copy>>

\* wellcome_if_new: what is stored is set again at a node that was not in the table, be it
\* confirmed or not; get answers None of what is not.
BeginPush(n) ==
    LET w == <<n, "greeting">>
    IN  /\ MayBegin(w, "push") /\ copy[n] # Nothing /\ meetings < MaxMeetings
        /\ \E m \in Reachable(n) \ {n} :
              Becomes(w, Visit(Doing("push", Got(copy[n]), copy[n].stamp), {m}, "check"))
        /\ meetings' = meetings + 1
        /\ UNCHANGED <<up, working, place, split, clock, uploads, faults, copy>>

\* find_replicas counts the nodes that answered call_contains, whose dict is true whatever
\* it says, and the nearest of them deletes what lies beyond ksize.
BeginTrim(n) ==
    LET w == <<n, "refresh">>
    IN  /\ MayBegin(w, "trim") /\ copy[n] # Nothing
        /\ \E found \in Crawls(n, 2 * KSize) :
              LET beyond == found \ Nearest(found, KSize)
              IN  /\ beyond # {}
                  /\ n = First(found)
                  /\ Becomes(w, Visit(Doing("trim", Nothing, Nothing), beyond, "sweep"))
        /\ UNCHANGED <<environment, working, copy>>

\* A client's delete: the own copy, then one round of DeleteSpiderCrawl.
BeginDelete(n) ==
    LET w == <<n, "client">>
        found == Nearest(Reachable(n) \ {n}, KSize)
    IN  /\ MayBegin(w, "delete")
        /\ copy' = [copy EXCEPT ![n] = Nothing]
        /\ Becomes(w, IF found = {} THEN Idle
                      ELSE Visit(Doing("delete", Nothing, Nothing), found, "sweep"))
        /\ UNCHANGED <<environment, working>>

\* call_check_if_new_value_exists: a node that refuses the connection is passed over.
Check(w) ==
    /\ AtStep(w, "check")
    /\ Becomes(w, IF Reached(w) /\ Necessary(job[w].stamp, copy[Target(w)])
                  THEN [job[w] EXCEPT !.step = "store"]
                  ELSE NextNode([job[w] EXCEPT !.stored = @ \/ Reached(w)]))
    /\ UNCHANGED <<environment, working, copy>>

\* call_store
Store(w) ==
    /\ AtStep(w, "store") /\ Reached(w)
    /\ copy' = [copy EXCEPT ![Target(w)] = Written(job[w].value, job[w].stamp)]
    /\ Becomes(w, IF job[w].op \in {"republish", "push"}
                  THEN [job[w] EXCEPT !.step = "confirm"]
                  ELSE NextNode([job[w] EXCEPT !.stored = TRUE]))
    /\ UNCHANGED <<environment, working>>

\* The store is not confirmed.
ConfirmStoredMutant(w) ==
    /\ AtStep(w, "confirm") /\ Reached(w)
    /\ Becomes(w, NextNode(job[w]))
    /\ UNCHANGED <<environment, working, copy>>

\* do_confirmation, wellcome_if_new: call_confirm_integrity right after the store
ConfirmStored(w) ==
    /\ AtStep(w, "confirm") /\ Reached(w)
    /\ copy' = [copy EXCEPT ![Target(w)] = Confirmed(@)]
    /\ Becomes(w, NextNode(job[w]))
    /\ UNCHANGED <<environment, working>>

\* A node that cannot be reached, or a connection lost between two calls, raises in
\* ServerSession: that ends the job, and the refresh thread with it where it trims, outside
\* its try.
Raises(w) ==
    /\ \/ AtStep(w, "check") \/ AtStep(w, "store") \/ AtStep(w, "confirm")
       \/ AtStep(w, "sweep") /\ job[w].op = "trim"
    /\ ~Reached(w)
    /\ Becomes(w, Idle)
    /\ working' = (working /\ job[w].op # "trim")
    /\ UNCHANGED <<environment, copy>>

\* confirm_integrity_of_data: the nearest contacts, which this server is not one of, or
\* the own storage when there is none.
BeginConfirm(w) ==
    /\ AtStep(w, "crawl")
    /\ LET found == Nearest(Reachable(w[1]) \ {w[1]}, KSize)
       IN  Becomes(w, Visit(job[w], IF found = {} THEN {w[1]} ELSE found, "sweep"))
    /\ UNCHANGED <<environment, working, copy>>

\* One node of a round that confirms or deletes; one that does not answer is passed over.
Sweep(w) ==
    /\ AtStep(w, "sweep")
    /\ copy' = IF Reached(w)
               THEN [copy EXCEPT ![Target(w)] = IF job[w].op = "upload" THEN Confirmed(@) ELSE Nothing]
               ELSE copy
    /\ Becomes(w, NextNode(job[w]))
    /\ UNCHANGED <<environment, working>>

Step(w) ==
    Check(w) \/ Store(w) \/ ConfirmStored(w) \/ Raises(w) \/ BeginConfirm(w) \/ Sweep(w)

-----------------------------------------------------------------------------
(* Storage, network and clock                                              *)

\* A republisher's or greeter's store and confirmation of n are less than a ttl apart.
BeingConfirmed(n) == \E w \in Workers : AtStep(w, "confirm") /\ Target(w) = n

\* Every record is cleaned that is ttl seconds old.
CleanMutant(n) ==
    /\ n \in up /\ copy[n] # Nothing /\ ~BeingConfirmed(n)
    /\ copy' = [copy EXCEPT ![n] = Nothing]
    /\ UNCHANGED <<environment, working, job>>

\* delete_corrupted_data of a record not confirmed for ttl seconds.
Clean(n) ==
    /\ n \in up /\ copy[n] # Nothing /\ ~copy[n].integrity /\ ~BeingConfirmed(n)
    /\ copy' = [copy EXCEPT ![n] = Nothing]
    /\ UNCHANGED <<environment, working, job>>

\* The jobs are lost, the disk is not.  A refresh thread that was calling the server ends
\* when find_replicas raises; a record half written may keep the server's own from
\* republishing or cleaning it.
Crash(n) ==
    /\ n \in up /\ faults < MaxFaults
    /\ up' = up \ {n}
    /\ faults' = faults + 1
    /\ working' \in {working, FALSE}
    /\ job' = [w \in Workers |-> IF w[1] = n THEN Idle ELSE job[w]]
    /\ UNCHANGED <<place, split, clock, uploads, meetings, copy>>

\* A server starts, for the first time or again, with an identifier of its own.
Start(n) ==
    /\ n \in Nodes \ up
    /\ up' = up \cup {n}
    /\ \E d \in Places \ {place[m] : m \in Nodes \ {n}} : place' = [place EXCEPT ![n] = d]
    /\ UNCHANGED <<working, split, clock, uploads, meetings, faults, copy, job>>

Partition ==
    /\ ~split /\ faults < MaxFaults
    /\ split' = TRUE
    /\ faults' = faults + 1
    /\ working' \in {working, FALSE}
    /\ UNCHANGED <<up, place, clock, uploads, meetings, copy, job>>

Heal ==
    /\ split
    /\ split' = FALSE
    /\ UNCHANGED <<up, working, place, clock, uploads, meetings, faults, copy, job>>

Tick ==
    /\ clock < MaxClock
    /\ clock' = clock + 1
    /\ UNCHANGED <<up, working, place, split, uploads, meetings, faults, copy, job>>

Next ==
    \/ \E n \in Nodes :
          \/ BeginUpload(n) \/ BeginRepublish(n) \/ BeginTrim(n) \/ BeginDelete(n) \/ BeginPush(n)
          \/ Clean(n) \/ Crash(n) \/ Start(n)
    \/ \E w \in Workers : Step(w)
    \/ Partition \/ Heal \/ Tick

Spec == Init /\ [][Next]_vars

\* Servers run their threads; _refresh_table cleans and republishes for ever while it works;
\* whoever stopped comes back and partitions end.
FairSpec ==
    /\ Spec
    /\ \A w \in Workers : WF_vars(Step(w))
    /\ \A n \in Nodes :
          /\ WF_vars(working /\ BeginRepublish(n))
          /\ WF_vars(working /\ Clean(n))
          /\ WF_vars(Start(n))
    /\ WF_vars(Heal)

-----------------------------------------------------------------------------
(* Properties                                                              *)

\* Every variable has its type.
TypeOK ==
    /\ up \subseteq Nodes
    /\ working \in BOOLEAN
    /\ place \in [Nodes -> Places]
    /\ split \in BOOLEAN
    /\ clock \in 0..MaxClock
    /\ copy \in [Nodes -> Record \cup {Nothing}]
    /\ job \in [Workers -> Job]
    /\ uploads \in 0..MaxUploads /\ meetings \in 0..MaxMeetings /\ faults \in 0..MaxFaults

\* The jobs that set a record with its own time.
Setting(w) == job[w].op \in {"republish", "push"}

\* No record and no job has a later second than the confirmed value of s, nothing is being
\* uploaded, and no thread that saw s without it is about to store there.
Newest(s) ==
    /\ s \in Holders
    /\ \A n \in Nodes : copy[n] # Nothing => copy[n].stamp <= copy[s].stamp
    /\ \A w \in Workers :
          /\ job[w].op = "upload" => job[w].step \in {"crawl", "sweep"}
          /\ Setting(w) => job[w].stamp <= copy[s].stamp
          /\ Setting(w) /\ job[w].step = "store" => Target(w) # s

NewestHeld == \E s \in Nodes : Newest(s)

\* A client uploads or deletes, or a server trims.
Commanded ==
    \/ \E n \in Nodes : BeginUpload(n) \/ BeginDelete(n)
    \/ \E w \in Workers : job[w].op \in {"trim", "delete"} /\ Sweep(w)

\* The newest value, once confirmed, stays confirmed somewhere until a client or a trim takes
\* it: neither republishing nor pushes of None, cleaning, crashes, restarts and partitions do.
NewestKept == [][NewestHeld /\ ~NewestHeld' => Commanded]_vars

\* n keeps a confirmed None that is not older than any value.
Masked(n) ==
    /\ copy[n] # Nothing /\ copy[n].integrity /\ copy[n].value = Nothing
    /\ \A m \in Holders : copy[m].stamp <= copy[n].stamp

\* The newest value is on all of the ksize nearest nodes but those that a push gave a None of
\* the same second.
Repaired == NewestHeld => \A n \in Nearest(Nodes, KSize) : n \in Holders \/ Masked(n)

Agree ==
    \A n, m \in Nearest(Nodes, KSize) \cap Holders : copy[n].value = copy[m].value

\* Two values of the same second that differ.
Tied ==
    \E n, m \in Holders : copy[n].stamp = copy[m].stamp /\ copy[n].value # copy[m].value

\* While the refresh threads work, the newest value, if it is kept (NewestKept says when it is),
\* comes back for good to the nearest nodes, and these end up with the same value unless two
\* were written in the same second.
Recovers == []working => <>[](Repaired /\ (Agree \/ Tied))

\* A value is confirmed somewhere, or a thread is about to confirm it.
Kept ==
    \/ Holders # {}
    \/ \E n \in Nodes : BeingConfirmed(n) /\ copy[n] # Nothing /\ copy[n].value # Nothing

\* Trimming deletes "until the replication factor is matched" (replication.md): it takes no
\* last confirmed record.
StaysKept == [][Holders # {} => Kept']_vars

\* What a push gives a new node is "all the keys/values it should be storing"
\* (protocol.py:217): it replaces no confirmed value by None.
PushKeepsValues ==
    [][\A w \in Workers :
           job[w].op = "push" /\ Store(w) /\ Target(w) \in Holders => job[w].value # Nothing]_vars

\* "over time, all nodes will converge to the same state" (cap-analysis.md)
Converges == <>[]Agree

\* A republished record replaces no newer one: "the most recently written values are
\* maintained after network recovery" (description.md).
NewerKept ==
    [][\A n \in Nodes :
           copy[n] # Nothing /\ copy'[n] # Nothing => copy'[n].stamp >= copy[n].stamp]_vars

\* What is trimmed leaves ksize replicas: "deleted from the farthest nodes until the
\* replication factor is matched" (replication.md).
TrimKeepsFactor ==
    [][\A w \in Workers :
           AtStep(w, "sweep") /\ job[w].op = "trim" /\ Sweep(w) /\ Target(w) \in Holders =>
               Cardinality(Holders') >= KSize]_vars

\* A job confirms the value it stored, not one another client has just uploaded: "Once it
\* is confirmed that all the chunks and metadata could be successfully stored, the
\* integrity of each chunk in the network is verified" (description.md).
ConfirmsItsOwn ==
    [][\A w \in Workers :
           ConfirmStored(w) /\ copy[Target(w)] # Nothing => copy[Target(w)].value = job[w].value]_vars
=============================================================================
