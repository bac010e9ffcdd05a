--------------------------- MODULE ReplicationProofs ---------------------------
(***************************************************************************)
(* Proofs about Replication for any number of servers, any factor, clock,  *)
(* jobs and number of uploads, meetings and faults.                        *)
(***************************************************************************)
EXTENDS Replication, Integers, WellFoundedInduction, TLAPS

(* A set of numbers has a smallest one: Nat is well-founded. *)
LEMMA SmallestNat ==
    ASSUME NEW T, T \subseteq Nat, T # {}
    PROVE  \E x \in T : \A y \in T : x <= y
<1>1. \E x \in T : \A y \in T : ~(<<y, x>> \in OpToRel(<, Nat))
  BY NatLessThanWellFounded, WFMin
<1>2. ASSUME NEW x \in Nat, NEW y \in Nat, ~(<<y, x>> \in OpToRel(<, Nat)) PROVE x <= y
  BY <1>2 DEF OpToRel
<1> QED BY <1>1, <1>2

(* What each place of a job says of the rest of it. *)
JobOK(j) ==
    /\ j.step \in {"check", "store", "confirm", "sweep"} => j.at \in j.todo
    /\ j.step \in {"check", "store"} => j.op \in {"upload", "republish", "push"}
    /\ j.step = "confirm" => j.op \in {"republish", "push"}
    /\ j.step = "crawl" => j.op = "upload"
    /\ j.step = "sweep" => j.op \in {"upload", "trim", "delete"}
    /\ j.op \in {"republish", "push"} => j.stamp \in 0..MaxClock

JobsOK == \A w \in Workers : JobOK(job[w])

IInv == TypeOK /\ JobsOK

-----------------------------------------------------------------------------
(* Lemmas about the operators *)

(* The nearest of some nodes is one of them. *)
LEMMA FirstOfNodes ==
    ASSUME place \in [Nodes -> Places], NEW S, S \subseteq Nodes, S # {}
    PROVE  First(S) \in S
<1> DEFINE T == {place[n] : n \in S}
<1>1. T \subseteq Nat /\ T # {}
  BY NodesAssumption
<1>2. PICK x \in T : \A y \in T : x <= y
  BY <1>1, SmallestNat
<1>3. PICK n \in S : place[n] = x
  BY <1>2
<1>4. \A m \in S : place[n] <= place[m]
  BY <1>2, <1>3
<1> QED BY <1>4 DEF First

LEMMA IdleOK == Idle \in Job /\ JobOK(Idle) /\ Idle.op = "idle" /\ Idle.step = "none"
BY DEF Idle, Doing, Job, Steps, JobOK

(* A job that visits nodes is one, and nothing else of it changes. *)
LEMMA VisitOK ==
    ASSUME place \in [Nodes -> Places], NEW j \in Job, NEW S, S \subseteq Nodes, S # {},
           NEW s \in {"check", "sweep"},
           s = "check" => j.op \in {"upload", "republish", "push"},
           s = "sweep" => j.op \in {"upload", "trim", "delete"},
           j.op \in {"republish", "push"} => j.stamp \in 0..MaxClock
    PROVE  LET k == Visit(j, S, s)
           IN  k \in Job /\ JobOK(k) /\ k.op = j.op /\ k.stamp = j.stamp /\ k.step = s
<1> DEFINE k == Visit(j, S, s)
<1>1. First(S) \in S /\ First(S) \in Nodes
  BY FirstOfNodes
<1>2. /\ k \in Job /\ k.op = j.op /\ k.value = j.value /\ k.stamp = j.stamp
      /\ k.todo = S /\ k.at = First(S) /\ k.step = s
  BY <1>1 DEF Visit, Job, Steps
<1> HIDE DEF k
<1>3. JobOK(k)
  BY <1>1, <1>2 DEF JobOK
<1> QED BY <1>2, <1>3 DEF k

(* A job goes on with what it is, and neither stores nor confirms at once. *)
LEMMA NextNodeOK ==
    ASSUME place \in [Nodes -> Places], NEW j \in Job, JobOK(j),
           j.step \in {"check", "store", "confirm", "sweep"}
    PROVE  LET k == NextNode(j)
           IN  /\ k \in Job /\ JobOK(k)
               /\ k.op = "idle" \/ (k.op = j.op /\ k.stamp = j.stamp)
               /\ k.step \notin {"store", "confirm"}
               /\ j.step = "sweep" => k.op = "idle" \/ k.step = "sweep"
<1> DEFINE rest == j.todo \ {j.at}
           s == IF j.step = "sweep" THEN "sweep" ELSE "check"
           b == [j EXCEPT !.todo = {}, !.at = Nothing, !.step = "crawl"]
<1>1. rest \subseteq Nodes
  BY DEF Job
<1>2. CASE rest # {}
  <2>1. NextNode(j) = Visit(j, rest, s)
    BY <1>2 DEF NextNode
  <2>2. /\ s \in {"check", "sweep"}
        /\ s = "check" => j.op \in {"upload", "republish", "push"}
        /\ s = "sweep" => j.op \in {"upload", "trim", "delete"}
        /\ j.op \in {"republish", "push"} => j.stamp \in 0..MaxClock
    BY DEF JobOK
  <2> HIDE DEF rest, s
  <2>3. /\ Visit(j, rest, s) \in Job /\ JobOK(Visit(j, rest, s))
        /\ Visit(j, rest, s).op = j.op /\ Visit(j, rest, s).stamp = j.stamp
        /\ Visit(j, rest, s).step = s
    BY <1>1, <1>2, <2>2, VisitOK
  <2> QED BY <2>1, <2>2, <2>3 DEF s
<1>3. CASE rest = {} /\ j.op = "upload" /\ j.step # "sweep" /\ j.stored
  <2>1. NextNode(j) = b
    BY <1>3 DEF NextNode
  <2>2. /\ b \in Job /\ b.todo = {} /\ b.op = j.op /\ b.stamp = j.stamp /\ b.step = "crawl"
    BY DEF Job, Steps
  <2> HIDE DEF b
  <2>3. JobOK(b)
    BY <1>3, <2>2 DEF JobOK
  <2> QED BY <2>1, <2>2, <2>3, <1>3
<1>4. CASE rest = {} /\ ~(j.op = "upload" /\ j.step # "sweep" /\ j.stored)
  <2>1. NextNode(j) = Idle
    BY <1>4 DEF NextNode
  <2> QED BY <2>1, IdleOK
<1> QED BY <1>2, <1>3, <1>4

LEMMA DoingOK ==
    ASSUME NEW o \in {"upload", "republish", "trim", "delete", "push"},
           NEW v \in Values \cup {Nothing}, NEW stamp \in 0..MaxClock \cup {Nothing}
    PROVE  /\ Doing(o, v, stamp) \in Job /\ Doing(o, v, stamp).op = o /\ Doing(o, v, stamp).stamp = stamp
           /\ Doing(o, v, stamp).step = "none"
BY DEF Doing, Job, Steps

LEMMA CrawlsOK ==
    ASSUME up \subseteq Nodes, NEW n, NEW k, NEW found \in Crawls(n, k)
    PROVE  found \subseteq Nodes
BY DEF Crawls, Nearest, Reachable

LEMMA WrittenOK ==
    ASSUME NEW v \in Values \cup {Nothing}, NEW stamp \in 0..MaxClock \cup {Nothing},
           clock \in 0..MaxClock
    PROVE  /\ Written(v, stamp) \in Record
           /\ stamp # Nothing => Written(v, stamp).stamp = stamp
BY DEF Written, Record

LEMMA ConfirmedOK ==
    ASSUME NEW r \in Record \cup {Nothing}
    PROVE  /\ Confirmed(r) \in Record \cup {Nothing}
           /\ Confirmed(r) = Nothing <=> r = Nothing
           /\ r # Nothing => /\ Confirmed(r).integrity /\ Confirmed(r).stamp = r.stamp
                             /\ Confirmed(r).value = r.value
<1>1. CASE r = Nothing
  BY <1>1 DEF Confirmed
<1>2. CASE r # Nothing
  <2>1. /\ Confirmed(r) = [r EXCEPT !.integrity = TRUE] /\ r \in Record
    BY <1>2 DEF Confirmed
  <2>2. /\ Confirmed(r) \in Record /\ Confirmed(r).integrity = TRUE
        /\ Confirmed(r).stamp = r.stamp /\ Confirmed(r).value = r.value
    BY <2>1 DEF Record
  <2> QED BY <1>2, <2>2, NothingAssumption
<1> QED BY <1>1, <1>2

LEMMA HolderIs ==
    ASSUME NEW n
    PROVE  n \in Holders <=> n \in Nodes /\ copy[n] # Nothing /\ copy[n].integrity /\ copy[n].value # Nothing
BY DEF Holders, Got

(* What the record of one node becomes. *)
LEMMA CopyOK ==
    ASSUME TypeOK, NEW n \in Nodes, NEW r \in Record \cup {Nothing}, copy' = [copy EXCEPT ![n] = r]
    PROVE  /\ copy' \in [Nodes -> Record \cup {Nothing}]
           /\ copy'[n] = r /\ \A m \in Nodes \ {n} : copy'[m] = copy[m]
BY DEF TypeOK

LEMMA BecomesOK ==
    ASSUME TypeOK, JobsOK, NEW w \in Workers, NEW j \in Job, JobOK(j), Becomes(w, j)
    PROVE  /\ job' \in [Workers -> Job] /\ JobsOK'
           /\ job'[w] = j /\ \A x \in Workers \ {w} : job'[x] = job[x]
BY DEF TypeOK, JobsOK, JobOK, Becomes

(* A counter below its bound can count on. *)
LEMMA CounterOK ==
    ASSUME NEW m \in Nat
    PROVE  0 \in 0..m /\ \A k \in 0..m : k < m => k + 1 \in 0..m
OBVIOUS

LEMMA CountersOK ==
    ASSUME TypeOK
    PROVE  /\ 0 \in 0..MaxUploads /\ 0 \in 0..MaxMeetings /\ 0 \in 0..MaxFaults /\ 0 \in 0..MaxClock
           /\ uploads < MaxUploads => uploads + 1 \in 0..MaxUploads
           /\ meetings < MaxMeetings => meetings + 1 \in 0..MaxMeetings
           /\ faults < MaxFaults => faults + 1 \in 0..MaxFaults
           /\ clock < MaxClock => clock + 1 \in 0..MaxClock
<1>1. MaxClock \in Nat /\ MaxUploads \in Nat /\ MaxMeetings \in Nat /\ MaxFaults \in Nat
  BY BoundsAssumption
<1> QED BY <1>1, CounterOK DEF TypeOK

(* A server's threads are workers. *)
LEMMA WorkerOf ==
    ASSUME NEW n \in Nodes, NEW t \in {"client", "refresh", "greeting"}
    PROVE  <<n, t>> \in Workers /\ <<n, t>>[1] = n
BY DEF Workers

-----------------------------------------------------------------------------
(* What the steps leave of jobs and records *)

(* A step of one thread changes its job alone. *)
LEMMA OneJob ==
    ASSUME IInv, NEW w \in Workers, NEW j, Becomes(w, j), j \in Job /\ JobOK(j)
    PROVE  job' \in [Workers -> Job] /\ JobsOK' /\ job'[w] = j /\ \A x \in Workers \ {w} : job'[x] = job[x]
BY BecomesOK DEF IInv

LEMMA BeginUploadStep ==
    ASSUME IInv, NEW n \in Nodes, BeginUpload(n)
    PROVE  job' \in [Workers -> Job] /\ JobsOK' /\ copy' \in [Nodes -> Record \cup {Nothing}]
<1> DEFINE w == <<n, "client">>
<1>0. w \in Workers /\ TypeOK /\ JobsOK /\ place \in [Nodes -> Places] /\ up \subseteq Nodes
  BY WorkerOf DEF IInv, TypeOK
<1>1. PICK v \in Values, found \in Crawls(n, KSize), here \in BOOLEAN :
        LET j == [Doing("upload", v, Nothing) EXCEPT !.stored = here]
        IN  /\ copy' = IF here THEN [copy EXCEPT ![n] = Written(v, Nothing)] ELSE copy
            /\ Becomes(w, IF found = {} THEN [j EXCEPT !.step = "crawl"] ELSE Visit(j, found, "check"))
  <2>1. PICK v \in Values, found \in Crawls(n, KSize) :
          LET here == found = {} \/ \E m \in found : place[n] < place[m]
              j == [Doing("upload", v, Nothing) EXCEPT !.stored = here]
          IN  /\ copy' = IF here THEN [copy EXCEPT ![n] = Written(v, Nothing)] ELSE copy
              /\ Becomes(w, IF found = {} THEN [j EXCEPT !.step = "crawl"] ELSE Visit(j, found, "check"))
    BY DEF BeginUpload
  <2>2. (found = {} \/ \E m \in found : place[n] < place[m]) \in BOOLEAN
    OBVIOUS
  <2> QED BY <2>1, <2>2
<1> DEFINE j == [Doing("upload", v, Nothing) EXCEPT !.stored = here]
           c == [j EXCEPT !.step = "crawl"]
<1>2. j \in Job /\ j.op = "upload"
  BY DEF Doing, Job, Steps
<1>3. c \in Job /\ c.op = "upload" /\ c.step = "crawl"
  BY DEF Doing, Job, Steps
<1>4. Written(v, Nothing) \in Record
  BY WrittenOK DEF IInv, TypeOK
<1>5. copy' = [copy EXCEPT ![n] = Written(v, Nothing)] \/ copy' = copy
  BY <1>1
<1>6. copy' \in [Nodes -> Record \cup {Nothing}]
  BY <1>0, <1>4, <1>5, CopyOK DEF TypeOK
<1>7. Becomes(w, IF found = {} THEN c ELSE Visit(j, found, "check"))
  BY <1>1
<1> HIDE DEF w, j, c
<1>8. CASE found = {}
  <2>1. JobOK(c)
    BY <1>3 DEF JobOK
  <2> QED BY <1>0, <1>3, <1>6, <1>7, <1>8, <2>1, BecomesOK
<1>9. CASE found # {}
  <2>1. Visit(j, found, "check") \in Job /\ JobOK(Visit(j, found, "check"))
    BY <1>0, <1>2, <1>9, CrawlsOK, VisitOK
  <2> QED BY <1>0, <1>6, <1>7, <1>9, <2>1, BecomesOK
<1> QED BY <1>8, <1>9

(* Republishing and greeting begin with the second of the record they read. *)
LEMMA BeginSettingStep ==
    ASSUME IInv, NEW n \in Nodes, BeginRepublish(n) \/ BeginPush(n)
    PROVE  \E w \in Workers :
              /\ job' \in [Workers -> Job] /\ JobsOK' /\ copy' = copy
              /\ \A x \in Workers \ {w} : job'[x] = job[x]
              /\ Setting(w)' /\ job'[w].step = "check"
              /\ copy[n] # Nothing /\ job'[w].stamp = copy[n].stamp
<1>0. /\ TypeOK /\ JobsOK /\ place \in [Nodes -> Places] /\ up \subseteq Nodes
      /\ copy[n] # Nothing /\ copy' = copy
  BY DEF IInv, TypeOK, BeginRepublish, BeginPush, Holders
<1>1. PICK w \in Workers, o \in {"republish", "push"}, v \in Values \cup {Nothing}, S \in SUBSET Nodes :
        S # {} /\ Becomes(w, Visit(Doing(o, v, copy[n].stamp), S, "check"))
  <2>1. copy[n].value \in Values \cup {Nothing} /\ Got(copy[n]) \in Values \cup {Nothing}
    BY <1>0 DEF TypeOK, Record, Got
  <2>2. CASE BeginRepublish(n)
    <3>1. PICK found \in Crawls(n, KSize) \ {{}} :
            Becomes(<<n, "refresh">>, Visit(Doing("republish", copy[n].value, copy[n].stamp), found, "check"))
      BY <2>2 DEF BeginRepublish
    <3>2. found \in SUBSET Nodes /\ found # {}
      BY <1>0, CrawlsOK
    <3> QED BY <2>1, <3>1, <3>2, WorkerOf
  <2>3. CASE BeginPush(n)
    <3>1. PICK m \in Reachable(n) \ {n} :
            Becomes(<<n, "greeting">>, Visit(Doing("push", Got(copy[n]), copy[n].stamp), {m}, "check"))
      BY <2>3 DEF BeginPush
    <3>2. {m} \in SUBSET Nodes /\ {m} # {}
      BY <1>0 DEF Reachable
    <3> QED BY <2>1, <3>1, <3>2, WorkerOf
  <2> QED BY <2>2, <2>3
<1> DEFINE d == Doing(o, v, copy[n].stamp)
<1>2. copy[n].stamp \in 0..MaxClock
  BY <1>0 DEF TypeOK, Record
<1>3. d \in Job /\ d.op = o /\ d.stamp = copy[n].stamp
  BY <1>2, DoingOK
<1> HIDE DEF d
<1>4. /\ Visit(d, S, "check") \in Job /\ JobOK(Visit(d, S, "check"))
      /\ Visit(d, S, "check").op = o /\ Visit(d, S, "check").stamp = copy[n].stamp
      /\ Visit(d, S, "check").step = "check"
  BY <1>0, <1>1, <1>2, <1>3, VisitOK
<1>5. /\ job' \in [Workers -> Job] /\ JobsOK' /\ job'[w] = Visit(d, S, "check")
      /\ \A x \in Workers \ {w} : job'[x] = job[x]
  BY <1>0, <1>1, <1>4, BecomesOK DEF d
<1> QED BY <1>0, <1>1, <1>4, <1>5 DEF Setting

(* Trimming and deleting begin to sweep, or end. *)
LEMMA BeginSweepStep ==
    ASSUME IInv, NEW n \in Nodes, BeginTrim(n) \/ BeginDelete(n)
    PROVE  \E w \in Workers :
              /\ job' \in [Workers -> Job] /\ JobsOK'
              /\ \A x \in Workers \ {w} : job'[x] = job[x]
              /\ job'[w].op \in {"idle", "trim", "delete"}
              /\ BeginTrim(n) => copy' = copy
              /\ copy' \in [Nodes -> Record \cup {Nothing}]
<1>0. TypeOK /\ JobsOK /\ place \in [Nodes -> Places] /\ up \subseteq Nodes
  BY DEF IInv, TypeOK
<1>1. /\ BeginTrim(n) => copy' = copy
      /\ copy' \in [Nodes -> Record \cup {Nothing}]
  BY DEF IInv, TypeOK, BeginTrim, BeginDelete
<1>2. PICK w \in Workers, o \in {"trim", "delete"}, S \in SUBSET Nodes :
        Becomes(w, IF S = {} THEN Idle ELSE Visit(Doing(o, Nothing, Nothing), S, "sweep"))
  <2>1. CASE BeginTrim(n)
    <3>1. PICK found \in Crawls(n, 2 * KSize) :
            /\ found \ Nearest(found, KSize) # {}
            /\ Becomes(<<n, "refresh">>,
                       Visit(Doing("trim", Nothing, Nothing), found \ Nearest(found, KSize), "sweep"))
      BY <2>1 DEF BeginTrim
    <3>2. found \ Nearest(found, KSize) \in SUBSET Nodes
      BY <1>0, CrawlsOK
    <3> QED BY <3>1, <3>2, WorkerOf
  <2>2. CASE BeginDelete(n)
    <3> DEFINE found == Nearest(Reachable(n) \ {n}, KSize)
    <3>1. Becomes(<<n, "client">>,
                  IF found = {} THEN Idle ELSE Visit(Doing("delete", Nothing, Nothing), found, "sweep"))
      BY <2>2 DEF BeginDelete
    <3>2. found \in SUBSET Nodes
      BY <1>0 DEF Nearest, Reachable
    <3> QED BY <3>1, <3>2, WorkerOf
  <2> QED BY <2>1, <2>2
<1> DEFINE d == Doing(o, Nothing, Nothing)
           k == IF S = {} THEN Idle ELSE Visit(d, S, "sweep")
<1>3. d \in Job /\ d.op = o
  BY DEF Doing, Job, Steps
<1> HIDE DEF d
<1>4. k \in Job /\ JobOK(k) /\ k.op \in {"idle", "trim", "delete"}
  <2>1. CASE S = {}
    BY <2>1, IdleOK
  <2>2. CASE S # {}
    BY <1>0, <1>3, <2>2, VisitOK
  <2> QED BY <2>1, <2>2
<1>5. Becomes(w, k)
  BY <1>2 DEF d
<1> HIDE DEF k
<1>6. /\ job' \in [Workers -> Job] /\ JobsOK' /\ job'[w] = k
      /\ \A x \in Workers \ {w} : job'[x] = job[x]
  BY <1>0, <1>4, <1>5, BecomesOK
<1> QED BY <1>1, <1>4, <1>6

(* What a step of a job leaves of it. *)
LEMMA StepJob ==
    ASSUME IInv, NEW w \in Workers, Step(w)
    PROVE  /\ job' \in [Workers -> Job] /\ JobsOK'
           /\ \A x \in Workers \ {w} : job'[x] = job[x]
           /\ job'[w].op = "idle" \/ (job'[w].op = job[w].op /\ job'[w].stamp = job[w].stamp)
           /\ job'[w].step = "store" =>
                 Check(w) /\ Necessary(job[w].stamp, copy[Target(w)]) /\ Target(w)' = Target(w)
           /\ job[w].step \in {"crawl", "sweep"} => job'[w].op = "idle" \/ job'[w].step = "sweep"
<1>0. /\ TypeOK /\ JobsOK /\ place \in [Nodes -> Places] /\ up \subseteq Nodes
      /\ job[w] \in Job /\ JobOK(job[w])
  BY DEF IInv, TypeOK, JobsOK
<1>1. CASE Check(w)
  <2> DEFINE k == [job[w] EXCEPT !.step = "store"]
             j == [job[w] EXCEPT !.stored = @ \/ Reached(w)]
  <2>1. /\ job[w].step = "check"
        /\ Becomes(w, IF Reached(w) /\ Necessary(job[w].stamp, copy[Target(w)])
                      THEN k ELSE NextNode(j))
    BY <1>1 DEF Check, AtStep
  <2>2. /\ k \in Job /\ k.op = job[w].op /\ k.stamp = job[w].stamp /\ k.step = "store"
        /\ k.at = job[w].at /\ k.todo = job[w].todo
    BY <1>0 DEF Job, Steps
  <2>3. /\ j \in Job /\ j.op = job[w].op /\ j.stamp = job[w].stamp /\ j.step = job[w].step
        /\ j.at = job[w].at /\ j.todo = job[w].todo
    BY <1>0 DEF Job
  <2> HIDE DEF k, j
  <2>4. JobOK(k) /\ JobOK(j)
    BY <1>0, <2>1, <2>2, <2>3 DEF JobOK
  <2>5. CASE Reached(w) /\ Necessary(job[w].stamp, copy[Target(w)])
    <3>1. Becomes(w, k)
      BY <2>1, <2>5
    <3>2. /\ job' \in [Workers -> Job] /\ JobsOK' /\ job'[w] = k
          /\ \A x \in Workers \ {w} : job'[x] = job[x]
      BY <1>0, <2>2, <2>4, <3>1, BecomesOK
    <3> QED BY <1>1, <2>1, <2>2, <2>5, <3>2 DEF Target
  <2>6. CASE ~(Reached(w) /\ Necessary(job[w].stamp, copy[Target(w)]))
    <3>1. Becomes(w, NextNode(j))
      BY <2>1, <2>6
    <3>2. /\ NextNode(j) \in Job /\ JobOK(NextNode(j)) /\ NextNode(j).step \notin {"store", "confirm"}
          /\ NextNode(j).op = "idle" \/ (NextNode(j).op = j.op /\ NextNode(j).stamp = j.stamp)
      BY <1>0, <2>1, <2>3, <2>4, NextNodeOK
    <3>3. /\ job' \in [Workers -> Job] /\ JobsOK' /\ job'[w] = NextNode(j)
          /\ \A x \in Workers \ {w} : job'[x] = job[x]
      BY <1>0, <3>1, <3>2, BecomesOK
    <3> QED BY <2>1, <2>3, <3>2, <3>3
  <2> QED BY <2>5, <2>6
<1>2. CASE Store(w)
  <2> DEFINE k == [job[w] EXCEPT !.step = "confirm"]
             j == [job[w] EXCEPT !.stored = TRUE]
  <2>1. /\ job[w].step = "store"
        /\ Becomes(w, IF job[w].op \in {"republish", "push"} THEN k ELSE NextNode(j))
    BY <1>2 DEF Store, AtStep
  <2>2. /\ k \in Job /\ k.op = job[w].op /\ k.stamp = job[w].stamp /\ k.step = "confirm"
        /\ k.at = job[w].at /\ k.todo = job[w].todo
    BY <1>0 DEF Job, Steps
  <2>3. /\ j \in Job /\ j.op = job[w].op /\ j.stamp = job[w].stamp /\ j.step = job[w].step
        /\ j.at = job[w].at /\ j.todo = job[w].todo
    BY <1>0 DEF Job
  <2> HIDE DEF k, j
  <2>4. JobOK(j) /\ (job[w].op \in {"republish", "push"} => JobOK(k))
    BY <1>0, <2>1, <2>2, <2>3 DEF JobOK
  <2>5. /\ NextNode(j) \in Job /\ JobOK(NextNode(j)) /\ NextNode(j).step \notin {"store", "confirm"}
        /\ NextNode(j).op = "idle" \/ (NextNode(j).op = j.op /\ NextNode(j).stamp = j.stamp)
    BY <1>0, <2>1, <2>3, <2>4, NextNodeOK
  <2> DEFINE i == IF job[w].op \in {"republish", "push"} THEN k ELSE NextNode(j)
  <2>6. /\ i \in Job /\ JobOK(i) /\ i.step # "store"
        /\ i.op = "idle" \/ (i.op = job[w].op /\ i.stamp = job[w].stamp)
    BY <2>2, <2>3, <2>4, <2>5
  <2>7. Becomes(w, i)
    BY <2>1
  <2> HIDE DEF i
  <2>8. /\ job' \in [Workers -> Job] /\ JobsOK' /\ job'[w] = i
        /\ \A x \in Workers \ {w} : job'[x] = job[x]
    BY <1>0, <2>6, <2>7, BecomesOK
  <2> QED BY <2>1, <2>6, <2>8
<1>3. CASE ConfirmStored(w) \/ Sweep(w)
  <2>1. job[w].step \in {"confirm", "sweep"} /\ Becomes(w, NextNode(job[w]))
    BY <1>3 DEF ConfirmStored, Sweep, AtStep
  <2>2. /\ NextNode(job[w]) \in Job /\ JobOK(NextNode(job[w]))
        /\ NextNode(job[w]).step \notin {"store", "confirm"}
        /\ \/ NextNode(job[w]).op = "idle"
           \/ NextNode(job[w]).op = job[w].op /\ NextNode(job[w]).stamp = job[w].stamp
        /\ job[w].step = "sweep" => NextNode(job[w]).op = "idle" \/ NextNode(job[w]).step = "sweep"
    BY <1>0, <2>1, NextNodeOK
  <2>3. /\ job' \in [Workers -> Job] /\ JobsOK' /\ job'[w] = NextNode(job[w])
        /\ \A x \in Workers \ {w} : job'[x] = job[x]
    BY <1>0, <2>1, <2>2, BecomesOK
  <2> QED BY <2>1, <2>2, <2>3
<1>4. CASE Raises(w)
  <2>1. Becomes(w, Idle)
    BY <1>4 DEF Raises
  <2>2. /\ job' \in [Workers -> Job] /\ JobsOK' /\ job'[w] = Idle
        /\ \A x \in Workers \ {w} : job'[x] = job[x]
    BY <1>0, <2>1, IdleOK, BecomesOK
  <2> QED BY <2>2, IdleOK
<1>5. CASE BeginConfirm(w)
  <2> DEFINE found == Nearest(Reachable(w[1]) \ {w[1]}, KSize)
             S == IF found = {} THEN {w[1]} ELSE found
  <2>1. job[w].step = "crawl" /\ w[1] \in up /\ Becomes(w, Visit(job[w], S, "sweep"))
    BY <1>5 DEF BeginConfirm, AtStep
  <2>2. S \subseteq Nodes /\ S # {}
    BY <1>0, <2>1 DEF Nearest, Reachable
  <2>3. job[w].op = "upload"
    BY <1>0, <2>1 DEF JobOK
  <2> HIDE DEF S
  <2>4. /\ Visit(job[w], S, "sweep") \in Job /\ JobOK(Visit(job[w], S, "sweep"))
        /\ Visit(job[w], S, "sweep").op = job[w].op /\ Visit(job[w], S, "sweep").stamp = job[w].stamp
        /\ Visit(job[w], S, "sweep").step = "sweep"
    BY <1>0, <2>2, <2>3, VisitOK
  <2>5. /\ job' \in [Workers -> Job] /\ JobsOK' /\ job'[w] = Visit(job[w], S, "sweep")
        /\ \A x \in Workers \ {w} : job'[x] = job[x]
    BY <1>0, <2>1, <2>4, BecomesOK
  <2> QED BY <2>4, <2>5
<1> QED BY <1>1, <1>2, <1>3, <1>4, <1>5 DEF Step

(* What a step of a job makes of the record of the node it is at. *)
LEMMA StepCopy ==
    ASSUME IInv, NEW w \in Workers, Step(w)
    PROVE  /\ copy' \in [Nodes -> Record \cup {Nothing}]
           /\ \/ copy' = copy
              \/ /\ Target(w) \in Nodes
                 /\ \A m \in Nodes \ {Target(w)} : copy'[m] = copy[m]
                 /\ \/ Store(w) /\ copy'[Target(w)] = Written(job[w].value, job[w].stamp)
                    \/ /\ ConfirmStored(w) \/ (Sweep(w) /\ job[w].op = "upload")
                       /\ copy'[Target(w)] = Confirmed(copy[Target(w)])
                    \/ Sweep(w) /\ job[w].op # "upload"
<1>0. /\ TypeOK /\ job[w] \in Job /\ JobOK(job[w]) /\ clock \in 0..MaxClock
      /\ copy \in [Nodes -> Record \cup {Nothing}]
  BY DEF IInv, TypeOK, JobsOK
<1>1. job[w].step \in {"store", "confirm", "sweep"} => Target(w) \in Nodes
  BY <1>0 DEF JobOK, Target, Job
<1>2. CASE Check(w) \/ Raises(w) \/ BeginConfirm(w)
  BY <1>0, <1>2 DEF Check, Raises, BeginConfirm
<1>3. CASE Store(w)
  <2> DEFINE r == Written(job[w].value, job[w].stamp)
  <2>1. Target(w) \in Nodes /\ copy' = [copy EXCEPT ![Target(w)] = r]
    BY <1>1, <1>3 DEF Store, AtStep
  <2>2. job[w].value \in Values \cup {Nothing} /\ job[w].stamp \in 0..MaxClock \cup {Nothing}
    BY <1>0 DEF Job
  <2>3. r \in Record
    BY <1>0, <2>2, WrittenOK
  <2> HIDE DEF r
  <2>4. /\ copy' \in [Nodes -> Record \cup {Nothing}] /\ copy'[Target(w)] = r
        /\ \A m \in Nodes \ {Target(w)} : copy'[m] = copy[m]
    BY <1>0, <2>1, <2>3, CopyOK
  <2> QED BY <1>3, <2>1, <2>4 DEF r
<1>4. CASE ConfirmStored(w) \/ Sweep(w)
  <2>1. Target(w) \in Nodes /\ copy[Target(w)] \in Record \cup {Nothing}
    BY <1>0, <1>1, <1>4 DEF ConfirmStored, Sweep, AtStep
  <2>2. Confirmed(copy[Target(w)]) \in Record \cup {Nothing}
    BY <2>1, ConfirmedOK
  <2>3. PICK r \in Record \cup {Nothing} :
          /\ copy' = copy \/ copy' = [copy EXCEPT ![Target(w)] = r]
          /\ ConfirmStored(w) \/ (Sweep(w) /\ job[w].op = "upload") => r = Confirmed(copy[Target(w)])
    <3>1. CASE job[w].step = "confirm"
      BY <1>0, <1>4, <2>2, <3>1 DEF ConfirmStored, Sweep, AtStep
    <3>2. CASE job[w].step = "sweep" /\ job[w].op = "upload"
      BY <1>0, <1>4, <2>2, <3>2 DEF ConfirmStored, Sweep, AtStep
    <3>3. CASE job[w].step = "sweep" /\ job[w].op # "upload"
      BY <1>0, <1>4, <2>2, <3>3 DEF ConfirmStored, Sweep, AtStep
    <3> QED BY <1>4, <3>1, <3>2, <3>3 DEF ConfirmStored, Sweep, AtStep
  <2>4. CASE copy' = copy
    BY <1>0, <2>4
  <2>5. CASE copy' = [copy EXCEPT ![Target(w)] = r]
    <3>1. /\ copy' \in [Nodes -> Record \cup {Nothing}] /\ copy'[Target(w)] = r
          /\ \A m \in Nodes \ {Target(w)} : copy'[m] = copy[m]
      BY <1>0, <2>1, <2>5, CopyOK
    <3> QED BY <1>4, <2>1, <2>3, <3>1
  <2> QED BY <2>3, <2>4, <2>5
<1> QED BY <1>2, <1>3, <1>4 DEF Step

-----------------------------------------------------------------------------
(* The inductive invariant *)

LEMMA InitOK == Init => IInv
<1> SUFFICES ASSUME Init PROVE IInv
  OBVIOUS
<1>1. TypeOK
  <2>1. 0 \in 0..MaxUploads /\ 0 \in 0..MaxMeetings /\ 0 \in 0..MaxFaults /\ 0 \in 0..MaxClock
    BY BoundsAssumption, CounterOK
  <2>2. job \in [Workers -> Job] /\ place \in [Nodes -> Places]
    BY IdleOK, NodesAssumption DEF Init
  <2> QED BY <2>1, <2>2 DEF Init, TypeOK
<1>2. JobsOK
  BY IdleOK DEF Init, JobsOK
<1> QED BY <1>1, <1>2 DEF IInv

LEMMA NextOK == IInv /\ [Next]_vars => IInv'
<1> SUFFICES ASSUME IInv, [Next]_vars PROVE IInv'
  OBVIOUS
<1> USE DEF environment
<1>0. TypeOK /\ JobsOK
  BY DEF IInv
<1>1. ASSUME NEW n \in Nodes, BeginUpload(n) PROVE IInv'
  BY <1>0, <1>1, BeginUploadStep, CountersOK DEF BeginUpload, IInv, TypeOK
<1>2. ASSUME NEW n \in Nodes, BeginRepublish(n) PROVE IInv'
  BY <1>0, <1>2, BeginSettingStep DEF BeginRepublish, IInv, TypeOK
<1>3. ASSUME NEW n \in Nodes, BeginPush(n) PROVE IInv'
  BY <1>0, <1>3, BeginSettingStep, CountersOK DEF BeginPush, IInv, TypeOK
<1>4. ASSUME NEW n \in Nodes, BeginTrim(n) \/ BeginDelete(n) PROVE IInv'
  BY <1>0, <1>4, BeginSweepStep DEF BeginTrim, BeginDelete, IInv, TypeOK
<1>5. ASSUME NEW w \in Workers, Step(w) PROVE IInv'
  <2>1. /\ job' \in [Workers -> Job] /\ JobsOK' /\ copy' \in [Nodes -> Record \cup {Nothing}]
    BY <1>5, StepJob, StepCopy
  <2>2. UNCHANGED environment /\ working' \in BOOLEAN
    BY <1>0, <1>5 DEF Step, Check, Store, ConfirmStored, Raises, BeginConfirm, Sweep, TypeOK
  <2> QED BY <1>0, <2>1, <2>2 DEF IInv, TypeOK
<1>6. ASSUME NEW n \in Nodes, Clean(n) PROVE IInv'
  <2>1. copy' \in [Nodes -> Record \cup {Nothing}]
    BY <1>0, <1>6, CopyOK DEF Clean
  <2> QED BY <1>0, <1>6, <2>1 DEF Clean, IInv, TypeOK, JobsOK
<1>7. ASSUME NEW n \in Nodes, Crash(n) PROVE IInv'
  <2>1. job' \in [Workers -> Job] /\ JobsOK'
    BY <1>0, <1>7, IdleOK DEF Crash, TypeOK, JobsOK
  <2> QED BY <1>0, <1>7, <2>1, CountersOK DEF Crash, IInv, TypeOK
<1>8. ASSUME NEW n \in Nodes, Start(n) PROVE IInv'
  BY <1>0, <1>8 DEF Start, IInv, TypeOK, JobsOK
<1>9. CASE Partition
  BY <1>0, <1>9, CountersOK DEF Partition, IInv, TypeOK, JobsOK
<1>10. CASE Heal \/ Tick \/ UNCHANGED vars
  BY <1>0, <1>10, CountersOK DEF Heal, Tick, vars, IInv, TypeOK, JobsOK
<1> QED BY <1>1, <1>2, <1>3, <1>4, <1>5, <1>6, <1>7, <1>8, <1>9, <1>10 DEF Next

LEMMA Invariant == Spec => []IInv
BY InitOK, NextOK, PTL DEF Spec

(***************************************************************************)
(* Every variable has its type.                                            *)
(***************************************************************************)
THEOREM TypeCorrect == Spec => []TypeOK
<1>1. IInv => TypeOK
  BY DEF IInv
<1> QED BY <1>1, Invariant, PTL

-----------------------------------------------------------------------------
(* The newest value *)

(* What has to stay for s to keep the newest value. *)
LEMMA NewestSame ==
    ASSUME NEW s \in Nodes, Newest(s), copy'[s] = copy[s],
           \A n \in Nodes : copy'[n] # Nothing => copy'[n].stamp <= copy[s].stamp,
           \A w \in Workers :
              /\ job'[w].op = "upload" => job'[w].step \in {"crawl", "sweep"}
              /\ Setting(w)' => job'[w].stamp <= copy[s].stamp
              /\ Setting(w)' /\ job'[w].step = "store" => job'[w].at # s
    PROVE  Newest(s)'
<1>1. (s \in Holders)'
  BY HolderIs DEF Newest, Holders, Got
<1> QED BY <1>1 DEF Newest, Target

(* Nothing but a command takes the newest value. *)
LEMMA NewestStep ==
    ASSUME IInv, NEW s \in Nodes, Newest(s), [Next]_vars, ~Commanded
    PROVE  Newest(s)'
<1> USE DEF environment
<1>0. /\ TypeOK /\ copy[s] # Nothing /\ copy[s].integrity /\ copy[s].value # Nothing
      /\ copy[s] \in Record /\ copy[s].stamp \in 0..MaxClock
      /\ \A n \in Nodes : copy[n] # Nothing => copy[n].stamp <= copy[s].stamp
  BY HolderIs DEF IInv, TypeOK, Newest, Record
<1>1. \A w \in Workers :
          /\ job[w].op = "upload" => job[w].step \in {"crawl", "sweep"}
          /\ Setting(w) => job[w].stamp <= copy[s].stamp
          /\ Setting(w) /\ job[w].step = "store" => job[w].at # s
  BY DEF Newest, Target
<1>2. ASSUME NEW n \in Nodes, BeginUpload(n) \/ BeginDelete(n) PROVE FALSE
  BY <1>2 DEF Commanded
<1>3. ASSUME NEW n \in Nodes, BeginRepublish(n) \/ BeginPush(n) PROVE Newest(s)'
  <2>1. PICK w \in Workers :
          /\ copy' = copy /\ \A x \in Workers \ {w} : job'[x] = job[x]
          /\ Setting(w)' /\ job'[w].step = "check"
          /\ copy[n] # Nothing /\ job'[w].stamp = copy[n].stamp
    BY <1>3, BeginSettingStep
  <2>2. \A x \in Workers :
          /\ job'[x].op = "upload" => job'[x].step \in {"crawl", "sweep"}
          /\ Setting(x)' => job'[x].stamp <= copy[s].stamp
          /\ Setting(x)' /\ job'[x].step = "store" => job'[x].at # s
    BY <1>0, <1>1, <2>1 DEF Setting
  <2> QED BY <1>0, <2>1, <2>2, NewestSame
<1>4. ASSUME NEW n \in Nodes, BeginTrim(n) PROVE Newest(s)'
  <2>1. PICK w \in Workers :
          /\ \A x \in Workers \ {w} : job'[x] = job[x]
          /\ job'[w].op \in {"idle", "trim", "delete"} /\ copy' = copy
    BY <1>4, BeginSweepStep
  <2>2. \A x \in Workers :
          /\ job'[x].op = "upload" => job'[x].step \in {"crawl", "sweep"}
          /\ Setting(x)' => job'[x].stamp <= copy[s].stamp
          /\ Setting(x)' /\ job'[x].step = "store" => job'[x].at # s
    BY <1>1, <2>1 DEF Setting
  <2> QED BY <1>0, <2>1, <2>2, NewestSame
<1>5. ASSUME NEW w \in Workers, Step(w) PROVE Newest(s)'
  <2>0. JobOK(job[w]) /\ job[w] \in Job
    BY DEF IInv, JobsOK, TypeOK
  <2>1. /\ \A x \in Workers \ {w} : job'[x] = job[x]
        /\ job'[w].op = "idle" \/ (job'[w].op = job[w].op /\ job'[w].stamp = job[w].stamp)
        /\ job'[w].step = "store" =>
              Check(w) /\ Necessary(job[w].stamp, copy[Target(w)]) /\ Target(w)' = Target(w)
        /\ job[w].step \in {"crawl", "sweep"} => job'[w].op = "idle" \/ job'[w].step = "sweep"
    BY <1>5, StepJob
  <2>2. ASSUME Setting(w)', job'[w].step = "store", job'[w].at = s PROVE FALSE
    <3>1. Setting(w) /\ Necessary(job[w].stamp, copy[s])
      BY <2>1, <2>2 DEF Setting, Target
    <3>2. job[w].stamp \in 0..MaxClock /\ job[w].stamp <= copy[s].stamp
      BY <1>1, <2>0, <3>1 DEF Setting, JobOK
    <3>3. job[w].stamp # Nothing
      BY <3>2, NothingAssumption
    <3> QED BY <1>0, <3>1, <3>2, <3>3 DEF Necessary
  <2>3. \A x \in Workers :
          /\ job'[x].op = "upload" => job'[x].step \in {"crawl", "sweep"}
          /\ Setting(x)' => job'[x].stamp <= copy[s].stamp
          /\ Setting(x)' /\ job'[x].step = "store" => job'[x].at # s
    BY <1>1, <2>1, <2>2 DEF Setting
  <2>4. CASE copy' = copy
    BY <1>0, <2>3, <2>4, NewestSame
  <2>5. CASE copy' # copy
    <3> DEFINE t == Target(w)
    <3>1. /\ t \in Nodes /\ \A m \in Nodes \ {t} : copy'[m] = copy[m]
          /\ \/ Store(w) /\ copy'[t] = Written(job[w].value, job[w].stamp)
             \/ /\ ConfirmStored(w) \/ (Sweep(w) /\ job[w].op = "upload")
                /\ copy'[t] = Confirmed(copy[t])
             \/ Sweep(w) /\ job[w].op # "upload"
      BY <1>5, <2>5, StepCopy
    <3> HIDE DEF t
    <3>2. CASE Store(w) /\ copy'[t] = Written(job[w].value, job[w].stamp)
      <4>1. Setting(w) /\ job[w].step = "store"
        BY <1>1, <2>0, <3>2 DEF Store, AtStep, JobOK, Setting
      <4>2. /\ t # s /\ job[w].stamp \in 0..MaxClock /\ job[w].stamp <= copy[s].stamp
            /\ job[w].value \in Values \cup {Nothing} /\ clock \in 0..MaxClock
        BY <1>0, <1>1, <2>0, <4>1 DEF t, Target, Setting, JobOK, Job, TypeOK
      <4>3. copy'[t].stamp = job[w].stamp
        BY <3>2, <4>2, WrittenOK, NothingAssumption
      <4>4. copy'[s] = copy[s] /\ \A n \in Nodes : copy'[n] # Nothing => copy'[n].stamp <= copy[s].stamp
        BY <1>0, <3>1, <4>2, <4>3
      <4> QED BY <2>3, <4>4, NewestSame
    <3>3. CASE copy'[t] = Confirmed(copy[t])
      <4>1. copy[t] \in Record \cup {Nothing}
        BY <1>0, <3>1 DEF TypeOK
      <4>2. /\ copy'[t] = Nothing <=> copy[t] = Nothing
            /\ copy[t] # Nothing => /\ copy'[t].integrity /\ copy'[t].stamp = copy[t].stamp
                                    /\ copy'[t].value = copy[t].value
        BY <3>3, <4>1, ConfirmedOK
      <4>3. /\ copy'[s] # Nothing /\ copy'[s].integrity /\ copy'[s].value # Nothing
            /\ copy'[s].stamp = copy[s].stamp
            /\ \A n \in Nodes : copy'[n] # Nothing => copy'[n].stamp <= copy'[s].stamp
        BY <1>0, <3>1, <4>2
      <4>4. (s \in Holders)'
        BY <4>3 DEF Holders, Got
      <4> QED BY <2>3, <4>3, <4>4 DEF Newest, Target
    <3>4. CASE Sweep(w) /\ job[w].op # "upload"
      <4>1. job[w].op \in {"trim", "delete"}
        BY <2>0, <3>4 DEF Sweep, AtStep, JobOK
      <4> QED BY <3>4, <4>1 DEF Commanded
    <3> QED BY <3>1, <3>2, <3>3, <3>4
  <2> QED BY <2>4, <2>5
<1>6. ASSUME NEW n \in Nodes, Clean(n) PROVE Newest(s)'
  <2>1. /\ n # s /\ job' = job /\ copy'[n] = Nothing
        /\ \A m \in Nodes \ {n} : copy'[m] = copy[m]
    BY <1>0, <1>6, CopyOK DEF Clean
  <2>2. copy'[s] = copy[s] /\ \A m \in Nodes : copy'[m] # Nothing => copy'[m].stamp <= copy[s].stamp
    BY <1>0, <2>1
  <2> QED BY <1>1, <2>1, <2>2, NewestSame DEF Setting
<1>7. ASSUME NEW n \in Nodes, Crash(n) PROVE Newest(s)'
  <2>1. copy' = copy /\ \A w \in Workers : job'[w] = Idle \/ job'[w] = job[w]
    BY <1>7 DEF Crash
  <2>2. \A x \in Workers :
          /\ job'[x].op = "upload" => job'[x].step \in {"crawl", "sweep"}
          /\ Setting(x)' => job'[x].stamp <= copy[s].stamp
          /\ Setting(x)' /\ job'[x].step = "store" => job'[x].at # s
    BY <1>1, <2>1, IdleOK DEF Setting
  <2> QED BY <1>0, <2>1, <2>2, NewestSame
<1>8. CASE (\E n \in Nodes : Start(n)) \/ Partition \/ Heal \/ Tick \/ UNCHANGED vars
  <2>1. copy' = copy /\ job' = job
    BY <1>8 DEF Start, Partition, Heal, Tick, vars
  <2> QED BY <1>0, <1>1, <2>1, NewestSame DEF Setting
<1> QED BY <1>2, <1>3, <1>4, <1>5, <1>6, <1>7, <1>8 DEF Next

(***************************************************************************)
(* The newest confirmed value stays until a client uploads or deletes or a *)
(* server trims, whatever is republished, pushed, cleaned, crashes, starts *)
(* again under another identifier or is cut off.                           *)
(***************************************************************************)
THEOREM NewestKeptHolds == Spec => NewestKept
<1>1. IInv /\ [Next]_vars => [NewestHeld /\ ~NewestHeld' => Commanded]_vars
  <2> SUFFICES ASSUME IInv, [Next]_vars, NewestHeld, ~Commanded PROVE NewestHeld'
    OBVIOUS
  <2>1. PICK s \in Nodes : Newest(s)
    BY DEF NewestHeld
  <2>2. Newest(s)'
    BY <2>1, NewestStep
  <2> QED BY <2>2 DEF NewestHeld
<1> QED BY <1>1, Invariant, PTL DEF NewestKept, Spec

=============================================================================
