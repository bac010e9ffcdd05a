---------------------------- MODULE UploadProofs ----------------------------
(***************************************************************************)
(* Proofs about Upload, for any servers, files, contents, distances and    *)
(* bounds, fast and slow uploads.                                          *)
(***************************************************************************)
EXTENDS Upload, Integers, SequenceTheorems, TLAPS

Copies == [Servers -> [Keys -> Record \cup {Nothing}]]

OverChunks == {"chunks", "rollback", "undo", "confirm"}

(* An upload runs on a server that runs, and a step over the chunks is at one of them. *)
JobOK(f) ==
    /\ Running(f) => job[f].server \in up
    /\ AtStep(f, OverChunks) => job[f].next \in 1..Len(content[f])

RecordsOK == content \in Contents /\ copy \in Copies /\ clock \in 0..MaxClock

(* The contacts of servers, which do not know themselves. *)
ContactsOK ==
    /\ up \subseteq Servers
    /\ id \in [Servers -> Ids]
    /\ contacts \in [Servers -> SUBSET Servers]
    /\ \A s \in Servers : s \notin contacts[s]

HistoryOK ==
    /\ answer \in [Files -> BOOLEAN]
    /\ disturbed \in [Files -> BOOLEAN]
    /\ committed \subseteq Files /\ emptied \subseteq Keys

CountsOK == uploads \in 0..MaxUploads /\ faults \in 0..MaxFaults /\ working \in BOOLEAN

JobsOK == job \in [Files -> Job] /\ \A f \in Files : JobOK(f)

(* The key is readable nowhere. *)
Unread(cp, k) == \A s \in Servers : ~Readable(cp[s][k])

(* What makes a name readable. *)
Justified(k) == k \in committed \/ k \in emptied

CommitsOK == \A f \in Files : AtStep(f, {"commit"}) => f \in committed

(* Every record on its way to be confirmed elsewhere was confirmed when it was read, or is *)
(* None.                                                                                   *)
GivesOK == gives \subseteq Give /\ \A v \in gives : v.key \in Files => Justified(v.key)

NamesOK == \A f \in Files : Unread(copy, f) \/ Justified(f)

IInv == RecordsOK /\ ContactsOK /\ HistoryOK /\ CountsOK /\ JobsOK /\ CommitsOK /\ GivesOK /\ NamesOK

-----------------------------------------------------------------------------
(* Records *)

LEMMA ConfirmedRecord ==
    ASSUME NEW r \in Record
    PROVE  /\ [r EXCEPT !.integrity = TRUE] \in Record
           /\ [r EXCEPT !.integrity = FALSE] \in Record
           /\ ~Readable([r EXCEPT !.integrity = FALSE])
BY DEF Record, Readable

LEMMA WrittenOK ==
    ASSUME NEW cp \in Copies, NEW S, NEW late, NEW k \in Keys, clock \in 0..MaxClock,
           late # {} => clock < MaxClock
    PROVE  /\ Written(cp, S, late, k) \in Copies
           /\ \A j \in Keys : Unread(cp, j) => Unread(Written(cp, S, late, k), j)
<1> DEFINE r(s) == [data |-> TRUE, integrity |-> FALSE, stamp |-> IF s \in late THEN clock + 1 ELSE clock]
<1>1. ASSUME NEW s \in Servers PROVE r(s) \in Record /\ ~Readable(r(s))
  <2>1. (IF s \in late THEN clock + 1 ELSE clock) \in 0..MaxClock
    BY BoundsAssumption
  <2> QED BY <2>1 DEF Record, Readable
<1>2. Written(cp, S, late, k) = [s \in Servers |-> IF s \in S THEN [cp[s] EXCEPT ![k] = r(s)] ELSE cp[s]]
  BY DEF Written
<1> HIDE DEF r
<1> QED BY <1>1, <1>2 DEF Copies, Unread

LEMMA ConfirmedOK ==
    ASSUME NEW cp \in Copies, NEW S, NEW k \in Keys
    PROVE  /\ Confirmed(cp, S, k) \in Copies
           /\ \A j \in Keys \ {k} : Unread(cp, j) => Unread(Confirmed(cp, S, k), j)
<1> DEFINE c(s) == [cp[s] EXCEPT ![k].integrity = TRUE]
<1>1. ASSUME NEW s \in Servers, cp[s][k] # Nothing
      PROVE  c(s) \in [Keys -> Record \cup {Nothing}] /\ \A j \in Keys \ {k} : c(s)[j] = cp[s][j]
  <2>1. cp[s][k] \in Record /\ cp[s] \in [Keys -> Record \cup {Nothing}]
    BY <1>1 DEF Copies
  <2>2. [cp[s][k] EXCEPT !.integrity = TRUE] \in Record
    BY <2>1, ConfirmedRecord
  <2>3. c(s) = [cp[s] EXCEPT ![k] = [cp[s][k] EXCEPT !.integrity = TRUE]]
    OBVIOUS
  <2> QED BY <2>1, <2>2, <2>3
<1>2. Confirmed(cp, S, k) = [s \in Servers |-> IF s \in S /\ cp[s][k] # Nothing THEN c(s) ELSE cp[s]]
  BY DEF Confirmed
<1> HIDE DEF c
<1> QED BY <1>1, <1>2 DEF Copies, Unread

LEMMA RemovedOK ==
    ASSUME NEW cp \in Copies, NEW S, NEW k \in Keys
    PROVE  /\ Removed(cp, S, k) \in Copies
           /\ \A j \in Keys : Unread(cp, j) => Unread(Removed(cp, S, k), j)
<1>1. ASSUME NEW s \in Servers
      PROVE  /\ RemovedAt(cp[s], k) \in [Keys -> Record \cup {Nothing}]
             /\ \A j \in Keys : Readable(RemovedAt(cp[s], k)[j]) => Readable(cp[s][j])
  <2> DEFINE r == cp[s]
  <2>1. r \in [Keys -> Record \cup {Nothing}]
    BY DEF Copies
  <2> HIDE DEF r
  <2>2. CASE k \in Chunks
    BY <2>1, <2>2 DEF RemovedAt, Readable, r
  <2>3. CASE k \notin Chunks /\ (r[k] = Nothing \/ r[k].data)
    BY <2>1, <2>3 DEF RemovedAt, Readable, r
  <2>4. CASE k \notin Chunks /\ ~(r[k] = Nothing \/ r[k].data)
    <3>1. r[k] \in Record
      BY <2>1, <2>4
    <3>2. RemovedAt(r, k) = [r EXCEPT ![k] = [r[k] EXCEPT !.integrity = FALSE]]
      BY <2>4 DEF RemovedAt
    <3> QED BY <2>1, <3>1, <3>2, ConfirmedRecord DEF r
  <2> QED BY <2>2, <2>3, <2>4
<1>2. Removed(cp, S, k) = [s \in Servers |-> IF s \in S THEN RemovedAt(cp[s], k) ELSE cp[s]]
  BY DEF Removed
<1> QED BY <1>1, <1>2 DEF Copies, Unread

LEMMA WithoutOK ==
    ASSUME NEW r \in [Keys -> Record \cup {Nothing}], NEW K
    PROVE  /\ Without(r, K) \in [Keys -> Record \cup {Nothing}]
           /\ \A j \in Keys : Readable(Without(r, K)[j]) => Readable(r[j])
BY DEF Without, Readable

-----------------------------------------------------------------------------
(* Records on their way *)

LEMMA GivingOK ==
    ASSUME NEW s \in Servers, NEW p \in Servers, NEW k \in Keys, NEW r \in Record
    PROVE  Giving(s, p, k, r) \in Give /\ Giving(s, p, k, r).key = k /\ Giving(s, p, k, r).record = r
BY DEF Giving, Give

(* A record that is read with its value is one that was confirmed. *)
LEMMA GotOK ==
    ASSUME NEW r \in Record
    PROVE  Got(r) \in Record /\ (Got(r).data => Readable(r))
<1>1. Got(r) \in Record /\ Got(r).data = (r.data /\ r.integrity)
  BY DEF Got, Record
<1> QED BY <1>1, NothingAssumption DEF Readable

(* What a server may send: a record of its own, with its value only if that is confirmed. *)
Sendable(v) == v \in Give /\ (v.record.data => \E s \in Servers : Readable(copy[s][v.key]))

LEMMA GreetingsOK ==
    ASSUME IInv, NEW s \in Servers, NEW known, NEW P \in SUBSET Servers
    PROVE  \A v \in Greetings(s, known, P) : Sendable(v)
<1> SUFFICES ASSUME NEW v \in Greetings(s, known, P) PROVE Sendable(v)
  OBVIOUS
<1>1. PICK p \in P, k \in Keys : copy[s][k] # Nothing /\ v = Giving(s, p, k, Got(copy[s][k]))
  BY DEF Greetings
<1>2. copy[s][k] \in Record
  BY <1>1 DEF IInv, RecordsOK, Copies
<1>3. Got(copy[s][k]) \in Record /\ (Got(copy[s][k]).data => Readable(copy[s][k]))
  BY <1>2, GotOK
<1>4. v \in Give /\ v.key = k /\ v.record = Got(copy[s][k])
  BY <1>1, <1>3, GivingOK
<1> QED BY <1>3, <1>4 DEF Sendable

LEMMA GivesSent ==
    ASSUME IInv, NEW G, \A v \in G : Sendable(v), NEW D, Gives(G, D), committed' = committed
    PROVE  /\ GivesOK' /\ emptied \subseteq emptied' /\ emptied' \subseteq Keys
           /\ disturbed' \in [Files -> BOOLEAN]
<1>1. PICK some \in SUBSET G :
        /\ gives' = gives \cup some
        /\ emptied' = emptied \cup {v.key : v \in {w \in some : ~w.record.data}}
        /\ disturbed' = [f \in Files |->
              \/ disturbed[f]
              \/ Running(f) /\ (f \in D \/ \E v \in some : v.key \in {f} \cup InFile(f))]
  BY DEF Gives
<1>2. \A v \in some : v \in Give /\ v.key \in Keys
  BY DEF Sendable, Give
<1>3. emptied \subseteq emptied' /\ emptied' \subseteq Keys
  BY <1>1, <1>2 DEF IInv, HistoryOK
<1>4. ASSUME NEW v \in gives', v.key \in Files PROVE Justified(v.key)'
  <2>1. CASE v \in gives
    BY <1>3, <1>4, <2>1 DEF IInv, GivesOK, Justified
  <2>2. CASE v \in some /\ ~v.record.data
    BY <1>1, <2>2 DEF Justified
  <2>3. CASE v \in some /\ v.record.data
    <3>1. ~Unread(copy, v.key)
      BY <2>3 DEF Sendable, Unread
    <3> QED BY <1>3, <1>4, <3>1 DEF IInv, NamesOK, Justified
  <2> QED BY <1>1, <2>1, <2>2, <2>3
<1>5. disturbed' \in [Files -> BOOLEAN]
  <2>1. \A f \in Files : disturbed[f] \in BOOLEAN
    BY DEF IInv, HistoryOK
  <2> DEFINE d(f) == \/ disturbed[f]
                     \/ Running(f) /\ (f \in D \/ \E v \in some : v.key \in {f} \cup InFile(f))
  <2>2. \A f \in Files : d(f) \in BOOLEAN
    BY <2>1
  <2>3. disturbed' = [f \in Files |-> d(f)]
    BY <1>1
  <2> HIDE DEF d
  <2> QED BY <2>2, <2>3
<1>6. gives' \subseteq Give
  BY <1>1, <1>2 DEF IInv, GivesOK
<1> QED BY <1>3, <1>4, <1>5, <1>6 DEF GivesOK

-----------------------------------------------------------------------------
(* The upload of a file *)

LEMMA ContentOK ==
    ASSUME RecordsOK, NEW f \in Files
    PROVE  /\ content[f] \in Seq(Chunks) /\ Len(content[f]) \in Nat
           /\ Empty(f) <=> Len(content[f]) = 0
           /\ InFile(f) \subseteq Chunks
<1>1. content[f] \in Seq(Chunks)
  BY ContentsAssumption DEF RecordsOK
<1> QED BY <1>1, EmptySeq, LenProperties, ElementOfSeq DEF Empty, InFile

(* The last key of a file that an upload is at is that of the metadata, or of a chunk. *)
LEMMA KeyOfOK ==
    ASSUME IInv, NEW f \in Files, Running(f)
    PROVE  /\ KeyOf(f) \in Keys
           /\ KeyOf(f) \in Files => KeyOf(f) = f /\ AtStep(f, {"metadata", "commit"})
           /\ job[f].server \in up /\ job[f].server \in Servers
<1>1. job[f].server \in up /\ job[f].server \in Servers
  BY DEF IInv, JobsOK, JobOK, ContactsOK
<1>2. CASE AtStep(f, {"metadata", "commit"})
  BY <1>1, <1>2 DEF KeyOf, Keys
<1>3. CASE ~AtStep(f, {"metadata", "commit"})
  <2>1. AtStep(f, OverChunks)
    BY <1>3 DEF IInv, JobsOK, Job, Steps, AtStep, Running, OverChunks
  <2>2. job[f].next \in 1..Len(content[f])
    BY <2>1 DEF IInv, JobsOK, JobOK
  <2>3. KeyOf(f) \in Chunks
    BY <1>3, <2>2, ContentOK, ElementOfSeq DEF KeyOf, IInv
  <2> QED BY <1>1, <2>3, KeysAssumption DEF Keys
<1> QED BY <1>2, <1>3

(* What becomes of the upload of f, and of nothing else. *)
LEMMA JobChanged ==
    ASSUME IInv, NEW f \in Files, NEW j \in Job, job' = [job EXCEPT ![f] = j], UNCHANGED <<content, up>>,
           j.step # "idle" => j.server \in up,
           j.step \in OverChunks => j.next \in 1..Len(content[f])
    PROVE  JobsOK'
<1>1. job' \in [Files -> Job] /\ job'[f] = j /\ \A g \in Files \ {f} : job'[g] = job[g]
  BY DEF IInv, JobsOK
<1>2. ASSUME NEW g \in Files PROVE JobOK(g)'
  <2>1. CASE g = f
    BY <1>1, <2>1 DEF JobOK, Running, AtStep
  <2>2. CASE g # f
    BY <1>1, <2>2 DEF IInv, JobsOK, JobOK, Running, AtStep
  <2> QED BY <2>1, <2>2
<1> QED BY <1>1, <1>2 DEF JobsOK

LEMMA NoJobOK == NoJob \in Job /\ NoJob.step = "idle" /\ NoJob.next = 1
BY DEF NoJob, Job, Steps

(* The upload comes to its last step with its chunks confirmed. *)
JobGoes ==
    /\ JobsOK' /\ HistoryOK' /\ CommitsOK' /\ committed \subseteq committed' /\ UNCHANGED emptied

LEMMA NextKeyOK ==
    ASSUME IInv, NEW f \in Files, AtStep(f, OverChunks), ~AtLast(f), NEW ok \in BOOLEAN, NextKey(f, ok),
           UNCHANGED <<content, up>>
    PROVE  JobGoes
<1> DEFINE j == [job[f] EXCEPT !.next = @ + 1, !.ok = ok, !.targets = {}]
<1>1. job[f] \in Job /\ job' = [job EXCEPT ![f] = j]
  BY DEF IInv, JobsOK, NextKey
<1>2. j \in Job /\ j.next = job[f].next + 1 /\ j.server = job[f].server
  <2> DEFINE next == [job[f] EXCEPT !.next = job[f].next + 1]
             decided == [next EXCEPT !.ok = ok]
  <2>1. next \in Job /\ next.next = job[f].next + 1 /\ next.server = job[f].server
    BY <1>1 DEF Job
  <2>2. j = [decided EXCEPT !.targets = {}]
    OBVIOUS
  <2> HIDE DEF next
  <2>3. decided \in Job /\ decided.next = next.next /\ decided.server = next.server
    BY <2>1 DEF Job
  <2> HIDE DEF decided
  <2> HIDE DEF j
  <2> QED BY <2>1, <2>2, <2>3 DEF Job
<1>3. j.step = job[f].step
  BY <1>1 DEF Job
<1>4. job[f].next \in 1..Len(content[f]) /\ job[f].next # Len(content[f]) /\ Len(content[f]) \in Nat
  BY ContentOK DEF IInv, JobsOK, JobOK, AtLast
<1>5. j.next \in 1..Len(content[f])
  BY <1>2, <1>4
<1>6. j.server \in up
  BY <1>2, KeyOfOK DEF AtStep, OverChunks, Running
<1> HIDE DEF j
<1>7. JobsOK'
  BY <1>1, <1>2, <1>5, <1>6, JobChanged
<1>8. UNCHANGED <<answer, disturbed, committed, emptied>>
  BY DEF NextKey, history
<1>9. CommitsOK'
  BY <1>1, <1>3, <1>8 DEF IInv, CommitsOK, JobsOK, AtStep
<1> QED BY <1>7, <1>8, <1>9 DEF IInv, HistoryOK, JobGoes

LEMMA NextStepOK ==
    ASSUME IInv, NEW f \in Files, Running(f), NEW step \in Steps, step \in OverChunks => ~Empty(f),
           NextStep(f, step), UNCHANGED <<content, up>>
    PROVE  JobGoes
<1> DEFINE j == [NoJob EXCEPT !.server = job[f].server, !.step = step]
<1>1. job' = [job EXCEPT ![f] = j]
  BY DEF NextStep
<1>2. job[f].server \in up /\ job[f].server \in Servers
  BY KeyOfOK
<1>3. j \in Job /\ j.next = 1 /\ j.server = job[f].server /\ j.step = step
  BY <1>2, NoJobOK DEF Job, NoJob
<1> HIDE DEF j
<1>4. ~Empty(f) => 1 \in 1..Len(content[f])
  BY ContentOK DEF IInv
<1>5. JobsOK'
  BY <1>1, <1>2, <1>3, <1>4, JobChanged
<1>6. CommitsOK' /\ committed \subseteq committed' /\ committed' \subseteq Files
  BY <1>1, <1>3 DEF IInv, CommitsOK, HistoryOK, JobsOK, NextStep, AtStep
<1> QED BY <1>5, <1>6 DEF NextStep, IInv, HistoryOK, JobGoes

LEMMA AnswersOK ==
    ASSUME IInv, NEW f \in Files, NEW a \in BOOLEAN, Answers(f, a), UNCHANGED <<content, up>>
    PROVE  JobGoes
<1>1. JobsOK'
  BY NoJobOK, JobChanged DEF Answers, OverChunks
<1>2. HistoryOK' /\ UNCHANGED <<committed, emptied>>
  BY DEF Answers, IInv, HistoryOK
<1>3. CommitsOK'
  BY NoJobOK DEF Answers, IInv, CommitsOK, JobsOK, AtStep
<1> QED BY <1>1, <1>2, <1>3 DEF JobGoes

(* Contacts only get lost, or are those that answered. *)
LEMMA ContactsLost ==
    ASSUME IInv, NEW s \in Servers, NEW S \in SUBSET Servers, s \notin S,
           contacts' = [contacts EXCEPT ![s] = S], up' = up, id' = id
    PROVE  ContactsOK'
BY DEF IInv, ContactsOK

LEMMA AnsweredOK ==
    ASSUME NEW s \in Servers, NEW S
    PROVE  Answered(s, S) \in SUBSET Servers /\ s \notin Answered(s, S)
BY DEF Answered, Heard

LEMMA ForgetsOK ==
    ASSUME IInv, NEW s \in Servers, NEW k, Forgets(s, k), up' = up, id' = id
    PROVE  ContactsOK'
<1>1. contacts[s] \ (Asked(s, k) \ up) \in SUBSET Servers /\ s \notin contacts[s] \ (Asked(s, k) \ up)
  BY DEF IInv, ContactsOK
<1> QED BY <1>1, ContactsLost DEF Forgets

(* Only a commit makes a name readable, or the confirmation of a record that was sent. *)
OnlyJustified == \A g \in Files : Unread(copy, g) /\ ~Unread(copy, g)' => Justified(g)

LEMMA KeptUnread ==
    ASSUME NEW cp, copy' = cp, \A j \in Keys : Unread(copy, j) => Unread(cp, j)
    PROVE  OnlyJustified
BY DEF OnlyJustified, Unread, Keys

LEMMA NamesKept ==
    ASSUME IInv, OnlyJustified, committed \subseteq committed', emptied \subseteq emptied'
    PROVE  NamesOK'
BY DEF IInv, NamesOK, OnlyJustified, Justified, Unread

LEMMA GivesKept ==
    ASSUME IInv, gives' \subseteq Give, committed \subseteq committed', emptied \subseteq emptied',
           \A v \in gives' : \E w \in gives : w.key = v.key
    PROVE  GivesOK'
BY DEF IInv, GivesOK, Justified

-----------------------------------------------------------------------------
(* The steps of an upload *)

LEMMA BeginUploadKeeps ==
    ASSUME IInv, NEW f \in Files, NEW s \in Servers, BeginUpload(f, s)
    PROVE  IInv'
<1> DEFINE step == IF Empty(f) THEN "metadata" ELSE "chunks"
           j == [NoJob EXCEPT !.server = s, !.step = step]
<1>1. /\ s \in up /\ uploads < MaxUploads /\ uploads' = uploads + 1 /\ job' = [job EXCEPT ![f] = j]
      /\ UNCHANGED <<content, up, id, working, faults, contacts, clock, copy, gives, committed, emptied>>
  BY DEF BeginUpload, environment
<1>2. j \in Job /\ j.next = 1 /\ j.server = s /\ j.step = step
  BY NoJobOK DEF Job, NoJob, Steps
<1> HIDE DEF j
<1>3. ~Empty(f) => 1 \in 1..Len(content[f])
  BY ContentOK DEF IInv
<1>4. JobsOK'
  BY <1>1, <1>2, <1>3, JobChanged DEF OverChunks
<1>5. CountsOK'
  BY <1>1, BoundsAssumption DEF IInv, CountsOK
<1>6. HistoryOK'
  <2>1. answer' = [answer EXCEPT ![f] = FALSE] /\ disturbed' = [disturbed EXCEPT ![f] = ~Calm(f)]
    BY DEF BeginUpload
  <2> QED BY <1>1, <2>1 DEF IInv, HistoryOK
<1>7. CommitsOK'
  BY <1>1, <1>2 DEF IInv, CommitsOK, JobsOK, AtStep
<1>8. RecordsOK' /\ ContactsOK'
  BY <1>1 DEF IInv, RecordsOK, ContactsOK
<1>9. GivesOK' /\ NamesOK'
  BY <1>1 DEF IInv, GivesOK, NamesOK, Justified, Unread
<1> QED BY <1>4, <1>5, <1>6, <1>7, <1>8, <1>9 DEF IInv

LEMMA MeetsOK ==
    ASSUME IInv, NEW s \in Servers, NEW S, Meets(s, S), UNCHANGED <<up, id, committed>>
    PROVE  /\ ContactsOK' /\ GivesOK' /\ emptied \subseteq emptied' /\ emptied' \subseteq Keys
           /\ disturbed' \in [Files -> BOOLEAN]
<1> DEFINE met == Answered(s, S)
           G == Greetings(s, met, met \ contacts[s])
<1>1. contacts' = [contacts EXCEPT ![s] = met] /\ Gives(G, {})
  BY DEF Meets
<1>2. met \in SUBSET Servers /\ s \notin met
  BY AnsweredOK
<1>3. \A v \in G : Sendable(v)
  BY <1>2, GreetingsOK
<1> HIDE DEF met, G
<1>4. ContactsOK'
  BY <1>1, <1>2, ContactsLost
<1> QED BY <1>1, <1>3, <1>4, GivesSent

LEMMA CrawlKeeps ==
    ASSUME IInv, NEW f \in Files, Crawl(f)
    PROVE  IInv'
<1> DEFINE s == job[f].server
           k == KeyOf(f)
           targets == Found(s, k) \cup
                        (IF Found(s, k) = {} \/ \E n \in Found(s, k) : Nearer(s, n, k) THEN {s} ELSE {})
           j == [job[f] EXCEPT !.targets = targets]
<1>1. /\ job' = [job EXCEPT ![f] = j] /\ Meets(s, contacts[s])
      /\ UNCHANGED <<content, up, id, working, faults, clock, copy, answer, committed, uploads>>
  BY DEF Crawl, environment
<1>2. Running(f)
  BY DEF Crawl, AtStep, Running
<1>3. s \in up /\ s \in Servers
  BY <1>2, KeyOfOK
<1>4. targets \subseteq Servers
  BY <1>3 DEF Found, Nearest, Heard
<1>5. job[f] \in Job /\ JobOK(f)
  BY DEF IInv, JobsOK
<1> HIDE DEF targets
<1>6. j \in Job /\ j.step = job[f].step /\ j.next = job[f].next /\ j.server = s
  BY <1>4, <1>5 DEF Job
<1> HIDE DEF j
<1>7. JobsOK'
  BY <1>1, <1>3, <1>5, <1>6, JobChanged DEF JobOK, AtStep
<1>8. CommitsOK'
  BY <1>1, <1>6 DEF IInv, CommitsOK, JobsOK, AtStep
<1> HIDE DEF s
<1>9. /\ ContactsOK' /\ GivesOK' /\ emptied \subseteq emptied' /\ emptied' \subseteq Keys
      /\ disturbed' \in [Files -> BOOLEAN]
  BY <1>1, <1>3, MeetsOK
<1>10. NamesOK'
  <2>1. OnlyJustified
    BY <1>1, KeptUnread
  <2> QED BY <1>1, <1>9, <2>1, NamesKept
<1>11. RecordsOK' /\ CountsOK' /\ HistoryOK'
  BY <1>1, <1>9 DEF IInv, RecordsOK, CountsOK, HistoryOK
<1> QED BY <1>7, <1>8, <1>9, <1>10, <1>11 DEF IInv

(* The records of one key change; the job and the answers are seen to. *)
LEMMA StepKeeps ==
    ASSUME IInv, NEW cp \in Copies, copy' = cp, clock' \in 0..MaxClock, OnlyJustified,
           UNCHANGED <<content, gives, working, uploads>>, faults' \in 0..MaxFaults, ContactsOK', JobGoes
    PROVE  IInv'
<1>1. GivesOK'
  BY DEF IInv, GivesOK, Justified, JobGoes
<1>2. NamesOK'
  BY NamesKept DEF JobGoes
<1> QED BY <1>1, <1>2 DEF IInv, RecordsOK, CountsOK, JobGoes

LEMMA StoreAtOK ==
    ASSUME IInv, NEW f \in Files, Running(f), NEW S, StoreAt(f, S)
    PROVE  copy' \in Copies /\ clock' \in 0..MaxClock /\ OnlyJustified
<1>1. PICK late \in SUBSET S :
        /\ late # {} => clock < MaxClock
        /\ clock' = IF late = {} THEN clock ELSE clock + 1
        /\ copy' = Written(copy, S, late, KeyOf(f))
  BY DEF StoreAt
<1>2. KeyOf(f) \in Keys
  BY KeyOfOK
<1>3. /\ Written(copy, S, late, KeyOf(f)) \in Copies
      /\ \A j \in Keys : Unread(copy, j) => Unread(Written(copy, S, late, KeyOf(f)), j)
  BY <1>1, <1>2, WrittenOK DEF IInv, RecordsOK
<1>4. clock' \in 0..MaxClock
  BY <1>1, BoundsAssumption DEF IInv, RecordsOK
<1> QED BY <1>1, <1>3, <1>4, KeptUnread

LEMMA StoreOK ==
    ASSUME IInv, NEW f \in Files, Running(f), Store(f)
    PROVE  /\ copy' \in Copies /\ clock' \in 0..MaxClock /\ OnlyJustified /\ ContactsOK'
           /\ UNCHANGED <<content, up, gives, working, uploads>> /\ faults' \in 0..MaxFaults
<1> DEFINE s == job[f].server
<1>1. s \in Servers
  BY KeyOfOK
<1>2. /\ StoreAt(f, Stored(f))
      /\ contacts' = [contacts EXCEPT ![s] = contacts[s] \ (job[f].targets \ up)]
      /\ UNCHANGED <<content, up, id, working, faults, gives, uploads>>
  BY DEF Store, environment
<1>3. contacts[s] \ (job[f].targets \ up) \in SUBSET Servers /\ s \notin contacts[s] \ (job[f].targets \ up)
  BY <1>1 DEF IInv, ContactsOK
<1>4. ContactsOK'
  BY <1>1, <1>2, <1>3, ContactsLost
<1> QED BY <1>2, <1>4, StoreAtOK DEF IInv, CountsOK

LEMMA StoreChunkKeeps ==
    ASSUME IInv, NEW f \in Files, StoreChunk(f)
    PROVE  IInv'
<1>1. Running(f) /\ AtStep(f, OverChunks) /\ Store(f)
  BY DEF StoreChunk, AtStep, Running, OverChunks
<1>2. /\ copy' \in Copies /\ clock' \in 0..MaxClock /\ OnlyJustified /\ ContactsOK'
      /\ UNCHANGED <<content, up, gives, working, uploads>> /\ faults' \in 0..MaxFaults
  BY <1>1, StoreOK
<1>3. ~Empty(f) /\ job[f].ok \in BOOLEAN
  BY <1>1, ContentOK DEF IInv, JobsOK, JobOK, Job
<1>4. \/ ~AtLast(f) /\ \E ok \in BOOLEAN : NextKey(f, ok)
      \/ \E step \in {"metadata", "rollback"} : NextStep(f, step)
  BY <1>3 DEF StoreChunk
<1>5. {"metadata", "rollback"} \subseteq Steps
  BY DEF Steps
<1>6. JobGoes
  BY <1>1, <1>2, <1>3, <1>4, <1>5, NextKeyOK, NextStepOK
<1> QED BY <1>2, <1>6, StepKeeps

LEMMA StoreMetadataKeeps ==
    ASSUME IInv, NEW f \in Files, StoreMetadata(f)
    PROVE  IInv'
<1>1. Running(f) /\ Store(f)
  BY DEF StoreMetadata, AtStep, Running
<1>2. /\ copy' \in Copies /\ clock' \in 0..MaxClock /\ OnlyJustified /\ ContactsOK'
      /\ UNCHANGED <<content, up, gives, working, uploads>> /\ faults' \in 0..MaxFaults
  BY <1>1, StoreOK
<1>3. \/ Empty(f) /\ NextStep(f, "commit")
      \/ ~Empty(f) /\ NextStep(f, "confirm")
      \/ ~Empty(f) /\ NextStep(f, "undo")
      \/ Answers(f, FALSE)
  BY DEF StoreMetadata
<1>4. {"commit", "confirm", "undo"} \subseteq Steps /\ "commit" \notin OverChunks
  BY DEF Steps, OverChunks
<1>5. JobGoes
  BY <1>1, <1>2, <1>3, <1>4, NextStepOK, AnswersOK
<1> QED BY <1>2, <1>5, StepKeeps

LEMMA RollBackOK ==
    ASSUME IInv, NEW f \in Files, Running(f), RollBack(f)
    PROVE  /\ copy' \in Copies /\ clock' \in 0..MaxClock /\ OnlyJustified /\ ContactsOK'
           /\ UNCHANGED <<content, up, gives, working, uploads>> /\ faults' \in 0..MaxFaults
<1> DEFINE s == job[f].server
           S == Asked(s, KeyOf(f)) \cap up
<1>1. s \in Servers /\ KeyOf(f) \in Keys
  BY KeyOfOK
<1>2. /\ copy' = Removed(copy, S, KeyOf(f)) /\ Forgets(s, KeyOf(f))
      /\ UNCHANGED <<content, up, id, working, faults, clock, gives, uploads>>
  BY DEF RollBack, environment
<1> HIDE DEF s, S
<1>3. /\ Removed(copy, S, KeyOf(f)) \in Copies
      /\ \A j \in Keys : Unread(copy, j) => Unread(Removed(copy, S, KeyOf(f)), j)
  BY <1>1, RemovedOK DEF IInv, RecordsOK
<1>4. ContactsOK'
  BY <1>1, <1>2, ForgetsOK
<1> QED BY <1>2, <1>3, <1>4, KeptUnread DEF IInv, CountsOK, RecordsOK

LEMMA RollBackKeeps ==
    ASSUME IInv, NEW f \in Files, RollBackChunks(f) \/ UndoChunks(f)
    PROVE  IInv'
<1>1. Running(f) /\ AtStep(f, OverChunks) /\ RollBack(f)
  BY DEF RollBackChunks, UndoChunks, AtStep, Running, OverChunks
<1>2. /\ copy' \in Copies /\ clock' \in 0..MaxClock /\ OnlyJustified /\ ContactsOK'
      /\ UNCHANGED <<content, up, gives, working, uploads>> /\ faults' \in 0..MaxFaults
  BY <1>1, RollBackOK
<1>3. \/ ~AtLast(f) /\ NextKey(f, TRUE)
      \/ NextStep(f, "metadata")
      \/ Answers(f, FALSE)
  BY DEF RollBackChunks, UndoChunks
<1>4. "metadata" \in Steps /\ "metadata" \notin OverChunks
  BY DEF Steps, OverChunks
<1>5. JobGoes
  BY <1>1, <1>2, <1>3, <1>4, NextKeyOK, NextStepOK, AnswersOK
<1> QED BY <1>2, <1>5, StepKeeps

(* A confirmation makes no name readable, but at the last step that of the file. *)
LEMMA ConfirmedOnly ==
    ASSUME IInv, NEW f \in Files, AtStep(f, {"confirm", "commit"}), NEW S, copy' = Confirmed(copy, S, KeyOf(f))
    PROVE  copy' \in Copies /\ OnlyJustified
<1>1. Running(f)
  BY DEF AtStep, Running
<1>2. KeyOf(f) \in Keys /\ (KeyOf(f) \in Files => KeyOf(f) = f /\ AtStep(f, {"metadata", "commit"}))
  BY <1>1, KeyOfOK
<1>3. /\ Confirmed(copy, S, KeyOf(f)) \in Copies
      /\ \A j \in Keys \ {KeyOf(f)} : Unread(copy, j) => Unread(Confirmed(copy, S, KeyOf(f)), j)
  BY <1>2, ConfirmedOK DEF IInv, RecordsOK
<1>4. ASSUME NEW g \in Files, Unread(copy, g), ~Unread(copy, g)' PROVE Justified(g)
  <2>1. g \in Keys /\ g = KeyOf(f)
    BY <1>3, <1>4 DEF Unread, Keys
  <2>2. g = f /\ AtStep(f, {"metadata", "commit"})
    BY <1>2, <2>1
  <2>3. AtStep(f, {"commit"})
    BY <2>2 DEF AtStep
  <2> QED BY <2>2, <2>3 DEF IInv, CommitsOK, Justified
<1> QED BY <1>3, <1>4 DEF OnlyJustified

LEMMA ConfirmKeeps ==
    ASSUME IInv, NEW f \in Files, ConfirmChunk(f) \/ ConfirmMetadata(f)
    PROVE  IInv'
<1> DEFINE s == job[f].server
<1>1. Running(f) /\ Confirm(f) /\ AtStep(f, {"confirm", "commit"})
  BY DEF ConfirmChunk, ConfirmMetadata, AtStep, Running
<1>2. PICK S : copy' = Confirmed(copy, S, KeyOf(f))
  BY <1>1 DEF Confirm
<1>3. /\ s \in Servers /\ Forgets(s, KeyOf(f))
      /\ UNCHANGED <<content, up, id, working, faults, clock, gives, uploads>>
  BY <1>1, KeyOfOK DEF Confirm, environment
<1>4. ContactsOK' /\ faults' \in 0..MaxFaults /\ clock' \in 0..MaxClock
  BY <1>3, ForgetsOK DEF IInv, CountsOK, RecordsOK
<1>5. copy' \in Copies /\ OnlyJustified
  BY <1>1, <1>2, ConfirmedOnly
<1>6. job[f].ok \in BOOLEAN
  BY DEF IInv, JobsOK, Job
<1>7. \/ AtStep(f, OverChunks) /\ ~AtLast(f) /\ \E ok \in BOOLEAN : NextKey(f, ok)
      \/ NextStep(f, "commit")
      \/ \E a \in BOOLEAN : Answers(f, a)
  BY <1>6 DEF ConfirmChunk, ConfirmMetadata, AtStep, OverChunks
<1>8. "commit" \in Steps /\ "commit" \notin OverChunks
  BY DEF Steps, OverChunks
<1>9. JobGoes
  BY <1>1, <1>3, <1>7, <1>8, NextKeyOK, NextStepOK, AnswersOK
<1> QED BY <1>3, <1>4, <1>5, <1>9, StepKeeps

LEMMA RaisesKeeps ==
    ASSUME IInv, NEW f \in Files, Raises(f)
    PROVE  IInv'
<1>1. /\ Running(f) /\ faults < MaxFaults /\ faults' = faults + 1 /\ Answers(f, FALSE)
      /\ UNCHANGED <<content, up, id, working, contacts, gives, uploads>>
  BY DEF Raises
<1>2. KeyOf(f) \in Keys /\ copy \in Copies /\ clock \in 0..MaxClock
  BY <1>1, KeyOfOK DEF IInv, RecordsOK
<1>3. copy' \in Copies /\ clock' \in 0..MaxClock /\ OnlyJustified
  <2>1. CASE AtStep(f, {"chunks", "metadata"})
    <3>1. PICK S : StoreAt(f, S)
      BY <2>1 DEF Raises
    <3> QED BY <1>1, <3>1, StoreAtOK
  <2>2. CASE AtStep(f, {"rollback", "undo"})
    <3>1. PICK S : copy' = Removed(copy, S, KeyOf(f)) /\ clock' = clock
      BY <2>2 DEF Raises, AtStep
    <3> QED BY <1>2, <3>1, RemovedOK, KeptUnread
  <2>3. CASE AtStep(f, {"confirm", "commit"})
    <3>1. PICK S : copy' = Confirmed(copy, S, KeyOf(f)) /\ clock' = clock
      BY <2>3 DEF Raises, AtStep
    <3> QED BY <1>2, <2>3, <3>1, ConfirmedOnly
  <2>4. job[f].step \in Steps
    BY DEF IInv, JobsOK, Job
  <2> QED BY <1>1, <2>1, <2>2, <2>3, <2>4 DEF AtStep, Running, Steps
<1>4. faults' \in 0..MaxFaults
  BY <1>1, BoundsAssumption DEF IInv, CountsOK
<1>5. ContactsOK'
  BY <1>1 DEF IInv, ContactsOK
<1> QED BY <1>1, <1>3, <1>4, <1>5, AnswersOK, StepKeeps

-----------------------------------------------------------------------------
(* Deletion, cleaning, republishing and pushing *)

(* The uploads that run are as they were. *)
LEMMA OthersKeep ==
    ASSUME IInv, copy' \in Copies, OnlyJustified,
           UNCHANGED <<content, up, job, clock, working, uploads, faults, committed>>, emptied \subseteq emptied',
           ContactsOK', HistoryOK', GivesOK'
    PROVE  IInv'
<1>1. JobsOK' /\ CommitsOK'
  BY DEF IInv, JobsOK, JobOK, CommitsOK, Running, AtStep
<1>2. NamesOK'
  BY NamesKept
<1> QED BY <1>1, <1>2 DEF IInv, RecordsOK, CountsOK

LEMMA DeleteKeeps ==
    ASSUME IInv, NEW f \in Files, NEW s \in Servers, Delete(f, s)
    PROVE  IInv'
<1>1. PICK S : copy' = Removed(copy, S, f)
  BY DEF Delete
<1>2. UNCHANGED contacts \/ Forgets(s, f)
  BY DEF Delete
<1>3. UNCHANGED <<content, up, id, working, faults, clock, job, gives, committed, emptied, uploads>>
  BY DEF Delete, environment
<1>4. ContactsOK'
  BY <1>2, <1>3, ForgetsOK DEF IInv, ContactsOK
<1>5. HistoryOK'
  BY <1>3 DEF Delete, IInv, HistoryOK, Running
<1>6. Removed(copy, S, f) \in Copies /\ \A j \in Keys : Unread(copy, j) => Unread(Removed(copy, S, f), j)
  BY RemovedOK DEF IInv, RecordsOK, Keys
<1>7. OnlyJustified
  BY <1>1, <1>6, KeptUnread
<1>8. GivesOK'
  BY <1>3 DEF IInv, GivesOK, Justified
<1> QED BY <1>1, <1>3, <1>4, <1>5, <1>6, <1>7, <1>8, OthersKeep

LEMMA CleanKeeps ==
    ASSUME IInv, NEW s \in Servers, Clean(s)
    PROVE  IInv'
<1>1. PICK K : copy' = [copy EXCEPT ![s] = Without(copy[s], K)]
  BY DEF Clean
<1>2. /\ UNCHANGED <<content, up, id, working, faults, contacts, clock, job, gives, uploads>>
      /\ UNCHANGED <<answer, disturbed, committed, emptied>>
  BY DEF Clean, environment, history
<1> DEFINE cp == [copy EXCEPT ![s] = Without(copy[s], K)]
<1>3. copy \in Copies /\ copy[s] \in [Keys -> Record \cup {Nothing}]
  BY DEF IInv, RecordsOK, Copies
<1>4. /\ Without(copy[s], K) \in [Keys -> Record \cup {Nothing}]
      /\ \A j \in Keys : Readable(Without(copy[s], K)[j]) => Readable(copy[s][j])
  BY <1>3, WithoutOK
<1>5. cp \in Copies /\ \A j \in Keys : Unread(copy, j) => Unread(cp, j)
  BY <1>3, <1>4 DEF Copies, Unread
<1>6. OnlyJustified
  BY <1>1, <1>5, KeptUnread
<1>7. ContactsOK' /\ HistoryOK' /\ GivesOK'
  BY <1>2 DEF IInv, ContactsOK, HistoryOK, GivesOK, Justified
<1> QED BY <1>1, <1>2, <1>5, <1>6, <1>7, OthersKeep

LEMMA RepublishKeeps ==
    ASSUME IInv, NEW s \in Servers, NEW k \in Keys, Republish(s, k)
    PROVE  IInv'
<1> DEFINE met == Answered(s, contacts[s])
           greetings == Greetings(s, met, met \ contacts[s])
           sent == {Giving(s, n, k, copy[s][k]) : n \in Found(s, k)}
<1>1. /\ Readable(copy[s][k]) /\ contacts' = [contacts EXCEPT ![s] = met] /\ Gives(greetings \cup sent, {})
      /\ UNCHANGED <<content, up, id, working, faults, clock, copy, job, answer, committed, uploads>>
  BY DEF Republish, environment
<1>2. copy \in Copies /\ copy[s][k] \in Record
  BY <1>1 DEF IInv, RecordsOK, Copies, Readable
<1>3. met \in SUBSET Servers /\ s \notin met
  BY AnsweredOK
<1>4. \A v \in greetings : Sendable(v)
  BY <1>3, GreetingsOK
<1>5. ASSUME NEW v \in sent PROVE Sendable(v)
  <2>1. PICK n \in Servers : v = Giving(s, n, k, copy[s][k])
    BY DEF Found, Nearest, Heard
  <2> QED BY <1>1, <1>2, <2>1, GivingOK DEF Sendable
<1> HIDE DEF met, greetings, sent
<1>6. GivesOK' /\ emptied \subseteq emptied' /\ emptied' \subseteq Keys /\ disturbed' \in [Files -> BOOLEAN]
  <2>1. \A v \in greetings \cup sent : Sendable(v)
    BY <1>4, <1>5
  <2> QED BY <1>1, <2>1, GivesSent
<1>7. ContactsOK'
  BY <1>1, <1>3, ContactsLost
<1>8. HistoryOK'
  BY <1>1, <1>6 DEF IInv, HistoryOK
<1>9. OnlyJustified
  BY <1>1, KeptUnread
<1> QED BY <1>1, <1>2, <1>6, <1>7, <1>8, <1>9, OthersKeep

(* A record that is sent goes through its steps with its key. *)
LEMMA GiveKeeps ==
    ASSUME IInv, NEW v \in gives, GiveStep(v)
    PROVE  IInv'
<1>1. /\ v \in Give /\ v.from \in Servers /\ v.to \in Servers /\ v.key \in Keys /\ v.record \in Record
      /\ v.key \in Files => Justified(v.key)
  BY DEF IInv, GivesOK, Give
<1>2. UNCHANGED <<content, up, id, working, faults, clock, job, uploads, answer, disturbed, committed, emptied>>
  BY DEF GiveStep, GiveCheck, GiveStore, GiveConfirm, environment, history
<1>3. HistoryOK'
  BY <1>2 DEF IInv, HistoryOK
<1>4. ASSUME NEW step \in {"check", "store", "confirm"}
      PROVE  [v EXCEPT !.step = step] \in Give /\ [v EXCEPT !.step = step].key = v.key
  BY <1>1 DEF Give
<1>5. GivesOK'
  <2>1. gives' \subseteq (gives \ {v}) \cup {[v EXCEPT !.step = "store"], [v EXCEPT !.step = "confirm"]}
    BY DEF GiveStep, GiveCheck, GiveStore, GiveConfirm
  <2>2. gives' \subseteq Give
    BY <1>4, <2>1 DEF IInv, GivesOK
  <2>3. \A w \in gives' : \E u \in gives : u.key = w.key
    BY <1>4, <2>1
  <2> QED BY <1>2, <2>2, <2>3, GivesKept
<1>6. copy \in Copies
  BY DEF IInv, RecordsOK
<1>7. CASE GiveCheck(v)
  <2>1. copy' = copy /\ (contacts' = contacts \/ contacts' = [contacts EXCEPT ![v.from] = contacts[v.from] \ {v.to}])
    BY <1>7 DEF GiveCheck
  <2>2. contacts[v.from] \ {v.to} \in SUBSET Servers /\ v.from \notin contacts[v.from] \ {v.to}
    BY <1>1 DEF IInv, ContactsOK
  <2>3. ContactsOK'
    BY <1>1, <1>2, <2>1, <2>2, ContactsLost DEF IInv, ContactsOK
  <2>4. OnlyJustified
    BY <2>1, KeptUnread
  <2> QED BY <1>2, <1>3, <1>5, <1>6, <2>1, <2>3, <2>4, OthersKeep
<1>8. CASE GiveStore(v)
  <2> DEFINE r == [v.record EXCEPT !.integrity = FALSE]
  <2>1. copy' = [copy EXCEPT ![v.to][v.key] = r] /\ contacts' = contacts
    BY <1>8 DEF GiveStore
  <2>2. r \in Record /\ ~Readable(r)
    BY <1>1, ConfirmedRecord
  <2> HIDE DEF r
  <2>3. copy' \in Copies /\ \A j \in Keys : Unread(copy, j) => Unread(copy', j)
    BY <1>1, <1>6, <2>1, <2>2 DEF Copies, Unread
  <2>4. OnlyJustified
    BY <2>3, KeptUnread
  <2>5. ContactsOK'
    BY <1>2, <2>1 DEF IInv, ContactsOK
  <2> QED BY <1>2, <1>3, <1>5, <2>3, <2>4, <2>5, OthersKeep
<1>9. CASE GiveConfirm(v)
  <2>1. copy' = Confirmed(copy, {v.to}, v.key) /\ contacts' = contacts
    BY <1>9 DEF GiveConfirm
  <2>2. /\ copy' \in Copies
        /\ \A j \in Keys \ {v.key} : Unread(copy, j) => Unread(copy', j)
    BY <1>1, <1>6, <2>1, ConfirmedOK
  <2>3. OnlyJustified
    BY <1>1, <2>2 DEF OnlyJustified, Unread, Keys
  <2>4. ContactsOK'
    BY <1>2, <2>1 DEF IInv, ContactsOK
  <2> QED BY <1>2, <1>3, <1>5, <2>2, <2>3, <2>4, OthersKeep
<1> QED BY <1>7, <1>8, <1>9 DEF GiveStep

-----------------------------------------------------------------------------
(* Servers come and go *)

LEMMA CrashKeeps ==
    ASSUME IInv, NEW s \in Servers, Crash(s)
    PROVE  IInv'
<1>1. /\ s \in up /\ up' = up \ {s} /\ contacts' = [contacts EXCEPT ![s] = {}]
      /\ job' = [f \in Files |-> IF job[f].server = s THEN NoJob ELSE job[f]]
      /\ gives' \subseteq gives /\ working' \in {working, FALSE}
      /\ faults < MaxFaults /\ faults' = faults + 1
      /\ UNCHANGED <<content, id, clock, copy, committed, emptied, uploads, answer>>
  BY DEF Crash
<1>2. RecordsOK' /\ ContactsOK'
  BY <1>1 DEF IInv, RecordsOK, ContactsOK
<1>3. CountsOK'
  <2>1. working' \in BOOLEAN
    BY <1>1 DEF IInv, CountsOK
  <2>2. faults' \in 0..MaxFaults /\ uploads' \in 0..MaxUploads
    BY <1>1, BoundsAssumption DEF IInv, CountsOK
  <2> QED BY <2>1, <2>2 DEF CountsOK
<1>4. HistoryOK'
  <2>1. disturbed' \in [Files -> BOOLEAN]
    BY DEF Crash
  <2> QED BY <1>1, <2>1 DEF IInv, HistoryOK
<1>5. job' \in [Files -> Job]
  BY <1>1, NoJobOK DEF IInv, JobsOK
<1>6. ASSUME NEW f \in Files PROVE JobOK(f)' /\ (AtStep(f, {"commit"}) => f \in committed)'
  <2>1. CASE job[f].server = s
    <3>1. job'[f] = NoJob
      BY <1>1, <2>1
    <3> QED BY <3>1, NoJobOK DEF JobOK, Running, AtStep, OverChunks
  <2>2. CASE job[f].server # s
    <3>1. job'[f] = job[f] /\ JobOK(f) /\ (AtStep(f, {"commit"}) => f \in committed)
      BY <1>1, <2>2 DEF IInv, JobsOK, CommitsOK
    <3> QED BY <1>1, <2>2, <3>1 DEF JobOK, Running, AtStep
  <2> QED BY <2>1, <2>2
<1>7. JobsOK' /\ CommitsOK'
  BY <1>5, <1>6 DEF JobsOK, CommitsOK
<1>8. GivesOK' /\ NamesOK'
  BY <1>1 DEF IInv, GivesOK, NamesOK, Justified, Unread
<1> QED BY <1>2, <1>3, <1>4, <1>7, <1>8 DEF IInv

LEMMA StartKeeps ==
    ASSUME IInv, NEW s \in Servers, Start(s)
    PROVE  IInv'
<1>1. /\ up' = up \cup {s} /\ \E i \in Ids : id' = [id EXCEPT ![s] = i]
      /\ UNCHANGED <<content, working, faults, contacts, clock, copy, job, gives, answer, committed,
                     emptied, uploads>>
  BY DEF Start
<1>2. disturbed' \in [Files -> BOOLEAN]
  BY DEF Start, Disturbs
<1>3. JobsOK' /\ CommitsOK'
  BY <1>1 DEF IInv, JobsOK, JobOK, CommitsOK, Running, AtStep
<1>4. RecordsOK' /\ ContactsOK' /\ CountsOK'
  BY <1>1 DEF IInv, RecordsOK, ContactsOK, CountsOK
<1>5. HistoryOK'
  BY <1>1, <1>2 DEF IInv, HistoryOK
<1>6. GivesOK' /\ NamesOK'
  BY <1>1 DEF IInv, GivesOK, NamesOK, Justified, Unread
<1> QED BY <1>3, <1>4, <1>5, <1>6 DEF IInv

LEMMA JoinKeeps ==
    ASSUME IInv, NEW s \in Servers, NEW m \in Servers, Join(s, m)
    PROVE  IInv'
<1> DEFINE met == Answered(s, {m} \cup contacts[m])
           here == Greetings(m, contacts[m] \cup {s}, {s} \ contacts[m])
           there == Greetings(s, met, met)
<1>1. /\ m # s /\ contacts' = [contacts EXCEPT ![s] = met, ![m] = contacts[m] \cup {s}]
      /\ Gives(here \cup there, Files)
      /\ UNCHANGED <<content, up, id, working, faults, clock, copy, job, answer, committed, uploads>>
  <2>1. m # s /\ contacts' = [contacts EXCEPT ![s] = met, ![m] = @ \cup {s}]
    BY DEF Join
  <2>2. contacts \in [Servers -> SUBSET Servers]
    BY DEF IInv, ContactsOK
  <2>3. contacts' = [contacts EXCEPT ![s] = met, ![m] = contacts[m] \cup {s}]
    BY <2>1, <2>2
  <2> QED BY <2>1, <2>3 DEF Join, environment
<1>2. met \in SUBSET Servers /\ s \notin met
  BY AnsweredOK
<1>3. \A v \in here \cup there : Sendable(v)
  <2>1. {s} \ contacts[m] \in SUBSET Servers
    OBVIOUS
  <2>2. \A v \in here : Sendable(v)
    BY <2>1, GreetingsOK
  <2>3. \A v \in there : Sendable(v)
    BY <1>2, GreetingsOK
  <2> QED BY <2>2, <2>3
<1> HIDE DEF met, here, there
<1>4. ContactsOK'
  BY <1>1, <1>2 DEF IInv, ContactsOK
<1>5. GivesOK' /\ emptied \subseteq emptied' /\ emptied' \subseteq Keys /\ disturbed' \in [Files -> BOOLEAN]
  BY <1>1, <1>3, GivesSent
<1>6. HistoryOK'
  BY <1>1, <1>5 DEF IInv, HistoryOK
<1>7. OnlyJustified /\ copy' \in Copies
  BY <1>1, KeptUnread DEF IInv, RecordsOK
<1> QED BY <1>1, <1>4, <1>5, <1>6, <1>7, OthersKeep

LEMMA TickKeeps ==
    ASSUME IInv, Tick
    PROVE  IInv'
<1>1. /\ clock' \in 0..MaxClock
      /\ UNCHANGED <<content, up, id, working, faults, contacts, copy, job, gives, uploads>>
      /\ UNCHANGED <<answer, disturbed, committed, emptied>>
  BY BoundsAssumption DEF Tick, environment, history, IInv, RecordsOK
<1>2. RecordsOK' /\ ContactsOK' /\ HistoryOK' /\ CountsOK'
  BY <1>1 DEF IInv, RecordsOK, ContactsOK, HistoryOK, CountsOK
<1>3. JobsOK' /\ CommitsOK'
  BY <1>1 DEF IInv, JobsOK, JobOK, CommitsOK, Running, AtStep
<1>4. GivesOK' /\ NamesOK'
  BY <1>1 DEF IInv, GivesOK, NamesOK, Justified, Unread
<1> QED BY <1>2, <1>3, <1>4 DEF IInv

LEMMA InitHolds == Init => IInv
<1> SUFFICES ASSUME Init PROVE IInv
  OBVIOUS
<1>1. RecordsOK
  BY BoundsAssumption DEF Init, RecordsOK, Copies
<1>2. ContactsOK
  BY NobodyAssumption, KeysAssumption DEF Init, ContactsOK
<1>3. CountsOK /\ HistoryOK
  BY BoundsAssumption DEF Init, CountsOK, HistoryOK
<1>4. JobsOK /\ CommitsOK
  BY NoJobOK DEF Init, JobsOK, JobOK, CommitsOK, Running, AtStep, OverChunks
<1>5. GivesOK /\ NamesOK
  BY DEF Init, GivesOK, NamesOK, Unread, Readable, Keys
<1> QED BY <1>1, <1>2, <1>3, <1>4, <1>5 DEF IInv

LEMMA NextKeeps == IInv /\ Next => IInv'
<1> SUFFICES ASSUME IInv, Next PROVE IInv'
  OBVIOUS
<1>1. ASSUME NEW f \in Files, UploadStep(f) PROVE IInv'
  BY <1>1, CrawlKeeps, StoreChunkKeeps, StoreMetadataKeeps, RollBackKeeps, ConfirmKeeps DEF UploadStep
<1>2. ASSUME NEW f \in Files, Raises(f) PROVE IInv'
  BY <1>2, RaisesKeeps
<1>3. ASSUME NEW f \in Files, NEW s \in Servers, BeginUpload(f, s) \/ Delete(f, s) PROVE IInv'
  BY <1>3, BeginUploadKeeps, DeleteKeeps
<1>4. ASSUME NEW s \in Servers, Clean(s) \/ Crash(s) \/ Start(s) PROVE IInv'
  BY <1>4, CleanKeeps, CrashKeeps, StartKeeps
<1>5. ASSUME NEW s \in Servers, NEW k \in Keys, Republish(s, k) PROVE IInv'
  BY <1>5, RepublishKeeps
<1>6. ASSUME NEW s \in Servers, NEW m \in Servers, Join(s, m) PROVE IInv'
  BY <1>6, JoinKeeps
<1>7. ASSUME NEW v \in gives, GiveStep(v) PROVE IInv'
  BY <1>7, GiveKeeps
<1>8. CASE Tick
  BY <1>8, TickKeeps
<1> QED BY <1>1, <1>2, <1>3, <1>4, <1>5, <1>6, <1>7, <1>8 DEF Next

LEMMA StutterKeeps == IInv /\ UNCHANGED vars => IInv'
BY DEF IInv, RecordsOK, ContactsOK, HistoryOK, CountsOK, JobsOK, JobOK, CommitsOK, GivesOK, NamesOK,
       Justified, Unread, Running, AtStep, vars, environment, history

LEMMA Invariance == Spec => []IInv
<1>1. Init => IInv
  BY InitHolds
<1>2. IInv /\ [Next]_vars => IInv'
  BY NextKeeps, StutterKeeps
<1> QED BY <1>1, <1>2, PTL DEF Spec

-----------------------------------------------------------------------------
(* Theorems *)

(* Every variable has its type: an upload runs on a server that runs and is at a key of   *)
(* its file, and no server is its own contact.                                             *)
THEOREM TypeCorrect == Spec => []TypeOK
<1>1. ASSUME IInv PROVE TypeOK
  <2>1. \A f \in Files : Running(f) => job[f].server \in up /\ KeyOf(f) \in Keys
    BY <1>1, KeyOfOK
  <2> QED BY <1>1, <2>1 DEF IInv, RecordsOK, ContactsOK, HistoryOK, CountsOK, JobsOK, GivesOK, Copies, TypeOK
<1>2. IInv => TypeOK
  BY <1>1
<1> QED BY <1>2, Invariance, PTL

(* A name is readable only once an upload of it has confirmed all its chunks, or a push   *)
(* has taken None for its metadata: no upload that failed or broke off, cleaner,           *)
(* republisher, deletion, crash or server that joins makes it readable, however the steps  *)
(* that read, check, store and confirm a record elsewhere interleave with them.            *)
THEOREM ReadableIsCommitted == Spec => []ReadableMeansCommitted
<1>1. ASSUME IInv PROVE ReadableMeansCommitted
  BY <1>1 DEF IInv, NamesOK, Unread, Justified, ReadableMeansCommitted, Held
<1>2. IInv => ReadableMeansCommitted
  BY <1>1
<1> QED BY <1>2, Invariance, PTL
=============================================================================
