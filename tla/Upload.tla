------------------------------- MODULE Upload -------------------------------
(***************************************************************************)
(* Files of several chunks on several servers: ServerService.upload_file   *)
(* with its rollback, ServerService.delete, the cleaner, the republishing  *)
(* of records and the push of stored records to servers newly met          *)
(* (src/kade_drive/core/network.py, protocol.py, storage.py).  Files may   *)
(* share chunks, whose key is their digest.  Servers stop, also in the     *)
(* middle of a call, start again with their disk and a new identifier, and *)
(* join while uploads are under way.  A step of an upload is what          *)
(* upload_file does with one key; a republished or pushed record is read,  *)
(* checked, stored and confirmed in steps of their own.                    *)
(* Abstracted: the values (a chunk's key says it all, and each name is     *)
(* uploaded with one content), the races inside one set_digest of an       *)
(* upload and the trimming by find_replicas, which Replication is about,   *)
(* and the order of the crawl's rounds, which SpiderCrawl is about.        *)
(***************************************************************************)
EXTENDS Naturals, Sequences, FiniteSets

CONSTANTS
    Servers,        \* named by their first identifiers
    Ids,            \* the identifiers servers may have
    Files,          \* names of files; also the keys of their metadata
    Chunks,         \* keys of chunks
    Contents,       \* what clients may upload: functions from Files to Seq(Chunks)
    Distance,       \* of an identifier to a key
    PushDistance,   \* of an identifier to the digest of a key, which wellcome_if_new takes
    KSize,          \* replication factor (ksize)
    Nothing,        \* no record
    Nobody,         \* no server
    Met,            \* the servers that run and know each other at first
    Slow,           \* whether an upload may take longer than the ttl
    MaxClock,       \* bound: the clock stops there
    MaxUploads,     \* bound: uploads begun
    MaxFaults,      \* bound: servers that stop
    MaxGives        \* bound: records on their way to another server at once
Keys == Files \cup Chunks

ASSUME KeysAssumption == Files \cap Chunks = {} /\ IsFiniteSet(Servers) /\ Servers \subseteq Ids
ASSUME ContentsAssumption == Contents \subseteq [Files -> Seq(Chunks)]
ASSUME DistanceAssumption ==
    Distance \in [Keys -> [Ids -> Nat]] /\ PushDistance \in [Keys -> [Ids -> Nat]]
ASSUME KSizeAssumption == KSize \in Nat \ {0}
ASSUME BoundsAssumption ==
    /\ MaxClock \in Nat /\ MaxUploads \in Nat /\ MaxFaults \in Nat /\ MaxGives \in Nat
    /\ Slow \in BOOLEAN
ASSUME NobodyAssumption == Nobody \notin Servers /\ Met \subseteq Servers

VARIABLES
    content,    \* the chunks of each file
    up,         \* the servers that run
    id,         \* the identifier of each server
    contacts,   \* the other servers in each routing table
    clock,      \* seconds
    copy,       \* the record each server stores under each key
    job,        \* the upload of each file
    gives,      \* the records that servers have read to store them elsewhere
    working,    \* whether no server's refresh thread has ended or is kept from cleaning
    answer,     \* upload_file last answered True for the file, which was not deleted since
    disturbed,  \* history: the last upload of the file began when it was not calm, or a server
                \* came or went or sent a record of the file to another while it ran
    committed,  \* history: the files of which an upload has confirmed every chunk
    emptied,    \* history: the keys of which a server has pushed None
    uploads,
    faults

environment == <<content, up, id, working, faults>>
history == <<answer, disturbed, committed, emptied>>
vars == <<environment, contacts, clock, copy, job, gives, history, uploads>>

-----------------------------------------------------------------------------
(* Records                                                                 *)

\* `data` is false for a record whose value is None.
Record == [data : BOOLEAN, integrity : BOOLEAN, stamp : 0..MaxClock]

\* None is no record.
ASSUME NothingAssumption == Nothing \notin Record

Readable(r) == r # Nothing /\ r.data /\ r.integrity
Unconfirmed(r) == r # Nothing /\ ~r.integrity

InFile(f) == {content[f][i] : i \in DOMAIN content[f]}

\* A record stored is confirmed at once.
WrittenMutant(cp, S, late, k) ==
    [s \in Servers |->
        IF s \in S
        THEN [cp[s] EXCEPT ![k] = [data |-> TRUE, integrity |-> TRUE,
                                   stamp |-> IF s \in late THEN clock + 1 ELSE clock]]
        ELSE cp[s]]

\* set_value at the servers S, each of which stamps the second it is in: at those of `late`
\* the next one has begun.
Written(cp, S, late, k) ==
    [s \in Servers |->
        IF s \in S
        THEN [cp[s] EXCEPT ![k] = [data |-> TRUE, integrity |-> FALSE,
                                   stamp |-> IF s \in late THEN clock + 1 ELSE clock]]
        ELSE cp[s]]

\* confirm_integrity at the servers S; of a record that is not there it does nothing.
Confirmed(cp, S, k) ==
    [s \in Servers |->
        IF s \in S /\ cp[s][k] # Nothing
        THEN [cp[s] EXCEPT ![k].integrity = TRUE]
        ELSE cp[s]]

\* _delete_data of a chunk, or of metadata together with the chunks it names.  Metadata
\* without value is marked and then raises on the missing value.
RemovedAt(records, k) ==
    IF k \in Chunks
    THEN [records EXCEPT ![k] = Nothing]
    ELSE IF records[k] = Nothing
         THEN records
         ELSE IF records[k].data
              THEN [j \in Keys |-> IF j \in {k} \cup InFile(k) THEN Nothing ELSE records[j]]
              ELSE [records EXCEPT ![k].integrity = FALSE]

Removed(cp, S, k) == [s \in Servers |-> IF s \in S THEN RemovedAt(cp[s], k) ELSE cp[s]]

\* it_is_necessary_to_write with a time of its own
Necessary(stamp, r) == r = Nothing \/ r.stamp < stamp

-----------------------------------------------------------------------------
(* Meeting servers                                                         *)

\* The ksize nearest of the servers S
Nearest(S, k, distance) ==
    {s \in S : Cardinality({t \in S : distance[k][id[t]] < distance[k][id[s]]}) < KSize}

Nearer(s, n, k) == Distance[k][id[s]] < Distance[k][id[n]]

\* Whom a crawl that starts from the contacts S hears of, from servers that answer.
Heard(S) ==
    {p \in Servers : \A H \in SUBSET Servers :
        S \subseteq H /\ (\A q \in H \cap up : contacts[q] \subseteq H) => p \in H}

\* A server keeps itself in its routing table.
AnsweredMutant(s, S) == Heard(S) \cap up

\* Who answered a crawl of s; its routing table keeps them and forgets the others.
Answered(s, S) == (Heard(S) \cap up) \ {s}

\* What a crawl of s for k returns: a server that knows nobody answers the empty list,
\* which does not count.
Found(s, k) == Nearest({p \in Heard(contacts[s]) \cap up : contacts[p] # {}}, k, Distance)

Running(f) == job[f].step # "idle"

-----------------------------------------------------------------------------
(* Records on their way                                                    *)

Give ==
    [from : Servers, to : Servers, key : Keys, record : Record,
     step : {"check", "store", "confirm"}]

Giving(s, p, k, r) == [from |-> s, to |-> p, key |-> k, record |-> r, step |-> "check"]

\* The server goes on with some of what it has read; an exception ends the rest.  That disturbs
\* the uploads of these keys, and those of D.
Gives(G, D) ==
    \E some \in SUBSET G :
        /\ Cardinality(gives \cup some) <= MaxGives
        /\ gives' = gives \cup some
        /\ disturbed' = [f \in Files |->
              \/ disturbed[f]
              \/ Running(f) /\ (f \in D \/ \E v \in some : v.key \in {f} \cup InFile(f))]
        /\ emptied' = emptied \cup {v.key : v \in {w \in some : ~w.record.data}}

\* wellcome_if_new: the key is given to the server newly met when that is the only contact,
\* or is near and this server the nearest.
GivenTo(s, known, p, k) ==
    LET neighbors == Nearest(known, k, PushDistance)
    IN  \/ Cardinality(neighbors) = 1
        \/ /\ \E n \in neighbors : PushDistance[k][id[p]] < PushDistance[k][id[n]]
           /\ \A n \in neighbors : PushDistance[k][id[s]] < PushDistance[k][id[n]]

\* An unconfirmed record is read like a confirmed one.
GotMutant(r) == r

\* Iterating over the storage gives None for the value of a record that is not confirmed.
Got(r) == [r EXCEPT !.data = @ /\ r.integrity]

\* wellcome_if_new of s, whose table is `known` by now, for the servers P it has just met: all
\* that is stored is read before the first record is given.
Greetings(s, known, P) ==
    {Giving(s, pk[1], pk[2], Got(copy[s][pk[2]])) :
        pk \in {x \in P \X Keys : copy[s][x[2]] # Nothing /\ GivenTo(s, known, x[1], x[2])}}

\* A crawl of s that starts from S: the table becomes who answered, and who is new is greeted.
Meets(s, S) ==
    /\ contacts' = [contacts EXCEPT ![s] = Answered(s, S)]
    /\ Gives(Greetings(s, Answered(s, S), Answered(s, S) \ contacts[s]), {})

\* call_check_if_new_value_exists; a server that refuses is forgotten and passed over.
GiveCheck(v) ==
    /\ v.step = "check"
    /\ gives' = (gives \ {v}) \cup
                    (IF v.to \in up /\ Necessary(v.record.stamp, copy[v.to][v.key])
                     THEN {[v EXCEPT !.step = "store"]} ELSE {})
    /\ contacts' = IF v.to \in up THEN contacts ELSE [contacts EXCEPT ![v.from] = @ \ {v.to}]
    /\ UNCHANGED <<environment, clock, copy, job, history, uploads>>

\* call_store
GiveStore(v) ==
    /\ v.step = "store"
    /\ gives' = (gives \ {v}) \cup {[v EXCEPT !.step = "confirm"]}
    /\ copy' = [copy EXCEPT ![v.to][v.key] = [v.record EXCEPT !.integrity = FALSE]]
    /\ UNCHANGED <<environment, contacts, clock, job, history, uploads>>

\* call_confirm_integrity: of whatever is stored there by now.
GiveConfirm(v) ==
    /\ v.step = "confirm"
    /\ gives' = gives \ {v}
    /\ copy' = Confirmed(copy, {v.to}, v.key)
    /\ UNCHANGED <<environment, contacts, clock, job, history, uploads>>

GiveStep(v) == v \in gives /\ (GiveCheck(v) \/ GiveStore(v) \/ GiveConfirm(v))

-----------------------------------------------------------------------------
(* Uploads                                                                 *)

Steps == {"idle", "chunks", "rollback", "metadata", "undo", "confirm", "commit"}

Job ==
    [server : Servers \cup {Nobody}, step : Steps, next : Nat, ok : BOOLEAN,
     targets : SUBSET Servers]
NoJob == [server |-> Nobody, step |-> "idle", next |-> 1, ok |-> TRUE, targets |-> {}]

AtStep(f, steps) == job[f].step \in steps

\* The key upload_file is at.
KeyOf(f) == IF AtStep(f, {"metadata", "commit"}) THEN f ELSE content[f][job[f].next]

\* The key is the last one of its step.
AtLast(f) == AtStep(f, {"metadata", "commit"}) \/ job[f].next = Len(content[f])

\* The upload goes on with the next key, with another step, or has an answer.
NextKey(f, ok) ==
    /\ job' = [job EXCEPT ![f].next = @ + 1, ![f].ok = ok, ![f].targets = {}]
    /\ UNCHANGED history
NextStep(f, step) ==
    /\ job' = [job EXCEPT ![f] = [NoJob EXCEPT !.server = job[f].server, !.step = step]]
    /\ committed' = IF step = "commit" THEN committed \cup {f} ELSE committed
    /\ UNCHANGED <<answer, disturbed, emptied>>
Answers(f, a) ==
    /\ job' = [job EXCEPT ![f] = NoJob]
    /\ answer' = [answer EXCEPT ![f] = a]
    /\ disturbed' = [disturbed EXCEPT ![f] = @ /\ a]
    /\ UNCHANGED <<committed, emptied>>

Init ==
    /\ content \in Contents
    /\ up = Met
    /\ id = [s \in Servers |-> s]
    /\ contacts = [s \in Servers |-> IF s \in Met THEN Met \ {s} ELSE {}]
    /\ clock = 0
    /\ copy = [s \in Servers |-> [k \in Keys |-> Nothing]]
    /\ job = [f \in Files |-> NoJob]
    /\ gives = {}
    /\ working = TRUE
    /\ answer = [f \in Files |-> FALSE]
    /\ disturbed = [f \in Files |-> FALSE]
    /\ committed = {}
    /\ emptied = {}
    /\ uploads = 0
    /\ faults = 0

\* A file without bytes has no chunks: all([]) is true, and only the metadata is stored.
Empty(f) == content[f] = <<>>

\* The servers that run know each other, none has metadata that an earlier upload of the
\* file did not confirm, and none of its records is on its way.
Calm(f) ==
    /\ \A s \in up : up \ {s} \subseteq contacts[s] /\ ~Unconfirmed(copy[s][f])
    /\ \A v \in gives : v.key \notin {f} \cup InFile(f)

\* A client calls upload_file, for the first time or again, at any server.
BeginUpload(f, s) ==
    /\ ~Running(f) /\ s \in up /\ uploads < MaxUploads
    /\ job' = [job EXCEPT ![f] = [NoJob EXCEPT !.server = s,
                                               !.step = IF Empty(f) THEN "metadata" ELSE "chunks"]]
    /\ answer' = [answer EXCEPT ![f] = FALSE]
    /\ disturbed' = [disturbed EXCEPT ![f] = ~Calm(f)]
    /\ uploads' = uploads + 1
    /\ UNCHANGED <<environment, contacts, clock, copy, gives, committed, emptied>>

\* set_digest up to its calls: the servers found, and this one too if it is nearer than
\* one of them or alone.
Crawl(f) ==
    LET s == job[f].server
        found == Found(s, KeyOf(f))
        here == found = {} \/ \E n \in found : Nearer(s, n, KeyOf(f))
    IN  /\ AtStep(f, {"chunks", "metadata"}) /\ job[f].targets = {}
        /\ job' = [job EXCEPT ![f].targets = found \cup (IF here THEN {s} ELSE {})]
        /\ Meets(s, contacts[s])
        /\ UNCHANGED <<environment, clock, copy, answer, committed, uploads>>

Stored(f) == job[f].targets \cap up

\* set_digest stores at the servers S: here first, then at the nearest; meanwhile a second
\* may end.
StoreAt(f, S) ==
    \E late \in SUBSET S :
        /\ \A s \in S \ late, t \in late : s = job[f].server \/ t = job[f].server \/ ~Nearer(t, s, KeyOf(f))
        /\ late # {} => clock < MaxClock
        /\ clock' = IF late = {} THEN clock ELSE clock + 1
        /\ copy' = Written(copy, S, late, KeyOf(f))

\* The calls of set_digest: whoever stopped since the crawl is passed over.
Store(f) ==
    /\ AtStep(f, {"chunks", "metadata"}) /\ job[f].targets # {}
    /\ StoreAt(f, Stored(f))
    /\ contacts' = [contacts EXCEPT ![job[f].server] = @ \ (job[f].targets \ up)]
    /\ UNCHANGED <<environment, gives, uploads>>

\* The chunks: one that nobody stored has all of them rolled back after the last.
StoreChunk(f) ==
    LET ok == job[f].ok /\ Stored(f) # {}
    IN  /\ AtStep(f, {"chunks"})
        /\ Store(f)
        /\ IF AtLast(f)
           THEN NextStep(f, IF ok THEN "metadata" ELSE "rollback")
           ELSE NextKey(f, ok)

StoreMetadata(f) ==
    /\ AtStep(f, {"metadata"})
    /\ Store(f)
    /\ CASE Stored(f) # {} -> NextStep(f, IF Empty(f) THEN "commit" ELSE "confirm")
         [] Stored(f) = {} /\ ~Empty(f) -> NextStep(f, "undo")
         [] Stored(f) = {} /\ Empty(f) -> Answers(f, FALSE)

\* The contacts a single round of a delete or confirmation crawl calls, and those it
\* forgets because they refuse.
Asked(s, k) == Nearest(contacts[s], k, Distance)
Forgets(s, k) == contacts' = [contacts EXCEPT ![s] = @ \ (Asked(s, k) \ up)]

\* delete_data_from_network of a chunk, whose answer is only logged.  A server without
\* contacts looks for metadata under the chunk's key and leaves the chunk.
RollBack(f) ==
    LET s == job[f].server
    IN  /\ AtStep(f, {"rollback", "undo"})
        /\ copy' = Removed(copy, Asked(s, KeyOf(f)) \cap up, KeyOf(f))
        /\ Forgets(s, KeyOf(f))
        /\ UNCHANGED <<environment, clock, gives, uploads>>

\* After the chunks were rolled back the metadata is written all the same.
RollBackChunks(f) ==
    /\ AtStep(f, {"rollback"})
    /\ RollBack(f)
    /\ IF AtLast(f) THEN NextStep(f, "metadata") ELSE NextKey(f, TRUE)

UndoChunks(f) ==
    /\ AtStep(f, {"undo"})
    /\ RollBack(f)
    /\ IF AtLast(f) THEN Answers(f, FALSE) ELSE NextKey(f, TRUE)

\* confirm_integrity_of_data: the contacts, or this server when it has none.
Confirm(f) ==
    LET s == job[f].server
        k == KeyOf(f)
    IN  /\ copy' = Confirmed(copy, IF contacts[s] = {} THEN {s} ELSE Asked(s, k) \cap up, k)
        /\ Forgets(s, k)
        /\ UNCHANGED <<environment, clock, gives, uploads>>

\* A contact that refuses counts as a failure, but a server without the record does not.
ConfirmedAll(f) == Asked(job[f].server, KeyOf(f)) \subseteq up

\* All chunks are confirmed, also after a failure.
ConfirmChunk(f) ==
    LET ok == job[f].ok /\ ConfirmedAll(f)
    IN  /\ AtStep(f, {"confirm"})
        /\ Confirm(f)
        /\ CASE ~AtLast(f) -> NextKey(f, ok)
             [] AtLast(f) /\ ok -> NextStep(f, "commit")
             [] AtLast(f) /\ ~ok -> Answers(f, FALSE)

\* Whether the metadata could be confirmed is only logged.
ConfirmMetadata(f) ==
    /\ AtStep(f, {"commit"})
    /\ Confirm(f)
    /\ Answers(f, TRUE)

UploadStep(f) ==
    \/ Crawl(f) \/ StoreChunk(f) \/ StoreMetadata(f) \/ RollBackChunks(f) \/ UndoChunks(f)
    \/ ConfirmChunk(f) \/ ConfirmMetadata(f)

\* A connection breaks during a step: some of its calls were made, and the exception
\* ends the upload.
Raises(f) ==
    LET s == job[f].server
        k == KeyOf(f)
    IN  /\ Running(f) /\ faults < MaxFaults
        /\ IF AtStep(f, {"chunks", "metadata"})
           THEN \E S \in SUBSET Stored(f) : StoreAt(f, S)
           ELSE /\ \E S \in SUBSET (Asked(s, k) \cap up) :
                      copy' = IF AtStep(f, {"rollback", "undo"})
                              THEN Removed(copy, S, k) ELSE Confirmed(copy, S, k)
                /\ UNCHANGED clock
        /\ Answers(f, FALSE)
        /\ faults' = faults + 1
        /\ UNCHANGED <<content, up, id, working, contacts, gives, uploads>>

-----------------------------------------------------------------------------
(* Deletion, cleaning, republishing                                        *)

\* ServerService.delete, at any server: its own record, then those of its contacts unless
\* that raised.
Delete(f, s) ==
    LET raises == copy[s][f] # Nothing /\ ~copy[s][f].data
    IN  /\ s \in up
        /\ copy' = Removed(copy, {s} \cup (IF raises THEN {} ELSE Asked(s, f) \cap up), f)
        /\ IF raises THEN UNCHANGED contacts ELSE Forgets(s, f)
        /\ answer' = [answer EXCEPT ![f] = FALSE]
        /\ disturbed' = [disturbed EXCEPT ![f] = Running(f)]
        /\ UNCHANGED <<environment, clock, job, gives, committed, emptied, uploads>>

\* The uploads and gives that run are younger than ttl seconds, unless uploads are slow.
Young(s, k) ==
    \/ ~Slow /\ \E f \in Files : Running(f) /\ k \in {f} \cup InFile(f)
    \/ \E v \in gives : v.to = s /\ v.key = k /\ v.step = "confirm"

\* Confirmed records expire too.
AllExpireMutant(s) == {k \in Keys : copy[s][k] # Nothing /\ ~Young(s, k)}

\* The cleaner looks among the values only.
ChunksExpireMutant(s) == {k \in Chunks : Unconfirmed(copy[s][k]) /\ ~Young(s, k)}

\* The records of s not confirmed for ttl seconds.
Expired(s) == {k \in Keys : Unconfirmed(copy[s][k]) /\ ~Young(s, k)}

\* The metadata at which delete_corrupted_data raises.
Stuck(s) == {f \in Files \cap Expired(s) : ~copy[s][f].data}

\* Metadata goes with its chunks, confirmed or not.
Without(records, K) ==
    [k \in Keys |->
        IF k \in K \cup UNION {InFile(f) : f \in K \cap Files} THEN Nothing ELSE records[k]]

\* delete_corrupted_data.  When it raises, the records it came to before are gone.
Clean(s) ==
    /\ s \in up
    /\ \E K \in SUBSET (Expired(s) \ Stuck(s)) \ {{}} :
          /\ Stuck(s) = {} => K = Expired(s)
          /\ copy' = [copy EXCEPT ![s] = Without(@, K)]
    /\ UNCHANGED <<environment, contacts, clock, job, gives, history, uploads>>

\* _refresh_table reads a confirmed record to give it to servers it finds.  A value of None
\* is not given.
Republish(s, k) ==
    LET found == Found(s, k)
        met == Answered(s, contacts[s])
    IN  /\ s \in up /\ Readable(copy[s][k]) /\ found # {}
        /\ contacts' = [contacts EXCEPT ![s] = met]
        /\ Gives(Greetings(s, met, met \ contacts[s]) \cup {Giving(s, n, k, copy[s][k]) : n \in found}, {})
        /\ UNCHANGED <<environment, clock, copy, job, answer, committed, uploads>>

-----------------------------------------------------------------------------
(* Servers come and go                                                     *)

Disturbs == disturbed' = [f \in Files |-> disturbed[f] \/ Running(f)]

\* The process is killed: what is in memory is lost, and calls to it break.  A refresh thread
\* that was calling it ends when find_replicas raises; a file half written may keep a record
\* from the cleaner.
Crash(s) ==
    /\ s \in up /\ faults < MaxFaults
    /\ up' = up \ {s}
    /\ working' \in {working, FALSE}
    /\ contacts' = [contacts EXCEPT ![s] = {}]
    /\ job' = [f \in Files |-> IF job[f].server = s THEN NoJob ELSE job[f]]
    /\ gives' = {v \in gives : v.from # s /\ (v.to # s \/ v.step = "check")}
    /\ UNCHANGED answer
    /\ faults' = faults + 1
    /\ disturbed' = [f \in Files |-> job[f].server # s /\ (disturbed[f] \/ Running(f))]
    /\ UNCHANGED <<content, id, clock, copy, committed, emptied, uploads>>

\* A server starts, knowing nobody, with an identifier of its own.
Start(s) ==
    /\ s \in Servers \ up
    /\ up' = up \cup {s}
    /\ \E i \in Ids \ {id[t] : t \in Servers \ {s}} : id' = [id EXCEPT ![s] = i]
    /\ Disturbs
    /\ UNCHANGED <<content, working, faults, contacts, clock, copy, job, gives, answer, committed,
                   emptied, uploads>>

\* bootstrap: a server without contacts pings m, which greets it, greets m, and crawls.
Join(s, m) ==
    LET met == Answered(s, {m} \cup contacts[m])
    IN  /\ s \in up /\ contacts[s] = {} /\ m \in up \ {s}
        /\ contacts' = [contacts EXCEPT ![s] = met, ![m] = @ \cup {s}]
        /\ Gives(Greetings(m, contacts[m] \cup {s}, {s} \ contacts[m]) \cup Greetings(s, met, met), Files)
        /\ UNCHANGED <<environment, clock, copy, job, answer, committed, uploads>>

Tick ==
    /\ clock < MaxClock
    /\ clock' = clock + 1
    /\ UNCHANGED <<environment, contacts, copy, job, gives, history, uploads>>

Next ==
    \/ \E f \in Files :
          \/ UploadStep(f) \/ Raises(f)
          \/ \E s \in Servers : BeginUpload(f, s) \/ Delete(f, s)
    \/ \E s \in Servers :
          \/ Clean(s) \/ Crash(s) \/ Start(s)
          \/ \E k \in Keys : Republish(s, k)
          \/ \E m \in Servers : Join(s, m)
    \/ \E v \in gives : GiveStep(v)
    \/ Tick

Spec == Init /\ [][Next]_vars

\* The threads of a server run, the refresh thread in a loop while it works.
FairSpec ==
    /\ Spec
    /\ \A f \in Files : WF_vars(UploadStep(f))
    /\ \A s \in Servers :
          /\ WF_vars(\E v \in gives : v.from = s /\ GiveStep(v))
          /\ WF_vars(working /\ Clean(s))

-----------------------------------------------------------------------------
(* Properties                                                              *)

\* Every variable has its type.
TypeOK ==
    /\ content \in Contents
    /\ up \subseteq Servers
    /\ id \in [Servers -> Ids]
    /\ \A s \in Servers : contacts[s] \subseteq Servers \ {s}
    /\ clock \in 0..MaxClock
    /\ \A s \in Servers, k \in Keys : copy[s][k] \in Record \cup {Nothing}
    /\ job \in [Files -> Job]
    /\ \A f \in Files : Running(f) => job[f].server \in up /\ KeyOf(f) \in Keys
    /\ gives \subseteq Give
    /\ working \in BOOLEAN
    /\ answer \in [Files -> BOOLEAN] /\ disturbed \in [Files -> BOOLEAN]
    /\ committed \subseteq Files /\ emptied \subseteq Keys
    /\ uploads \in 0..MaxUploads /\ faults \in 0..MaxFaults

\* Some server has the key confirmed.
Held(k) == \E s \in Servers : Readable(copy[s][k])

Whole(f) == Held(f) /\ \A c \in InFile(f) : Held(c)

Unshared(f) == \A g \in Files \ {f} : InFile(f) \cap InFile(g) = {}

Intact(f) == ({f} \cup InFile(f)) \cap emptied = {}

\* An upload that answered True can be read from then on - whatever stops, joins, expires,
\* is republished, uploaded or deleted later - if the servers knew each other when it began,
\* none came or went or sent a record of the file to another while it ran, no other file has
\* one of its chunks, no server still had metadata that an earlier upload of the file left
\* unconfirmed (the cleaner deletes the chunks with such metadata, confirmed or not, at a
\* server that is not among the nearest any more), and no server ever pushed an unconfirmed
\* record of the file, which arrives as None.
TrueMeansWhole ==
    \A f \in Files : answer[f] /\ ~disturbed[f] /\ Unshared(f) /\ Intact(f) => Whole(f)

\* A name is readable only if an upload of it has confirmed all its chunks - no failed upload,
\* republisher, push, cleaner or server that joins makes it so - or if a push once took None
\* for its metadata and confirmed what an upload had stored meanwhile.
ReadableMeansCommitted == \A f \in Files : Held(f) => f \in committed \/ f \in emptied

\* Whatever fails and stops, no record stays unconfirmed for ever at a server that runs, while
\* the refresh threads work and no metadata is pushed as None, at which the cleaner raises.
Settles ==
    [](working /\ Files \cap emptied = {}) =>
        \A s \in Servers, k \in Keys : []<>(s \notin up \/ ~Unconfirmed(copy[s][k]))

\* An upload answered True and nothing disturbed it: it stays whole also if records were pushed.
TrueStaysWhole == \A f \in Files : answer[f] /\ ~disturbed[f] /\ Unshared(f) => Whole(f)

\* "If a certain amount of time has passed since this date and integrity is still False,
\* the file is automatically deleted" (docs/description).
AutomaticallyDeleted ==
    \A s \in Servers, k \in Keys :
        Unconfirmed(copy[s][k]) ~> (s \notin up \/ ~Unconfirmed(copy[s][k]))

\* "In case an error occurs at any point in the process, everything stored is deleted,
\* mimicking a rollback effect" (docs/description): an upload that answers False leaves
\* none of its chunks.
RolledBack ==
    [][\A f \in Files :
        AtStep(f, {"undo", "confirm"}) /\ ~Running(f)' /\ ~answer'[f] /\ up' = up /\ faults' = faults
            => \A s \in up, c \in InFile(f) : copy'[s][c] = Nothing]_vars

\* "If true, it means that the value was setted correctly" (README.md).
TrueMeansSet == \A f \in Files : answer[f] => Whole(f)
=============================================================================
