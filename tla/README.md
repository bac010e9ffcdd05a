# kade-drive in TLA+

kade-drive is a distributed file system on a Kademlia table: a file is cut into chunks,
a metadata record names the chunks, and every key (the SHA-1 of a name or a chunk) is
stored on the `ksize` servers nearest to it. Servers talk over rpyc. This directory holds
TLA+ models of its core, written from `src/kade_drive`, the configurations that
model-check them with TLC, and the theorems TLAPS proves about them.

    tlc -workers 2 -config MCNeighbors.cfg MCNeighbors.tla       # a run
    tlapm RoutingTableProofs.tla                                 # the proofs of a module

## 1. Inventory

| Component | State | Operations | Talks to |
|---|---|---|---|
| Routing table (`core/routing.py`) | k-buckets: range, contacts oldest first, spares | `add_contact` (split, ping), `remove_contact`, `is_new_node`, `find_neighbors` | called by the protocol for every answer and every failed call; pings through it |
| Node, NodeHeap (`core/node.py`) | heap of nodes by distance, set of contacted ones | `push`, `remove`, `get_uncontacted`, `have_contacted_all` | a crawl |
| Spider crawls (`core/crawling.py`) | heap, last round, responses | `find` and one `_nodes_found` for each of six spiders | rpyc calls to other servers; the routing table |
| Storage (`core/storage.py`) | three files and a lock file per key | `set_value`, `get_value`, `confirm_integrity`, `delete`, `delete_corrupted_data`, `iter_older_than`, ... | the handlers and the refresh thread of one server |
| Protocol, sessions (`core/protocol.py`) | none of its own | `call_*` stubs, `process_response`, `wellcome_if_new` | routing table, storage, rpyc |
| Server, ServerService (`core/network.py`) | node, storage, protocol, threads | `rpc_*` handlers, `upload_file`, `get`, `delete`, `set_digest`, `find_replicas`, `_refresh_table`, `bootstrap`, `_detect_alone` | all of the above |
| Client (`client.py`) | connection, queue of bootstrap nodes | `connect` with attempts and `broadcast`, `put`, `get`, `delete`, `ls` | one server, in `get` a server of each chunk |
| Autodiscovery (`server.py`, package `message_system`) | an id at an address, the threads' lives | heartbeat, broadcast | `bootstrap`, `_detect_alone` |
| Utilities (`core/utils.py`), CLI, configuration | none | `shared_prefix`, `it_is_necessary_to_write`, `digest` | |

What makes the system hard:

- **Threads.** rpyc's `ThreadedServer` runs a thread per connection; the refresh and
  detect-alone threads run beside them. The routing table has no lock at all, and the
  storage a lock per file that each user deletes when done.
- **Calls that fail.** A refused connection is an answer of `None`; any other failure is an
  exception in whatever the thread was doing. A call may have had its effect before.
- **Check, then act, over the network.** Replication checks, stores and confirms in three
  calls; other servers, clients and the cleaner act between them.
- **Crashes.** What is on disk survives, what a thread was doing does not.
- **Time.** Records not confirmed for `ttl` seconds are deleted; versions are ordered by
  whole seconds.

What makes each part correct:

- *Routing table*: the ranges partition the space; buckets stay within their bounds; a
  contact is where it is looked up; nobody leaves without having failed; `add_contact`
  ends. For `find_neighbors`: the nearest contact comes first.
- *Crawls*: they end, return the nearest nodes that answered; what they
  answer is what the nodes they asked did.
- *Storage*: a key is a register; operations end; files are whole; what is reported stored
  is stored.
- *Replication*: the newest confirmed value is lost by an upload, a delete or a trim only; it
  comes back to the `ksize` nearest servers after a fault; these end with one value.
- *Upload*: a file is readable when all of it was confirmed, and not before; an upload that
  answered True stays readable; what a failed one left goes.
- *Membership*: a server that is alone finds another; one that keeps records forgets who is
  gone, and does not stay with the gone while others run.
- *Client*: `connect` tries every server it knows as often as it should; `get` passes over a
  chunk only if nobody said where it is or the last one asked no longer had it; calls end.

The hazards of the code, each at its line and with the properties that cover it, are in
`PROJECT.json`.

## 2. Modules

    RoutingTable <--- RoutingTableThreads       (INSTANCE: the same table, many threads)
      |
    Neighbors                                   (EXTENDS: find_neighbors in every table)

    SpiderCrawl                                 (starts from what find_neighbors returns)
    KeyStore <------- StorageFiles              (refinement: files implement a register)
       .
    Replication                                 (one key: calls of several servers interleave)
    Upload                                      (files of several keys: whole set_digests)

    Membership                                  (who knows whom, and which threads live)
    Client                                      (one client of several servers)

    RoutingTableProofs, RoutingTableThreadsProofs, SpiderCrawlProofs, StorageFilesProofs,
    ReplicationProofs, UploadProofs, MembershipProofs, ClientProofs
                                                (EXTENDS: the theorems of each, section 5)

An operator whose name ends in `Mutant` is a plausible bug of the definition it precedes;
no specification uses one. They serve to show that each property can fail.

### RoutingTable

One server's table driven by one thread. `buckets` is `RoutingTable.buckets`; a bucket's
`OrderedDict`s are sequences, oldest key first. `pc`, `contact` and `split` are the place
and the locals of `add_contact`, which is several actions because it pings, splits and
calls itself: `WellcomeIfNew` (the test `is_new_node`), `AddAccepted` / `AddThenSplit` /
`AddThenPing` (the three outcomes of `add_node`), `SplitMove` (one iteration of
`KBucket.split`), `SplitFinish` (`split_bucket`), and the three outcomes of the ping
(answer, refused connection, exception). `RemoveContact` is `remove_contact`.
`BucketFor` is `get_bucket_for` with its exclusive upper bound, `Depth` the length of the
shared bit prefix. Left out: the times of last update, which only choose the buckets to
refresh.

### Neighbors

`find_neighbors` and the `TableTraverser` as functions of the table. `Walk` is the order
in which the traverser visits buckets, with its rule for stopping. XOR is the operator of
the community module `Bitwise`, which is recursive, so this module is checked by TLC and
not proved about. The call itself changes nothing, so the state machine is RoutingTable's.

### RoutingTableThreads

The same table shared by threads. Buckets are objects in a heap (`objects`), the table a
sequence of references (`order`), since a thread may hold a bucket that another has
replaced. A step is what a thread does between two accesses of shared state:
`get_bucket_for`, the fetch of the bucket, the tests of `add_node` and its insertion, the
read, each iteration and the two writes of a split. `SplitMove` raises when the dictionary
it iterates over has changed since the iteration began, as Python does; the contacts and
the spares are two dictionaries, read one after the other. `SplitAssign` writes at the index
the thread looked up long before, which may be the place of another bucket by then:
`overwritten` records that this has happened. `ChooseRaises` stands for the exceptions of
`depth()`, of a ping, and of a recursion of `add_contact` that finds no end, for which
`MaxObjects` takes the part of Python's recursion limit. The operators on buckets are those
of RoutingTable, by INSTANCE. Coarser than the code: `remove_node`, the insertion of a spare
and the scan of `get_bucket_for` are one step each; a change of a dictionary that was undone before
the next iteration, at which Python raises too, is not noticed. A ping is its outcome.

### SpiderCrawl

One crawl. A peer is named by its XOR distance to the key, so "nearest" is "smallest".
`heap`, `contacted`, `last`, `todo` and `responses` are those of `SpiderCrawl` and
`NodeHeap`; `StartRound` is `_find` up to its loop, `CallAnswered` / `CallFailed` /
`CallRaised` are the outcomes of a call in it, and each `NodesFoundBy...` is the
`_nodes_found` of a spider. The world around it: `up`, what each peer stores (`copy`), the
crawler's `contacts`. Peers stop and restart at any moment. What a peer answers
(`Answers`) and does (`Stored`) are the `rpc_*` handlers; a delete that raises may leave the
metadata, marked as without integrity (`MarkedOnly`). The list of neighbours in an answer is any
the handler could return. `silent`, `removed` and `seen` record what happened,
for the properties.

### KeyStore and StorageFiles

KeyStore is what the storage promises of a key: a register that is set unconfirmed,
confirmed, unconfirmed (before metadata is deleted) and deleted, each at once.
StorageFiles is how it is done: the value file (an inode and its content), the keys file,
the timestamp, the lock file. A step is a system call of a thread. A `FileLock` is a
flock on an inode, while the lock file is a name: a thread that ends removes the name,
whoever has the inode. `Torn` is the content of a file opened for writing and not yet
written; one write stands for the several of a large pickle, which leave the file torn until the
last. `Crash` kills the process: files stay, locks and threads go. That a record is
older than `ttl` may be true at any moment.

### Replication

The servers of a network and one key. A server is named by the distance of its first identifier
to the key; `place` is the distance of the identifier it has now, since each start takes a new
one (`Places`, any free one). Each server has three threads: `client` runs an upload
(`set_digest`, then `confirm_integrity_of_data`) or a delete (`delete_data_from_network`),
`refresh` a republication (`_refresh_table`) or a trim (`find_replicas`), and `greeting` the push
of `wellcome_if_new` to a node that is new to its table: any other may be, at any moment. What a
push gives of a record that is not confirmed is None, with the record's own second (`Got`), and
it confirms that. A job is a list of nodes still to visit and, for the node it is at, the next
remote call: `Check`, `Store`, `ConfirmStored`, `Sweep`. `Raises` is a node that cannot be
reached, or a connection lost between two calls. An upload stores its own copy first, which
counts as stored, so it is confirmed although every other server failed. `Clean` is
`delete_corrupted_data`. Servers crash and restart with their disk, the network is split in two
and heals, the clock ticks in seconds. `working` turns FALSE when an exception in
`find_replicas` ends a refresh thread, and may do so with any fault: a call that a crash breaks
may be one of `find_replicas`, and files half written (a stamp without key) stop the iteration
over the records in every round.

Abstracted, and treated by the other modules: a crawl finds the nearest nodes that can be
reached (with the caller or without, as another node may name it); a storage operation is
that of KeyStore; the values and the stamps that `wellcome_if_new` reads one after the other
(storage.py:443-450) are read at once. One assumption on time: a republisher's or greeter's store
and the confirmation that follows are less than `ttl` apart, so `Clean` does not come between
them. With the default `alpha` of 3 and `ksize` of 2, the single round of a delete or
confirmation reaches the `ksize` nearest contacts.

### Upload

Files of several chunks on several servers. `job[f]` is the place of `upload_file` in its
five loops and calls: `Crawl` is `set_digest` up to its calls, `StoreChunk` and
`StoreMetadata` its calls and what `upload_file` makes of the answer, `RollBackChunks` and
`UndoChunks` the two rollbacks (a file without bytes has no chunks and skips them, `Empty`),
`ConfirmChunk` and `ConfirmMetadata` the confirmations;
`Raises` is a connection that breaks in any of them, after some of its calls. Each server stamps
a record with the second it is in when it is called (`Written`; `late` are the servers at which
the next second has begun, `clock` the second), so the copies of one upload may differ by one.
`Delete` is `ServerService.delete`, `Clean` is `delete_corrupted_data` with the chunks that go
with their metadata.

Records that a server gives to others, in `_refresh_table` (`Republish`) and in
`wellcome_if_new` (`Greetings`), are read first: they wait in `gives`, each with the call that is
next, `GiveCheck`, `GiveStore`, `GiveConfirm`. Uploads, deletions, cleaners and other givers come
between them. Of an unconfirmed record it is the value None that is given and confirmed;
`data = FALSE` marks such a record. Every crawl adds who answers to the table, and greets
who was not there (`Meets`). Servers crash, start knowing nobody with a new identifier (`id`), and
`Join`. `Found` drops servers that know nobody, as `happened` does. Deletions and confirmations
call the nearest contacts (`Asked`), storing calls whoever a crawl found, which may be the server
itself when another names it. `working` is as in Replication. The history variables:
`committed`, the files an upload confirmed all chunks of; `emptied`, the keys of which None was
given; `disturbed`, what the upload of a file was exposed to. `Young` is the one assumption on
time: an upload, unless `Slow`, and a store with its confirmation take less than `ttl`.
Left to Replication: the interleavings inside one `set_digest` of an upload, ties of the clock,
and trimming.

### Membership

`table` gives each server its contacts and spares, which are ids at addresses, and whether the
one bucket it began with was split (`Added`, `Removed`, of `KSize` contacts each). A server keeps
its address and takes a new random id at each start (`starts`); the new server answers calls
meant for the old id. `hint` is the address a thread got from a broadcast and has not used
yet, and may be stale by then. `_detect_alone` looks, then listens for a broadcast (`DetectAlone`,
`Hear`). Only `Bootstrap` makes two servers know each other: the stubs of the other calls send
the callee's address in place of the caller's (protocol.py:56). `Forget` and `Learn` are single
calls of crawls. `Bootstrap` may raise and end the `_detect_alone` thread, `RefreshEnds` is the
exception in `find_replicas` that ends the refresh thread. The network can be cut in two.

Who is sure to be called is the point of this module. The refresh looks into buckets untouched
for 20 seconds, and `_detect_alone` touches the bucket it looks into every 15, so that a server
with one bucket never refreshes it. What still calls the contacts is the republication, which
looks up every stored key: hence `Keepers`, the servers that keep a record, and `Crawled`.
Distances are abstracted: any contact may be named, and of a table that was split the model does
not say which bucket a contact is in, and promises nothing.

### Client

`queue`, `held`, `left` are `bootstrap_nodes`, `connection` and the remaining attempts.
`_ensure_connection` is used by `connect` on the queue and by `get` on the locations of a
chunk; `List` is the one in use. `Ping`, `Refused`, `Connected`, `Broadcast`, `NothingLeft`
are the outcomes of a turn of its loop, `Update` is the end of `connect`. In `get`, `Locate`
asks for the locations, `Fetch`, `FetchNone`, `Broken` are the outcomes of asking for the
chunk; `missed` are the chunks passed over. Lists a server returns stay with it (rpyc passes references), so that `ListsLost`
raises, or ends the chunk's loop, when the connection they came by is gone. Servers stop, start and lose chunks.

## 3. Runs

| Run | Configuration | Instance | What it shows |
|---|---|---|---|
| `table` | `MCNeighbors.cfg` | 8 identifiers of 6 bits, none on a midpoint, `ksize` 2 | a partition into well-formed buckets, contacts found where looked up and kept, the own bucket takes everybody, `add_contact` ends; `find_neighbors` answers the nearest contact first |
| `threads` | `MCThreads.cfg` | 2 threads, 4 identifiers of 5 bits, `ksize` 1, no split begins once 3 buckets were created | which harm races cannot do: no index out of the table, no failed lookup but in the gap of a split (until a split overwrites another's bucket), one contact too many at most |
| `spider` | `MCSpider.cfg` | 3 peers, `ksize` 2, `alpha` 2, two values, the six methods | every spider's ending and result |
| `storage_register` | `MCStorageRegister.cfg` | 1 thread, 2 values, 2 crashes | refinement of KeyStore; what is reported stored is stored |
| `storage_threads` | `MCStorageThreads.cfg` | 2 threads, all operations | every operation ends; the value file is whole |
| `replication_all` | `MCReplicationAll.cfg` | 2 servers of 3 places, factor 1, all jobs, uploaded twice, 2 pushes, 1 fault | only uploads, deletes and trims take the newest confirmed value |
| `replication_recovers` | `MCReplicationAgree.cfg` | 2 servers, factor 2, 2 values, 2 seconds, a push, a fault | the newest value comes back to the nearest servers, and they agree |
| `replication_kept` | `MCReplicationKept.cfg` | 3 servers, no fault | **violated**: trimming takes the only confirmed copy |
| `upload` | `MCUpload.cfg` | 2 servers with 3 identifiers that know each other, factor 2, a file of 2 chunks or of none, 1 upload, 1 fault, 1 record on its way | readable by its upload only; readable for good after True; leftovers go |
| `upload_faults` | `MCUploadFaults.cfg` | 3 servers, 2 faults, within a second, nothing pushed or republished | the same where a chunk finds nobody: the two rollbacks |
| `membership` | `MCMembership.cfg` | 2 servers that know each other, one keeps records, and a third; a stop or a cut | the lonely find somebody; the gone are forgotten, and one does not stay with them |
| `client` | `MCClient.cfg` | 2 servers, 2 chunks, 2 attempts, 2 faults | attempts, answers and endings of `connect` and `get` |

Further configurations, for larger instances or other corners, that pass:

| Configuration | Instance | States |
|---|---|---|
| `MCRoutingTableEdges.cfg` | identifiers on and beside midpoints, `ksize` 1: `RangesPartition`, and a listed node in its range or just below it, down to ranges of one identifier | |
| `MCReplicationRepair.cfg` | `Recovers` for one file on 2 servers of 3 places, factor 1, trimmed too, 2 faults | 342 000 |
| `MCUploadAgain.cfg` | the invariants of `upload` for a file of one chunk that is uploaded twice | |
| `MCUploadThree.cfg` | the invariants of `upload` for a file of one chunk on 3 servers | |
| `MCUploadFiles.cfg` | two files on 2 servers, with and without a common chunk | |
| `MCMembershipBuckets.cfg` | the properties of `membership` for 3 servers that know each other, with buckets of 2, which are split | 154 000 |

**Bounds.** The identifiers of `table` make three and more splits, splits on both sides of
the server, a full far bucket that is split for its depth (35, 51) and one that is not (51,
61), and spares that are promoted; those of `MCRoutingTableEdges.cfg` reach buckets of one
identifier.
Each crawl has one peer more than the visible heap, so that a hidden peer can come
forward. Two threads are what each race of the table and the storage needs; the inodes of
StorageFiles are as many as can be in use at once. In Replication the servers are one more than
the factor in `replication_all`, so that a replica can be in the wrong place, and a restart can
put it there; in `replication_recovers` both are to hold the value. Two jobs at once are what a
race needs. `MaxUploads`, `MaxClock`, `MaxFaults`, `MaxMeetings`, `MaxJobs`, `MaxGives`,
`MaxCrashes` and `MaxObjects` bound what would grow for ever, and only there behaviours are
cut. In `threads`, both threads can be inside a split that began with
fewer than `MaxObjects` buckets created, so that two splits of one index overlap and the
second overwrites the first; three nodes besides the server are what a bucket of one must
meet to be overfilled by more than one. `LiveView` leaves buckets that nobody has any more
out of TLC's states. With `MaxObjects` of 5, where `FoundOutsideGap` fails, the run passes
too (10 500 000 states, close to five minutes). In Upload two of three servers must stop between a crawl and its stores
for a rollback to begin, hence the two faults of `upload_faults`; a chunk and the metadata are
nearest to different servers, so that every server is uploader, holder and bystander. A second
server is the least that records can be pushed to; a third identifier lets one that returns come
nearer to a key than the holder. In Membership two servers
that know each other and one that starts are the least for an id to be passed on, to be
stale, and to be lost; `KSize` 3 keeps the one bucket, which is where the two threads meet. In Client two servers and two attempts let one server's failures meet
another's attempts. The `replication_*` and `membership` runs do not check deadlock: when the
file is gone or all know all, and the faults are used up, the system rests. So does
`upload_faults` when its upload has ended.

**Fairness.** RoutingTable: the thread inside `add_contact` runs and its ping returns or
raises (weak fairness of its steps together). SpiderCrawl: the crawling thread runs, and
rpyc ends a call that hangs after its default 30 seconds. StorageFiles: each thread is
scheduled, and strong fairness of the lock's timeout, which is measured in wall-clock time:
a thread cannot find the lock taken at poll after poll for ever. Replication: jobs that
began go on, `_refresh_table` cleans and republishes in an endless loop while it works, a stopped
server starts again, a partition heals. Trimming, uploads, deletions, pushes and faults have no
fairness. `Recovers` promises nothing once a refresh thread has ended or is kept from its work
(`working`): an exception in `find_replicas`, outside its `try`, ends it, and a fault may have
caused one. Upload: the thread of an upload runs, records on their way go on, and each server
cleans in its loop, again while `working`; `Settles` is conditional on that and on no None having
been given for metadata, at which the cleaner raises. Membership: heartbeats are sent for ever,
so a listening thread hears one if anybody can be reached; `_detect_alone` listens when there is
no contact; a thread that has an address uses it; a server that keeps a record and whose refresh
thread lives calls all contacts of its one bucket again and again (`Crawled`), and so forgets
those that are gone. Of learning nothing is assumed: a contact names its `ksize` nearest to the
key looked up, perhaps always the same. A stopped server need not start, a cut need not heal, and
a refresh thread need not live: the properties say what each server with living threads gets.
Client: its one thread runs, and servers fail finitely
often.

**The other direction.** A property that holds is stated as weakly as the code makes it.
These configurations, kept for whoever changes the code, state what one might expect
instead and each ends in a counterexample:

| Configuration | Property | Counterexample |
|---|---|---|
| `MCRoutingTableMidpoint.cfg` | `LookupFindsContacts` | a contact on a midpoint is looked up in the next bucket (routing.py:220 against :49) |
| `MCNeighborsExpected.cfg` | `AloneOnlyWithoutContacts` | the traverser stops at an empty pair, so a table with contacts answers nobody |
| | `AnswersClosest` | the first k nodes traversed are sorted, nearer ones never seen |
| `MCSpiderExpected.cfg` | `RemovedDidNotRespond` | an empty answer counts as none (crawling.py:372, whose docstring asks "Did the other host actually respond?") |
| | `ReturnedAnswered` | a peer that failed is pushed again by another's answer and returned |
| | `DeletedFromNetwork`, `ListsTheSystem` | one round of peers is not the network |
| `MCThreadsExpected.cfg` | `FoundOutsideGap` | between the two writes of one thread another splits the lower half, and is splitting the second bucket when the first thread inserts its upper half at that index: the assignment replaces it, and the top of the space has no bucket any more (routing.py:170) |
| | `NeverVoid` | a lookup between the two writes of a split |
| | `PartitionAtRest` | two threads split the same index |
| | `AtMostK` | two threads pass the length test together |
| | `AddedIsListed` | a contact is added to a bucket no longer in the table |
| `MCStorageExpected.cfg` | `NewestKept` | `confirm_integrity`, without the lock, writes back the record it read before a newer one was written |
| | `LockExcludes` | a removed lock file no longer excludes |
| | `StoredWhenReported` | with two threads, a lock timeout is swallowed and the store reported |
| | `CleanedUnconfirmed` | the cleaner deletes what was confirmed after it looked |
| | `StampHasKey` | a timestamp without key, at which `iter_older_than` raises |
| `MCReplicationExpected.cfg` | `PushKeepsValues` | a push of an unconfirmed record replaces a confirmed value of an earlier second by None |
| | `NewerKept` | a newer record is written between a check and a store |
| | `ConfirmsItsOwn` | a republisher confirms another client's unfinished upload |
| | `Converges` | two versions of one second stay for ever |
| `MCReplicationTrim.cfg` | `TrimKeepsFactor` | servers without the file are counted as replicas |
| `MCUploadExpected.cfg` | `TrueMeansSet` | a server joins during the upload: the confirmations ask it, which has nothing, and succeed |
| | `TrueStaysWhole` | the uploader's own copy is of a later second and stays unconfirmed; it restarts and pushes it as None over the confirmed chunk |
| | `RolledBack` | a server stops during the confirmation: False, and the chunks stay (network.py:603) |
| | `AutomaticallyDeleted` | metadata pushed with the value None, marked by a delete, makes the cleaner raise in every pass (storage.py:106) |
| `MCUploadShared.cfg` | `TrueMeansSet` | a second file with a common chunk sets it to unconfirmed again |
| `MCUploadSlow.cfg` | `TrueMeansWhole` | an upload longer than the ttl: its chunks expire, confirming nothing succeeds |
| `MCMembershipSplit.cfg` | `Joined` | four servers that never fail pair off, and no pair listens any more |
| `MCMembershipExpected.cfg` | `FailedRemoved` | the only contact stops; `_detect_alone` looks into its bucket and keeps it from the refresh, so the contact stays |
| | `EntryRemoved` | an id of an earlier start is answered by the server of today and kept |
| | `NobodyDeaf` | `_detect_alone` ends on a host it cannot reach |
| `MCClientExpected.cfg` | `TrueMeansReached` | after an exception the old connection stays and the next `connect` does not look at it |
| | `ConnectAnswers` | with an empty queue `connect` raises IndexError (client.py:66) |

TLC stops at the first property it refutes: leave one of an `...Expected.cfg` in place to see
its counterexample.

`NewestKept` speaks of a value that nothing in the network is later than, while no upload is
storing. Other confirmed values go without a command: a record of a later second replaces them,
which may be the None of an upload that never ended (`PushKeepsValues`).

`TrueMeansWhole` excludes a file with leftovers of an earlier upload. One needs four servers,
two joins and three uploads to see why, beyond the instances above: an upload breaks off after
it stored its metadata at servers 2 and 3; 1 and 4 join, 1 uploads the file and then 3 does,
both undisturbed. The metadata is now confirmed at 1, one of its nearest, and the chunk only
at 2, where the metadata of the first upload is still unconfirmed: the cleaner of 2 deletes
that metadata and, with it, the confirmed chunk (storage.py:102-104, called from :177).

## 4. What the models say of the code

The listed run that is violated:

- **replication_kept.** The uploader asks its contacts to confirm, never itself; when it is
  the nearest and a third server has joined, `find_replicas` has it delete the confirmed
  copies of the others, and its own expires. No failure is needed.

Of the table above, one counterexample does harm that nothing repairs:

- `FoundOutsideGap`: two overlapping splits can leave a table without the top of the
  identifier space. From then on `get_bucket_for` raises `VoidNodeException` ("we should
  never be here") for every node there, in every thread, until the server restarts. By
  `FoundUntilOverwritten` it takes a split that assigns at an index where it did not read:
  `split_bucket` as one critical section, which reads, assigns and inserts, would rule it out.

Others contradict the documentation and need little to happen:

- `TrueMeansSet`: README.md:59 of the repository says that True means "the value was setted
  correctly". Confirming a chunk asks the nearest contacts; a server without the chunk
  answers as one that confirmed. A server that joins between storing and confirming, or a
  second file with a common chunk, or a push of the uploader's own copy as None
  (`TrueStaysWhole`, `PushKeepsValues`), leaves a file that was answered True and cannot be read.
  `TrueMeansWhole` says when it can.
- `RolledBack`: docs_setup/docs/en/description.md:47 promises a rollback for "an error at any
  point in the process"; an error while confirming has none. The remains expire (`Settles`),
  except where the cleaner is stuck.
- `Joined`: docs_setup/docs/en/cap-analysis.md:5 expects all nodes to converge. Only who is
  alone listens to broadcasts, so pairs that found each other never look for more.
- `FailedRemoved`: docs_setup/docs/en/fault-tolerance.md has failed nodes removed from the tables.
  A server that stores nothing does not notice: what would refresh its only bucket is put off by
  `_detect_alone`, which looks into it more often.
- `RemovedDidNotRespond`: because the stubs send the callee's own address as the sender's,
  `find_node` excludes the callee and not the caller from its answer. An empty answer
  therefore comes from a server that knows nobody, or in a bootstrap crawl, whose target is
  the caller; that server is then dropped as if it were down.

## 5. Proofs

A module `...Proofs` EXTENDS the module it is about. `tlapm` checks each in some seconds to
three minutes and needs nothing but the library's theorems on finite sets, functions and
sequences; every leaf names the facts and definitions it uses. All hold for every value of
the constants, under the assumptions stated in the modules, which TLC evaluates in the runs,
and under the hypotheses named here.

| Module | Theorem | Property |
|---|---|---|
| RoutingTableProofs | `TypeCorrect` | `TypeOK` |
| | `RangesAlwaysPartition` | `RangesPartition`: the buckets cover the space in order, without gap or overlap |
| | `BucketsWellFormed` | `BucketsWF`: bounds, no duplicates, spares only in full buckets |
| | `ListedAlwaysNearRange` | `ListedNearRange`: a listed node is in its bucket's range or just below it, and never the server itself |
| | `EveryNodeHasBucket` | `get_bucket_for` finds a bucket, so one thread never raises `VoidNodeException` |
| | `ContactsAlwaysKept` | `ContactsKept`: a contact leaves the table only when it failed itself, not for a newcomer and not by a split |
| | `ListedOffMidpoints` | `ListedWhereLookedUp`, as long as no identifier of a node is the end of a range |
| | `OddListedWhereLookedUp` | `ListedWhereLookedUp`, for odd identifiers |
| | `OwnTakesAllWhileListed` | `OwnBucketTakesAll`, in behaviours in which nodes are listed where they are looked up |
| | `OddOwnBucketTakesAll` | `OwnBucketTakesAll`, for odd identifiers |
| RoutingTableThreadsProofs | `TypeCorrect` | `TypeOK`: with any number of threads, an index a thread has looked up stays one of the table; the bucket it holds is one that was created |
| | `FoundUntilOverwritten` | `FoundUnlessOverwritten`: a lookup fails only in the gap of a split, until a split overwrites a bucket moved to its index |
| | `OverfilledBounded` | `OverfilledByThreads`: `n` threads overfill a bucket by `n - 1` contacts at most |
| SpiderCrawlProofs | `TypeCorrect` | `TypeOK` |
| | `NearestAlwaysReturned` | `NearestReturned`: they are the nearest ever named, but for those that did not respond |
| | `NothingMissed` | `MissedOnlyIfNotHeld`: None only if no peer that answered had the value |
| | `TrueAlwaysMeansDone` | `TrueMeansDone`: True only if every peer called did as it was asked |
| StorageFilesProofs | `TypeCorrect` | `TypeOK`: the model's inodes suffice for every `open`; a value file holds a record or is torn |
| | `WholeForAnyThreads` | `WholeAtRest`: however many threads, no torn value file is left behind |
| | `FilesAreRegister` | `ImplementsKeyStore`: the files are a register, for one thread and any crashes |
| | `ReportedIsStored` | `StoredWhenReported`, for one thread and any crashes |
| ReplicationProofs | `TypeCorrect` | `TypeOK` |
| | `NewestKeptHolds` | `NewestKept`: an upload, a delete or a trim only takes the newest confirmed value; no push, republication, cleaning, crash, restart or partition does |
| UploadProofs | `TypeCorrect` | `TypeOK` |
| | `ReadableIsCommitted` | `ReadableMeansCommitted`: a name is readable only if an upload of it confirmed all its chunks, or a push took None for its metadata |
| MembershipProofs | `TypeCorrect` | `TypeOK`: ids in tables are ids that other servers have taken; a stopped server keeps none |
| ClientProofs | `TypeCorrect` | `TypeOK` |
| | `TrueOnlyWhenReachedOrEmpty` | `TrueWhenReachedOrEmpty`: a `connect` that returned True has a connection, or had no server to try |
| | `NothingElseLeftOut` | `OnlyMissingLeftOut`: every chunk of what `get` puts together was received, or no location of it was told, or the last one answered None |
| | `GivenUpAfterEnough` | `GivenUpAfterAttempts`: a server is given up after all its attempts, a failed ping of the old connection counted |

**Assumptions.** Sets of servers, peers and threads are finite; factors and sizes are
positive; bounds are natural numbers; `Nothing` is no value, node or record. RoutingTable:
identifiers are numbers below 2^`IdBits`, which contains the own one, and `IdBits` is a
multiple of `DepthStep`, as 160 is of 5; the last is needed, see below. `PowersAssumption`
spells out what a power of two is, which the provers' `^` does not know. Distances in Upload
are any numbers, ties included, and the digest by which records are pushed may order
servers in another way than the key. SpiderCrawl, Replication and the rest assume nothing
of the number of peers, values, rounds or faults.

**RoutingTable.** The inductive invariant `IInv` is `TypeOK`, `TableOK` (the ranges
partition the space and every bucket is well formed with all its nodes near), the fact that
the contact in hand is not the server, and `SplitOK`: while a split is under way, the two
halves have the two halves of the range, are well formed themselves, and the nodes still to
move are near the range. The properties are not inductive without it. The delicate point is
that a bucket of one identifier must never be split, or a half would be empty and the ranges
would no longer be a partition (`SplitIsWide`). Near a range of one identifier there are
only that identifier and the one below; a node looked up there and turned away is the one
below, so the full bucket holds the other alone, which is not the server. Its depth is then
the width of an identifier, a multiple of `DepthStep`, and the bucket is not split. For
`ContactsAlwaysKept` a split in progress must also not have lost anybody (`SplitKeeps`): the
contacts are moved before the spares, so as long as there are contacts to move, the two
halves together list no more nodes than were moved, fewer than the bucket's bound, and
neither half turns one away.

`get_bucket_for` excludes the upper end of a range and `split` includes it, so a node is
looked up in another bucket than its own exactly when its identifier is an end
(`ListedOffBounds`, from `IInv`). `MCRoutingTableMidpoint.cfg` shows that this happens;
`ListedOffMidpoints` therefore has as its hypothesis that no node's identifier is an end. Even
identifiers may or may not meet it, depending on how deep the splits go. That odd identifiers
always meet it is an invariant of its own: every range is a subtree of the space of at least two identifiers, with even ends
(`SubtreesOK`). A bucket that is split holds an odd identifier and turns another away, so its
range has four identifiers and its midpoint is even again. `OwnBucketTakesAll` is not
inductive: a spare may stand in the server's own bucket while `add_contact` runs. `OwnOK`
says that it can only be the node in hand. A node that another bucket accepts at last cannot
be that spare, because it would be looked up there; this is where `ListedWhereLookedUp` is
needed.

**RoutingTableThreads.** The invariant has four parts besides the types. A range ends
at most one below its beginning: threads, unlike one thread alone, do split the range of a
single identifier (`RangesOK`). `ThreadsOK` says what each statement may rely on: that its
index is of the table, its object exists, the halves in its locals are within `ksize` and
end where the bucket it splits ends, which the table may no longer have. `InsertsBounded` counts, for each bucket, the
threads that have passed the length test and not inserted yet together with its contacts: the
sum is what `OverfilledByThreads` bounds, which alone is not inductive. `TopKept` is the
reason of `FoundUnlessOverwritten`: the bucket at the top of the space is in the table or in
the hand of a thread between the two writes of a split; every assignment that does not
overwrite a moved bucket keeps it. TLC checked the invariant with the instance of `threads`
before it was proved.

**SpiderCrawl.** Besides the properties themselves the invariant says that the heap has kept
everybody who was pushed and not removed, those out of sight included (`HeapKeepsAll`; the
nearest `ksize` are chosen anew at each look), that a value some peer answered with is among
the responses of this round or the crawl has ended with one (`ValueHeard`), and that a crawl
that deletes or confirms has one round with responses (`OneRound`).

**StorageFiles.** For any number of threads: what the place of a thread says of its
operation and its buffers (`PlaceOK`), and that a torn file is one some thread has open and
is about to write (`TornOpen`). That the model has an inode for every `open` to create is
part of `TypeCorrect`; `InodesShared` proves it by counting. The refinement and
`StoredWhenReported` hold for one thread, and only for one: `MCStorageExpected.cfg` has what
two threads do. There, `OneWriter` says that the thread has read what is in the file, and
the register (`Stored`) is the file, or what the thread is about to put into the file it has
just emptied or removed. Each system call is then a step of KeyStore or none; a crash in
between loses the record, which the register sees as a `Delete`.

**Replication.** The inductive invariant adds to the types what each place of a job says of the
rest of it (`JobsOK`): which job takes which call, and that a job with a time of its own has one.
`NewestKeptHolds` is then about one step: a server that is `Newest` stays so. Its record is
overwritten by no store, because a store of the own second needs a check just before, at a server
that had nothing or an older second then, and no such thread is under way while the server is
`Newest`; a check that succeeds is not of it, as no record and no thread has a later second. A
confirmation leaves it what it is, the cleaner takes unconfirmed records, restarts and partitions
touch no disk. What remains are stores of uploads, which only `BeginUpload` brings back, and the
sweeps of trims and deletions: the commands.

**Upload.** `ReadableIsCommitted` rests on where a job can be (`JobsOK`), on the confirmation of
metadata being reached over the chunks only (`CommitsOK`), and on what is on its way between
servers: metadata that was confirmed when it was read, or is None (`GivesOK`); in both cases its
name is `Justified`, committed or emptied, before the record arrives, since arriving it confirms
whatever is stored there by then. A name is unread or `Justified` (`NamesOK`). Nothing is assumed
of the order of calls, the clocks or the speed of uploads.

**Membership, Client.** The invariant of Membership ties an id to the starts of its server
(`TablesOK`, `StartsCounted`) through all that `Added` and `Removed` do with a table, and a hint to
another server than the one that uses it (`HintsOK`). That of Client counts: connections
refused and attempts left add up to all attempts, but for one that the ping of the old
connection took (`AttemptsCounted`), and the chunks before the one `get` is at are those received
and those missed, none of them both (`ChunksCounted`).

**Only model-checked.** Liveness (`AddReturns`, `CrawlEnds`, `OperationsEnd`, `Recovers`,
`Settles`, `AloneEnds`, `Forgotten`, `Linked`, `CallsEnd`): the prover has neither fairness nor
ENABLED. `NearestAnsweredFirst`: the XOR of the community module `Bitwise` is recursive.
`TrueMeansWhole`: its invariant has to follow every record on its way, call by call; TLC checks it
with the configurations of Upload. The refinement and `StoredWhenReported` are proved for one
thread, `ListedWhereLookedUp` and `OwnBucketTakesAll` off the midpoints, as far as they hold;
where a configuration of section 3 refutes more, nothing more is claimed.

## 6. Not modelled

- `message_system` is an external package: a broadcast is heard or missed.
- Ages in seconds, republish dates and random identifiers: "at any moment" and "any contact"
  stand for them; of `lonely_buckets` only that `_detect_alone` keeps a single bucket out of it. In particular the wrap of `timedelta.seconds`
  (storage.py:170) at a day is inside "at any moment".
- A hung call without timeout (`sync_request_timeout: None`) is a thread that stops for good;
  the fairness assumes that it does not happen.
- A server's contacts in Upload are a set, in Membership those of one bucket until it is split:
  RoutingTable says which of them a full table keeps. Of the refresh of a table with several
  buckets nothing is promised. Trimming is in Replication only, so `TrueMeansWhole` does not
  speak of it.
- Pickling, digests, formatting, logging, the CLI and the configuration: no property is about
  them. Digests are taken to be distinct.
- The JavaScript under `docs/assets` (`lunr/wordcut.js`, `lunr/tinyseg.js` and the like) is
  the vendored search of the generated documentation site. It is no part of kade-drive, which
  is written in Python under `src/kade_drive`.

## 7. Plan

1. `TrueMeansWhole` as a theorem, with pushes and republications call by call.
2. Upload with trimming, when the state space allows it.
3. Which even identifiers a split can reach: a set of identifiers none of which is a midpoint
   of ranges the others can make, in place of odd ones.
