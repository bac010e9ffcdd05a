---------------------------- MODULE StorageFiles ----------------------------
(***************************************************************************)
(* The files PersistentStorage (src/kade_drive/core/storage.py) keeps for  *)
(* one key - the value or metadata file, the keys file, the timestamp -    *)
(* and the lock file beside the value, as several threads of the server    *)
(* operate on them.  The threads share one PersistentStorage; nothing but  *)
(* the FileLock orders them, and each of them removes the lock file after  *)
(* it released the lock.  A step is one system call.                       *)
(* Abstracted: pickling, the record's names and dates (that a record is    *)
(* older than the ttl may be true at any moment), the timestamp's content. *)
(***************************************************************************)
EXTENDS Naturals, FiniteSets, FiniteSetsExt

CONSTANTS
    Threads,
    Values,
    Nothing,
    Torn,           \* what a file holds that is opened for writing and not yet written
    Ops,            \* the operations the threads may call
    IsMetadata,     \* whether the key is the one of metadata
    MaxCrashes      \* bound: times the process is killed

AllOps == {"set_value", "get_value", "confirm_integrity", "delete", "delete_corrupted_data"}

ASSUME ThreadsAssumption == IsFiniteSet(Threads)
ASSUME OpsAssumption == Ops \subseteq AllOps
ASSUME CrashesAssumption == MaxCrashes \in Nat

Record == [value : Values, integrity : BOOLEAN]

\* None is no value and no record, and a torn file holds neither.
ASSUME ContentsAssumption ==
    /\ Nothing \notin Values /\ Nothing \notin Record
    /\ Torn \notin Record /\ Torn # Nothing

\* One file more than the threads can hold open and the directory entry.
Inodes == 1..(Cardinality(Threads) + 1)

VARIABLES
    file,       \* inode of the value file, 0 when there is none
    content,    \* what each inode holds
    hasKey,     \* whether the keys file exists
    hasStamp,   \* whether the timestamp file exists
    lockFile,   \* inode of the lock file, 0 when there is none
    locked,     \* the lock inode each thread holds the flock of, 0 for none
    lockFd,     \* the lock inode each thread opened and has not locked
    fd,         \* the inode each thread has open for writing
    op, pc,     \* the operation each thread is in, and its next system call
    arg,        \* the value set_value has yet to write
    buf,        \* the record the thread has read
    crashes,
    latest      \* history: the value last written by set_value

disk == <<file, content, hasKey, hasStamp>>
locks == <<lockFile, locked, lockFd>>
locals == <<fd, op, pc, arg, buf>>
ghosts == <<crashes, latest>>
vars == <<disk, locks, locals, ghosts>>

All(x) == [t \in Threads |-> x]

Init ==
    /\ file = 0
    /\ content = [i \in Inodes |-> Torn]
    /\ hasKey = FALSE
    /\ hasStamp = FALSE
    /\ lockFile = 0
    /\ locked = All(0)
    /\ lockFd = All(0)
    /\ fd = All(0)
    /\ op = All("none")
    /\ pc = All("idle")
    /\ arg = All(Nothing)
    /\ buf = All(Nothing)
    /\ crashes = 0
    /\ latest = Nothing

Goto(t, place) == pc' = [pc EXCEPT ![t] = place]

\* The operation returns, or raises.
Ends(t, how) ==
    /\ Goto(t, how)
    /\ op' = [op EXCEPT ![t] = "none"]
    /\ fd' = [fd EXCEPT ![t] = 0]
    /\ arg' = [arg EXCEPT ![t] = Nothing]
    /\ buf' = [buf EXCEPT ![t] = Nothing]

AtRest(t) == pc[t] \in {"idle", "raised"}

At(t, place) == pc[t] = place
In(t, ops) == op[t] \in ops

FreshFile == Min(Inodes \ ({file} \cup {fd[t] : t \in Threads}))
FreshLock == Min(Inodes \ ({lockFile} \cup {locked[t] : t \in Threads} \cup {lockFd[t] : t \in Threads}))

-----------------------------------------------------------------------------
(* Beginnings                                                              *)

Begins(t, o, place, v) ==
    /\ AtRest(t) /\ o \in Ops
    /\ op' = [op EXCEPT ![t] = o]
    /\ arg' = [arg EXCEPT ![t] = v]
    /\ Goto(t, place)
    /\ UNCHANGED <<disk, locks, fd, buf, ghosts>>

BeginSet(t) == \E v \in Values : Begins(t, "set_value", "stamp", v)

\* get_value and confirm_integrity do nothing without the file.
BeginGet(t) == file # 0 /\ Begins(t, "get_value", "lock", Nothing)
BeginConfirm(t) == file # 0 /\ Begins(t, "confirm_integrity", "read", Nothing)

\* The metadata is marked and read before anything is removed.
BeginDelete(t) ==
    Begins(t, "delete", IF IsMetadata /\ file # 0 THEN "lock" ELSE "test key", Nothing)

\* delete_corrupted_data walks the keys directory.
BeginClean(t) == hasKey /\ file # 0 /\ Begins(t, "delete_corrupted_data", "lock", Nothing)

Begin(t) == BeginSet(t) \/ BeginGet(t) \/ BeginConfirm(t) \/ BeginDelete(t) \/ BeginClean(t)

-----------------------------------------------------------------------------
(* FileLock                                                                *)

\* The file is the lock: one that exists is taken, one left behind by a crash for ever.
LockOpenMutant(t) ==
    /\ At(t, "lock")
    /\ IF lockFile = 0
       THEN /\ lockFile' = FreshLock
            /\ lockFd' = [lockFd EXCEPT ![t] = lockFile']
            /\ Goto(t, "flock")
       ELSE Goto(t, "remove lock") /\ UNCHANGED <<lockFile, lockFd>>
    /\ UNCHANGED <<disk, locked, fd, op, arg, buf, ghosts>>

\* FileLock.acquire opens, or creates, the lock file...
LockOpen(t) ==
    /\ At(t, "lock")
    /\ lockFile' = IF lockFile = 0 THEN FreshLock ELSE lockFile
    /\ lockFd' = [lockFd EXCEPT ![t] = lockFile']
    /\ Goto(t, "flock")
    /\ UNCHANGED <<disk, locked, fd, op, arg, buf, ghosts>>

\* ...and takes its flock, which belongs to the inode and not to the name.
LockTake(t) ==
    /\ At(t, "flock")
    /\ \A u \in Threads : locked[u] # lockFd[t]
    /\ locked' = [locked EXCEPT ![t] = lockFd[t]]
    /\ lockFd' = [lockFd EXCEPT ![t] = 0]
    /\ Goto(t, IF op[t] = "set_value" THEN "truncate" ELSE "read")
    /\ UNCHANGED <<disk, lockFile, fd, op, arg, buf, ghosts>>

\* Somebody else has it: the lock file is closed, and opened again at the next poll.
LockPoll(t) ==
    /\ At(t, "flock")
    /\ \E u \in Threads : locked[u] = lockFd[t]
    /\ lockFd' = [lockFd EXCEPT ![t] = 0]
    /\ Goto(t, "lock")
    /\ UNCHANGED <<disk, lockFile, locked, fd, op, arg, buf, ghosts>>

\* The lock is waited for without end.
LockTimeoutMutant(t) == LockPoll(t)

\* The polls took longer than the timeout; the clean-up runs all the same.
LockTimeout(t) ==
    /\ At(t, "flock")
    /\ \E u \in Threads : locked[u] = lockFd[t]
    /\ lockFd' = [lockFd EXCEPT ![t] = 0]
    /\ Goto(t, "remove lock")
    /\ UNCHANGED <<disk, lockFile, locked, fd, op, arg, buf, ghosts>>

\* lock.release()
Unlock(t) ==
    /\ At(t, "unlock")
    /\ locked' = [locked EXCEPT ![t] = 0]
    /\ Goto(t, "remove lock")
    /\ UNCHANGED <<disk, lockFile, lockFd, fd, op, arg, buf, ghosts>>

\* os.remove of the lock file raises when another thread was faster.
RemoveLockRaises(t) ==
    /\ At(t, "remove lock")
    /\ lockFile = 0
    /\ Ends(t, "raised")
    /\ UNCHANGED <<disk, locks, ghosts>>

\* What follows the locked part; a record that was not read is None.
AfterLock(t) ==
    CASE op[t] = "set_value" -> Ends(t, "idle")
      [] op[t] = "delete" ->
            IF buf[t] = Nothing
            THEN Ends(t, "raised")
            ELSE Goto(t, "test key") /\ UNCHANGED <<op, fd, arg, buf>>
      [] op[t] \in {"get_value", "delete_corrupted_data"} ->
            IF buf[t] = Torn
            THEN Ends(t, "raised")
            ELSE IF buf[t] = Nothing
                 THEN Ends(t, "idle")
                 ELSE Goto(t, "stamp") /\ UNCHANGED <<op, fd, arg, buf>>

RemoveLock(t) ==
    /\ At(t, "remove lock")
    /\ lockFile # 0
    /\ lockFile' = 0
    /\ AfterLock(t)
    /\ UNCHANGED <<disk, locked, lockFd, ghosts>>

-----------------------------------------------------------------------------
(* The files                                                               *)

\* update_timestamp begins set_value and ends get_value.  The cleaner deletes a record it
\* found unconfirmed and expired.
Stamp(t) ==
    /\ At(t, "stamp")
    /\ hasStamp' = TRUE
    /\ CASE op[t] = "set_value" -> Goto(t, "lock") /\ UNCHANGED <<op, fd, arg, buf>>
         [] op[t] = "get_value" -> Ends(t, "idle")
         [] op[t] = "delete_corrupted_data" ->
               \/ Ends(t, "idle")
               \/ /\ ~buf[t].integrity
                  /\ Goto(t, IF IsMetadata /\ file # 0 THEN "lock" ELSE "test key")
                  /\ op' = [op EXCEPT ![t] = "delete"]
                  /\ buf' = [buf EXCEPT ![t] = Nothing]
                  /\ UNCHANGED <<fd, arg>>
    /\ UNCHANGED <<file, content, hasKey, locks, ghosts>>

\* What open and read find.
Found == IF file = 0 THEN Nothing ELSE content[file]

\* confirm_integrity lets the errors of reading out.
ReadToConfirm(t) ==
    /\ At(t, "read") /\ op[t] = "confirm_integrity"
    /\ IF Found \in {Nothing, Torn}
       THEN Ends(t, "raised")
       ELSE /\ buf' = [buf EXCEPT ![t] = [Found EXCEPT !.integrity = TRUE]]
            /\ Goto(t, "unlink")
            /\ UNCHANGED <<op, fd, arg>>
    /\ UNCHANGED <<disk, locks, ghosts>>

\* The metadata is opened for writing before it is read.
ReadToDeleteMutant(t) ==
    /\ At(t, "read") /\ op[t] = "delete"
    /\ content' = IF file = 0 THEN content ELSE [content EXCEPT ![file] = Torn]
    /\ Goto(t, "unlock")
    /\ UNCHANGED <<file, hasKey, hasStamp, locks, fd, op, arg, buf, ghosts>>

\* _prepare_metadata_for_removal_and_get_value logs them.
ReadToDelete(t) ==
    /\ At(t, "read") /\ op[t] = "delete"
    /\ IF Found \in {Nothing, Torn}
       THEN Goto(t, "unlock") /\ UNCHANGED buf
       ELSE /\ buf' = [buf EXCEPT ![t] = [Found EXCEPT !.integrity = FALSE]]
            /\ Goto(t, "truncate")
    /\ UNCHANGED <<disk, locks, op, fd, arg, ghosts>>

\* get_value logs them too, but unpickles what it read after the lock.
ReadToGet(t) ==
    /\ At(t, "read") /\ In(t, {"get_value", "delete_corrupted_data"})
    /\ buf' = [buf EXCEPT ![t] = Found]
    /\ Goto(t, "unlock")
    /\ UNCHANGED <<disk, locks, op, fd, arg, ghosts>>

Read(t) == ReadToConfirm(t) \/ ReadToDelete(t) \/ ReadToGet(t)

\* os.remove(path) of confirm_integrity
Unlink(t) ==
    /\ At(t, "unlink")
    /\ IF file = 0
       THEN Ends(t, "raised") /\ UNCHANGED file
       ELSE file' = 0 /\ Goto(t, "truncate") /\ UNCHANGED <<op, fd, arg, buf>>
    /\ UNCHANGED <<content, hasKey, hasStamp, locks, ghosts>>

\* open(path, "wb")
Truncate(t) ==
    /\ At(t, "truncate")
    /\ file' = IF file = 0 THEN FreshFile ELSE file
    /\ content' = [content EXCEPT ![file'] = Torn]
    /\ fd' = [fd EXCEPT ![t] = file']
    /\ Goto(t, "write")
    /\ UNCHANGED <<hasKey, hasStamp, locks, op, arg, buf, ghosts>>

\* The record is confirmed from the start.
NewRecordMutant(t) ==
    IF op[t] = "set_value" THEN [value |-> arg[t], integrity |-> TRUE] ELSE buf[t]

NewRecord(t) ==
    IF op[t] = "set_value" THEN [value |-> arg[t], integrity |-> FALSE] ELSE buf[t]

\* The value is written without its record.
WriteMutant(t) ==
    /\ At(t, "write")
    /\ content' = [content EXCEPT ![fd[t]] = IF op[t] = "set_value" THEN arg[t] ELSE buf[t]]
    /\ latest' = IF op[t] = "set_value" THEN arg[t] ELSE latest
    /\ IF op[t] = "confirm_integrity"
       THEN Ends(t, "idle")
       ELSE /\ fd' = [fd EXCEPT ![t] = 0]
            /\ arg' = [arg EXCEPT ![t] = Nothing]
            /\ Goto(t, IF op[t] = "set_value" THEN "write key" ELSE "unlock")
            /\ UNCHANGED <<op, buf>>
    /\ UNCHANGED <<file, hasKey, hasStamp, locks, crashes>>

\* The record is written to the inode that was opened, whatever the name stands for now: in
\* one step, as a record smaller than the buffer of open is when the file is closed.
Write(t) ==
    /\ At(t, "write")
    /\ content' = [content EXCEPT ![fd[t]] = NewRecord(t)]
    /\ latest' = IF op[t] = "set_value" THEN arg[t] ELSE latest
    /\ IF op[t] = "confirm_integrity"
       THEN Ends(t, "idle")
       ELSE /\ fd' = [fd EXCEPT ![t] = 0]
            /\ arg' = [arg EXCEPT ![t] = Nothing]
            /\ Goto(t, IF op[t] = "set_value" THEN "write key" ELSE "unlock")
            /\ UNCHANGED <<op, buf>>
    /\ UNCHANGED <<file, hasKey, hasStamp, locks, crashes>>

WriteKey(t) ==
    /\ At(t, "write key")
    /\ hasKey' = TRUE
    /\ Goto(t, "unlock")
    /\ UNCHANGED <<file, content, hasStamp, locks, fd, op, arg, buf, ghosts>>

Proceeds(t, next) ==
    IF next = "idle" THEN Ends(t, "idle") ELSE Goto(t, next) /\ UNCHANGED <<op, fd, arg, buf>>

\* _delete_data tests each path...
TestFile(t, test, exists, remove, next) ==
    /\ At(t, test)
    /\ Proceeds(t, IF exists THEN remove ELSE next)
    /\ UNCHANGED <<disk, locks, ghosts>>

\* ...and removes it; a remove that comes too late raises.
RemoveFile(t, remove, exists, next) ==
    /\ At(t, remove)
    /\ IF exists THEN Proceeds(t, next) ELSE Ends(t, "raised")
    /\ hasKey' = (hasKey /\ remove # "remove key")
    /\ file' = IF remove = "remove value" THEN 0 ELSE file
    /\ hasStamp' = (hasStamp /\ remove # "remove timestamp")
    /\ UNCHANGED <<content, locks, ghosts>>

DeleteData(t) ==
    \/ TestFile(t, "test key", hasKey, "remove key", "test value")
    \/ RemoveFile(t, "remove key", hasKey, "test value")
    \/ TestFile(t, "test value", file # 0, "remove value", "test timestamp")
    \/ RemoveFile(t, "remove value", file # 0, "test timestamp")
    \/ TestFile(t, "test timestamp", hasStamp, "remove timestamp", "idle")
    \/ RemoveFile(t, "remove timestamp", hasStamp, "idle")

-----------------------------------------------------------------------------

\* The process is killed and started again: the threads and the flocks are gone, the
\* files are as they were.
Crash ==
    /\ crashes < MaxCrashes
    /\ crashes' = crashes + 1
    /\ locked' = All(0)
    /\ lockFd' = All(0)
    /\ fd' = All(0)
    /\ op' = All("none")
    /\ pc' = All("idle")
    /\ arg' = All(Nothing)
    /\ buf' = All(Nothing)
    /\ UNCHANGED <<disk, lockFile, latest>>

Step(t) ==
    \/ LockOpen(t) \/ LockTake(t) \/ LockPoll(t) \/ LockTimeout(t) \/ Unlock(t) \/ RemoveLock(t) \/ RemoveLockRaises(t)
    \/ Stamp(t) \/ Read(t) \/ Unlink(t) \/ Truncate(t) \/ Write(t) \/ WriteKey(t) \/ DeleteData(t)

Next == Crash \/ \E t \in Threads : Begin(t) \/ Step(t)

Spec == Init /\ [][Next]_vars

\* Every thread is scheduled, and the clock goes on: a thread that finds the lock taken at
\* poll after poll has its Timeout.
FairSpec == Spec /\ \A t \in Threads : WF_vars(Step(t)) /\ SF_vars(LockTimeout(t))

-----------------------------------------------------------------------------
(* Properties                                                              *)

Places ==
    {"idle", "raised", "stamp", "lock", "flock", "unlock", "remove lock", "read", "unlink",
     "truncate", "write", "write key", "test key", "remove key", "test value",
     "remove value", "test timestamp", "remove timestamp"}

\* Every variable has its type.
TypeOK ==
    /\ file \in {0} \cup Inodes
    /\ content \in [Inodes -> Record \cup {Torn}]
    /\ hasKey \in BOOLEAN /\ hasStamp \in BOOLEAN
    /\ lockFile \in {0} \cup Inodes
    /\ locked \in [Threads -> {0} \cup Inodes]
    /\ lockFd \in [Threads -> {0} \cup Inodes]
    /\ fd \in [Threads -> {0} \cup Inodes]
    /\ op \in [Threads -> {"none"} \cup AllOps]
    /\ pc \in [Threads -> Places]
    /\ arg \in [Threads -> Values \cup {Nothing}]
    /\ buf \in [Threads -> Record \cup {Torn, Nothing}]
    /\ crashes \in 0..MaxCrashes
    /\ latest \in Values \cup {Nothing}

Quiet == \A t \in Threads : AtRest(t)

\* When no thread is in the storage and it was never killed, the value file is whole,
\* although two writers may have had it open at once.
WholeAtRest == Quiet /\ crashes = 0 /\ file # 0 => content[file] # Torn

\* Every operation ends, whatever the others hold: a lock is waited for 60 seconds at most,
\* and `break` in the finally block ends the retry loop.
OperationsEnd == \A t \in Threads : ~AtRest(t) ~> AtRest(t)

\* The register the files stand for.  A write takes effect when the file is truncated, a
\* confirmation when the file is unlinked; a file that a crash left half-written, which
\* nobody can read, stands for nothing.
Stored ==
    LET writer == {t \in Threads : At(t, "write") \/ (At(t, "truncate") /\ op[t] = "confirm_integrity")}
    IN  IF writer # {}
        THEN NewRecord(CHOOSE t \in writer : TRUE)
        ELSE IF file = 0 \/ content[file] = Torn THEN Nothing ELSE content[file]

Abstract == INSTANCE KeyStore WITH stored <- Stored

\* With one thread, killed and started again at any point, the files implement the register:
\* a crash loses a record at most, it never brings back an old one or confirms one.
ImplementsKeyStore == Abstract!Spec

\* Only one thread is inside the lock: "Another instance of this application currently
\* holds the lock" is what the others are told.
LockExcludes ==
    \A t, u \in Threads : locked[t] # 0 /\ locked[u] # 0 => t = u

\* "store values and report success": a set_value that returns to rpc_store, which then
\* answers True, has written its value.
StoredWhenReported ==
    [][\A t \in Threads :
           op[t] = "set_value" /\ pc'[t] = "idle" /\ crashes' = crashes => arg[t] = Nothing]_vars

\* The value at rest is the one written last: "the most recently written values are
\* maintained".
NewestKept == Quiet /\ file # 0 /\ content[file] # Torn => content[file].value = latest

\* A file is deleted for its age only if "integrity is still False".
CleanedUnconfirmed ==
    [][\A t \in Threads :
           At(t, "remove value") /\ file # 0 /\ file' = 0 /\ content[file] # Torn =>
               ~content[file].integrity]_vars

\* A timestamp has its key: iter_older_than looks up the key of every timestamp.
StampHasKey == Quiet /\ hasStamp => hasKey
=============================================================================
