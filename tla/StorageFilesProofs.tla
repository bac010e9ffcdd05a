-------------------------- MODULE StorageFilesProofs --------------------------
(***************************************************************************)
(* Proofs about StorageFiles: types and whole files for any number of      *)
(* threads; that the files implement KeyStore, and that a set_value that   *)
(* returns has written, for one thread and any number of crashes.          *)
(***************************************************************************)
EXTENDS StorageFiles, Integers, FiniteSetTheorems, WellFoundedInduction, TLAPS

(* A set of numbers has a smallest one: Nat is well-founded. *)
LEMMA SmallestNat ==
    ASSUME NEW T, T \subseteq Nat, T # {}
    PROVE  \E x \in T : \A y \in T : x <= y
<1>1. \E x \in T : \A y \in T : ~(<<y, x>> \in OpToRel(<, Nat))
  BY NatLessThanWellFounded, WFMin
<1>2. ASSUME NEW x \in Nat, NEW y \in Nat, ~(<<y, x>> \in OpToRel(<, Nat)) PROVE x <= y
  BY <1>2 DEF OpToRel
<1> QED BY <1>1, <1>2


Deleting ==
    {"test key", "remove key", "test value", "remove value", "test timestamp", "remove timestamp"}

(* TypeOK is these three, the number of crashes and the history. *)
DiskOK ==
    /\ file \in {0} \cup Inodes
    /\ content \in [Inodes -> Record \cup {Torn}]
    /\ hasKey \in BOOLEAN /\ hasStamp \in BOOLEAN

LocksOK ==
    /\ lockFile \in {0} \cup Inodes
    /\ locked \in [Threads -> {0} \cup Inodes]
    /\ lockFd \in [Threads -> {0} \cup Inodes]

LocalsOK ==
    /\ fd \in [Threads -> {0} \cup Inodes]
    /\ op \in [Threads -> {"none"} \cup AllOps]
    /\ pc \in [Threads -> Places]
    /\ arg \in [Threads -> Values \cup {Nothing}]
    /\ buf \in [Threads -> Record \cup {Torn, Nothing}]

(* What the place of a thread says of its operation, its data and its lock. *)
PlaceOK(t) ==
    /\ AtRest(t) => op[t] = "none"
    /\ pc[t] = "stamp" => op[t] \in {"set_value", "get_value", "delete_corrupted_data"}
    /\ pc[t] = "stamp" /\ op[t] = "delete_corrupted_data" => buf[t] \in Record
    /\ pc[t] \in {"lock", "flock", "unlock", "remove lock"} =>
          op[t] \in {"set_value", "get_value", "delete", "delete_corrupted_data"}
    /\ pc[t] = "read" => op[t] \in {"get_value", "delete", "delete_corrupted_data", "confirm_integrity"}
    /\ pc[t] = "unlink" => op[t] = "confirm_integrity" /\ buf[t] \in Record
    /\ pc[t] \in {"truncate", "write"} => op[t] \in {"set_value", "confirm_integrity", "delete"}
    /\ pc[t] \in {"truncate", "write"} /\ op[t] # "set_value" => buf[t] \in Record
    /\ pc[t] \in {"stamp", "lock", "flock", "truncate", "write"} /\ op[t] = "set_value" => arg[t] \in Values
    /\ pc[t] = "write" => fd[t] \in Inodes
    /\ pc[t] = "write key" => op[t] = "set_value"
    /\ pc[t] \in Deleting => op[t] = "delete"
    /\ lockFd[t] # 0 <=> pc[t] = "flock"
    /\ locked[t] # 0 => pc[t] \in {"read", "truncate", "write", "write key", "unlock"}
                          /\ op[t] # "confirm_integrity"

(* A torn file is one that a thread has open and is about to write. *)
TornOpen ==
    crashes = 0 /\ file # 0 /\ content[file] = Torn =>
        \E t \in Threads : pc[t] = "write" /\ fd[t] = file

IInv == TypeOK /\ (\A t \in Threads : PlaceOK(t)) /\ TornOpen

SameOthers(t) ==
    \A u \in Threads \ {t} :
        /\ pc'[u] = pc[u] /\ op'[u] = op[u] /\ fd'[u] = fd[u] /\ arg'[u] = arg[u] /\ buf'[u] = buf[u]
        /\ locked'[u] = locked[u] /\ lockFd'[u] = lockFd[u]

(* What every step of a thread does. *)
Keeps(t) == DiskOK' /\ LocksOK' /\ LocalsOK' /\ PlaceOK(t)' /\ SameOthers(t)

LEMMA TypeParts ==
    TypeOK <=> /\ DiskOK /\ LocksOK /\ LocalsOK
               /\ crashes \in 0..MaxCrashes /\ latest \in Values \cup {Nothing}
BY DEF TypeOK, DiskOK, LocksOK, LocalsOK

-----------------------------------------------------------------------------
(* Inodes *)

LEMMA MinOfInodes ==
    ASSUME NEW S, S \subseteq Nat, S # {}
    PROVE  Min(S) \in S
BY SmallestNat DEF Min

LEMMA ThreadsFewer ==
    /\ IsFiniteSet(Threads) /\ IsFiniteSet(Inodes) /\ Inodes \subseteq Nat \ {0}
    /\ Cardinality(Threads) < Cardinality(Inodes)
<1>1. Cardinality(Threads) \in Nat
  BY ThreadsAssumption, FS_CardinalityType
<1> DEFINE n == Cardinality(Threads) + 1
<1>2. n \in Int /\ 1 \in Int /\ ~(1 > n)
  BY <1>1
<1> HIDE DEF n
<1>3. IsFiniteSet(1..n) /\ Cardinality(1..n) = n - 1 + 1
  BY <1>2, FS_Interval
<1>4. Inodes = 1..n
  BY DEF Inodes, n
<1>5. 1..n \subseteq Nat \ {0}
  BY <1>2
<1>6. Cardinality(Threads) < n
  BY <1>1 DEF n
<1> QED BY <1>1, <1>2, <1>3, <1>4, <1>5, <1>6, ThreadsAssumption

LEMMA InodesShared ==
    ASSUME NEW f \in [Inodes -> Threads]
    PROVE  \E i, j \in Inodes : i # j /\ f[i] = f[j]
<1> DEFINE S == Inodes
           T == Threads
<1>1. IsFiniteSet(S) /\ IsFiniteSet(T) /\ Cardinality(T) < Cardinality(S) /\ f \in [S -> T]
  BY ThreadsFewer
<1> HIDE DEF S, T
<1>2. \E i, j \in S : i # j /\ f[i] = f[j]
  BY <1>1, FS_PigeonHole
<1> QED BY <1>2 DEF S

(* One inode at least is not open: there is one more than threads. *)
LEMMA FreshFileOK ==
    ASSUME file = 0
    PROVE  FreshFile \in Inodes /\ \A t \in Threads : fd[t] # FreshFile
<1> DEFINE free == Inodes \ ({file} \cup {fd[t] : t \in Threads})
<1>1. ASSUME free = {} PROVE FALSE
  <2> DEFINE user == [i \in Inodes |-> CHOOSE t \in Threads : fd[t] = i]
  <2>1. ASSUME NEW i \in Inodes PROVE user[i] \in Threads /\ fd[user[i]] = i
    <3>1. \E t \in Threads : fd[t] = i
      BY <1>1, ThreadsFewer
    <3> QED BY <3>1
  <2>2. user \in [Inodes -> Threads]
    BY <2>1
  <2> HIDE DEF user
  <2>3. \E i, j \in Inodes : i # j /\ user[i] = user[j]
    BY <2>2, InodesShared
  <2>4. PICK i \in Inodes, j \in Inodes : i # j /\ user[i] = user[j]
    BY <2>3
  <2> QED BY <2>1, <2>4
<1>2. free \subseteq Nat
  BY ThreadsFewer
<1>3. Min(free) \in free
  <2> HIDE DEF free
  <2> QED BY <1>1, <1>2, MinOfInodes
<1> QED BY <1>3 DEF FreshFile

(* No thread has one lock file locked and opened another. *)
LEMMA FreshLockOK ==
    ASSUME lockFile = 0, \A t \in Threads : PlaceOK(t)
    PROVE  FreshLock \in Inodes
<1> DEFINE free == Inodes \ ({lockFile} \cup {locked[t] : t \in Threads} \cup {lockFd[t] : t \in Threads})
<1>1. ASSUME free = {} PROVE FALSE
  <2> DEFINE user == [i \in Inodes |-> CHOOSE t \in Threads : i \in {locked[t], lockFd[t]}]
  <2>1. ASSUME NEW i \in Inodes PROVE user[i] \in Threads /\ i \in {locked[user[i]], lockFd[user[i]]}
    <3>1. \E t \in Threads : i \in {locked[t], lockFd[t]}
      BY <1>1, ThreadsFewer
    <3> QED BY <3>1
  <2>2. user \in [Inodes -> Threads]
    BY <2>1
  <2> HIDE DEF user
  <2>3. \E i, j \in Inodes : i # j /\ user[i] = user[j]
    BY <2>2, InodesShared
  <2>4. PICK i \in Inodes, j \in Inodes : i # j /\ user[i] = user[j]
    BY <2>3
  <2>5. user[i] \in Threads /\ i # 0 /\ j # 0 /\ {i, j} \subseteq {locked[user[i]], lockFd[user[i]]}
    BY <2>1, <2>4, ThreadsFewer
  <2>6. locked[user[i]] # 0 /\ lockFd[user[i]] # 0
    BY <2>4, <2>5
  <2> QED BY <2>5, <2>6 DEF PlaceOK
<1>2. free \subseteq Nat
  BY ThreadsFewer
<1>3. Min(free) \in free
  <2> HIDE DEF free
  <2> QED BY <1>1, <1>2, MinOfInodes
<1> QED BY <1>3 DEF FreshLock

-----------------------------------------------------------------------------
(* What a step of a thread does to its own data *)

LEMMA RecordChanged ==
    ASSUME NEW r \in Record, NEW b \in BOOLEAN
    PROVE  [r EXCEPT !.integrity = b] \in Record
BY DEF Record

LEMMA NotRecords == Nothing \notin Record /\ Torn \notin Record /\ Torn # Nothing /\ Nothing \notin Values
BY ContentsAssumption

LEMMA GotoOK ==
    ASSUME NEW t \in Threads, NEW place \in Places, LocalsOK, Goto(t, place)
    PROVE  /\ pc' \in [Threads -> Places] /\ pc'[t] = place
           /\ \A u \in Threads \ {t} : pc'[u] = pc[u]
BY DEF LocalsOK, Goto

LEMMA EndsOK ==
    ASSUME NEW t \in Threads, NEW how \in {"idle", "raised"}, LocalsOK, Ends(t, how)
    PROVE  /\ LocalsOK'
           /\ pc'[t] = how /\ op'[t] = "none" /\ fd'[t] = 0 /\ arg'[t] = Nothing /\ buf'[t] = Nothing
           /\ \A u \in Threads \ {t} :
                 pc'[u] = pc[u] /\ op'[u] = op[u] /\ fd'[u] = fd[u] /\ arg'[u] = arg[u] /\ buf'[u] = buf[u]
<1>1. how \in Places
  BY DEF Places
<1> QED BY <1>1 DEF LocalsOK, Ends, Goto

(* A thread at rest holds no lock. *)
LEMMA RestOK ==
    ASSUME NEW t \in Threads, LocalsOK', AtRest(t)', op'[t] = "none", locked'[t] = 0, lockFd'[t] = 0
    PROVE  PlaceOK(t)'
BY DEF PlaceOK, AtRest, Deleting, LocalsOK

LEMMA EndsKeeps ==
    ASSUME NEW t \in Threads, NEW how \in {"idle", "raised"}, LocalsOK, LocksOK, Ends(t, how),
           UNCHANGED <<locked, lockFd>>, locked[t] = 0, lockFd[t] = 0
    PROVE  LocalsOK' /\ PlaceOK(t)' /\ SameOthers(t)
<1>1. LocalsOK' /\ pc'[t] = how /\ op'[t] = "none" /\ locked'[t] = 0 /\ lockFd'[t] = 0
  BY EndsOK
<1>2. PlaceOK(t)'
  BY <1>1, RestOK DEF AtRest
<1> QED BY <1>1, <1>2, EndsOK DEF SameOthers

LEMMA BeginsKeeps ==
    ASSUME NEW t \in Threads, DiskOK, LocksOK, LocalsOK, PlaceOK(t), NEW o, NEW place, NEW v,
           Begins(t, o, place, v),
           \/ o = "set_value" /\ place = "stamp" /\ v \in Values
           \/ o = "get_value" /\ place = "lock" /\ v = Nothing
           \/ o = "confirm_integrity" /\ place = "read" /\ v = Nothing
           \/ o = "delete" /\ place \in {"lock", "test key"} /\ v = Nothing
           \/ o = "delete_corrupted_data" /\ place = "lock" /\ v = Nothing
    PROVE  Keeps(t)
<1>1. place \in Places /\ o \in AllOps /\ v \in Values \cup {Nothing}
  BY DEF Places, AllOps
<1>2. /\ pc' \in [Threads -> Places] /\ pc'[t] = place
      /\ \A u \in Threads \ {t} : pc'[u] = pc[u]
  BY <1>1, GotoOK DEF Begins
<1>3. /\ op' \in [Threads -> {"none"} \cup AllOps] /\ op'[t] = o
      /\ \A u \in Threads \ {t} : op'[u] = op[u]
      /\ arg' \in [Threads -> Values \cup {Nothing}] /\ arg'[t] = v
      /\ \A u \in Threads \ {t} : arg'[u] = arg[u]
  BY <1>1 DEF Begins, LocalsOK
<1>4. UNCHANGED <<disk, locks, fd, buf>> /\ AtRest(t)
  BY DEF Begins
<1>5. locked[t] = 0 /\ lockFd[t] = 0
  BY <1>4 DEF PlaceOK, AtRest
<1>6. PlaceOK(t)'
  BY <1>2, <1>3, <1>4, <1>5 DEF PlaceOK, AtRest, Deleting, locks
<1> QED BY <1>2, <1>3, <1>4, <1>6 DEF Keeps, SameOthers, DiskOK, LocksOK, LocalsOK, disk, locks

LEMMA BeginKeeps ==
    ASSUME NEW t \in Threads, DiskOK, LocksOK, LocalsOK, PlaceOK(t), Begin(t)
    PROVE  Keeps(t)
<1>1. CASE BeginSet(t)
  BY <1>1, BeginsKeeps DEF BeginSet
<1>2. CASE BeginGet(t)
  BY <1>2, BeginsKeeps DEF BeginGet
<1>3. CASE BeginConfirm(t)
  BY <1>3, BeginsKeeps DEF BeginConfirm
<1>4. CASE BeginDelete(t)
  <2>1. PICK place \in {"lock", "test key"} : Begins(t, "delete", place, Nothing)
    BY <1>4 DEF BeginDelete
  <2> QED BY <2>1, BeginsKeeps
<1>5. CASE BeginClean(t)
  BY <1>5, BeginsKeeps DEF BeginClean
<1> QED BY <1>1, <1>2, <1>3, <1>4, <1>5 DEF Begin

(* A thread that goes on keeps its operation and its data. *)
LEMMA GoesOn ==
    ASSUME NEW t \in Threads, NEW place \in Places, LocalsOK, Goto(t, place), UNCHANGED <<op, fd, arg, buf>>
    PROVE  /\ LocalsOK' /\ pc'[t] = place
           /\ \A u \in Threads \ {t} : pc'[u] = pc[u]
BY GotoOK DEF LocalsOK

-----------------------------------------------------------------------------
(* The lock *)

LEMMA LockOpenKeeps ==
    ASSUME NEW t \in Threads, DiskOK, LocksOK, LocalsOK, \A u \in Threads : PlaceOK(u), LockOpen(t)
    PROVE  Keeps(t)
<1>1. lockFile' \in Inodes
  BY FreshLockOK DEF LockOpen, LocksOK
<1>2. /\ lockFd' \in [Threads -> {0} \cup Inodes] /\ lockFd'[t] # 0
      /\ \A u \in Threads \ {t} : lockFd'[u] = lockFd[u]
  BY <1>1, ThreadsFewer DEF LockOpen, LocksOK
<1>3. "flock" \in Places /\ pc[t] = "lock" /\ UNCHANGED <<op, fd, arg, buf, locked>>
  BY DEF LockOpen, Places, At
<1>4. LocalsOK' /\ pc'[t] = "flock" /\ \A u \in Threads \ {t} : pc'[u] = pc[u]
  BY <1>3, GoesOn DEF LockOpen
<1>5. PlaceOK(t)'
  BY <1>2, <1>3, <1>4 DEF PlaceOK, AtRest, Deleting
<1> QED BY <1>1, <1>2, <1>3, <1>4, <1>5 DEF Keeps, SameOthers, DiskOK, LocksOK, disk, LockOpen

LEMMA LockTakeKeeps ==
    ASSUME NEW t \in Threads, DiskOK, LocksOK, LocalsOK, PlaceOK(t), LockTake(t)
    PROVE  Keeps(t)
<1> DEFINE place == IF op[t] = "set_value" THEN "truncate" ELSE "read"
<1>1. place \in Places /\ pc[t] = "flock" /\ UNCHANGED <<disk, op, fd, arg, buf, lockFile>>
  BY DEF LockTake, Places, At
<1>2. LocalsOK' /\ pc'[t] = place /\ \A u \in Threads \ {t} : pc'[u] = pc[u]
  BY <1>1, GoesOn DEF LockTake
<1>3. /\ lockFd' \in [Threads -> {0} \cup Inodes] /\ lockFd'[t] = 0
      /\ locked' \in [Threads -> {0} \cup Inodes]
      /\ \A u \in Threads \ {t} : lockFd'[u] = lockFd[u] /\ locked'[u] = locked[u]
  BY DEF LockTake, LocksOK
<1>4. PlaceOK(t)'
  BY <1>1, <1>2, <1>3 DEF PlaceOK, AtRest, Deleting
<1> QED BY <1>1, <1>2, <1>3, <1>4 DEF Keeps, SameOthers, DiskOK, LocksOK, disk

LEMMA LockLeftKeeps ==
    ASSUME NEW t \in Threads, DiskOK, LocksOK, LocalsOK, PlaceOK(t),
           LockPoll(t) \/ LockTimeout(t) \/ Unlock(t)
    PROVE  Keeps(t)
<1>1. PICK place \in {"lock", "remove lock"} : Goto(t, place)
  BY DEF LockPoll, LockTimeout, Unlock
<1>2. place \in Places /\ UNCHANGED <<disk, op, fd, arg, buf, lockFile>>
  BY DEF LockPoll, LockTimeout, Unlock, Places
<1>3. LocalsOK' /\ pc'[t] = place /\ \A u \in Threads \ {t} : pc'[u] = pc[u]
  BY <1>1, <1>2, GoesOn
<1>4. /\ lockFd' \in [Threads -> {0} \cup Inodes] /\ lockFd'[t] = 0
      /\ locked' \in [Threads -> {0} \cup Inodes] /\ locked'[t] = 0
      /\ \A u \in Threads \ {t} : lockFd'[u] = lockFd[u] /\ locked'[u] = locked[u]
  BY DEF LockPoll, LockTimeout, Unlock, LocksOK, PlaceOK, At
<1>5. op[t] \in {"set_value", "get_value", "delete", "delete_corrupted_data"}
  BY DEF LockPoll, LockTimeout, Unlock, PlaceOK, At
<1>6. pc[t] = "flock" \/ place = "remove lock"
  BY <1>1 DEF LockPoll, Unlock, LockTimeout, At, Goto, LocalsOK
<1>7. PlaceOK(t)'
  BY <1>1, <1>2, <1>3, <1>4, <1>5, <1>6 DEF PlaceOK, AtRest, Deleting
<1> QED BY <1>2, <1>3, <1>4, <1>7 DEF Keeps, SameOthers, DiskOK, LocksOK, disk

LEMMA LockRemovedKeeps ==
    ASSUME NEW t \in Threads, DiskOK, LocksOK, LocalsOK, PlaceOK(t), RemoveLockRaises(t) \/ RemoveLock(t)
    PROVE  Keeps(t)
<1>1. /\ pc[t] = "remove lock" /\ UNCHANGED <<disk, locked, lockFd>>
      /\ locked[t] = 0 /\ lockFd[t] = 0
      /\ op[t] \in {"set_value", "get_value", "delete", "delete_corrupted_data"}
  BY DEF RemoveLockRaises, RemoveLock, locks, At, PlaceOK
<1>2. DiskOK' /\ LocksOK'
  BY <1>1 DEF RemoveLockRaises, RemoveLock, DiskOK, LocksOK, disk, locks
<1>3. ASSUME NEW how \in {"idle", "raised"}, Ends(t, how) PROVE Keeps(t)
  BY <1>1, <1>2, <1>3, EndsKeeps DEF Keeps
<1>4. ASSUME NEW place \in {"test key", "stamp"}, Goto(t, place), UNCHANGED <<op, fd, arg, buf>>,
             place = "test key" => op[t] = "delete",
             place = "stamp" => op[t] \in {"get_value", "delete_corrupted_data"} /\ buf[t] \in Record
      PROVE  Keeps(t)
  <2>1. place \in Places
    BY DEF Places
  <2>2. LocalsOK' /\ pc'[t] = place /\ \A u \in Threads \ {t} : pc'[u] = pc[u]
    BY <1>4, <2>1, GoesOn
  <2>3. PlaceOK(t)'
    BY <1>1, <1>4, <2>2 DEF PlaceOK, AtRest, Deleting
  <2> QED BY <1>1, <1>2, <1>4, <2>2, <2>3 DEF Keeps, SameOthers
<1>5. CASE RemoveLockRaises(t)
  BY <1>3, <1>5 DEF RemoveLockRaises
<1>6. CASE RemoveLock(t)
  <2>1. AfterLock(t)
    BY <1>6 DEF RemoveLock
  <2>2. CASE op[t] = "set_value"
    BY <1>3, <2>1, <2>2 DEF AfterLock
  <2>3. CASE op[t] = "delete"
    <3>1. Ends(t, "raised") \/ (Goto(t, "test key") /\ UNCHANGED <<op, fd, arg, buf>>)
      BY <2>1, <2>3 DEF AfterLock
    <3> QED BY <1>3, <1>4, <2>3, <3>1
  <2>4. CASE op[t] \in {"get_value", "delete_corrupted_data"}
    <3>1. \/ Ends(t, "raised") \/ Ends(t, "idle")
          \/ buf[t] \notin {Torn, Nothing} /\ Goto(t, "stamp") /\ UNCHANGED <<op, fd, arg, buf>>
      BY <2>1, <2>4 DEF AfterLock
    <3>2. buf[t] \notin {Torn, Nothing} => buf[t] \in Record
      BY DEF LocalsOK
    <3> QED BY <1>3, <1>4, <2>4, <3>1, <3>2
  <2> QED BY <1>1, <2>2, <2>3, <2>4
<1> QED BY <1>5, <1>6

-----------------------------------------------------------------------------
(* The files *)

LEMMA FoundOK ==
    ASSUME DiskOK
    PROVE  Found \in Record \cup {Torn, Nothing}
BY DEF Found, DiskOK

(* The steps that leave the lock alone and are not the last of their operation. *)
LEMMA WorkKeeps ==
    ASSUME NEW t \in Threads, DiskOK', LocksOK, LocalsOK, NEW place \in Places, Goto(t, place),
           UNCHANGED locks, PlaceOK(t)',
           op' \in [Threads -> {"none"} \cup AllOps],
           fd' \in [Threads -> {0} \cup Inodes],
           arg' \in [Threads -> Values \cup {Nothing}],
           buf' \in [Threads -> Record \cup {Torn, Nothing}],
           \A u \in Threads \ {t} : op'[u] = op[u] /\ fd'[u] = fd[u] /\ arg'[u] = arg[u] /\ buf'[u] = buf[u]
    PROVE  Keeps(t)
<1>1. LocksOK' /\ UNCHANGED <<locked, lockFd>>
  BY DEF locks, LocksOK
<1> QED BY <1>1, GotoOK DEF Keeps, LocalsOK, SameOthers

LEMMA StampKeeps ==
    ASSUME NEW t \in Threads, DiskOK, LocksOK, LocalsOK, PlaceOK(t), Stamp(t)
    PROVE  Keeps(t)
<1>1. /\ pc[t] = "stamp" /\ UNCHANGED locks /\ locked[t] = 0 /\ lockFd[t] = 0
      /\ UNCHANGED <<locked, lockFd>>
      /\ op[t] \in {"set_value", "get_value", "delete_corrupted_data"}
  BY DEF Stamp, locks, At, PlaceOK
<1>2. DiskOK' /\ LocksOK'
  BY <1>1 DEF Stamp, DiskOK, LocksOK, locks
<1>3. CASE Ends(t, "idle")
  BY <1>1, <1>2, <1>3, EndsKeeps DEF Keeps
<1>4. CASE op[t] = "set_value"
  <2>1. Goto(t, "lock") /\ UNCHANGED <<op, fd, arg, buf>> /\ "lock" \in Places
    BY <1>4 DEF Stamp, Places
  <2>2. pc'[t] = "lock"
    BY <2>1, GotoOK
  <2>3. PlaceOK(t)'
    BY <1>1, <1>4, <2>1, <2>2 DEF PlaceOK, AtRest, Deleting
  <2> QED BY <1>1, <1>2, <2>1, <2>3, WorkKeeps DEF LocalsOK
<1>5. CASE op[t] = "delete_corrupted_data" /\ ~Ends(t, "idle")
  <2>1. /\ Goto(t, IF IsMetadata /\ file # 0 THEN "lock" ELSE "test key")
        /\ op' = [op EXCEPT ![t] = "delete"]
        /\ buf' = [buf EXCEPT ![t] = Nothing]
        /\ UNCHANGED <<fd, arg>>
    BY <1>5 DEF Stamp
  <2>2. PICK place \in {"lock", "test key"} : Goto(t, place)
    BY <2>1
  <2>3. place \in Places /\ "delete" \in AllOps
    BY DEF Places, AllOps
  <2>4. pc'[t] = place
    BY <2>2, <2>3, GotoOK
  <2>5. op' \in [Threads -> {"none"} \cup AllOps] /\ op'[t] = "delete"
    BY <2>1, <2>3 DEF LocalsOK
  <2>6. PlaceOK(t)'
    BY <1>1, <2>4, <2>5 DEF PlaceOK, AtRest, Deleting
  <2>7. buf' \in [Threads -> Record \cup {Torn, Nothing}]
    BY <2>1 DEF LocalsOK
  <2>8. \A u \in Threads \ {t} : op'[u] = op[u] /\ fd'[u] = fd[u] /\ arg'[u] = arg[u] /\ buf'[u] = buf[u]
    BY <2>1 DEF LocalsOK
  <2> QED BY <1>1, <1>2, <2>1, <2>2, <2>3, <2>5, <2>6, <2>7, <2>8, WorkKeeps DEF LocalsOK
<1>6. CASE op[t] = "get_value"
  BY <1>3, <1>6 DEF Stamp
<1> QED BY <1>1, <1>3, <1>4, <1>5, <1>6

LEMMA ReadKeeps ==
    ASSUME NEW t \in Threads, DiskOK, LocksOK, LocalsOK, PlaceOK(t), Read(t)
    PROVE  Keeps(t)
<1>1. pc[t] = "read" /\ UNCHANGED <<disk, locks, locked, lockFd>> /\ lockFd[t] = 0
  BY DEF Read, ReadToConfirm, ReadToDelete, ReadToGet, locks, At, PlaceOK
<1>2. DiskOK' /\ LocksOK'
  BY <1>1 DEF DiskOK, LocksOK, locks, disk
<1>3. ASSUME NEW place \in {"unlink", "unlock", "truncate"}, NEW r \in Record \cup {Torn, Nothing},
             Goto(t, place), buf' = [buf EXCEPT ![t] = r], UNCHANGED <<op, fd, arg>>,
             place = "unlink" => r \in Record /\ op[t] = "confirm_integrity" /\ locked[t] = 0,
             place = "truncate" => r \in Record /\ op[t] = "delete",
             place = "unlock" => op[t] # "confirm_integrity"
      PROVE  Keeps(t)
  <2>1. place \in Places
    BY DEF Places
  <2>2. pc'[t] = place
    BY <1>3, <2>1, GotoOK
  <2>3. buf' \in [Threads -> Record \cup {Torn, Nothing}] /\ buf'[t] = r
        /\ \A u \in Threads \ {t} : buf'[u] = buf[u]
    BY <1>3 DEF LocalsOK
  <2>4. PlaceOK(t)'
    BY <1>1, <1>3, <2>2, <2>3 DEF PlaceOK, AtRest, Deleting
  <2> QED BY <1>1, <1>2, <1>3, <2>1, <2>3, <2>4, WorkKeeps DEF LocalsOK
<1>4. Found \notin {Nothing, Torn} => Found \in Record
  BY FoundOK
<1>5. CASE ReadToConfirm(t)
  <2>1. CASE Found \in {Nothing, Torn}
    <3>1. Ends(t, "raised")
      BY <1>5, <2>1 DEF ReadToConfirm
    <3> QED BY <1>1, <1>2, <3>1, EndsKeeps, <1>5 DEF Keeps, ReadToConfirm, PlaceOK
  <2>2. CASE Found \notin {Nothing, Torn}
    <3>1. [Found EXCEPT !.integrity = TRUE] \in Record
      BY <1>4, <2>2, RecordChanged
    <3>2. op[t] = "confirm_integrity" /\ Goto(t, "unlink") /\ UNCHANGED <<op, fd, arg>>
          /\ buf' = [buf EXCEPT ![t] = [Found EXCEPT !.integrity = TRUE]]
      BY <1>5, <2>2 DEF ReadToConfirm
    <3> QED BY <1>1, <1>3, <3>1, <3>2 DEF PlaceOK
  <2> QED BY <2>1, <2>2
<1>6. CASE ReadToDelete(t)
  <2>1. CASE Found \in {Nothing, Torn}
    <3>1. op[t] = "delete" /\ Goto(t, "unlock") /\ UNCHANGED <<op, fd, arg>> /\ UNCHANGED buf
      BY <1>6, <2>1 DEF ReadToDelete
    <3>2. buf' = [buf EXCEPT ![t] = buf[t]] /\ buf[t] \in Record \cup {Torn, Nothing}
      BY <3>1 DEF LocalsOK
    <3> QED BY <1>3, <3>1, <3>2
  <2>2. CASE Found \notin {Nothing, Torn}
    <3>1. [Found EXCEPT !.integrity = FALSE] \in Record
      BY <1>4, <2>2, RecordChanged
    <3>2. op[t] = "delete" /\ Goto(t, "truncate") /\ UNCHANGED <<op, fd, arg>>
          /\ buf' = [buf EXCEPT ![t] = [Found EXCEPT !.integrity = FALSE]]
      BY <1>6, <2>2 DEF ReadToDelete
    <3> QED BY <1>3, <3>1, <3>2
  <2> QED BY <2>1, <2>2
<1>7. CASE ReadToGet(t)
  <2>1. /\ op[t] \in {"get_value", "delete_corrupted_data"} /\ Goto(t, "unlock") /\ UNCHANGED <<op, fd, arg>>
        /\ buf' = [buf EXCEPT ![t] = Found]
    BY <1>7 DEF ReadToGet, In
  <2> QED BY <1>3, <2>1, FoundOK
<1> QED BY <1>5, <1>6, <1>7 DEF Read

(* Of the files, a step writes at most the value, and that with a record or torn. *)
LEMMA UnlinkKeeps ==
    ASSUME NEW t \in Threads, DiskOK, LocksOK, LocalsOK, PlaceOK(t), Unlink(t)
    PROVE  Keeps(t)
<1>1. /\ pc[t] = "unlink" /\ op[t] = "confirm_integrity" /\ buf[t] \in Record
      /\ UNCHANGED <<locks, locked, lockFd>> /\ locked[t] = 0 /\ lockFd[t] = 0
  BY DEF Unlink, locks, At, PlaceOK
<1>2. DiskOK' /\ LocksOK'
  BY <1>1 DEF Unlink, DiskOK, LocksOK, locks
<1>3. CASE file = 0
  <2>1. Ends(t, "raised")
    BY <1>3 DEF Unlink
  <2> QED BY <1>1, <1>2, <2>1, EndsKeeps DEF Keeps
<1>4. CASE file # 0
  <2>1. Goto(t, "truncate") /\ UNCHANGED <<op, fd, arg, buf>> /\ "truncate" \in Places
    BY <1>4 DEF Unlink, Places
  <2>2. pc'[t] = "truncate"
    BY <2>1, GotoOK
  <2>3. PlaceOK(t)'
    BY <1>1, <2>1, <2>2 DEF PlaceOK, AtRest, Deleting
  <2> QED BY <1>1, <1>2, <2>1, <2>3, WorkKeeps DEF LocalsOK
<1> QED BY <1>3, <1>4

(* The file that is truncated has no writer unless it is the one in the directory. *)
LEMMA TruncateOpens ==
    ASSUME NEW t \in Threads, DiskOK, LocalsOK, Truncate(t)
    PROVE  /\ file' \in Inodes
           /\ content' \in [Inodes -> Record \cup {Torn}]
           /\ fd' \in [Threads -> {0} \cup Inodes] /\ fd'[t] = file'
           /\ \A u \in Threads \ {t} : fd'[u] = fd[u]
           /\ pc'[t] = "write"
<1>1. file' \in Inodes
  BY FreshFileOK DEF Truncate, DiskOK
<1>2. "write" \in Places
  BY DEF Places
<1> QED BY <1>1, <1>2, GotoOK DEF Truncate, DiskOK, LocalsOK

LEMMA TruncateKeeps ==
    ASSUME NEW t \in Threads, DiskOK, LocksOK, LocalsOK, PlaceOK(t), Truncate(t)
    PROVE  Keeps(t)
<1>1. /\ pc[t] = "truncate" /\ UNCHANGED <<locks, locked, lockFd, op, arg, buf>>
      /\ Goto(t, "write") /\ "write" \in Places
  BY DEF Truncate, locks, At, Places
<1>2. DiskOK'
  BY TruncateOpens DEF Truncate, DiskOK
<1>3. PlaceOK(t)'
  BY <1>1, TruncateOpens DEF PlaceOK, AtRest, Deleting
<1> QED BY <1>1, <1>2, <1>3, TruncateOpens, WorkKeeps DEF LocalsOK

LEMMA NewRecordOK ==
    ASSUME NEW t \in Threads, PlaceOK(t), pc[t] \in {"truncate", "write"}
    PROVE  NewRecord(t) \in Record /\ NewRecord(t) # Torn /\ NewRecord(t) # Nothing
<1>1. NewRecord(t) \in Record
  BY DEF NewRecord, PlaceOK, Record
<1> QED BY <1>1, NotRecords

LEMMA WriteKeeps ==
    ASSUME NEW t \in Threads, DiskOK, LocksOK, LocalsOK, PlaceOK(t), Write(t)
    PROVE  Keeps(t)
<1>1. pc[t] = "write" /\ UNCHANGED <<locks, locked, lockFd>> /\ lockFd[t] = 0
  BY DEF Write, locks, At, PlaceOK
<1>2. DiskOK'
  BY <1>1, NewRecordOK DEF Write, DiskOK
<1>3. LocksOK'
  BY <1>1 DEF LocksOK, locks
<1>4. CASE op[t] = "confirm_integrity"
  <2>1. Ends(t, "idle") /\ locked[t] = 0
    BY <1>4 DEF Write, PlaceOK
  <2> QED BY <1>1, <1>2, <1>3, <2>1, EndsKeeps DEF Keeps
<1>5. CASE op[t] # "confirm_integrity"
  <2>1. /\ fd' = [fd EXCEPT ![t] = 0] /\ arg' = [arg EXCEPT ![t] = Nothing] /\ UNCHANGED <<op, buf>>
        /\ Goto(t, IF op[t] = "set_value" THEN "write key" ELSE "unlock")
    BY <1>5 DEF Write
  <2> DEFINE place == IF op[t] = "set_value" THEN "write key" ELSE "unlock"
  <2>2. place \in Places
    BY DEF Places
  <2>3. pc'[t] = place
    BY <2>1, <2>2, GotoOK
  <2>4. PlaceOK(t)'
    BY <1>1, <1>5, <2>1, <2>3 DEF PlaceOK, AtRest, Deleting
  <2>5. /\ fd' \in [Threads -> {0} \cup Inodes] /\ arg' \in [Threads -> Values \cup {Nothing}]
        /\ \A u \in Threads \ {t} : fd'[u] = fd[u] /\ arg'[u] = arg[u]
    BY <2>1 DEF LocalsOK
  <2> QED BY <1>1, <1>2, <2>1, <2>2, <2>4, <2>5, WorkKeeps DEF LocalsOK
<1> QED BY <1>4, <1>5

LEMMA WriteKeyKeeps ==
    ASSUME NEW t \in Threads, DiskOK, LocksOK, LocalsOK, PlaceOK(t), WriteKey(t)
    PROVE  Keeps(t)
<1>1. /\ pc[t] = "write key" /\ UNCHANGED <<locks, locked, lockFd, op, fd, arg, buf>>
      /\ Goto(t, "unlock") /\ "unlock" \in Places
  BY DEF WriteKey, locks, At, Places
<1>2. DiskOK'
  BY DEF WriteKey, DiskOK
<1>3. pc'[t] = "unlock"
  BY <1>1, GotoOK
<1>4. PlaceOK(t)'
  BY <1>1, <1>3 DEF PlaceOK, AtRest, Deleting
<1> QED BY <1>1, <1>2, <1>4, WorkKeeps DEF LocalsOK

LEMMA ProceedsKeeps ==
    ASSUME NEW t \in Threads, DiskOK', LocksOK, LocalsOK, PlaceOK(t), pc[t] \in Deleting,
           UNCHANGED locks, NEW next \in Deleting \cup {"idle"}, Proceeds(t, next) \/ Ends(t, "raised")
    PROVE  Keeps(t)
<1>1. locked[t] = 0 /\ lockFd[t] = 0 /\ UNCHANGED <<locked, lockFd>> /\ LocksOK'
  BY DEF PlaceOK, Deleting, locks, LocksOK
<1>2. ASSUME NEW how \in {"idle", "raised"}, Ends(t, how) PROVE Keeps(t)
  BY <1>1, <1>2, EndsKeeps DEF Keeps
<1>3. CASE next # "idle" /\ Proceeds(t, next)
  <2>1. Goto(t, next) /\ UNCHANGED <<op, fd, arg, buf>>
    BY <1>3 DEF Proceeds
  <2>2. next \in Places /\ next \in Deleting /\ op[t] = "delete"
    BY <1>3 DEF Deleting, Places, PlaceOK
  <2>3. pc'[t] = next
    BY <2>1, <2>2, GotoOK
  <2>4. PlaceOK(t)'
    BY <1>1, <2>1, <2>2, <2>3 DEF PlaceOK, AtRest, Deleting
  <2> QED BY <2>1, <2>2, <2>4, WorkKeeps DEF LocalsOK
<1> QED BY <1>2, <1>3 DEF Proceeds

LEMMA DeleteDataKeeps ==
    ASSUME NEW t \in Threads, DiskOK, LocksOK, LocalsOK, PlaceOK(t), DeleteData(t)
    PROVE  Keeps(t)
<1>1. ASSUME NEW test \in Deleting, NEW exists, NEW remove \in Deleting, NEW next \in Deleting \cup {"idle"},
             TestFile(t, test, exists, remove, next)
      PROVE  Keeps(t)
  <2>1. DiskOK' /\ UNCHANGED locks /\ pc[t] \in Deleting
    BY <1>1 DEF TestFile, DiskOK, disk, At
  <2>2. PICK n \in Deleting \cup {"idle"} : Proceeds(t, n)
    BY <1>1 DEF TestFile
  <2> QED BY <2>1, <2>2, ProceedsKeeps
<1>2. ASSUME NEW remove \in Deleting, NEW exists, NEW next \in Deleting \cup {"idle"},
             RemoveFile(t, remove, exists, next)
      PROVE  Keeps(t)
  <2>1. DiskOK' /\ UNCHANGED locks /\ pc[t] \in Deleting
    BY <1>2 DEF RemoveFile, DiskOK, At
  <2>2. Proceeds(t, next) \/ Ends(t, "raised")
    BY <1>2 DEF RemoveFile
  <2> QED BY <2>1, <2>2, ProceedsKeeps
<1>3. {"test key", "remove key", "test value", "remove value", "test timestamp", "remove timestamp"} \subseteq Deleting
      /\ "idle" \in Deleting \cup {"idle"}
  BY DEF Deleting
<1> QED BY <1>1, <1>2, <1>3 DEF DeleteData

LEMMA StepKeeps ==
    ASSUME NEW t \in Threads, DiskOK, LocksOK, LocalsOK, \A u \in Threads : PlaceOK(u), Begin(t) \/ Step(t)
    PROVE  Keeps(t)
BY BeginKeeps, LockOpenKeeps, LockTakeKeeps, LockLeftKeeps, LockRemovedKeeps, StampKeeps, ReadKeeps,
   UnlinkKeeps, TruncateKeeps, WriteKeeps, WriteKeyKeeps, DeleteDataKeeps DEF Step

-----------------------------------------------------------------------------
(* Any number of threads *)

(* The steps that touch the value file. *)
LEMMA FileSteps ==
    ASSUME NEW t \in Threads, Begin(t) \/ Step(t)
    PROVE  \/ Truncate(t)
           \/ Write(t)
           \/ pc[t] # "write" /\ content' = content /\ file' \in {0, file}
<1>1. CASE Begin(t)
  BY <1>1 DEF Begin, BeginSet, BeginGet, BeginConfirm, BeginDelete, BeginClean, Begins, AtRest, disk
<1>2. CASE LockOpen(t) \/ LockTake(t) \/ LockPoll(t) \/ LockTimeout(t) \/ Unlock(t) \/ RemoveLock(t) \/ RemoveLockRaises(t)
  BY <1>2 DEF LockOpen, LockTake, LockPoll, LockTimeout, Unlock, RemoveLock, RemoveLockRaises, disk, At
<1>3. CASE Stamp(t) \/ Read(t) \/ Unlink(t) \/ WriteKey(t)
  BY <1>3 DEF Stamp, Read, ReadToConfirm, ReadToDelete, ReadToGet, Unlink, WriteKey, disk, At
<1>4. CASE DeleteData(t)
  BY <1>4 DEF DeleteData, TestFile, RemoveFile, disk, At
<1> QED BY <1>1, <1>2, <1>3, <1>4 DEF Step

LEMMA ThreadsCount ==
    ASSUME NEW t \in Threads, Begin(t) \/ Step(t), TypeOK, PlaceOK(t)
    PROVE  crashes' = crashes /\ latest' \in Values \cup {Nothing}
<1>1. CASE Begin(t)
  BY <1>1 DEF Begin, BeginSet, BeginGet, BeginConfirm, BeginDelete, BeginClean, Begins, ghosts, TypeOK
<1>2. CASE LockOpen(t) \/ LockTake(t) \/ LockPoll(t) \/ LockTimeout(t) \/ Unlock(t) \/ RemoveLock(t) \/ RemoveLockRaises(t)
  BY <1>2 DEF LockOpen, LockTake, LockPoll, LockTimeout, Unlock, RemoveLock, RemoveLockRaises, ghosts, TypeOK
<1>3. CASE Stamp(t) \/ Read(t) \/ Unlink(t) \/ WriteKey(t) \/ Truncate(t)
  BY <1>3 DEF Stamp, Read, ReadToConfirm, ReadToDelete, ReadToGet, Unlink, WriteKey, Truncate, ghosts, TypeOK
<1>4. CASE DeleteData(t)
  BY <1>4 DEF DeleteData, TestFile, RemoveFile, ghosts, TypeOK
<1>5. CASE Write(t)
  BY <1>5 DEF Write, PlaceOK, At, TypeOK
<1> QED BY <1>1, <1>2, <1>3, <1>4, <1>5 DEF Step

LEMMA InitHolds == Init => IInv
<1> SUFFICES ASSUME Init PROVE IInv
  OBVIOUS
<1>1. Inodes \subseteq Nat
  BY ThreadsFewer
<1>2. TypeOK
  <2>1. DiskOK /\ LocksOK
    BY DEF Init, All, DiskOK, LocksOK
  <2>2. LocalsOK
    BY DEF Init, All, LocalsOK, Places
  <2>3. crashes \in 0..MaxCrashes /\ latest \in Values \cup {Nothing}
    BY CrashesAssumption DEF Init
  <2> QED BY <2>1, <2>2, <2>3, TypeParts
<1>3. \A t \in Threads : PlaceOK(t)
  BY DEF Init, All, PlaceOK, AtRest, Deleting
<1>4. TornOpen
  BY DEF Init, TornOpen
<1> QED BY <1>2, <1>3, <1>4 DEF IInv

LEMMA StepHolds ==
    ASSUME IInv, NEW t \in Threads, Begin(t) \/ Step(t)
    PROVE  IInv'
<1>1. DiskOK /\ LocksOK /\ LocalsOK /\ TypeOK /\ TornOpen /\ \A u \in Threads : PlaceOK(u)
  BY TypeParts DEF IInv
<1>2. Keeps(t)
  BY <1>1, StepKeeps
<1>3. TypeOK'
  <2>1. DiskOK' /\ LocksOK' /\ LocalsOK'
    BY <1>2 DEF Keeps
  <2>2. crashes' \in 0..MaxCrashes /\ latest' \in Values \cup {Nothing}
    BY <1>1, ThreadsCount DEF TypeOK
  <2> QED BY <2>1, <2>2 DEF TypeOK, DiskOK, LocksOK, LocalsOK
<1>4. ASSUME NEW u \in Threads PROVE PlaceOK(u)'
  <2>1. CASE u = t
    BY <1>2, <2>1 DEF Keeps
  <2>2. CASE u # t
    <3>1. PlaceOK(u)
      BY <1>1
    <3>2. /\ pc'[u] = pc[u] /\ op'[u] = op[u] /\ fd'[u] = fd[u] /\ arg'[u] = arg[u] /\ buf'[u] = buf[u]
          /\ locked'[u] = locked[u] /\ lockFd'[u] = lockFd[u]
      BY <1>2, <2>2 DEF Keeps, SameOthers
    <3> QED BY <3>1, <3>2 DEF PlaceOK, AtRest
  <2> QED BY <2>1, <2>2
<1>5. TornOpen'
  <2>1. CASE Truncate(t)
    BY <1>1, <2>1, TruncateOpens DEF TornOpen
  <2>2. CASE Write(t)
    <3>1. content' = [content EXCEPT ![fd[t]] = NewRecord(t)] /\ file' = file /\ pc[t] = "write"
      BY <2>2 DEF Write, At
    <3>2. SUFFICES ASSUME crashes' = 0, file # 0, content'[file] = Torn
                   PROVE  \E u \in Threads : pc'[u] = "write" /\ fd'[u] = file
      BY <3>1 DEF TornOpen
    <3>3. NewRecord(t) # Torn
      BY <1>1, <3>1, NewRecordOK
    <3>4. file # fd[t] /\ content[file] = Torn
      BY <1>1, <3>1, <3>2, <3>3 DEF DiskOK
    <3>5. PICK u \in Threads : pc[u] = "write" /\ fd[u] = file
      BY <1>1, <3>2, <3>4, ThreadsCount DEF TornOpen
    <3> QED BY <1>2, <3>4, <3>5 DEF Keeps, SameOthers
  <2>3. CASE pc[t] # "write" /\ content' = content /\ file' \in {0, file}
    <3>1. SUFFICES ASSUME crashes' = 0, file' # 0, content'[file'] = Torn
                   PROVE  \E u \in Threads : pc'[u] = "write" /\ fd'[u] = file'
      BY DEF TornOpen
    <3>2. PICK u \in Threads : pc[u] = "write" /\ fd[u] = file
      BY <1>1, <2>3, <3>1, ThreadsCount DEF TornOpen
    <3> QED BY <1>2, <2>3, <3>1, <3>2 DEF Keeps, SameOthers
  <2> QED BY <2>1, <2>2, <2>3, FileSteps
<1> QED BY <1>3, <1>4, <1>5 DEF IInv

LEMMA CrashHolds ==
    ASSUME IInv, Crash
    PROVE  IInv'
<1>1. crashes' \in 1..MaxCrashes
  BY CrashesAssumption DEF Crash, IInv, TypeOK
<1>2. TypeOK'
  <2>1. DiskOK' /\ latest' \in Values \cup {Nothing} /\ lockFile' \in {0} \cup Inodes
    BY DEF Crash, IInv, TypeOK, DiskOK, disk
  <2>2. locked' \in [Threads -> {0} \cup Inodes] /\ lockFd' \in [Threads -> {0} \cup Inodes]
    BY DEF Crash, All
  <2>3. LocalsOK'
    BY DEF Crash, All, LocalsOK, Places
  <2>4. crashes' \in 0..MaxCrashes
    BY <1>1
  <2> QED BY <2>1, <2>2, <2>3, <2>4 DEF TypeOK, DiskOK, LocalsOK
<1>3. \A t \in Threads : PlaceOK(t)'
  BY DEF Crash, All, PlaceOK, AtRest, Deleting
<1> QED BY <1>1, <1>2, <1>3 DEF IInv, TornOpen

LEMMA StutterHolds ==
    ASSUME IInv, UNCHANGED vars
    PROVE  IInv'
BY DEF IInv, TypeOK, PlaceOK, TornOpen, AtRest, vars, disk, locks, locals, ghosts

LEMMA NextHolds == IInv /\ [Next]_vars => IInv'
BY StepHolds, CrashHolds, StutterHolds DEF Next

LEMMA Invariance == Spec => []IInv
<1>1. Init => IInv
  BY InitHolds
<1>2. IInv /\ [Next]_vars => IInv'
  BY NextHolds
<1> QED BY <1>1, <1>2, PTL DEF Spec

(* Every variable has its type, for any number of threads, values and crashes: there is    *)
(* always an inode left for open to create, for the value or for the lock; what a value    *)
(* file holds is a record or torn, whatever step a crash comes after.                      *)
THEOREM TypeCorrect == Spec => []TypeOK
<1>1. IInv => TypeOK
  BY DEF IInv
<1> QED BY <1>1, Invariance, PTL

(* However many threads write, confirm, read and delete the key at once, with a lock that *)
(* does not exclude them: while the process lives, the file they leave is whole.           *)
THEOREM WholeForAnyThreads == Spec => []WholeAtRest
<1>1. IInv => WholeAtRest
  BY DEF IInv, TornOpen, WholeAtRest, Quiet, AtRest
<1> QED BY <1>1, Invariance, PTL

-----------------------------------------------------------------------------
(* One thread *)

(* What the thread knows of the file: it alone writes it. *)
OneWriter(t) ==
    /\ pc[t] = "write" => fd[t] = file /\ content[file] = Torn
    /\ pc[t] = "unlink" =>
          /\ file # 0 /\ content[file] \in Record
          /\ buf[t] = [content[file] EXCEPT !.integrity = TRUE]
    /\ pc[t] = "truncate" /\ op[t] = "confirm_integrity" => file = 0
    /\ pc[t] = "truncate" /\ op[t] = "delete" =>
          /\ file # 0 /\ content[file] \in Record
          /\ buf[t] = [content[file] EXCEPT !.integrity = FALSE]
    /\ pc[t] \in {"write key", "unlock", "remove lock"} /\ op[t] = "set_value" => arg[t] = Nothing

OneInv(t) == IInv /\ OneWriter(t)

(* When the register holds what the thread is about to write. *)
Writing(t) == pc[t] = "write" \/ (pc[t] = "truncate" /\ op[t] = "confirm_integrity")

(* A step that does not touch the register. *)
Untouched(t) == file' = file /\ content' = content /\ ~Writing(t) /\ ~Writing(t)'

Reports(t) == op[t] = "set_value" /\ pc'[t] = "idle" => arg[t] = Nothing

LEMMA OneInvParts ==
    ASSUME NEW t \in Threads, OneInv(t)
    PROVE  DiskOK /\ LocksOK /\ LocalsOK /\ PlaceOK(t) /\ OneWriter(t)
BY TypeParts DEF OneInv, IInv

LEMMA Elsewhere ==
    ASSUME NEW t, pc[t] \notin {"write", "unlink", "truncate", "write key", "unlock", "remove lock"}
    PROVE  OneWriter(t)
BY DEF OneWriter

(* The places a thread can go to at each step. *)
LEMMA EndsElsewhere ==
    ASSUME NEW t \in Threads, LocalsOK, NEW how \in {"idle", "raised"}, Ends(t, how)
    PROVE  pc'[t] = how /\ OneWriter(t)'
<1>1. pc'[t] = how
  BY EndsOK
<1> QED BY <1>1 DEF OneWriter

LEMMA GotoElsewhere ==
    ASSUME NEW t \in Threads, LocalsOK,
           NEW place \in {"stamp", "lock", "flock", "read", "test key", "remove key", "test value", "remove value",
                          "test timestamp", "remove timestamp"},
           Goto(t, place)
    PROVE  pc'[t] = place /\ OneWriter(t)'
<1>1. place \in Places
  BY DEF Places
<1>2. pc'[t] = place
  BY <1>1, GotoOK
<1> QED BY <1>2 DEF OneWriter

LEMMA BeginOne ==
    ASSUME NEW t \in Threads, LocalsOK, Begin(t)
    PROVE  OneWriter(t)' /\ Untouched(t) /\ Reports(t)
<1>1. PICK place \in {"stamp", "lock", "read", "test key"} : Goto(t, place)
  BY DEF Begin, BeginSet, BeginGet, BeginConfirm, BeginDelete, BeginClean, Begins
<1>2. AtRest(t) /\ UNCHANGED disk
  BY DEF Begin, BeginSet, BeginGet, BeginConfirm, BeginDelete, BeginClean, Begins
<1> QED BY <1>1, <1>2, GotoElsewhere DEF disk, AtRest, Untouched, Writing, Reports

(* With one thread the lock is free. *)
LEMMA LockOne ==
    ASSUME NEW t, Threads = {t}, OneInv(t),
           \/ LockOpen(t) \/ LockTake(t) \/ LockPoll(t) \/ LockTimeout(t) \/ Unlock(t)
           \/ RemoveLock(t) \/ RemoveLockRaises(t)
    PROVE  OneWriter(t)' /\ Untouched(t) /\ Reports(t)
<1>1. t \in Threads /\ DiskOK /\ LocksOK /\ LocalsOK /\ PlaceOK(t) /\ OneWriter(t)
  BY OneInvParts
<1>2. ~LockPoll(t) /\ ~LockTimeout(t)
  BY <1>1 DEF LockPoll, LockTimeout, PlaceOK, At
<1>3. CASE LockOpen(t)
  <2>1. Goto(t, "flock") /\ UNCHANGED disk /\ pc[t] = "lock"
    BY <1>3 DEF LockOpen, At
  <2> QED BY <1>1, <2>1, GotoElsewhere DEF disk, Untouched, Writing, Reports
<1>4. CASE LockTake(t)
  <2>1. /\ Goto(t, IF op[t] = "set_value" THEN "truncate" ELSE "read")
        /\ UNCHANGED <<disk, op>> /\ pc[t] = "flock" /\ "truncate" \in Places
    BY <1>4 DEF LockTake, At, Places
  <2>2. CASE op[t] = "set_value"
    <3>1. pc'[t] = "truncate" /\ op'[t] = "set_value"
      BY <1>1, <2>1, <2>2, GotoOK
    <3> QED BY <2>1, <3>1 DEF OneWriter, disk, Untouched, Writing, Reports
  <2>3. CASE op[t] # "set_value"
    BY <1>1, <2>1, <2>3, GotoElsewhere DEF disk, Untouched, Writing, Reports
  <2> QED BY <2>2, <2>3
<1>5. CASE Unlock(t)
  <2>1. Goto(t, "remove lock") /\ UNCHANGED <<disk, op, arg>> /\ pc[t] = "unlock" /\ "remove lock" \in Places
    BY <1>5 DEF Unlock, At, Places
  <2>2. pc'[t] = "remove lock"
    BY <1>1, <2>1, GotoOK
  <2> QED BY <1>1, <2>1, <2>2 DEF OneWriter, disk, Untouched, Writing, Reports
<1>6. CASE RemoveLock(t) \/ RemoveLockRaises(t)
  <2>1. /\ UNCHANGED disk /\ pc[t] = "remove lock"
        /\ \/ Ends(t, "idle") \/ Ends(t, "raised") \/ Goto(t, "test key") \/ Goto(t, "stamp")
    <3>1. op[t] \in {"set_value", "get_value", "delete", "delete_corrupted_data"}
      BY <1>1, <1>6 DEF RemoveLock, RemoveLockRaises, At, PlaceOK
    <3>2. CASE RemoveLock(t)
      BY <3>1, <3>2 DEF RemoveLock, AfterLock, At
    <3>3. CASE RemoveLockRaises(t)
      BY <3>3 DEF RemoveLockRaises, At
    <3> QED BY <1>6, <3>2, <3>3
  <2> QED BY <1>1, <2>1, EndsElsewhere, GotoElsewhere DEF disk, OneWriter, Untouched, Writing, Reports
<1> QED BY <1>2, <1>3, <1>4, <1>5, <1>6

LEMMA StampOne ==
    ASSUME NEW t \in Threads, LocalsOK, PlaceOK(t), Stamp(t)
    PROVE  OneWriter(t)' /\ Untouched(t) /\ Reports(t)
<1>1. /\ pc[t] = "stamp" /\ file' = file /\ content' = content
      /\ op[t] \in {"set_value", "get_value", "delete_corrupted_data"}
  BY DEF Stamp, At, PlaceOK
<1>2. /\ \/ Ends(t, "idle") \/ Goto(t, "lock") \/ Goto(t, "test key")
      /\ op[t] = "set_value" => Goto(t, "lock")
  BY <1>1 DEF Stamp
<1> QED BY <1>1, <1>2, EndsElsewhere, GotoElsewhere DEF Untouched, Writing, Reports

LEMMA ReadOne ==
    ASSUME NEW t \in Threads, OneInv(t), Read(t)
    PROVE  OneWriter(t)' /\ Untouched(t) /\ Reports(t)
<1>1. t \in Threads /\ DiskOK /\ LocksOK /\ LocalsOK /\ PlaceOK(t)
  BY OneInvParts
<1>2. pc[t] = "read" /\ UNCHANGED disk /\ {"unlink", "unlock", "truncate"} \subseteq Places
  BY DEF Read, ReadToConfirm, ReadToDelete, ReadToGet, At, Places
<1>3. Found \notin {Nothing, Torn} => file # 0 /\ Found = content[file] /\ content[file] \in Record
  BY <1>1 DEF Found, DiskOK
<1>4. CASE ReadToConfirm(t)
  <2>1. CASE Found \in {Nothing, Torn}
    <3>1. Ends(t, "raised")
      BY <1>4, <2>1 DEF ReadToConfirm
    <3> QED BY <1>1, <1>2, <3>1, EndsElsewhere DEF Untouched, Writing, Reports, disk
  <2>2. CASE Found \notin {Nothing, Torn}
    <3>1. /\ buf' = [buf EXCEPT ![t] = [content[file] EXCEPT !.integrity = TRUE]]
          /\ Goto(t, "unlink") /\ op'[t] = op[t]
      BY <1>3, <1>4, <2>2 DEF ReadToConfirm
    <3>2. pc'[t] = "unlink"
      BY <1>1, <1>2, <3>1, GotoOK
    <3>3. buf'[t] = [content[file] EXCEPT !.integrity = TRUE]
      BY <1>1, <3>1 DEF LocalsOK
    <3> QED BY <1>2, <1>3, <2>2, <3>2, <3>3 DEF OneWriter, Untouched, Writing, Reports, disk
  <2> QED BY <2>1, <2>2
<1>5. CASE ReadToDelete(t)
  <2>1. CASE Found \in {Nothing, Torn}
    <3>1. Goto(t, "unlock") /\ op[t] = "delete" /\ op'[t] = op[t]
      BY <1>5, <2>1 DEF ReadToDelete
    <3>2. pc'[t] = "unlock"
      BY <1>1, <1>2, <3>1, GotoOK
    <3> QED BY <1>2, <3>1, <3>2 DEF OneWriter, Untouched, Writing, Reports, disk
  <2>2. CASE Found \notin {Nothing, Torn}
    <3>1. /\ buf' = [buf EXCEPT ![t] = [content[file] EXCEPT !.integrity = FALSE]]
          /\ Goto(t, "truncate") /\ op'[t] = op[t] /\ op[t] = "delete"
      BY <1>3, <1>5, <2>2 DEF ReadToDelete
    <3>2. pc'[t] = "truncate"
      BY <1>1, <1>2, <3>1, GotoOK
    <3>3. buf'[t] = [content[file] EXCEPT !.integrity = FALSE]
      BY <1>1, <3>1 DEF LocalsOK
    <3> QED BY <1>2, <1>3, <2>2, <3>1, <3>2, <3>3 DEF OneWriter, Untouched, Writing, Reports, disk
  <2> QED BY <2>1, <2>2
<1>6. CASE ReadToGet(t)
  <2>1. Goto(t, "unlock") /\ op[t] \in {"get_value", "delete_corrupted_data"} /\ op'[t] = op[t]
    BY <1>6 DEF ReadToGet, In
  <2>2. pc'[t] = "unlock"
    BY <1>1, <1>2, <2>1, GotoOK
  <2> QED BY <1>2, <2>1, <2>2 DEF OneWriter, Untouched, Writing, Reports, disk
<1> QED BY <1>4, <1>5, <1>6 DEF Read

LEMMA WriteKeyOne ==
    ASSUME NEW t \in Threads, OneInv(t), WriteKey(t)
    PROVE  OneWriter(t)' /\ Untouched(t) /\ Reports(t)
<1>1. LocalsOK /\ OneWriter(t)
  BY OneInvParts
<1>2. /\ pc[t] = "write key" /\ UNCHANGED <<file, content, op, arg>> /\ Goto(t, "unlock")
      /\ "unlock" \in Places
  BY DEF WriteKey, At, Places
<1>3. pc'[t] = "unlock"
  BY <1>1, <1>2, GotoOK
<1> QED BY <1>1, <1>2, <1>3 DEF OneWriter, Untouched, Writing, Reports

LEMMA DeleteDataOne ==
    ASSUME NEW t \in Threads, OneInv(t), DeleteData(t)
    PROVE  /\ OneWriter(t)' /\ Reports(t)
           /\ Untouched(t) \/ (file' = 0 /\ content' = content /\ ~Writing(t)')
<1>1. LocalsOK /\ OneWriter(t) /\ PlaceOK(t)
  BY OneInvParts
<1>2. pc[t] \in Deleting /\ content' = content /\ file' \in {0, file}
  BY DEF DeleteData, TestFile, RemoveFile, At, Deleting, disk
<1>3. PICK place \in Deleting \cup {"idle"} : Proceeds(t, place) \/ Ends(t, "raised")
  BY DEF DeleteData, TestFile, RemoveFile, Deleting
<1>4. op[t] = "delete"
  BY <1>1, <1>2 DEF PlaceOK
<1>5. Ends(t, "idle") \/ Ends(t, "raised") \/ (place \in Deleting /\ Goto(t, place))
  BY <1>3 DEF Proceeds, Deleting
<1>6. OneWriter(t)' /\ ~Writing(t)'
  BY <1>1, <1>5, EndsElsewhere, GotoElsewhere DEF Deleting, Writing
<1> QED BY <1>2, <1>4, <1>6 DEF Untouched, Writing, Reports, Deleting

-----------------------------------------------------------------------------
(* One thread: the files are a register *)

Written == IF file = 0 \/ content[file] = Torn THEN Nothing ELSE content[file]

LEMMA StoredIs ==
    ASSUME NEW t, Threads = {t}
    PROVE  /\ Writing(t) => Stored = NewRecord(t)
           /\ ~Writing(t) => Stored = Written
<1> DEFINE writer == {u \in Threads : At(u, "write") \/ (At(u, "truncate") /\ op[u] = "confirm_integrity")}
<1>1. Writing(t) => writer = {t}
  BY DEF Writing, At
<1>2. ~Writing(t) => writer = {}
  BY DEF Writing, At
<1>3. Stored = IF writer # {} THEN NewRecord(CHOOSE u \in writer : TRUE) ELSE Written
  BY DEF Stored, Written
<1> HIDE DEF writer
<1>4. writer = {t} => (CHOOSE u \in writer : TRUE) = t
  OBVIOUS
<1> QED BY <1>1, <1>2, <1>3, <1>4

LEMMA StoredNext ==
    ASSUME NEW t, Threads = {t}
    PROVE  /\ Writing(t)' => Stored' = NewRecord(t)'
           /\ ~Writing(t)' => Stored' = Written'
<1> DEFINE writer == {u \in Threads : pc'[u] = "write" \/ (pc'[u] = "truncate" /\ op'[u] = "confirm_integrity")}
<1>1. Writing(t)' => writer = {t}
  BY DEF Writing
<1>2. ~Writing(t)' => writer = {}
  BY DEF Writing
<1> DEFINE first == CHOOSE u \in writer : TRUE
<1>3. Stored' = IF writer # {}
                THEN IF op'[first] = "set_value" THEN [value |-> arg'[first], integrity |-> FALSE] ELSE buf'[first]
                ELSE Written'
  BY DEF Stored, Written, At, NewRecord
<1> HIDE DEF writer
<1>4. writer = {t} => first = t
  OBVIOUS
<1> HIDE DEF first
<1>5. writer = {t} => Stored' = NewRecord(t)'
  BY <1>3, <1>4 DEF NewRecord
<1> QED BY <1>1, <1>2, <1>3, <1>5

(* Confirmation takes effect when the file is unlinked... *)
LEMMA UnlinkOne ==
    ASSUME NEW t, Threads = {t}, OneInv(t), Unlink(t)
    PROVE  /\ OneWriter(t)' /\ Reports(t)
           /\ Stored # Nothing /\ Stored' = [Stored EXCEPT !.integrity = TRUE]
<1>1. t \in Threads /\ LocalsOK /\ OneWriter(t) /\ PlaceOK(t)
  BY OneInvParts
<1>2. pc[t] = "unlink" /\ op[t] = "confirm_integrity" /\ "truncate" \in Places
  BY <1>1 DEF Unlink, PlaceOK, At, Places
<1>3. file # 0 /\ content[file] \in Record /\ buf[t] = [content[file] EXCEPT !.integrity = TRUE]
  BY <1>1, <1>2 DEF OneWriter
<1>4. file' = 0 /\ Goto(t, "truncate") /\ UNCHANGED <<op, fd, arg, buf>>
  BY <1>3 DEF Unlink
<1>5. pc'[t] = "truncate"
  BY <1>1, <1>2, <1>4, GotoOK
<1>6. OneWriter(t)' /\ Reports(t)
  BY <1>2, <1>4, <1>5 DEF OneWriter, Reports
<1>7. Stored = content[file]
  <2>1. ~Writing(t)
    BY <1>2 DEF Writing
  <2> QED BY <1>3, <2>1, StoredIs, NotRecords DEF Written
<1>8. Stored' = buf[t]
  <2>1. Writing(t)'
    BY <1>2, <1>4, <1>5 DEF Writing
  <2>2. NewRecord(t)' = buf[t]
    BY <1>2, <1>4 DEF NewRecord
  <2> QED BY <2>1, <2>2, StoredNext
<1> QED BY <1>3, <1>6, <1>7, <1>8, NotRecords

(* ...a write, and the mark of a deletion, when the file is truncated... *)
LEMMA TruncateOne ==
    ASSUME NEW t, Threads = {t}, OneInv(t), Truncate(t)
    PROVE  /\ OneWriter(t)' /\ Reports(t)
           /\ \/ \E v \in Values : Stored' = [value |-> v, integrity |-> FALSE]
              \/ Stored # Nothing /\ Stored' = [Stored EXCEPT !.integrity = FALSE]
              \/ Stored' = Stored
<1>1. t \in Threads /\ DiskOK /\ LocalsOK /\ OneWriter(t) /\ PlaceOK(t)
  BY OneInvParts
<1>2. /\ pc[t] = "truncate" /\ op[t] \in {"set_value", "confirm_integrity", "delete"}
      /\ UNCHANGED <<op, arg, buf>>
  BY <1>1 DEF Truncate, PlaceOK, At
<1>3. pc'[t] = "write" /\ fd'[t] = file' /\ file' \in Inodes
  BY <1>1, TruncateOpens
<1>4. content'[file'] = Torn
  BY <1>1, <1>3 DEF Truncate, DiskOK
<1>5. OneWriter(t)' /\ Reports(t)
  BY <1>3, <1>4 DEF OneWriter, Reports
<1>6. NewRecord(t)' = NewRecord(t)
  BY <1>2 DEF NewRecord
<1>7. Stored' = NewRecord(t)
  BY <1>3, <1>6, StoredNext DEF Writing
<1>8. CASE op[t] = "set_value"
  <2>1. arg[t] \in Values /\ NewRecord(t) = [value |-> arg[t], integrity |-> FALSE]
    BY <1>1, <1>2, <1>8 DEF PlaceOK, NewRecord
  <2> QED BY <1>5, <1>7, <2>1
<1>9. CASE op[t] = "confirm_integrity"
  <2>1. Writing(t)
    BY <1>2, <1>9 DEF Writing
  <2> QED BY <1>5, <1>7, <2>1, StoredIs
<1>10. CASE op[t] = "delete"
  <2>1. file # 0 /\ content[file] \in Record /\ buf[t] = [content[file] EXCEPT !.integrity = FALSE]
    BY <1>1, <1>2, <1>10 DEF OneWriter
  <2>2. ~Writing(t) /\ NewRecord(t) = buf[t]
    BY <1>2, <1>10 DEF Writing, NewRecord
  <2>3. Stored = content[file]
    BY <2>1, <2>2, StoredIs, NotRecords DEF Written
  <2> QED BY <1>5, <1>7, <2>1, <2>2, <2>3, NotRecords
<1> QED BY <1>2, <1>8, <1>9, <1>10

(* ...and the write that follows makes the file what the register already is. *)
LEMMA WriteOne ==
    ASSUME NEW t, Threads = {t}, OneInv(t), Write(t)
    PROVE  OneWriter(t)' /\ Reports(t) /\ Stored' = Stored
<1>1. t \in Threads /\ DiskOK /\ LocalsOK /\ OneWriter(t) /\ PlaceOK(t)
  BY OneInvParts
<1>2. /\ pc[t] = "write" /\ fd[t] = file /\ file \in Inodes /\ file' = file
      /\ op[t] \in {"set_value", "confirm_integrity", "delete"}
      /\ content' = [content EXCEPT ![fd[t]] = NewRecord(t)]
  BY <1>1 DEF Write, OneWriter, PlaceOK, At
<1>3. content'[file'] = NewRecord(t)
  BY <1>1, <1>2 DEF DiskOK
<1>4. OneWriter(t)' /\ Reports(t) /\ ~Writing(t)'
  <2>1. CASE op[t] = "confirm_integrity"
    <3>1. Ends(t, "idle")
      BY <2>1 DEF Write
    <3> QED BY <1>1, <2>1, <3>1, EndsElsewhere DEF Reports, Writing
  <2>2. CASE op[t] # "confirm_integrity"
    <3> DEFINE place == IF op[t] = "set_value" THEN "write key" ELSE "unlock"
    <3>1. Goto(t, place) /\ arg' = [arg EXCEPT ![t] = Nothing] /\ place \in Places
      BY <2>2 DEF Write, Places
    <3>2. pc'[t] = place /\ arg'[t] = Nothing
      BY <1>1, <3>1, GotoOK DEF LocalsOK
    <3> QED BY <3>2 DEF OneWriter, Reports, Writing
  <2> QED BY <2>1, <2>2
<1>5. NewRecord(t) # Torn
  BY <1>1, <1>2, NewRecordOK
<1>6. file' # 0
  BY <1>2, ThreadsFewer
<1>7. Stored' = NewRecord(t)
  BY <1>3, <1>4, <1>5, <1>6, StoredNext DEF Written
<1>8. Stored = NewRecord(t)
  BY <1>2, StoredIs DEF Writing
<1> QED BY <1>4, <1>7, <1>8

LEMMA StepOne ==
    ASSUME NEW t, Threads = {t}, OneInv(t), Begin(t) \/ Step(t)
    PROVE  OneWriter(t)' /\ Reports(t) /\ [Abstract!Next]_Stored
<1>1. t \in Threads /\ LocalsOK /\ PlaceOK(t)
  BY OneInvParts
<1>2. ASSUME OneWriter(t)', Untouched(t), Reports(t)
      PROVE  OneWriter(t)' /\ Reports(t) /\ [Abstract!Next]_Stored
  <2>1. Stored = Written /\ Stored' = Written' /\ Written' = Written
    BY <1>2, StoredIs, StoredNext DEF Untouched, Written
  <2> QED BY <1>2, <2>1
<1>3. CASE Begin(t)
  BY <1>1, <1>2, <1>3, BeginOne
<1>4. CASE \/ LockOpen(t) \/ LockTake(t) \/ LockPoll(t) \/ LockTimeout(t) \/ Unlock(t)
           \/ RemoveLock(t) \/ RemoveLockRaises(t)
  BY <1>2, <1>4, LockOne
<1>5. CASE Stamp(t) \/ Read(t) \/ WriteKey(t)
  BY <1>1, <1>2, <1>5, StampOne, ReadOne, WriteKeyOne
<1>6. CASE Unlink(t)
  <2>1. OneWriter(t)' /\ Reports(t) /\ Abstract!Confirm
    BY <1>6, UnlinkOne DEF Abstract!Confirm
  <2> QED BY <2>1 DEF Abstract!Next
<1>7. CASE Truncate(t)
  <2>1. OneWriter(t)' /\ Reports(t)
    BY <1>7, TruncateOne
  <2>2. (\E v \in Values : Abstract!Set(v)) \/ Abstract!Unconfirm \/ Stored' = Stored
    BY <1>7, TruncateOne DEF Abstract!Set, Abstract!Unconfirm
  <2> QED BY <2>1, <2>2 DEF Abstract!Next
<1>8. CASE Write(t)
  BY <1>8, WriteOne
<1>9. CASE DeleteData(t)
  <2>1. OneWriter(t)' /\ Reports(t)
        /\ (Untouched(t) \/ (file' = 0 /\ content' = content /\ ~Writing(t)'))
    BY <1>1, <1>9, DeleteDataOne
  <2>2. CASE Untouched(t)
    BY <1>2, <2>1, <2>2
  <2>3. CASE file' = 0 /\ ~Writing(t)'
    <3>1. Abstract!Delete
      BY <2>3, StoredNext DEF Abstract!Delete, Written
    <3> QED BY <2>1, <3>1 DEF Abstract!Next
  <2> QED BY <2>1, <2>2, <2>3
<1> QED BY <1>3, <1>4, <1>5, <1>6, <1>7, <1>8, <1>9 DEF Step

(* A process killed while it writes loses the record; killed anywhere else, it loses nothing. *)
LEMMA CrashOne ==
    ASSUME NEW t, Threads = {t}, OneInv(t), Crash
    PROVE  OneWriter(t)' /\ [Abstract!Next]_Stored
<1>1. t \in Threads /\ OneWriter(t)
  BY OneInvParts
<1>2. pc'[t] = "idle" /\ UNCHANGED <<file, content>>
  BY <1>1 DEF Crash, All, disk
<1>3. OneWriter(t)' /\ ~Writing(t)'
  BY <1>2 DEF OneWriter, Writing
<1>4. Stored' = Written /\ Written' = Written
  BY <1>2, <1>3, StoredNext DEF Written
<1>5. CASE Writing(t)
  <2>1. Written = Nothing
    BY <1>1, <1>5 DEF OneWriter, Writing, Written
  <2>2. Abstract!Delete
    BY <1>4, <2>1 DEF Abstract!Delete
  <2> QED BY <1>3, <2>2 DEF Abstract!Next
<1>6. CASE ~Writing(t)
  BY <1>3, <1>4, <1>6, StoredIs
<1> QED BY <1>5, <1>6

LEMMA NextOne ==
    ASSUME NEW t, Threads = {t}, OneInv(t), [Next]_vars
    PROVE  OneInv(t)' /\ [Abstract!Next]_Stored
<1>1. IInv'
  BY NextHolds DEF OneInv
<1>2. CASE Crash
  BY <1>1, <1>2, CrashOne DEF OneInv
<1>3. CASE \E u \in Threads : Begin(u) \/ Step(u)
  <2>1. Begin(t) \/ Step(t)
    BY <1>3
  <2> QED BY <1>1, <2>1, StepOne DEF OneInv
<1>4. CASE UNCHANGED vars
  <2>1. OneWriter(t)'
    BY <1>4 DEF OneInv, OneWriter, vars, disk, locals
  <2>2. Stored' = Stored
    BY <1>4 DEF Stored, NewRecord, At, vars, disk, locals
  <2> QED BY <1>1, <2>1, <2>2 DEF OneInv
<1> QED BY <1>2, <1>3, <1>4 DEF Next

LEMMA InitOne ==
    ASSUME NEW t, Threads = {t}, Init
    PROVE  OneInv(t) /\ Abstract!Init
<1>1. pc[t] = "idle" /\ file = 0
  BY DEF Init, All
<1>2. OneWriter(t) /\ ~Writing(t)
  BY <1>1 DEF OneWriter, Writing
<1>3. Stored = Nothing
  BY <1>1, <1>2, StoredIs DEF Written
<1> QED BY <1>2, <1>3, InitHolds DEF OneInv, Abstract!Init

(* One thread at a time on a key, killed and started again any number of times at any     *)
(* system call: the value, key, timestamp and lock files are an atomic register.  A write, *)
(* a confirmation and a deletion take effect at once, a crash loses a record at most.      *)
THEOREM FilesAreRegister ==
    ASSUME NEW t, Threads = {t}
    PROVE  Spec => ImplementsKeyStore
<1>1. Init => OneInv(t) /\ Abstract!Init
  BY InitOne
<1>2. OneInv(t) /\ [Next]_vars => OneInv(t)' /\ [Abstract!Next]_Stored
  BY NextOne
<1> QED BY <1>1, <1>2, PTL DEF Spec, ImplementsKeyStore, Abstract!Spec

(* With one thread a set_value that returns has written its value: the time-out of the    *)
(* lock, which is the only way to return without, needs another thread that holds it.     *)
THEOREM ReportedIsStored ==
    ASSUME NEW s, Threads = {s}
    PROVE  Spec => StoredWhenReported
<1>1. Init => OneInv(s)
  BY InitOne
<1>2. OneInv(s) /\ [Next]_vars => OneInv(s)'
  BY NextOne
<1>3. OneInv(s) /\ [Next]_vars =>
         [\A t \in Threads :
             op[t] = "set_value" /\ pc'[t] = "idle" /\ crashes' = crashes => arg[t] = Nothing]_vars
  <2> SUFFICES ASSUME OneInv(s), [Next]_vars
               PROVE  [\A t \in Threads :
                          op[t] = "set_value" /\ pc'[t] = "idle" /\ crashes' = crashes => arg[t] = Nothing]_vars
    OBVIOUS
  <2>1. CASE Crash
    <3>1. crashes' # crashes
      BY <2>1, CrashesAssumption DEF Crash, OneInv, IInv, TypeOK
    <3> QED BY <3>1
  <2>2. CASE \E t \in Threads : Begin(t) \/ Step(t)
    <3>1. Reports(s)
      BY <2>2, StepOne
    <3> QED BY <3>1 DEF Reports
  <2> QED BY <2>1, <2>2 DEF Next
<1> QED BY <1>1, <1>2, <1>3, PTL DEF Spec, StoredWhenReported
=============================================================================
