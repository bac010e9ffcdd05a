---------------------------- MODULE ClientProofs ----------------------------
(***************************************************************************)
(* Proofs about Client, for any number of servers, chunks, attempts and    *)
(* faults.                                                                 *)
(***************************************************************************)
EXTENDS Client, SequenceTheorems, FiniteSetTheorems, TLAPS

InGet == at \in {"locate", "dial", "fetch"}

(* A connection that lives is one to a server. *)
LivesSomewhere(c) == c.live => c.server \in Servers

(* The attempts are counted down from a full count: connections refused, those left, and   *)
(* one that a failed ping of the old connection may have taken.                            *)
AttemptsCounted ==
    /\ refused + left <= Attempts
    /\ at = "connect" /\ conn # NoConnection => left = Attempts /\ refused = 0
    /\ at = "connect" /\ conn = NoConnection => refused + left + 1 >= Attempts

(* Of the chunks before the one it has come to get has those that it has not missed. *)
ChunksCounted ==
    /\ InGet => received \cup missed = 1..(chunk - 1) /\ received \cap missed = {}
    /\ at \in {"dial", "fetch"} => chunk <= Chunks
    /\ at = "fetch" => locations # <<>>

(* How the calls end, and what connect has reached. *)
EndsRight ==
    /\ at # "idle" => result = "none"
    /\ at = "update" /\ ~reached => queue = <<>>
    /\ TrueWhenReachedOrEmpty
    /\ OnlyMissingLeftOut

Typed == TypeOK /\ LivesSomewhere(held) /\ LivesSomewhere(conn)

IInv == Typed /\ AttemptsCounted /\ ChunksCounted /\ EndsRight

-----------------------------------------------------------------------------
(* Connections and lists *)

LEMMA NoConnectionOK ==
    NoConnection \in Connection /\ ~NoConnection.live /\ LivesSomewhere(NoConnection)
BY DEF NoConnection, Connection, LivesSomewhere

LEMMA ToOK ==
    ASSUME NEW s \in Servers
    PROVE  To(s) \in Connection /\ LivesSomewhere(To(s)) /\ To(s).live /\ To(s) # NoConnection
BY ServersAssumption DEF To, Connection, LivesSomewhere, NoConnection

LEMMA BreaksOK ==
    ASSUME NEW c \in Connection, NEW s \in Servers, LivesSomewhere(c)
    PROVE  /\ Breaks(c, s) \in Connection /\ LivesSomewhere(Breaks(c, s))
           /\ c = NoConnection <=> Breaks(c, s) = NoConnection
<1>1. CASE c.server = s
  <2>1. Breaks(c, s) = [server |-> s, live |-> FALSE]
    BY <1>1 DEF Breaks, Connection
  <2> QED BY <1>1, <2>1, ServersAssumption DEF Connection, LivesSomewhere, NoConnection
<1>2. CASE c.server # s
  BY <1>2 DEF Breaks
<1> QED BY <1>1, <1>2

LEMMA TailOK ==
    ASSUME NEW q \in Seq(Servers), q # <<>>
    PROVE  Tail(q) \in Seq(Servers) /\ Len(Tail(q)) = Len(q) - 1 /\ Len(q) \in Nat /\ Head(q) \in Servers
BY HeadTailProperties, LenProperties

LEMMA OrdersOK ==
    ASSUME NEW S \in SUBSET Servers, NEW q \in Orders(S)
    PROVE  q \in Seq(Servers)
<1>1. PICK n \in 0..Cardinality(S) : q \in [1..n -> S]
  BY DEF Orders
<1>2. Cardinality(S) \in Nat
  BY ServersAssumption, FS_Subset, FS_CardinalityType
<1>3. n \in Nat /\ q \in [1..n -> Servers]
  BY <1>1, <1>2
<1> QED BY <1>3, SeqDef

LEMMA ReconnectOK ==
    ASSUME TypeOK, List # <<>>, Reconnect
    PROVE  /\ left' \in 0..Attempts
           /\ queue' \in Seq(Servers) /\ locations' \in Seq(Servers)
           /\ at = "connect" => locations' = locations
           /\ at # "connect" => queue' = queue
           /\ \/ left > 0 /\ left' = left - 1 /\ queue' = queue
              \/ left = 0 /\ left' = Attempts
<1>1. Attempts \in Nat /\ left \in 0..Attempts
  BY NumbersAssumption DEF TypeOK
<1>2. List \in Seq(Servers)
  BY DEF List, TypeOK
<1>3. CASE left > 0
  BY <1>1, <1>3 DEF Reconnect, lists, TypeOK
<1>4. CASE ~(left > 0)
  <2>1. left' = Attempts /\ ListBecomes(Tail(List)) /\ left = 0
    BY <1>1, <1>4 DEF Reconnect
  <2>2. Tail(List) \in Seq(Servers)
    BY <1>2, TailOK
  <2>3. PICK q \in Seq(Servers) : ListBecomes(q)
    BY <2>1, <2>2
  <2>4. queue \in Seq(Servers) /\ locations \in Seq(Servers)
    BY DEF TypeOK
  <2>5. CASE at = "connect"
    BY <1>1, <2>1, <2>3, <2>4, <2>5 DEF ListBecomes
  <2>6. CASE at # "connect"
    BY <1>1, <2>1, <2>3, <2>4, <2>6 DEF ListBecomes
  <2> QED BY <2>5, <2>6
<1> QED BY <1>3, <1>4

LEMMA InvParts ==
    ASSUME IInv
    PROVE  /\ TypeOK /\ Attempts \in Nat /\ left \in 0..Attempts /\ refused \in 0..Attempts
           /\ Chunks \in Nat /\ Chunks > 0 /\ chunk \in 1..(Chunks + 1) /\ List \in Seq(Servers)
           /\ LivesSomewhere(held) /\ LivesSomewhere(conn) /\ AttemptsCounted /\ ChunksCounted /\ EndsRight
BY NumbersAssumption DEF IInv, Typed, TypeOK, List

-----------------------------------------------------------------------------
(* _ensure_connection *)

LEMMA RefusedKeeps == IInv /\ Refused => IInv'
<1> SUFFICES ASSUME IInv, Refused PROVE IInv'
  OBVIOUS
<1>1. /\ conn = NoConnection /\ List # <<>> /\ Reconnect /\ Trying
      /\ refused' = (IF left > 0 THEN refused + 1 ELSE 0)
      /\ UNCHANGED <<up, has, faults, held, conn, broadcasts, at, chunk, received, missed, result, reached>>
  BY DEF Refused, servers, getting
<1>2. Typed'
  <2>1. refused' \in 0..Attempts
    BY <1>1, InvParts DEF AttemptsCounted
  <2> QED BY <1>1, <2>1, InvParts, ReconnectOK DEF Typed, TypeOK, LivesSomewhere
<1>3. AttemptsCounted'
  BY <1>1, InvParts, ReconnectOK, SMTT(30) DEF AttemptsCounted
<1>4. ChunksCounted'
  BY <1>1, InvParts, ReconnectOK DEF ChunksCounted, InGet, Trying
<1>5. EndsRight'
  BY <1>1, InvParts, ReconnectOK DEF EndsRight, TrueWhenReachedOrEmpty, OnlyMissingLeftOut, Trying
<1> QED BY <1>2, <1>3, <1>4, <1>5 DEF IInv

LEMMA ConnectedKeeps == IInv /\ Connected => IInv'
<1> SUFFICES ASSUME IInv, Connected PROVE IInv'
  OBVIOUS
<1>1. /\ conn = NoConnection /\ List # <<>> /\ Trying /\ conn' = To(Head(List))
      /\ at' = (IF at = "connect" THEN "update" ELSE "fetch") /\ reached' = (at = "connect" \/ reached)
      /\ UNCHANGED <<up, has, faults, queue, locations, held, left, broadcasts, chunk, received, missed, result, refused>>
  BY DEF Connected, servers, getting, lists
<1>2. Head(List) \in Servers
  BY <1>1, InvParts, TailOK
<1>3. Typed'
  BY <1>1, <1>2, InvParts, ToOK DEF Typed, TypeOK, LivesSomewhere
<1>4. AttemptsCounted'
  BY <1>1, InvParts DEF AttemptsCounted
<1>5. ChunksCounted'
  BY <1>1, InvParts DEF ChunksCounted, InGet, Trying, List
<1>6. EndsRight'
  BY <1>1, InvParts DEF EndsRight, TrueWhenReachedOrEmpty, OnlyMissingLeftOut, Trying
<1> QED BY <1>3, <1>4, <1>5, <1>6 DEF IInv

(* A call that ends without a value or an answer. *)
LEMMA EndsKeeps ==
    ASSUME IInv, NEW r \in {"raised", "lost", "false", "nothing", "partial", "whole"}, Ends(r),
           UNCHANGED <<queue, locations, held, chunk, received, reached, refused>>,
           missed' \in SUBSET (1..Chunks),
           r \in {"nothing", "partial", "whole"} =>
               received \cup missed' = 1..Chunks /\ received \cap missed' = {}
    PROVE  IInv'
<1>1. /\ at' = "idle" /\ result' = r /\ conn' = NoConnection
      /\ UNCHANGED <<up, has, faults, left, broadcasts>>
  BY DEF Ends, servers
<1>2. Typed'
  BY <1>1, InvParts, NoConnectionOK DEF Typed, TypeOK, LivesSomewhere
<1>3. AttemptsCounted'
  BY <1>1, InvParts DEF AttemptsCounted
<1>4. ChunksCounted' /\ EndsRight'
  BY <1>1 DEF ChunksCounted, InGet, EndsRight, TrueWhenReachedOrEmpty, OnlyMissingLeftOut
<1> QED BY <1>2, <1>3, <1>4 DEF IInv

LEMMA NothingLeftKeeps == IInv /\ NothingLeft => IInv'
BY EndsKeeps, InvParts DEF NothingLeft, lists, getting, TypeOK

-----------------------------------------------------------------------------
(* connect *)

LEMMA ConnectKeeps == IInv /\ Connect => IInv'
<1> SUFFICES ASSUME IInv, Connect PROVE IInv'
  OBVIOUS
<1>1. /\ at = "idle" /\ at' = "connect" /\ conn' = held /\ left' = Attempts /\ broadcasts' \in BOOLEAN
      /\ result' = "none" /\ reached' = FALSE /\ refused' = 0
      /\ UNCHANGED <<up, has, faults, queue, locations, held, chunk, received, missed>>
  BY DEF Connect, servers, lists, getting
<1>2. Typed'
  <2>1. left' \in 0..Attempts /\ refused' \in 0..Attempts
    BY <1>1, NumbersAssumption
  <2>2. LivesSomewhere(held)' /\ LivesSomewhere(conn)'
    BY <1>1, InvParts DEF LivesSomewhere
  <2> QED BY <1>1, <2>1, <2>2, InvParts DEF Typed, TypeOK
<1>3. AttemptsCounted' /\ ChunksCounted'
  BY <1>1, InvParts DEF AttemptsCounted, ChunksCounted, InGet
<1>4. EndsRight'
  BY <1>1 DEF EndsRight, TrueWhenReachedOrEmpty, OnlyMissingLeftOut
<1> QED BY <1>2, <1>3, <1>4 DEF IInv

LEMMA PingKeeps == IInv /\ Ping => IInv'
<1> SUFFICES ASSUME IInv, Ping PROVE IInv'
  OBVIOUS
<1>1. /\ at = "connect" /\ conn # NoConnection /\ queue # <<>> /\ List = queue
      /\ UNCHANGED <<up, has, faults, held, broadcasts, chunk, received, missed, result, refused>>
  BY DEF Ping, servers, getting, List
<1>2. CASE conn.live
  <2>1. at' = "update" /\ reached' = TRUE /\ UNCHANGED <<queue, locations, left, conn>>
    BY <1>2 DEF Ping, lists
  <2>2. Typed'
    BY <1>1, <2>1, InvParts DEF Typed, TypeOK, LivesSomewhere
  <2>3. AttemptsCounted' /\ ChunksCounted'
    BY <1>1, <2>1, InvParts DEF AttemptsCounted, ChunksCounted, InGet
  <2>4. EndsRight'
    BY <1>1, <2>1, InvParts DEF EndsRight, TrueWhenReachedOrEmpty, OnlyMissingLeftOut
  <2> QED BY <2>2, <2>3, <2>4 DEF IInv
<1>3. CASE ~conn.live
  <2>1. conn' = NoConnection /\ Reconnect /\ UNCHANGED <<at, reached>>
    BY <1>3 DEF Ping
  <2>2. Typed'
    BY <1>1, <2>1, InvParts, ReconnectOK, NoConnectionOK DEF Typed, TypeOK, LivesSomewhere
  <2>3. AttemptsCounted'
    BY <1>1, <2>1, InvParts, ReconnectOK DEF AttemptsCounted
  <2>4. ChunksCounted' /\ EndsRight'
    BY <1>1, <2>1, InvParts DEF ChunksCounted, InGet, EndsRight, TrueWhenReachedOrEmpty, OnlyMissingLeftOut
  <2> QED BY <2>2, <2>3, <2>4 DEF IInv
<1> QED BY <1>2, <1>3

LEMMA NotPingedKeeps == IInv /\ NotPinged => IInv'
<1> SUFFICES ASSUME IInv, NotPinged PROVE IInv'
  OBVIOUS
<1>1. /\ at = "connect" /\ queue = <<>> /\ at' = "update"
      /\ UNCHANGED <<up, has, faults, queue, locations, held, conn, left, broadcasts, chunk, received, missed, result,
                     reached, refused>>
  BY DEF NotPinged, servers, lists, getting
<1>2. Typed'
  BY <1>1, InvParts DEF Typed, TypeOK, LivesSomewhere
<1>3. AttemptsCounted' /\ ChunksCounted'
  BY <1>1, InvParts DEF AttemptsCounted, ChunksCounted, InGet
<1>4. EndsRight'
  BY <1>1, InvParts DEF EndsRight, TrueWhenReachedOrEmpty, OnlyMissingLeftOut
<1> QED BY <1>2, <1>3, <1>4 DEF IInv

LEMMA BroadcastKeeps == IInv /\ Broadcast => IInv'
<1> SUFFICES ASSUME IInv, Broadcast PROVE IInv'
  OBVIOUS
<1>1. /\ at = "connect" /\ queue = <<>>
      /\ UNCHANGED <<locations, held, chunk, received, missed, reached, refused>>
  BY DEF Broadcast, getting
<1>2. CASE (\E s \in up : queue' = <<s>>) /\ UNCHANGED <<conn, at, result, left, broadcasts, servers>>
  <2>1. queue' \in Seq(Servers)
    BY <1>2, InvParts DEF TypeOK
  <2>2. Typed'
    BY <1>1, <1>2, <2>1, InvParts DEF Typed, TypeOK, LivesSomewhere, servers
  <2>3. AttemptsCounted' /\ ChunksCounted'
    BY <1>1, <1>2, InvParts DEF AttemptsCounted, ChunksCounted, InGet
  <2>4. EndsRight'
    BY <1>1, <1>2, InvParts DEF EndsRight, TrueWhenReachedOrEmpty, OnlyMissingLeftOut
  <2> QED BY <2>2, <2>3, <2>4 DEF IInv
<1>3. CASE at' = "update" /\ UNCHANGED <<queue, conn, result, left, broadcasts, servers>>
  <2>2. Typed'
    BY <1>1, <1>3, InvParts DEF Typed, TypeOK, LivesSomewhere, servers
  <2>3. AttemptsCounted' /\ ChunksCounted'
    BY <1>1, <1>3, InvParts DEF AttemptsCounted, ChunksCounted, InGet
  <2>4. EndsRight'
    BY <1>1, <1>3, InvParts DEF EndsRight, TrueWhenReachedOrEmpty, OnlyMissingLeftOut
  <2> QED BY <2>2, <2>3, <2>4 DEF IInv
<1>4. CASE Ends("raised") /\ UNCHANGED queue
  BY <1>1, <1>4, InvParts, EndsKeeps DEF TypeOK
<1> QED BY <1>2, <1>3, <1>4 DEF Broadcast

LEMMA UpdateKeeps == IInv /\ Update => IInv'
<1> SUFFICES ASSUME IInv, Update PROVE IInv'
  OBVIOUS
<1>1. /\ at = "update" /\ held' = conn /\ at' = "idle" /\ conn' = NoConnection
      /\ result' = (IF conn = NoConnection THEN "false" ELSE "true")
      /\ UNCHANGED <<up, has, faults, left, broadcasts, locations, chunk, received, missed, refused>>
  BY DEF Update, Ends, servers, getting
<1>2. queue' \in Seq(Servers) /\ reached' \in BOOLEAN /\ (~reached' => queue' = <<>>)
  <2>1. CASE conn.live
    <3>1. PICK q \in Orders(Servers \ InList(queue)) : queue' = queue \o q
      BY <2>1 DEF Update
    <3>2. q \in Seq(Servers) /\ queue \in Seq(Servers)
      BY <3>1, OrdersOK, InvParts DEF TypeOK
    <3> QED BY <2>1, <3>1, <3>2, ConcatProperties DEF Update
  <2>2. CASE ~conn.live
    BY <1>1, <2>2, InvParts DEF Update, EndsRight, TypeOK
  <2> QED BY <2>1, <2>2
<1>3. Typed'
  BY <1>1, <1>2, InvParts, NoConnectionOK DEF Typed, TypeOK, LivesSomewhere
<1>4. AttemptsCounted' /\ ChunksCounted'
  BY <1>1, InvParts DEF AttemptsCounted, ChunksCounted, InGet
<1>5. EndsRight'
  BY <1>1, <1>2 DEF EndsRight, TrueWhenReachedOrEmpty, OnlyMissingLeftOut
<1> QED BY <1>3, <1>4, <1>5 DEF IInv

-----------------------------------------------------------------------------
(* get *)

LEMMA GetKeeps == IInv /\ Get => IInv'
<1> SUFFICES ASSUME IInv, Get PROVE IInv'
  OBVIOUS
<1>1. /\ at = "idle" /\ chunk' = 1 /\ received' = {} /\ missed' = {}
      /\ UNCHANGED <<queue, locations, held, reached, refused>>
  BY DEF Get, lists
<1>2. (held.live /\ at' = "locate" /\ result' = "none" /\ UNCHANGED <<up, has, faults, left, conn, broadcasts>>)
      \/ Ends("lost")
  BY DEF Get, servers
<1>3. PICK r \in {"none", "lost"} :
         /\ result' = r /\ at' \in {"idle", "locate"} /\ (at' = "locate" => r = "none")
         /\ conn' \in {conn, NoConnection} /\ UNCHANGED <<up, has, faults, left, broadcasts>>
  BY <1>1, <1>2 DEF Ends, servers
<1>4. Typed'
  <2>1. chunk' \in 1..(Chunks + 1) /\ received' \in SUBSET (1..Chunks) /\ missed' \in SUBSET (1..Chunks)
    BY <1>1, InvParts
  <2> QED BY <1>1, <1>3, <2>1, InvParts, NoConnectionOK DEF Typed, TypeOK, LivesSomewhere
<1>5. AttemptsCounted'
  BY <1>1, <1>3, InvParts DEF AttemptsCounted
<1>6. ChunksCounted' /\ EndsRight'
  BY <1>1, <1>3, InvParts DEF ChunksCounted, InGet, EndsRight, TrueWhenReachedOrEmpty, OnlyMissingLeftOut
<1> QED BY <1>4, <1>5, <1>6 DEF IInv

(* get goes on to the next chunk, with this one or without. *)
LEMMA NextChunkKeeps ==
    ASSUME IInv, InGet, chunk <= Chunks, NEW got, NEW lacks, NextChunk(got, lacks),
           (got = {chunk} /\ lacks = {}) \/ (got = {} /\ lacks = {chunk}),
           conn' \in {conn, NoConnection}, left' \in 0..Attempts, refused' \in 0..Attempts,
           refused' + left' <= Attempts, locations' \in Seq(Servers),
           UNCHANGED <<up, has, faults, queue, held, broadcasts, result, reached>>
    PROVE  IInv'
<1>1. /\ at' = "locate" /\ chunk' = chunk + 1 /\ received' = received \cup got
      /\ missed' = missed \cup lacks
  BY DEF NextChunk
<1>2. Typed'
  <2>1. chunk' \in 1..(Chunks + 1) /\ received' \in SUBSET (1..Chunks) /\ missed' \in SUBSET (1..Chunks)
    BY <1>1, InvParts, SMTT(30) DEF TypeOK
  <2> QED BY <1>1, <2>1, InvParts, NoConnectionOK DEF Typed, TypeOK, LivesSomewhere
<1>3. AttemptsCounted'
  BY <1>1 DEF AttemptsCounted
<1>4. ChunksCounted'
  <2>1. received \cup missed = 1..(chunk - 1) /\ received \cap missed = {}
    BY InvParts DEF ChunksCounted
  <2>2. PICK n \in Nat : n = chunk /\ n > 0
    BY InvParts
  <2>3. (1..(n - 1)) \cup {n} = 1..n /\ n \notin 1..(n - 1)
    BY <2>2
  <2>4. chunk' - 1 = n
    BY <1>1, <2>2
  <2>5. received' \cup missed' = (received \cup missed) \cup {n}
    BY <1>1, <2>2
  <2>6. received' \cap missed' = {}
    BY <1>1, <2>1, <2>2, <2>3
  <2> QED BY <1>1, <2>1, <2>2, <2>3, <2>4, <2>5, <2>6 DEF ChunksCounted, InGet
<1>5. EndsRight'
  BY <1>1, InvParts DEF EndsRight, InGet, TrueWhenReachedOrEmpty, OnlyMissingLeftOut
<1> QED BY <1>2, <1>3, <1>4, <1>5 DEF IInv

(* get dials a location of the chunk it is at. *)
LEMMA DialKeeps ==
    ASSUME IInv, InGet, chunk <= Chunks, at' = "dial", left' = Attempts, refused' = 0,
           conn' \in {conn, NoConnection}, locations' \in Seq(Servers),
           UNCHANGED <<up, has, faults, queue, held, broadcasts, result, reached, chunk, received, missed>>
    PROVE  IInv'
<1>1. Typed'
  <2>1. left' \in 0..Attempts /\ refused' \in 0..Attempts
    BY InvParts
  <2> QED BY <2>1, InvParts, NoConnectionOK DEF Typed, TypeOK, LivesSomewhere
<1>2. AttemptsCounted'
  BY InvParts DEF AttemptsCounted
<1>3. ChunksCounted' /\ EndsRight'
  BY InvParts DEF ChunksCounted, InGet, EndsRight, TrueWhenReachedOrEmpty, OnlyMissingLeftOut
<1> QED BY <1>1, <1>2, <1>3 DEF IInv

LEMMA LocateKeeps == IInv /\ Locate => IInv'
<1> SUFFICES ASSUME IInv, Locate PROVE IInv'
  OBVIOUS
<1>1. /\ InGet /\ at = "locate" /\ chunk <= Chunks /\ held.live /\ refused' = 0
      /\ UNCHANGED <<up, has, faults, queue, held, conn, broadcasts, result, reached>>
  BY DEF Locate, InGet, servers
<1>2. PICK q \in Orders({s \in up : chunk \in has[s]}) \cup {<<held.server>>} :
         /\ locations' = q
         /\ IF q = <<>> THEN NextChunk({}, {chunk}) /\ UNCHANGED left
                        ELSE at' = "dial" /\ left' = Attempts /\ UNCHANGED getting
  BY DEF Locate
<1>3. q \in Seq(Servers)
  <2>1. {s \in up : chunk \in has[s]} \in SUBSET Servers
    BY InvParts DEF TypeOK
  <2>2. held.server \in Servers
    BY <1>1, InvParts DEF LivesSomewhere
  <2>3. <<held.server>> \in Seq(Servers)
    BY <2>2
  <2> QED BY <1>2, <2>1, <2>3, OrdersOK
<1>4. CASE q = <<>>
  <2>1. left' \in 0..Attempts /\ refused' \in 0..Attempts /\ refused' + left' <= Attempts
    BY <1>1, <1>2, <1>4, InvParts
  <2> QED BY <1>1, <1>2, <1>3, <1>4, <2>1, NextChunkKeeps
<1>5. CASE q # <<>>
  BY <1>1, <1>2, <1>3, <1>5, DialKeeps DEF getting
<1> QED BY <1>4, <1>5

LEMMA BrokenKeeps == IInv /\ Broken => IInv'
<1> SUFFICES ASSUME IInv, Broken PROVE IInv'
  OBVIOUS
<1>1. chunk <= Chunks /\ locations \in Seq(Servers) /\ InGet
  BY InvParts DEF Broken, ChunksCounted, TypeOK, InGet
<1> QED BY <1>1, DialKeeps DEF Broken, servers, lists, getting

LEMMA FetchKeeps == IInv /\ Fetch => IInv'
<1> SUFFICES ASSUME IInv, Fetch PROVE IInv'
  OBVIOUS
<1>1. chunk <= Chunks /\ locations \in Seq(Servers) /\ InGet
  BY InvParts DEF Fetch, ChunksCounted, TypeOK, InGet
<1>2. /\ NextChunk({chunk}, {}) /\ conn' = NoConnection
      /\ UNCHANGED <<up, has, faults, queue, locations, held, left, broadcasts, result, reached, refused>>
  BY DEF Fetch, servers, lists
<1>3. left' \in 0..Attempts /\ refused' \in 0..Attempts /\ refused' + left' <= Attempts
  BY <1>2, InvParts DEF AttemptsCounted
<1> QED BY <1>1, <1>2, <1>3, NextChunkKeeps

LEMMA FetchNoneKeeps == IInv /\ FetchNone => IInv'
<1> SUFFICES ASSUME IInv, FetchNone PROVE IInv'
  OBVIOUS
<1>1. /\ at = "fetch" /\ locations' = Tail(locations) /\ conn' = NoConnection
      /\ left' = Attempts /\ refused' = 0
      /\ UNCHANGED <<up, has, faults, queue, held, broadcasts, result, reached>>
  BY DEF FetchNone, servers
<1>2. chunk <= Chunks /\ locations \in Seq(Servers) /\ locations # <<>> /\ InGet
  BY <1>1, InvParts DEF ChunksCounted, TypeOK, InGet
<1>3. locations' \in Seq(Servers)
  BY <1>1, <1>2, TailOK
<1>4. CASE Len(locations) > 1
  <2>1. at' = "dial" /\ UNCHANGED <<chunk, received, missed>>
    BY <1>4 DEF FetchNone, getting
  <2> QED BY <1>1, <1>2, <1>3, <2>1, DialKeeps
<1>5. CASE ~(Len(locations) > 1)
  <2>1. NextChunk({}, {chunk})
    BY <1>5 DEF FetchNone
  <2>2. left' \in 0..Attempts /\ refused' \in 0..Attempts /\ refused' + left' <= Attempts
    BY <1>1, InvParts
  <2> QED BY <1>1, <1>2, <1>3, <2>1, <2>2, NextChunkKeeps
<1> QED BY <1>4, <1>5

LEMMA FinishKeeps == IInv /\ Finish => IInv'
<1> SUFFICES ASSUME IInv, Finish PROVE IInv'
  OBVIOUS
<1>1. /\ InGet /\ chunk = Chunks + 1
      /\ UNCHANGED <<queue, locations, held, chunk, received, missed, reached, refused>>
  BY InvParts DEF Finish, InGet, lists, getting
<1>2. PICK r \in {"nothing", "whole", "partial"} :
         Ends(r)
  BY DEF Finish
<1>3. missed' \in SUBSET (1..Chunks)
  BY <1>1, InvParts DEF TypeOK
<1>4. received \cup missed' = 1..Chunks /\ received \cap missed' = {}
  <2>1. chunk - 1 = Chunks
    BY <1>1, InvParts
  <2> QED BY <1>1, <2>1, InvParts DEF ChunksCounted
<1> QED BY <1>1, <1>2, <1>3, <1>4, EndsKeeps

LEMMA ListsLostKeeps == IInv /\ ListsLost => IInv'
BY InvParts, EndsKeeps DEF ListsLost, lists, getting, TypeOK

-----------------------------------------------------------------------------
(* Servers *)

LEMMA StopKeeps ==
    ASSUME IInv, NEW s \in Servers, Stop(s)
    PROVE  IInv'
<1>1. /\ up' = up \ {s} /\ held' = Breaks(held, s) /\ conn' = Breaks(conn, s)
      /\ faults' = faults + 1 /\ faults < MaxFaults
      /\ UNCHANGED <<has, queue, locations, left, broadcasts, at, chunk, received, missed, result, reached, refused>>
  BY DEF Stop, lists, getting
<1>2. Typed'
  <2>1. held \in Connection /\ conn \in Connection
    BY InvParts DEF TypeOK
  <2>2. /\ Breaks(held, s) \in Connection /\ Breaks(conn, s) \in Connection
        /\ LivesSomewhere(Breaks(held, s)) /\ LivesSomewhere(Breaks(conn, s))
    BY <2>1, InvParts, BreaksOK
  <2>3. LivesSomewhere(held)' /\ LivesSomewhere(conn)' /\ held' \in Connection /\ conn' \in Connection
    BY <1>1, <2>2 DEF LivesSomewhere
  <2>4. faults' \in 0..MaxFaults
    BY <1>1, InvParts, NumbersAssumption DEF TypeOK
  <2> QED BY <1>1, <2>3, <2>4, InvParts DEF Typed, TypeOK
<1>3. conn = NoConnection <=> conn' = NoConnection
  BY <1>1, InvParts, BreaksOK DEF TypeOK
<1>4. AttemptsCounted'
  BY <1>1, <1>3, InvParts DEF AttemptsCounted
<1>5. ChunksCounted' /\ EndsRight'
  BY <1>1, InvParts DEF ChunksCounted, InGet, EndsRight, TrueWhenReachedOrEmpty, OnlyMissingLeftOut
<1> QED BY <1>2, <1>4, <1>5 DEF IInv

(* A server that starts, or a chunk that is lost, is nothing to the client yet. *)
LEMMA ServerKeeps ==
    ASSUME IInv, NEW s \in Servers, Start(s) \/ \E c \in 1..Chunks : Lose(s, c)
    PROVE  IInv'
<1>1. UNCHANGED <<queue, locations, held, conn, left, broadcasts, at, chunk, received, missed, result,
                  reached, refused>>
  BY DEF Start, Lose, lists, getting
<1>2. up' \subseteq Servers /\ has' \in [Servers -> SUBSET (1..Chunks)] /\ faults' \in 0..MaxFaults
  <2>1. CASE Start(s)
    BY <2>1, InvParts DEF Start, TypeOK
  <2>2. ASSUME NEW c \in 1..Chunks, Lose(s, c)
        PROVE  up' \subseteq Servers /\ has' \in [Servers -> SUBSET (1..Chunks)] /\ faults' \in 0..MaxFaults
    <3>1. faults' \in 0..MaxFaults
      BY <2>2, InvParts, NumbersAssumption DEF Lose, TypeOK
    <3>2. has' \in [Servers -> SUBSET (1..Chunks)] /\ up' = up
      BY <2>2, InvParts DEF Lose, TypeOK
    <3> QED BY <3>1, <3>2, InvParts DEF TypeOK
  <2> QED BY <2>1, <2>2
<1>3. Typed'
  BY <1>1, <1>2, InvParts DEF Typed, TypeOK, LivesSomewhere
<1>4. AttemptsCounted' /\ ChunksCounted' /\ EndsRight'
  BY <1>1, InvParts DEF AttemptsCounted, ChunksCounted, InGet, EndsRight, TrueWhenReachedOrEmpty,
     OnlyMissingLeftOut
<1> QED BY <1>3, <1>4 DEF IInv

LEMMA InitHolds == Init => IInv
<1> SUFFICES ASSUME Init PROVE IInv
  OBVIOUS
<1>1. Attempts \in Nat /\ Chunks \in Nat /\ MaxFaults \in Nat
  BY NumbersAssumption
<1>2. Typed
  <2>1. queue \in Seq(Servers) /\ locations \in Seq(Servers)
    BY BootstrapAssumption DEF Init
  <2>2. has \in [Servers -> SUBSET (1..Chunks)]
    BY DEF Init
  <2>3. LivesSomewhere(held) /\ LivesSomewhere(conn) /\ held \in Connection /\ conn \in Connection
    BY NoConnectionOK DEF Init
  <2>4. /\ left \in 0..Attempts /\ refused \in 0..Attempts /\ faults \in 0..MaxFaults
        /\ chunk \in 1..(Chunks + 1) /\ received \in SUBSET (1..Chunks)
    BY <1>1 DEF Init
  <2> QED BY <2>1, <2>2, <2>3, <2>4 DEF Init, Typed, TypeOK
<1>3. AttemptsCounted
  BY <1>1 DEF Init, AttemptsCounted
<1>4. ChunksCounted /\ EndsRight
  BY DEF Init, ChunksCounted, InGet, EndsRight, TrueWhenReachedOrEmpty, OnlyMissingLeftOut
<1> QED BY <1>2, <1>3, <1>4 DEF IInv

LEMMA StutterKeeps == IInv /\ UNCHANGED vars => IInv'
<1> SUFFICES ASSUME IInv, UNCHANGED vars PROVE IInv'
  OBVIOUS
<1>1. UNCHANGED <<up, has, faults, queue, locations, held, conn, left, broadcasts, at, chunk, received, missed,
                  result, reached, refused>>
  BY DEF vars, servers, lists, getting
<1>2. Typed'
  BY <1>1 DEF IInv, Typed, TypeOK, LivesSomewhere
<1>3. AttemptsCounted' /\ ChunksCounted' /\ EndsRight'
  BY <1>1, InvParts DEF AttemptsCounted, ChunksCounted, InGet, EndsRight, TrueWhenReachedOrEmpty,
     OnlyMissingLeftOut
<1> QED BY <1>2, <1>3 DEF IInv

LEMMA NextHolds == IInv /\ [Next]_vars => IInv'
<1> SUFFICES ASSUME IInv, [Next]_vars PROVE IInv'
  OBVIOUS
<1>1. CASE Refused \/ Connected \/ NothingLeft
  BY <1>1, RefusedKeeps, ConnectedKeeps, NothingLeftKeeps
<1>2. CASE Connect \/ Ping \/ NotPinged \/ Broadcast \/ Update
  BY <1>2, ConnectKeeps, PingKeeps, NotPingedKeeps, BroadcastKeeps, UpdateKeeps
<1>3. CASE Get \/ Locate \/ Broken \/ Fetch \/ FetchNone \/ Finish \/ ListsLost
  BY <1>3, GetKeeps, LocateKeeps, BrokenKeeps, FetchKeeps, FetchNoneKeeps, FinishKeeps, ListsLostKeeps
<1>4. ASSUME NEW s \in Servers, Stop(s) \/ Start(s) \/ \E c \in 1..Chunks : Lose(s, c) PROVE IInv'
  BY <1>4, StopKeeps, ServerKeeps
<1> QED BY <1>1, <1>2, <1>3, <1>4, StutterKeeps DEF Next, Goes

LEMMA Invariance == Spec => []IInv
<1>1. Init => IInv
  BY InitHolds
<1>2. IInv /\ [Next]_vars => IInv'
  BY NextHolds
<1> QED BY <1>1, <1>2, PTL DEF Spec

-----------------------------------------------------------------------------
(* Theorems *)

(* Every variable has its type: the list worked on is one of servers, and is not used past *)
(* its end.                                                                                *)
THEOREM TypeCorrect == Spec => []TypeOK
<1>1. IInv => TypeOK
  BY DEF IInv, Typed
<1> QED BY <1>1, Invariance, PTL

(* connect answers True, without a server that answered, only when its queue is empty. *)
THEOREM TrueOnlyWhenReachedOrEmpty == Spec => []TrueWhenReachedOrEmpty
<1>1. IInv => TrueWhenReachedOrEmpty
  BY DEF IInv, EndsRight
<1> QED BY <1>1, Invariance, PTL

(* Each chunk of a file that get puts together, or finds nothing of, was received, or at   *)
(* its turn no location of it was told or the last one gave None.                          *)
THEOREM NothingElseLeftOut == Spec => []OnlyMissingLeftOut
<1>1. IInv => OnlyMissingLeftOut
  BY DEF IInv, EndsRight
<1> QED BY <1>1, Invariance, PTL

(* The queue gets shorter only by the head that refused. *)
LEMMA ShorterByReconnect ==
    ASSUME IInv, [Next]_vars, at = "connect", Len(queue') < Len(queue)
    PROVE  left = 0
<1>1. queue \in Seq(Servers) /\ Len(queue) \in Nat /\ queue' # queue
  BY InvParts DEF TypeOK
<1>2. CASE Refused \/ Ping
  <2>1. List # <<>> /\ Reconnect
    BY <1>1, <1>2 DEF Refused, Ping, List, lists
  <2> QED BY <1>1, <2>1, InvParts, ReconnectOK
<1>3. CASE Broadcast
  <2>1. queue = <<>>
    BY <1>3 DEF Broadcast
  <2>2. queue' \in Seq(Servers)
    BY <1>3, BroadcastKeeps DEF IInv, Typed, TypeOK
  <2> QED BY <2>1, <2>2, LenProperties
<1>4. CASE ~(Refused \/ Ping \/ Broadcast)
  <2>1. CASE Next
    BY <1>1, <1>4, <2>1 DEF Next, Goes, Connect, Get, Connected, NothingLeft, NotPinged, Update, Locate, Broken,
       Fetch, FetchNone, Finish, ListsLost, Stop, Start, Lose, lists
  <2>2. CASE UNCHANGED vars
    BY <1>1, <2>2 DEF vars, lists
  <2> QED BY <2>1, <2>2
<1> QED BY <1>2, <1>3, <1>4

(* connect gives a server up after as many refusals as it has attempts, of which the failed *)
(* ping of the connection it had is one at most.                                            *)
THEOREM GivenUpAfterEnough == Spec => GivenUpAfterAttempts
<1>1. IInv /\ [Next]_vars =>
         [at = "connect" /\ Len(queue') < Len(queue)
             => refused + (IF conn = NoConnection THEN 1 ELSE 0) >= Attempts]_vars
  <2> SUFFICES ASSUME IInv, [Next]_vars, at = "connect", Len(queue') < Len(queue)
               PROVE  refused + (IF conn = NoConnection THEN 1 ELSE 0) >= Attempts
    OBVIOUS
  <2>1. left = 0
    BY ShorterByReconnect
  <2> QED BY <2>1, InvParts DEF AttemptsCounted
<1> QED BY <1>1, Invariance, PTL DEF Spec, GivenUpAfterAttempts
=============================================================================
