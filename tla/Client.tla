------------------------------- MODULE Client -------------------------------
(***************************************************************************)
(* ClientSession (src/kade_drive/client.py): connect with its queue of     *)
(* known servers, its attempts and its broadcast, and get, which connects  *)
(* to a server of each chunk in turn.  put, delete and ls pass one call on *)
(* and change nothing in the client.  Servers stop and start again at any  *)
(* moment and lose chunks.                                                 *)
(* Abstracted: the values of the chunks, and how the server finds their    *)
(* locations (SpiderCrawl, Upload).  The lists a server returns stay with  *)
(* it: using one after the connection broke raises.                        *)
(***************************************************************************)
EXTENDS Naturals, Sequences, FiniteSets

CONSTANTS
    Servers,
    Nobody,     \* no server
    Chunks,     \* number of chunks of the file asked for
    Attempts,   \* attempts_to_reconnect
    Bootstrap,  \* the servers the client may know at first: sequences
    MaxFaults   \* bound: servers stopped and chunks lost

ASSUME ServersAssumption == IsFiniteSet(Servers) /\ Nobody \notin Servers
ASSUME NumbersAssumption == Chunks \in Nat \ {0} /\ Attempts \in Nat /\ MaxFaults \in Nat
ASSUME BootstrapAssumption == Bootstrap \subseteq Seq(Servers)

VARIABLES
    up,             \* the servers that run
    has,            \* the chunks each of them gives when asked
    queue,          \* bootstrap_nodes, the list that connect works on
    locations,      \* the list that get works on
    held,           \* self.connection
    conn,           \* the connection being made
    left,           \* remaining_attempts_to_reconnect
    broadcasts,     \* use_broadcast_if_needed
    at,             \* what the client is doing
    chunk,          \* the chunk get has come to
    received,       \* the chunks get has received
    result,         \* how the last call ended
    reached,        \* history: some server answered during this connect
    refused,        \* history: connections to the head of the list that failed in a row
    missed,         \* history: the chunks get was told no location of, or given None last
    faults

servers == <<up, has, faults>>
lists == <<queue, locations>>
getting == <<chunk, received, missed>>
vars == <<servers, lists, held, conn, left, broadcasts, at, getting, result, reached, refused>>

Connection == [server : Servers \cup {Nobody}, live : BOOLEAN]
NoConnection == [server |-> Nobody, live |-> FALSE]
To(s) == [server |-> s, live |-> TRUE]

InList(q) == {q[i] : i \in DOMAIN q}

\* Sequences of different elements of S
Orders(S) ==
    {q \in UNION {[1..n -> S] : n \in 0..Cardinality(S)} : Cardinality(InList(q)) = Len(q)}

Init ==
    /\ up \in SUBSET Servers
    /\ has = [s \in Servers |-> 1..Chunks]
    /\ queue \in Bootstrap
    /\ locations = <<>>
    /\ held = NoConnection /\ conn = NoConnection
    /\ left = Attempts
    /\ broadcasts = FALSE
    /\ at = "idle"
    /\ chunk = 1 /\ received = {} /\ missed = {}
    /\ result = "none"
    /\ reached = FALSE /\ refused = 0
    /\ faults = 0

Ends(r) ==
    /\ at' = "idle"
    /\ result' = r
    /\ conn' = NoConnection
    /\ UNCHANGED <<servers, left, broadcasts>>

-----------------------------------------------------------------------------
(* _ensure_connection, with the queue for connect, with locations for get  *)

List == IF at = "connect" THEN queue ELSE locations

ListBecomes(q) ==
    IF at = "connect" THEN queue' = q /\ UNCHANGED locations
                      ELSE locations' = q /\ UNCHANGED queue

\* The list of locations is the server's: it can be used while the connection lives.
Trying == at = "connect" \/ (at = "dial" /\ held.live)

\* The attempts are not given back.
ReconnectMutant ==
    IF left > 0
    THEN left' = left - 1 /\ UNCHANGED lists
    ELSE left' = left /\ ListBecomes(Tail(List))

\* The head of the list stays.
StayMutant == left' = (IF left > 0 THEN left - 1 ELSE Attempts) /\ UNCHANGED lists

\* One attempt too many.
LateMutant ==
    IF left >= 0
    THEN left' = left - 1 /\ UNCHANGED lists
    ELSE left' = Attempts /\ ListBecomes(Tail(List))

\* _reconnect: another attempt later, or the head of the list is given up.
Reconnect ==
    IF left > 0
    THEN left' = left - 1 /\ UNCHANGED lists
    ELSE left' = Attempts /\ ListBecomes(Tail(List))

\* The head of the list refuses.
Refused ==
    /\ Trying /\ conn = NoConnection /\ List # <<>> /\ Head(List) \notin up
    /\ Reconnect
    /\ refused' = IF left > 0 THEN refused + 1 ELSE 0
    /\ UNCHANGED <<servers, held, conn, broadcasts, at, getting, result, reached>>

\* The head of the list accepts.
Connected ==
    /\ Trying /\ conn = NoConnection /\ List # <<>> /\ Head(List) \in up
    /\ conn' = To(Head(List))
    /\ at' = IF at = "connect" THEN "update" ELSE "fetch"
    /\ reached' = (at = "connect" \/ reached)
    /\ UNCHANGED <<servers, lists, held, left, broadcasts, getting, result, refused>>

\* The list is used up without a connection: IndexError, out of connect or get.
NothingLeft ==
    /\ Trying /\ conn = NoConnection /\ List = <<>> /\ ~(at = "connect" /\ broadcasts)
    /\ Ends("raised")
    /\ UNCHANGED <<lists, held, getting, reached, refused>>

-----------------------------------------------------------------------------
(* connect                                                                 *)

Connect ==
    /\ at = "idle"
    /\ at' = "connect"
    /\ conn' = held
    /\ left' = Attempts
    /\ broadcasts' \in BOOLEAN
    /\ result' = "none"
    /\ reached' = FALSE /\ refused' = 0
    /\ UNCHANGED <<servers, lists, held, getting>>

\* A failed ping is not noticed.
PingMutant ==
    /\ at = "connect" /\ conn # NoConnection /\ queue # <<>>
    /\ conn' = conn /\ at' = "update" /\ reached' = (reached \/ conn.live)
    /\ UNCHANGED <<servers, lists, held, left, broadcasts, getting, result, refused>>

\* The connection there was is pinged.  A failure is charged to the head of the queue,
\* whichever server was pinged.
Ping ==
    /\ at = "connect" /\ conn # NoConnection /\ queue # <<>>
    /\ IF conn.live
       THEN /\ at' = "update" /\ reached' = TRUE
            /\ UNCHANGED <<lists, left, conn>>
       ELSE /\ conn' = NoConnection
            /\ Reconnect
            /\ UNCHANGED <<at, reached>>
    /\ UNCHANGED <<servers, held, broadcasts, getting, result, refused>>

\* No server is known to ping, nor is one looked for: the connection is taken as it is.
NotPinged ==
    /\ at = "connect" /\ conn # NoConnection /\ queue = <<>> /\ ~broadcasts
    /\ at' = "update"
    /\ UNCHANGED <<servers, lists, held, conn, left, broadcasts, getting, result, reached, refused>>

\* broadcast: a server is heard, something else is, or nothing, which raises.
Broadcast ==
    /\ at = "connect" /\ queue = <<>> /\ broadcasts
    /\ \/ /\ \E s \in up : queue' = <<s>>
          /\ UNCHANGED <<conn, at, result, left, broadcasts, servers>>
       \/ /\ at' = "update"
          /\ UNCHANGED <<queue, conn, result, left, broadcasts, servers>>
       \/ /\ Ends("raised")
          /\ UNCHANGED queue
    /\ UNCHANGED <<locations, held, getting, reached, refused>>

\* _update_bootstrap_nodes: the neighbors the server tells are added to the queue, if it
\* still answers, and connect returns.
Update ==
    /\ at = "update"
    /\ IF conn.live
       THEN /\ \E q \in Orders(Servers \ InList(queue)) : queue' = queue \o q
            /\ reached' = TRUE
       ELSE UNCHANGED <<queue, reached>>
    /\ held' = conn
    /\ Ends(IF conn = NoConnection THEN "false" ELSE "true")
    /\ UNCHANGED <<locations, getting, refused>>

-----------------------------------------------------------------------------
(* get                                                                     *)

\* A call over the connection held, which asks for the chunks of the file.
Get ==
    /\ at = "idle" /\ held # NoConnection
    /\ chunk' = 1 /\ received' = {} /\ missed' = {}
    /\ IF held.live
       THEN /\ at' = "locate" /\ result' = "none"
            /\ UNCHANGED <<servers, left, conn, broadcasts>>
       ELSE Ends("lost")
    /\ UNCHANGED <<lists, held, reached, refused>>

NextChunk(got, lacks) ==
    /\ at' = "locate"
    /\ chunk' = chunk + 1
    /\ received' = received \cup got
    /\ missed' = missed \cup lacks

\* get_file_chunk_location answers some servers that give the chunk, or nothing, for those
\* that have it may have stopped or not be found; a server that knows nobody answers itself.
Locate ==
    /\ at = "locate" /\ chunk <= Chunks /\ held.live
    /\ \E q \in Orders({s \in up : chunk \in has[s]}) \cup {<<held.server>>} :
          /\ locations' = q
          /\ IF q = <<>>
             THEN NextChunk({}, {chunk}) /\ UNCHANGED left
             ELSE at' = "dial" /\ left' = Attempts /\ UNCHANGED getting
    /\ refused' = 0
    /\ UNCHANGED <<servers, queue, held, conn, broadcasts, result, reached>>

\* The chunk is passed over.
BrokenMutant ==
    /\ at = "fetch" /\ ~conn.live /\ held.live
    /\ NextChunk({}, {})
    /\ conn' = NoConnection
    /\ left' = Attempts
    /\ UNCHANGED <<servers, lists, held, broadcasts, result, reached, refused>>

\* The connection for the chunk breaks: the same location is tried again.
Broken ==
    /\ at = "fetch" /\ ~conn.live /\ held.live
    /\ at' = "dial"
    /\ conn' = NoConnection
    /\ left' = Attempts
    /\ refused' = 0
    /\ UNCHANGED <<servers, lists, held, broadcasts, getting, result, reached>>

Fetch ==
    /\ at = "fetch" /\ conn.live /\ chunk \in has[conn.server]
    /\ NextChunk({chunk}, {})
    /\ conn' = NoConnection
    /\ UNCHANGED <<servers, lists, held, left, broadcasts, result, reached, refused>>

\* The server has the chunk no more, or not confirmed: the next location, or the next chunk
\* when there is none.
FetchNone ==
    /\ at = "fetch" /\ conn.live /\ chunk \notin has[conn.server] /\ held.live
    /\ locations' = Tail(locations)
    /\ IF Len(locations) > 1
       THEN at' = "dial" /\ UNCHANGED getting
       ELSE NextChunk({}, {chunk})
    /\ conn' = NoConnection
    /\ left' = Attempts
    /\ refused' = 0
    /\ UNCHANGED <<servers, queue, held, broadcasts, result, reached>>

\* What was received is put together.  A file some chunk of which is missing is not one.
Finish ==
    /\ at = "locate" /\ chunk > Chunks /\ held.live
    /\ Ends(CASE received = {} -> "nothing"
              [] received = 1..Chunks -> "whole"
              [] OTHER -> "partial")
    /\ UNCHANGED <<lists, held, getting, reached, refused>>

\* The connection held breaks during get: the lists are gone with it.  Only the call for the
\* locations is in a try.
ListsLost ==
    /\ ~held.live
    /\ \/ /\ at \in {"locate", "dial"} \/ (at = "fetch" /\ ~(conn.live /\ chunk \in has[conn.server]))
          /\ Ends("raised")
       \/ /\ at = "locate" /\ chunk <= Chunks
          /\ Ends("lost")
    /\ UNCHANGED <<lists, held, getting, reached, refused>>

-----------------------------------------------------------------------------
(* Servers                                                                 *)

Breaks(c, s) == IF c.server = s THEN [c EXCEPT !.live = FALSE] ELSE c

Stop(s) ==
    /\ s \in up /\ faults < MaxFaults
    /\ up' = up \ {s}
    /\ held' = Breaks(held, s)
    /\ conn' = Breaks(conn, s)
    /\ faults' = faults + 1
    /\ UNCHANGED <<has, lists, left, broadcasts, at, getting, result, reached, refused>>

Start(s) ==
    /\ s \notin up
    /\ up' = up \cup {s}
    /\ UNCHANGED <<has, faults, lists, held, conn, left, broadcasts, at, getting, result, reached,
                   refused>>

\* A chunk is deleted, or a new upload of it begins.
Lose(s, c) ==
    /\ c \in has[s] /\ faults < MaxFaults
    /\ has' = [has EXCEPT ![s] = @ \ {c}]
    /\ faults' = faults + 1
    /\ UNCHANGED <<up, lists, held, conn, left, broadcasts, at, getting, result, reached, refused>>

Goes ==
    \/ Refused \/ Connected \/ NothingLeft \/ Ping \/ NotPinged \/ Broadcast \/ Update
    \/ Locate \/ Broken \/ Fetch \/ FetchNone \/ Finish \/ ListsLost

Next ==
    \/ Connect \/ Get \/ Goes
    \/ \E s \in Servers : Stop(s) \/ Start(s) \/ \E c \in 1..Chunks : Lose(s, c)

Spec == Init /\ [][Next]_vars
FairSpec == Spec /\ WF_vars(Goes)

-----------------------------------------------------------------------------
(* Properties                                                              *)

\* Every variable has its type.
TypeOK ==
    /\ up \subseteq Servers
    /\ has \in [Servers -> SUBSET (1..Chunks)]
    /\ queue \in Seq(Servers) /\ locations \in Seq(Servers)
    /\ held \in Connection /\ conn \in Connection
    /\ left \in 0..Attempts /\ broadcasts \in BOOLEAN
    /\ at \in {"idle", "connect", "update", "locate", "dial", "fetch"}
    /\ chunk \in 1..(Chunks + 1) /\ received \in SUBSET (1..Chunks)
    /\ result \in {"none", "true", "false", "raised", "lost", "whole", "partial", "nothing"}
    /\ reached \in BOOLEAN /\ missed \in SUBSET (1..Chunks) /\ refused \in 0..Attempts
    /\ faults \in 0..MaxFaults

\* connect gives a server up after attempts_to_reconnect refusals of that server at least,
\* whatever happened to the servers before it in the queue and to the old connection.
GivenUpAfterAttempts ==
    [][at = "connect" /\ Len(queue') < Len(queue)
          => refused + (IF conn = NoConnection THEN 1 ELSE 0) >= Attempts]_vars

\* connect answers True without having reached a server only when the queue is empty, so
\* that nothing made it look at the connection it had.
TrueWhenReachedOrEmpty == result = "true" /\ ~reached => queue = <<>>

\* Of a file that get puts together, or finds nothing of, each chunk was either received, or at
\* its turn no location of it was told, which is so when all that have it have stopped, or the
\* last location gave None.  A chunk once located is not passed over because a connection was
\* refused or broke (client.py:159-190).
OnlyMissingLeftOut ==
    result \in {"whole", "partial", "nothing"} =>
        received \cup missed = 1..Chunks /\ received \cap missed = {}

\* Each connect and each get ends when servers stop failing.
CallsEnd == at # "idle" ~> at = "idle"

\* "It handles errors related to network instability or unexpected node failures"
\* (docs/client): True means that some server answered.
TrueMeansReached == result = "true" => reached

\* connect answers; it does not raise.
ConnectAnswers == [][at = "connect" => result' # "raised"]_vars
=============================================================================
