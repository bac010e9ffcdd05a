-------------------------- MODULE MembershipProofs --------------------------
(* Type correctness of Membership, for any servers, buckets and number of  *)
(* faults: the ids in a table are ids that other servers have taken, and a *)
(* stopped server keeps nothing.                                           *)
EXTENDS Membership, TLAPS

\* Ids that a table of s may hold when the servers have started S times.
Possible(S, s) == {i \in Ids : Home(i) # s /\ i[2] <= S[Home(i)]}

\* A table of such ids.
Holds(r, D) == r \in Tables /\ r.nodes \subseteq D /\ r.spares \subseteq D

\* What is in memory goes with the process.
TablesOK ==
    /\ table = [s \in Servers |-> table[s]]
    /\ \A s \in Servers : Holds(table[s], Possible(starts, s))
    /\ \A s \in Servers : s \notin up => table[s] = Empty

\* A server that runs has started, and but for its first start only after it was stopped.
StartsCounted ==
    /\ starts \in [Servers -> Nat]
    /\ \A s \in Servers :
          /\ s \in up => starts[s] \in 1..(faults + 1)
          /\ s \notin up => starts[s] <= faults

\* No server bootstraps from itself.
HintsOK ==
    /\ hint \in [Threads -> [Servers -> Servers \cup {Nobody}]]
    /\ \A t \in Threads, s \in Servers : hint[t][s] # s

\* The rest of the types.
FlagsOK ==
    /\ up \subseteq Servers /\ side \subseteq Servers
    /\ detect \in [Servers -> {"looks", "listens", "ended"}] /\ refresh \in [Servers -> BOOLEAN]
    /\ faults \in 0..MaxFaults

IInv == FlagsOK /\ StartsCounted /\ HintsOK /\ TablesOK

-----------------------------------------------------------------------------

\* A server that runs has an id that the tables of the others may hold.
LEMMA UpHasId ==
    ASSUME FlagsOK, StartsCounted, NEW s \in up, NEW p \in Servers, p # s
    PROVE  IdOf(s) \in Possible(starts, p)
<1>1. s \in Servers /\ starts[s] \in 1..(MaxFaults + 1)
    BY BoundsAssumption DEF FlagsOK, StartsCounted
<1> QED BY <1>1 DEF IdOf, Ids, Home, Possible

\* Adding and removing leave a table of possible ids.
LEMMA AddedHolds ==
    ASSUME NEW D \in SUBSET Ids, NEW r, Holds(r, D), NEW i \in D, NEW q \in Added(r, i)
    PROVE  Holds(q, D)
<1>1. CASE q = r
    BY <1>1
<1>2. CASE q = [r EXCEPT !.nodes = @ \cup {i}]
    BY <1>2 DEF Holds, Tables
<1>3. CASE q = [r EXCEPT !.nodes = @ \cup {i}, !.split = TRUE]
    BY <1>3 DEF Holds, Tables
<1>4. CASE q = [r EXCEPT !.spares = @ \cup {i}, !.split = TRUE]
    BY <1>4 DEF Holds, Tables
<1> QED BY <1>1, <1>2, <1>3, <1>4 DEF Added

LEMMA RemovedHolds ==
    ASSUME NEW D \in SUBSET Ids, NEW r, Holds(r, D), NEW i, NEW q \in Removed(r, i)
    PROVE  Holds(q, D)
<1> DEFINE left == [r EXCEPT !.nodes = @ \ {i}, !.spares = @ \ {i}]
<1>1. Holds(left, D)
    BY DEF Holds, Tables
<1> HIDE DEF left
<1>2. \A j \in left.spares : Holds([left EXCEPT !.nodes = @ \cup {j}, !.spares = @ \ {j}], D)
    BY <1>1 DEF Holds, Tables
<1>3. q = left \/ \E j \in left.spares : q = [left EXCEPT !.nodes = @ \cup {j}, !.spares = @ \ {j}]
    BY DEF Removed, left
<1> QED BY <1>1, <1>2, <1>3

\* An empty table holds only possible ids.
LEMMA EmptyHolds == \A D : Holds(Empty, D)
BY DEF Holds, Tables, Empty

\* A step after which a server has another table of possible ids.
LEMMA TableChanged ==
    ASSUME TablesOK, NEW s \in up, NEW r, Holds(r, Possible(starts, s)),
           table' = [table EXCEPT ![s] = r], UNCHANGED <<up, starts>>
    PROVE  TablesOK'
<1>1. table' = [p \in Servers |-> IF p = s THEN r ELSE table[p]]
    BY DEF TablesOK
<1>2. table' = [p \in Servers |-> table'[p]]
    BY <1>1
<1>3. \A p \in Servers : Holds(table'[p], Possible(starts, p))
    BY <1>1 DEF TablesOK
<1>4. \A p \in Servers : p \notin up => table'[p] = Empty
    BY <1>1 DEF TablesOK
<1> QED BY <1>2, <1>3, <1>4 DEF TablesOK

\* At the start the servers of Met run and have one another's first ids.
LEMMA InitIInv == Init => IInv
<1> SUFFICES ASSUME Init PROVE IInv
    OBVIOUS
<1> USE DEF Init
<1>1. FlagsOK
    BY ServersAssumption, BoundsAssumption DEF FlagsOK
<1>2. StartsCounted
    BY BoundsAssumption DEF StartsCounted
<1>3. HintsOK
    BY ServersAssumption DEF HintsOK
<1>4. TablesOK
  <2>1. ASSUME NEW s \in Servers PROVE Holds(table[s], Possible(starts, s))
    <3>1. CASE s \in Met
      <4>1. table[s] = [Empty EXCEPT !.nodes = (Met \ {s}) \X {1}]
          BY <3>1
      <4> DEFINE X == (Met \ {s}) \X {1}
      <4>2. X \subseteq Ids
          BY ServersAssumption, BoundsAssumption DEF Ids
      <4>3. \A i \in X : Home(i) # s /\ i[2] = 1 /\ Home(i) \in Met
          BY DEF Home
      <4>4. \A i \in X : i[2] <= starts[Home(i)]
          BY <4>3, ServersAssumption
      <4>5. X \subseteq Possible(starts, s)
          BY <4>2, <4>3, <4>4 DEF Possible
      <4> HIDE DEF X
      <4>6. table[s] = [Empty EXCEPT !.nodes = X]
          BY <4>1 DEF X
      <4>7. Holds([Empty EXCEPT !.nodes = X], Possible(starts, s))
          BY <4>2, <4>5 DEF Holds, Tables, Empty
      <4> QED BY <4>6, <4>7
    <3>2. CASE s \notin Met
        BY <3>2, EmptyHolds
    <3> QED BY <3>1, <3>2
  <2>2. table = [s \in Servers |-> table[s]] /\ \A s \in Servers : s \notin up => table[s] = Empty
      OBVIOUS
  <2> QED BY <2>1, <2>2 DEF TablesOK
<1> QED BY <1>1, <1>2, <1>3, <1>4 DEF IInv

\* Every step preserves the invariant.
LEMMA NextIInv == IInv /\ [Next]_vars => IInv'
<1> SUFFICES ASSUME IInv, [Next]_vars PROVE IInv'
    OBVIOUS
<1> USE BoundsAssumption, ServersAssumption
<1>0. \A s : Possible(starts, s) \subseteq Ids
    BY DEF Possible
<1>1. ASSUME NEW s \in Servers, Start(s) PROVE IInv'
  <2> USE <1>1 DEF IInv, Start
  <2>1. FlagsOK'
      BY DEF FlagsOK
  <2>2. StartsCounted'
      BY DEF FlagsOK, StartsCounted
  <2>3. HintsOK'
      BY DEF FlagsOK, HintsOK, Answers, Threads
  <2>4. TablesOK'
    <3>1. \A p \in Servers : starts[p] \in Nat /\ starts'[p] \in Nat /\ starts[p] <= starts'[p]
        BY DEF StartsCounted
    <3>2. \A i \in Ids : Home(i) \in Servers /\ i[2] \in Nat
        BY DEF Ids, Home
    <3>3. ASSUME NEW p \in Servers, NEW i \in Possible(starts, p) PROVE i \in Possible(starts', p)
      <4>1. i \in Ids /\ Home(i) # p /\ i[2] <= starts[Home(i)]
          BY DEF Possible
      <4>2. i[2] <= starts'[Home(i)]
          BY <3>1, <3>2, <4>1
      <4> QED BY <4>1, <4>2 DEF Possible
    <3>4. \A p \in Servers : Holds(table[p], Possible(starts', p))
        BY <3>3 DEF TablesOK, Holds
    <3>5. table' = table /\ \A p \in Servers : p \notin up' => p \notin up
        OBVIOUS
    <3> QED BY <3>4, <3>5 DEF TablesOK
  <2> QED BY <2>1, <2>2, <2>3, <2>4
<1>2. ASSUME NEW s \in Servers, DetectAlone(s) PROVE IInv'
  <2> USE <1>2 DEF IInv, DetectAlone
  <2>1. FlagsOK' /\ StartsCounted' /\ HintsOK'
      BY DEF FlagsOK, StartsCounted, HintsOK
  <2>2. TablesOK'
      BY DEF TablesOK
  <2> QED BY <2>1, <2>2
<1>3. ASSUME NEW s \in Servers, Hear(s) PROVE IInv'
  <2> USE <1>3 DEF IInv, Hear
  <2>1. FlagsOK' /\ StartsCounted'
      BY DEF FlagsOK, StartsCounted
  <2>2. HintsOK'
      BY DEF HintsOK, Threads
  <2>3. TablesOK'
      BY DEF TablesOK
  <2> QED BY <2>1, <2>2, <2>3
<1>4. ASSUME NEW s \in Servers, NEW t \in Threads, Bootstrap(t, s) PROVE IInv'
  <2> DEFINE p == hint[t][s]
  <2>1. p \in Servers /\ p # s /\ s \in up
      BY <1>4 DEF IInv, HintsOK, Bootstrap
  <2>2. FlagsOK'
      BY <1>4 DEF IInv, FlagsOK, Bootstrap
  <2>3. StartsCounted'
      BY <1>4 DEF IInv, StartsCounted, Bootstrap
  <2>4. HintsOK'
      BY <1>4 DEF IInv, HintsOK, Bootstrap
  <2>5. TablesOK'
    <3>1. CASE Answers(s, p)
      <4>1. p \in up
          BY <3>1 DEF Answers
      <4>2. IdOf(p) \in Possible(starts, s) /\ IdOf(s) \in Possible(starts, p)
          BY <2>1, <4>1, UpHasId DEF IInv
      <4>3. PICK mine \in Added(table[s], IdOf(p)), its \in Added(table[p], IdOf(s)) :
                table' = [table EXCEPT ![s] = mine, ![p] = its]
          BY <1>4, <3>1 DEF Bootstrap
      <4>4. Holds(table[s], Possible(starts, s)) /\ Holds(table[p], Possible(starts, p))
          BY <2>1 DEF IInv, TablesOK
      <4>5. Holds(mine, Possible(starts, s))
          BY <1>0, <4>2, <4>4, AddedHolds
      <4>6. Holds(its, Possible(starts, p))
          BY <1>0, <4>2, <4>4, AddedHolds
      <4>7. UNCHANGED <<up, starts>>
          BY <1>4 DEF Bootstrap
      <4>8. table' = [q \in Servers |-> IF q = p THEN its ELSE IF q = s THEN mine ELSE table[q]]
          BY <4>3, <2>1 DEF IInv, TablesOK
      <4>9. /\ table' = [q \in Servers |-> table'[q]]
            /\ \A q \in Servers : Holds(table'[q], Possible(starts, q))
            /\ \A q \in Servers : q \notin up => table'[q] = Empty
          BY <2>1, <4>1, <4>5, <4>6, <4>8 DEF IInv, TablesOK
      <4> QED BY <4>7, <4>9 DEF TablesOK
    <3>2. CASE ~Answers(s, p)
        BY <1>4, <3>2 DEF IInv, TablesOK, Bootstrap
    <3> QED BY <3>1, <3>2
  <2> QED BY <2>2, <2>3, <2>4, <2>5 DEF IInv
<1>5. ASSUME NEW s \in Servers, NEW i \in Ids, Forget(s, i) PROVE IInv'
  <2>1. FlagsOK' /\ StartsCounted' /\ HintsOK'
      BY <1>5 DEF IInv, Forget, FlagsOK, StartsCounted, HintsOK
  <2>2. PICK r \in Removed(table[s], i) : table' = [table EXCEPT ![s] = r]
      BY <1>5 DEF Forget
  <2>3. Holds(table[s], Possible(starts, s))
      BY DEF IInv, TablesOK
  <2>4. Holds(r, Possible(starts, s))
      BY <1>0, <2>3, RemovedHolds
  <2>5. s \in up /\ UNCHANGED <<up, starts>>
      BY <1>5 DEF Forget
  <2>6. TablesOK'
      BY <2>2, <2>4, <2>5, TableChanged DEF IInv
  <2> QED BY <2>1, <2>6 DEF IInv
<1>6. ASSUME NEW s \in Servers, NEW i \in Ids, NEW j \in Ids, Learn(s, i, j) PROVE IInv'
  <2>1. FlagsOK' /\ StartsCounted' /\ HintsOK'
      BY <1>6 DEF IInv, Learn, FlagsOK, StartsCounted, HintsOK
  <2>2. PICK r \in Added(table[s], j) : table' = [table EXCEPT ![s] = r]
      BY <1>6 DEF Learn
  <2>3. Holds(table[s], Possible(starts, s))
      BY DEF IInv, TablesOK
  <2>4. j \in Possible(starts, s)
    <3>1. Home(i) \in Servers /\ j \in table[Home(i)].nodes /\ Home(j) # s
        BY <1>6 DEF Learn, Ids, Home
    <3> QED BY <3>1 DEF IInv, TablesOK, Holds, Possible
  <2>5. Holds(r, Possible(starts, s))
      BY <1>0, <2>3, <2>4, AddedHolds
  <2>6. s \in up /\ UNCHANGED <<up, starts>>
      BY <1>6 DEF Learn
  <2>7. TablesOK'
      BY <2>2, <2>5, <2>6, TableChanged DEF IInv
  <2> QED BY <2>1, <2>7 DEF IInv
<1>7. ASSUME NEW s \in Servers, RefreshEnds(s) PROVE IInv'
    BY <1>7 DEF IInv, RefreshEnds, FlagsOK, StartsCounted, HintsOK, TablesOK
<1>8. ASSUME NEW s \in Servers, Stop(s) PROVE IInv'
  <2> USE <1>8 DEF IInv, Stop
  <2>1. FlagsOK'
      BY DEF FlagsOK
  <2>2. StartsCounted'
      BY DEF FlagsOK, StartsCounted
  <2>3. HintsOK'
      BY DEF HintsOK
  <2>4. TablesOK'
    <3>1. table' = [p \in Servers |-> IF p = s THEN Empty ELSE table[p]]
        BY DEF TablesOK
    <3>2. /\ table' = [p \in Servers |-> table'[p]]
          /\ \A p \in Servers : Holds(table'[p], Possible(starts, p))
          /\ \A p \in Servers : p \notin up' => table'[p] = Empty
        BY <3>1, EmptyHolds DEF TablesOK
    <3> QED BY <3>2 DEF TablesOK
  <2> QED BY <2>1, <2>2, <2>3, <2>4
<1>9. ASSUME Cut PROVE IInv'
  <2> USE <1>9 DEF IInv, Cut
  <2>1. FlagsOK'
      BY DEF FlagsOK
  <2>2. StartsCounted'
      BY DEF FlagsOK, StartsCounted
  <2>3. HintsOK' /\ TablesOK'
      BY DEF HintsOK, TablesOK
  <2> QED BY <2>1, <2>2, <2>3
<1>10. ASSUME Heal PROVE IInv'
    BY <1>10 DEF IInv, Heal, FlagsOK, StartsCounted, HintsOK, TablesOK
<1>11. ASSUME UNCHANGED vars PROVE IInv'
    BY <1>11 DEF IInv, vars, FlagsOK, StartsCounted, HintsOK, TablesOK
<1> QED BY <1>1, <1>2, <1>3, <1>4, <1>5, <1>6, <1>7, <1>8, <1>9, <1>10, <1>11 DEF Next

\* The servers' variables have their types; the ids in a table are ids that other servers
\* have taken, although servers pass ids on, take new ids, and any heartbeat may be heard
\* (network.py:379-434, protocol.py:316-331, server.py:24-69).
THEOREM TypeCorrect == Spec => []TypeOK
<1>1. IInv => TypeOK
  <2> SUFFICES ASSUME IInv PROVE TypeOK
      OBVIOUS
  <2>1. starts \in [Servers -> 0..(MaxFaults + 1)]
    <3>1. \A s \in Servers : starts[s] \in 0..(MaxFaults + 1)
        BY BoundsAssumption DEF IInv, FlagsOK, StartsCounted
    <3> QED BY <3>1 DEF IInv, StartsCounted
  <2>2. table \in [Servers -> Tables]
      BY DEF IInv, TablesOK, Holds
  <2>3. \A s \in Servers : \A i \in table[s].nodes \cup table[s].spares :
            Home(i) # s /\ i[2] <= starts[Home(i)]
      BY DEF IInv, TablesOK, Holds, Possible
  <2>4. \A s \in Servers : s \notin up => table[s] = Empty
      BY DEF IInv, TablesOK
  <2> QED BY <2>1, <2>2, <2>3, <2>4 DEF IInv, FlagsOK, HintsOK, TypeOK
<1> QED BY <1>1, InitIInv, NextIInv, PTL DEF Spec
=============================================================================
