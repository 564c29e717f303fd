----------------------------- MODULE CrawlerProofs -----------------------------
(***************************************************************************)
(* The crawler's connections and the node table, for every finite set of   *)
(* addresses, whatever the peers do, and any number of rounds and restarts.*)
(***************************************************************************)
EXTENDS Crawler, FiniteSetTheorems, TLAPS

(* The inductive invariant. *)

\* Where a worker that has a connection is.
AtWork == {"verack", "good", "peer", "addr"}

\* Workers are at work in a round, on its addresses; one without a connection has only
\* failed when that was to be.
WorkersOK ==
  \A a \in Addrs :
    /\ worker[a] \notin {"none", "done"} => creep = "round" /\ a \in targets
    /\ worker[a] \in AtWork \cup {"attempt", "dial"} => a \notin Malformed
    /\ worker[a] = "failed" => a \in Malformed \/ a \notin Reachable \cap DefaultPort

\* A connection belongs to the worker of its address and its round, and is shut when that
\* worker is done; the taker has asked it for addresses when the worker waits for them.
ConnOK(c) ==
  /\ c.r <= round
  /\ c.r = round => worker[c.a] \in AtWork \cup {"done"}
  /\ c.shut <=> ~(c.r = round /\ worker[c.a] \in AtWork)
  /\ c.st \in {"open", "acked"} => ~c.shut
  /\ c.asked \/ c.st = "addr" => c.shut \/ worker[c.a] = "addr"
  /\ c.st = "addr" => ~c.asked

Conns(S) == \A c, d \in S : c.a = d.a /\ c.r = d.r => c = d

\* A connection that blocks in a callback, or may still do so.
CanBlock(c) == c.st # "acked" \/ c.asked \/ worker[c.a] \in {"verack", "good", "peer"}

Blocking == {<<c.a, c.r>> : c \in {d \in conns : CanBlock(d)}}

\* Each is paid for by a worker or by a wait that timed out.
Paid == Cardinality(Blocking) <= Cardinality(Engaged) + timeouts

TableOK ==
  \A a \in DOMAIN db : a \notin Malformed /\ (a \in Reachable \cap DefaultPort => ~db[a].dead)

ConnsOK == Conns(conns) /\ \A c \in conns : ConnOK(c)

Inv == TypeOK /\ WorkersOK /\ ConnsOK /\ Paid /\ TableOK

-----------------------------------------------------------------------------
(* Types. *)

NodesOK(f) == DOMAIN f \subseteq Addrs /\ \A a \in DOMAIN f : f[a] \in NodeRec

LEMMA AddressesType ==
  ASSUME NEW f, NodesOK(f), NEW S \in SUBSET Addrs, NEW knows \in BOOLEAN, clock \in Nat
  PROVE  NodesOK(AddAddresses(f, S, knows))
<1> DEFINE D == DOMAIN f \cup (S \cap Routable)
           g == AddAddresses(f, S, knows)
<1>1. NewNode(knows) \in NodeRec
  BY DEF NewNode, NodeRec, Time, Never
<1>2. DOMAIN g = D /\ D \subseteq Addrs
  BY DEF AddAddresses, NodesOK
<1>3. ASSUME NEW a \in D PROVE g[a] \in NodeRec
  <2>1. CASE a \notin DOMAIN f
    <3>1. g[a] = NewNode(knows)
      BY <2>1 DEF AddAddresses
    <3> QED BY <1>1, <3>1
  <2>2. CASE a \in DOMAIN f /\ a \in S \cap Routable
    <3>1. g[a] = [f[a] EXCEPT !.seen = clock]
      BY <2>2 DEF AddAddresses
    <3>2. f[a] \in NodeRec
      BY <2>2 DEF NodesOK
    <3>3. [f[a] EXCEPT !.seen = clock] \in NodeRec
      BY <3>2 DEF NodeRec, Time
    <3> QED BY <3>1, <3>3
  <2>3. CASE a \in DOMAIN f /\ a \notin S \cap Routable
    <3>1. f[a] \in NodeRec /\ g[a] = f[a]
      BY <2>3 DEF AddAddresses, NodesOK
    <3> QED BY <3>1
  <2> QED BY <2>1, <2>2, <2>3
<1> QED BY <1>2, <1>3 DEF NodesOK

LEMMA BootType ==
  ASSUME NEW f, NodesOK(f), clock \in Nat
  PROVE  NodesOK(Boot(f))
  BY AddressesType, ConstantsAssumption DEF Boot, ConstantsAssumption

LEMMA NoNodesType == NodesOK(NoNodes)
  BY DEF NodesOK, NoNodes

LEMMA InitInv == Init => Inv
<1> SUFFICES ASSUME Init PROVE Inv
  OBVIOUS
<1>1. clock \in Nat
  BY ConstantsAssumption DEF Init, Start, ConstantsAssumption
<1>2. NodesOK(nodes) /\ NodesOK(saved)
  BY <1>1, BootType, NoNodesType DEF Init
<1>3. TypeOK
  BY <1>1, <1>2 DEF Init, TypeOK, NodesOK, Time
<1>4. Blocking = {} /\ Engaged = {}
  BY DEF Init, Blocking, Engaged
<1>5. Paid
  BY <1>4, FS_EmptySet DEF Init, Paid
<1> QED BY <1>3, <1>5 DEF Init, Inv, WorkersOK, AtWork, ConnsOK, Conns, TableOK

ConnRecs == [a : Addrs, r : Nat, st : {"open", "verack", "acked", "addr"},
             asked : BOOLEAN, shut : BOOLEAN]

\* What a worker does to its connections leaves them connections.
LEMMA DisconnectType ==
  ASSUME NEW a \in Addrs, conns \subseteq ConnRecs
  PROVE  Disconnect(a) \subseteq ConnRecs
  BY DEF Disconnect, ConnRecs

LEMMA CreepType == TypeOK /\ Creep => TypeOK'
<1> SUFFICES ASSUME TypeOK, Creep PROVE TypeOK'
  OBVIOUS
<1>1. CASE ReadLive
  BY <1>1 DEF ReadLive, TypeOK, mgrVars, workerVars, envVars
<1>2. CASE Scan
  <2>1. targets' \subseteq Addrs /\ bare' \subseteq Addrs
    BY <1>2 DEF Scan, StaleNodes, TypeOK
  <2> QED BY <1>2, <2>1 DEF Scan, TypeOK, mgrVars, workerVars, envVars
<1>3. CASE ClearLive
  <2>1. worker' \in [Addrs -> {"none", "new", "attempt", "dial", "failed", "verack",
                               "good", "peer", "addr", "done"}]
    BY <1>3 DEF ClearLive, TypeOK
  <2>2. verackFrom' \in [Addrs -> SUBSET Addrs] /\ round' \in Nat
    BY <1>3 DEF ClearLive, TypeOK
  <2> QED BY <1>3, <2>1, <2>2 DEF ClearLive, TypeOK, envVars
<1>4. CASE RoundEnds
  BY <1>4 DEF RoundEnds, TypeOK, mgrVars, workerVars, envVars
<1> QED BY <1>1, <1>2, <1>3, <1>4 DEF Creep

LEMMA WorkerType == \A a \in Addrs : TypeOK /\ Worker(a) => TypeOK'
<1> SUFFICES ASSUME NEW a \in Addrs, TypeOK, Worker(a) PROVE TypeOK'
  OBVIOUS
<1> USE DEF Move, creepVars, envVars
<1>1. conns \subseteq ConnRecs /\ NodesOK(nodes)
  BY DEF TypeOK, ConnRecs, NodesOK
<1>2. CASE NewPeerFails(a)
  BY <1>2 DEF NewPeerFails, WorkerOnly, TypeOK, mgrVars
<1>3. CASE Attempt(a)
  <2>1. NodesOK(nodes')
    BY <1>1, <1>3 DEF Attempt, TypeOK, NodesOK, NodeRec, Time
  <2> QED BY <1>3, <2>1 DEF Attempt, TypeOK, NodesOK
<1>4. CASE DialFails(a)
  BY <1>4 DEF DialFails, WorkerOnly, TypeOK, mgrVars
<1>5. CASE Connects(a)
  <2>1. conns' \subseteq ConnRecs
    <3>1. Conn(a, "open") \in ConnRecs
      BY DEF Conn, ConnRecs, TypeOK
    <3> QED BY <1>1, <1>5, <3>1 DEF Connects
  <2> QED BY <1>5, <2>1 DEF Connects, TypeOK, ConnRecs, mgrVars
<1>6. ASSUME NEW c \in conns, RecvVerack(a, c) PROVE TypeOK'
  <2>1. conns' \subseteq ConnRecs
    BY <1>1, <1>6 DEF RecvVerack, Release, ConnRecs
  <2>2. verackFrom' \in [Addrs -> SUBSET Addrs]
    BY <1>1, <1>6 DEF RecvVerack, ConnRecs, TypeOK
  <2> QED BY <1>6, <2>1, <2>2 DEF RecvVerack, TypeOK, ConnRecs, mgrVars
<1>7. ASSUME NEW c \in conns, RecvAddr(a, c) PROVE TypeOK'
  <2>1. conns' \subseteq ConnRecs
    <3>1. [c EXCEPT !.st = "acked"] \in ConnRecs
      BY <1>1 DEF ConnRecs
    <3>2. Disconnect(a) \subseteq ConnRecs
      BY <1>1, DisconnectType
    <3> QED BY <1>7, <3>1, <3>2 DEF RecvAddr
  <2> QED BY <1>7, <2>1 DEF RecvAddr, TypeOK, ConnRecs, mgrVars
<1>8. CASE Good(a)
  <2> DEFINE known == IF a \in DOMAIN nodes THEN nodes ELSE AddAddresses(nodes, {a}, FALSE)
  <2>1. NodesOK(known)
    BY <1>1, AddressesType DEF TypeOK, Time
  <2>2. nodes' = [b \in DOMAIN known |->
                    IF b = a THEN [known[b] EXCEPT !.success = clock] ELSE known[b]]
    BY <1>8 DEF Good
  <2> HIDE DEF known
  <2>3. NodesOK(nodes')
    BY <2>1, <2>2 DEF TypeOK, NodesOK, NodeRec, Time
  <2> QED BY <1>8, <2>3 DEF Good, TypeOK, NodesOK
<1>9. CASE Timeout(a)
  <2>1. conns' \subseteq ConnRecs
    BY <1>1, <1>9, DisconnectType DEF Timeout
  <2> QED BY <1>9, <2>1 DEF Timeout, TypeOK, ConnRecs, mgrVars
<1> QED BY <1>2, <1>3, <1>4, <1>5, <1>6, <1>7, <1>8, <1>9 DEF Worker

LEMMA RemoteType == TypeOK /\ Remote => TypeOK'
<1> SUFFICES ASSUME TypeOK, NEW c \in conns,
                    RemoteVerack(c) \/ \E S \in SUBSET Addrs : OnAddr(c, S)
             PROVE  TypeOK'
  BY DEF Remote
<1>1. conns \subseteq ConnRecs /\ NodesOK(nodes)
  BY DEF TypeOK, ConnRecs, NodesOK
<1>2. CASE RemoteVerack(c)
  <2>1. conns' \subseteq ConnRecs
    BY <1>1, <1>2 DEF RemoteVerack, ConnRecs
  <2> QED BY <1>2, <2>1 DEF RemoteVerack, TypeOK, ConnRecs, mgrVars, creepVars, envVars
<1>3. ASSUME NEW S \in SUBSET Addrs, OnAddr(c, S) PROVE TypeOK'
  <2>1. conns' \subseteq ConnRecs
    BY <1>1, <1>3 DEF OnAddr, ConnRecs
  <2>2. NodesOK(nodes')
    BY <1>1, <1>3, AddressesType DEF OnAddr, TypeOK, Time
  <2> QED BY <1>3, <2>1, <2>2 DEF OnAddr, TypeOK, ConnRecs, NodesOK, creepVars, envVars
<1> QED BY <1>2, <1>3

LEMMA ServeType == \A a \in Addrs : TypeOK /\ Serve(a) => TypeOK'
<1> SUFFICES ASSUME NEW a \in Addrs, TypeOK, Serve(a) PROVE TypeOK'
  OBVIOUS
<1> USE DEF Move, mgrVars, creepVars, envVars
<1>1. CASE TakeAttempt(a)
  BY <1>1 DEF TakeAttempt, WorkerOnly, TypeOK
<1>2. ASSUME NEW ok \in BOOLEAN, TakePeer(a, ok) PROVE TypeOK'
  <2>1. conns' \subseteq ConnRecs
    <3>1. \A c \in conns : c \in ConnRecs /\ [c EXCEPT !.asked = TRUE] \in ConnRecs
      BY DEF TypeOK, ConnRecs
    <3> QED BY <1>2, <3>1 DEF TakePeer
  <2>2. DOMAIN db' \subseteq Addrs /\ \A b \in DOMAIN db' : db'[b] \in [fails : Nat, dead : BOOLEAN]
    BY <1>2 DEF TakePeer, TypeOK, Alive
  <2> QED BY <1>2, <2>1, <2>2 DEF TakePeer, TypeOK, ConnRecs
<1>3. ASSUME NEW ok \in BOOLEAN, TakeFailure(a, ok) PROVE TypeOK'
  <2>1. DOMAIN db' \subseteq Addrs /\ \A b \in DOMAIN db' : db'[b] \in [fails : Nat, dead : BOOLEAN]
    BY <1>3, ConstantsAssumption DEF TakeFailure, TypeOK, Failed, ConstantsAssumption
  <2> QED BY <1>3, <2>1 DEF TakeFailure, TypeOK
<1> QED BY <1>1, <1>2, <1>3 DEF Serve

LEMMA NextType == TypeOK /\ [Next]_vars => TypeOK'
<1> SUFFICES ASSUME TypeOK, [Next]_vars PROVE TypeOK'
  OBVIOUS
<1> USE DEF mgrVars, creepVars, workerVars
<1>1. CASE Tick
  BY <1>1 DEF Tick, TypeOK, Time
<1>2. CASE Taker
  BY <1>2 DEF Taker, TakerStops, loadLiveNodes, TypeOK, envVars
<1>3. CASE Handler
  <2>1. CASE prunePeers
    BY <2>1 DEF prunePeers, TypeOK, envVars
  <2>2. CASE savePeers
    BY <2>2 DEF savePeers, TypeOK
  <2> QED BY <1>3, <2>1, <2>2 DEF Handler
<1>4. ASSUME NEW intact \in BOOLEAN, Restart(intact) PROVE TypeOK'
  <2>1. NodesOK(saved')
    BY <1>4, NoNodesType DEF Restart, TypeOK, NodesOK
  <2>2. NodesOK(nodes')
    BY <1>4, <2>1, BootType DEF Restart, TypeOK, Time
  <2> QED BY <1>4, <2>1, <2>2 DEF Restart, TypeOK, NodesOK
<1>5. CASE UNCHANGED vars
  BY <1>5 DEF vars, TypeOK, envVars
<1> QED BY <1>1, <1>2, <1>3, <1>4, <1>5, CreepType, WorkerType, RemoteType, ServeType DEF Next

-----------------------------------------------------------------------------
(* The workers and the node table. *)

\* Only a worker at work moves, and within the round.
LEMMA MoveOK ==
  ASSUME TypeOK, WorkersOK, NEW a \in Addrs, NEW from, NEW to, Move(a, from, to),
         from \notin {"none", "done"}, UNCHANGED creepVars,
         to \in AtWork \cup {"attempt", "dial"} => a \notin Malformed,
         to = "failed" => a \in Malformed \/ a \notin Reachable \cap DefaultPort
  PROVE  WorkersOK'
<1>1. creep = "round" /\ a \in targets
  BY DEF Move, WorkersOK
<1>2. ASSUME NEW b \in Addrs, b # a PROVE worker'[b] = worker[b]
  BY <1>2 DEF Move, TypeOK
<1>3. worker'[a] = to
  BY DEF Move, TypeOK
<1> QED BY <1>1, <1>2, <1>3 DEF WorkersOK, creepVars

LEMMA WorkerWorkers == \A a \in Addrs : TypeOK /\ WorkersOK /\ Worker(a) => WorkersOK'
<1> SUFFICES ASSUME NEW a \in Addrs, TypeOK, WorkersOK, Worker(a) PROVE WorkersOK'
  OBVIOUS
<1> USE DEF AtWork
<1>1. worker[a] \in AtWork \cup {"attempt", "dial"} => a \notin Malformed
  BY DEF WorkersOK
<1>2. CASE NewPeerFails(a)
  BY <1>2, MoveOK DEF NewPeerFails, WorkerOnly
<1>3. CASE Attempt(a)
  BY <1>3, MoveOK DEF Attempt
<1>4. CASE DialFails(a)
  BY <1>4, MoveOK DEF DialFails, PortRight, WorkerOnly
<1>5. CASE Connects(a)
  BY <1>1, <1>5, MoveOK DEF Connects, Move
<1>6. ASSUME NEW c \in conns, RecvVerack(a, c) PROVE WorkersOK'
  BY <1>1, <1>6, MoveOK DEF RecvVerack, Move
<1>7. ASSUME NEW c \in conns, RecvAddr(a, c) PROVE WorkersOK'
  BY <1>7, MoveOK DEF RecvAddr
<1>8. CASE Good(a)
  BY <1>1, <1>8, MoveOK DEF Good, Move
<1>9. CASE Timeout(a)
  BY <1>9, MoveOK DEF Timeout
<1> QED BY <1>2, <1>3, <1>4, <1>5, <1>6, <1>7, <1>8, <1>9 DEF Worker

LEMMA ServeWorkers == \A a \in Addrs : TypeOK /\ WorkersOK /\ Serve(a) => WorkersOK'
<1> SUFFICES ASSUME NEW a \in Addrs, TypeOK, WorkersOK, Serve(a) PROVE WorkersOK'
  OBVIOUS
<1> USE DEF AtWork
<1>1. worker[a] \in AtWork \cup {"attempt", "dial"} => a \notin Malformed
  BY DEF WorkersOK
<1>2. CASE TakeAttempt(a)
  BY <1>1, <1>2, MoveOK DEF TakeAttempt, WorkerOnly, Move
<1>3. ASSUME NEW ok \in BOOLEAN, TakePeer(a, ok) PROVE WorkersOK'
  BY <1>1, <1>3, MoveOK DEF TakePeer, Move
<1>4. ASSUME NEW ok \in BOOLEAN, TakeFailure(a, ok) PROVE WorkersOK'
  BY <1>4, MoveOK DEF TakeFailure
<1> QED BY <1>2, <1>3, <1>4 DEF Serve

LEMMA CreepWorkers == TypeOK /\ WorkersOK /\ Creep => WorkersOK'
<1> SUFFICES ASSUME TypeOK, WorkersOK, Creep PROVE WorkersOK'
  OBVIOUS
<1> USE DEF WorkersOK, AtWork
<1>1. CASE ReadLive
  BY <1>1 DEF ReadLive, workerVars
<1>2. CASE Scan
  BY <1>2 DEF Scan, workerVars
<1>3. CASE ClearLive
  BY <1>3 DEF ClearLive, TypeOK
<1>4. CASE RoundEnds
  BY <1>4 DEF RoundEnds, workerVars
<1> QED BY <1>1, <1>2, <1>3, <1>4 DEF Creep

LEMMA NextWorkers == TypeOK /\ WorkersOK /\ [Next]_vars => WorkersOK'
<1> SUFFICES ASSUME TypeOK, WorkersOK, [Next]_vars PROVE WorkersOK'
  OBVIOUS
<1> USE DEF WorkersOK, AtWork, creepVars, workerVars
<1>1. CASE Tick
  BY <1>1 DEF Tick
<1>2. CASE Remote
  BY <1>2 DEF Remote, RemoteVerack, OnAddr
<1>3. CASE Taker
  BY <1>3 DEF Taker, TakerStops, loadLiveNodes
<1>4. CASE Handler
  BY <1>4 DEF Handler, prunePeers, savePeers
<1>5. ASSUME NEW intact \in BOOLEAN, Restart(intact) PROVE WorkersOK'
  BY <1>5 DEF Restart
<1>6. CASE UNCHANGED vars
  BY <1>6 DEF vars
<1> QED BY <1>1, <1>2, <1>3, <1>4, <1>5, <1>6, WorkerWorkers, ServeWorkers, CreepWorkers DEF Next

LEMMA NextTable == TypeOK /\ WorkersOK /\ TableOK /\ [Next]_vars => TableOK'
<1> SUFFICES ASSUME TypeOK, WorkersOK, TableOK, [Next]_vars PROVE TableOK'
  OBVIOUS
<1>1. ASSUME UNCHANGED db PROVE TableOK'
  BY <1>1 DEF TableOK
<1>2. ASSUME NEW a \in Addrs, NEW ok \in BOOLEAN, TakePeer(a, ok) PROVE TableOK'
  <2>1. a \notin Malformed
    BY <1>2 DEF TakePeer, Move, WorkersOK, AtWork
  <2> QED BY <1>2, <2>1 DEF TakePeer, TableOK, Alive
<1>3. ASSUME NEW a \in Addrs, NEW ok \in BOOLEAN, TakeFailure(a, ok) PROVE TableOK'
  <2>1. a \in Malformed \/ a \notin Reachable \cap DefaultPort
    BY <1>3 DEF TakeFailure, Move, WorkersOK
  <2>2. DOMAIN db' = DOMAIN db /\ \A b \in DOMAIN db : b # a => db'[b] = db[b]
    BY <1>3 DEF TakeFailure
  <2> QED BY <2>1, <2>2 DEF TableOK
<1>4. CASE Tick
  BY <1>1, <1>4 DEF Tick
<1>5. CASE Creep
  BY <1>1, <1>5 DEF Creep, ReadLive, Scan, ClearLive, RoundEnds
<1>6. CASE Remote
  BY <1>1, <1>6 DEF Remote, RemoteVerack, OnAddr
<1>7. CASE Taker
  BY <1>1, <1>7 DEF Taker, TakerStops, loadLiveNodes
<1>8. CASE Handler
  BY <1>1, <1>8 DEF Handler, prunePeers, savePeers
<1>9. ASSUME NEW a \in Addrs, Worker(a) PROVE TableOK'
  BY <1>1, <1>9 DEF Worker, NewPeerFails, Attempt, DialFails, Connects, RecvVerack, RecvAddr,
                    Good, Timeout, WorkerOnly
<1>10. ASSUME NEW a \in Addrs, Serve(a) PROVE TableOK'
  BY <1>1, <1>2, <1>3, <1>10 DEF Serve, TakeAttempt, WorkerOnly
<1>11. ASSUME NEW intact \in BOOLEAN, Restart(intact) PROVE TableOK'
  BY <1>1, <1>11 DEF Restart
<1>12. CASE UNCHANGED vars
  BY <1>1, <1>12 DEF vars
<1> QED BY <1>4, <1>5, <1>6, <1>7, <1>8, <1>9, <1>10, <1>11, <1>12 DEF Next

-----------------------------------------------------------------------------
(* The connections, and what pays for the blocked ones. *)

\* A bill stays paid when it does not grow, and when a wait that timed out or another
\* worker pays for what is added, or for the worker that leaves.
LEMMA PaidStep ==
  ASSUME NEW B, NEW E, NEW t \in Nat, NEW B2, NEW E2, NEW t2 \in Nat,
         IsFiniteSet(B), IsFiniteSet(E), Cardinality(B) <= Cardinality(E) + t,
         \/ B2 \subseteq B /\ E2 = E /\ t2 = t
         \/ B2 \subseteq B /\ t2 = t + 1 /\ \E a : E2 = E \ {a}
         \/ t2 = t /\ (\E x : B2 \subseteq B \cup {x}) /\ (\E a : a \notin E /\ E2 = E \cup {a})
         \/ t2 = t /\ (\E x \in B : B2 \subseteq B \ {x}) /\ (\E a : E2 = E \ {a})
  PROVE  Cardinality(B2) <= Cardinality(E2) + t2
<1>1. Cardinality(B) \in Nat /\ Cardinality(E) \in Nat
  BY FS_CardinalityType
<1>2. ASSUME B2 \subseteq B PROVE Cardinality(B2) \in Nat /\ Cardinality(B2) <= Cardinality(B)
  <2>1. B2 \in SUBSET B
    BY <1>2
  <2>2. IsFiniteSet(B2) /\ Cardinality(B2) <= Cardinality(B)
    BY <2>1, FS_Subset
  <2> QED BY <2>2, FS_CardinalityType
<1>3. ASSUME NEW a, E2 = E \ {a}
      PROVE  Cardinality(E2) \in Nat /\ Cardinality(E2) >= Cardinality(E) - 1
  <2>1. IsFiniteSet(E2) /\ Cardinality(E2) = IF a \in E THEN Cardinality(E) - 1 ELSE Cardinality(E)
    BY <1>3, FS_RemoveElement
  <2>2. Cardinality(E2) \in Nat
    BY <2>1, FS_CardinalityType
  <2> QED BY <1>1, <2>1, <2>2
<1>4. CASE B2 \subseteq B /\ E2 = E /\ t2 = t
  BY <1>1, <1>2, <1>4
<1>5. ASSUME B2 \subseteq B, t2 = t + 1, NEW a, E2 = E \ {a}
      PROVE  Cardinality(B2) <= Cardinality(E2) + t2
  <2>1. Cardinality(B2) \in Nat /\ Cardinality(B2) <= Cardinality(B)
    BY <1>2, <1>5
  <2>2. Cardinality(E2) \in Nat /\ Cardinality(E2) >= Cardinality(E) - 1
    BY <1>3, <1>5
  <2> QED BY <1>1, <1>5, <2>1, <2>2
<1>6. ASSUME t2 = t, NEW x, B2 \subseteq B \cup {x}, NEW a, a \notin E, E2 = E \cup {a}
      PROVE  Cardinality(B2) <= Cardinality(E2) + t2
  <2>1. Cardinality(E2) = Cardinality(E) + 1
    BY <1>6, FS_AddElement
  <2>2. IsFiniteSet(B \cup {x}) /\ Cardinality(B \cup {x}) <= Cardinality(B) + 1
    <3>1. IsFiniteSet(B \cup {x})
          /\ Cardinality(B \cup {x}) = IF x \in B THEN Cardinality(B) ELSE Cardinality(B) + 1
      BY FS_AddElement
    <3> QED BY <1>1, <3>1
  <2>3. B2 \in SUBSET (B \cup {x})
    BY <1>6
  <2>4. IsFiniteSet(B2) /\ Cardinality(B2) <= Cardinality(B \cup {x})
    BY <2>2, <2>3, FS_Subset
  <2>5. Cardinality(B2) \in Nat /\ Cardinality(B \cup {x}) \in Nat
    BY <2>2, <2>4, FS_CardinalityType
  <2> QED BY <1>1, <1>6, <2>1, <2>2, <2>4, <2>5
<1>7. ASSUME t2 = t, NEW x \in B, B2 \subseteq B \ {x}, NEW a, E2 = E \ {a}
      PROVE  Cardinality(B2) <= Cardinality(E2) + t2
  <2>1. IsFiniteSet(B \ {x}) /\ Cardinality(B \ {x}) = Cardinality(B) - 1
    BY FS_RemoveElement
  <2>2. B2 \in SUBSET (B \ {x})
    BY <1>7
  <2>3. IsFiniteSet(B2) /\ Cardinality(B2) <= Cardinality(B \ {x})
    BY <2>1, <2>2, FS_Subset
  <2>4. Cardinality(B2) \in Nat
    BY <2>3, FS_CardinalityType
  <2>5. Cardinality(E2) \in Nat /\ Cardinality(E2) >= Cardinality(E) - 1
    BY <1>3, <1>7
  <2> QED BY <1>1, <1>7, <2>1, <2>3, <2>4, <2>5
<1> QED BY <1>4, <1>5, <1>6, <1>7

\* Both sides of the bill are finite.
LEMMA Finite ==
  ASSUME TypeOK, ConnsOK
  PROVE  IsFiniteSet(Blocking) /\ IsFiniteSet(Engaged)
<1>1. IsFiniteSet(0..round)
  BY FS_Interval DEF TypeOK
<1>2. IsFiniteSet(Addrs \X (0..round))
  BY <1>1, FS_Product, ConstantsAssumption DEF ConstantsAssumption
<1>3. Blocking \in SUBSET (Addrs \X (0..round))
  BY DEF Blocking, TypeOK, ConnsOK, ConnOK
<1>4. Engaged \in SUBSET Addrs
  BY DEF Engaged
<1>5. IsFiniteSet(Blocking)
  BY <1>2, <1>3, FS_Subset
<1>6. IsFiniteSet(Engaged)
  BY <1>4, FS_Subset, ConstantsAssumption DEF ConstantsAssumption
<1> QED BY <1>5, <1>6

\* Steps that leave the workers and the connections alone.
LEMMA Quiet ==
  ASSUME ConnsOK, Paid, UNCHANGED <<worker, conns, round, timeouts>>
  PROVE  ConnsOK' /\ Paid'
<1>1. Blocking' = Blocking /\ Engaged' = Engaged
  BY DEF Blocking, CanBlock, Engaged
<1> QED BY <1>1 DEF ConnsOK, Conns, ConnOK, Paid

\* Steps of a worker before it has a connection, or after.
LEMMA Outside ==
  ASSUME TypeOK, ConnsOK, Paid, NEW a \in Addrs, NEW from, NEW to, Move(a, from, to),
         UNCHANGED <<conns, round, timeouts>>,
         \/ from \notin AtWork \cup {"done"} /\ to \notin AtWork
         \/ from = "good" /\ to = "peer"
  PROVE  ConnsOK' /\ Paid'
<1> USE DEF AtWork
<1>1. \A b \in Addrs : worker'[b] = IF b = a THEN to ELSE worker[b]
  BY DEF Move, TypeOK
<1>2. worker[a] = from
  BY DEF Move
<1>3. \A c \in conns : c.a \in Addrs
  BY DEF TypeOK
<1>4. Engaged' = Engaged
  BY <1>1, <1>2 DEF Engaged
<1>5. Blocking' \subseteq Blocking
  BY <1>1, <1>2, <1>3 DEF Blocking, CanBlock
<1>6. \A c \in conns : ConnOK(c)'
  BY <1>1, <1>2, <1>3 DEF ConnsOK, ConnOK
<1>7. Paid'
  BY <1>4, <1>5, PaidStep, Finite DEF Paid, TypeOK
<1> QED BY <1>6, <1>7 DEF ConnsOK, Conns

LEMMA ConnectsOK ==
  ASSUME TypeOK, ConnsOK, Paid, NEW a \in Addrs, Connects(a)
  PROVE  ConnsOK' /\ Paid'
<1> USE DEF AtWork
<1>0. PICK n : n = Conn(a, "open")
  OBVIOUS
<1>1. /\ worker[a] = "dial" /\ \A b \in Addrs : worker'[b] = IF b = a THEN "verack" ELSE worker[b]
      /\ conns' = conns \cup {n} /\ UNCHANGED <<round, timeouts>>
  BY <1>0 DEF Connects, Move, TypeOK, creepVars
<1>2. n.a = a /\ n.r = round /\ n.st = "open" /\ ~n.asked /\ ~n.shut
  BY <1>0 DEF Conn
<1>3. \A c \in conns : c.a \in Addrs /\ ~(c.a = a /\ c.r = round)
  BY <1>1 DEF TypeOK, ConnsOK, ConnOK
<1>4. Conns(conns')
  BY <1>1, <1>2, <1>3 DEF ConnsOK, Conns
<1>5. \A c \in conns : ConnOK(c)'
  BY <1>1, <1>3 DEF ConnsOK, ConnOK
<1>6. ConnOK(n)'
  BY <1>1, <1>2 DEF ConnOK, TypeOK
<1>7. Engaged' = Engaged \cup {a} /\ a \notin Engaged
  BY <1>1 DEF Engaged
<1>8. \A c \in conns : CanBlock(c)' => CanBlock(c)
  BY <1>1, <1>3 DEF CanBlock, ConnsOK, ConnOK
<1>9. Blocking' \subseteq Blocking \cup {<<a, round>>}
  BY <1>1, <1>2, <1>8 DEF Blocking
<1>10. Paid'
  BY <1>1, <1>7, <1>9, PaidStep, Finite DEF Paid, TypeOK
<1> QED BY <1>1, <1>4, <1>5, <1>6, <1>10 DEF ConnsOK

LEMMA RecvVerackOK ==
  ASSUME TypeOK, ConnsOK, Paid, NEW a \in Addrs, NEW c \in conns, RecvVerack(a, c)
  PROVE  ConnsOK' /\ Paid'
<1> USE DEF AtWork
<1> DEFINE n == [c EXCEPT !.st = "acked"]
<1>1. /\ worker[a] = "verack" /\ \A b \in Addrs : worker'[b] = IF b = a THEN "good" ELSE worker[b]
      /\ c.st = "verack" /\ UNCHANGED <<round, timeouts>>
  BY DEF RecvVerack, Move, TypeOK, creepVars
<1>2. conns' \subseteq (conns \ {c}) \cup {n} /\ (n \in conns' => ~c.shut \/ n \in conns \ {c})
  BY DEF RecvVerack, Release
<1>3. /\ n.a = c.a /\ n.r = c.r /\ n.st = "acked" /\ n.asked = c.asked /\ n.shut = c.shut
  BY DEF TypeOK
<1> HIDE DEF n
<1>4. \A d \in conns : d.a \in Addrs /\ (d.a = c.a /\ d.r = c.r => d = c)
  BY DEF TypeOK, ConnsOK, Conns
<1>5. Conns(conns')
  BY <1>2, <1>3, <1>4 DEF ConnsOK, Conns
<1>6. \A d \in conns : ConnOK(d)'
  BY <1>1, <1>4 DEF ConnsOK, ConnOK
<1>7. n \in conns' => ConnOK(n)'
  BY <1>1, <1>2, <1>3, <1>4, <1>6 DEF ConnsOK, ConnOK
<1>8. Engaged' = Engaged
  BY <1>1 DEF Engaged
<1>9. CanBlock(c) /\ \A d \in conns : CanBlock(d)' => CanBlock(d)
  BY <1>1, <1>4 DEF CanBlock
<1>10. Blocking' \subseteq Blocking
  BY <1>2, <1>3, <1>9 DEF Blocking
<1>11. Paid'
  BY <1>1, <1>8, <1>10, PaidStep, Finite DEF Paid, TypeOK
<1> QED BY <1>2, <1>5, <1>6, <1>7, <1>11 DEF ConnsOK

\* What Disconnect leaves of the connections of a's round.
LEMMA DisconnectOK ==
  ASSUME TypeOK, NEW a \in Addrs, NEW d \in Disconnect(a)
  PROVE  \E e \in conns :
           /\ d.a = e.a /\ d.r = e.r /\ d.st = e.st /\ d.asked = e.asked
           /\ IsConn(e, a) => d.shut /\ d.st \in {"verack", "addr"}
           /\ ~IsConn(e, a) => d = e
<1>1. PICK e \in conns : /\ ~(IsConn(e, a) /\ e.st \in {"open", "acked"})
                         /\ d = IF IsConn(e, a) THEN [e EXCEPT !.shut = TRUE] ELSE e
  BY DEF Disconnect
<1>2. e \in ConnRecs
  BY DEF TypeOK, ConnRecs
<1> QED BY <1>1, <1>2 DEF ConnRecs

\* A key of the connections that are left belongs to one of them.
LEMMA DisconnectConns ==
  ASSUME TypeOK, ConnsOK, NEW a \in Addrs
  PROVE  Conns(Disconnect(a))
<1> SUFFICES ASSUME NEW d \in Disconnect(a), NEW e \in Disconnect(a), d.a = e.a, d.r = e.r
             PROVE  d = e
  BY DEF Conns
<1>1. PICK x \in conns : d = IF IsConn(x, a) THEN [x EXCEPT !.shut = TRUE] ELSE x
  BY DEF Disconnect
<1>2. PICK y \in conns : e = IF IsConn(y, a) THEN [y EXCEPT !.shut = TRUE] ELSE y
  BY DEF Disconnect
<1>3. x \in ConnRecs /\ y \in ConnRecs
  BY DEF TypeOK, ConnRecs
<1>4. d.a = x.a /\ d.r = x.r /\ e.a = y.a /\ e.r = y.r
  BY <1>1, <1>2, <1>3 DEF ConnRecs
<1>5. x = y
  BY <1>4 DEF ConnsOK, Conns
<1> QED BY <1>1, <1>2, <1>5

LEMMA TimeoutOK ==
  ASSUME TypeOK, ConnsOK, Paid, NEW a \in Addrs, Timeout(a)
  PROVE  ConnsOK' /\ Paid'
<1> USE DEF AtWork
<1>1. /\ worker[a] \in {"verack", "addr"}
      /\ \A b \in Addrs : worker'[b] = IF b = a THEN "done" ELSE worker[b]
      /\ conns' = Disconnect(a) /\ round' = round /\ timeouts' = timeouts + 1
  BY DEF Timeout, Move, TypeOK, creepVars
<1>2. Conns(conns')
  BY <1>1, DisconnectConns
<1>3. ASSUME NEW d \in conns'
      PROVE  ConnOK(d)' /\ (CanBlock(d)' => <<d.a, d.r>> \in Blocking)
  <2>1. PICK e \in conns :
          /\ d.a = e.a /\ d.r = e.r /\ d.st = e.st /\ d.asked = e.asked
          /\ IsConn(e, a) => d.shut /\ d.st \in {"verack", "addr"}
          /\ ~IsConn(e, a) => d = e
    BY <1>1, DisconnectOK
  <2>2. ConnOK(e) /\ e.a \in Addrs
    BY DEF ConnsOK, TypeOK
  <2>3. ConnOK(d)'
    BY <1>1, <2>1, <2>2 DEF ConnOK, IsConn
  <2>4. CanBlock(d)' => CanBlock(e)
    BY <1>1, <2>1, <2>2 DEF CanBlock
  <2> QED BY <2>1, <2>3, <2>4 DEF Blocking
<1>4. Blocking' \subseteq Blocking
  BY <1>3 DEF Blocking
<1>5. Engaged' = Engaged \ {a}
  BY <1>1 DEF Engaged
<1>6. Paid'
  <2>1. IsFiniteSet(Blocking) /\ IsFiniteSet(Engaged)
    BY Finite
  <2>2. timeouts \in Nat /\ timeouts' \in Nat /\ timeouts' = timeouts + 1
    BY <1>1 DEF TypeOK
  <2> QED BY <1>4, <1>5, <2>1, <2>2, PaidStep DEF Paid
<1> QED BY <1>2, <1>3, <1>6 DEF ConnsOK

LEMMA RecvAddrOK ==
  ASSUME TypeOK, ConnsOK, Paid, NEW a \in Addrs, NEW c \in conns, RecvAddr(a, c)
  PROVE  ConnsOK' /\ Paid'
<1> USE DEF AtWork
<1>0. PICK n : n = [c EXCEPT !.st = "acked"]
  OBVIOUS
<1>1. /\ worker[a] = "addr" /\ \A b \in Addrs : worker'[b] = IF b = a THEN "done" ELSE worker[b]
      /\ c.st = "addr" /\ UNCHANGED <<round, timeouts>>
  BY DEF RecvAddr, Move, TypeOK, creepVars
<1>2. /\ \A d \in conns' \ {n} : d \in Disconnect(a) /\ ~(d.a = c.a /\ d.r = c.r)
      /\ n \in conns' => \/ ~c.shut /\ ~IsConn(c, a)
                         \/ n \in Disconnect(a) /\ ~(n.a = c.a /\ n.r = c.r)
  <2>1. conns' = {d \in Disconnect(a) : ~(d.a = c.a /\ d.r = c.r)}
                   \cup (IF c.shut \/ IsConn(c, a) THEN {} ELSE {n})
    BY <1>0 DEF RecvAddr
  <2>2. \A d \in conns' : \/ d \in Disconnect(a) /\ ~(d.a = c.a /\ d.r = c.r)
                          \/ d = n /\ ~(c.shut \/ IsConn(c, a))
    BY <2>1
  <2> QED BY <2>2
<1>3. n.a = c.a /\ n.r = c.r /\ n.st = "acked" /\ n.asked = c.asked /\ n.shut = c.shut
  BY <1>0 DEF TypeOK
<1>4. ASSUME NEW d \in conns' \ {n}
      PROVE  ConnOK(d)' /\ (CanBlock(d)' => <<d.a, d.r>> \in Blocking \ {<<c.a, c.r>>})
  <2>1. PICK e \in conns :
          /\ d.a = e.a /\ d.r = e.r /\ d.st = e.st /\ d.asked = e.asked
          /\ IsConn(e, a) => d.shut /\ d.st \in {"verack", "addr"}
          /\ ~IsConn(e, a) => d = e
    BY <1>2, DisconnectOK
  <2>2. ConnOK(e) /\ e.a \in Addrs
    BY DEF ConnsOK, TypeOK
  <2>3. ConnOK(d)'
    BY <1>1, <2>1, <2>2 DEF ConnOK, IsConn
  <2>4. CanBlock(d)' => CanBlock(e)
    BY <1>1, <2>1, <2>2 DEF CanBlock
  <2>5. ~(d.a = c.a /\ d.r = c.r)
    BY <1>2
  <2> QED BY <2>1, <2>3, <2>4, <2>5 DEF Blocking
<1>5. ASSUME n \in conns' PROVE ConnOK(n)' /\ ~CanBlock(n)'
  <2>1. ~c.shut /\ ~IsConn(c, a)
    BY <1>2, <1>3, <1>5
  <2>2. ConnOK(c) /\ c.a \in Addrs
    BY DEF ConnsOK, TypeOK
  <2>3. c.r = round /\ worker[c.a] = "addr" /\ ~c.asked /\ c.a # a
    BY <1>1, <2>1, <2>2 DEF ConnOK, IsConn
  <2>4. worker'[c.a] = "addr"
    BY <1>1, <2>2, <2>3
  <2>5. ConnOK(n)'
    BY <1>1, <1>3, <2>1, <2>2, <2>3, <2>4 DEF ConnOK
  <2>6. ~CanBlock(n)'
    BY <1>3, <2>3, <2>4 DEF CanBlock
  <2> QED BY <2>5, <2>6
<1>6. Conns(conns')
  <2>1. Conns(Disconnect(a))
    BY DisconnectConns
  <2> QED BY <1>2, <1>3, <2>1 DEF Conns
<1>7. <<c.a, c.r>> \in Blocking
  BY <1>1 DEF Blocking, CanBlock
<1>8. Blocking' \subseteq Blocking \ {<<c.a, c.r>>}
  BY <1>4, <1>5 DEF Blocking
<1>9. Engaged' = Engaged \ {a}
  BY <1>1 DEF Engaged
<1>10. Paid'
  <2>1. IsFiniteSet(Blocking) /\ IsFiniteSet(Engaged)
    BY Finite
  <2>2. timeouts \in Nat /\ timeouts' = timeouts
    BY <1>1 DEF TypeOK
  <2>3. \E x \in Blocking : Blocking' \subseteq Blocking \ {x}
    BY <1>7, <1>8
  <2>4. \E b : Engaged' = Engaged \ {b}
    BY <1>9
  <2> QED BY <2>1, <2>2, <2>3, <2>4, PaidStep DEF Paid
<1> QED BY <1>4, <1>5, <1>6, <1>10 DEF ConnsOK

\* What a peer sends, and the taker's request, change one connection and not its key.
LEMMA OneConn ==
  ASSUME TypeOK, ConnsOK, Paid, NEW c \in conns, NEW n, conns' \subseteq (conns \ {c}) \cup {n},
         n.a = c.a, n.r = c.r, ConnOK(n)', CanBlock(c),
         UNCHANGED <<worker, round, timeouts>>
  PROVE  ConnsOK' /\ Paid'
<1>1. Conns(conns')
  BY DEF ConnsOK, Conns
<1>2. \A d \in conns : ConnOK(d)' /\ (CanBlock(d)' => CanBlock(d))
  BY DEF ConnsOK, ConnOK, CanBlock
<1>3. Engaged' = Engaged
  BY DEF Engaged
<1>4. Blocking' \subseteq Blocking
  BY <1>2 DEF Blocking
<1>5. IsFiniteSet(Blocking) /\ IsFiniteSet(Engaged)
  BY Finite
<1>6. Paid'
  BY <1>3, <1>4, <1>5, PaidStep DEF Paid, TypeOK
<1> QED BY <1>1, <1>2, <1>6 DEF ConnsOK

LEMMA RemoteOK == TypeOK /\ ConnsOK /\ Paid /\ Remote => ConnsOK' /\ Paid'
<1> SUFFICES ASSUME TypeOK, ConnsOK, Paid, NEW c \in conns,
                    RemoteVerack(c) \/ \E S \in SUBSET Addrs : OnAddr(c, S)
             PROVE  ConnsOK' /\ Paid'
  BY DEF Remote
<1>1. ConnOK(c) /\ c \in ConnRecs
  BY DEF ConnsOK, TypeOK, ConnRecs
<1>2. CASE RemoteVerack(c)
  <2>1. PICK n : n = [c EXCEPT !.st = "verack"]
    OBVIOUS
  <2>2. n.a = c.a /\ n.r = c.r /\ n.st = "verack" /\ n.asked = c.asked /\ n.shut = c.shut
    BY <1>1, <2>1 DEF ConnRecs
  <2>3. UNCHANGED <<worker, round, timeouts>> /\ CanBlock(c)
    BY <1>2 DEF RemoteVerack, creepVars, CanBlock
  <2>4. ConnOK(n)'
    BY <1>1, <1>2, <2>2, <2>3 DEF ConnOK, RemoteVerack
  <2>5. conns' \subseteq (conns \ {c}) \cup {n}
    BY <1>2, <2>1 DEF RemoteVerack
  <2> QED BY <2>2, <2>3, <2>4, <2>5, OneConn
<1>3. ASSUME NEW S \in SUBSET Addrs, OnAddr(c, S) PROVE ConnsOK' /\ Paid'
  <2>1. PICK n : n = [c EXCEPT !.st = "addr", !.asked = FALSE]
    OBVIOUS
  <2>2. n.a = c.a /\ n.r = c.r /\ n.st = "addr" /\ ~n.asked /\ n.shut = c.shut
    BY <1>1, <2>1 DEF ConnRecs
  <2>3. UNCHANGED <<worker, round, timeouts>> /\ CanBlock(c)
    BY <1>3 DEF OnAddr, creepVars, CanBlock
  <2>4. ConnOK(n)'
    BY <1>1, <1>3, <2>2, <2>3 DEF ConnOK, OnAddr
  <2>5. conns' \subseteq (conns \ {c}) \cup {n}
    BY <1>3, <2>1 DEF OnAddr
  <2> QED BY <2>2, <2>3, <2>4, <2>5, OneConn
<1> QED BY <1>2, <1>3

LEMMA TakePeerOK ==
  ASSUME TypeOK, ConnsOK, Paid, NEW a \in Addrs, NEW ok \in BOOLEAN, TakePeer(a, ok)
  PROVE  ConnsOK' /\ Paid'
<1> USE DEF AtWork
<1>1. /\ worker[a] = "peer" /\ \A b \in Addrs : worker'[b] = IF b = a THEN "addr" ELSE worker[b]
      /\ conns' = {IF IsConn(c, a) THEN [c EXCEPT !.asked = TRUE] ELSE c : c \in conns}
      /\ UNCHANGED <<round, timeouts>>
  BY DEF TakePeer, Move, TypeOK, creepVars
<1>2. ASSUME NEW d \in conns'
      PROVE  \E e \in conns :
               /\ d = IF IsConn(e, a) THEN [e EXCEPT !.asked = TRUE] ELSE e
               /\ d.a = e.a /\ d.r = e.r /\ d.st = e.st /\ d.shut = e.shut
               /\ d.asked => e.asked \/ IsConn(e, a)
  <2>1. PICK e \in conns : d = IF IsConn(e, a) THEN [e EXCEPT !.asked = TRUE] ELSE e
    BY <1>1
  <2>2. e \in ConnRecs
    BY DEF TypeOK, ConnRecs
  <2> QED BY <2>1, <2>2 DEF ConnRecs
<1>3. Conns(conns')
  <2> SUFFICES ASSUME NEW d \in conns', NEW f \in conns', d.a = f.a, d.r = f.r PROVE d = f
    BY DEF Conns
  <2>1. PICK x \in conns : /\ d = IF IsConn(x, a) THEN [x EXCEPT !.asked = TRUE] ELSE x
                           /\ d.a = x.a /\ d.r = x.r
    BY <1>2
  <2>2. PICK y \in conns : /\ f = IF IsConn(y, a) THEN [y EXCEPT !.asked = TRUE] ELSE y
                           /\ f.a = y.a /\ f.r = y.r
    BY <1>2
  <2>3. x = y
    BY <2>1, <2>2 DEF ConnsOK, Conns
  <2> QED BY <2>1, <2>2, <2>3
<1>4. ASSUME NEW d \in conns'
      PROVE  ConnOK(d)' /\ (CanBlock(d)' => <<d.a, d.r>> \in Blocking)
  <2>1. PICK e \in conns : /\ d.a = e.a /\ d.r = e.r /\ d.st = e.st /\ d.shut = e.shut
                           /\ d.asked => e.asked \/ IsConn(e, a)
    BY <1>2
  <2>2. ConnOK(e) /\ e.a \in Addrs
    BY DEF ConnsOK, TypeOK
  <2>3. ConnOK(d)'
    BY <1>1, <1>2, <2>1, <2>2 DEF ConnOK, IsConn
  <2>4. CanBlock(d)' => CanBlock(e)
    BY <1>1, <2>1, <2>2 DEF CanBlock, IsConn
  <2> QED BY <2>1, <2>3, <2>4 DEF Blocking
<1>5. Engaged' = Engaged
  BY <1>1 DEF Engaged
<1>6. Blocking' \subseteq Blocking
  BY <1>4 DEF Blocking
<1>7. Paid'
  <2>1. IsFiniteSet(Blocking) /\ IsFiniteSet(Engaged)
    BY Finite
  <2> QED BY <1>1, <1>5, <1>6, <2>1, PaidStep DEF Paid, TypeOK
<1> QED BY <1>3, <1>4, <1>7 DEF ConnsOK

LEMMA CreepOK == TypeOK /\ WorkersOK /\ ConnsOK /\ Paid /\ Creep => ConnsOK' /\ Paid'
<1> SUFFICES ASSUME TypeOK, WorkersOK, ConnsOK, Paid, Creep PROVE ConnsOK' /\ Paid'
  OBVIOUS
<1>1. CASE ReadLive
  BY <1>1, Quiet DEF ReadLive, workerVars
<1>2. CASE Scan
  BY <1>2, Quiet DEF Scan, workerVars
<1>3. CASE ClearLive /\ targets = {}
  BY <1>3, Quiet DEF ClearLive
<1>4. CASE ClearLive /\ targets # {}
  <2> USE DEF AtWork
  <2>1. /\ creep = "clear" /\ round' = round + 1 /\ UNCHANGED <<conns, timeouts>>
        /\ \A b \in Addrs : worker'[b] \in {"new", "none"}
    BY <1>4 DEF ClearLive
  <2>2. \A b \in Addrs : worker[b] \in {"none", "done"}
    BY <2>1 DEF WorkersOK
  <2>3. ASSUME NEW c \in conns PROVE ConnOK(c)' /\ (CanBlock(c)' => CanBlock(c))
    <3>1. ConnOK(c) /\ c.a \in Addrs /\ c.r \in Nat /\ round \in Nat
      BY DEF ConnsOK, TypeOK
    <3> QED BY <2>1, <2>2, <3>1 DEF ConnOK, CanBlock
  <2>4. Engaged' = Engaged
    BY <2>1, <2>2 DEF Engaged
  <2>5. Blocking' \subseteq Blocking
    BY <2>1, <2>3 DEF Blocking
  <2>6. IsFiniteSet(Blocking) /\ IsFiniteSet(Engaged)
    BY Finite
  <2>7. Paid'
    BY <2>1, <2>4, <2>5, <2>6, PaidStep DEF Paid, TypeOK
  <2> QED BY <2>1, <2>3, <2>7 DEF ConnsOK, Conns
<1>5. CASE RoundEnds
  BY <1>5, Quiet DEF RoundEnds, workerVars
<1> QED BY <1>1, <1>2, <1>3, <1>4, <1>5 DEF Creep

LEMMA WorkerOK == \A a \in Addrs : TypeOK /\ ConnsOK /\ Paid /\ Worker(a) => ConnsOK' /\ Paid'
<1> SUFFICES ASSUME NEW a \in Addrs, TypeOK, ConnsOK, Paid, Worker(a) PROVE ConnsOK' /\ Paid'
  OBVIOUS
<1> USE DEF AtWork, creepVars
<1>1. CASE NewPeerFails(a)
  BY <1>1, Outside DEF NewPeerFails, WorkerOnly
<1>2. CASE Attempt(a)
  BY <1>2, Outside DEF Attempt
<1>3. CASE DialFails(a)
  BY <1>3, Outside DEF DialFails, WorkerOnly
<1>4. CASE Good(a)
  BY <1>4, Outside DEF Good
<1> QED BY <1>1, <1>2, <1>3, <1>4, ConnectsOK, RecvVerackOK, RecvAddrOK, TimeoutOK DEF Worker

LEMMA ServeOK == \A a \in Addrs : TypeOK /\ ConnsOK /\ Paid /\ Serve(a) => ConnsOK' /\ Paid'
<1> SUFFICES ASSUME NEW a \in Addrs, TypeOK, ConnsOK, Paid, Serve(a) PROVE ConnsOK' /\ Paid'
  OBVIOUS
<1> USE DEF AtWork, creepVars
<1>1. CASE TakeAttempt(a)
  BY <1>1, Outside DEF TakeAttempt, WorkerOnly
<1>2. ASSUME NEW ok \in BOOLEAN, TakeFailure(a, ok) PROVE ConnsOK' /\ Paid'
  BY <1>2, Outside DEF TakeFailure
<1> QED BY <1>1, <1>2, TakePeerOK DEF Serve

LEMMA NextConns == TypeOK /\ WorkersOK /\ ConnsOK /\ Paid /\ [Next]_vars => ConnsOK' /\ Paid'
<1> SUFFICES ASSUME TypeOK, WorkersOK, ConnsOK, Paid, [Next]_vars PROVE ConnsOK' /\ Paid'
  OBVIOUS
<1> USE DEF creepVars, workerVars
<1>1. CASE Tick
  BY <1>1, Quiet DEF Tick
<1>2. CASE Taker
  BY <1>2, Quiet DEF Taker, TakerStops, loadLiveNodes
<1>3. CASE Handler
  BY <1>3, Quiet DEF Handler, prunePeers, savePeers
<1>4. ASSUME NEW intact \in BOOLEAN, Restart(intact) PROVE ConnsOK' /\ Paid'
  <2>1. conns' = {} /\ timeouts' = 0 /\ \A a \in Addrs : worker'[a] = "none"
    BY <1>4 DEF Restart
  <2>2. Blocking' = {} /\ Engaged' = {}
    BY <2>1 DEF Blocking, Engaged
  <2>3. Paid'
    BY <2>1, <2>2, FS_EmptySet DEF Paid
  <2> QED BY <2>1, <2>3 DEF ConnsOK, Conns
<1>5. CASE UNCHANGED vars
  BY <1>5, Quiet DEF vars
<1> QED BY <1>1, <1>2, <1>3, <1>4, <1>5, CreepOK, WorkerOK, ServeOK, RemoteOK DEF Next

-----------------------------------------------------------------------------
(* The theorems. *)

\* Every reachable state satisfies the inductive invariant: the crawl's workers, their
\* connections and the node table fit together in every round.
THEOREM CrawlerInvariant == Spec => []Inv
<1>1. Inv /\ [Next]_vars => Inv'
  BY NextType, NextWorkers, NextTable, NextConns DEF Inv
<1> QED BY <1>1, InitInv, PTL DEF Spec

\* The crawler's variables keep their types.
THEOREM CrawlerTypeCorrect == Spec => []TypeOK
<1>1. Inv => TypeOK
  BY DEF Inv
<1> QED BY <1>1, CrawlerInvariant, PTL

\* No peer that always answers on the default port is ever marked dead in the node table.
THEOREM ReachableStayAlive == Spec => []ReachableNeverDead
<1>1. Inv => ReachableNeverDead
  BY DEF Inv, TableOK, ReachableNeverDead
<1> QED BY <1>1, CrawlerInvariant, PTL

\* The connections of one state by their keys.
LEMMA CountByKey ==
  ASSUME TypeOK, ConnsOK, NEW C \in SUBSET conns
  PROVE  IsFiniteSet(C) /\ Cardinality(C) = Cardinality({<<c.a, c.r>> : c \in C})
<1> DEFINE K == {<<c.a, c.r>> : c \in C}
           f == [c \in C |-> <<c.a, c.r>>]
<1>1. IsFiniteSet(0..round)
  BY FS_Interval DEF TypeOK
<1>2. IsFiniteSet(Addrs \X (0..round))
  BY <1>1, FS_Product, ConstantsAssumption DEF ConstantsAssumption
<1>3. K \in SUBSET (Addrs \X (0..round))
  BY DEF TypeOK, ConnsOK, ConnOK
<1>4. IsFiniteSet(K)
  BY <1>2, <1>3, FS_Subset
<1>5. f \in [C -> K] /\ \A k \in K : \E c \in C : f[c] = k
  OBVIOUS
<1>6. \A c, d \in C : f[c] = f[d] => c = d
  BY DEF ConnsOK, Conns
<1>7. f \in Injection(C, K) /\ f \in Surjection(C, K)
  BY <1>5, <1>6 DEF Injection, Surjection, IsInjective
<1> QED BY <1>4, <1>7, FS_Injection

\* A callback stays blocked for ever only as the price of a wait that timed out, beside
\* those of the workers at work.
THEOREM LeaksAreTimeouts == Spec => []LeakedByTimeout
<1>1. ASSUME Inv PROVE LeakedByTimeout
  <2> DEFINE V == {c \in conns : c.st = "verack"}
             A == {c \in conns : c.st = "addr"}
             K == {<<c.a, c.r>> : c \in V \cup A}
  <2>1. TypeOK /\ ConnsOK /\ Paid
    BY <1>1 DEF Inv
  <2>2. IsFiniteSet(V) /\ IsFiniteSet(A)
    BY <2>1, CountByKey
  <2>3. Cardinality(V \cap A) = 0
    BY FS_EmptySet, V \cap A = {}
  <2>4. Cardinality(V \cup A) = Cardinality(V) + Cardinality(A) - Cardinality(V \cap A)
    BY <2>2, FS_Union
  <2>5. IsFiniteSet(V \cup A) /\ Cardinality(V \cup A) = Cardinality(K)
    BY <2>1, CountByKey
  <2>6. K \in SUBSET Blocking
    BY DEF Blocking, CanBlock
  <2>7. IsFiniteSet(Blocking) /\ IsFiniteSet(Engaged)
    BY <2>1, Finite
  <2>8. Cardinality(K) <= Cardinality(Blocking)
    BY <2>6, <2>7, FS_Subset
  <2>9. /\ Cardinality(V) \in Nat /\ Cardinality(A) \in Nat /\ Cardinality(V \cup A) \in Nat
        /\ Cardinality(Blocking) \in Nat /\ Cardinality(Engaged) \in Nat
    BY <2>2, <2>5, <2>7, FS_CardinalityType
  <2>10. Cardinality(V) + Cardinality(A) = Cardinality(V \cup A)
    BY <2>3, <2>4, <2>9
  <2>11. Cardinality(V) + Cardinality(A) <= Cardinality(Engaged) + timeouts
    BY <2>1, <2>5, <2>8, <2>9, <2>10 DEF Paid, TypeOK
  <2> QED BY <2>11 DEF LeakedByTimeout
<1> QED BY <1>1, CrawlerInvariant, PTL

=============================================================================
