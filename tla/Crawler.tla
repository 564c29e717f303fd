------------------------------- MODULE Crawler -------------------------------
(***************************************************************************)
(* The network crawler of src/netsnapshot: the address manager             *)
(* (manager.go), the crawl loop (seeder.go) and the channels through which *)
(* it reports to the snapshot taker (snapshot.go), which keeps the node    *)
(* table (postgres/network_snapshot.go).                                   *)
(*                                                                         *)
(*   creep --one goroutine per address--> worker --dial--> remote peer     *)
(*     ^ addresses                          ^  |              | verack,    *)
(*   Manager <----- AddAddresses -----------|--|--------------+ addr       *)
(*     ^ live list                   verack,|  | attempt, connFail, peer   *)
(*     +---------- taker <---------- onaddr |  | (unbuffered channels)     *)
(*                   |                      +--+                           *)
(*                node table                                               *)
(*                                                                         *)
(* The workers of a round share one verack channel and one onaddr channel, *)
(* and the callbacks that send on them run in the connection's only reader *)
(* goroutine.  One unit of the clock is the snapshot interval, which is    *)
(* also the stale timeout and the dump interval.                           *)
(***************************************************************************)
EXTENDS Integers, FiniteSets, FiniteSetsExt

CONSTANTS
  Addrs,        \* IP addresses
  Seeder,       \* the configured first address
  Routable,     \* addresses isRoutable accepts
  Local,        \* 127.0.0.1
  Malformed,    \* addresses NewOutboundPeer refuses
  Reachable,    \* peers that always accept a connection on their port
  DefaultPort,  \* peers that listen on the network's default port
  MaxAddresses, \* defaultMaxAddresses
  MaxFailures,  \* max-peer-connection-failure
  Stale,        \* defaultStaleTimeout, in units of the clock
  PruneExpire,  \* pruneExpireTimeout, in units of the clock
  MaxClock,     \* bound: units of time
  MaxRounds,    \* bound: rounds of creep in one process
  MaxRestarts   \* bound: restarts of the process

ASSUME ConstantsAssumption ==
  /\ IsFiniteSet(Addrs) /\ Seeder \in Addrs
  /\ {Routable, Local, Malformed, Reachable, DefaultPort} \subseteq SUBSET Addrs
  /\ {MaxAddresses, MaxFailures, Stale, PruneExpire} \subseteq Nat \ {0}
  /\ {MaxClock, MaxRounds, MaxRestarts} \subseteq Nat

VARIABLES
  clock,       \* the time
  nodes,       \* Manager.nodes: port known, LastSeen, LastAttempt, LastSuccess
  liveNodeIPs, \* Manager.liveNodeIPs
  creep,       \* where the crawl loop is
  targets,     \* the addresses of the round
  bare,        \* those of them that came without a port
  round,       \* rounds started
  worker,      \* where the goroutine of each address is
  conns,       \* connections whose reader goroutine exists
  timeouts,    \* history: waits of workers that ended by time.After
  verackFrom,  \* history: [address -> the peer whose verack its worker took]
  taker,       \* the snapshot taker: "up", or "down" after ctx.Done
  db,          \* the node table: failure count and is_dead of each known node
  saved,       \* the peers file
  restarts     \* restarts so far

mgrVars    == <<nodes, liveNodeIPs>>
creepVars  == <<creep, targets, bare, round>>
workerVars == <<worker, conns, timeouts, verackFrom>>
envVars    == <<clock, taker, saved, restarts>>
vars == <<mgrVars, creepVars, workerVars, envVars, db>>

Never == 0   \* Go's zero time, older than every timeout
Start == Stale + PruneExpire + 1

\* An entry of Manager.nodes, as AddAddresses makes it.  knowsPort is FALSE for
\* the addresses that come without one, which are dialled on the default port.
NewNode(knowsPort) == [knowsPort |-> knowsPort, seen |-> clock,
                       attempt |-> Never, success |-> Never]

\* Manager.nodes after AddAddresses(S).
AddAddresses(old, S, knowsPort) ==
  [a \in DOMAIN old \cup (S \cap Routable) |->
     CASE a \notin DOMAIN old -> NewNode(knowsPort)
       [] a \in DOMAIN old \cap S \cap Routable -> [old[a] EXCEPT !.seen = clock]
       [] OTHER -> old[a]]

\* What a fresh process does with the nodes of the peers file: NewManager,
\* then runSeeder adds the configured address.
Boot(file) == AddAddresses(file, {Seeder}, TRUE)

NoNodes == [a \in {} |-> NewNode(TRUE)]

Init ==
  /\ clock = Start /\ nodes = Boot(NoNodes) /\ liveNodeIPs = {}
  /\ creep = "idle" /\ targets = {} /\ bare = {} /\ round = 0
  /\ worker = [a \in Addrs |-> "none"] /\ conns = {} /\ timeouts = 0
  /\ verackFrom = [a \in Addrs |-> {}]
  /\ taker = "up" /\ db = [a \in {} |-> [fails |-> 0, dead |-> FALSE]]
  /\ saved = NoNodes /\ restarts = 0

Tick ==
  /\ clock < Start + MaxClock
  /\ clock' = clock + 1
  /\ UNCHANGED <<mgrVars, creepVars, workerVars, taker, saved, restarts, db>>

-----------------------------------------------------------------------------
(* creep: Manager.Addresses, then one goroutine for each address.            *)

Stale_(n) == clock - n.success >= Stale /\ clock - n.attempt >= Stale
StaleNodes == {a \in DOMAIN nodes : Stale_(nodes[a])}

\* liveNodes(), under the lock.
ReadLive ==
  /\ creep = "idle" /\ round < MaxRounds
  /\ targets' = liveNodeIPs /\ bare' = liveNodeIPs
  /\ creep' = IF liveNodeIPs = {} THEN "scan" ELSE "clear"
  /\ UNCHANGED <<mgrVars, round, workerVars, envVars, db>>

\* The scan of the node map, in Go's random order, up to MaxAddresses.
Scan ==
  /\ creep = "scan"
  /\ targets' \in {S \in SUBSET StaleNodes :
                     Cardinality(S) = Min({MaxAddresses, Cardinality(StaleNodes)})}
  /\ bare' = {a \in targets' : ~nodes[a].knowsPort}
  /\ creep' = "clear"
  /\ UNCHANGED <<mgrVars, round, workerVars, envVars, db>>

\* The deferred m.liveNodeIPs = nil, without the lock; then the round starts,
\* or creep sleeps when there is nothing to do.
ClearLive ==
  /\ creep = "clear"
  /\ liveNodeIPs' = {}
  /\ IF targets = {}
     THEN creep' = "idle" /\ UNCHANGED <<round, worker, verackFrom>>
     ELSE /\ creep' = "round" /\ round' = round + 1
          /\ worker' = [a \in Addrs |-> IF a \in targets THEN "new" ELSE "none"]
          /\ verackFrom' = [a \in Addrs |-> {}]
  /\ UNCHANGED <<nodes, targets, bare, conns, timeouts, envVars, db>>

\* wg.Wait() returns.
RoundEnds ==
  /\ creep = "round" /\ \A a \in targets : worker[a] = "done"
  /\ creep' = "idle"
  /\ UNCHANGED <<mgrVars, targets, bare, round, workerVars, envVars, db>>

-----------------------------------------------------------------------------
(* The goroutine of one address.                                             *)

Move(a, from, to) == worker[a] = from /\ worker' = [worker EXCEPT ![a] = to]

WorkerOnly ==
  UNCHANGED <<mgrVars, creepVars, conns, timeouts, verackFrom, envVars, db>>

\* NewOutboundPeer fails: notifyFailedAttempt.
NewPeerFails(a) == a \in Malformed /\ Move(a, "new", "failed") /\ WorkerOnly

\* Attempt: LastAttempt under the lock, then the send on attemptNtfn.
Attempt(a) ==
  /\ a \notin Malformed /\ Move(a, "new", "attempt")
  /\ nodes' = [b \in DOMAIN nodes |->
                 IF b = a THEN [nodes[b] EXCEPT !.attempt = clock] ELSE nodes[b]]
  /\ UNCHANGED <<liveNodeIPs, creepVars, conns, timeouts, verackFrom, envVars, db>>

\* The dial goes to the port the peer listens on.
PortRight(a) == a \in DefaultPort \/ a \notin bare

Conn(a, st) == [a |-> a, r |-> round, st |-> st, asked |-> FALSE, shut |-> FALSE]

\* DialTimeout fails: notifyFailedAttempt.
DialFails(a) ==
  /\ ~(a \in Reachable /\ PortRight(a))
  /\ Move(a, "dial", "failed") /\ WorkerOnly

\* The peer accepts: AssociateConnection starts the connection's reader.
Connects(a) ==
  /\ PortRight(a) /\ Move(a, "dial", "verack")
  /\ conns' = conns \cup {Conn(a, "open")}
  /\ UNCHANGED <<mgrVars, creepVars, timeouts, verackFrom, envVars, db>>

Release(c, st) == IF c.shut THEN {} ELSE {[c EXCEPT !.st = st]}

\* <-verack: any blocked OnVerAck callback is the sender, of this round or of
\* an earlier one.
RecvVerack(a, c) ==
  /\ c.st = "verack" /\ Move(a, "verack", "good")
  /\ conns' = (conns \ {c}) \cup Release(c, "acked")
  /\ verackFrom' = [verackFrom EXCEPT ![a] = {c.a}]
  /\ UNCHANGED <<mgrVars, creepVars, timeouts, envVars, db>>

\* Good: LastSuccess, after AddAddresses for an address that is not there.
Good(a) ==
  /\ Move(a, "good", "peer")
  /\ LET known == IF a \in DOMAIN nodes THEN nodes ELSE AddAddresses(nodes, {a}, FALSE)
     IN nodes' = [b \in DOMAIN known |->
                    IF b = a THEN [known[b] EXCEPT !.success = clock] ELSE known[b]]
  /\ UNCHANGED <<liveNodeIPs, creepVars, conns, timeouts, verackFrom, envVars, db>>

IsConn(c, a) == c.a = a /\ c.r = round

\* Disconnect: a reader that is blocked in a callback stays, the others end.
Disconnect(a) ==
  {IF IsConn(c, a) THEN [c EXCEPT !.shut = TRUE] ELSE c
     : c \in {d \in conns : ~(IsConn(d, a) /\ d.st \in {"open", "acked"})}}

\* Mutant: a handshake that times out counts as a failed connection.
Mutant_TimeoutFails(a) ==
  /\ \/ Move(a, "verack", "failed")
     \/ Move(a, "addr", "done")
  /\ conns' = Disconnect(a)
  /\ timeouts' = timeouts + 1
  /\ UNCHANGED <<mgrVars, creepVars, verackFrom, envVars, db>>

\* Mutant: no time.After beside <-onaddr.
Mutant_NoAddrTimeout(a) ==
  /\ Move(a, "verack", "done")
  /\ conns' = Disconnect(a)
  /\ timeouts' = timeouts + 1
  /\ UNCHANGED <<mgrVars, creepVars, verackFrom, envVars, db>>

\* time.After(defaultNodeTimeout) in either select; nothing is reported.
Timeout(a) ==
  /\ Move(a, "verack", "done") \/ Move(a, "addr", "done")
  /\ conns' = Disconnect(a)
  /\ timeouts' = timeouts + 1
  /\ UNCHANGED <<mgrVars, creepVars, verackFrom, envVars, db>>

\* Mutant: the worker does not wait for the peer's addresses.
Mutant_NoAddrWait(a, c) ==
  /\ Move(a, "addr", "done") /\ c.a = a
  /\ conns' = Disconnect(a)
  /\ UNCHANGED <<mgrVars, creepVars, timeouts, verackFrom, envVars, db>>

\* <-onaddr, again from any connection; then the worker disconnects its own.
RecvAddr(a, c) ==
  /\ c.st = "addr" /\ Move(a, "addr", "done")
  /\ conns' = LET left == Disconnect(a) IN
                {d \in left : ~(d.a = c.a /\ d.r = c.r)}
                  \cup (IF c.shut \/ IsConn(c, a) THEN {} ELSE {[c EXCEPT !.st = "acked"]})
  /\ UNCHANGED <<mgrVars, creepVars, timeouts, verackFrom, envVars, db>>

-----------------------------------------------------------------------------
(* The remote peers and the connections' readers (external).                *)

\* The peer sends its verack: OnVerAck blocks in verack <- struct{}{}.
RemoteVerack(c) ==
  /\ c.st = "open" /\ ~c.shut
  /\ conns' = (conns \ {c}) \cup {[c EXCEPT !.st = "verack"]}
  /\ UNCHANGED <<mgrVars, creepVars, worker, timeouts, verackFrom, envVars, db>>

\* The peer answers getaddr: OnAddr adds the addresses, then blocks.
OnAddr(c, S) ==
  /\ c.st = "acked" /\ c.asked /\ ~c.shut
  /\ nodes' = AddAddresses(nodes, S, TRUE)
  /\ conns' = (conns \ {c}) \cup {[c EXCEPT !.st = "addr", !.asked = FALSE]}
  /\ UNCHANGED <<liveNodeIPs, creepVars, worker, timeouts, verackFrom, envVars, db>>

-----------------------------------------------------------------------------
(* addressHandler, and the taker's side of the channels.                     *)

prunePeers ==
  /\ nodes' = LET old(n) == clock - n.seen > PruneExpire
                            \/ (n.success # Never /\ clock - n.success > PruneExpire)
              IN [a \in {b \in DOMAIN nodes : ~old(nodes[b])} |-> nodes[a]]
  /\ UNCHANGED <<liveNodeIPs, creepVars, workerVars, envVars, db>>

\* Mutant: fields that are not exported do not reach the file.
Mutant_LossyFile ==
  /\ saved' = [a \in DOMAIN nodes |-> [knowsPort |-> nodes[a].knowsPort]]
  /\ UNCHANGED <<mgrVars, creepVars, workerVars, clock, taker, restarts, db>>

savePeers ==
  /\ saved' = nodes
  /\ UNCHANGED <<mgrVars, creepVars, workerVars, clock, taker, restarts, db>>

Alive == [fails |-> 0, dead |-> FALSE]

\* <-attemptNtfn.  AttemptPeer only writes the time of the attempt.
TakeAttempt(a) ==
  /\ taker = "up" /\ Move(a, "attempt", "dial") /\ WorkerOnly

\* <-peerNtfn: SaveNode or UpdateNode, unless the table refuses; the worker
\* goes on to ask the peer for addresses.
TakePeer(a, ok) ==
  /\ taker = "up" /\ Move(a, "peer", "addr")
  /\ db' = IF ok /\ a \notin Local
           THEN [b \in DOMAIN db \cup {a} |-> IF b = a THEN Alive ELSE db[b]]
           ELSE db
  /\ conns' = {IF IsConn(c, a) THEN [c EXCEPT !.asked = TRUE] ELSE c : c \in conns}
  /\ UNCHANGED <<mgrVars, creepVars, timeouts, verackFrom, envVars>>

\* RecordNodeConnectionFailure: an unknown address is no error.
Failed(n) == [fails |-> n.fails + 1, dead |-> n.dead \/ n.fails + 1 >= MaxFailures]

\* <-connFailNtfn
TakeFailure(a, ok) ==
  /\ taker = "up" /\ Move(a, "failed", "done")
  /\ db' = [b \in DOMAIN db |-> IF ok /\ b = a THEN Failed(db[b]) ELSE db[b]]
  /\ UNCHANGED <<mgrVars, creepVars, conns, timeouts, verackFrom, envVars>>

\* The taker's ticker: loadLiveNodes hands the manager the nodes that are not
\* dead, or nil when the query fails.
loadLiveNodes(ok) ==
  /\ taker = "up"
  /\ liveNodeIPs' = IF ok THEN {a \in DOMAIN db : ~db[a].dead} ELSE {}
  /\ UNCHANGED <<nodes, creepVars, workerVars, envVars, db>>

\* ctx.Done: quit <- struct{}{} and return; nobody serves the channels now.
TakerStops ==
  /\ taker = "up" /\ taker' = "down"
  /\ UNCHANGED <<mgrVars, creepVars, workerVars, clock, saved, restarts, db>>

\* The process ends, at any point, and is started again; a peers file that
\* cannot be read is removed.
Restart(intact) ==
  /\ restarts < MaxRestarts /\ restarts' = restarts + 1
  /\ saved' = IF intact THEN saved ELSE NoNodes
  /\ nodes' = Boot(saved') /\ liveNodeIPs' = {}
  /\ creep' = "idle" /\ targets' = {} /\ bare' = {} /\ round' = 0
  /\ worker' = [a \in Addrs |-> "none"] /\ conns' = {} /\ timeouts' = 0
  /\ verackFrom' = [a \in Addrs |-> {}]
  /\ taker' = "up"
  /\ UNCHANGED <<clock, db>>

-----------------------------------------------------------------------------

Worker(a) ==
  \/ NewPeerFails(a) \/ Attempt(a) \/ DialFails(a) \/ Connects(a)
  \/ \E c \in conns : RecvVerack(a, c) \/ RecvAddr(a, c)
  \/ Good(a) \/ Timeout(a)

Remote ==
  \E c \in conns : RemoteVerack(c) \/ \E S \in SUBSET Addrs : OnAddr(c, S)

Serve(a) ==
  TakeAttempt(a) \/ \E ok \in BOOLEAN : TakePeer(a, ok) \/ TakeFailure(a, ok)

Creep == ReadLive \/ Scan \/ ClearLive \/ RoundEnds

Taker == TakerStops \/ \E ok \in BOOLEAN : loadLiveNodes(ok)

Handler == prunePeers \/ savePeers

Next ==
  \/ Tick \/ Creep \/ Remote \/ Taker \/ Handler
  \/ \E a \in Addrs : Worker(a) \/ Serve(a)
  \/ \E intact \in BOOLEAN : Restart(intact)

(***************************************************************************)
(* Fairness.  Goroutines are scheduled, timers fire, a dial returns within *)
(* its timeout, and the taker's select serves a channel that stays ready.  *)
(* Remote peers owe nothing, and no ticker is needed.                      *)
(***************************************************************************)
Fairness ==
  /\ WF_vars(Creep)
  /\ \A a \in Addrs : WF_vars(Worker(a)) /\ WF_vars(Serve(a))

Spec == Init /\ [][Next]_vars
FairSpec == Spec /\ Fairness

-----------------------------------------------------------------------------
(* Properties *)

Time == Nat
NodeRec == [knowsPort : BOOLEAN, seen : Time, attempt : Time, success : Time]
PartialFn(S, T) == UNION {[D -> T] : D \in SUBSET S}

\* The type invariant.
TypeOK ==
  /\ clock \in Time /\ restarts \in Nat /\ round \in Nat /\ timeouts \in Nat
  /\ \A f \in {nodes, saved} : DOMAIN f \subseteq Addrs /\ \A a \in DOMAIN f : f[a] \in NodeRec
  /\ {liveNodeIPs, targets, bare} \subseteq SUBSET Addrs
  /\ creep \in {"idle", "scan", "clear", "round"}
  /\ worker \in [Addrs -> {"none", "new", "attempt", "dial", "failed", "verack",
                           "good", "peer", "addr", "done"}]
  /\ conns \subseteq [a : Addrs, r : Nat, st : {"open", "verack", "acked", "addr"},
                      asked : BOOLEAN, shut : BOOLEAN]
  /\ verackFrom \in [Addrs -> SUBSET Addrs]
  /\ taker \in {"up", "down"}
  /\ DOMAIN db \subseteq Addrs
  /\ \A a \in DOMAIN db : db[a] \in [fails : Nat, dead : BOOLEAN]

\* A peer that always answers on the default port is never marked dead, also
\* when another worker took its verack and its own worker timed out.
ReachableNeverDead ==
  \A a \in DOMAIN db \cap Reachable \cap DefaultPort : ~db[a].dead

Engaged == {a \in Addrs : worker[a] \in {"verack", "good", "peer", "addr"}}

\* Reader goroutines blocked in a callback are bounded by the workers at work
\* and the waits that timed out: between two rounds every leaked goroutine is
\* the price of one timeout.
LeakedByTimeout ==
  Cardinality({c \in conns : c.st = "verack"}) + Cardinality({c \in conns : c.st = "addr"})
    <= Cardinality(Engaged) + timeouts

\* While the taker serves the channels every round of the crawl ends, whatever
\* the peers do: no worker waits for ever for a peer, for a verack another
\* worker took, or for the taker.
RoundsEnd == creep = "round" ~> (creep # "round" \/ taker = "down")

\* "Wait for the verack message or timeout in case of failure" and "Mark this
\* peer as a good node": a node is marked good after its own verack.
GoodMeansVerack == \A a \in Addrs : verackFrom[a] \subseteq {a}
=============================================================================
