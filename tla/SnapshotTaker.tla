--------------------------- MODULE SnapshotTaker ---------------------------
(***************************************************************************)
(* The loop of src/netsnapshot/snapshot.go that turns the crawler's        *)
(* reports into snapshots: one row of network_snapshot and one heartbeat   *)
(* per node for each timestamp, with a new timestamp at every tick of the  *)
(* ticker.  The tables outlive the process, which may be killed between    *)
(* any two of its database calls and starts again by taking the last       *)
(* snapshot over when that is younger than an interval.                    *)
(*                                                                         *)
(* A snapshot row is kept here as its height and its reachable-node count; *)
(* Crawler models where the reports come from.  Of the tick's call of      *)
(* UpdateSnapshotNodesBin these are its last two steps, which count the    *)
(* heartbeats of closed snapshots by user agent and by country; all agents *)
(* (or countries) of a snapshot are one number here.  The bins before them *)
(* are in TimeBins.                                                        *)
(***************************************************************************)
EXTENDS Integers, FiniteSets, FiniteSetsExt

CONSTANTS
  Nodes,       \* addresses of nodes
  Heights,     \* block heights nodes report
  SnapshotInterval, \* the snapshot interval
  MaxClock,    \* bound: time
  MaxRestarts, \* bound: restarts of the process
  MaxTakerErrors    \* bound: database calls that fail

ASSUME TakerAssumption ==
  /\ Heights \subseteq Nat \ {0}
  /\ SnapshotInterval \in Nat \ {0}
  /\ {MaxClock, MaxRestarts, MaxTakerErrors} \subseteq Nat

VARIABLES
  clock,
  heartbeats,  \* table heartbeat, as pairs <<timestamp, node>>
  snapshots,   \* table network_snapshot: timestamp -> height and reachable count
  versions,    \* table node_version, of the default bin: timestamp -> nodes
  locations,   \* table node_location, of the default bin: timestamp -> nodes
  takerAt,     \* where the taker is
  timestamp,   \* the snapshot it works on
  bestBlockHeight,
  node,        \* the height reported by the node being recorded
  due,         \* when the ticker fires next
  restarts, takerErrors,
  closed,      \* history: timestamps the ticker has saved for the last time
  lateStart,   \* history: a snapshot began after the tick it was due at
  resumed,     \* history: the timestamp was taken over from an earlier process
  unsaved,     \* history: timestamps whose heartbeats changed since the last save
  reopened     \* history: closed timestamps that were written again

takerTables == <<heartbeats, snapshots>>
counts == <<versions, locations>>
takerLocal  == <<timestamp, bestBlockHeight, node>>
takerBounds == <<restarts, takerErrors>>
takerHistory == <<closed, lateStart, resumed, unsaved, reopened>>
takerVars == <<clock, takerTables, counts, takerAt, takerLocal, due, takerBounds, takerHistory>>

Count(ts) == Cardinality({h \in heartbeats : h[1] = ts})

TakerInit ==
  /\ clock = 1 /\ heartbeats = {} /\ snapshots = [ts \in {} |-> 0]
  /\ versions = [ts \in {} |-> 0] /\ locations = [ts \in {} |-> 0]
  /\ takerAt = "start" /\ timestamp = 0 /\ bestBlockHeight = 0 /\ node = 0 /\ due = 0
  /\ restarts = 0 /\ takerErrors = 0
  /\ closed = {} /\ lateStart = FALSE /\ resumed = FALSE /\ unsaved = {} /\ reopened = {}

Tick ==
  /\ clock < MaxClock /\ clock' = clock + 1
  /\ UNCHANGED <<takerTables, counts, takerAt, takerLocal, due, takerBounds, takerHistory>>

-----------------------------------------------------------------------------
(* The store: postgres/network_snapshot.go.                                  *)

Touch(ts) == reopened' = IF ts \in closed THEN reopened \cup {ts} ELSE reopened

\* Mutant: the count of the running process is stored.
Mutant_OwnCount(ts, height) ==
  /\ snapshots' = [t \in DOMAIN snapshots \cup {ts} |->
       IF t = ts THEN [height |-> height, reachable |-> IF resumed THEN 0 ELSE Count(ts)]
       ELSE snapshots[t]]
  /\ unsaved' = unsaved \ {ts}

\* Mutant: the taker's own node is left out of the count.
Mutant_ButOne(ts, height) ==
  /\ snapshots' = [t \in DOMAIN snapshots \cup {ts} |->
       IF t = ts THEN [height |-> height, reachable |-> Count(ts) - 1] ELSE snapshots[t]]
  /\ unsaved' = unsaved \ {ts}

\* SaveSnapshot inserts or updates the row and counts its heartbeats.
SaveSnapshot(ts, height) ==
  /\ snapshots' = [t \in DOMAIN snapshots \cup {ts} |->
       IF t = ts THEN [height |-> height, reachable |-> Count(ts)] ELSE snapshots[t]]
  /\ unsaved' = unsaved \ {ts}

\* DeleteSnapshot: nothing without a row; otherwise the heartbeats, then the
\* row, and either deletion may fail without a word.
DeleteSnapshot(ts) ==
  IF ts \notin DOMAIN snapshots
  THEN unsaved' = unsaved \cup {ts} /\ UNCHANGED takerTables
  ELSE \E hearts, row \in BOOLEAN :
         /\ heartbeats' = IF hearts THEN {h \in heartbeats : h[1] # ts} ELSE heartbeats
         /\ snapshots' = IF row THEN [t \in DOMAIN snapshots \ {ts} |-> snapshots[t]]
                         ELSE snapshots
         /\ unsaved' = unsaved \cup {ts}

\* A save, or a failed one with the clean-up the taker does then.  When only the
\* lookup of an existing row fails, the insert it falls back to violates the
\* primary key, which SaveSnapshot takes for success: nothing is saved.
Save(ts, height) ==
  \/ SaveSnapshot(ts, height) /\ UNCHANGED <<heartbeats, takerErrors>>
  \/ takerErrors < MaxTakerErrors /\ takerErrors' = takerErrors + 1 /\ DeleteSnapshot(ts)
  \/ /\ ts \in DOMAIN snapshots
     /\ takerErrors < MaxTakerErrors /\ takerErrors' = takerErrors + 1
     /\ UNCHANGED <<takerTables, unsaved>>

\* LastSnapshotTime: rows without a height do not count.
Visible == {ts \in DOMAIN snapshots : snapshots[ts].height > 0}

-----------------------------------------------------------------------------
(* taker.Start                                                               *)

\* Mutant: a snapshot exactly one interval old is resumed as well.
Mutant_Young(ts) == clock - ts <= SnapshotInterval

\* minutesPassed < SnapshotInterval
Young(ts) == clock - ts < SnapshotInterval

\* The beginning: the last snapshot is taken over when it is young enough, and
\* saved at once when the manager already knows addresses (the seeder's
\* goroutine may or may not have added one).
Begin(known) ==
  /\ takerAt = "start"
  /\ LET takeover == Visible # {} /\ Young(Max(Visible))
         ts == IF takeover THEN Max(Visible) ELSE clock
         height == IF takeover THEN snapshots[ts].height ELSE 0
     IN /\ timestamp' = ts /\ resumed' = takeover
        /\ IF known THEN Save(ts, height) /\ Touch(ts)
           ELSE UNCHANGED <<takerTables, takerErrors, unsaved, reopened>>
  /\ takerAt' = "loop" /\ due' = clock + SnapshotInterval
  /\ bestBlockHeight' = 0 /\ node' = 0
  /\ UNCHANGED <<clock, counts, restarts, closed, lateStart>>

\* case node := <-amgr.peerNtfn: the node is in its table, the heartbeat follows.
\* SaveHeartbeat updates the node's heartbeat of this timestamp or inserts one;
\* when it fails nothing else is done.
SaveHeartbeat(n, height, ok) ==
  /\ takerAt = "loop"
  /\ IF ok
     THEN /\ heartbeats' = heartbeats \cup {<<timestamp, n>>}
          /\ unsaved' = unsaved \cup {timestamp} /\ Touch(timestamp)
          /\ node' = height /\ takerAt' = "save" /\ UNCHANGED takerErrors
     ELSE /\ takerErrors < MaxTakerErrors /\ takerErrors' = takerErrors + 1
          /\ UNCHANGED <<heartbeats, node, takerAt, unsaved, reopened>>
  /\ UNCHANGED <<clock, snapshots, counts, timestamp, bestBlockHeight, due, restarts,
                 closed, lateStart, resumed>>

\* The rest of that case: the best height and SaveSnapshot.
NodeSaved ==
  /\ takerAt = "save" /\ takerAt' = "loop" /\ node' = 0
  /\ bestBlockHeight' = Max({bestBlockHeight, node})
  /\ Save(timestamp, bestBlockHeight') /\ Touch(timestamp)
  /\ UNCHANGED <<clock, counts, timestamp, due, restarts, closed, lateStart, resumed>>

\* The first tick after now; ticks that nobody received are dropped.
NextDue == due + SnapshotInterval * (1 + (clock - due) \div SnapshotInterval)

\* case <-ticker.C: the snapshot is saved for the last time.
CloseSnapshot ==
  /\ takerAt = "loop" /\ clock >= due
  /\ Save(timestamp, bestBlockHeight) /\ Touch(timestamp)
  /\ closed' = closed \cup {timestamp}
  /\ due' = NextDue
  /\ takerAt' = "bins"
  /\ UNCHANGED <<clock, counts, takerLocal, restarts, lateStart, resumed>>

LastEntryOf(t) == Max({0} \cup DOMAIN t)

\* Mutant: only the snapshot just closed is counted.
Mutant_peerCountsByTime(startDate) ==
  [ts \in {t \in DOMAIN snapshots : t > startDate /\ t = timestamp /\ Count(t) > 0} |-> Count(ts)]

\* The join: snapshots with a row and a heartbeat, whatever became of their processes.
peerCountsByTime(startDate) ==
  [ts \in {t \in DOMAIN snapshots : t > startDate /\ Count(t) > 0} |-> Count(ts)]

peerCountByUserAgentsByTime(startDate) == peerCountsByTime(startDate)
peerCountByCountriesByTime(startDate)  == peerCountsByTime(startDate)

\* The rows of every date, with zero for the agents (or countries) it has none of.
fetchSnapshotNodeVersions(startDate) == peerCountByUserAgentsByTime(startDate)
fetchNodeLocationChart(startDate)    == peerCountByCountriesByTime(startDate)

\* A table after the insertion of rows, one of each date.
Insert(t, rows) ==
  [ts \in DOMAIN t \cup DOMAIN rows |-> IF ts \in DOMAIN t THEN t[ts] ELSE rows[ts]]

\* What is behind the newest rows is added, in a transaction.
UpdateNodeVersion ==
  /\ takerAt = "bins" /\ takerAt' = "versions"
  /\ versions' = Insert(versions, fetchSnapshotNodeVersions(LastEntryOf(versions)))
  /\ UNCHANGED <<clock, takerTables, locations, takerLocal, due, takerBounds, takerHistory>>

\* Only after the versions.
UpdateNodeLocation ==
  /\ takerAt = "versions" /\ takerAt' = "locations"
  /\ locations' = Insert(locations, fetchNodeLocationChart(LastEntryOf(locations)))
  /\ UNCHANGED <<clock, takerTables, versions, takerLocal, due, takerBounds, takerHistory>>

\* UpdateSnapshotNodesBin has returned, with an error, before its hour was over, or
\* complete: the next snapshot begins.
NextSnapshot ==
  /\ takerAt \in {"bins", "versions", "locations"} /\ takerAt' = "loop"
  /\ timestamp' = clock /\ resumed' = FALSE
  /\ lateStart' = (lateStart \/ clock + SnapshotInterval > due)
  /\ UNCHANGED <<clock, takerTables, counts, bestBlockHeight, node, due, takerBounds, closed,
                 unsaved, reopened>>

\* The process ends, at any point, and starts again.
Restart ==
  /\ takerAt # "start" /\ restarts < MaxRestarts
  /\ restarts' = restarts + 1
  /\ takerAt' = "start"
  /\ UNCHANGED <<clock, takerTables, counts, takerLocal, due, takerErrors, takerHistory>>

TakerNext ==
  \/ Tick \/ NodeSaved \/ CloseSnapshot \/ UpdateNodeVersion \/ UpdateNodeLocation
  \/ NextSnapshot \/ Restart
  \/ \E known \in BOOLEAN : Begin(known)
  \/ \E n \in Nodes, height \in Heights, ok \in BOOLEAN : SaveHeartbeat(n, height, ok)

TakerSpec == TakerInit /\ [][TakerNext]_takerVars

-----------------------------------------------------------------------------
(* Properties *)

\* The type invariant.
TakerTypeOK ==
  /\ {clock, timestamp, due, restarts, takerErrors, bestBlockHeight} \subseteq Nat
  /\ heartbeats \subseteq Nat \X Nodes
  /\ DOMAIN snapshots \subseteq Nat
  /\ \A ts \in DOMAIN snapshots : snapshots[ts] \in [height : Heights \cup {0}, reachable : Nat]
  /\ DOMAIN versions \cup DOMAIN locations \subseteq Nat
  /\ takerAt \in {"start", "loop", "save", "bins", "versions", "locations"}
  /\ node \in Heights \cup {0}
  /\ closed \cup unsaved \cup reopened \subseteq Nat
  /\ lateStart \in BOOLEAN /\ resumed \in BOOLEAN

\* A snapshot's reachable nodes are its heartbeats, and no heartbeat is without
\* its snapshot, except where a save failed or the process died before it: the
\* damage stays with that timestamp, and its next save repairs it, also after a
\* restart that resumes it.
HeartbeatsCounted ==
  /\ \A ts \in DOMAIN snapshots \ unsaved : snapshots[ts].reachable = Count(ts)
  /\ \A h \in heartbeats : h[1] \in DOMAIN snapshots \cup unsaved

\* A snapshot the ticker has closed, and the bins were computed from, is not
\* written again, across restarts as well, as long as every snapshot begins at
\* its tick.  (One that begins later, after a slow handler or a slow bin update,
\* is closed before it is an interval old, and a restart can take it over.)
ClosedStaysClosed == lateStart \/ reopened = {}

\* The versions and locations of a snapshot count every node that was heard from in it, and
\* when newer snapshots are counted none is passed over: not those whose process died, nor
\* those whose own update failed or was not due.  (A closed snapshot that a restart writes
\* again has been counted too early.)
NodesCounted ==
  \A t \in {versions, locations} :
    /\ \A ts \in DOMAIN t \ reopened : t[ts] = Count(ts)
    /\ \A ts \in DOMAIN snapshots \ reopened :
         Count(ts) > 0 /\ ts < LastEntryOf(t) => ts \in DOMAIN t
=============================================================================
