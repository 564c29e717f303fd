-------------------------- MODULE SnapshotTakerProofs --------------------------
(***************************************************************************)
(* What the snapshot taker keeps of a snapshot, for every interval and any *)
(* number of nodes, failed database calls and restarts.                    *)
(***************************************************************************)
EXTENDS SnapshotTaker, FiniteSetTheorems, WellFoundedInduction, TLAPS

(* The inductive invariant. *)

Waiting == {"loop", "save"}
Binning == {"bins", "versions", "locations"}

TypesOK == TakerTypeOK /\ IsFiniteSet(heartbeats) /\ bestBlockHeight \in Heights \cup {0}

\* Nothing is dated in the future.
Past(S) == \A x \in S : 1 <= x /\ x <= clock

DatesOK ==
  /\ 1 <= clock /\ timestamp <= clock /\ (takerAt # "start" => 1 <= timestamp)
  /\ Past(DOMAIN snapshots) /\ Past(DOMAIN versions) /\ Past(DOMAIN locations)

\* No snapshot a restart can see is newer than the one at work, and an older one is closed
\* or too old to be taken over.
SeenOK ==
  \A x \in Visible :
    /\ x <= timestamp
    /\ x # timestamp => x \in closed \/ x + SnapshotInterval <= clock

\* A snapshot that a dead process left open was begun before the tick.
OpenOK ==
  /\ takerAt # "start" => \A x \in DOMAIN snapshots \ closed : x # timestamp => x < due
  /\ takerAt \in Binning => timestamp \in closed /\ \A x \in DOMAIN snapshots \ closed : x < clock

\* What is counted and not closed is never the snapshot at work, and one at work that is
\* not closed is newer than all that are counted.
CountedOK(t) ==
  /\ \A x \in DOMAIN t \ closed : x # timestamp /\ x < clock
  /\ timestamp \notin closed => \A x \in DOMAIN t : x <= timestamp

\* As long as every snapshot began at its tick.
OnTime ==
  lateStart \/
    /\ reopened = {}
    /\ \A x \in closed : x + SnapshotInterval <= clock
    /\ takerAt # "start" => timestamp + SnapshotInterval <= due
    /\ takerAt \in Waiting => timestamp \notin closed

TakerInv == /\ TypesOK /\ DatesOK /\ HeartbeatsCounted /\ SeenOK /\ OpenOK
       /\ CountedOK(versions) /\ CountedOK(locations) /\ NodesCounted /\ OnTime

-----------------------------------------------------------------------------
(* The newest date of a table. *)

LEMMA MaxIn ==
  ASSUME NEW S \in SUBSET Nat, S # {}, NEW n \in Nat, \A x \in S : x <= n
  PROVE  Max(S) \in S /\ \A y \in S : y <= Max(S)
<1> DEFINE T == {n - x : x \in S}
<1>1. T \in SUBSET Nat /\ T # {}
  <2>1. \A x \in S : n - x \in Nat
    OBVIOUS
  <2> QED BY <2>1
<1>2. PICK z \in T : \A y \in T : ~(<<y, z>> \in OpToRel(<, Nat))
  BY <1>1, NatLessThanWellFounded, WFMin
<1>3. PICK x \in S : z = n - x
  OBVIOUS
<1>4. ASSUME NEW y \in S, x < y PROVE FALSE
  <2>1. n - y \in T /\ n - y < z
    BY <1>3, <1>4
  <2>2. <<n - y, z>> \in Nat \X Nat /\ <<n - y, z>>[1] < <<n - y, z>>[2]
    BY <1>1, <2>1
  <2>3. <<n - y, z>> \in OpToRel(<, Nat)
    BY <2>2, Zenon DEF OpToRel
  <2> QED BY <1>2, <2>1, <2>3
<1>5. \A y \in S : x >= y
  BY <1>4
<1>6. Max(S) \in S /\ \A y \in S : Max(S) >= y
  BY <1>5 DEF Max
<1> QED BY <1>6

LEMMA LastIn ==
  ASSUME DatesOK, clock \in Nat, NEW t, Past(DOMAIN t), DOMAIN t \subseteq Nat
  PROVE  /\ LastEntryOf(t) \in {0} \cup DOMAIN t /\ LastEntryOf(t) \in Nat
         /\ \A x \in DOMAIN t : x <= LastEntryOf(t)
<1>1. {0} \cup DOMAIN t \in SUBSET Nat /\ \A x \in {0} \cup DOMAIN t : x <= clock
  BY DEF Past
<1> QED BY <1>1, MaxIn DEF LastEntryOf

LEMMA NewestSeen ==
  ASSUME TypesOK, DatesOK, Visible # {}
  PROVE  Max(Visible) \in Visible /\ \A x \in Visible : x <= Max(Visible)
<1>1. Visible \in SUBSET Nat /\ \A x \in Visible : x <= clock
  BY DEF Visible, TypesOK, TakerTypeOK, DatesOK, Past
<1> QED BY <1>1, MaxIn DEF TypesOK, TakerTypeOK

\* The ticker is never due earlier than it was.
LEMMA DueGrows ==
  ASSUME TypesOK, clock >= due
  PROVE  NextDue \in Nat /\ NextDue >= due
<1>1. SnapshotInterval \in Nat \ {0} /\ clock - due \in Nat
  BY TakerAssumption DEF TakerAssumption, TypesOK, TakerTypeOK
<1>2. (clock - due) \div SnapshotInterval \in Nat
  BY <1>1
<1>3. PICK q \in Nat : q = 1 + (clock - due) \div SnapshotInterval
  BY <1>2
<1>4. SnapshotInterval * q \in Nat
  BY <1>1
<1> QED BY <1>3, <1>4 DEF NextDue, TypesOK, TakerTypeOK

LEMMA TakerInitInv == TakerInit => TakerInv
<1> SUFFICES ASSUME TakerInit PROVE TakerInv
  OBVIOUS
<1>1. TypesOK
  <2>1. DOMAIN snapshots = {} /\ DOMAIN versions = {} /\ DOMAIN locations = {}
    BY DEF TakerInit
  <2>2. {clock, timestamp, due, restarts, takerErrors, bestBlockHeight} \subseteq Nat
    BY DEF TakerInit
  <2> QED BY <2>1, <2>2, FS_EmptySet DEF TakerInit, TypesOK, TakerTypeOK
<1>2. DatesOK /\ HeartbeatsCounted /\ SeenOK /\ OpenOK /\ OnTime
  BY DEF TakerInit, DatesOK, Past, HeartbeatsCounted, SeenOK, Visible, OpenOK, Binning, OnTime, Waiting
<1>3. CountedOK(versions) /\ CountedOK(locations) /\ NodesCounted
  BY DEF TakerInit, CountedOK, NodesCounted
<1> QED BY <1>1, <1>2, <1>3 DEF TakerInv

-----------------------------------------------------------------------------
(* What is written to one snapshot. *)

\* Only the snapshot ts may have changed, and its count is right or known to be wrong.
Written(ts) ==
  /\ heartbeats' \subseteq Nat \X Nodes /\ IsFiniteSet(heartbeats')
  /\ \A h \in heartbeats \cup heartbeats' : h[1] # ts => h \in heartbeats /\ h \in heartbeats'
  /\ DOMAIN snapshots' \subseteq DOMAIN snapshots \cup {ts}
  /\ \A x \in DOMAIN snapshots : x # ts => x \in DOMAIN snapshots' /\ snapshots'[x] = snapshots[x]
  /\ \A x \in DOMAIN snapshots' : snapshots'[x] \in [height : Heights \cup {0}, reachable : Nat]
  /\ unsaved' \subseteq unsaved \cup {ts} /\ unsaved \subseteq unsaved' \cup {ts}
  /\ ts \in DOMAIN snapshots' \ unsaved' => snapshots'[ts].reachable = Count(ts)'
  /\ (\E h \in heartbeats' : h[1] = ts) => ts \in DOMAIN snapshots' \cup unsaved'

LEMMA CountType ==
  ASSUME IsFiniteSet(heartbeats), NEW ts
  PROVE  Count(ts) \in Nat
<1> DEFINE H == {h \in heartbeats : h[1] = ts}
<1>1. H \in SUBSET heartbeats
  OBVIOUS
<1>2. IsFiniteSet(H)
  BY <1>1, FS_Subset
<1> QED BY <1>2, FS_CardinalityType DEF Count

LEMMA SaveWrites ==
  ASSUME TypesOK, HeartbeatsCounted, NEW ts \in Nat, NEW height \in Heights \cup {0}, Save(ts, height)
  PROVE  Written(ts) /\ takerErrors' \in Nat
<1> USE DEF TypesOK, TakerTypeOK
<1>1. CASE SaveSnapshot(ts, height) /\ UNCHANGED <<heartbeats, takerErrors>>
  <2>1. Count(ts) \in Nat /\ Count(ts)' = Count(ts)
    BY <1>1, CountType DEF Count
  <2>2. DOMAIN snapshots' = DOMAIN snapshots \cup {ts} /\ unsaved' = unsaved \ {ts}
    BY <1>1 DEF SaveSnapshot
  <2>3. snapshots'[ts] = [height |-> height, reachable |-> Count(ts)]
    BY <1>1 DEF SaveSnapshot
  <2>4. \A x \in DOMAIN snapshots : x # ts => snapshots'[x] = snapshots[x]
    BY <1>1 DEF SaveSnapshot
  <2> QED BY <1>1, <2>1, <2>2, <2>3, <2>4 DEF Written
<1>2. CASE takerErrors' = takerErrors + 1 /\ DeleteSnapshot(ts)
  <2>0. takerErrors' \in Nat
    BY <1>2
  <2>1. CASE ts \notin DOMAIN snapshots
    BY <1>2, <2>0, <2>1 DEF DeleteSnapshot, takerTables, Written
  <2>2. CASE ts \in DOMAIN snapshots
    <3>1. PICK hearts \in BOOLEAN, row \in BOOLEAN :
            /\ heartbeats' = IF hearts THEN {h \in heartbeats : h[1] # ts} ELSE heartbeats
            /\ snapshots' = IF row THEN [t \in DOMAIN snapshots \ {ts} |-> snapshots[t]]
                            ELSE snapshots
            /\ unsaved' = unsaved \cup {ts}
      BY <1>2, <2>2 DEF DeleteSnapshot
    <3>2. heartbeats' \in SUBSET heartbeats
      BY <3>1
    <3>3. IsFiniteSet(heartbeats')
      BY <3>2, FS_Subset
    <3>4. \A h \in heartbeats : h[1] # ts => h \in heartbeats'
      BY <3>1
    <3>5. /\ DOMAIN snapshots' \subseteq DOMAIN snapshots
          /\ \A x \in DOMAIN snapshots : x # ts => x \in DOMAIN snapshots'
          /\ \A x \in DOMAIN snapshots' : snapshots'[x] = snapshots[x]
      BY <3>1
    <3> QED BY <2>0, <3>1, <3>2, <3>3, <3>4, <3>5 DEF Written
  <2> QED BY <2>1, <2>2
<1>3. CASE UNCHANGED <<takerTables, unsaved>> /\ takerErrors' = takerErrors + 1
  BY <1>3 DEF Written, takerTables, HeartbeatsCounted, Count
<1> QED BY <1>1, <1>2, <1>3 DEF Save

\* The counts of other snapshots stay.
LEMMA OthersStay ==
  ASSUME NEW ts, Written(ts)
  PROVE  \A x \in Nat : x # ts => Count(x)' = Count(x)
<1> TAKE x \in Nat
<1> HAVE x # ts
<1>1. {h \in heartbeats' : h[1] = x} = {h \in heartbeats : h[1] = x}
  BY DEF Written
<1> QED BY <1>1 DEF Count

\* A write keeps the heartbeats counted.
LEMMA WrittenCounted ==
  ASSUME TypesOK, HeartbeatsCounted, NEW ts \in Nat, Written(ts)
  PROVE  HeartbeatsCounted'
<1>1. ASSUME NEW x \in DOMAIN snapshots' \ unsaved' PROVE snapshots'[x].reachable = Count(x)'
  <2>1. CASE x = ts
    BY <1>1, <2>1 DEF Written
  <2>2. CASE x # ts
    <3>1. x \in DOMAIN snapshots \ unsaved /\ snapshots'[x] = snapshots[x] /\ x \in Nat
      BY <1>1, <2>2 DEF Written, TypesOK, TakerTypeOK
    <3>2. Count(x)' = Count(x)
      BY <2>2, <3>1, OthersStay
    <3> QED BY <3>1, <3>2 DEF HeartbeatsCounted
  <2> QED BY <2>1, <2>2
<1>2. ASSUME NEW h \in heartbeats' PROVE h[1] \in DOMAIN snapshots' \cup unsaved'
  <2>1. CASE h[1] = ts
    BY <2>1 DEF Written
  <2>2. CASE h[1] # ts
    BY <2>2 DEF Written, HeartbeatsCounted
  <2> QED BY <2>1, <2>2
<1> QED BY <1>1, <1>2 DEF HeartbeatsCounted

\* NodesCounted of one of the two tables.
NodesOf(t) ==
  /\ \A x \in DOMAIN t \ reopened : t[x] = Count(x)
  /\ \A x \in DOMAIN snapshots \ reopened : Count(x) > 0 /\ x < LastEntryOf(t) => x \in DOMAIN t

LEMMA NodesOfBoth == NodesCounted <=> NodesOf(versions) /\ NodesOf(locations)
  BY DEF NodesCounted, NodesOf

\* A write to a snapshot that is not closed is to one newer than all that are counted, and
\* one to a closed snapshot is excused.
LEMMA WrittenNodes ==
  ASSUME TypesOK, DatesOK, NEW t, Past(DOMAIN t), DOMAIN t \subseteq Nat, NodesOf(t),
         NEW ts \in Nat, Written(ts), Touch(ts),
         ts \in DOMAIN t => ts \in closed,
         ts \notin closed => \A x \in DOMAIN t : x <= ts
  PROVE  NodesOf(t)'
<1>1. reopened \subseteq reopened' /\ (ts \in closed => ts \in reopened')
  BY DEF Touch
<1>2. \A x \in Nat : x # ts => Count(x)' = Count(x)
  BY OthersStay
<1>3. ASSUME NEW x \in DOMAIN t, x \notin reopened' PROVE t[x] = Count(x)'
  <2>1. x # ts /\ x \in Nat /\ x \notin reopened
    BY <1>1, <1>3
  <2> QED BY <1>2, <2>1 DEF NodesOf
<1>4. ASSUME NEW x \in DOMAIN snapshots', x \notin reopened', Count(x)' > 0, x < LastEntryOf(t)
      PROVE  x \in DOMAIN t
  <2>1. /\ LastEntryOf(t) \in {0} \cup DOMAIN t /\ LastEntryOf(t) \in Nat
        /\ \A y \in DOMAIN t : y <= LastEntryOf(t)
    BY LastIn DEF TypesOK, TakerTypeOK
  <2>2. x # ts
    BY <1>1, <1>4, <2>1
  <2>3. x \in DOMAIN snapshots /\ x \in Nat /\ x \notin reopened
    BY <1>1, <1>4, <2>2 DEF Written, TypesOK, TakerTypeOK
  <2>4. Count(x) > 0
    BY <1>2, <1>4, <2>2, <2>3
  <2> QED BY <1>4, <2>3, <2>4 DEF NodesOf
<1>5. LastEntryOf(t)' = LastEntryOf(t)
  BY DEF LastEntryOf
<1> QED BY <1>3, <1>4, <1>5 DEF NodesOf

\* The same for both tables, when the write is to the snapshot at work afterwards.
LEMMA WrittenNodesCounted ==
  ASSUME TypesOK, DatesOK, NodesCounted, UNCHANGED counts,
         NEW ts \in Nat, Written(ts), Touch(ts),
         \A x \in (DOMAIN versions \cup DOMAIN locations) \ closed : x # ts,
         ts \notin closed => \A x \in DOMAIN versions \cup DOMAIN locations : x <= ts
  PROVE  NodesCounted'
<1>1. PICK v, w : v = versions /\ w = locations
  OBVIOUS
<1>2. versions' = v /\ locations' = w
  BY <1>1 DEF counts
<1>3. NodesOf(v) /\ NodesOf(w)
  BY <1>1, NodesOfBoth DEF NodesOf
<1>4. DOMAIN v \subseteq Nat /\ DOMAIN w \subseteq Nat /\ Past(DOMAIN v) /\ Past(DOMAIN w)
  BY <1>1 DEF TypesOK, TakerTypeOK, DatesOK
<1>5. NodesOf(v)'
  BY <1>1, <1>3, <1>4, WrittenNodes
<1>6. NodesOf(w)'
  BY <1>1, <1>3, <1>4, WrittenNodes
<1>7. NodesOf(versions)' /\ NodesOf(locations)'
  BY <1>2, <1>5, <1>6 DEF NodesOf
<1> QED BY <1>7, NodesOfBoth, PTL

-----------------------------------------------------------------------------
(* The steps. *)

\* A write to the snapshot at work, between two ticks.
LEMMA WorkWritten ==
  ASSUME TakerInv, Written(timestamp), Touch(timestamp), takerAt \in Waiting, takerAt' \in Waiting,
         UNCHANGED <<clock, counts, timestamp, due, closed, lateStart>>, TypesOK'
  PROVE  TakerInv'
<1> USE DEF Waiting, Binning, TypesOK, TakerTypeOK
<1>1. timestamp \in Nat /\ 1 <= timestamp /\ timestamp <= clock
  BY DEF TakerInv, DatesOK
<1>2. DatesOK'
  BY <1>1 DEF TakerInv, DatesOK, Past, Written, counts
<1>3. HeartbeatsCounted'
  BY <1>1, WrittenCounted DEF TakerInv
<1>4. SeenOK'
  <2>1. \A x \in Visible' : x = timestamp \/ x \in Visible
    BY DEF Visible, Written
  <2> QED BY <1>1, <2>1 DEF TakerInv, SeenOK
<1>5. OpenOK'
  BY DEF TakerInv, OpenOK, Written
<1>6. CountedOK(versions)' /\ CountedOK(locations)'
  BY DEF TakerInv, CountedOK, counts
<1>7. NodesCounted'
  BY <1>1, WrittenNodesCounted DEF TakerInv, CountedOK
<1>8. OnTime'
  BY DEF TakerInv, OnTime, Touch
<1> QED BY <1>2, <1>3, <1>4, <1>5, <1>6, <1>7, <1>8 DEF TakerInv

LEMMA TickInv == TakerInv /\ Tick => TakerInv'
<1> SUFFICES ASSUME TakerInv, Tick PROVE TakerInv'
  OBVIOUS
<1> USE DEF Tick, takerTables, counts, takerLocal, takerBounds, takerHistory, TypesOK, TakerTypeOK
<1>0. clock \in Nat /\ SnapshotInterval \in Nat /\ closed \subseteq Nat /\ DOMAIN snapshots \subseteq Nat
  BY TakerAssumption DEF TakerInv, TakerAssumption
<1>1. TypesOK'
  BY DEF TakerInv
<1>2. DatesOK'
  BY <1>0 DEF TakerInv, DatesOK, Past
<1>3. HeartbeatsCounted' /\ NodesCounted'
  BY DEF TakerInv, HeartbeatsCounted, NodesCounted, Count, LastEntryOf
<1>4. SeenOK'
  BY <1>0 DEF TakerInv, SeenOK, Visible
<1>5. OpenOK'
  BY <1>0 DEF TakerInv, OpenOK
<1>6. CountedOK(versions)' /\ CountedOK(locations)'
  BY <1>0 DEF TakerInv, CountedOK
<1>7. OnTime'
  BY <1>0 DEF TakerInv, OnTime
<1> QED BY <1>1, <1>2, <1>3, <1>4, <1>5, <1>6, <1>7 DEF TakerInv

LEMMA SaveHeartbeatInv ==
  ASSUME TakerInv, NEW n \in Nodes, NEW height \in Heights, NEW ok \in BOOLEAN,
         SaveHeartbeat(n, height, ok)
  PROVE  TakerInv'
<1>1. CASE ok
  <2>1. /\ heartbeats' = heartbeats \cup {<<timestamp, n>>} /\ unsaved' = unsaved \cup {timestamp}
        /\ Touch(timestamp) /\ node' = height /\ takerAt = "loop" /\ takerAt' = "save"
        /\ UNCHANGED <<clock, snapshots, counts, timestamp, bestBlockHeight, due, restarts,
                       takerErrors, closed, lateStart, resumed>>
    BY <1>1 DEF SaveHeartbeat
  <2>2. IsFiniteSet(heartbeats')
    BY <2>1, FS_AddElement DEF TakerInv, TypesOK
  <2>3. TypesOK'
    BY <2>1, <2>2 DEF TakerInv, TypesOK, TakerTypeOK, Touch, counts
  <2>4. Written(timestamp)
    BY <2>1, <2>2 DEF TakerInv, TypesOK, TakerTypeOK, Written
  <2> QED BY <2>1, <2>3, <2>4, WorkWritten DEF Waiting
<1>2. CASE ~ok
  <2>1. UNCHANGED <<clock, takerTables, counts, takerAt, takerLocal, due, takerHistory, restarts>>
        /\ takerErrors' = takerErrors + 1
    BY <1>2 DEF SaveHeartbeat, takerTables, takerLocal, takerHistory
  <2> USE DEF takerTables, counts, takerLocal, takerHistory
  <2>2. TypesOK'
    BY <2>1 DEF TakerInv, TypesOK, TakerTypeOK
  <2>3. DatesOK' /\ HeartbeatsCounted' /\ SeenOK' /\ OpenOK'
    BY <2>1 DEF TakerInv, DatesOK, Past, HeartbeatsCounted, Count, SeenOK, Visible, OpenOK
  <2>4. CountedOK(versions)' /\ CountedOK(locations)' /\ NodesCounted' /\ OnTime'
    BY <2>1 DEF TakerInv, CountedOK, NodesCounted, Count, LastEntryOf, OnTime
  <2> QED BY <2>2, <2>3, <2>4 DEF TakerInv
<1> QED BY <1>1, <1>2

LEMMA NodeSavedInv == TakerInv /\ NodeSaved => TakerInv'
<1> SUFFICES ASSUME TakerInv, NodeSaved PROVE TakerInv'
  OBVIOUS
<1> USE DEF TypesOK, TakerTypeOK
<1>1. /\ takerAt = "save" /\ takerAt' = "loop" /\ node' = 0
      /\ bestBlockHeight' = Max({bestBlockHeight, node})
      /\ Save(timestamp, bestBlockHeight') /\ Touch(timestamp)
      /\ UNCHANGED <<clock, counts, timestamp, due, restarts, closed, lateStart, resumed>>
  BY DEF NodeSaved
<1>2. bestBlockHeight' \in {bestBlockHeight, node}
  <2>1. bestBlockHeight \in Nat /\ node \in Nat
    BY TakerAssumption DEF TakerInv, TakerAssumption
  <2>2. {bestBlockHeight, node} \in SUBSET Nat /\ \A x \in {bestBlockHeight, node} : x <= bestBlockHeight + node
    BY <2>1
  <2>3. bestBlockHeight + node \in Nat
    BY <2>1
  <2> QED BY <1>1, <2>2, <2>3, MaxIn
<1>3. Written(timestamp) /\ takerErrors' \in Nat
  BY <1>1, <1>2, SaveWrites DEF TakerInv
<1>4. TypesOK'
  <2>1. bestBlockHeight' \in Heights \cup {0} /\ bestBlockHeight' \in Nat
    BY <1>2, TakerAssumption DEF TakerInv, TakerAssumption
  <2>2. DOMAIN snapshots' \subseteq Nat /\ closed' \cup unsaved' \cup reopened' \subseteq Nat
    BY <1>1, <1>3 DEF TakerInv, Written, Touch
  <2> QED BY <1>1, <1>3, <2>1, <2>2 DEF TakerInv, Written, counts
<1> QED BY <1>1, <1>3, <1>4, WorkWritten DEF Waiting

\* What Begin takes over is the snapshot that was at work, or it is closed.
LEMMA TakeoverOK ==
  ASSUME TakerInv, Visible # {}, Young(Max(Visible))
  PROVE  /\ Max(Visible) \in Visible /\ \A x \in Visible : x <= Max(Visible)
         /\ Max(Visible) = timestamp \/ Max(Visible) \in closed
<1>1. Max(Visible) \in Visible /\ \A x \in Visible : x <= Max(Visible)
  BY NewestSeen DEF TakerInv
<1>2. Max(Visible) \in Nat /\ clock \in Nat /\ SnapshotInterval \in Nat
  BY <1>1, TakerAssumption DEF Visible, TakerInv, TypesOK, TakerTypeOK, TakerAssumption
<1>3. ~(Max(Visible) + SnapshotInterval <= clock)
  BY <1>2 DEF Young
<1> QED BY <1>1, <1>3 DEF TakerInv, SeenOK

LEMMA BeginInv ==
  ASSUME TakerInv, NEW known \in BOOLEAN, Begin(known)
  PROVE  TakerInv'
<1> USE DEF TypesOK, TakerTypeOK
<1> DEFINE takeover == Visible # {} /\ Young(Max(Visible))
<1>1. PICK ts, height :
        /\ ts = (IF takeover THEN Max(Visible) ELSE clock)
        /\ height = (IF takeover THEN snapshots[ts].height ELSE 0)
        /\ timestamp' = ts /\ resumed' = takeover
        /\ IF known THEN Save(ts, height) /\ Touch(ts)
           ELSE UNCHANGED <<takerTables, takerErrors, unsaved, reopened>>
  BY DEF Begin
<1>2. /\ takerAt = "start" /\ takerAt' = "loop" /\ due' = clock + SnapshotInterval
      /\ bestBlockHeight' = 0 /\ node' = 0
      /\ UNCHANGED <<clock, counts, restarts, closed, lateStart>>
  BY DEF Begin
<1>3. /\ clock \in Nat /\ SnapshotInterval \in Nat \ {0} /\ timestamp \in Nat
      /\ DOMAIN snapshots \subseteq Nat /\ Visible \subseteq Nat
  BY TakerAssumption DEF TakerInv, TakerAssumption, Visible
\* The snapshot at work afterwards.
<1>4. /\ ts \in Nat /\ 1 <= ts /\ ts <= clock /\ height \in Heights \cup {0}
      /\ \A x \in Visible : x # ts => x < ts /\ (x \in closed \/ x + SnapshotInterval <= clock)
      /\ \A x \in (DOMAIN versions \cup DOMAIN locations) \ closed : x # ts
      /\ ts \notin closed => \A x \in DOMAIN versions \cup DOMAIN locations : x <= ts
      /\ lateStart \/ ts \notin closed
  <2>1. CASE takeover
    <3>1. /\ ts = Max(Visible) /\ ts \in Visible /\ \A x \in Visible : x <= ts
          /\ ts = timestamp \/ ts \in closed
      BY <1>1, <2>1, TakeoverOK
    <3>2. ts \in DOMAIN snapshots /\ height = snapshots[ts].height
      BY <1>1, <2>1, <3>1 DEF Visible
    <3>3. ts \in Nat /\ 1 <= ts /\ ts <= clock /\ height \in Heights \cup {0}
      BY <3>2 DEF TakerInv, DatesOK, Past
    <3>4. \A x \in Visible : x # ts => x < ts /\ (x \in closed \/ x + SnapshotInterval <= clock)
      BY <1>3, <3>1, <3>3 DEF TakerInv, SeenOK
    <3>5. ~(ts + SnapshotInterval <= clock)
      BY <1>3, <2>1, <3>1, <3>3 DEF Young
    <3> QED BY <3>1, <3>3, <3>4, <3>5 DEF TakerInv, CountedOK, OnTime
  <2>2. CASE ~takeover
    <3>1. ts = clock /\ height = 0
      BY <1>1, <2>2
    <3>2. \A x \in Visible : x + SnapshotInterval <= clock /\ x \in Nat
      <4>1. CASE Visible # {}
        <5>1. Max(Visible) \in Visible /\ \A x \in Visible : x <= Max(Visible)
          BY <4>1, NewestSeen DEF TakerInv
        <5>2. PICK m \in Nat : m = Max(Visible) /\ \A x \in Visible : x <= m
          BY <1>3, <5>1
        <5>3. ~(clock - m < SnapshotInterval)
          BY <2>2, <4>1, <5>2 DEF Young
        <5> QED BY <1>3, <5>2, <5>3
      <4> QED BY <4>1
    <3>3. \A x \in closed : lateStart \/ (x \in Nat /\ x + SnapshotInterval <= clock)
      BY DEF TakerInv, OnTime
    <3>4. lateStart \/ clock \notin closed
      BY <1>3, <3>3
    <3>5. 1 <= clock /\ \A x \in DOMAIN versions \cup DOMAIN locations : x <= clock
      BY DEF TakerInv, DatesOK, Past
    <3>6. \A x \in (DOMAIN versions \cup DOMAIN locations) \ closed : x < clock
      BY DEF TakerInv, CountedOK
    <3> QED BY <1>3, <3>1, <3>2, <3>4, <3>5, <3>6
  <2> QED BY <2>1, <2>2
<1>5. CASE known
  <2>1. Save(ts, height) /\ Touch(ts)
    BY <1>1, <1>5
  <2>2. Written(ts) /\ takerErrors' \in Nat
    BY <1>4, <2>1, SaveWrites DEF TakerInv
  <2>3. TypesOK'
    BY <1>1, <1>2, <1>3, <1>4, <2>1, <2>2 DEF TakerInv, Written, Touch, counts
  <2>4. DatesOK'
    BY <1>1, <1>2, <1>4, <2>2 DEF TakerInv, DatesOK, Past, Written, counts
  <2>5. HeartbeatsCounted'
    BY <1>4, <2>2, WrittenCounted DEF TakerInv
  <2>6. SeenOK'
    <3>1. \A x \in Visible' : x = ts \/ x \in Visible
      BY <2>2 DEF Visible, Written
    <3>2. ASSUME NEW x \in Visible, x # ts
          PROVE  x <= ts /\ (x \in closed \/ x + SnapshotInterval <= clock)
      BY <1>3, <1>4, <3>2
    <3>3. timestamp' = ts /\ ts \in Nat /\ UNCHANGED <<clock, closed>>
      BY <1>1, <1>2, <1>4
    <3>4. ASSUME NEW x \in Visible'
          PROVE  x <= timestamp' /\ (x # timestamp' => x \in closed' \/ x + SnapshotInterval <= clock')
      BY <3>1, <3>2, <3>3
    <3> QED BY <3>4 DEF SeenOK
  <2>7. OpenOK'
    <3>1. \A x \in DOMAIN snapshots' : x \in Nat /\ x <= clock
      BY <1>4, <2>2 DEF TakerInv, DatesOK, Past, Written
    <3> QED BY <1>2, <1>3, <3>1 DEF OpenOK, Binning
  <2>8. CountedOK(versions)' /\ CountedOK(locations)'
    BY <1>1, <1>2, <1>4 DEF TakerInv, CountedOK, counts
  <2>9. NodesCounted'
    BY <1>2, <1>4, <2>1, <2>2, WrittenNodesCounted DEF TakerInv
  <2>10. OnTime'
    BY <1>1, <1>2, <1>3, <1>4, <2>1 DEF TakerInv, OnTime, Waiting, Touch
  <2> QED BY <2>3, <2>4, <2>5, <2>6, <2>7, <2>8, <2>9, <2>10 DEF TakerInv
<1>6. CASE ~known
  <2>1. UNCHANGED <<heartbeats, snapshots, takerErrors, unsaved, reopened>>
    BY <1>1, <1>6 DEF takerTables
  <2>3. TypesOK'
    BY <1>1, <1>2, <1>3, <1>4, <2>1 DEF TakerInv, counts
  <2>4. DatesOK'
    BY <1>1, <1>2, <1>4, <2>1 DEF TakerInv, DatesOK, Past, counts
  <2>5. HeartbeatsCounted' /\ NodesCounted'
    BY <1>2, <2>1 DEF TakerInv, HeartbeatsCounted, NodesCounted, Count, LastEntryOf, counts
  <2>6. SeenOK'
    <3>1. Visible' = Visible
      BY <2>1 DEF Visible
    <3>2. ASSUME NEW x \in Visible, x # ts
          PROVE  x <= ts /\ (x \in closed \/ x + SnapshotInterval <= clock)
      BY <1>3, <1>4, <3>2
    <3>3. timestamp' = ts /\ ts \in Nat /\ UNCHANGED <<clock, closed>>
      BY <1>1, <1>2, <1>4
    <3>4. ASSUME NEW x \in Visible'
          PROVE  x <= timestamp' /\ (x # timestamp' => x \in closed' \/ x + SnapshotInterval <= clock')
      BY <3>1, <3>2, <3>3
    <3> QED BY <3>4 DEF SeenOK
  <2>7. OpenOK'
    <3>1. \A x \in DOMAIN snapshots : x \in Nat /\ x <= clock
      BY DEF TakerInv, DatesOK, Past
    <3> QED BY <1>2, <1>3, <2>1, <3>1 DEF OpenOK, Binning
  <2>8. CountedOK(versions)' /\ CountedOK(locations)'
    BY <1>1, <1>2, <1>4 DEF TakerInv, CountedOK, counts
  <2>10. OnTime'
    BY <1>1, <1>2, <1>3, <1>4, <2>1 DEF TakerInv, OnTime, Waiting
  <2> QED BY <2>3, <2>4, <2>5, <2>6, <2>7, <2>8, <2>10 DEF TakerInv
<1> QED BY <1>5, <1>6

\* What the update of one table adds: every snapshot behind its newest row that somebody was
\* heard from in.
LEMMA UpdateAdds ==
  ASSUME NEW t, NEW u, u = Insert(t, peerCountsByTime(LastEntryOf(t))), TakerInv, CountedOK(t),
         NodesOf(t), Past(DOMAIN t), DOMAIN t \subseteq Nat, takerAt \in Binning
  PROVE  CountedOK(u) /\ NodesOf(u) /\ Past(DOMAIN u) /\ DOMAIN u \subseteq Nat
<1> USE DEF TypesOK, TakerTypeOK
<1> DEFINE N == {x \in DOMAIN snapshots : x > LastEntryOf(t) /\ Count(x) > 0}
<1>1. DOMAIN u = DOMAIN t \cup N
  BY DEF peerCountsByTime, Insert
<1>2. \A x \in DOMAIN t : u[x] = t[x]
  BY DEF peerCountsByTime, Insert
<1>3. \A x \in N : x \notin DOMAIN t => u[x] = Count(x)
  BY DEF peerCountsByTime, Insert
<1>4. DOMAIN u \subseteq Nat /\ Past(DOMAIN u)
  BY <1>1 DEF TakerInv, DatesOK, Past
<1>5. timestamp \in closed /\ \A x \in DOMAIN snapshots \ closed : x < clock
  BY DEF TakerInv, OpenOK
<1>6. CountedOK(u)
  BY <1>1, <1>5 DEF CountedOK
<1>7. /\ LastEntryOf(t) \in {0} \cup DOMAIN t /\ LastEntryOf(t) \in Nat
      /\ \A x \in DOMAIN t : x <= LastEntryOf(t)
  BY LastIn DEF TakerInv
<1>8. \A x \in DOMAIN u \ reopened : u[x] = Count(x)
  BY <1>1, <1>2, <1>3 DEF NodesOf
<1>9. ASSUME NEW x \in DOMAIN snapshots \ reopened, Count(x) > 0 PROVE x \in DOMAIN u
  <2>1. x \in Nat /\ 1 <= x
    BY DEF TakerInv, DatesOK, Past
  <2>2. CASE x > LastEntryOf(t)
    BY <1>1, <1>9, <2>2
  <2>3. CASE x = LastEntryOf(t)
    BY <1>1, <1>7, <2>1, <2>3
  <2>4. CASE x < LastEntryOf(t)
    BY <1>1, <1>9, <2>4 DEF NodesOf
  <2> QED BY <1>7, <2>1, <2>2, <2>3, <2>4
<1>10. NodesOf(u)
  BY <1>8, <1>9 DEF NodesOf
<1> QED BY <1>4, <1>6, <1>10

LEMMA UpdateInv == TakerInv /\ (UpdateNodeVersion \/ UpdateNodeLocation) => TakerInv'
<1> SUFFICES ASSUME TakerInv, UpdateNodeVersion \/ UpdateNodeLocation PROVE TakerInv'
  OBVIOUS
<1> USE DEF TypesOK, TakerTypeOK, takerTables, takerLocal, takerBounds, takerHistory, Binning,
            UpdateNodeVersion, UpdateNodeLocation
<1>1. /\ takerAt \in Binning /\ takerAt' \in Binning
      /\ UNCHANGED <<clock, takerTables, takerLocal, due, takerBounds, takerHistory>>
  OBVIOUS
<1>2. NodesOf(versions) /\ NodesOf(locations)
  BY NodesOfBoth DEF TakerInv
<1>3. ASSUME NEW t, CountedOK(t), NodesOf(t) PROVE CountedOK(t)' /\ NodesOf(t)'
  BY <1>1, <1>3 DEF CountedOK, NodesOf, Count, LastEntryOf
<1>4. PICK v, w : v = versions' /\ w = locations'
  OBVIOUS
<1>5. /\ CountedOK(v) /\ NodesOf(v) /\ Past(DOMAIN v) /\ DOMAIN v \subseteq Nat
      /\ CountedOK(w) /\ NodesOf(w) /\ Past(DOMAIN w) /\ DOMAIN w \subseteq Nat
  <2>1. /\ CountedOK(versions) /\ Past(DOMAIN versions) /\ DOMAIN versions \subseteq Nat
        /\ CountedOK(locations) /\ Past(DOMAIN locations) /\ DOMAIN locations \subseteq Nat
    BY DEF TakerInv, DatesOK
  <2>2. CASE UpdateNodeVersion
    <3>1. v = Insert(versions, peerCountsByTime(LastEntryOf(versions))) /\ w = locations
      BY <1>4, <2>2 DEF fetchSnapshotNodeVersions, peerCountByUserAgentsByTime
    <3>2. CountedOK(v) /\ NodesOf(v) /\ Past(DOMAIN v) /\ DOMAIN v \subseteq Nat
      BY <1>1, <1>2, <2>1, <3>1, UpdateAdds
    <3> QED BY <1>2, <2>1, <3>1, <3>2
  <2>3. CASE UpdateNodeLocation
    <3>1. w = Insert(locations, peerCountsByTime(LastEntryOf(locations))) /\ v = versions
      BY <1>4, <2>3 DEF fetchNodeLocationChart, peerCountByCountriesByTime
    <3>2. CountedOK(w) /\ NodesOf(w) /\ Past(DOMAIN w) /\ DOMAIN w \subseteq Nat
      BY <1>1, <1>2, <2>1, <3>1, UpdateAdds
    <3> QED BY <1>2, <2>1, <3>1, <3>2
  <2> QED BY <2>2, <2>3
<1>6. CountedOK(versions)' /\ CountedOK(locations)'
  BY <1>1, <1>4, <1>5 DEF CountedOK
<1>7. NodesOf(versions)' /\ NodesOf(locations)'
  BY <1>1, <1>4, <1>5 DEF NodesOf, Count, LastEntryOf
<1>8. NodesCounted'
  BY <1>7, NodesOfBoth, PTL
<1>9. TypesOK'
  BY <1>1, <1>4, <1>5 DEF TakerInv
<1>10. DatesOK' /\ HeartbeatsCounted' /\ SeenOK' /\ OpenOK' /\ OnTime'
  BY <1>1, <1>4, <1>5 DEF TakerInv, DatesOK, Past, HeartbeatsCounted, Count, SeenOK, Visible, OpenOK,
                          OnTime, Waiting
<1> QED BY <1>6, <1>8, <1>9, <1>10 DEF TakerInv

LEMMA CloseSnapshotInv == TakerInv /\ CloseSnapshot => TakerInv'
<1> SUFFICES ASSUME TakerInv, CloseSnapshot PROVE TakerInv'
  OBVIOUS
<1> USE DEF TypesOK, TakerTypeOK, Binning, Waiting
<1>1. /\ takerAt = "loop" /\ takerAt' = "bins" /\ clock >= due /\ due' = NextDue
      /\ Save(timestamp, bestBlockHeight) /\ Touch(timestamp)
      /\ closed' = closed \cup {timestamp}
      /\ UNCHANGED <<clock, counts, takerLocal, restarts, lateStart, resumed>>
  BY DEF CloseSnapshot
<1>2. timestamp \in Nat /\ 1 <= timestamp /\ timestamp <= clock
  BY <1>1 DEF TakerInv, DatesOK
<1>3. Written(timestamp) /\ takerErrors' \in Nat
  BY <1>1, <1>2, SaveWrites DEF TakerInv
<1>4. due' \in Nat /\ due' >= due
  BY <1>1, DueGrows DEF TakerInv
<1>5. TypesOK'
  <2>1. DOMAIN snapshots' \subseteq Nat /\ closed' \cup unsaved' \cup reopened' \subseteq Nat
    BY <1>1, <1>2, <1>3 DEF TakerInv, Written, Touch
  <2> QED BY <1>1, <1>3, <1>4, <2>1 DEF TakerInv, Written, counts, takerLocal
<1>6. DatesOK'
  BY <1>1, <1>2, <1>3 DEF TakerInv, DatesOK, Past, Written, counts, takerLocal
<1>7. HeartbeatsCounted'
  BY <1>2, <1>3, WrittenCounted DEF TakerInv
<1>8. SeenOK'
  <2>1. \A x \in Visible' : x = timestamp \/ x \in Visible
    BY <1>3 DEF Visible, Written
  <2> QED BY <1>1, <1>2, <2>1 DEF TakerInv, SeenOK, takerLocal
<1>9. OpenOK'
  <2>1. timestamp' \in closed' /\ DOMAIN snapshots' \ closed' \subseteq DOMAIN snapshots \ closed
    BY <1>1, <1>3 DEF Written, takerLocal
  <2>2. ASSUME NEW x \in DOMAIN snapshots \ closed, x # timestamp PROVE x < clock /\ x < due'
    <3>1. x \in Nat /\ x < due
      BY <1>1, <2>2 DEF TakerInv, OpenOK
    <3> QED BY <1>1, <1>4, <3>1 DEF TakerInv
  <2> QED BY <1>1, <2>1, <2>2 DEF OpenOK, takerLocal
<1>10. CountedOK(versions)' /\ CountedOK(locations)'
  BY <1>1 DEF TakerInv, CountedOK, counts, takerLocal
<1>11. NodesCounted'
  BY <1>1, <1>2, <1>3, WrittenNodesCounted DEF TakerInv, CountedOK
<1>12. OnTime'
  <2>1. CASE lateStart
    BY <1>1, <2>1 DEF OnTime
  <2>2. CASE ~lateStart
    <3>1. /\ reopened = {} /\ timestamp \notin closed /\ timestamp + SnapshotInterval <= due
          /\ \A x \in closed : x + SnapshotInterval <= clock
      BY <1>1, <2>2 DEF TakerInv, OnTime
    <3>2. SnapshotInterval \in Nat
      BY TakerAssumption DEF TakerAssumption
    <3>3. timestamp + SnapshotInterval <= clock /\ timestamp + SnapshotInterval <= due'
      BY <1>1, <1>2, <1>4, <3>1, <3>2 DEF TakerInv
    <3>4. reopened' = {}
      BY <1>1, <3>1 DEF Touch
    <3> QED BY <1>1, <3>1, <3>3, <3>4 DEF OnTime, takerLocal
  <2> QED BY <2>1, <2>2
<1> QED BY <1>5, <1>6, <1>7, <1>8, <1>9, <1>10, <1>11, <1>12 DEF TakerInv

LEMMA NextSnapshotInv == TakerInv /\ NextSnapshot => TakerInv'
<1> SUFFICES ASSUME TakerInv, NextSnapshot PROVE TakerInv'
  OBVIOUS
<1> USE DEF TypesOK, TakerTypeOK, Binning, Waiting
<1>1. /\ takerAt \in Binning /\ takerAt' = "loop" /\ timestamp' = clock /\ resumed' = FALSE
      /\ lateStart' = (lateStart \/ clock + SnapshotInterval > due)
      /\ UNCHANGED <<clock, takerTables, counts, bestBlockHeight, node, due, takerBounds, closed,
                     unsaved, reopened>>
  BY DEF NextSnapshot
<1>2. clock \in Nat /\ due \in Nat /\ timestamp \in Nat /\ SnapshotInterval \in Nat \ {0}
  BY TakerAssumption DEF TakerInv, TakerAssumption
<1>3. timestamp \in closed /\ \A x \in DOMAIN snapshots \ closed : x < clock
  BY <1>1 DEF TakerInv, OpenOK
<1>4. TypesOK' /\ DatesOK'
  <2>1. lateStart' \in BOOLEAN /\ resumed' \in BOOLEAN
    BY <1>1, Zenon
  <2>2. UNCHANGED <<clock, takerTables, counts, bestBlockHeight, node, due, takerBounds, closed,
                    unsaved, reopened>>
        /\ timestamp' = clock /\ takerAt' = "loop"
    BY <1>1, Zenon
  <2> QED BY <1>2, <2>1, <2>2 DEF TakerInv, DatesOK, Past, takerTables, counts, takerBounds
<1>5. HeartbeatsCounted' /\ NodesCounted'
  BY <1>1 DEF TakerInv, HeartbeatsCounted, NodesCounted, Count, LastEntryOf, takerTables, counts
<1>6. SeenOK'
  <2>1. \A x \in Visible : x <= clock /\ (x \in closed \/ x + SnapshotInterval <= clock)
    BY <1>3 DEF TakerInv, SeenOK, Visible, DatesOK, Past
  <2>2. Visible' = Visible
    BY <1>1 DEF Visible, takerTables
  <2> QED BY <1>1, <2>1, <2>2 DEF SeenOK
<1>7. OpenOK'
  <2>1. ASSUME NEW x \in DOMAIN snapshots \ closed PROVE x < due
    <3>1. x # timestamp
      BY <1>3
    <3> QED BY <1>1, <3>1 DEF TakerInv, OpenOK
  <2> QED BY <1>1, <2>1 DEF OpenOK, takerTables
<1>8. CountedOK(versions)' /\ CountedOK(locations)'
  <2>1. \A x \in DOMAIN versions \cup DOMAIN locations : x \in Nat /\ x <= clock
    BY DEF TakerInv, DatesOK, Past
  <2>2. \A x \in (DOMAIN versions \cup DOMAIN locations) \ closed : x < clock
    BY DEF TakerInv, CountedOK
  <2> QED BY <1>1, <1>2, <2>1, <2>2 DEF CountedOK, counts
<1>9. OnTime'
  <2>1. CASE lateStart'
    BY <2>1 DEF OnTime
  <2>2. CASE ~lateStart'
    <3>0. ~lateStart /\ ~(clock + SnapshotInterval > due)
      BY <1>1, <2>2, Zenon
    <3>1. ~lateStart /\ clock + SnapshotInterval <= due
      BY <1>2, <3>0
    <3>2. reopened = {} /\ \A x \in closed : x + SnapshotInterval <= clock
      BY <3>1 DEF TakerInv, OnTime
    <3>3. clock \notin closed
      BY <1>2, <3>2
    <3> QED BY <1>1, <3>1, <3>2, <3>3 DEF OnTime
  <2> QED BY <2>1, <2>2
<1> QED BY <1>4, <1>5, <1>6, <1>7, <1>8, <1>9 DEF TakerInv

LEMMA RestartInv == TakerInv /\ (Restart \/ UNCHANGED takerVars) => TakerInv'
<1> SUFFICES ASSUME TakerInv, Restart \/ UNCHANGED takerVars PROVE TakerInv'
  OBVIOUS
<1> USE DEF takerTables, counts, takerLocal, takerBounds, takerHistory
<1>1. /\ UNCHANGED <<clock, takerTables, counts, takerLocal, due, takerErrors, takerHistory>>
      /\ takerAt' \in {"start", takerAt} /\ restarts' \in {restarts, restarts + 1}
  BY DEF Restart, takerVars
<1>2. TypesOK'
  BY <1>1 DEF TakerInv, TypesOK, TakerTypeOK
<1>3. DatesOK' /\ HeartbeatsCounted' /\ SeenOK' /\ OpenOK'
  BY <1>1 DEF TakerInv, DatesOK, Past, HeartbeatsCounted, Count, SeenOK, Visible, OpenOK, Binning
<1>4. CountedOK(versions)' /\ CountedOK(locations)' /\ NodesCounted' /\ OnTime'
  BY <1>1 DEF TakerInv, CountedOK, NodesCounted, Count, LastEntryOf, OnTime, Waiting
<1> QED BY <1>2, <1>3, <1>4 DEF TakerInv

-----------------------------------------------------------------------------
(* The theorems. *)

\* Every reachable state of the taker and its tables satisfies the inductive invariant.
THEOREM TakerInvariant == TakerSpec => []TakerInv
<1>1. TakerInv /\ [TakerNext]_takerVars => TakerInv'
  BY TickInv, BeginInv, SaveHeartbeatInv, NodeSavedInv, CloseSnapshotInv, UpdateInv,
     NextSnapshotInv, RestartInv DEF TakerNext
<1> QED BY <1>1, TakerInitInv, PTL DEF TakerSpec

\* The taker's variables and tables keep their types.
THEOREM TakerTypeCorrect == TakerSpec => []TakerTypeOK
<1>1. TakerInv => TakerTypeOK
  BY DEF TakerInv, TypesOK
<1> QED BY <1>1, TakerInvariant, PTL

\* A snapshot's count is that of its heartbeats, and no heartbeat is without its snapshot,
\* except where a save failed or the process died before it.
THEOREM HeartbeatsAreCounted == TakerSpec => []HeartbeatsCounted
<1>1. TakerInv => HeartbeatsCounted
  BY DEF TakerInv
<1> QED BY <1>1, TakerInvariant, PTL

\* No closed snapshot is written again while every snapshot begins at its tick.
THEOREM ClosedAreClosed == TakerSpec => []ClosedStaysClosed
<1>1. TakerInv => ClosedStaysClosed
  BY DEF TakerInv, OnTime, ClosedStaysClosed
<1> QED BY <1>1, TakerInvariant, PTL

\* The versions and locations count every node of their snapshots and pass over none.
THEOREM NodesAreCounted == TakerSpec => []NodesCounted
<1>1. TakerInv => NodesCounted
  BY DEF TakerInv
<1> QED BY <1>1, TakerInvariant, PTL

=============================================================================
