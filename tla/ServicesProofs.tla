---------------------------- MODULE ServicesProofs ----------------------------
(***************************************************************************)
(* The collectors with their lock and their connections, the calculators   *)
(* with their pages, and both of them under one specification with the     *)
(* life of the process: for every choice of collectors and settings, every *)
(* number of connections, blocks, overlapping runs and failing calls.      *)
(***************************************************************************)
EXTENDS Services, StartupProofs

-----------------------------------------------------------------------------
(* The collectors. *)

\* Two more stages follow a begin, and one a fetch.
Complete(job) ==
  /\ Len(job) \in 2..7 /\ DOMAIN job = 1..Len(job)
  /\ \A i \in DOMAIN job : job[i] = "begin" => i + 2 <= Len(job)

\* The stages of each job.
LEMMA JobStages ==
  ASSUME NEW p
  PROVE  Complete(Job(p)) /\ (p = "pow" => Len(Job(p)) = 5)
<1> USE DEF Complete
<1>1. Complete(PowJob) /\ Len(PowJob) = 5
  BY DEF PowJob
<1>2. Complete(VspJob)
  BY DEF VspJob
<1>3. Complete(ExchangesJob) /\ Complete(CommstatsJob)
  BY DEF ExchangesJob, CommstatsJob
<1>4. Complete(MempoolJob)
  BY DEF MempoolJob
<1>5. Complete(BlockJob) /\ Complete(SnapshotJob)
  BY DEF BlockJob, SnapshotJob
<1> HIDE DEF Complete
<1> QED
  BY <1>1, <1>2, <1>3, <1>4, <1>5 DEF Job

-----------------------------------------------------------------------------
(* The inductive invariant: TypeOK and RunsAlone, with the places of those who take no *)
(* lock, in two parts that most steps leave alone one at a time.                       *)

PcPlaces == {"startup", "gate", "read", "start", "sleep", "wait", "idle", "work", "ended"}

\* The lock and the jobs.
JobsOK ==
  /\ busy \in Lockers \cup {NoOne} /\ pc \in [Procs -> PcPlaces]
  /\ at \in [Procs -> 1..7] /\ \A p \in Procs : at[p] \in DOMAIN Job(p)
  /\ retries \in 0..RetryLimit
  /\ RunsAlone
  /\ \A p \in Runners : pc[p] \in {"idle", "work", "ended"}

\* The connections.
PoolOK ==
  /\ tx \subseteq Procs /\ query \subseteq Procs
  /\ lost \in Nat /\ Free \in Nat

CollectorsInv == alive \in BOOLEAN /\ done \in BOOLEAN /\ ticks \in 0..Tickers /\ JobsOK /\ PoolOK

-----------------------------------------------------------------------------

LEMMA ProcsFinite ==
  /\ IsFiniteSet(Runners) /\ Cardinality(Runners) \in Nat /\ IsFiniteSet(Procs)
  /\ Lockers \cap Runners = {} /\ NoOne \notin Procs /\ "pow" \notin Runners /\ "vsp" \notin Runners
<1>1. ASSUME NEW a, NEW b PROVE IsFiniteSet({a, b})
  <2>1. IsFiniteSet({a} \cup {b})
    BY FS_Singleton, FS_AddElement
  <2>2. {a, b} = {a} \cup {b}
    OBVIOUS
  <2> QED BY <2>1, <2>2
<1>2. IsFiniteSet({"mempool", "block"} \cup {"snapshot", "snapshot"})
  BY <1>1, FS_Union
<1>3. IsFiniteSet(Runners) /\ IsFiniteSet(Lockers)
  <2>1. IsFiniteSet({"pow", "vsp"} \cup {"exchanges", "commstats"})
    BY <1>1, FS_Union
  <2>2. /\ Runners \subseteq {"mempool", "block"} \cup {"snapshot", "snapshot"}
        /\ Lockers \subseteq {"pow", "vsp"} \cup {"exchanges", "commstats"}
    BY ConstantsAssumption DEF ConstantsAssumption
  <2> QED BY <1>2, <2>1, <2>2, FS_Subset
<1>4. Cardinality(Runners) \in Nat /\ IsFiniteSet(Procs)
  BY <1>3, FS_CardinalityType, FS_Union DEF Procs
<1> QED BY <1>3, <1>4, ConstantsAssumption DEF ConstantsAssumption, Procs, NoOne

LEMMA CollectorsInitInv == Init => CollectorsInv
<1> SUFFICES ASSUME Init PROVE CollectorsInv
  OBVIOUS
<1>1. PICK on \in Enabled :
        pc = [p \in Procs |-> CASE p \notin on      -> "ended"
                                [] p = "pow"       -> "startup"
                                [] p = "commstats" -> "gate"
                                [] p \in Runners   -> "idle"
                                [] OTHER           -> "start"]
  BY DEF Init
<1>2. pc \in [Procs -> {"ended", "startup", "gate", "idle", "start"}]
  BY <1>1
<1>3. \A p \in Runners : pc[p] \in {"idle", "ended"}
  BY <1>1, ConstantsAssumption DEF ConstantsAssumption, Procs
<1>4. RunsAlone
  BY <1>2, ProcsFinite DEF Init, RunsAlone, Procs
<1>5. /\ at \in [Procs -> 1..7] /\ \A p \in Procs : at[p] \in DOMAIN Job(p)
  <2>1. at = [p \in Procs |-> IF p = "pow" THEN 3 ELSE 1]
    BY DEF Init, FirstUpdate
  <2>2. \A p : /\ Len(Job(p)) \in 2..7 /\ DOMAIN Job(p) = 1..Len(Job(p))
               /\ p = "pow" => Len(Job(p)) = 5
    BY JobStages DEF Complete
  <2> QED BY <2>1, <2>2
<1>6. JobsOK
  BY <1>2, <1>3, <1>4, <1>5, ConstantsAssumption DEF Init, JobsOK, PcPlaces, ConstantsAssumption
<1>7. PoolOK
  BY FS_EmptySet, ConstantsAssumption DEF Init, PoolOK, Free, ConstantsAssumption
<1> QED BY <1>6, <1>7 DEF Init, CollectorsInv

-----------------------------------------------------------------------------
(* The jobs. *)

\* One goroutine moves, and takes or gives back the lock as it goes.
LEMMA Moves ==
  ASSUME JobsOK, NEW p \in Procs, NEW place \in PcPlaces, Goto(p, place), UNCHANGED <<at, retries>>,
         p \in Runners => place \in {"idle", "work", "ended"},
         \/ /\ busy' = busy
            /\ p \in Lockers => (busy = p <=> place \in {"read", "work"})
         \/ busy = NoOne /\ busy' = p /\ place \in {"read", "work"} /\ p \in Lockers
         \/ busy' = NoOne /\ busy = p /\ place \notin {"read", "work"}
  PROVE  JobsOK'
<1>1. pc' \in [Procs -> PcPlaces] /\ pc'[p] = place /\ \A q \in Procs : q # p => pc'[q] = pc[q]
  BY DEF JobsOK, Goto
<1>2. busy' \in Lockers \cup {NoOne}
  BY DEF JobsOK
<1>3. ASSUME NEW q \in Lockers PROVE busy' = q <=> pc'[q] \in {"read", "work"}
  <2>1. q \in Procs /\ q # NoOne
    BY ProcsFinite DEF Procs
  <2> QED BY <1>1, <2>1, ProcsFinite DEF JobsOK, RunsAlone
<1>4. \A q \in Runners : pc'[q] \in {"idle", "work", "ended"}
  BY <1>1 DEF JobsOK, Procs
<1> QED BY <1>1, <1>2, <1>3, <1>4 DEF JobsOK, RunsAlone

LEMMA JobsUnchanged == JobsOK /\ UNCHANGED <<busy, pc, at, retries>> => JobsOK'
  BY DEF JobsOK, RunsAlone

\* A goroutine goes on with its job.
LEMMA SkipToOK ==
  ASSUME JobsOK, NEW p \in Procs, NEW stage \in DOMAIN Job(p), SkipTo(p, stage)
  PROVE  JobsOK'
<1>1. stage \in 1..7
  BY JobStages DEF Complete
<1> QED BY <1>1 DEF JobsOK, SkipTo, RunsAlone

\* A goroutine ends its job.
LEMMA EndJobOK ==
  ASSUME JobsOK, NEW p \in Procs, NEW failed \in BOOLEAN, EndJob(p, failed)
  PROVE  JobsOK'
<1>1. at' \in [Procs -> 1..7] /\ \A q \in Procs : at'[q] \in DOMAIN Job(q)
  BY JobStages DEF EndJob, JobsOK, Complete
<1>2. retries' \in 0..RetryLimit
  BY ConstantsAssumption DEF EndJob, JobsOK, ConstantsAssumption
<1>3. PICK place \in {"gate", "ended", "idle"} :
        Goto(p, place) /\ (p \in Runners => place # "gate")
  BY DEF EndJob, JobsOK
<1>4. pc' \in [Procs -> PcPlaces] /\ pc'[p] = place /\ \A q \in Procs : q # p => pc'[q] = pc[q]
  BY <1>3 DEF JobsOK, Goto, PcPlaces
<1>5. busy' = IF busy = p THEN NoOne ELSE busy
  BY DEF EndJob
<1>6. ASSUME NEW q \in Lockers PROVE busy' = q <=> pc'[q] \in {"read", "work"}
  <2>1. q \in Procs /\ q # NoOne
    BY ProcsFinite DEF Procs
  <2> QED BY <1>3, <1>4, <1>5, <2>1, ProcsFinite DEF JobsOK, RunsAlone
<1>7. \A q \in Runners : pc'[q] \in {"idle", "work", "ended"}
  BY <1>3, <1>4 DEF JobsOK, Procs
<1> QED BY <1>1, <1>2, <1>4, <1>5, <1>6, <1>7 DEF JobsOK, RunsAlone

LEMMA AdvanceOK ==
  ASSUME JobsOK, NEW p \in Procs, Advance(p)
  PROVE  JobsOK'
<1>1. CASE at[p] < Len(Job(p))
  <2>1. at[p] + 1 \in DOMAIN Job(p)
    BY <1>1, JobStages DEF JobsOK, Complete
  <2> QED BY <1>1, <2>1, SkipToOK DEF Advance
<1>2. CASE ~(at[p] < Len(Job(p)))
  BY <1>2, EndJobOK DEF Advance
<1> QED BY <1>1, <1>2

-----------------------------------------------------------------------------
(* The connections. *)

LEMMA PoolFinite ==
  ASSUME PoolOK
  PROVE  /\ IsFiniteSet(tx) /\ IsFiniteSet(query)
         /\ Cardinality(tx) \in Nat /\ Cardinality(query) \in Nat
<1>1. IsFiniteSet(tx) /\ IsFiniteSet(query)
  BY ProcsFinite, FS_Subset DEF PoolOK
<1> QED BY <1>1, FS_CardinalityType

LEMMA PoolUnchanged == PoolOK /\ UNCHANGED pool => PoolOK'
  BY DEF PoolOK, pool, Free

\* A connection that is free is taken.
LEMMA TakesOne ==
  ASSUME PoolOK, NEW p \in Procs, Free > 0, lost' = lost,
         \/ tx' = tx \cup {p} /\ query' = query
         \/ query' = query \cup {p} /\ tx' = tx
  PROVE  PoolOK'
<1>1. /\ Cardinality(tx \cup {p}) \in {Cardinality(tx), Cardinality(tx) + 1}
      /\ Cardinality(query \cup {p}) \in {Cardinality(query), Cardinality(query) + 1}
  BY PoolFinite, FS_AddElement
<1>2. Cardinality(tx') + Cardinality(query') \in
        {Cardinality(tx) + Cardinality(query), Cardinality(tx) + Cardinality(query) + 1}
      /\ Cardinality(tx') \in Int /\ Cardinality(query') \in Int
  <2>1. CASE tx' = tx \cup {p} /\ query' = query
    BY <1>1, <2>1, PoolFinite
  <2>2. CASE query' = query \cup {p} /\ tx' = tx
    BY <1>1, <2>2, PoolFinite
  <2> QED BY <2>1, <2>2
<1>3. Free' \in {Free, Free - 1} /\ Free \in Nat
  BY <1>2, PoolFinite, ConstantsAssumption DEF Free, PoolOK, ConstantsAssumption
<1> QED BY <1>3 DEF PoolOK

\* Connections are given back, that of a transaction may be lost.
LEMMA GivesBack ==
  ASSUME PoolOK, NEW p \in Procs,
         tx' \in {tx, tx \ {p}}, query' \in {query, query \ {p}},
         lost' = lost \/ (lost' = lost + 1 /\ p \in tx /\ tx' = tx \ {p})
  PROVE  PoolOK'
<1>1. /\ Cardinality(tx \ {p}) = (IF p \in tx THEN Cardinality(tx) - 1 ELSE Cardinality(tx))
      /\ Cardinality(query \ {p}) \in {Cardinality(query) - 1, Cardinality(query)}
  BY PoolFinite, FS_RemoveElement
<1>2. Cardinality(query') <= Cardinality(query) /\ Cardinality(query') \in Int
  <2>1. CASE query' = query
    BY <2>1, PoolFinite
  <2>2. CASE query' = query \ {p}
    BY <1>1, <2>2, PoolFinite
  <2> QED BY <2>1, <2>2
<1>3. lost' + Cardinality(tx') <= lost + Cardinality(tx) /\ lost' \in Nat /\ Cardinality(tx') \in Int
  <2>1. lost \in Nat
    BY DEF PoolOK
  <2>2. CASE tx' = tx /\ lost' = lost
    BY <2>1, <2>2, PoolFinite
  <2>3. CASE tx' = tx \ {p}
    BY <1>1, <2>1, <2>3, PoolFinite
  <2>4. lost' # lost => tx' = tx \ {p}
    OBVIOUS
  <2> QED BY <2>2, <2>3, <2>4
<1>4. Free' \in Int /\ Free' >= Free
  BY <1>2, <1>3, PoolFinite, ConstantsAssumption DEF Free, PoolOK, ConstantsAssumption
<1> QED BY <1>3, <1>4 DEF PoolOK

-----------------------------------------------------------------------------
(* The steps. *)

\* On the way to the next round.
LEMMA ReadyInv ==
  ASSUME CollectorsInv, NEW p \in Procs,
         Ready(p) \/ Stops(p) \/ RunnerBegins(p) \/ MarkBusyIfFree(p) \/ ReadsLast(p)
           \/ (p = "pow" /\ PowReads)
  PROVE  CollectorsInv'
<1> USE DEF CollectorsInv
<1>1. UNCHANGED <<alive, done, at, retries, pool>> /\ ticks' \in 0..Tickers
  BY ConstantsAssumption DEF Ready, Stops, RunnerBegins, MarkBusyIfFree, ReadsLast, PowReads,
     Wakes, NextRound, CommstatsRuns, CommstatsGivesUp, NextExchangeRound, ConstantsAssumption
<1>2. (p \in Lockers /\ p \notin Runners) \/ (p \in Runners /\ p \notin Lockers)
  BY ProcsFinite DEF Procs
<1>3. p \in Lockers => (busy = p <=> pc[p] \in {"read", "work"})
  BY DEF JobsOK, RunsAlone
<1>4. p \in Runners => pc[p] \in {"idle", "work", "ended"} /\ busy # p
  BY <1>2, ProcsFinite DEF JobsOK, Procs
<1>5. CASE MarkBusyIfFree(p)
  <2>1. p \in Lockers /\ busy = NoOne /\ busy' = p
    BY <1>2, <1>4, <1>5 DEF MarkBusyIfFree
  <2>2. PICK place \in {"read", "work"} : Goto(p, place)
    BY <1>5 DEF MarkBusyIfFree
  <2> QED BY <1>1, <1>2, <2>1, <2>2, Moves, PoolUnchanged DEF PcPlaces
<1>6. CASE RunnerBegins(p)
  <2>1. p \in Runners /\ p \notin Lockers /\ busy' = busy /\ Goto(p, "work")
    BY <1>2, <1>6 DEF RunnerBegins
  <2> QED BY <1>1, <2>1, Moves, PoolUnchanged DEF PcPlaces
<1>7. CASE Stops(p)
  <2>1. pc[p] = "idle" /\ busy' = busy /\ Goto(p, "ended")
    BY <1>7 DEF Stops
  <2> QED BY <1>1, <1>3, <2>1, Moves, PoolUnchanged DEF PcPlaces
<1>8. CASE (p = "pow" /\ PowReads) \/ (p = "commstats" /\ CommstatsRuns)
  <2>1. pc[p] = "read" /\ p \in Lockers /\ p \notin Runners
    BY <1>2, <1>8 DEF PowReads, CommstatsRuns
  <2>2. PICK place \in {"work", "sleep", "start"} :
          /\ Goto(p, place)
          /\ busy' = IF place = "work" THEN busy ELSE NoOne
    BY <1>8 DEF PowReads, CommstatsRuns
  <2>3. busy = p
    BY <1>3, <2>1
  <2> QED BY <1>1, <2>1, <2>2, <2>3, Moves, PoolUnchanged DEF PcPlaces
<1>9. CASE ReadsLast(p) \/ Wakes(p) \/ NextRound(p) \/ (p = "commstats" /\ CommstatsGivesUp)
             \/ (p = "exchanges" /\ NextExchangeRound)
  <2>1. pc[p] \in {"start", "sleep", "idle", "gate"} /\ busy' = busy
    BY <1>9 DEF ReadsLast, Wakes, NextRound, CommstatsGivesUp, NextExchangeRound
  <2>2. PICK place \in {"ended", "sleep", "wait"} : Goto(p, place)
    BY <1>9 DEF ReadsLast, Wakes, NextRound, CommstatsGivesUp, NextExchangeRound
  <2>3. p \in Runners => FALSE
    BY <1>2, <1>4, <1>9, ConstantsAssumption
       DEF ReadsLast, Wakes, NextRound, CommstatsGivesUp, NextExchangeRound, ConstantsAssumption
  <2>4. p \in Lockers => busy # p
    BY <1>3, <2>1
  <2> QED BY <1>1, <1>2, <2>1, <2>2, <2>3, <2>4, Moves, PoolUnchanged DEF PcPlaces
<1> QED BY <1>5, <1>6, <1>7, <1>8, <1>9 DEF Ready

\* A stage of a job, but for those that need a connection.
LEMMA WorksInv ==
  ASSUME CollectorsInv, NEW p \in Procs, Works(p)
  PROVE  CollectorsInv'
<1> USE DEF CollectorsInv
<1>1. UNCHANGED <<alive, done, ticks>>
  BY DEF Works, Fetched, FetchFails, QueryDone, Fails, Commit
<1>2. Complete(Job(p)) /\ at[p] \in DOMAIN Job(p) /\ (p = "pow" => FirstUpdate \in DOMAIN Job(p))
  BY JobStages DEF Complete, JobsOK, FirstUpdate
<1>3. CASE Fetched(p)
  <2>1. /\ at' = [at EXCEPT ![p] = 2] /\ UNCHANGED <<pc, busy, pool>>
        /\ retries' \in {0, retries}
    BY <1>3 DEF Fetched
  <2>2. 2 \in DOMAIN Job(p)
    BY <1>2 DEF Complete
  <2>3. JobsOK'
    BY <2>1, <2>2, ConstantsAssumption DEF JobsOK, RunsAlone, ConstantsAssumption
  <2> QED BY <1>1, <2>1, <2>3, PoolUnchanged
<1>4. CASE FetchFails(p)
  <2>1. UNCHANGED pool
    BY <1>4 DEF FetchFails
  <2>2. \/ p = "pow" /\ SkipTo(p, FirstUpdate)
        \/ \E failed \in BOOLEAN : EndJob(p, failed)
        \/ retries' = retries + 1 /\ retries < RetryLimit /\ UNCHANGED <<at, pc, busy>>
    BY <1>4 DEF FetchFails
  <2>3. JobsOK'
    <3>1. CASE p = "pow" /\ SkipTo(p, FirstUpdate)
      BY <1>2, <3>1, SkipToOK
    <3>2. CASE \E failed \in BOOLEAN : EndJob(p, failed)
      BY <3>2, EndJobOK
    <3>3. CASE retries' = retries + 1 /\ retries < RetryLimit /\ UNCHANGED <<at, pc, busy>>
      BY <3>3, ConstantsAssumption DEF JobsOK, RunsAlone, ConstantsAssumption
    <3> QED BY <2>2, <3>1, <3>2, <3>3
  <2> QED BY <1>1, <2>1, <2>3, PoolUnchanged
<1>5. CASE QueryDone(p)
  BY <1>1, <1>5, AdvanceOK, GivesBack DEF QueryDone
<1>6. CASE Fails(p)
  <2>1. PoolOK'
    BY <1>6, GivesBack DEF Fails
  <2>2. (p = "pow" /\ SkipTo(p, FirstUpdate)) \/ EndJob(p, TRUE)
    BY <1>6 DEF Fails
  <2> QED BY <1>1, <1>2, <2>1, <2>2, SkipToOK, EndJobOK
<1>7. CASE Commit(p)
  BY <1>1, <1>7, AdvanceOK, EndJobOK, GivesBack DEF Commit
<1> QED BY <1>3, <1>4, <1>5, <1>6, <1>7 DEF Works

\* A query or a transaction takes a connection.
LEMMA ConnectionInv ==
  ASSUME CollectorsInv, NEW p \in Procs, Acquire(p) \/ Begin(p)
  PROVE  CollectorsInv'
<1> USE DEF CollectorsInv
<1>1. CASE Acquire(p)
  BY <1>1, JobsUnchanged, TakesOne DEF Acquire
<1>2. CASE Begin(p)
  <2>1. UNCHANGED <<alive, done, ticks, query, lost>> /\ Free > 0
    BY <1>2 DEF Begin
  <2>2. CASE tx' = tx \cup {p} /\ \E n \in {1, 2} : SkipTo(p, at[p] + n)
    <3>1. \A n \in {1, 2} : at[p] + n \in DOMAIN Job(p)
      <4>1. at[p] \in DOMAIN Job(p) /\ Job(p)[at[p]] = "begin"
        BY <1>2 DEF Begin, At, Stage, JobsOK
      <4> QED BY <4>1, JobStages DEF Complete
    <3>2. JobsOK'
      BY <2>2, <3>1, SkipToOK
    <3> QED BY <2>1, <2>2, <3>2, TakesOne
  <2>3. CASE UNCHANGED tx /\ EndJob(p, TRUE)
    BY <2>1, <2>3, EndJobOK, PoolUnchanged DEF pool
  <2> QED BY <1>2, <2>2, <2>3 DEF Begin
<1> QED BY <1>1, <1>2

LEMMA CollectorsNextInv == CollectorsInv /\ [Next]_vars => CollectorsInv'
<1> SUFFICES ASSUME CollectorsInv, [Next]_vars PROVE CollectorsInv'
  OBVIOUS
<1>1. CASE UNCHANGED vars
  BY <1>1, JobsUnchanged, PoolUnchanged DEF CollectorsInv, vars, pool
<1>2. CASE Shutdown \/ PowPanics
  <2>1. JobsOK' /\ PoolOK'
    BY <1>2, JobsUnchanged, PoolUnchanged DEF CollectorsInv, Shutdown, PowPanics
  <2>2. alive' \in BOOLEAN /\ done' \in BOOLEAN /\ ticks' = ticks
    BY <1>2 DEF CollectorsInv, Shutdown, PowPanics
  <2> QED BY <2>1, <2>2 DEF CollectorsInv
<1>3. ASSUME NEW p \in Procs,
             Ready(p) \/ Stops(p) \/ RunnerBegins(p) \/ MarkBusyIfFree(p) \/ Works(p) \/ Takes(p)
      PROVE  CollectorsInv'
  <2>1. CASE Works(p)
    BY <2>1, WorksInv
  <2>2. CASE Acquire(p) \/ Begin(p)
    BY <2>2, ConnectionInv
  <2>3. CASE Ready(p) \/ Stops(p) \/ RunnerBegins(p) \/ MarkBusyIfFree(p) \/ ReadsLast(p)
               \/ (p = "pow" /\ PowReads)
    BY <2>3, ReadyInv
  <2> QED BY <1>3, <2>1, <2>2, <2>3 DEF Takes
<1> QED BY <1>1, <1>2, <1>3 DEF Next

LEMMA CollectorsSpecInv == Spec => []CollectorsInv
  BY CollectorsInitInv, CollectorsNextInv, PTL DEF Spec

-----------------------------------------------------------------------------

LEMMA CollectorsInvTypeOK == CollectorsInv => TypeOK
  BY DEF CollectorsInv, JobsOK, PoolOK, TypeOK, PcPlaces

(***************************************************************************)
(* Without the update at start-up, and with nothing lost, at most one      *)
(* collector is inside a transaction, the one that holds the busy lock:    *)
(* with the runners they are too few to use up the connections.            *)
(***************************************************************************)
LEMMA InvNotStuck == CollectorsInv => StuckOnlyAtStartup
<1> SUFFICES ASSUME CollectorsInv, Stuck, Conns >= Cardinality(Runners) + 2, lost = 0,
                    \A p \in Lockers : pc[p] # "startup"
             PROVE  FALSE
  BY DEF StuckOnlyAtStartup, CollectorsInv, PoolOK
<1>1. tx \subseteq Runners \cup {busy}
  <2>1. ASSUME NEW p \in tx, p \notin Runners PROVE p = busy
    <3>1. p \in Lockers /\ Running(p)
      BY <2>1 DEF Stuck, At, CollectorsInv, PoolOK, Procs
    <3>2. pc[p] = "work"
      BY <3>1 DEF Running
    <3> QED BY <3>1, <3>2 DEF CollectorsInv, JobsOK, RunsAlone
  <2> QED BY <2>1
<1>2. /\ IsFiniteSet(Runners \cup {busy})
      /\ Cardinality(Runners \cup {busy}) <= Cardinality(Runners) + 1
      /\ Cardinality(Runners \cup {busy}) \in Nat
  <2>1. /\ IsFiniteSet(Runners \cup {busy})
        /\ Cardinality(Runners \cup {busy}) \in {Cardinality(Runners), Cardinality(Runners) + 1}
    BY ProcsFinite, FS_AddElement
  <2> QED BY <2>1, ProcsFinite
<1>3. Cardinality(tx) <= Cardinality(Runners \cup {busy}) /\ Cardinality(tx) \in Nat
  BY <1>1, <1>2, PoolFinite, FS_Subset DEF CollectorsInv
<1>4. Cardinality(tx) = Conns
  <2>1. query = {} /\ Cardinality(query) = 0
    BY FS_EmptySet DEF Stuck
  <2>2. Free = Conns - 0 - Cardinality(tx) - 0
    BY <2>1 DEF Free
  <2> QED BY <1>3, <2>2, ConstantsAssumption DEF Stuck, ConstantsAssumption
<1> QED BY <1>2, <1>3, <1>4, ProcsFinite, ConstantsAssumption DEF ConstantsAssumption

-----------------------------------------------------------------------------

\* The variables have their types, and the pool hands out no connection it does not have.
THEOREM CollectorsTypeCorrect == Spec => []TypeOK
  BY CollectorsSpecInv, CollectorsInvTypeOK, PTL

\* app.go: the collectors run one at a time, and none keeps the lock while it waits.
THEOREM RunsAloneHolds == Spec => []RunsAlone
<1>1. CollectorsInv => RunsAlone
  BY DEF CollectorsInv, JobsOK
<1> QED BY <1>1, CollectorsSpecInv, PTL

\* With a connection for each update outside the lock and two more, only lost connections
\* or the update of pow's Activate can block the pool for ever.
THEOREM StuckOnlyAtStartupHolds == Spec => []StuckOnlyAtStartup
  BY CollectorsSpecInv, InvNotStuck, PTL

-----------------------------------------------------------------------------
(* The calculators. *)

\* What a part keeps: some fields, and one of the proposals.
LEMMA WantedFields ==
  ASSUME calc \in Calcs
  PROVE  /\ DOMAIN Wanted = 1..Len(Wanted) /\ Len(Wanted) \in Nat \ {0}
         /\ calc = "proposals" => Len(Wanted) = 1
<1>1. calc \in {"staking", "attackcost", "charts", "proposals"}
  BY CalculatorsAssumption DEF CalculatorsAssumption, CalcFields
<1>2. Wanted \in {StakingFields, AttackcostFields, ChartsFields, ProposalsFields}
  BY <1>1 DEF Wanted, CalcFields
<1>3. calc = "proposals" => Wanted = ProposalsFields
  BY DEF Wanted, CalcFields
<1>4. Len(StakingFields) = 5 /\ DOMAIN StakingFields = 1..5
  BY DEF StakingFields
<1>5. Len(AttackcostFields) = 6 /\ DOMAIN AttackcostFields = 1..6
  BY DEF AttackcostFields
<1>6. Len(ChartsFields) = 1 /\ DOMAIN ChartsFields = 1..1
  BY DEF ChartsFields
<1>7. Len(ProposalsFields) = 1 /\ DOMAIN ProposalsFields = 1..1
  BY DEF ProposalsFields
<1> QED BY <1>2, <1>3, <1>4, <1>5, <1>6, <1>7

-----------------------------------------------------------------------------
(* The inductive invariant. *)

\* CalcTypes, with what bounds them from each other.
CalcTypes ==
  /\ calc \in Calcs /\ chain \in 1..MaxTip /\ given \in 0..chain
  /\ life \in {"off", "new", "up"}
  /\ ended \in Seq(0..Len(Wanted))
  /\ calls \subseteq [block : 1..chain, at : 0..Len(Wanted), turn : 0..Len(ended)]
  /\ fields \in [DOMAIN Wanted -> [turn : 0..Len(ended), tip : 0..chain]]

\* One run at a time has the lock; it is the last that got it, and has not ended.
OneHolder ==
  /\ \A c, d \in calls : c.at > 0 /\ d.at > 0 => c = d
  /\ \A c \in calls : c.at > 0 => c.turn = Len(ended) /\ c.turn > 0 /\ ended[c.turn] = 0

\* New has returned when the first run has written everything.
FirstRun ==
  /\ life = "off" => calls = {} /\ ended = <<>>
  /\ life = "new" => /\ \A c, d \in calls : c = d
                     /\ \A c \in calls : Len(ended) = (IF c.at > 0 THEN 1 ELSE 0)
  /\ life = "up"  => Len(ended) > 0 /\ ended[1] = Len(Wanted)

\* A field is of the newest run that has written it.
NewestWrites ==
  /\ \A k \in DOMAIN Wanted, t \in DOMAIN ended : ended[t] >= k => t <= fields[k].turn
  /\ \A k \in DOMAIN Wanted : fields[k].turn > 0 =>
       ended[fields[k].turn] >= k \/ \E c \in calls : c.at > k /\ c.turn = fields[k].turn
  /\ \A c \in calls, k \in DOMAIN Wanted : k < c.at => fields[k].turn = c.turn

\* What a run writes is of its own block's chain or of a later one.
TipsOfRun ==
  /\ \A c \in calls, k \in DOMAIN Wanted : c.at > 0 /\ fields[k].turn = c.turn =>
       fields[k].tip >= c.block /\ (OfHeader(k) => fields[k].tip = c.block)
  /\ \A j, k \in DOMAIN Wanted : OfHeader(j) /\ fields[j].turn = fields[k].turn =>
       fields[j].tip <= fields[k].tip

CalcInv == CalcTypes /\ OneHolder /\ FirstRun /\ NewestWrites /\ TipsOfRun

-----------------------------------------------------------------------------

\* A sequence with one element replaced.
LEMMA ReplacedSeq ==
  ASSUME NEW S, NEW s \in Seq(S), NEW i \in 1..Len(s), NEW x \in S
  PROVE  /\ [s EXCEPT ![i] = x] \in Seq(S) /\ Len([s EXCEPT ![i] = x]) = Len(s)
         /\ DOMAIN [s EXCEPT ![i] = x] = 1..Len(s)
  OBVIOUS

LEMMA CalcInitInv == CalcInit => CalcInv
<1> SUFFICES ASSUME CalcInit PROVE CalcInv
  OBVIOUS
<1> USE DEF CalcInit
<1>1. calc \in Calcs /\ DOMAIN Wanted = 1..Len(Wanted) /\ Len(Wanted) \in Nat
  BY WantedFields
<1>2. fields = [k \in DOMAIN Wanted |-> [turn |-> 0, tip |-> 0]] /\ ended = <<>> /\ calls = {}
  BY DEF Zero
<1>3. CalcTypes
  BY <1>1, <1>2, CalculatorsAssumption DEF CalcTypes, CalculatorsAssumption
<1>4. OneHolder /\ FirstRun /\ NewestWrites /\ TipsOfRun
  BY <1>1, <1>2 DEF OneHolder, FirstRun, NewestWrites, TipsOfRun
<1> QED BY <1>3, <1>4 DEF CalcInv

\* A step that leaves the part's own state alone.
LEMMA SameState ==
  ASSUME CalcInv, UNCHANGED <<calc, life, calls, fields, ended>>,
         given' \in 0..chain', chain' \in 1..MaxTip, chain' >= chain
  PROVE  CalcInv'
<1> USE DEF CalcInv
<1>1. Wanted' = Wanted
  BY DEF Wanted
<1>2. CalcTypes'
  BY <1>1 DEF CalcTypes
<1>3. OneHolder' /\ FirstRun' /\ NewestWrites' /\ TipsOfRun'
  BY <1>1 DEF OneHolder, FirstRun, NewestWrites, TipsOfRun, OfHeader
<1> QED BY <1>2, <1>3

\* A block is handed over, or the part begins: another run waits for the lock.
LEMMA RunBegins ==
  ASSUME CalcInv, NewCalculator \/ BlockGiven
  PROVE  CalcInv'
<1> USE DEF CalcInv
<1>1. Wanted' = Wanted /\ DOMAIN Wanted = 1..Len(Wanted) /\ Len(Wanted) \in Nat \ {0}
  BY WantedFields DEF Wanted, NewCalculator, BlockGiven, CalcTypes
<1>2. PICK b \in 1..chain :
        /\ calls' = calls \cup {[block |-> b, at |-> 0, turn |-> 0]} /\ given' = b
        /\ UNCHANGED <<calc, chain, fields, ended>>
        /\ \/ life = "off" /\ life' = "new"
           \/ life = "up" /\ life' = "up"
  BY DEF NewCalculator, BlockGiven, CalcTypes, FirstRun
<1>3. CalcTypes'
  BY <1>1, <1>2 DEF CalcTypes
<1>4. OneHolder' /\ NewestWrites' /\ TipsOfRun'
  BY <1>1, <1>2 DEF OneHolder, NewestWrites, TipsOfRun, OfHeader, CalcTypes
<1>5. FirstRun'
  BY <1>1, <1>2 DEF FirstRun, CalcTypes
<1> QED BY <1>3, <1>4, <1>5

\* A run gets the lock.
LEMMA LockTakenInv ==
  ASSUME CalcInv, NEW c \in calls, LockTaken(c)
  PROVE  CalcInv'
<1> USE DEF CalcInv
<1> DEFINE d == [block |-> c.block, at |-> 1, turn |-> Len(ended) + 1]
<1>1. Wanted' = Wanted /\ DOMAIN Wanted = 1..Len(Wanted) /\ Len(Wanted) \in Nat \ {0}
  BY WantedFields DEF Wanted, LockTaken, CalcTypes
<1>2. /\ c.at = 0 /\ \A e \in calls : e.at = 0
      /\ ended' = Append(ended, 0) /\ calls' = (calls \ {c}) \cup {d}
      /\ UNCHANGED <<calc, chain, life, given, fields>>
  BY DEF LockTaken, LockFree
<1>3. ended \in Seq(Int) /\ Len(ended') = Len(ended) + 1 /\ Len(ended) \in Nat
      /\ ended'[Len(ended) + 1] = 0 /\ \A t \in DOMAIN ended : ended'[t] = ended[t]
      /\ DOMAIN ended = 1..Len(ended) /\ DOMAIN ended' = 1..(Len(ended) + 1)
      /\ ended' \in Seq(0..Len(Wanted))
  BY <1>1, <1>2 DEF CalcTypes
<1>4. d.at = 1 /\ d.turn = Len(ended) + 1 /\ d.block = c.block
      /\ d \in [block : 1..chain, at : 0..Len(Wanted), turn : 0..(Len(ended) + 1)]
  BY <1>1, <1>3 DEF CalcTypes
<1> HIDE DEF d
<1>5. CalcTypes'
  <2>1. calls' \subseteq [block : 1..chain, at : 0..Len(Wanted), turn : 0..(Len(ended) + 1)]
    BY <1>2, <1>3, <1>4 DEF CalcTypes
  <2>2. fields \in [DOMAIN Wanted -> [turn : 0..(Len(ended) + 1), tip : 0..chain]]
    BY <1>3 DEF CalcTypes
  <2> QED BY <1>1, <1>2, <1>3, <2>1, <2>2 DEF CalcTypes
<1>6. OneHolder'
  BY <1>2, <1>3, <1>4 DEF OneHolder
<1>7. FirstRun'
  BY <1>1, <1>2, <1>3, <1>4 DEF FirstRun, CalcTypes
<1>8. NewestWrites'
  BY <1>1, <1>2, <1>3, <1>4 DEF NewestWrites, CalcTypes
<1>9. TipsOfRun'
  BY <1>1, <1>2, <1>3, <1>4 DEF TipsOfRun, CalcTypes, OfHeader
<1> QED BY <1>5, <1>6, <1>7, <1>8, <1>9

\* The next field is written, and with the last one the run has ended.
LEMMA FieldWrittenInv ==
  ASSUME CalcInv, NEW c \in calls, FieldWritten(c)
  PROVE  CalcInv'
<1> USE DEF CalcInv
<1> DEFINE n == Len(Wanted)
           d == [c EXCEPT !.at = c.at + 1]
           f == [turn |-> c.turn, tip |-> IF OfBlock(c.at) THEN c.block ELSE chain]
<1>1. Wanted' = Wanted /\ DOMAIN Wanted = 1..n /\ n \in Nat \ {0}
  BY WantedFields DEF Wanted, FieldWritten, CalcTypes
<1>2. c.at \in 1..n /\ c.block \in 1..chain /\ chain \in Nat /\ fields \in [1..n -> [turn : 0..Len(ended), tip : 0..chain]]
  BY <1>1 DEF FieldWritten, CalcTypes
<1>3. c.turn = Len(ended) /\ c.turn \in 1..Len(ended) /\ ended[c.turn] = 0
      /\ \A e \in calls : e.at > 0 => e = c
  <2>1. c.at > 0
    BY <1>2
  <2>2. Len(ended) \in Nat
    BY DEF CalcTypes
  <2> QED BY <2>1, <2>2 DEF OneHolder
<1>4. /\ fields' = [fields EXCEPT ![c.at] = f]
      /\ calls' = (calls \ {c}) \cup (IF c.at = n THEN {} ELSE {d})
      /\ ended' = (IF c.at = n THEN [ended EXCEPT ![c.turn] = n] ELSE ended)
      /\ life' = (IF c.at = n THEN "up" ELSE life)
      /\ UNCHANGED <<calc, chain, given>>
  BY <1>1, <1>2 DEF FieldWritten, Reaches
<1>5. /\ d.at = c.at + 1 /\ d.turn = c.turn /\ d.block = c.block
      /\ c.at # n => d \in [block : 1..chain, at : 0..n, turn : 0..Len(ended)]
  <2>1. c \in [block : 1..chain, at : 0..n, turn : 0..Len(ended)]
    BY DEF CalcTypes
  <2>2. d = [block |-> c.block, at |-> c.at + 1, turn |-> c.turn]
    BY <2>1
  <2> QED BY <1>1, <1>2, <2>1, <2>2
<1>6. f.turn = c.turn /\ f.tip \in c.block..chain /\ (OfHeader(c.at) => f.tip = c.block)
      /\ f \in [turn : 0..Len(ended), tip : 0..chain]
  BY <1>2, <1>3 DEF OfBlock
<1>7. /\ fields'[c.at] = f /\ \A k \in 1..n : k # c.at => fields'[k] = fields[k]
      /\ fields' \in [1..n -> [turn : 0..Len(ended), tip : 0..chain]]
  BY <1>2, <1>4, <1>6
<1>8. ended \in [1..Len(ended) -> 0..n] /\ DOMAIN ended = 1..Len(ended) /\ Len(ended) \in Nat
  BY DEF CalcTypes
<1>9. ended' \in Seq(0..n) /\ Len(ended') = Len(ended) /\ DOMAIN ended' = 1..Len(ended)
  <2>1. CASE c.at = n
    BY <1>1, <1>3, <1>4, <1>8, <2>1, ReplacedSeq DEF CalcTypes
  <2>2. CASE c.at # n
    BY <1>1, <1>4, <1>8, <2>2 DEF CalcTypes
  <2> QED BY <2>1, <2>2
<1>10. /\ \A t \in 1..Len(ended) : t # c.turn => ended'[t] = ended[t]
       /\ ended'[c.turn] = (IF c.at = n THEN n ELSE 0)
  BY <1>3, <1>4, <1>8
<1>11. \A k \in 1..n : fields[k].turn \in 0..Len(ended) /\ fields[k].tip \in 0..chain
  BY <1>2
<1> HIDE DEF d, f
<1>12. \A e \in calls' : e.at > 0 => e = d /\ c.at # n
  BY <1>3, <1>4
<1>13. CalcTypes'
  BY <1>1, <1>4, <1>5, <1>7, <1>8, <1>9, <1>10, <1>11 DEF CalcTypes
<1>14. OneHolder'
  BY <1>3, <1>5, <1>8, <1>9, <1>10, <1>11, <1>12 DEF OneHolder
<1>15. FirstRun'
  <2>1. CASE life = "new"
    <3>1. Len(ended) = 1 /\ c.turn = 1 /\ calls = {c}
      BY <1>2, <1>3, <2>1 DEF FirstRun
    <3> QED BY <1>1, <1>2, <1>4, <1>5, <1>9, <1>10, <2>1, <3>1 DEF FirstRun
  <2>2. CASE life = "up"
    <3>1. Len(ended) > 0 /\ ended[1] = n /\ c.turn # 1
      BY <1>1, <1>3, <2>2 DEF FirstRun
    <3> QED BY <1>1, <1>4, <1>8, <1>9, <1>10, <2>2, <3>1 DEF FirstRun
  <2> QED BY <2>1, <2>2 DEF FirstRun, CalcTypes
<1>16. NewestWrites'
  <2>1. ASSUME NEW k \in 1..n, NEW t \in 1..Len(ended), ended'[t] >= k
        PROVE  t <= fields'[k].turn
    <3>1. CASE k = c.at
      BY <1>3, <1>6, <1>7, <1>8, <3>1
    <3>2. CASE k # c.at /\ t # c.turn
      BY <1>1, <1>7, <1>8, <1>10, <2>1, <3>2 DEF NewestWrites
    <3>3. CASE k # c.at /\ t = c.turn
      <4>1. k < c.at
        BY <1>1, <1>2, <1>10, <2>1, <3>3
      <4> QED BY <1>1, <1>3, <1>7, <3>3, <4>1 DEF NewestWrites
    <3> QED BY <3>1, <3>2, <3>3
  <2>2. ASSUME NEW k \in 1..n, fields'[k].turn > 0
        PROVE  ended'[fields'[k].turn] >= k
                 \/ \E e \in calls' : e.at > k /\ e.turn = fields'[k].turn
    <3>1. CASE fields'[k].turn = c.turn
      <4>1. k <= c.at
        <5>1. CASE k # c.at
          <6>1. fields[k].turn = c.turn
            BY <1>7, <3>1, <5>1
          <6>2. ~(ended[c.turn] >= k)
            BY <1>3
          <6>3. PICK e \in calls : e.at > k /\ e.turn = c.turn
            BY <1>1, <1>3, <6>1, <6>2 DEF NewestWrites
          <6>4. e = c
            BY <1>1, <1>3, <6>3 DEF CalcTypes
          <6> QED BY <1>2, <6>3, <6>4
        <5> QED BY <1>2, <5>1
      <4>2. CASE c.at = n
        BY <1>1, <1>10, <3>1, <4>2
      <4>3. CASE c.at # n
        <5>1. d \in calls' /\ d.at > k /\ d.turn = fields'[k].turn
          BY <1>2, <1>4, <1>5, <3>1, <4>1, <4>3
        <5> QED BY <5>1
      <4> QED BY <4>2, <4>3
    <3>2. CASE fields'[k].turn # c.turn
      <4>1. k # c.at /\ fields'[k] = fields[k]
        BY <1>6, <1>7, <3>2
      <4>2. fields[k].turn \in 1..Len(ended) /\ ended'[fields[k].turn] = ended[fields[k].turn]
        BY <1>10, <1>11, <2>2, <3>2, <4>1
      <4>3. ~ \E e \in calls : e.at > k /\ e.turn = fields[k].turn
        BY <1>1, <1>3, <3>2, <4>1 DEF CalcTypes
      <4> QED BY <1>1, <2>2, <4>1, <4>2, <4>3 DEF NewestWrites
    <3> QED BY <3>1, <3>2
  <2>3. ASSUME NEW e \in calls', NEW k \in 1..n, k < e.at
        PROVE  fields'[k].turn = e.turn
    <3>1. e = d /\ c.at # n
      BY <1>12, <2>3, <1>13 DEF CalcTypes
    <3>2. k = c.at \/ k < c.at
      BY <1>2, <1>5, <2>3, <3>1
    <3> QED BY <1>1, <1>5, <1>6, <1>7, <3>1, <3>2 DEF NewestWrites
  <2> QED BY <1>1, <1>9, <2>1, <2>2, <2>3 DEF NewestWrites
<1>17. TipsOfRun'
  <2>1. \A k \in 1..n : OfHeader(k)' <=> OfHeader(k)
    BY <1>1 DEF OfHeader
  <2>2. ASSUME NEW k \in 1..n, fields'[k].turn = c.turn
        PROVE  fields'[k].tip >= c.block /\ (OfHeader(k) => fields'[k].tip = c.block)
    <3>1. CASE k = c.at
      BY <1>2, <1>6, <1>7, <3>1
    <3>2. CASE k # c.at
      BY <1>1, <1>2, <1>7, <2>2, <3>2 DEF TipsOfRun
    <3> QED BY <3>1, <3>2
  <2>3. ASSUME NEW j \in 1..n, NEW k \in 1..n, OfHeader(j), fields'[j].turn = fields'[k].turn
        PROVE  fields'[j].tip <= fields'[k].tip
    <3>1. CASE fields'[j].turn = c.turn
      BY <1>2, <1>7, <2>2, <2>3, <3>1
    <3>2. CASE fields'[j].turn # c.turn
      BY <1>1, <1>6, <1>7, <2>3, <3>2 DEF TipsOfRun
    <3> QED BY <3>1, <3>2
  <2> QED BY <1>1, <1>5, <1>12, <2>1, <2>2, <2>3 DEF TipsOfRun
<1> QED BY <1>13, <1>14, <1>15, <1>16, <1>17

\* A call of the node fails: the run ends where it is, or the process does.
LEMMA RpcFailsInv ==
  ASSUME CalcInv, NEW c \in calls, RpcFails(c)
  PROVE  CalcInv'
<1> USE DEF CalcInv
<1>1. Wanted' = Wanted /\ DOMAIN Wanted = 1..Len(Wanted) /\ Len(Wanted) \in Nat \ {0}
  BY WantedFields DEF Wanted, RpcFails, CalcTypes
<1>2. CASE CalcEnds
  <2>1. /\ life' = "off" /\ calls' = {} /\ ended' = <<>> /\ UNCHANGED <<calc, chain, given>>
        /\ fields' = [k \in 1..Len(Wanted) |-> [turn |-> 0, tip |-> 0]]
    BY <1>1, <1>2 DEF CalcEnds, RpcFails, Zero
  <2>2. CalcTypes'
    BY <1>1, <2>1 DEF CalcTypes
  <2> QED BY <1>1, <2>1, <2>2 DEF OneHolder, FirstRun, NewestWrites, TipsOfRun
<1>3. CASE ~CalcEnds
  <2>1. /\ life # "new" /\ c.at > 0 /\ calls' = calls \ {c}
        /\ ended' = [ended EXCEPT ![c.turn] = c.at - 1]
        /\ UNCHANGED <<calc, chain, given, life, fields>>
    BY <1>3 DEF RpcFails
  <2>2. /\ c.at \in 1..Len(Wanted) /\ c.turn = Len(ended) /\ c.turn \in 1..Len(ended)
        /\ ended[c.turn] = 0 /\ \A e \in calls : e.at > 0 => e = c
    BY <1>1, <2>1 DEF OneHolder, CalcTypes
  <2>3. ended \in [1..Len(ended) -> 0..Len(Wanted)] /\ Len(ended) \in Nat /\ c.at - 1 \in 0..Len(Wanted)
    BY <1>1, <2>2 DEF CalcTypes
  <2>4. ended' \in Seq(0..Len(Wanted)) /\ Len(ended') = Len(ended) /\ DOMAIN ended' = 1..Len(ended)
    BY <2>1, <2>2, <2>3, ReplacedSeq DEF CalcTypes
  <2>5. /\ \A t \in 1..Len(ended) : t # c.turn => ended'[t] = ended[t]
        /\ ended'[c.turn] = c.at - 1
    BY <2>1, <2>2, <2>3
  <2>6. \A k \in 1..Len(Wanted) : fields[k].turn \in 0..Len(ended) /\ fields[k].tip \in 0..chain
    BY <1>1 DEF CalcTypes
  <2>7. CalcTypes'
    BY <1>1, <2>1, <2>4 DEF CalcTypes
  <2>8. \A e \in calls' : e.at = 0
    BY <2>1, <2>2 DEF CalcTypes
  <2>9. OneHolder' /\ TipsOfRun'
    BY <1>1, <2>1, <2>8 DEF OneHolder, TipsOfRun, OfHeader
  <2>10. FirstRun'
    <3>1. life = "up" /\ c.turn # 1 /\ ended[1] = Len(Wanted) /\ Len(ended) > 0
      BY <1>1, <2>1, <2>2 DEF FirstRun, CalcTypes
    <3> QED BY <1>1, <2>1, <2>3, <2>4, <2>5, <3>1 DEF FirstRun
  <2>11. NewestWrites'
    <3>1. ASSUME NEW k \in 1..Len(Wanted), NEW t \in 1..Len(ended), ended'[t] >= k
          PROVE  t <= fields[k].turn
      <4>1. CASE t = c.turn
        BY <1>1, <2>2, <2>5, <3>1, <4>1 DEF NewestWrites
      <4>2. CASE t # c.turn
        BY <1>1, <2>3, <2>5, <3>1, <4>2 DEF NewestWrites
      <4> QED BY <4>1, <4>2
    <3>2. ASSUME NEW k \in 1..Len(Wanted), fields[k].turn > 0
          PROVE  ended'[fields[k].turn] >= k
      <4>1. CASE fields[k].turn = c.turn
        <5>1. ~(ended[c.turn] >= k)
          BY <2>2
        <5>2. PICK e \in calls : e.at > k /\ e.turn = c.turn
          BY <1>1, <3>2, <4>1, <5>1 DEF NewestWrites
        <5>3. e = c
          BY <1>1, <2>2, <5>2 DEF CalcTypes
        <5> QED BY <2>2, <2>5, <4>1, <5>2, <5>3
      <4>2. CASE fields[k].turn # c.turn
        <5>1. ASSUME NEW e \in calls, e.at > k PROVE e.turn # fields[k].turn
          <6>1. e = c
            BY <1>1, <2>2, <5>1 DEF CalcTypes
          <6> QED BY <4>2, <6>1
        <5>2. fields[k].turn \in 1..Len(ended)
          BY <2>6, <3>2
        <5> QED BY <1>1, <2>5, <3>2, <4>2, <5>1, <5>2 DEF NewestWrites
      <4> QED BY <4>1, <4>2
    <3> QED BY <1>1, <2>1, <2>3, <2>4, <2>8, <3>1, <3>2 DEF NewestWrites
  <2> QED BY <2>7, <2>9, <2>10, <2>11
<1> QED BY <1>2, <1>3

LEMMA CalcNextInv == CalcInv /\ [CalcNext]_calcVars => CalcInv'
<1> SUFFICES ASSUME CalcInv, [CalcNext]_calcVars PROVE CalcInv'
  OBVIOUS
<1>1. CASE UNCHANGED calcVars
  BY <1>1, SameState DEF calcVars, CalcInv, CalcTypes
<1>2. CASE ChainGrows
  BY <1>2, SameState, CalculatorsAssumption DEF ChainGrows, CalcInv, CalcTypes, CalculatorsAssumption
<1>3. CASE NewCalculator \/ BlockGiven
  BY <1>3, RunBegins
<1>4. ASSUME NEW c \in calls, LockTaken(c) PROVE CalcInv'
  BY <1>4, LockTakenInv
<1>5. ASSUME NEW c \in calls, FieldWritten(c) PROVE CalcInv'
  BY <1>5, FieldWrittenInv
<1>6. ASSUME NEW c \in calls, RpcFails(c) PROVE CalcInv'
  BY <1>6, RpcFailsInv
<1> QED BY <1>1, <1>2, <1>3, <1>4, <1>5, <1>6 DEF CalcNext

-----------------------------------------------------------------------------

\* The variables have their types.
LEMMA InvCalcTypeOK == CalcInv => CalcTypeOK
<1> SUFFICES ASSUME CalcInv PROVE CalcTypeOK
  OBVIOUS
<1>1. DOMAIN fields = DOMAIN Wanted
  BY DEF CalcInv, CalcTypes
<1>2. \A c \in calls : c.block \in 1..MaxTip /\ c.at \in 0..Len(Wanted) /\ c.turn \in 0..Len(ended)
  BY CalculatorsAssumption DEF CalcInv, CalcTypes, CalculatorsAssumption
<1> QED BY <1>1, <1>2, CalculatorsAssumption DEF CalcInv, CalcTypes, CalcTypeOK, CalculatorsAssumption

\* Where a page can be read no run is between two fields that the page shows.
LEMMA InvPages == CalcInv => PagesOfOneRun
<1> SUFFICES ASSUME CalcInv, PageShown, NEW k \in DOMAIN Wanted
             PROVE  /\ fields[k].turn \in DOMAIN ended /\ ended[fields[k].turn] >= k
                    /\ \A t \in DOMAIN ended : ended[t] >= k => t <= fields[k].turn
                    /\ \A j \in DOMAIN Wanted : OfHeader(j) /\ fields[k].turn = fields[j].turn =>
                         fields[k].tip >= fields[j].tip
  BY DEF PagesOfOneRun
<1> USE DEF CalcInv
<1>1. DOMAIN Wanted = 1..Len(Wanted) /\ Len(Wanted) \in Nat /\ (calc = "proposals" => Len(Wanted) = 1)
  BY WantedFields DEF CalcTypes
<1>2. Len(ended) \in Nat /\ DOMAIN ended = 1..Len(ended) /\ fields[k].turn \in 0..Len(ended)
  BY <1>1 DEF CalcTypes
<1>3. \A j \in DOMAIN Wanted : fields[j].tip \in Nat
  BY <1>1 DEF CalcTypes
<1>4. Len(ended) > 0 /\ ended[1] = Len(Wanted)
  BY DEF PageShown, FirstRun
<1>5. fields[k].turn >= 1
  BY <1>1, <1>2, <1>4 DEF NewestWrites
<1>6. ~ \E c \in calls : c.at > k
  BY <1>1 DEF PageShown, LockFree, CalcTypes
<1>7. ended[fields[k].turn] >= k
  BY <1>2, <1>5, <1>6 DEF NewestWrites
<1> QED BY <1>2, <1>3, <1>5, <1>7 DEF NewestWrites, TipsOfRun

\* The type invariant of the calculators, for chains and overlaps of any size.
THEOREM CalcTypeCorrect == CalcSpec => []CalcTypeOK
<1>1. CalcSpec => []CalcInv
  BY CalcInitInv, CalcNextInv, PTL DEF CalcSpec
<1> QED BY <1>1, InvCalcTypeOK, PTL

\* A page never mixes what two runs of ConnectBlock have written, up to where the newer
\* one has failed, for chains and overlaps of any size.
THEOREM CalcPagesCorrect == CalcSpec => []PagesOfOneRun
<1>1. CalcSpec => []CalcInv
  BY CalcInitInv, CalcNextInv, PTL DEF CalcSpec
<1> QED BY <1>1, InvPages, PTL

-----------------------------------------------------------------------------
(* The three under one specification. *)

\* A step of one of them is a step of its own specification, and leaves the others alone.
LEMMA StepOfOne ==
  [ServicesNext]_servicesVars => [Next]_vars /\ [LifeNext]_lifeVars /\ [CalcNext]_calcVars
<1> SUFFICES ASSUME [ServicesNext]_servicesVars
             PROVE  [Next]_vars /\ [LifeNext]_lifeVars /\ [CalcNext]_calcVars
  OBVIOUS
<1>1. CASE UNCHANGED servicesVars
  BY <1>1 DEF servicesVars
<1>2. CASE ProcessStep(LifeNext)
  BY <1>2 DEF ProcessStep
<1>3. CASE CollectorsStep(Next)
  BY <1>3 DEF CollectorsStep
<1>4. CASE CalculatorStep(CalcNext)
  BY <1>4 DEF CalculatorStep
<1> QED BY <1>1, <1>2, <1>3, <1>4 DEF ServicesNext

\* Whatever the process goes through, its collectors and its calculators behave as they do
\* alone: what the theorems above say of them holds of the process.
THEOREM ServicesCompose ==
  ServicesSpec => Spec /\ CalcSpec /\ LifeInit /\ [][LifeNext]_lifeVars
<1>1. ServicesInit => Init /\ LifeInit /\ CalcInit
  BY DEF ServicesInit
<1> QED BY <1>1, StepOfOne, PTL DEF ServicesSpec, Spec, CalcSpec

\* All variables of the process have their types.
THEOREM ServicesTypeCorrect == ServicesSpec => []ServicesTypeOK
<1>1. LifeInit /\ [][LifeNext]_lifeVars => []LifeTypeOK
  BY LifeInitInv, LifeNextInv, InvLifeTypeOK, PTL
<1>2. TypeOK /\ LifeTypeOK /\ CalcTypeOK => ServicesTypeOK
  BY DEF ServicesTypeOK
<1> QED BY <1>1, <1>2, ServicesCompose, CollectorsTypeCorrect, CalcTypeCorrect, PTL

\* What the run checks of the process in all: the collectors take turns and are stuck for
\* no other reason, the parts find their tables, and no page mixes two runs.
THEOREM ServicesAreSafe ==
  ServicesSpec => [](RunsAlone /\ StuckOnlyAtStartup /\ PartsReady /\ PagesOfOneRun)
<1>1. LifeInit /\ [][LifeNext]_lifeVars => []PartsReady
  BY LifeInitInv, LifeNextInv, InvPartsReady, PTL
<1> QED BY <1>1, ServicesCompose, RunsAloneHolds, StuckOnlyAtStartupHolds, CalcPagesCorrect, PTL
=============================================================================
