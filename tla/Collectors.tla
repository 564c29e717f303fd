------------------------------ MODULE Collectors ------------------------------
(***************************************************************************)
(* The goroutines that collect data on a ticker, the lock of app/app.go    *)
(* that lets the collectors of pools, VSPs, exchanges and community        *)
(* statistics run one at a time, and the pool of database connections that *)
(* they share with the updates that do not take that lock: mempool, block  *)
(* handler and snapshot taker.                                             *)
(*                                                                         *)
(* An update holds a transaction, and so a connection, while it queries    *)
(* through the pool, which takes another; some of its error paths return   *)
(* without ending the transaction, whose connection is then lost.  What is *)
(* collected is left to the table modules: here a job is its stages.      *)
(***************************************************************************)
EXTENDS Integers, FiniteSets, Sequences, FiniteSetTheorems

CONSTANTS
  Lockers,    \* the collectors that take the busy lock
  Runners,    \* the updates that do not
  Enabled,    \* the sets of them that the flags of the configuration turn on
  Conns,      \* connections of the pool
  RetryLimit, \* retries of a failed request
  Tickers     \* tickers of the exchange collector

NoOne == "no one"
Procs == Lockers \cup Runners

ASSUME ConstantsAssumption ==
  /\ Lockers \subseteq {"pow", "vsp", "exchanges", "commstats"}
  /\ Runners \subseteq {"mempool", "block", "snapshot"}
  /\ Enabled \subseteq SUBSET Procs
  /\ Conns \in Nat /\ RetryLimit \in Nat /\ Tickers \in Nat

VARIABLES
  alive,    \* the process has not panicked
  done,     \* the context is cancelled
  busy,     \* who holds the busy lock
  pc,       \* where each goroutine is
  at,       \* the stage of its job
  retries,  \* retries of the request of the collector that holds the lock
  ticks,    \* ticks of the exchange tickers that nobody has taken
  tx,       \* who holds a transaction
  query,    \* who holds a connection for a query of its own
  lost      \* connections of transactions nobody will end

vars == <<alive, done, busy, pc, at, retries, ticks, tx, query, lost>>
pool == <<tx, query, lost>>

\* The stages of one round.  The transaction stands for those of the hour and of the
\* day, which are alike.
PowJob       == <<"fetch", "query", "begin", "inner", "commit">>
VspJob       == <<"fetch", "begin", "inner", "commit", "begin", "inner", "commit">>
ExchangesJob == <<"fetch", "query">>
CommstatsJob == <<"fetch", "query">>
MempoolJob   == <<"fetch", "query", "begin", "inner", "commit">>
BlockJob     == <<"query", "begin", "inner", "commit">>
SnapshotJob  == <<"query", "begin", "inner", "commit">>

Job(p) ==
  CASE p = "pow"       -> PowJob
    [] p = "vsp"       -> VspJob
    [] p = "exchanges" -> ExchangesJob
    [] p = "commstats" -> CommstatsJob
    [] p = "mempool"   -> MempoolJob
    [] p = "block"     -> BlockJob
    [] OTHER           -> SnapshotJob

FirstUpdate == 3 \* of PowJob

Free == Conns - lost - Cardinality(tx) - Cardinality(query)

\* A failed query leaves the transaction open here.
Leaky == {"pow", "vsp", "mempool"}

Running(p) == pc[p] \in {"startup", "work"}
Stage(p) == Job(p)[at[p]]
At(p, stage) == Running(p) /\ Stage(p) = stage

Init ==
  /\ alive = TRUE /\ done = FALSE /\ busy = NoOne
  /\ \E on \in Enabled :
       pc = [p \in Procs |-> CASE p \notin on      -> "ended"
                               [] p = "pow"       -> "startup"
                               [] p = "commstats" -> "gate"
                               [] p \in Runners   -> "idle"
                               [] OTHER           -> "start"]
  /\ at = [p \in Procs |-> IF p = "pow" THEN FirstUpdate ELSE 1]
  /\ retries = 0 /\ tx = {} /\ query = {} /\ lost = 0
  /\ ticks \in 0..Tickers

Goto(p, place) == pc' = [pc EXCEPT ![p] = place]

-----------------------------------------------------------------------------
(* The busy lock, and the way of a collector to its next round. *)

\* Mutant: the collectors do not take turns.
Mutant_NoLock(p) ==
  /\ pc[p] \in {"gate", "wait"}
  /\ busy' = p /\ Goto(p, IF pc[p] = "gate" THEN "read" ELSE "work")
  /\ UNCHANGED <<alive, done, at, retries, ticks, pool>>

\* The lock is taken for a round, or, by Run of pow and commstats, before the first one.
MarkBusyIfFree(p) ==
  /\ pc[p] \in {"gate", "wait"} /\ busy = NoOne
  /\ busy' = p /\ Goto(p, IF pc[p] = "gate" THEN "read" ELSE "work")
  /\ UNCHANGED <<alive, done, at, retries, ticks, pool>>

\* Mutant: Run of pow sleeps with the lock.
Mutant_SleepsLocked ==
  /\ "pow" \in Lockers /\ pc["pow"] = "read" /\ Free > 0
  /\ Goto("pow", "work") \/ Goto("pow", "sleep")
  /\ UNCHANGED <<alive, done, busy, at, retries, ticks, pool>>

\* Run of pow reads the last entry under the lock and may have to sleep, for which it
\* gives the lock up.
PowReads ==
  /\ "pow" \in Lockers /\ pc["pow"] = "read" /\ Free > 0
  /\ \/ Goto("pow", "work") /\ UNCHANGED busy
     \/ Goto("pow", "sleep") /\ busy' = NoOne
  /\ UNCHANGED <<alive, done, at, retries, ticks, pool>>

\* Run of commstats passes the lock on and starts its collectors.
CommstatsRuns ==
  /\ "commstats" \in Lockers /\ pc["commstats"] = "read"
  /\ busy' = NoOne /\ Goto("commstats", "start")
  /\ UNCHANGED <<alive, done, at, retries, ticks, pool>>

\* The other collectors read the last entry without the lock; an error ends a community collector.
ReadsLast(p) ==
  /\ pc[p] = "start"
  /\ \/ done /\ p # "commstats" /\ Goto(p, "ended")
     \/ Free > 0 /\ \E place \in {"sleep", "wait"} : Goto(p, place)
     \/ p = "commstats" /\ Goto(p, "ended")
  /\ UNCHANGED <<alive, done, busy, at, retries, ticks, pool>>

\* time.Sleep does not know the context.
Wakes(p) ==
  /\ pc[p] = "sleep" /\ Goto(p, "wait")
  /\ UNCHANGED <<alive, done, busy, at, retries, ticks, pool>>

\* The ticker fires.
NextRound(p) ==
  /\ p \in Lockers \ {"exchanges"} /\ pc[p] = "idle"
  /\ Goto(p, "wait")
  /\ UNCHANGED <<alive, done, busy, at, retries, ticks, pool>>

\* Run of exchanges stops its three tickers as it returns, when it has only just started the loop
\* that waits for them: the loop finds the ticks of the first round in their channels, and no other.
NextExchangeRound ==
  /\ "exchanges" \in Lockers /\ pc["exchanges"] = "idle"
  /\ ticks > 0 /\ ticks' = ticks - 1
  /\ Goto("exchanges", "wait")
  /\ UNCHANGED <<alive, done, busy, at, retries, pool>>

\* The context is done; when the ticker has fired, too, select takes either.
Stops(p) ==
  /\ pc[p] = "idle" /\ done
  /\ Goto(p, "ended")
  /\ UNCHANGED <<alive, done, busy, at, retries, ticks, pool>>

\* commstats looks at the context before it waits for the lock.
CommstatsGivesUp ==
  /\ "commstats" \in Lockers /\ pc["commstats"] = "gate" /\ done
  /\ Goto("commstats", "ended")
  /\ UNCHANGED <<alive, done, busy, at, retries, ticks, pool>>

\* A runner begins without a lock: on its ticker, a block, or a report of the crawler.
RunnerBegins(p) ==
  /\ p \in Runners /\ pc[p] = "idle"
  /\ Goto(p, "work")
  /\ UNCHANGED <<alive, done, busy, at, retries, ticks, pool>>

-----------------------------------------------------------------------------
(* A round. *)

\* Mutant: a round that fails returns before ReleaseForNewModule.
Mutant_KeepsLock(p, failed) ==
  /\ at' = [at EXCEPT ![p] = 1]
  /\ IF busy = p /\ ~failed THEN busy' = NoOne /\ retries' = 0 ELSE UNCHANGED <<busy, retries>>
  /\ Goto(p, CASE pc[p] = "startup" -> "gate"
               [] p = "vsp" /\ failed -> "ended"
               [] OTHER -> "idle")

\* The end of a round: the lock is given back, and an error ends the VSP collector.
EndJob(p, failed) ==
  /\ at' = [at EXCEPT ![p] = 1]
  /\ IF busy = p THEN busy' = NoOne /\ retries' = 0 ELSE UNCHANGED <<busy, retries>>
  /\ Goto(p, CASE pc[p] = "startup" -> "gate"
               [] p = "vsp" /\ failed -> "ended"
               [] OTHER -> "idle")

SkipTo(p, stage) == at' = [at EXCEPT ![p] = stage] /\ UNCHANGED <<pc, busy, retries>>

Advance(p) ==
  IF at[p] < Len(Job(p)) THEN SkipTo(p, at[p] + 1) ELSE EndJob(p, FALSE)

Fetched(p) ==
  /\ At(p, "fetch") /\ ~done
  /\ at' = [at EXCEPT ![p] = 2] /\ UNCHANGED <<pc, busy>>
  /\ retries' = IF busy = p THEN 0 ELSE retries
  /\ UNCHANGED <<alive, done, ticks, pool>>

\* A pool that fails is passed over, VSPs and community statistics are asked again,
\* an exchange and the mempool wait for the next round.
FetchFails(p) ==
  /\ At(p, "fetch")
  /\ \/ p = "pow" /\ ~done /\ SkipTo(p, FirstUpdate)
     \/ p = "pow" /\ done /\ EndJob(p, FALSE)
     \/ /\ p \in {"vsp", "commstats"} /\ retries < RetryLimit
        /\ retries' = retries + 1 /\ UNCHANGED <<at, pc, busy>>
     \/ p \in {"vsp", "commstats"} /\ retries = RetryLimit /\ EndJob(p, TRUE)
     \/ p \in {"exchanges", "mempool"} /\ EndJob(p, TRUE)
  /\ UNCHANGED <<alive, done, ticks, pool>>

\* result[len(result)-1] of a reply in which nothing is new.
PowPanics ==
  /\ "pow" \in Lockers /\ At("pow", "fetch") /\ ~done
  /\ alive' = FALSE
  /\ UNCHANGED <<done, busy, pc, at, retries, ticks, pool>>

-----------------------------------------------------------------------------
(* The pool. *)

\* A query takes a connection from the pool, also inside a transaction.
Acquire(p) ==
  /\ At(p, "query") \/ At(p, "inner")
  /\ p \notin query /\ Free > 0
  /\ query' = query \cup {p}
  /\ UNCHANGED <<alive, done, busy, pc, at, retries, ticks, tx, lost>>

QueryDone(p) ==
  /\ p \in query /\ ~done
  /\ query' = query \ {p} /\ Advance(p)
  /\ UNCHANGED <<alive, done, ticks, tx, lost>>

\* Mutant: a query does not know the context.
Mutant_Patient(p) ==
  /\ At(p, "query") \/ At(p, "inner")
  /\ p \in query
  /\ query' = query \ {p}
  /\ tx' = tx \ {p}
  /\ lost' = IF p \in tx /\ p \in Leaky THEN lost + 1 ELSE lost
  /\ IF p = "pow" /\ At(p, "query") THEN SkipTo(p, FirstUpdate) ELSE EndJob(p, TRUE)
  /\ UNCHANGED <<alive, done, ticks>>

\* A query fails, or gives up waiting for a connection when the context is done.
Fails(p) ==
  /\ At(p, "query") \/ At(p, "inner")
  /\ p \in query \/ done
  /\ query' = query \ {p}
  /\ tx' = tx \ {p}
  /\ lost' = IF p \in tx /\ p \in Leaky THEN lost + 1 ELSE lost
  /\ IF p = "pow" /\ At(p, "query") THEN SkipTo(p, FirstUpdate) ELSE EndJob(p, TRUE)
  /\ UNCHANGED <<alive, done, ticks>>

\* Mutant: the pool has no bound.
Mutant_NoBound(p) ==
  /\ At(p, "begin")
  /\ \/ tx' = tx \cup {p} /\ \E n \in {1, 2} : SkipTo(p, at[p] + n)
     \/ UNCHANGED tx /\ EndJob(p, TRUE)
  /\ UNCHANGED <<alive, done, ticks, query, lost>>

\* db.Begin waits for a connection whatever the context says.  Without new records the
\* loop is not entered.
Begin(p) ==
  /\ At(p, "begin") /\ Free > 0
  /\ \/ tx' = tx \cup {p} /\ \E n \in {1, 2} : SkipTo(p, at[p] + n)
     \/ UNCHANGED tx /\ EndJob(p, TRUE)
  /\ UNCHANGED <<alive, done, ticks, query, lost>>

Commit(p) ==
  /\ At(p, "commit")
  /\ tx' = tx \ {p}
  /\ Advance(p) \/ EndJob(p, TRUE)
  /\ UNCHANGED <<alive, done, ticks, query, lost>>

-----------------------------------------------------------------------------
Shutdown ==
  /\ ~done /\ done' = TRUE
  /\ UNCHANGED <<alive, busy, pc, at, retries, ticks, pool>>

Ready(p) ==
  \/ Wakes(p) \/ NextRound(p)
  \/ p = "commstats" /\ (CommstatsRuns \/ CommstatsGivesUp)
  \/ p = "exchanges" /\ NextExchangeRound

Works(p) == Fetched(p) \/ FetchFails(p) \/ QueryDone(p) \/ Fails(p) \/ Commit(p)

Takes(p) == Acquire(p) \/ Begin(p) \/ ReadsLast(p) \/ (p = "pow" /\ PowReads)

Next ==
  /\ alive
  /\ \/ Shutdown \/ PowPanics
     \/ \E p \in Procs :
          Ready(p) \/ Stops(p) \/ RunnerBegins(p) \/ MarkBusyIfFree(p) \/ Works(p) \/ Takes(p)

Spec == Init /\ [][Next]_vars

(***************************************************************************)
(* Goroutines run and timers fire.  A mutex that is waited for longer than *)
(* a millisecond is handed over in order, a connection that comes free     *)
(* goes to one of those who wait, and select chooses at random: strong     *)
(* fairness for the three.                                                 *)
(***************************************************************************)
Fairness ==
  /\ \A p \in Procs : /\ WF_vars(alive /\ (Ready(p) \/ Works(p)))
                      /\ SF_vars(alive /\ (MarkBusyIfFree(p) \/ Takes(p)))
  /\ SF_vars(alive /\ \E p \in Procs : Stops(p))

FairSpec == Spec /\ Fairness

-----------------------------------------------------------------------------
(* Properties *)

\* Every variable has its type, and the pool hands out no connection it does not have.
TypeOK ==
  /\ alive \in BOOLEAN /\ done \in BOOLEAN
  /\ busy \in Lockers \cup {NoOne}
  /\ pc \in [Procs -> {"startup", "gate", "read", "start", "sleep", "wait", "idle", "work",
                      "ended"}]
  /\ at \in [Procs -> 1..7] /\ \A p \in Procs : at[p] \in DOMAIN Job(p)
  /\ retries \in 0..RetryLimit /\ ticks \in 0..Tickers
  /\ tx \subseteq Procs /\ query \subseteq Procs
  /\ lost \in Nat /\ Free \in Nat

(***************************************************************************)
(* app.go: "MarkBusyIfFree locks the busy locker to ensure sequential      *)
(* execution of callers".  Whoever reads or collects under the lock holds  *)
(* it, and whoever holds it is about to give it up: it is never kept over  *)
(* a sleep, the wait for a tick, or the end of a collector.                *)
(***************************************************************************)
RunsAlone == \A p \in Lockers : busy = p <=> pc[p] \in {"read", "work"}

\* Everybody who has a connection waits for another one, and none is left.
Stuck ==
  /\ Free = 0 /\ query = {}
  /\ \A p \in tx : At(p, "inner")

(***************************************************************************)
(* The updates that query through the pool inside a transaction can block  *)
(* each other for ever.  With one connection for each update that needs no *)
(* lock and two more (the five of postgres.go), this takes transactions    *)
(* that an error path has leaked, or the update of pow's Activate, the one *)
(* that runs beside a collector without taking the lock.                   *)
(***************************************************************************)
StuckOnlyAtStartup ==
  Stuck /\ Conns >= Cardinality(Runners) + 2 =>
    lost > 0 \/ \E p \in Lockers : pc[p] = "startup"

(***************************************************************************)
(* Every collector collects again and again, until the context is done, an *)
(* error has ended it (vsp.go, or the first read of commstats), the pool   *)
(* is stuck, or the process has panicked.                                  *)
(***************************************************************************)
CollectsAgain(p) == []<>(pc[p] \in {"work", "ended"} \/ done \/ ~alive \/ Stuck)

KeepsCollecting == \A p \in Lockers \ {"exchanges"} : CollectsAgain(p)

\* exchanges.go logs "Fetching exchange ticks every %dm": its collector does so like the others.
ExchangesKeepCollecting == CollectsAgain("exchanges")

(***************************************************************************)
(* When the context is done every collector ends, also one that sleeps or  *)
(* waits for the lock, unless no connection is left: db.Begin does not     *)
(* know the context.                                                       *)
(***************************************************************************)
StopsWhenAsked == done ~> ((\A p \in Procs : pc[p] = "ended") \/ ~alive \/ lost = Conns)

=============================================================================
