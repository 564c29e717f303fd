-------------------------------- MODULE Records --------------------------------
(***************************************************************************)
(* How the replies of the collectors become rows: the pools (pow_data),    *)
(* the VSPs (vsp_tick), the mempool, and the four community tables.  A     *)
(* behaviour follows one of them, recTable.  In a round the collector asks *)
(* its sources one by one and stores each reply row by row, without a      *)
(* transaction; a row that is already there is passed over.                *)
(*                                                                         *)
(* The collector of a pool remembers, as lastUpdate, the time of the last  *)
(* entry of a reply before any of it is stored, and later asks from there  *)
(* on; only a restart takes that time from the table.  Whose turn it is    *)
(* among the collectors is left to Collectors.                             *)
(***************************************************************************)
EXTENDS Tables, Sorted, SequencesExt

CONSTANTS
  RecTables,     \* the tables to follow
  PoolSets,      \* the pools that are not disabled: the sets to try
  Vsps,          \* the VSPs of a reply
  Accounts,      \* the accounts of a community table, in the order of the configuration
  LastRecTime,   \* the last time
  MaxRecErrors,  \* failed inserts
  MaxRecReboots  \* restarts

availablePows == <<"coinmine", "luxor", "f2pool", "uupool">>

\* These two answer with their history, the others with a number.
Historic == {"luxor", "f2pool"}

Community == {"reddit", "twitter", "github", "youtube"}

ASSUME RecordsAssumption ==
  /\ RecTables \subseteq {"pow_data", "vsp_tick", "mempool"} \cup Community /\ RecTables # {}
  /\ PoolSets \subseteq SUBSET Range(availablePows) /\ PoolSets # {}
  /\ Accounts \in Seq(STRING) /\ IsFiniteSet(Vsps)
  /\ LastRecTime \in Nat \ {0} /\ MaxRecErrors \in Nat /\ MaxRecReboots \in Nat

VARIABLES
  recTable,   \* the table
  pools,      \* the pools that are not disabled
  recNow,     \* the time
  records,    \* its rows
  vsps,       \* the VSPs that have a row in vsp
  place,      \* "idle", "round" or, for the VSP collector, "ended"
  turns,      \* the sources this round has yet to ask
  received,   \* the rows of the last reply that are not stored yet
  failed,     \* a row of this reply could not be stored
  lastUpdate, \* from where on a pool is asked
  offered,    \* every row a reply has brought
  givenUp,    \* those that an error or the end of the process has cost
  recFaults   \* errors and restarts so far

recFixed == <<recTable, pools>>
recWork  == <<place, turns, received, failed>>
recordsVars ==
  <<recFixed, recNow, records, vsps, recWork, lastUpdate, offered, givenUp, recFaults>>

\* The columns that say when a row is from and whose it is.
WhenColumn(t) == IF t \in Community THEN "date" ELSE "time"
WhoColumn(t) ==
  CASE t = "pow_data" -> "source"
    [] t = "vsp_tick" -> "vsp_id"
    [] t = "reddit"   -> "subreddit"
    [] t = "twitter"  -> "handle"
    [] t = "github"   -> "repository"
    [] OTHER          -> "channel"

Row(t, who, when) ==
  [c \in {WhenColumn(t), WhoColumn(t)} |-> IF c = WhenColumn(t) THEN when ELSE who]

\* A pool's row.
responseToPowModel(pool, t) == Row("pow_data", pool, t)

\* A tick: its time is LastUpdated of the VSP, whose numbers change with it.
responseToVSPTick(v, t) == Row("vsp_tick", v, t)

mempoolDtoToModel(t) == [time |-> t]

-----------------------------------------------------------------------------

\* Mutant: the newest time of any pool.
Mutant_LastPowEntryTime(source) == Max({0} \cup {r.time : r \in records})

\* No row: zero.
LastPowEntryTime(source) == Max({0} \cup {r.time : r \in {x \in records : x.source = source}})

\* Every pool begins where its rows end.
NewPows == [p \in pools |-> LastPowEntryTime(p)]

RecordsInit ==
  /\ recTable \in RecTables /\ pools \in PoolSets
  /\ recTable = "pow_data" \/ pools = CHOOSE s \in PoolSets : TRUE
  /\ recNow = 1 /\ records = {} /\ vsps = {}
  /\ place = "idle" /\ turns = << >> /\ received = << >> /\ failed = FALSE
  /\ lastUpdate = [p \in pools |-> 0]
  /\ offered = {} /\ givenUp = {}
  /\ recFaults = [errors |-> 0, reboots |-> 0]

\* Time passes.  Luxor and f2pool have an entry for every moment.
RecTick ==
  /\ recNow < LastRecTime /\ recNow' = recNow + 1
  /\ UNCHANGED <<recFixed, records, vsps, recWork, lastUpdate, offered, givenUp, recFaults>>

Starts(sources) ==
  /\ place = "idle" /\ place' = "round" /\ turns' = sources /\ failed' = FALSE
  /\ UNCHANGED <<recFixed, recNow, records, vsps, received, lastUpdate, offered, givenUp,
                 recFaults>>

\* A pool is asked unless it is disabled.
Active(i) == IF availablePows[i] \in pools THEN <<availablePows[i]>> ELSE << >>

\* The ticker of the collector fires.
StartRound ==
  CASE recTable = "pow_data"   -> Starts(Active(1) \o Active(2) \o Active(3) \o Active(4))
    [] recTable \in Community -> Starts(Accounts)
    [] OTHER                  -> Starts(<<recTable>>)

\* Only between the replies is anyone asked.
Asks(source) == place = "round" /\ received = << >> /\ turns # << >> /\ Head(turns) = source

Replied(rep) ==
  /\ received' = rep /\ offered' = offered \cup Range(rep) /\ turns' = Tail(turns)
  /\ UNCHANGED <<recFixed, records, vsps, place, failed, givenUp, recFaults>>

OrdersOf(S) == {o \in [1..Cardinality(S) -> S] : Range(o) = S}

\* The entries of the history from lastUpdate on.
fetch(pool) == {t \in 1..recNow : t >= lastUpdate[pool]}

\* Luxor answers with a list, f2pool with a map, whose order changes.
CollectHistory(pool, orders) ==
  /\ recTable = "pow_data" /\ Asks(pool)
  /\ \E times \in orders :
       /\ lastUpdate' = [lastUpdate EXCEPT ![pool] = Last(times)]
       /\ Replied([i \in DOMAIN times |-> responseToPowModel(pool, times[i])])
  /\ UNCHANGED recNow

CollectLuxor  == CollectHistory("luxor", {Ascending(fetch("luxor"))})
CollectF2pool == CollectHistory("f2pool", OrdersOf(fetch("f2pool")))

CollectNumber(pool) ==
  /\ recTable = "pow_data" /\ Asks(pool)
  /\ lastUpdate' = [lastUpdate EXCEPT ![pool] = recNow]
  /\ Replied(<<responseToPowModel(pool, recNow)>>)
  /\ UNCHANGED recNow

CollectCoinmine == CollectNumber("coinmine")
CollectUupool   == CollectNumber("uupool")

\* One reply for all VSPs, a map: some have been updated, some have not.
CollectVsps ==
  /\ recTable = "vsp_tick" /\ Asks("vsp_tick")
  /\ \E order \in OrdersOf(Vsps), times \in [Vsps -> 1..recNow] :
       Replied([i \in DOMAIN order |-> responseToVSPTick(order[i], times[order[i]])])
  /\ UNCHANGED <<recNow, lastUpdate>>

\* An empty mempool leaves no row.
CollectMempool ==
  /\ recTable = "mempool" /\ Asks("mempool")
  /\ \E n \in 0..1 : Replied(IF n = 0 THEN << >> ELSE <<mempoolDtoToModel(recNow)>>)
  /\ UNCHANGED <<recNow, lastUpdate>>

\* Mutant: the time the round began.
Mutant_CollectAccount(t) ==
  /\ recTable = t /\ turns # << >> /\ Asks(Head(turns))
  /\ Replied(<<Row(t, Head(turns), recNow)>>)
  /\ UNCHANGED <<recNow, lastUpdate>>

\* The date is taken after the reply, and a reply takes time.
CollectAccount(t) ==
  /\ recTable = t /\ turns # << >> /\ Asks(Head(turns))
  /\ recNow < LastRecTime /\ recNow' = recNow + 1
  /\ Replied(<<Row(t, Head(turns), recNow')>>)
  /\ UNCHANGED lastUpdate

getRedditStat  == CollectAccount("reddit")
getTwitterStat == CollectAccount("twitter")
getGithubStat  == CollectAccount("github")
getYoutubeStat == CollectAccount("youtube")

\* A pool that does not answer is passed over; a community round and, after its retries, the VSP
\* collector end.
CollectFails ==
  /\ place = "round" /\ received = << >> /\ turns # << >>
  /\ turns' = IF recTable \in Community THEN << >> ELSE Tail(turns)
  /\ place' = IF recTable = "vsp_tick" THEN "ended" ELSE place
  /\ UNCHANGED <<recFixed, recNow, records, vsps, received, failed, lastUpdate, offered,
                 givenUp, recFaults>>

-----------------------------------------------------------------------------

\* A VSP that is seen for the first time is stored by itself, before its tick.
AddVsp ==
  /\ recTable = "vsp_tick" /\ received # << >> /\ Head(received).vsp_id \notin vsps
  /\ vsps' = vsps \cup {Head(received).vsp_id}
  /\ UNCHANGED <<recFixed, recNow, records, recWork, lastUpdate, offered, givenUp, recFaults>>

KnownVsp == recTable = "vsp_tick" => Head(received).vsp_id \in vsps

\* Mutant: a row that is already there ends the reply.
Mutant_StoreRecord ==
  /\ received # << >> /\ KnownVsp
  /\ records' = Inserted(recTable, records, Head(received))
  /\ received' = IF Refused(recTable, records, Head(received)) THEN << >> ELSE Tail(received)
  /\ UNCHANGED <<recFixed, recNow, vsps, place, turns, failed, lastUpdate, offered, givenUp,
                 recFaults>>

\* A row that is already there is no error.
StoreRecord ==
  /\ received # << >> /\ KnownVsp
  /\ records' = Inserted(recTable, records, Head(received)) /\ received' = Tail(received)
  /\ UNCHANGED <<recFixed, recNow, vsps, place, turns, failed, lastUpdate, offered, givenUp,
                 recFaults>>

MayFail ==
  /\ received # << >> /\ recFaults.errors < MaxRecErrors
  /\ recFaults' = [recFaults EXCEPT !.errors = @ + 1]
  /\ UNCHANGED <<recFixed, recNow, records, vsps, lastUpdate, offered>>

\* An error ends the reply.  Of a list, what came before lastUpdate will not be asked for any
\* more; of a map, a restart may pass over all the rest.
AddPowDataFails ==
  /\ recTable = "pow_data" /\ MayFail
  /\ givenUp' = givenUp \cup {r \in Range(received) :
                                r.source = "luxor" => r.time < lastUpdate["luxor"]}
  /\ received' = << >> /\ UNCHANGED <<place, turns, failed>>

\* An error, of the lookup or of either insert, costs one tick; the others are stored still.
StoreVSPFails ==
  /\ recTable = "vsp_tick" /\ MayFail
  /\ givenUp' = givenUp \cup {Head(received)} /\ received' = Tail(received) /\ failed' = TRUE
  /\ UNCHANGED <<place, turns>>

StoreMempoolFails ==
  /\ recTable = "mempool" /\ MayFail
  /\ givenUp' = givenUp \cup {Head(received)} /\ received' = << >>
  /\ UNCHANGED <<place, turns, failed>>

\* The accounts after this one are not asked in this round.
StoreStatFails ==
  /\ recTable \in Community /\ MayFail
  /\ givenUp' = givenUp \cup {Head(received)} /\ received' = << >> /\ turns' = << >>
  /\ UNCHANGED <<place, failed>>

\* The VSP collector ends for good when a tick, or the update of its bins, has failed.
EndRound ==
  /\ place = "round" /\ received = << >> /\ turns = << >>
  /\ \/ ~failed /\ place' = "idle"
     \/ recTable = "vsp_tick" /\ place' = "ended"
  /\ UNCHANGED <<recFixed, recNow, records, vsps, turns, received, failed, lastUpdate, offered,
                 givenUp, recFaults>>

\* The process ends at any point and starts again.  A pool is asked again from its newest row on:
\* of a list that was stored in part, that is all the rest.
RecReboot ==
  /\ recFaults.reboots < MaxRecReboots
  /\ recFaults' = [recFaults EXCEPT !.reboots = @ + 1]
  /\ place' = "idle" /\ turns' = << >> /\ received' = << >> /\ failed' = FALSE
  /\ IF recTable = "pow_data"
     THEN /\ lastUpdate' = NewPows
          /\ givenUp' = {r \in givenUp \cup {x \in Range(received) : x.source # "luxor"} :
                           r.source = "luxor" => r.time < NewPows["luxor"]}
     ELSE /\ givenUp' = givenUp \cup Range(received)
          /\ UNCHANGED lastUpdate
  /\ UNCHANGED <<recFixed, recNow, records, vsps, offered>>

CollectReply ==
  \/ CollectCoinmine \/ CollectLuxor \/ CollectF2pool \/ CollectUupool
  \/ CollectVsps \/ CollectMempool
  \/ getRedditStat \/ getTwitterStat \/ getGithubStat \/ getYoutubeStat

StoreFails == AddPowDataFails \/ StoreVSPFails \/ StoreMempoolFails \/ StoreStatFails

RecordsNext ==
  \/ RecTick \/ StartRound \/ CollectReply \/ CollectFails
  \/ AddVsp \/ StoreRecord \/ StoreFails
  \/ EndRound \/ RecReboot

RecordsSpec == RecordsInit /\ [][RecordsNext]_recordsVars

-----------------------------------------------------------------------------
(* Properties *)

RecordsTypeOK ==
  /\ recTable \in RecTables /\ pools \in PoolSets /\ recNow \in 1..LastRecTime
  /\ place \in {"idle", "round", "ended"} /\ failed \in BOOLEAN
  /\ lastUpdate \in [pools -> 0..LastRecTime]
  /\ records \subseteq offered /\ Range(received) \subseteq offered /\ givenUp \subseteq offered
  /\ vsps \subseteq Vsps

StillAsked(r) ==
  recTable = "pow_data" /\ r.source \in Historic /\ r.time \in fetch(r.source)

\* What a collector has received is stored, is about to be, or is asked for again: passing
\* over rows that are already there, moving lastUpdate before a reply is stored and
\* reading it from the table after a restart lose nothing but what an error in the
\* database, or the end of the process in a reply that comes in no order, has cost.
RecordsKept ==
  \A r \in offered : r \in records \cup Range(received) \cup givenUp \/ StillAsked(r)
=============================================================================
