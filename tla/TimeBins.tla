------------------------------ MODULE TimeBins ------------------------------
(***************************************************************************)
(* The hour and day bins that src/postgres keeps beside the raw records of *)
(* its tables: after every collection the table's update first adds the    *)
(* hour bins, then the day bins, each in a transaction of its own, and     *)
(* decides what is still to be binned from the newest bin alone.           *)
(*                                                                         *)
(* The tables differ in how they page through the records that are not     *)
(* binned yet (Reads) and share everything else.  No two tables share a    *)
(* row, so a behaviour follows one of them: the variable table.  A record  *)
(* is its time and the source it is about (mining pool, VSP, user agent,   *)
(* country, peer instance); averages are the set of records averaged.      *)
(***************************************************************************)
EXTENDS BinGroups, Sequences, SequencesExt

CONSTANTS
  Tables,      \* the tables to follow; those without bins are for module Stores
  Sources,     \* what the records are about
  Reports,     \* bound: the sets of sources that can be collected together
  HourStep,    \* the page of the hourly updates (7 days in the code)
  DayStep,     \* the page of the daily updates (30 days)
  FirstBlock,  \* receive time of the first block, where the vote bins begin
  OutOfOrder,  \* the tables whose records may come late (votes, blocks)
  Lateness,    \* bound: how far behind the newest record a late one can be
  MinTime, MaxTime, \* bounds: time
  MaxErrors    \* bound: updates that fail in the database

\* The tables with bins.
BinTables == {"mempool", "pow", "vsp", "snapshot", "version", "location", "propagation", "vote"}

ASSUME BinsAssumption ==
  /\ Tables \cap BinTables # {}
  /\ IsFiniteSet(Sources) /\ Sources # {}
  /\ Reports \subseteq (SUBSET Sources) \ {{}}
  /\ OutOfOrder \subseteq {"propagation", "vote"}
  /\ {HourStep, DayStep} \subseteq Nat \ {0}
  /\ HourStep % AnHour = 0 /\ DayStep % ADay = 0
  /\ {FirstBlock, Lateness, MinTime, MaxTime, MaxErrors} \subseteq Nat

VARIABLES
  table,      \* the table followed
  now,        \* time of the newest record
  ticks,      \* the records: source -> times
  bins,       \* the bins: kind, source, start and the records averaged
  jobs,       \* what is left of the running update
  conflict,   \* history: an update has inserted a bin twice
  errors,
  backlog,    \* history: kinds of bins an update has paged through
  overtaken,  \* history: periods passed over, as <<kind, source, period>>
  late        \* history: records older than a bin when stored, likewise

binsVars == <<table, now, ticks, bins, jobs, conflict, errors, backlog, overtaken, late>>

None_ == -1

Step(kind) == IF kind = "hour" THEN HourStep ELSE DayStep

Between(T, from, to) == {t \in T : from <= t /\ t < to}

Single == {"mempool", "snapshot", "vote"}
PerSource == {"version", "location"}
SourcesOf(tab) == IF tab \in Single THEN {Head(SetToSeq(Sources))} ELSE Sources

\* The records of all sources.
Dates == UNION {ticks[s] : s \in Sources}

BinsInit ==
  /\ table \in Tables
  /\ now = 0 /\ ticks = [s \in Sources |-> {}]
  /\ bins = {} /\ jobs = <<>> /\ conflict = FALSE /\ errors = 0
  /\ backlog = {} /\ overtaken = {} /\ late = {}

-----------------------------------------------------------------------------
(* Paging *)

\* Where the pages start that are each as long as the step and follow each other.
FixedPages(from, step, until) ==
  {from + k * step : k \in {k \in 0..MaxTime : from + k * step < until}}

\* Where they start if each begins at the first record the one before left.
JumpPages(T, from, step) ==
  LET Page[n \in Nat] ==
        LET rest == {t \in T : t >= n}
        IN IF rest = {} THEN {} ELSE {Min(rest)} \cup Page[Min(rest) + step]
  IN Page[from]

-----------------------------------------------------------------------------
(* What an update of each table reads: the records of each page, and the     *)
(* start of the first group it may store from it.                            *)

LastBin(kind, ss) ==
  LET T == {b.time : b \in {b \in bins : b.kind = kind /\ b.src \in ss}}
  IN IF T = {} THEN None_ ELSE Max(T)

\* Mutant: a period is left out after the newest bin.
AfterNext(last, width) == IF last = None_ THEN 0 ELSE last + 2 * width

After(last, width) == IF last = None_ THEN 0 ELSE last + width

\* updateMempoolHourlyAverage, updateMempoolDailyAvg
MempoolReads(kind, s) ==
  {[times |-> Between(ticks[s], p, p + Step(kind)), from |-> 0] :
     p \in JumpPages(ticks[s], After(LastBin(kind, Sources), Width(kind)), Step(kind))}

\* updatePowHourlyAvg, updatePowDailyAvg: all pools share the dates, the daily
\* update goes on an hour, not a day, after its newest bin, and pages are read up
\* to the clock, which has passed the newest record.
PowReads(kind, s) ==
  LET last == LastBin(kind, Sources)
      next == IF last = None_ THEN Min(Dates) ELSE last + AnHour
  IN {[times |-> Between(Dates, p, p + Step(kind)), from |-> p] :
        p \in FixedPages(next, Step(kind), now + 1)}

\* The dates of all VSPs, with the records of s among them.
fetchVspChartForSource(start, s) ==
  LET dates == {t \in Dates : t > start} IN [time |-> dates, records |-> dates \cap ticks[s]]

UpdateVspHourlyChart(last, s) ==
  {[times |-> fetchVspChartForSource(last, s).time, from |-> After(last, AnHour)]}

\* The VSP's own hour bins.
UpdateVspDailyChart(last, s) ==
  LET next == After(last, ADay)
  IN {[times |-> {b.time : b \in {b \in bins : b.kind = "hour" /\ b.src = s /\ b.time >= next}},
       from |-> next]}

VspReads(kind, s) ==
  LET last == LastBin(kind, Sources)
  IN IF kind = "hour" THEN UpdateVspHourlyChart(last, s) ELSE UpdateVspDailyChart(last, s)

Newer(s, last) == {t \in ticks[s] : t > last}

\* UpdateSnapshotNodesBin
SnapshotReads(kind, s) ==
  LET last == LastBin(kind, Sources)
  IN {[times |-> Newer(s, last), from |-> After(last, Width(kind))]}

\* Mutant: the period of the newest bin, which is read again, is stored again.
VersionReadsAgain(kind, s) ==
  {[times |-> Newer(s, LastBin(kind, Sources)), from |-> 0]}

\* updateSnapshotVersionBinData: the daily part, too, goes on an hour after its
\* newest bin.
VersionReads(kind, s) ==
  LET last == LastBin(kind, Sources)
  IN {[times |-> Newer(s, last), from |-> After(last, AnHour)]}

\* updateNodeLocationBinData
LocationReads(kind, s) ==
  LET last == LastBin(kind, Sources)
  IN {[times |-> Newer(s, last), from |-> After(last, Width(kind))]}

\* The pages of one source start at the records of any.
PropagationPages(last, s, width, step) ==
  LET next == IF last = None_ THEN Min(ticks[s]) ELSE last + width
  IN {[times |-> Between(ticks[s], p, p + step), from |-> 0] : p \in JumpPages(Dates, next, step)}

UpdatePropagationHourlyAvgForSource(last, s) == PropagationPages(last, s, AnHour, HourStep)

UpdatePropagationDailyAvgForSource(last, s) == PropagationPages(last, s, ADay, DayStep)

PropagationReads(kind, s) ==
  LET last == LastBin(kind, {s})
  IN IF kind = "hour" THEN UpdatePropagationHourlyAvgForSource(last, s)
     ELSE UpdatePropagationDailyAvgForSource(last, s)

\* Votes by the time of the block they vote on, from the first block on.
VotePages(last, s, width, step) ==
  LET next == IF last = None_ THEN FirstBlock ELSE last + width
  IN {[times |-> Between(ticks[s], p, p + step), from |-> p] :
        p \in FixedPages(next, step, Max(ticks[s]) + 1)}

updateVoteTimeDeviationHourlyAvgData(last, s) == VotePages(last, s, AnHour, HourStep)

updateVoteTimeDeviationDailyAvgData(last, s) == VotePages(last, s, ADay, DayStep)

VoteReads(kind, s) ==
  LET last == LastBin(kind, Sources)
  IN IF kind = "hour" THEN updateVoteTimeDeviationHourlyAvgData(last, s)
     ELSE updateVoteTimeDeviationDailyAvgData(last, s)

Reads(kind, s) ==
  IF ticks[s] = {} /\ table \notin {"pow", "vsp"} THEN {}
  ELSE CASE table = "mempool"     -> MempoolReads(kind, s)
         [] table = "pow"         -> PowReads(kind, s)
         [] table = "vsp"         -> VspReads(kind, s)
         [] table = "propagation" -> PropagationReads(kind, s)
         [] table = "vote"        -> VoteReads(kind, s)
         [] table = "snapshot"    -> SnapshotReads(kind, s)
         [] table = "version"     -> VersionReads(kind, s)
         [] table = "location"    -> LocationReads(kind, s)

\* The records behind a group: the source's own among the dates it groups, or
\* those of its hour bins.
Members(kind, s, group) ==
  IF table = "vsp" /\ kind = "day"
  THEN UNION {b.of : b \in {b \in bins : b.kind = "hour" /\ b.src = s /\ b.time \in group.of}}
  ELSE group.of \cap ticks[s]

NewBins(kind, s) ==
  UNION {{[kind |-> kind, src |-> s, time |-> g.time, of |-> Members(kind, s, g)] :
            g \in {g \in GenerateBin(r.times, [t \in r.times |-> t], Width(kind)) : g.time >= r.from}} :
         r \in Reads(kind, s)}

-----------------------------------------------------------------------------
(* Actions *)

\* The transactions of an update, in order.
Update ==
  IF table = "propagation"
  THEN [i \in 1..(2 * Cardinality(Sources)) |->
          [kind |-> IF i % 2 = 1 THEN "hour" ELSE "day",
           srcs |-> {SetToSeq(Sources)[(i + 1) \div 2]}]]
  ELSE <<[kind |-> "hour", srcs |-> SourcesOf(table)],
         [kind |-> "day",  srcs |-> SourcesOf(table)]>>

\* The time before which a record comes too late to be binned.
Horizon(kind, s) ==
  IF table = "vote" /\ LastBin(kind, {s}) = None_ THEN FirstBlock
  ELSE After(LastBin(kind, {s}), Width(kind))

\* Records of some sources are stored and the table's update begins.  Votes and
\* blocks carry the time of a block, which need not be the newest.
Collect(t, ss) ==
  /\ table \in BinTables /\ jobs = <<>>
  /\ ss \subseteq SourcesOf(table)
  /\ \/ t > now
     \/ table \in OutOfOrder /\ t >= now - Lateness /\ \A s \in ss : t \notin ticks[s]
  /\ now' = Max({now, t})
  /\ ticks' = [s \in Sources |-> IF s \in ss THEN ticks[s] \cup {t} ELSE ticks[s]]
  /\ late' = late \cup {x \in {"hour", "day"} \X ss \X {t} : t < Horizon(x[1], x[2])}
  /\ jobs' = Update
  /\ UNCHANGED <<table, bins, conflict, errors, backlog, overtaken>>

Key(b) == <<b.kind, b.src, b.time>>

\* One transaction: all its bins or, where one is there already, none and the
\* end of the update.
StoreBins ==
  /\ jobs # <<>>
  /\ LET kind == Head(jobs).kind
         srcs == Head(jobs).srcs
         new  == UNION {NewBins(kind, s) : s \in srcs}
         dup  == \/ \E b \in new, c \in bins : Key(b) = Key(c)
                 \/ \E b, c \in new : b # c /\ Key(b) = Key(c)
     IN /\ bins' = IF dup THEN bins ELSE bins \cup new
        /\ jobs' = IF dup THEN <<>> ELSE Tail(jobs)
        /\ conflict' = (conflict \/ dup)
        /\ backlog' = IF \E s \in srcs : Cardinality(Reads(kind, s)) > 1
                      THEN backlog \cup {kind} ELSE backlog
        /\ overtaken' = overtaken \cup
             {x \in {kind} \X SourcesOf(table) \X {Stamp(t, Width(kind)) : t \in Dates} :
                /\ table \in PerSource /\ \E t \in ticks[x[2]] : x[3] = Stamp(t, Width(kind))
                /\ \E b \in new : b.time >= x[3]
                /\ Max(ticks[x[2]]) < x[3] + 2 * Width(kind)}
  /\ UNCHANGED <<table, now, ticks, errors, late>>

\* A query or the commit fails: nothing of the transaction stays, and the rest of
\* the update is given up.
UpdateFails ==
  /\ jobs # <<>> /\ errors < MaxErrors
  /\ errors' = errors + 1 /\ jobs' = <<>>
  /\ UNCHANGED <<table, now, ticks, bins, conflict, backlog, overtaken, late>>

BinsNext ==
  \/ StoreBins \/ UpdateFails
  \/ \E t \in MinTime..MaxTime, ss \in Reports : Collect(t, ss)

BinsSpec == BinsInit /\ [][BinsNext]_binsVars

-----------------------------------------------------------------------------
(* Properties *)

\* The type invariant.
BinsTypeOK ==
  /\ table \in Tables /\ now \in Nat
  /\ ticks \in [Sources -> SUBSET (MinTime..MaxTime)]
  /\ \A b \in bins : /\ b.kind \in {"hour", "day"} /\ b.src \in SourcesOf(table)
                     /\ b.time % Width(b.kind) = 0 /\ b.of \subseteq MinTime..MaxTime
  /\ \A i \in DOMAIN jobs : jobs[i].kind \in {"hour", "day"} /\ jobs[i].srcs \subseteq Sources
  /\ conflict \in BOOLEAN /\ errors \in 0..MaxErrors

\* A bin is the average of exactly the records of its period: those that follow
\* are only missed where they came late, and none is cut off, unless the update
\* had to page through a backlog.
WholeBins ==
  \A b \in bins : b.kind \in backlog \/
    b.of = {t \in ticks[b.src] : /\ Stamp(t, Width(b.kind)) = b.time
                                 /\ <<b.kind, b.src, t>> \notin late}

\* No update meets a bin that is already stored.  It would fail, and since
\* nothing moves the newest bin, so would every update after it.
NoConflict == ~conflict

\* The times a kind of bins is computed from.
Basis(kind, s) ==
  IF table = "vsp" /\ kind = "day" THEN {b.time : b \in {b \in bins : b.kind = "hour" /\ b.src = s}}
  ELSE IF table \in {"pow", "vsp"} THEN Dates
  ELSE {t \in ticks[s] : <<kind, s, t>> \notin late}

Excused(kind, s, period) ==
  \/ kind \in backlog
  \/ <<kind, s, period>> \in overtaken
  \/ table = "pow"  /\ period = Stamp(Min(Dates), Width(kind))
  \/ table = "vote" /\ period = Stamp(FirstBlock, Width(kind))

\* A transaction leaves a bin for each such period of the sources it updates.
UpdateCatchesUp ==
  \A kind \in {"hour", "day"} :
    (jobs # <<>> /\ jobs[1].kind = kind /\ errors' = errors /\ ~conflict') =>
      \A s \in jobs[1].srcs :
        LET periods == {Stamp(t, Width(kind)) : t \in Basis(kind, s)'}
        IN \A p \in periods :
             Cardinality({q \in periods : q > p}) >= 2 =>
               \/ Excused(kind, s, p)'
               \/ \E b \in bins' : Key(b) = <<kind, s, p>>

\* Every transaction leaves a bin for each period with records that two later
\* periods with records follow.  The periods without are the first one of tables
\* that start in the middle of it, those at the edge of a page, and those of a
\* user agent or country that another one's bin overtook.
CaughtUp == [][UpdateCatchesUp]_binsVars
=============================================================================
