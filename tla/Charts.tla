-------------------------------- MODULE Charts --------------------------------
(***************************************************************************)
(* The charts: what the fetch functions make of the rows of each source,   *)
(* and what Trim and Encode of src/chart send to the browser, while the    *)
(* collectors go on storing between the queries of one chart.              *)
(*                                                                         *)
(* A chart is an axis of dates and one series for each source asked for;   *)
(* the browser draws the n-th point of every series at the n-th date.      *)
(* Numbers are kept as far as Trim looks at them: zero or not.             *)
(***************************************************************************)
EXTENDS Sorted, Sequences, SequencesExt, FiniteSetsExt

CONSTANTS
  ChartKinds,  \* the charts to follow
  Asked,       \* the sources asked for, in the order of the request
  LastDate     \* bound: dates

VARIABLES
  kind,     \* the chart followed
  stored,   \* its table: source -> date -> the number, 1 or 0 for one that is not zero or is
  axis,     \* the dates, as far as the fetch function has them
  fetched,  \* the series it has
  left,     \* the sources whose query is left
  response  \* what is encoded: the axis and the series

chartsVars == <<kind, stored, axis, fetched, left, response>>

SourceSet == Range(Asked)

Nothing == <<>>

\* A point of a source; a date without one is filled with a null value.
Point(s, d) == [src |-> s, at |-> d, n |-> stored[s][d]]
Gap == [src |-> "", at |-> 0, n |-> 0]

DatesOf(s) == DOMAIN stored[s]

\* The dates of a series.
DatesIn(series) == [i \in DOMAIN series |-> series[i].at]

\* The query of one source, ordered by time.
Rows(s) == LET D == Ascending(DatesOf(s)) IN [i \in DOMAIN D |-> Point(s, D[i])]

-----------------------------------------------------------------------------
(* The chart functions: where the axis comes from, which sources have a      *)
(* series, whether the chart is trimmed, and whether the series are sent in  *)
(* the order asked for.                                                      *)

\* Dates and numbers come from the rows of one query.
OneQuery == [axis |-> "every row", series |-> "first", trim |-> FALSE, inOrder |-> TRUE]

fetchEncodeMempoolSize       == OneQuery
fetchEncodeMempoolFee        == OneQuery
fetchEncodeMempoolTxCount    == OneQuery
FetchEncodeExchangeChart     == OneQuery
CommunityChart               == OneQuery
blockTimestampChart           == OneQuery
fetchEncodeSnapshotNodesChart == OneQuery

\* The dates are read first, and the rows of each source laid along them.
DatesFirst == [axis |-> "all dates", series |-> "all", trim |-> TRUE, inOrder |-> TRUE]

FetchPowChart == DatesFirst
fetchVspChart == DatesFirst

\* The blocks first, here the first source, and the votes along them.
votesReceiveTimeChart ==
  [DatesFirst EXCEPT !.axis = "first source", !.series = "rest", !.trim = FALSE]

\* Each source brings its dates: every row's, or those that are not there yet.
OwnDates == [axis |-> "every row", series |-> "all", trim |-> FALSE, inOrder |-> TRUE]

fetchEncodeSnapshotNodeVersionsChart == OwnDates
fetchEncodeSnapshotLocationsChart    == OwnDates

\* Of bins.
FetchEncodePowChart    == [OwnDates EXCEPT !.trim = TRUE]
FetchEncodeBinVspChart == [OwnDates EXCEPT !.axis = "new dates", !.trim = TRUE]

\* The series of the peers are kept in a map.
blockPropagationChart == [OwnDates EXCEPT !.axis = "new dates", !.inOrder = FALSE]

\* Dates and numbers of all sources come from the rows of one query, which become
\* the cells of a table: a column for each source, zero where it has no row.
CellTable == [axis |-> "table", series |-> "all", trim |-> FALSE, inOrder |-> TRUE]

nodesCountUserAgentsChart  == CellTable
nodesCountByCountriesChart == CellTable

AllCharts ==
  [mempool |-> fetchEncodeMempoolSize, fees |-> fetchEncodeMempoolFee,
   transactions |-> fetchEncodeMempoolTxCount, exchange |-> FetchEncodeExchangeChart,
   community |-> CommunityChart, timestamps |-> blockTimestampChart,
   nodes |-> fetchEncodeSnapshotNodesChart, pow |-> FetchPowChart, vsp |-> fetchVspChart,
   votes |-> votesReceiveTimeChart, versions |-> fetchEncodeSnapshotNodeVersionsChart,
   locations |-> fetchEncodeSnapshotLocationsChart, pow_bin |-> FetchEncodePowChart,
   vsp_bin |-> FetchEncodeBinVspChart, propagation |-> blockPropagationChart,
   useragents |-> nodesCountUserAgentsChart, countries |-> nodesCountByCountriesChart]

ASSUME ChartsAssumption ==
  ChartKinds \subseteq DOMAIN AllCharts /\ Asked \in Seq(SourceSet) \ {<<>>} /\ LastDate \in Nat

ChartsInit ==
  /\ kind \in ChartKinds
  /\ stored = [s \in SourceSet |-> [d \in {} |-> 0]]
  /\ axis = Nothing /\ fetched = Nothing /\ left = Nothing /\ response = Nothing

Chart == AllCharts[kind]

\* The sources that have a series.
Series ==
  CASE Chart.series = "first" -> <<Head(Asked)>>
    [] Chart.series = "rest"  -> Tail(Asked)
    [] Chart.series = "all"   -> Asked

\* The dates that are read before the series.
AxisFirst ==
  CASE Chart.axis = "all dates"    -> Ascending(UNION {DatesOf(s) : s \in SourceSet})
    [] Chart.axis = "first source" -> Ascending(DatesOf(Head(Asked)))
    [] OTHER                       -> Nothing

\* The points of a source at the dates of the axis: those stored since the axis
\* was read are left out.
AtAxis(s) == [i \in DOMAIN axis |-> IF axis[i] \in DatesOf(s) THEN Point(s, axis[i]) ELSE Gap]

\* The numbers of nodes with one of the user agents (countries) asked for, at every
\* snapshot.
PeerCountByUserAgents == UNION {Range(Rows(s)) : s \in SourceSet}
PeerCountByCountries  == UNION {Range(Rows(s)) : s \in SourceSet}

Cells == IF kind = "useragents" THEN PeerCountByUserAgents ELSE PeerCountByCountries

\* The column of a source over the dates of the rows.
Column(s, cells, dates) ==
  [i \in DOMAIN dates |->
     IF \E p \in cells : p.src = s /\ p.at = dates[i]
     THEN CHOOSE p \in cells : p.src = s /\ p.at = dates[i] ELSE Gap]

\* Dates that are not there yet are put at the end.
WithNew(dates) ==
  LET I == Ascending({i \in DOMAIN dates : dates[i] \notin Range(axis)})
  IN axis \o [k \in DOMAIN I |-> dates[I[k]]]

-----------------------------------------------------------------------------
(* Trim and Encode *)

\* communityChat leaves out zeros on its own.
communityChat(sets) ==
  [j \in DOMAIN sets |->
     LET I == Ascending({i \in DOMAIN sets[j] : sets[2][i].n # 0}) IN [k \in DOMAIN I |-> sets[j][I[k]]]]

\* Mutant: the series keep the points that go from the axis.
Mutant_Trim(sets) ==
  LET Zero(i) == \A j \in 2..Len(sets) : i > Len(sets[j]) \/ sets[j][i].n = 0
      Kept(set) == LET I == Ascending({i \in DOMAIN set : ~Zero(i)}) IN [k \in DOMAIN I |-> set[I[k]]]
  IN IF \A i \in DOMAIN sets[1] : Zero(i) THEN sets ELSE [sets EXCEPT ![1] = Kept(@)]

\* Points where all series are zero go, unless nothing would be left.
Trim(sets) ==
  LET Zero(i) == \A j \in 2..Len(sets) : i > Len(sets[j]) \/ sets[j][i].n = 0
      Kept(set) == LET I == Ascending({i \in DOMAIN set : i > Len(sets[1]) \/ ~Zero(i)})
                   IN [k \in DOMAIN I |-> set[I[k]]]
  IN IF \A i \in DOMAIN sets[1] : Zero(i) THEN sets ELSE [j \in DOMAIN sets |-> Kept(sets[j])]

\* All sets are cut to the shortest.
Encode(sets) ==
  LET smaller == Min({Len(sets[j]) : j \in DOMAIN sets})
  IN [j \in DOMAIN sets |-> SubSeq(sets[j], 1, smaller)]

\* The orders in which a map may give the series; a source without a row is not in it.
Orders ==
  IF Chart.inOrder THEN {fetched} ELSE SetToSeqs({f \in Range(fetched) : f # Nothing})

-----------------------------------------------------------------------------
(* Actions *)

\* A collector stores the next row of a source.
StoreRow(s, d, n) ==
  /\ response = Nothing
  /\ \A e \in DatesOf(s) : e < d
  /\ stored' = [stored EXCEPT ![s] = [e \in DatesOf(s) \cup {d} |-> IF e = d THEN n ELSE @[e]]]
  /\ UNCHANGED <<kind, axis, fetched, left, response>>

\* The request, and the query for the dates where there is one.
FetchChart ==
  /\ Chart.axis # "table"
  /\ left = Nothing /\ fetched = Nothing /\ response = Nothing
  /\ left' = Series /\ axis' = AxisFirst
  /\ UNCHANGED <<kind, stored, fetched, response>>

\* The query of one source.  FetchPowChart knows the pools with a row only: another
\* one has no series.
FetchSeries ==
  /\ left # Nothing /\ left' = Tail(left)
  /\ LET s == Head(left)
     IN CASE Chart.axis \in {"all dates", "first source"} ->
               /\ fetched' = Append(fetched, IF kind = "pow" /\ DatesOf(s) = {} THEN Nothing
                                             ELSE AtAxis(s))
               /\ UNCHANGED axis
          [] Chart.axis = "new dates" ->
               fetched' = Append(fetched, Rows(s)) /\ axis' = WithNew(DatesIn(Rows(s)))
          [] Chart.axis = "every row" ->
               fetched' = Append(fetched, Rows(s)) /\ axis' = axis \o DatesIn(Rows(s))
  /\ UNCHANGED <<kind, stored, response>>

\* The one query of a table.
FetchTable ==
  /\ Chart.axis = "table" /\ fetched = Nothing /\ response = Nothing
  /\ LET dates == Ascending({p.at : p \in Cells})
     IN axis' = dates /\ fetched' = [i \in DOMAIN Asked |-> Column(Asked[i], Cells, dates)]
  /\ UNCHANGED <<kind, stored, left, response>>

EncodeChart ==
  /\ fetched # Nothing /\ left = Nothing /\ response = Nothing
  /\ \E series \in Orders :
       LET sets == <<axis>> \o series
       IN response' = IF kind = "community" THEN communityChat(sets)
                      ELSE Encode(IF Chart.trim THEN Trim(sets) ELSE sets)
  /\ UNCHANGED <<kind, stored, axis, fetched, left>>

ChartsNext ==
  \/ FetchChart \/ FetchSeries \/ FetchTable \/ EncodeChart
  \/ \E s \in SourceSet, d \in 1..LastDate, n \in {0, 1} : StoreRow(s, d, n)

ChartsSpec == ChartsInit /\ [][ChartsNext]_chartsVars

-----------------------------------------------------------------------------
(* Properties *)

\* The type invariant.
ChartsTypeOK ==
  /\ kind \in ChartKinds
  /\ \A s \in SourceSet : DatesOf(s) \subseteq 1..LastDate /\ Range(stored[s]) \subseteq {0, 1}
  /\ Range(axis) \subseteq 1..LastDate
  /\ Len(fetched) + Len(left) <= Len(Asked) /\ Range(left) \subseteq SourceSet
  /\ response # Nothing => \A j \in DOMAIN response : Len(response[j]) = Len(response[1])

\* Every series was fetched, and all have the same dates.
SameDates == Cardinality({DatesIn(series) : series \in Range(fetched)}) <= 1

\* The series are laid along the axis, or there is one only.
Aligned == Chart.series = "first" \/ Chart.axis \in {"all dates", "first source", "table"}

(***************************************************************************)
(* A chart shows every point at its own date and under its own source,     *)
(* also when rows are stored between its queries, and leaves out none but  *)
(* zeros.  The charts of bins, of peers and of snapshot versions and       *)
(* locations only do so when all their sources have rows for the same      *)
(* dates, that of peers under any source, and one pool without a row       *)
(* empties that of the pools.                                              *)
(***************************************************************************)
ChartShowsRows ==
  (response # Nothing /\ (Aligned \/ SameDates) /\ Nothing \notin Range(fetched)) =>
    /\ \A j \in 2..Len(response), i \in DOMAIN response[1] :
         LET p == response[j][i]
         IN p # Gap => p.at = response[1][i] /\ (p.src = Series[j - 1] \/ ~Chart.inOrder)
    /\ \A series \in Range(fetched) : \A p \in Range(series) :
         p.n = 0 \/ \E j \in 2..Len(response) : p \in Range(response[j])
=============================================================================
