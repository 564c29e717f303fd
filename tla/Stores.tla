-------------------------------- MODULE Stores --------------------------------
(***************************************************************************)
(* The tables of src/postgres and those who read them, under one           *)
(* specification: the time bins of every table (TimeBins), the block bins, *)
(* votes and peer rows that block and vote notifications keep up           *)
(* (Propagation), the snapshots and their heartbeats (SnapshotTaker), the  *)
(* candlesticks (ExchangeTicks), the paged tables (Pages) and the charts   *)
(* (Charts).  No update of one reads what another writes, so a behaviour   *)
(* follows one of them: "block" stands for the tables of Propagation,      *)
(* "heartbeat" for those of SnapshotTaker; "page" and "chart" bring the    *)
(* table they read with them.                                              *)
(***************************************************************************)
EXTENDS TimeBins, Propagation, SnapshotTaker, ExchangeTicks, Records, Pages, Charts

ASSUME StoresAssumption ==
  Tables \subseteq BinTables \cup {"block", "heartbeat", "exchange_tick", "record", "page", "chart"}

\* What does not belong to the table followed starts in one state.
StoresInit ==
  /\ BinsInit /\ PropInit /\ TakerInit /\ TicksInit /\ RecordsInit /\ PagesInit /\ ChartsInit
  /\ table = "exchange_tick" \/ exchange = CHOOSE e \in Exchanges : TRUE
  /\ table = "record" \/ ( /\ recTable = (CHOOSE t \in RecTables : TRUE)
                         /\ pools = (CHOOSE s \in PoolSets : TRUE) )
  /\ table = "page" \/ (view = (CHOOSE x \in Views : TRUE) /\ size = DefaultPageSize)
  /\ table = "chart" \/ kind = (CHOOSE k \in ChartKinds : TRUE)

StoresNext ==
  \/ /\ BinsNext
     /\ UNCHANGED <<propVars, takerVars, ticksVars, recordsVars, pagesVars, chartsVars>>
  \/ /\ table = "block" /\ PropNext
     /\ UNCHANGED <<binsVars, takerVars, ticksVars, recordsVars, pagesVars, chartsVars>>
  \/ /\ table = "heartbeat" /\ TakerNext
     /\ UNCHANGED <<binsVars, propVars, ticksVars, recordsVars, pagesVars, chartsVars>>
  \/ /\ table = "exchange_tick" /\ TicksNext
     /\ UNCHANGED <<binsVars, propVars, takerVars, recordsVars, pagesVars, chartsVars>>
  \/ /\ table = "record" /\ RecordsNext
     /\ UNCHANGED <<binsVars, propVars, takerVars, ticksVars, pagesVars, chartsVars>>
  \/ /\ table = "page" /\ PagesNext
     /\ UNCHANGED <<binsVars, propVars, takerVars, ticksVars, recordsVars, chartsVars>>
  \/ /\ table = "chart" /\ ChartsNext
     /\ UNCHANGED <<binsVars, propVars, takerVars, ticksVars, recordsVars, pagesVars>>

storesVars == <<binsVars, propVars, takerVars, ticksVars, recordsVars, pagesVars, chartsVars>>

StoresSpec == StoresInit /\ [][StoresNext]_storesVars

\* The type invariant of all of them.
StoresTypeOK ==
  /\ BinsTypeOK /\ PropTypeOK /\ TakerTypeOK /\ TicksTypeOK /\ RecordsTypeOK
  /\ PagesTypeOK /\ ChartsTypeOK
=============================================================================
