-------------------------------- MODULE Tables --------------------------------
(***************************************************************************)
(* The tables of the database, twice: as the scripts of src/postgres create *)
(* them and as the generated models of src/postgres/models know them.  Of  *)
(* a table both say which columns are the primary key, which ones the      *)
(* database fills in when they are left out, and which tables it refers    *)
(* to; the scripts add the unique indexes.  Both have to say the same      *)
(* (ModelsMatchTables), and the order in which CreateTables works through  *)
(* the scripts has to bring every table before those that refer to it.     *)
(* Inserted is the one statement whose outcome depends on all this.        *)
(***************************************************************************)
EXTENDS Integers, FiniteSets, Sequences

Table(key, defaults, refs) == [key |-> key, defaults |-> defaults, refs |-> refs]

-----------------------------------------------------------------------------
(* The scripts. *)

createMempoolTable == Table({"time"}, {}, {})
createMempoolDayBinTable == Table({"time", "bin"}, {}, {})
createNetworkSnapshotTable == Table({"timestamp"}, {"oldest_node", "oldest_node_timestamp",
  "latency"}, {})
createNetworkSnapshotBinTable == Table({"timestamp", "bin"}, {"bin"}, {})
createNodeVersionTable == Table({"timestamp", "bin", "user_agent"}, {"bin"}, {})
createNodeLocationTable == Table({"timestamp", "bin", "country"}, {"bin"}, {})
createNodeTable == Table({"address"}, {"failure_count"}, {})
createHeartbeatTable == Table({"timestamp", "node_id"}, {}, {"node"})
createPropagationTableScript == Table({"height", "source", "bin"}, {}, {})
createBlockTableScript == Table({"height"}, {}, {})
createBlockBinTableScript == Table({"height", "bin"}, {}, {})
createVoteTableScript == Table({"hash"}, {}, {})
createVoteReceiveTimeDeviationTableScript == Table({"block_time", "bin"}, {}, {})
createExchangeTable == Table({"id"}, {"id"}, {})
createExchangeTickTable == Table({"id"}, {"id"}, {"exchange"})
createRedditTable == Table({"date"}, {}, {})
createTwitterTable == Table({"date"}, {}, {})
createGithubTable == Table({"date"}, {}, {})
createYoutubeTable == Table({"date"}, {}, {})
createPowDataTable == Table({"time", "source"}, {}, {})
createPowBInTable == Table({"time", "source", "bin"}, {}, {})
createVSPInfoTable == Table({"id"}, {"id"}, {})
createVSPTickTable == Table({"id"}, {"id"}, {"vsp"})
createVSPTickBinTable == Table({"vsp_id", "time", "bin"}, {}, {"vsp"})

createExchangeTickIndex == {"exchange_id", "interval", "currency_pair", "time"}
createVSPTickIndex == {"vsp_id", "immature", "live", "voted", "missed", "pool_fees",
  "proportion_live", "proportion_missed", "user_count", "users_active", "time"}

createTableScripts ==
  [ mempool |-> createMempoolTable, mempool_bin |-> createMempoolDayBinTable,
    network_snapshot |-> createNetworkSnapshotTable,
    network_snapshot_bin |-> createNetworkSnapshotBinTable,
    node_version |-> createNodeVersionTable, node_location |-> createNodeLocationTable,
    node |-> createNodeTable, heartbeat |-> createHeartbeatTable,
    propagation |-> createPropagationTableScript, block |-> createBlockTableScript,
    block_bin |-> createBlockBinTableScript, vote |-> createVoteTableScript,
    vote_receive_time_deviation |-> createVoteReceiveTimeDeviationTableScript,
    exchange |-> createExchangeTable, exchange_tick |-> createExchangeTickTable,
    reddit |-> createRedditTable, twitter |-> createTwitterTable, github |-> createGithubTable,
    youtube |-> createYoutubeTable, pow_data |-> createPowDataTable,
    pow_bin |-> createPowBInTable, vsp |-> createVSPInfoTable, vsp_tick |-> createVSPTickTable,
    vsp_tick_bin |-> createVSPTickBinTable ]

createIndexScripts ==
  [ t \in DOMAIN createTableScripts |->
      CASE t = "exchange_tick" -> {createExchangeTickIndex}
        [] t = "vsp_tick"      -> {createVSPTickIndex}
        [] OTHER               -> {} ]

tableOrder == << "mempool", "mempool_bin", "network_snapshot", "network_snapshot_bin",
  "node_version", "node_location", "node", "heartbeat", "propagation", "block", "block_bin",
  "vote", "vote_receive_time_deviation", "proposals", "proposal_votes", "exchange",
  "exchange_tick", "reddit", "twitter", "github", "youtube", "pow_data", "pow_bin", "vsp",
  "vsp_tick", "vsp_tick_bin" >>

-----------------------------------------------------------------------------
(* The models. *)

MempoolModel == Table({"time"}, {}, {})
MempoolBinModel == Table({"time", "bin"}, {}, {})
NetworkSnapshotModel == Table({"timestamp"}, {"oldest_node", "oldest_node_timestamp", "latency"},
  {})
NetworkSnapshotBinModel == Table({"timestamp", "bin"}, {"bin"}, {})
NodeVersionModel == Table({"timestamp", "bin", "user_agent"}, {"bin"}, {})
NodeLocationModel == Table({"timestamp", "bin", "country"}, {"bin"}, {})
NodeModel == Table({"address"}, {"failure_count"}, {})
HeartbeatModel == Table({"timestamp", "node_id"}, {}, {"node"})
PropagationModel == Table({"height", "source", "bin"}, {}, {})
BlockModel == Table({"height"}, {}, {})
BlockBinModel == Table({"height", "bin"}, {}, {})
VoteModel == Table({"hash"}, {}, {})
VoteReceiveTimeDeviationModel == Table({"block_time", "bin"}, {}, {})
ExchangeModel == Table({"id"}, {"id"}, {})
ExchangeTickModel == Table({"id"}, {"id"}, {"exchange"})
RedditModel == Table({"date"}, {}, {})
TwitterModel == Table({"date"}, {}, {})
GithubModel == Table({"date"}, {}, {})
YoutubeModel == Table({"date"}, {}, {})
PowDatumModel == Table({"time", "source"}, {}, {})
PowBinModel == Table({"time", "source", "bin"}, {}, {})
VSPModel == Table({"id"}, {"id"}, {})
VSPTickModel == Table({"id"}, {"id"}, {"vsp"})
VSPTickBinModel == Table({"vsp_id", "time", "bin"}, {}, {"vsp"})

TableNames ==
  [ mempool |-> MempoolModel, mempool_bin |-> MempoolBinModel,
    network_snapshot |-> NetworkSnapshotModel,
    network_snapshot_bin |-> NetworkSnapshotBinModel, node_version |-> NodeVersionModel,
    node_location |-> NodeLocationModel, node |-> NodeModel, heartbeat |-> HeartbeatModel,
    propagation |-> PropagationModel, block |-> BlockModel, block_bin |-> BlockBinModel,
    vote |-> VoteModel, vote_receive_time_deviation |-> VoteReceiveTimeDeviationModel,
    exchange |-> ExchangeModel, exchange_tick |-> ExchangeTickModel, reddit |-> RedditModel,
    twitter |-> TwitterModel, github |-> GithubModel, youtube |-> YoutubeModel,
    pow_data |-> PowDatumModel, pow_bin |-> PowBinModel, vsp |-> VSPModel,
    vsp_tick |-> VSPTickModel, vsp_tick_bin |-> VSPTickBinModel ]

\* A model that has fallen behind its table would address rows by a key that is none.
ASSUME ModelsMatchTables == TableNames = createTableScripts

-----------------------------------------------------------------------------
(* CreateTables: one transaction, over the tables that are not there yet.  Two names of the *)
(* order have no script: the empty statement does nothing.                                  *)

Before(i) == {tableOrder[j] : j \in 1..(i - 1)}

Created(exist) ==
  { i \in DOMAIN tableOrder : tableOrder[i] \in DOMAIN createTableScripts \ exist }

CreateTables(exist) ==
  IF \A i \in Created(exist) : createTableScripts[tableOrder[i]].refs \subseteq exist \cup Before(i)
  THEN exist \cup {tableOrder[i] : i \in Created(exist)}
  ELSE exist

\* Whatever part of the order an earlier version has left, the tables are complete
\* afterwards, and there are no others.
ASSUME TablesComplete ==
  \A n \in 1..(Len(tableOrder) + 1) :
    CreateTables(DOMAIN createTableScripts \cap Before(n)) = DOMAIN createTableScripts

-----------------------------------------------------------------------------
(* A row is a record of the columns that a module cares for.  The database fills in the *)
(* columns that the others leave out, so a serial key never clashes.                    *)

Uniques(t) == {createTableScripts[t].key} \cup createIndexScripts[t]

Clash(t, r, s) ==
  \E k \in Uniques(t) :
    /\ k \cap createTableScripts[t].defaults \subseteq DOMAIN r
    /\ \A c \in k \cap DOMAIN r : r[c] = s[c]

\* The insert is refused: "unique constraint".
Refused(t, rows, r) == \E s \in rows : Clash(t, r, s)

Inserted(t, rows, r) == IF Refused(t, rows, r) THEN rows ELSE rows \cup {r}
=============================================================================
