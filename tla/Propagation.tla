----------------------------- MODULE Propagation -----------------------------
(***************************************************************************)
(* Block and vote propagation: src/propagation/propagation.go and its part *)
(* of src/postgres/propagation.go.  A block notification saves the block,  *)
(* gives its votes the block's receive time, bins the blocks and compares  *)
(* them with each peer instance's; a vote notification looks the voted     *)
(* block up and saves the vote.                                            *)
(*                                                                         *)
(* The notifier (module Notifier) runs one handler after the other, unless *)
(* one misses the deadline: then the next begins beside it.  Hour and day  *)
(* bins of the peer deviations and of the votes are TimeBins'.             *)
(***************************************************************************)
EXTENDS BinGroups, Sequences

CONSTANTS
  Votes,        \* vote transactions, each of its own ticket
  VotingOn,     \* [Votes -> Nat]: height of the block voted on
  Peers,        \* sequence of the external databases (externalDBNames)
  PageSize,     \* blocks per page of the block bins (1000 in the code)
  BlockTimes,   \* times a block header can carry
  Skew,         \* how much earlier than its parent a block can be dated
  VoteWindow,   \* how many blocks after its own a vote still comes in
  MaxHeight,    \* bound: blocks
  MaxDbErrors,  \* bound: database calls that fail
  MaxOverlaps,  \* bound: handlers that begin before the one before has ended
  MaxReboots    \* bound: restarts of the process

ASSUME PropagationAssumption ==
  /\ IsFiniteSet(Votes) /\ VotingOn \in [Votes -> Nat \ {0}] /\ Peers \in Seq(STRING)
  /\ BlockTimes \subseteq Nat /\ PageSize \in Nat \ {0}
  /\ {Skew, VoteWindow, MaxHeight, MaxDbErrors, MaxOverlaps, MaxReboots} \subseteq Nat

VARIABLES
  chain,       \* the node's blocks: time by height
  syncIsDone,
  blocks,      \* table block: heights saved
  votes,       \* table vote: vote -> its row
  ticketInds,  \* tickets seen for each height by this process, in order
  blockBins,   \* table block_bin
  rows,        \* table propagation: peer -> heights compared
  blockCall,   \* the running ConnectBlock: height and what is left to do
  voteCall,    \* the running TxReceived: vote, step and what it has read
  dbErrors, overlaps, reboots,
  disturbed,   \* history: votes whose call or update met an error or a reboot
  raced        \* history: votes that looked for the block before it was inserted and
               \* were not there yet when its votes were updated

propVars == <<chain, syncIsDone, blocks, votes, ticketInds, blockBins, rows, blockCall,
              voteCall, dbErrors, overlaps, reboots, disturbed, raced>>

counters == <<dbErrors, overlaps, reboots>>
tables   == <<blocks, votes, blockBins, rows>>

Idle == <<>>

PropInit ==
  /\ chain = <<>> /\ syncIsDone = FALSE
  /\ blocks = {} /\ votes = [v \in {} |-> 0] /\ ticketInds = [h \in {} |-> 0]
  /\ blockBins = {} /\ rows = [p \in DOMAIN Peers |-> {}]
  /\ blockCall = Idle /\ voteCall = Idle
  /\ dbErrors = 0 /\ overlaps = 0 /\ reboots = 0
  /\ disturbed = {} /\ raced = {}

Height == Len(chain)

\* What ConnectBlock does before it goes through the peers.
Local == <<<<"save">>, <<"votes">>, <<"hour">>, <<"day">>>>

\* Votes with a running call.
InCall == IF voteCall = Idle THEN {} ELSE {voteCall[1].vote}

\* A call may begin when the others have ended, or when they have missed the
\* notifier's deadline.
MayBegin(others) ==
  IF others = Idle THEN UNCHANGED overlaps
  ELSE overlaps < MaxOverlaps /\ overlaps' = overlaps + 1

DbFails == dbErrors < MaxDbErrors /\ dbErrors' = dbErrors + 1

-----------------------------------------------------------------------------
(* Blocks *)

\* The node connects a block and ConnectBlock begins: until the node is in sync
\* the block is dropped, and where that cannot be told the handler fails.
BlockArrives(time, synced) ==
  /\ Height < MaxHeight
  /\ Height > 0 => time >= chain[Height] - Skew
  /\ blockCall = Idle
  /\ chain' = Append(chain, time)
  /\ IF syncIsDone \/ synced
     THEN /\ syncIsDone' = TRUE
          /\ blockCall' = <<[height |-> Height + 1,
                             todo |-> Local \o [p \in DOMAIN Peers |-> <<"peer", p>>]]>>
          /\ MayBegin(voteCall)
     ELSE UNCHANGED <<syncIsDone, blockCall, overlaps>>
  /\ UNCHANGED <<tables, ticketInds, voteCall, dbErrors, reboots, disturbed, raced>>

Todo == Head(blockCall[1].todo)
Peer == Todo[2]
AtStep(steps) == blockCall # Idle /\ Todo[1] \in steps
StepDone == blockCall' = IF Len(blockCall[1].todo) = 1 THEN Idle
                         ELSE <<[blockCall[1] EXCEPT !.todo = Tail(@)]>>

\* SaveBlock, the insert.
InsertBlock ==
  /\ AtStep({"save"})
  /\ blocks' = blocks \cup {blockCall[1].height}
  /\ StepDone
  /\ UNCHANGED <<chain, syncIsDone, votes, ticketInds, blockBins, rows, voteCall, counters,
                 disturbed, raced>>

\* Mutant: the votes on the block's parent.
VotesOfParent(h) == {v \in DOMAIN votes : VotingOn[v] = h - 1}

VotesOf(h) == {v \in DOMAIN votes : VotingOn[v] = h}

\* SaveBlock, the votes already there.  A vote that cannot be read or written is
\* passed over.
UpdateVotes(failed) ==
  /\ AtStep({"votes"})
  /\ failed \subseteq VotesOf(blockCall[1].height)
  /\ IF failed = {} THEN UNCHANGED dbErrors ELSE DbFails
  /\ votes' = [v \in DOMAIN votes |->
                 IF v \in VotesOf(blockCall[1].height) \ failed
                 THEN [votes[v] EXCEPT !.received = TRUE] ELSE votes[v]]
  /\ disturbed' = disturbed \cup failed
  /\ raced' = raced \cup {v \in InCall : voteCall[1].at = "insert" /\ ~voteCall[1].received
                                         /\ VotingOn[v] = blockCall[1].height}
  /\ StepDone
  /\ UNCHANGED <<chain, syncIsDone, blocks, ticketInds, blockBins, rows, voteCall, overlaps,
                 reboots>>

\* The first n of a set of heights.
Page(S, n) == {h \in S : Cardinality({g \in S : g < h}) < n}

\* updateBlockHourlyAvgData and updateBlockDailyAvgData: pages of blocks above
\* the height of the newest bin stored, which is that of the block that closed
\* it, until as many blocks have been read as there were at the start.
NewBlockBins(kind) ==
  LET own   == {b \in blockBins : b.kind = kind}
      last  == IF own = {} THEN 0 ELSE Max({b.height : b \in own})
      next  == IF own = {} THEN 0
               ELSE (CHOOSE b \in own : b.height = last).time + Width(kind)
      total == Cardinality({h \in blocks : h > last})
      Pages[read \in [from : Nat, processed : Nat]] ==
        LET page == Page({h \in blocks : h > read.from}, PageSize)
            new  == {[kind |-> kind, time |-> g.time, height |-> g.next, of |-> g.of] :
                       g \in {g \in GenerateBin(page, chain, Width(kind)) : g.time >= next}}
        IN IF read.processed >= total THEN {}
           ELSE new \cup Pages[[from |-> Max({read.from} \cup {b.height : b \in new}),
                                processed |-> read.processed + Cardinality(page)]]
  IN Pages[[from |-> last, processed |-> 0]]

UpdateBlockBinData ==
  /\ AtStep({"hour", "day"})
  /\ blockBins' = blockBins \cup NewBlockBins(Todo[1])
  /\ StepDone
  /\ UNCHANGED <<chain, syncIsDone, blocks, votes, ticketInds, rows, voteCall, counters,
                 disturbed, raced>>

\* Heights of the rows that can come first in descending order of block time.
Newest(p) == IF rows[p] = {} THEN {0}
             ELSE {h \in rows[p] : \A g \in rows[p] : chain[g] <= chain[h]}

\* Mutant: the block above the newest row is skipped.
NewRowsSkip(from) == {h \in blocks : h > from + 1}

NewRows(from) == {h \in blocks : h > from}

\* UpdatePropagationDataForSource: rows for the blocks above the newest row.  A
\* row that is there already rolls all of them back and ends the handler.
UpdatePeer(last) ==
  /\ AtStep({"peer"}) /\ last \in Newest(Peer)
  /\ IF NewRows(last) \cap rows[Peer] = {}
     THEN /\ rows' = [rows EXCEPT ![Peer] = @ \cup NewRows(last)]
          /\ StepDone
     ELSE /\ blockCall' = Idle /\ UNCHANGED rows
  /\ UNCHANGED <<chain, syncIsDone, blocks, votes, ticketInds, blockBins, voteCall, counters,
                 disturbed, raced>>

\* Any other error of the local or a peer's database ends the handler.
ConnectBlockFails ==
  /\ blockCall # Idle /\ Todo[1] # "votes"
  /\ DbFails
  /\ blockCall' = Idle
  /\ UNCHANGED <<chain, syncIsDone, tables, ticketInds, voteCall, overlaps, reboots,
                 disturbed, raced>>

-----------------------------------------------------------------------------
(* Votes *)

\* SetTicketIndex: the position of the ticket among those seen for the block.
SetTicketIndex(v, h) ==
  LET seen == IF h \in DOMAIN ticketInds THEN ticketInds[h] ELSE <<>>
  IN IF \E i \in DOMAIN seen : seen[i] = v THEN seen ELSE Append(seen, v)

\* TxReceived up to the node's answer about the voted block, whose time is not
\* needed here.
VoteArrives(v) ==
  /\ voteCall = Idle /\ syncIsDone
  /\ VotingOn[v] \in (Height - VoteWindow)..Height
  /\ MayBegin(blockCall)
  /\ LET seen == SetTicketIndex(v, VotingOn[v])
     IN /\ ticketInds' = [h \in DOMAIN ticketInds \cup {VotingOn[v]} |->
                            IF h = VotingOn[v] THEN seen ELSE ticketInds[h]]
        /\ voteCall' = <<[vote |-> v, at |-> "lookup", received |-> FALSE,
                          validator |-> CHOOSE i \in DOMAIN seen : seen[i] = v]>>
  /\ UNCHANGED <<chain, syncIsDone, tables, blockCall, dbErrors, reboots, disturbed, raced>>

\* SaveVote, the lookup of the block; an error counts as no block.
LookUpBlock(ok) ==
  /\ voteCall # Idle /\ voteCall[1].at = "lookup"
  /\ IF ok THEN UNCHANGED dbErrors ELSE DbFails
  /\ voteCall' = <<[voteCall[1] EXCEPT !.at = "insert",
                                       !.received = ok /\ VotingOn[voteCall[1].vote] \in blocks]>>
  /\ disturbed' = IF ok THEN disturbed ELSE disturbed \cup {voteCall[1].vote}
  /\ UNCHANGED <<chain, syncIsDone, tables, ticketInds, blockCall, overlaps, reboots, raced>>

\* SaveVote, the insert: a vote that is there already is kept.
InsertVote(ok) ==
  /\ voteCall # Idle /\ voteCall[1].at = "insert"
  /\ IF ok THEN UNCHANGED dbErrors ELSE DbFails
  /\ LET c == voteCall[1]
         row == [received |-> c.received, validator |-> c.validator, by |-> reboots]
     IN votes' = IF ok /\ c.vote \notin DOMAIN votes
                 THEN [v \in DOMAIN votes \cup {c.vote} |-> IF v = c.vote THEN row ELSE votes[v]]
                 ELSE votes
  /\ voteCall' = Idle
  /\ UNCHANGED <<chain, syncIsDone, blocks, ticketInds, blockBins, rows, blockCall, overlaps,
                 reboots, disturbed, raced>>

\* The process dies and starts again: the tables stay.
Reboot ==
  /\ reboots < MaxReboots /\ reboots' = reboots + 1
  /\ syncIsDone' = FALSE /\ ticketInds' = [h \in {} |-> 0]
  /\ disturbed' = disturbed \cup InCall
       \cup (IF blockCall = Idle THEN {} ELSE VotesOf(blockCall[1].height))
  /\ blockCall' = Idle /\ voteCall' = Idle
  /\ UNCHANGED <<chain, tables, dbErrors, overlaps, raced>>

PropNext ==
  \/ \E time \in BlockTimes, synced \in BOOLEAN : BlockArrives(time, synced)
  \/ InsertBlock \/ UpdateBlockBinData \/ ConnectBlockFails \/ Reboot
  \/ \E failed \in SUBSET Votes : UpdateVotes(failed)
  \/ \E last \in 0..MaxHeight : UpdatePeer(last)
  \/ \E v \in Votes : VoteArrives(v)
  \/ \E ok \in BOOLEAN : LookUpBlock(ok) \/ InsertVote(ok)

PropSpec == PropInit /\ [][PropNext]_propVars

-----------------------------------------------------------------------------
(* Properties *)

\* The type invariant.
PropTypeOK ==
  /\ chain \in Seq(BlockTimes) /\ syncIsDone \in BOOLEAN
  /\ blocks \subseteq 1..MaxHeight
  /\ DOMAIN votes \subseteq Votes
  /\ \A v \in DOMAIN votes : votes[v].validator \in 1..Cardinality(Votes)
  /\ \A b \in blockBins : b.time % Width(b.kind) = 0 /\ b.of \subseteq blocks /\ b.height \in blocks
  /\ rows \in [DOMAIN Peers -> SUBSET blocks]

\* Once no handler runs, a saved vote knows when its saved block was received,
\* whichever of the two came first, also where handlers run side by side.  Only a
\* database error, a reboot, or a block saved between the vote's look at the table
\* and its insert can leave it without, and then it stays so.
VotesKnowTheirBlock ==
  (blockCall = Idle /\ voteCall = Idle) =>
    \A v \in DOMAIN votes : VotingOn[v] \in blocks =>
       votes[v].received \/ v \in disturbed \cup raced

\* No block is left out between two that were compared with a peer, also when
\* updates fail half-way or end at an earlier peer.
RowsHaveNoGap ==
  \A p \in DOMAIN Peers : \A h \in rows[p], g \in blocks : g < h => g \in rows[p]

\* Where the block times grow, a block below a bin's height is averaged in exactly
\* one bin, except that the block that closes one may be in none.
BlocksBinnedOnce ==
  \A kind \in {"hour", "day"} :
    LET own == {b \in blockBins : b.kind = kind}
    IN /\ \A b, c \in own : b # c => b.of \cap c.of = {} /\ b.height # c.height
       /\ (\A g, h \in 1..Height : g < h => chain[g] <= chain[h]) =>
            \A b \in own : \A h \in blocks :
              h < b.height => \E c \in own : h \in c.of \/ h = c.height

\* What the comment on UpdatePropagationDataForSource says: once the update of
\* the last peer has run, each has a row for every block received.
AllBlocksCompared ==
  [][(AtStep({"peer"}) /\ Len(blockCall[1].todo) = 1 /\ blockCall' = Idle
        /\ dbErrors' = dbErrors /\ reboots' = reboots) => rows'[Peer] = blocks]_propVars
=============================================================================
