------------------------------ MODULE Simulation ------------------------------
(***************************************************************************)
(* The simulation of the staking reward calculator: a balance is put into  *)
(* tickets, comes back with their rewards when they have voted, and is put *)
(* into tickets again, until the days asked for are over.  The last round  *)
(* goes beyond them, so the result is scaled down, and what that takes     *)
(* from the last rewards is carried to the rows before.                    *)
(*                                                                         *)
(* Amounts are atoms and fractions are cut off; the price of a ticket and  *)
(* the subsidy of a vote are functions of the block, whatever computes     *)
(* them.                                                                   *)
(***************************************************************************)
EXTENDS Integers, SequencesExt

CONSTANTS
  BlocksPerDay,
  VoteWait,            \* blocks from the purchase of a ticket to its vote
  CoinbaseMaturity,    \* blocks from the vote until its reward can be spent
  HeightSpace,         \* heights are counted modulo this: 2^32
  SimDays, SimBalances, SimPrices, SimRewards   \* bounds of the inputs that are checked

-----------------------------------------------------------------------------

\* The block of a date some days from now, if the chain is at height; a date before the
\* genesis block wraps around.
targetTicketReward(height, days) == (height + days * BlocksPerDay) % HeightSpace

\* The funds of a round can be used in the block after the rewards' maturity.
Round == VoteWait + CoinbaseMaturity + 1

\* One purchase at the row's block, with whole tickets: the row of their votes.
Purchase(row, first, price, subsidy) ==
  LET at == row.block + (IF first THEN 0 ELSE CoinbaseMaturity + 1)
      vote == at + VoteWait
      tickets == row.balance \div price[at]
      reward == subsidy[vote] * tickets
  IN [ block   |-> vote,
       day     |-> row.day + ((vote - row.block) \div BlocksPerDay),
       balance |-> row.balance + reward,
       reward  |-> reward,
       fund    |-> price[at] * tickets ]

\* The rows after each round that begins before the last day is over.
SimulationRows(start, days, balance, price, subsidy) ==
  LET rounds == (days * BlocksPerDay + Round - 1) \div Round
      row[n \in 0..rounds] ==
        IF n = 0
        THEN [block |-> start, day |-> 0, balance |-> balance, reward |-> 0, fund |-> 0]
        ELSE Purchase(row[n - 1], n = 1, price, subsidy)
  IN [n \in 1..(rounds + 1) |-> row[n - 1]]

\* Rewards below zero are taken from the row before, from the last row on until one has
\* something left.
CarryBack(rows) ==
  LET owed[k \in 2..(Len(rows) + 1)] ==   \* what row k and those behind it leave to row k - 1
        IF k > Len(rows) THEN 0 ELSE Min({rows[k].reward + owed[k + 1], 0})
      left(k) == rows[k].reward + owed[k + 1]
  IN [k \in DOMAIN rows |->
        [rows[k] EXCEPT !.reward = IF k = 1 THEN left(k) ELSE Max({left(k), 0})]]

\* The simulation: what is gained beyond the days asked for is taken off in proportion.
simulateStakingReward(start, days, balance, price, subsidy) ==
  LET rows == SimulationRows(start, days, balance, price, subsidy)
      last == Last(rows)
      excess == (Len(rows) - 1) * Round
      overflow == ((last.balance - balance) * (excess - days * BlocksPerDay)) \div excess
  IN CarryBack([rows EXCEPT ![Len(rows)] =
       [last EXCEPT !.balance = @ - overflow, !.reward = @ - overflow,
                    !.day = @ - (excess \div BlocksPerDay)]])

-----------------------------------------------------------------------------

\* The rows of a simulation add up: no reward is negative, together they are what the
\* last row's balance has gained, and before the last row every balance is the one before
\* it and a reward that the scaling has at most lowered.
RewardsAddUp(start, days, balance, price, subsidy) ==
  LET rows == simulateStakingReward(start, days, balance, price, subsidy)
      sum[k \in 0..Len(rows)] == IF k = 0 THEN 0 ELSE sum[k - 1] + rows[k].reward
  IN /\ \A k \in DOMAIN rows : rows[k].reward >= 0
     /\ sum[Len(rows)] = Last(rows).balance - balance
     /\ \A k \in 2..(Len(rows) - 1) : rows[k].reward <= rows[k].balance - rows[k - 1].balance

\* A simulation from block 0, for every price that may change once and every subsidy.
ASSUME SimulationAddsUp ==
  /\ {BlocksPerDay, VoteWait, CoinbaseMaturity, HeightSpace} \subseteq Nat \ {0}
  /\ \A days \in SimDays, balance \in SimBalances, p, q \in SimPrices, s \in SimRewards :
       LET blocks == 0..(days * BlocksPerDay + 2 * Round)
           price == [b \in blocks |-> IF 2 * b < days * BlocksPerDay THEN p ELSE q]
           subsidy == [b \in blocks |-> s]
       IN RewardsAddUp(0, days, balance, price, subsidy)

\* A date the chain has already passed is one of its blocks.
ASSUME PastDatesOnChain ==
  \A height \in 0..(HeightSpace - 1), days \in SimDays :
    days * BlocksPerDay <= height => targetTicketReward(height, -days) \in 0..height
=============================================================================
