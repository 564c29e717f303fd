----------------------------- MODULE Calculators -----------------------------
(***************************************************************************)
(* The parts that keep a few numbers about the chain for a page: the       *)
(* staking reward calculator, the attack cost, the charts of dcrdata and   *)
(* the page of the proposals.  New computes the numbers at once and        *)
(* registers a handler that computes them again for every block.           *)
(*                                                                         *)
(* Under its lock the handler writes the fields one after the other, each  *)
(* from an answer of the node, which speaks of its chain of that moment;   *)
(* an error ends the run half-way.  A run the notifier has given up is     *)
(* still at work when the next block is handed over.  The page reads its   *)
(* fields under the lock.  A behaviour follows one part; of a number it    *)
(* keeps which run wrote it and how long the node's chain was.             *)
(***************************************************************************)
EXTENDS Integers, Sequences, Functions

CONSTANTS
  Calcs,         \* the parts to look at
  MaxTip,        \* bound: length of the node's chain
  MaxLate,       \* bound: blocks handed over while an earlier run is at work
  MaxRpcErrors   \* bound: calls of the node that fail

\* The fields in the order in which ConnectBlock writes them.
StakingFields == <<"Height", "TicketPrice", "TicketReward", "coinSupply", "stakePerc">>

AttackcostFields ==
  <<"height", "hashrate", "coinSupply", "ticketPrice", "ticketPoolValue", "ticketPoolSize">>

ChartsFields == <<"targetPoolSize">>

ProposalsFields == <<"height">>

CalcFields ==
  [ staking |-> StakingFields, attackcost |-> AttackcostFields, charts |-> ChartsFields,
    proposals |-> ProposalsFields ]

\* What their pages show.  The height and the coins of the staking calculator are for the
\* simulation, which reads them without the lock.
stakingReward == {"TicketPrice", "TicketReward"}

attackCost == Range(AttackcostFields)

ChartsPage == Range(ChartsFields)

CalcPages ==
  [ staking |-> stakingReward, attackcost |-> attackCost, charts |-> ChartsPage,
    proposals |-> Range(ProposalsFields) ]

ASSUME CalculatorsAssumption ==
  /\ Calcs \subseteq DOMAIN CalcFields /\ Calcs # {}
  /\ MaxTip \in Nat \ {0} /\ {MaxLate, MaxRpcErrors} \subseteq Nat

VARIABLES
  calc,     \* the part
  chain,    \* the node: length of its best chain
  life,     \* "off", "new": New is at work, "up": New has returned
  given,    \* the last block handed to the handler
  calls,    \* runs of ConnectBlock that have not returned: [block, at, turn]
  fields,   \* what the part keeps: [turn, tip] for each field
  ended,    \* ended[t]: how many fields the run that got the lock as t-th wrote
  late, rpcErrors

calcVars == <<calc, chain, life, given, calls, fields, ended, late, rpcErrors>>

Wanted == CalcFields[calc]
Zero == [k \in DOMAIN Wanted |-> [turn |-> 0, tip |-> 0]]

\* Fields written from the header the handler is given, and those about that very block.
OfHeader(k) == Wanted[k] \in {"Height", "height"}
OfBlock(k) == OfHeader(k) \/ Wanted[k] = "hashrate"

CalcInit ==
  /\ calc \in Calcs /\ chain = 1 /\ life = "off" /\ given = 0
  /\ calls = {} /\ fields = Zero /\ ended = <<>>
  /\ late = 0 /\ rpcErrors = 0

-----------------------------------------------------------------------------

ChainGrows ==
  /\ chain < MaxTip /\ chain' = chain + 1
  /\ UNCHANGED <<calc, life, given, calls, fields, ended, late, rpcErrors>>

\* New: the best block's header, and a run of ConnectBlock for it.
NewCalculator ==
  /\ life = "off" /\ life' = "new"
  /\ given' = chain /\ calls' = {[block |-> chain, at |-> 0, turn |-> 0]}
  /\ UNCHANGED <<calc, chain, fields, ended, late, rpcErrors>>

\* The notifier hands over a block; it may have left some out.
BlockGiven ==
  /\ life = "up"
  /\ late' = IF calls = {} THEN late ELSE late + 1
  /\ late' <= MaxLate
  /\ \E b \in (given + 1)..chain :
       /\ given' = b
       /\ calls' = calls \cup {[block |-> b, at |-> 0, turn |-> 0]}
  /\ UNCHANGED <<calc, chain, life, fields, ended, rpcErrors>>

\* Mutant: no lock.
Mutant_NoReorgLock == TRUE

\* reorgLock is free.
LockFree == \A c \in calls : c.at = 0

\* The process is gone, and all the part kept.
CalcEnds ==
  /\ life' = "off" /\ calls' = {} /\ fields' = Zero /\ ended' = <<>>

\* Run c is at field k from now on; after the last one it returns, and New with it.
Reaches(c, k) ==
  /\ calls' = (calls \ {c}) \cup (IF k > Len(Wanted) THEN {} ELSE {[c EXCEPT !.at = k]})
  /\ ended' = IF k > Len(Wanted) THEN [ended EXCEPT ![c.turn] = Len(Wanted)] ELSE ended
  /\ life' = IF k > Len(Wanted) THEN "up" ELSE life

\* A waiting run gets the lock.
LockTaken(c) ==
  /\ c.at = 0 /\ LockFree
  /\ ended' = Append(ended, 0)
  /\ calls' = (calls \ {c}) \cup {[block |-> c.block, at |-> 1, turn |-> Len(ended) + 1]}
  /\ UNCHANGED <<calc, chain, life, given, fields, late, rpcErrors>>

\* The next field: from the header, or from an answer of the node.
FieldWritten(c) ==
  /\ c.at > 0
  /\ fields' = [fields EXCEPT ![c.at] =
       [turn |-> c.turn, tip |-> IF OfBlock(c.at) THEN c.block ELSE chain]]
  /\ Reaches(c, c.at + 1)
  /\ UNCHANGED <<calc, chain, given, late, rpcErrors>>

\* The call of the node fails and the run returns the error; it ends New, and the process
\* with it.  Without the subsidy the calculator goes on to use it: a nil pointer.
RpcFails(c) ==
  /\ c.at > 0 /\ ~OfHeader(c.at) /\ rpcErrors < MaxRpcErrors
  /\ rpcErrors' = rpcErrors + 1
  /\ IF life = "new" \/ Wanted[c.at] = "TicketReward"
     THEN CalcEnds
     ELSE /\ calls' = calls \ {c}
          /\ ended' = [ended EXCEPT ![c.turn] = c.at - 1]
          /\ UNCHANGED <<life, fields>>
  /\ UNCHANGED <<calc, chain, given, late>>

\* Once New has returned, a page is rendered under the lock; that of the proposals takes none.
PageShown == life = "up" /\ (calc = "proposals" \/ LockFree)

CalcNext ==
  \/ ChainGrows \/ NewCalculator \/ BlockGiven
  \/ \E c \in calls : LockTaken(c) \/ FieldWritten(c) \/ RpcFails(c)

CalcSpec == CalcInit /\ [][CalcNext]_calcVars

-----------------------------------------------------------------------------
(* Properties *)

\* The type invariant.
CalcTypeOK ==
  /\ calc \in Calcs /\ chain \in 1..MaxTip /\ given \in 0..MaxTip
  /\ life \in {"off", "new", "up"}
  /\ \A c \in calls : c.block \in 1..MaxTip /\ c.at \in 0..Len(Wanted) /\ c.turn \in 0..Len(ended)
  /\ DOMAIN fields = DOMAIN Wanted

\* A page shows every number from the newest run that got as far as that number, however
\* runs for several blocks overlap and wherever they fail; so the numbers a run has not
\* failed before are all of that run, none is shown before it has been computed, and
\* those beside the height of their run are of a chain at least that high.
PagesOfOneRun ==
  LET onPage == {k \in DOMAIN Wanted : Wanted[k] \in CalcPages[calc]}
      reached(k) == {t \in DOMAIN ended : ended[t] >= k}
  IN PageShown => \A k \in onPage :
       /\ fields[k].turn \in reached(k) /\ \A t \in reached(k) : t <= fields[k].turn
       /\ \A j \in onPage : OfHeader(j) /\ fields[k].turn = fields[j].turn =>
            fields[k].tip >= fields[j].tip
=============================================================================
