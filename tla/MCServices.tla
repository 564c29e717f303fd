------------------------------ MODULE MCServices ------------------------------
(***************************************************************************)
(* A small instance of Services for TLC, with that of Collectors and five  *)
(* settings of the program; and the simulation of the staking reward       *)
(* calculator and the configuration, whose assumptions TLC evaluates for a *)
(* few inputs.                                                             *)
(***************************************************************************)
EXTENDS Services, Simulation, Config

\* Every collector beside another one, with an update that takes no lock; and none.
Pairs ==
  {{}, {"pow", "vsp", "mempool"}, {"exchanges", "vsp", "mempool"}, {"pow", "commstats"},
   {"exchanges", "commstats"}}

Flagged == {"proposals", "netsnapshot", "exchanges", "commstats", "pow", "vsp"}

AllParts == Flagged \cup {"stats", "stakingreward", "parameters", "charts", "attackcost",
                          "mempool", "propagation", "treasury"}

\* All parts in one copy; collectors without pages, and without a bot for the attack cost;
\* pages without collectors; nothing but the chain; and two copies, of which one compares
\* its blocks with those of the other.
Copies ==
  { [full |-> [parts |-> AllParts, data |-> Flagged, http |-> Flagged, peers |-> {},
               bot |-> TRUE, noHttp |-> FALSE]],
    [full |-> [parts |-> Flagged \cup {"attackcost"}, data |-> Flagged, http |-> {}, peers |-> {},
               bot |-> FALSE, noHttp |-> TRUE]],
    [full |-> [parts |-> Flagged, data |-> {}, http |-> Flagged, peers |-> {},
               bot |-> FALSE, noHttp |-> FALSE]],
    [full |-> [parts |-> {"parameters"}, data |-> {}, http |-> {}, peers |-> {},
               bot |-> TRUE, noHttp |-> TRUE]],
    [full |-> [parts |-> {"stats"}, data |-> {}, http |-> {}, peers |-> {},
               bot |-> FALSE, noHttp |-> FALSE],
     small |-> [parts |-> {"propagation"}, data |-> {}, http |-> {}, peers |-> {"full"},
                bot |-> FALSE, noHttp |-> FALSE]] }
=============================================================================
