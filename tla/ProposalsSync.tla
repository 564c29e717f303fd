---------------------------- MODULE ProposalsSync ----------------------------
(***************************************************************************)
(* The synchronisation of the proposals database with politeia             *)
(* (src/gov/politeia/db.go, proposal.go).  Two goroutines call             *)
(* ProposalsSync, one at start-up and one for the five-minute ticker; each *)
(* call saves new proposals, refreshes those still in progress and adds    *)
(* the final vote results to the finished ones, with HTTP requests between *)
(* its database operations while politeia moves on.                        *)
(*                                                                         *)
(* Of a proposal the module keeps what the synchronisation decides on: its *)
(* vote status, the number of votes cast, and the chart built from the     *)
(* votes, which stands for how many of them it contains.  Politeia is      *)
(* external.                                                               *)
(***************************************************************************)
EXTENDS Integers, FiniteSets, FiniteSetsExt

CONSTANTS
  Tokens,      \* proposals
  Reached,     \* bound: the vote statuses proposals take
  MaxVotes,    \* bound: votes cast on a proposal
  MaxFaults    \* bound: requests that fail or return less than was asked for, and kills


InProgress == {"unauthorized", "authorized", "started"}
Complete   == {"finished", "approved", "rejected"}
VoteStatus == InProgress \cup Complete \cup {"ineligible"}

ASSUME ConstantsAssumption ==
  /\ Reached \subseteq VoteStatus
  /\ {MaxVotes, MaxFaults} \subseteq Nat

Syncers == {"startup", "ticker"}

NoChart == -1

VARIABLES
  status,    \* politeia: vote status of each vetted proposal, "none" before
  votes,     \* politeia: votes cast
  store,     \* the storm bucket: records [id, token, status, votes, chart, synced]
  updating,  \* the atomic flag
  pc,        \* where each goroutine is in ProposalsSync
  new,       \* new tokens it has still to save
  ids,       \* ids of the records its loop has still to refresh
  fresh,     \* the data it has fetched: token -> [status, votes]
  proc,      \* "up", or "crashed" by a panic
  faults

politeia == <<status, votes>>
locals == <<new, ids, fresh>>
vars == <<politeia, store, updating, pc, locals, proc, faults>>

NoData == [t \in {} |-> 0]

Init ==
  /\ status = [t \in Tokens |-> "none"] /\ votes = [t \in Tokens |-> 0]
  /\ store = {} /\ updating = FALSE
  /\ pc = [g \in Syncers |-> "idle"]
  /\ new = [g \in Syncers |-> {}] /\ ids = [g \in Syncers |-> {}]
  /\ fresh = [g \in Syncers |-> NoData]
  /\ proc = "up" /\ faults = 0

-----------------------------------------------------------------------------
(* politeia                                                                  *)

Follows(s) ==
  CASE s = "none"         -> {"unauthorized"}
    [] s = "unauthorized" -> {"authorized", "ineligible"}
    [] s = "authorized"   -> {"unauthorized", "started", "ineligible"}
    [] s = "started"      -> Complete
    [] OTHER              -> {}

ServerMoves(t) ==
  /\ \E s \in Follows(status[t]) \cap Reached : status' = [status EXCEPT ![t] = s]
  /\ UNCHANGED <<votes, store, updating, pc, locals, proc, faults>>

ServerVote(t) ==
  /\ status[t] = "started" /\ votes[t] < MaxVotes
  /\ votes' = [votes EXCEPT ![t] = @ + 1]
  /\ UNCHANGED <<status, store, updating, pc, locals, proc, faults>>

\* Mutant: the inventory is asked for without its state.
Mutant_AllRecords == Tokens

\* The vetted inventory.
Vetted == {t \in Tokens : status[t] # "none"}

-----------------------------------------------------------------------------
(* The storm bucket.                                                         *)

Known == {r.token : r \in store}
Record(id) == CHOOSE r \in store : r.id = id

\* Save of a record without an id: the next id, never a clash.
Save(t, data) ==
  store' = store \cup {[id |-> Cardinality(store) + 1, token |-> t, status |-> data.status,
                        votes |-> data.votes, chart |-> NoChart, synced |-> FALSE]}

\* Update ignores zero fields: a nil chart and a FALSE Synced leave the stored
\* ones as they are.
Update(r, data, chart, synced) ==
  store' = (store \ {r}) \cup
             {[r EXCEPT !.status = data.status,
                        !.votes  = IF data.votes = 0 THEN @ ELSE data.votes,
                        !.chart  = IF chart = NoChart THEN @ ELSE chart,
                        !.synced = @ \/ synced]}

-----------------------------------------------------------------------------
(* ProposalsSync, called by goroutine g.                                     *)

Goto(g, to) == pc' = [pc EXCEPT ![g] = to]

\* The deferred store to updating, on every return.
Return(g) ==
  /\ Goto(g, IF g = "startup" THEN "done" ELSE "idle")
  /\ updating' = FALSE
  /\ new' = [new EXCEPT ![g] = {}] /\ ids' = [ids EXCEPT ![g] = {}]
  /\ fresh' = [fresh EXCEPT ![g] = NoData]

\* A request fails: the error is returned and logged.
Fails(g) ==
  /\ proc = "up" /\ faults < MaxFaults
  /\ pc[g] \in {"new", "fetch", "refresh", "results"}
  /\ pc[g] \in {"refresh", "results"} => ids[g] # {}
  /\ faults' = faults + 1
  /\ Return(g)
  /\ UNCHANGED <<politeia, store, proc>>

\* Mutant: no test-and-set of updating.
Mutant_NoFlag(g) ==
  /\ proc = "up" /\ pc[g] = "idle"
  /\ updating' = TRUE /\ Goto(g, "new")
  /\ UNCHANGED <<politeia, store, locals, proc, faults>>

\* The compare-and-swap of updating; without it the call returns at once.
Begin(g) ==
  /\ proc = "up" /\ pc[g] = "idle"
  /\ IF updating
     THEN g = "startup" /\ Goto(g, "done") /\ UNCHANGED updating
     ELSE Goto(g, "new") /\ updating' = TRUE
  /\ UNCHANGED <<politeia, store, locals, proc, faults>>

\* proposalsNewUpdate: All, then the inventory, page by page; a proposal that
\* moves to an earlier page meanwhile is missed.
NewTokens(g) ==
  /\ proc = "up" /\ pc[g] = "new"
  /\ \E missed \in SUBSET Vetted :
       /\ missed # {} => faults < MaxFaults
       /\ faults' = IF missed = {} THEN faults ELSE faults + 1
       /\ LET found == Vetted \ (Known \cup missed) IN
            /\ new' = [new EXCEPT ![g] = found]
            /\ Goto(g, IF found = {} THEN "select" ELSE "fetch")
  /\ UNCHANGED <<politeia, store, updating, ids, fresh, proc>>

Data(S) == [t \in S |-> [status |-> status[t], votes |-> votes[t]]]

\* fetchProposalsData for all of them; one whose comment count or vote summary
\* is not in the reply is left out.
FetchNew(g) ==
  /\ proc = "up" /\ pc[g] = "fetch"
  /\ \E omitted \in SUBSET new[g] :
       /\ omitted # {} => faults < MaxFaults
       /\ faults' = IF omitted = {} THEN faults ELSE faults + 1
       /\ fresh' = [fresh EXCEPT ![g] = Data(new[g] \ omitted)]
       /\ new' = [new EXCEPT ![g] = @ \ omitted]
  /\ Goto(g, "save")
  /\ UNCHANGED <<politeia, store, updating, ids, proc>>

\* proposalsSave, one record at a time, in the order of the map.
SaveNew(g) ==
  /\ proc = "up" /\ pc[g] = "save" /\ new[g] # {}
  /\ \E t \in new[g] :
       /\ Save(t, fresh[g][t])
       /\ new' = [new EXCEPT ![g] = @ \ {t}]
  /\ UNCHANGED <<politeia, updating, pc, ids, fresh, proc, faults>>

\* proposalsInProgressUpdate: the records still in progress.
SelectInProgress(g) ==
  /\ proc = "up" /\ \/ pc[g] = "select"
                    \/ pc[g] = "save" /\ new[g] = {}
  /\ ids' = [ids EXCEPT ![g] = {r.id : r \in {q \in store : q.status \in InProgress}}]
  /\ Goto(g, "refresh")
  /\ UNCHANGED <<politeia, store, updating, new, fresh, proc, faults>>

Next_(g) == Record(Min(ids[g]))

\* fetchProposalsData for the next record.
Refresh(g) ==
  /\ proc = "up" /\ pc[g] = "refresh" /\ ids[g] # {}
  /\ fresh' = [fresh EXCEPT ![g] = Data({Next_(g).token})]
  /\ Goto(g, "compare")
  /\ UNCHANGED <<politeia, store, updating, new, ids, proc, faults>>

\* The reply lacks the comment count or the vote summary, fetchProposalsData
\* skips the record, and proposals[0] panics.
RefreshPanics(g) ==
  /\ proc = "up" /\ pc[g] = "refresh" /\ ids[g] # {} /\ faults < MaxFaults
  /\ faults' = faults + 1
  /\ proc' = "crashed"
  /\ UNCHANGED <<politeia, store, updating, pc, locals>>

\* Whether the vote results are worth the request.
NeedsChart(r, data) ==
  r.status = "started" /\ (r.votes # data.votes \/ r.chart = NoChart)

\* fetchTicketVoteResults and Update.  The chart is compared by address, so a
\* record that has one is never equal to the fresh one.
Compare(g) ==
  /\ proc = "up" /\ pc[g] = "compare"
  /\ LET r == Next_(g)
         data == fresh[g][r.token]
         chart == IF NeedsChart(r, data) THEN votes[r.token] ELSE NoChart
         equal == r.status = data.status /\ r.votes = data.votes
                    /\ r.chart = NoChart /\ chart = NoChart
     IN IF equal THEN UNCHANGED store ELSE Update(r, data, chart, FALSE)
  /\ ids' = [ids EXCEPT ![g] = @ \ {Min(@)}]
  /\ Goto(g, "refresh")
  /\ UNCHANGED <<politeia, updating, new, fresh, proc, faults>>

\* The request for the vote results fails.
CompareFails(g) ==
  /\ proc = "up" /\ pc[g] = "compare" /\ faults < MaxFaults
  /\ NeedsChart(Next_(g), fresh[g][Next_(g).token])
  /\ faults' = faults + 1
  /\ Return(g)
  /\ UNCHANGED <<politeia, store, proc>>

\* Mutant: started proposals get their final results as well.
Mutant_SyncStarted == {r \in store : r.status \in Complete \cup {"started"} /\ ~r.synced}

\* Mutant: finished proposals are not selected.
Mutant_OnlyApproved == {r \in store : r.status = "approved" /\ ~r.synced}

\* The finished proposals without their final results.
Unsynced == {r \in store : r.status \in Complete /\ ~r.synced}

\* proposalsVoteResultsUpdate selects them.
SelectComplete(g) ==
  /\ proc = "up" /\ pc[g] = "refresh" /\ ids[g] = {}
  /\ ids' = [ids EXCEPT ![g] = {r.id : r \in Unsynced}]
  /\ Goto(g, "results")
  /\ UNCHANGED <<politeia, store, updating, new, fresh, proc, faults>>

\* Its loop: the results of the next one, and Synced.
FinalResults(g) ==
  /\ proc = "up" /\ pc[g] = "results" /\ ids[g] # {}
  /\ LET r == Next_(g) IN Update(r, r, votes[r.token], TRUE)
  /\ ids' = [ids EXCEPT ![g] = @ \ {Min(@)}]
  /\ UNCHANGED <<politeia, updating, pc, new, fresh, proc, faults>>

End(g) ==
  /\ proc = "up" /\ pc[g] = "results" /\ ids[g] = {}
  /\ Return(g)
  /\ UNCHANGED <<politeia, store, proc, faults>>

\* The process is ended at any point, or has panicked, and starts again.
Restart ==
  /\ proc = "crashed" \/ faults < MaxFaults
  /\ faults' = IF proc = "crashed" THEN faults ELSE faults + 1
  /\ proc' = "up" /\ updating' = FALSE
  /\ pc' = [g \in Syncers |-> "idle"]
  /\ new' = [g \in Syncers |-> {}] /\ ids' = [g \in Syncers |-> {}]
  /\ fresh' = [g \in Syncers |-> NoData]
  /\ UNCHANGED <<politeia, store>>

-----------------------------------------------------------------------------

Sync(g) ==
  \/ Begin(g) \/ NewTokens(g) \/ FetchNew(g) \/ SaveNew(g) \/ SelectInProgress(g)
  \/ Refresh(g) \/ Compare(g) \/ SelectComplete(g) \/ FinalResults(g) \/ End(g)

Fault(g) == Fails(g) \/ RefreshPanics(g) \/ CompareFails(g)

Next ==
  \/ \E t \in Tokens : ServerMoves(t) \/ ServerVote(t)
  \/ \E g \in Syncers : Sync(g) \/ Fault(g)
  \/ Restart

(***************************************************************************)
(* Fairness.  The ticker keeps calling ProposalsSync, requests are         *)
(* answered or fail, and a crashed process is started again.               *)
(***************************************************************************)
Fairness ==
  /\ \A g \in Syncers : WF_vars(Sync(g))
  /\ WF_vars(proc = "crashed" /\ Restart)

Spec == Init /\ [][Next]_vars
FairSpec == Spec /\ Fairness

-----------------------------------------------------------------------------
(* Properties *)

\* The type invariant.
TypeOK ==
  /\ status \in [Tokens -> VoteStatus \cup {"none"}] /\ votes \in [Tokens -> Nat]
  /\ \A r \in store : r \in [id : Nat, token : Tokens, status : VoteStatus,
                            votes : Nat, chart : Nat \cup {NoChart}, synced : BOOLEAN]
  /\ updating \in BOOLEAN /\ proc \in {"up", "crashed"}
  /\ pc \in [Syncers -> {"idle", "done", "new", "fetch", "save", "select", "refresh",
                         "compare", "results"}]
  /\ new \in [Syncers -> SUBSET Tokens] /\ \A g \in Syncers : ids[g] \subseteq Nat
  /\ \A g \in Syncers : DOMAIN fresh[g] \subseteq Tokens

\* A proposal has one record, whatever the start-up call, the ticker and a
\* restart in the middle of a save do.
OneRecordPerToken ==
  \A r, q \in store : r.token = q.token => r = q

\* Synced is the end of the work on a proposal: its record then has politeia's
\* final status, all the votes and the complete chart, because nothing selects
\* it again.
SyncedIsFinal ==
  \A r \in store : r.synced =>
    /\ r.status = status[r.token] /\ r.status \in Complete
    /\ r.votes = votes[r.token] /\ r.chart = votes[r.token]

\* Every vote that ends is eventually completely recorded, after failed
\* requests, missed pages, panics and restarts.
FinalResultsArrive ==
  \A t \in Tokens :
    status[t] \in Complete ~> \E r \in store : r.token = t /\ r.synced

\* "Proposal db update is made asynchronously to ensure that the system works
\* even when the Politeia API endpoint set is down."
SystemWorks == proc = "up"
=============================================================================
