------------------------------ MODULE Notifier ------------------------------
(***************************************************************************)
(* The dcrd notification pipeline of pdanalytics (src/dcrd/notifier.go and *)
(* the part of src/main.go that starts and stops it).                      *)
(*                                                                         *)
(*   dcrd node --wire--> rpcclient reader --anyQ--> superQueue             *)
(*        ^                                            |  one group of     *)
(*        |                                            v  handlers at once *)
(*        +-------------- RPC calls ------------- handler goroutines       *)
(*                                                                         *)
(* One websocket carries both the notifications and the RPC replies, and   *)
(* one goroutine reads it and runs the notification callbacks, so a        *)
(* callback that blocks on a full anyQ also holds back every reply behind  *)
(* it.  The node, the socket and the client library are external: they are *)
(* modelled from how the code uses them.                                   *)
(***************************************************************************)
EXTENDS Integers, Sequences, FiniteSets

CONSTANTS
  Blocks,        \* every block header that can occur
  Genesis,       \* the block the node starts from
  Parent,        \* [Blocks -> Blocks]: PrevBlock of each header
  Height,        \* [Blocks -> Nat]
  Txs,           \* mempool transactions
  BlockGroups,   \* notifier.block: sequence of sets of handlers
  TxGroups,      \* notifier.tx:    sequence of sets of handlers
  QueueCap,      \* capacity of anyQ (1024 in the code)
  HasWaiters,    \* the web server or the exchange bot was added to main's wg
  MaxReorgs,     \* bound: blocks the node disconnects
  MaxDrops,      \* bound: websocket losses
  MaxDeadlines,  \* bound: expiries of SyncHandlerDeadline
  MayStop        \* the process may be interrupted and Listen may fail

None == "none"
Main == <<"main", 0, 0>>   \* main as an RPC caller, beside the handler calls

Handlers == UNION ({BlockGroups[g] : g \in DOMAIN BlockGroups}
                     \cup {TxGroups[g] : g \in DOMAIN TxGroups})

ASSUME ConstantsAssumption ==
  /\ Genesis \in Blocks
  /\ Parent \in [Blocks -> Blocks]
  /\ Height \in [Blocks -> Nat]
  /\ \A b \in Blocks \ {Genesis} : Height[b] = Height[Parent[b]] + 1
  /\ None \notin Blocks
  /\ BlockGroups \in Seq(SUBSET Handlers)
  /\ TxGroups \in Seq(SUBSET Handlers)
  /\ QueueCap \in Nat \ {0}
  /\ HasWaiters \in BOOLEAN
  /\ MayStop \in BOOLEAN
  /\ {MaxReorgs, MaxDrops, MaxDeadlines} \subseteq Nat

VARIABLES
  tip,        \* the node's best block
  reorgs,     \* blocks the node has disconnected so far
  sentTxs,    \* transactions the node has accepted since it was asked
  subs,       \* what the node was asked to notify
  link,       \* state of the websocket
  drops,      \* websocket losses so far
  wire,       \* messages on their way to the client, oldest first
  owed,       \* RPC callers whose request the node still has to answer
  hand,       \* the notification the reader is depositing in anyQ, if any
  client,     \* the rpcclient: "open", "closing" (Shutdown called), "closed"
  anyQ,       \* notifier.anyQ
  pc,         \* where main is
  step,       \* which registration of Listen main is at
  previous,   \* notifier.previous
  sq,         \* superQueue: "off", "idle", "busy", "exit"
  group,      \* group processBlock or processTx is waiting for (0: none yet)
  live,       \* handler goroutines that have not returned
  ctxDone,    \* notifier.ctx is cancelled
  runs,       \* history: the messages given to the handlers, in order
  completed,  \* history: runs whose groups all finished in time
  abandoned,  \* history: runs given up at the deadline
  returned,   \* history: calls that have returned, as <<handler, group, run>>
  base,       \* history: the block main gave to SetPreviousBlock
  missed      \* history: a block was connected before NotifyBlocks took effect

nodeVars == <<tip, reorgs, sentTxs, subs>>
linkVars == <<link, drops, wire, owed>>
mainVars == <<pc, step, base, missed, ctxDone>>
runVars  == <<runs, completed, abandoned, returned>>
vars == <<nodeVars, linkVars, hand, client, anyQ, mainVars, previous,
          sq, group, live, runVars>>

Range_(f) == {f[x] : x \in DOMAIN f}

Registrations == <<"block", "tx", "tickets">>

Connected(b)    == [kind |-> "connected",    body |-> b]
Disconnected(b) == [kind |-> "disconnected", body |-> b]
TxAccepted(t)   == [kind |-> "tx",           body |-> t]
Reply(c)        == [kind |-> "reply",        body |-> c]

Groups(m) == IF m.kind = "tx" THEN TxGroups ELSE BlockGroups

LastRun == Len(runs)

\* A handler call: handler h of group g in run r.
CallId(i) == <<i.h, i.g, i.run>>

Init ==
  /\ tip = Genesis /\ reorgs = 0 /\ sentTxs = {} /\ subs = {}
  /\ link = "up" /\ drops = 0 /\ wire = <<>> /\ owed = {}
  /\ hand = <<>> /\ client = "open" /\ anyQ = <<>>
  /\ pc = "setup" /\ step = 1 /\ base = None /\ missed = FALSE
  /\ ctxDone = FALSE /\ previous = None
  /\ sq = "off" /\ group = 0 /\ live = {}
  /\ runs = <<>> /\ completed = {} /\ abandoned = {} /\ returned = {}

-----------------------------------------------------------------------------
(* The node and the websocket. *)

\* A notification reaches the client only over a working, open connection.
Send(kind, m) ==
  wire' = IF kind \in subs /\ link = "up" /\ client = "open"
          THEN Append(wire, m) ELSE wire

NodeConnect(b) ==
  /\ b # Genesis /\ Parent[b] = tip
  /\ tip' = b
  /\ Send("block", Connected(b))
  /\ UNCHANGED <<reorgs, sentTxs, subs, link, drops, owed, hand, client, anyQ,
                 mainVars, previous, sq, group, live, runVars>>

NodeDisconnect ==
  /\ tip # Genesis /\ reorgs < MaxReorgs
  /\ tip' = Parent[tip]
  /\ reorgs' = reorgs + 1
  /\ Send("block", Disconnected(tip))
  /\ UNCHANGED <<sentTxs, subs, link, drops, owed, hand, client, anyQ,
                 mainVars, previous, sq, group, live, runVars>>

NodeAcceptTx(t) ==
  /\ "tx" \in subs /\ t \notin sentTxs
  /\ sentTxs' = sentTxs \cup {t}
  /\ Send("tx", TxAccepted(t))
  /\ UNCHANGED <<tip, reorgs, subs, link, drops, owed, hand, client, anyQ,
                 mainVars, previous, sq, group, live, runVars>>

\* The node answers a request; the registrations of Listen take effect here.
NodeReply(c) ==
  /\ c \in owed /\ link = "up" /\ client = "open"
  /\ owed' = owed \ {c}
  /\ wire' = Append(wire, Reply(c))
  /\ IF c = Main
     THEN /\ subs' = subs \cup {Registrations[step]}
          /\ missed' = IF step = 1 THEN tip # previous ELSE missed
     ELSE UNCHANGED <<subs, missed>>
  /\ UNCHANGED <<tip, reorgs, sentTxs, link, drops, hand, client, anyQ,
                 pc, step, base, ctxDone, previous, sq, group, live, runVars>>

\* The connection breaks: what was in flight is lost, unanswered requests are
\* sent again by the client after it has reconnected.
LinkDrop ==
  /\ link = "up" /\ client = "open" /\ drops < MaxDrops
  /\ link' = "down" /\ drops' = drops + 1
  /\ wire' = <<>>
  /\ owed' = owed \cup {m.body : m \in {n \in Range_(wire) : n.kind = "reply"}}
  /\ UNCHANGED <<nodeVars, hand, client, anyQ, mainVars, previous, sq, group,
                 live, runVars>>

LinkUp ==
  /\ link = "down" /\ link' = "up"
  /\ UNCHANGED <<nodeVars, drops, wire, owed, hand, client, anyQ, mainVars,
                 previous, sq, group, live, runVars>>

-----------------------------------------------------------------------------
(* The goroutine of rpcclient that reads the socket.  It runs the callbacks  *)
(* itself: onBlockConnected and onTxAcceptedVerbose end in a blocking send   *)
(* on anyQ, onBlockDisconnected only logs.                                   *)

Take == client = "open" /\ hand = <<>> /\ wire # <<>> /\ wire' = Tail(wire)

ReadNotification ==
  /\ Take /\ Head(wire).kind \in {"connected", "tx"}
  /\ hand' = <<Head(wire)>>
  /\ UNCHANGED <<nodeVars, link, drops, owed, client, anyQ, mainVars, previous,
                 sq, group, live, runVars>>

\* Mutant: the callback queues the disconnected block as well.
Mutant_QueueDisconnected ==
  /\ Take /\ Head(wire).kind = "disconnected"
  /\ hand' = <<Head(wire)>>
  /\ UNCHANGED <<nodeVars, link, drops, owed, client, anyQ, mainVars,
                 previous, sq, group, live, runVars>>

onBlockDisconnected ==
  /\ Take /\ Head(wire).kind = "disconnected"
  /\ UNCHANGED <<nodeVars, link, drops, owed, hand, client, anyQ, mainVars,
                 previous, sq, group, live, runVars>>

\* Mutant: an unbounded queue.
Mutant_Unbounded ==
  /\ hand # <<>>
  /\ anyQ' = anyQ \o hand
  /\ hand' = <<>>
  /\ UNCHANGED <<nodeVars, linkVars, client, mainVars, previous, sq, group,
                 live, runVars>>

\* notifier.anyQ <- msg, the end of onBlockConnected and onTxAcceptedVerbose.
Deposit ==
  /\ hand # <<>> /\ Len(anyQ) < QueueCap
  /\ anyQ' = anyQ \o hand
  /\ hand' = <<>>
  /\ UNCHANGED <<nodeVars, linkVars, client, mainVars, previous, sq, group,
                 live, runVars>>

\* A reply wakes the handler goroutine that waits for it.
ReadHandlerReply ==
  /\ Take /\ Head(wire).kind = "reply" /\ Head(wire).body # Main
  /\ live' = {IF CallId(i) = Head(wire).body THEN [i EXCEPT !.st = "back"] ELSE i
                : i \in live}
  /\ UNCHANGED <<nodeVars, link, drops, owed, hand, client, anyQ, mainVars,
                 previous, sq, group, runVars>>

\* A reply to one of the three registrations: Listen goes on, and after the
\* last one it starts superQueue and returns to main, which waits.
ReadListenReply ==
  /\ Take /\ Head(wire).kind = "reply" /\ Head(wire).body = Main /\ pc = "await"
  /\ IF step < Len(Registrations)
     THEN step' = step + 1 /\ pc' = "listen" /\ UNCHANGED sq
     ELSE pc' = "running" /\ sq' = "idle" /\ UNCHANGED step
  /\ UNCHANGED <<nodeVars, link, drops, owed, hand, client, anyQ, base, missed,
                 ctxDone, previous, group, live, runVars>>

\* After Shutdown the reader goroutine ends, unless it is inside a callback.
ReaderStop ==
  /\ client = "closing" /\ hand = <<>>
  /\ client' = "closed"
  /\ UNCHANGED <<nodeVars, linkVars, hand, anyQ, mainVars, previous, sq, group,
                 live, runVars>>

-----------------------------------------------------------------------------
(* main *)

\* GetBestBlock, then SetPreviousBlock with its answer.
SetBestBlock ==
  /\ pc = "setup"
  /\ previous' = tip /\ base' = tip
  /\ pc' = "listen"
  /\ UNCHANGED <<nodeVars, linkVars, hand, client, anyQ, step, missed, ctxDone,
                 sq, group, live, runVars>>

\* NotifyBlocks, NotifyNewTransactions, NotifyWinningTickets.
ListenCall ==
  /\ pc = "listen"
  /\ owed' = owed \cup {Main}
  /\ pc' = "await"
  /\ UNCHANGED <<nodeVars, link, drops, wire, hand, client, anyQ, step, base,
                 missed, ctxDone, previous, sq, group, live, runVars>>

\* GetBestBlock or a registration fails: main returns the error.
StartupFails ==
  /\ MayStop /\ pc \in {"setup", "listen"}
  /\ pc' = "return"
  /\ UNCHANGED <<nodeVars, linkVars, hand, client, anyQ, step, base, missed,
                 ctxDone, previous, sq, group, live, runVars>>

\* An interrupt, or requestShutdown: shutdownListener cancels the context.
Interrupt ==
  /\ MayStop /\ ~ctxDone /\ pc # "exited"
  /\ ctxDone' = TRUE
  /\ UNCHANGED <<nodeVars, linkVars, hand, client, anyQ, pc, step, base, missed,
                 previous, sq, group, live, runVars>>

\* Mutant: the server goroutine never calls wg.Done().
Mutant_NoWgDone ==
  /\ pc = "running" /\ ~HasWaiters
  /\ pc' = "return"
  /\ UNCHANGED <<nodeVars, linkVars, hand, client, anyQ, step, base, missed,
                 ctxDone, previous, sq, group, live, runVars>>

\* wg.Wait() returns: nothing was added to it, or the context is cancelled and
\* the servers it counts have stopped.
WaitReturns ==
  /\ pc = "running" /\ (HasWaiters => ctxDone)
  /\ pc' = "return"
  /\ UNCHANGED <<nodeVars, linkVars, hand, client, anyQ, step, base, missed,
                 ctxDone, previous, sq, group, live, runVars>>

\* The deferred dcrdClient.Shutdown(): pending requests fail at once.
ShutdownClient ==
  /\ pc = "return"
  /\ pc' = "closing" /\ client' = "closing"
  /\ wire' = <<>> /\ owed' = {}
  /\ live' = {IF i.st = "rpc" THEN [i EXCEPT !.st = "back"] ELSE i : i \in live}
  /\ UNCHANGED <<nodeVars, link, drops, hand, anyQ, step, base, missed, ctxDone,
                 previous, sq, group, runVars>>

\* WaitForShutdown returns and the process ends, with all its goroutines.
Exit ==
  /\ pc = "closing" /\ client = "closed"
  /\ pc' = "exited"
  /\ UNCHANGED <<nodeVars, linkVars, hand, client, anyQ, step, base, missed,
                 ctxDone, previous, sq, group, live, runVars>>

-----------------------------------------------------------------------------
(* superQueue, processBlock, processTx *)

Alive == pc # "exited"

SqUnchanged == UNCHANGED <<nodeVars, linkVars, hand, client, mainVars>>

\* Mutant: heights are compared instead of hashes.
Mutant_ByHeight ==
  /\ Alive /\ sq = "idle" /\ anyQ # <<>>
  /\ Head(anyQ).kind = "connected" =>
       Height[Head(anyQ).body] = Height[previous] + 1
  /\ anyQ' = Tail(anyQ)
  /\ runs' = Append(runs, Head(anyQ))
  /\ sq' = "busy" /\ group' = 0
  /\ SqUnchanged /\ UNCHANGED <<previous, live, completed, abandoned, returned>>

\* The message is given to the handlers; no group has been started yet.
BeginRun ==
  /\ Alive /\ sq = "idle" /\ anyQ # <<>>
  /\ Head(anyQ).kind = "connected" => Parent[Head(anyQ).body] = previous
  /\ anyQ' = Tail(anyQ)
  /\ runs' = Append(runs, Head(anyQ))
  /\ sq' = "busy" /\ group' = 0
  /\ SqUnchanged /\ UNCHANGED <<previous, live, completed, abandoned, returned>>

\* "Received block does not connect": the block is dropped.
DropBlock ==
  /\ Alive /\ sq = "idle" /\ anyQ # <<>>
  /\ Head(anyQ).kind = "connected" /\ Parent[Head(anyQ).body] # previous
  /\ anyQ' = Tail(anyQ)
  /\ SqUnchanged /\ UNCHANGED <<previous, sq, group, live, runVars>>

\* Mutant: the groups are started without waiting for the previous one.
Mutant_NoWait == TRUE

\* Every handler of the current group has called wg.Done().
GroupDone == \A i \in live : ~(i.run = LastRun /\ i.g = group)

Calls(m, g, r) == [h : Groups(m)[g], g : {g}, run : {r}, st : {"new"}]

\* <-done, and there is a next group: one goroutine per handler of it.
StartGroup ==
  /\ Alive /\ sq = "busy" /\ GroupDone
  /\ group < Len(Groups(runs[LastRun]))
  /\ group' = group + 1
  /\ live' = live \cup Calls(runs[LastRun], group + 1, LastRun)
  /\ SqUnchanged /\ UNCHANGED <<anyQ, previous, sq, runVars>>

\* Mutant: the last group is not waited for.
Mutant_NoLastWait ==
  /\ Alive /\ sq = "busy"
  /\ group = Len(Groups(runs[LastRun]))
  /\ previous' = IF runs[LastRun].kind = "connected"
                 THEN runs[LastRun].body ELSE previous
  /\ completed' = completed \cup {LastRun}
  /\ sq' = "idle" /\ group' = 0
  /\ SqUnchanged /\ UNCHANGED <<anyQ, live, runs, abandoned, returned>>

\* Mutant: SetPreviousBlock is not called.
Mutant_NoSetPrevious ==
  /\ Alive /\ sq = "busy" /\ GroupDone
  /\ group = Len(Groups(runs[LastRun]))
  /\ completed' = completed \cup {LastRun}
  /\ sq' = "idle" /\ group' = 0
  /\ SqUnchanged
  /\ UNCHANGED <<anyQ, previous, live, runs, abandoned, returned>>

\* <-done of the last group.  processBlock ends with SetPreviousBlock.
CompleteRun ==
  /\ Alive /\ sq = "busy" /\ GroupDone
  /\ group = Len(Groups(runs[LastRun]))
  /\ previous' = IF runs[LastRun].kind = "connected"
                 THEN runs[LastRun].body ELSE previous
  /\ completed' = completed \cup {LastRun}
  /\ sq' = "idle" /\ group' = 0
  /\ SqUnchanged /\ UNCHANGED <<anyQ, live, runs, abandoned, returned>>

\* Mutant: the deadline is logged and the block recorded all the same.
Mutant_RecordAtDeadline ==
  /\ Alive /\ sq = "busy" /\ group > 0
  /\ Cardinality(abandoned) < MaxDeadlines
  /\ abandoned' = abandoned \cup {LastRun}
  /\ completed' = completed \cup {LastRun}
  /\ previous' = IF runs[LastRun].kind = "connected"
                 THEN runs[LastRun].body ELSE previous
  /\ sq' = "idle" /\ group' = 0
  /\ SqUnchanged /\ UNCHANGED <<anyQ, live, runs, returned>>

\* Mutant: a wait without a deadline.
Mutant_NoDeadline == FALSE

\* The timer of SyncHandlerDeadline: the run is given up, its goroutines go on.
Deadline ==
  /\ Alive /\ sq = "busy" /\ group > 0
  /\ Cardinality(abandoned) < MaxDeadlines
  /\ abandoned' = abandoned \cup {LastRun}
  /\ sq' = "idle" /\ group' = 0
  /\ SqUnchanged /\ UNCHANGED <<anyQ, previous, live, runs, completed, returned>>

\* <-notifier.ctx.Done()
SuperQueueExit ==
  /\ Alive /\ sq = "idle" /\ ctxDone
  /\ sq' = "exit"
  /\ SqUnchanged /\ UNCHANGED <<anyQ, previous, group, live, runVars>>

-----------------------------------------------------------------------------
(* Handler goroutines.  What a handler computes is its own module's business; *)
(* here it may wait for one RPC and then returns, with an error or without:  *)
(* the notifier only logs the error.                                         *)

HandlerCall(i) ==
  /\ Alive /\ i.st = "new" /\ client = "open"
  /\ live' = (live \ {i}) \cup {[i EXCEPT !.st = "rpc"]}
  /\ owed' = owed \cup {CallId(i)}
  /\ UNCHANGED <<nodeVars, link, drops, wire, hand, client, anyQ, mainVars,
                 previous, sq, group, runVars>>

HandlerReturn(i) ==
  /\ Alive /\ i.st # "rpc"
  /\ live' = live \ {i}
  /\ returned' = returned \cup {CallId(i)}
  /\ UNCHANGED <<nodeVars, linkVars, hand, client, anyQ, mainVars, previous,
                 sq, group, runs, completed, abandoned>>

-----------------------------------------------------------------------------

Node ==
  \/ \E b \in Blocks : NodeConnect(b)
  \/ NodeDisconnect
  \/ \E t \in Txs : NodeAcceptTx(t)
  \/ \E c \in owed : NodeReply(c)
  \/ LinkDrop \/ LinkUp

Reader ==
  \/ ReadNotification \/ onBlockDisconnected \/ Deposit
  \/ ReadHandlerReply \/ ReadListenReply \/ ReaderStop

MainThread ==
  \/ SetBestBlock \/ ListenCall \/ StartupFails \/ Interrupt
  \/ WaitReturns \/ ShutdownClient \/ Exit

superQueue ==
  \/ BeginRun \/ DropBlock \/ StartGroup \/ CompleteRun
  \/ Deadline \/ SuperQueueExit

HandlerStep == \E i \in live : HandlerCall(i) \/ HandlerReturn(i)

Next == (Alive /\ (Node \/ Reader)) \/ MainThread \/ superQueue \/ HandlerStep

(***************************************************************************)
(* Fairness.  Every goroutine is scheduled by the Go runtime, the node     *)
(* answers requests, a broken websocket is redialled (AutoReconnect is not *)
(* disabled in connectNodeRPC), the deadline timer fires, and a handler    *)
(* that is not waiting for the node returns.  Nothing obliges the node to  *)
(* find blocks, to reorganise or to lose the connection, nor a user to     *)
(* interrupt the process.                                                  *)
(***************************************************************************)
Fairness ==
  /\ WF_vars(Alive /\ \E c \in owed : NodeReply(c))
  /\ WF_vars(Alive /\ LinkUp)
  /\ WF_vars(Alive /\ Reader)
  /\ WF_vars(SetBestBlock \/ ListenCall \/ WaitReturns \/ ShutdownClient \/ Exit)
  /\ WF_vars(BeginRun \/ DropBlock \/ StartGroup \/ CompleteRun)
  /\ WF_vars(Deadline)
  /\ WF_vars(SuperQueueExit)
  /\ WF_vars(\E i \in live : HandlerReturn(i))

Spec == Init /\ [][Next]_vars
FairSpec == Spec /\ Fairness

-----------------------------------------------------------------------------
(* Properties *)

Notification == [kind : {"connected"}, body : Blocks \ {Genesis}] \cup [kind : {"tx"}, body : Txs]
CallIds == Handlers \X Nat \X Nat
Message == Notification \cup [kind : {"disconnected"}, body : Blocks]
                        \cup [kind : {"reply"}, body : CallIds \cup {Main}]

\* The type invariant.
TypeOK ==
  /\ tip \in Blocks /\ reorgs \in Nat /\ sentTxs \subseteq Txs
  /\ subs \subseteq Range_(Registrations)
  /\ link \in {"up", "down"} /\ drops \in Nat
  /\ wire \in Seq(Message) /\ owed \subseteq CallIds \cup {Main}
  /\ hand \in Seq(Notification) /\ anyQ \in Seq(Notification)
  /\ client \in {"open", "closing", "closed"}
  /\ pc \in {"setup", "listen", "await", "running", "return", "closing", "exited"}
  /\ step \in DOMAIN Registrations
  /\ base \in Blocks \cup {None} /\ missed \in BOOLEAN /\ ctxDone \in BOOLEAN
  /\ previous \in Blocks \cup {None}
  /\ sq \in {"off", "idle", "busy", "exit"} /\ group \in Nat
  /\ live \subseteq [h : Handlers, g : Nat, run : Nat, st : {"new", "rpc", "back"}]
  /\ runs \in Seq(Notification)
  /\ completed \subseteq Nat /\ abandoned \subseteq Nat
  /\ returned \subseteq CallIds

AllReturned(r, g) == \A h \in Groups(runs[r])[g] : <<h, g, r>> \in returned

\* "Groups are run sequentially in the order they are registered": a handler is
\* started on a message only after every handler of every earlier group has
\* returned from that same message, also when the deadline expired in between.
GroupOrder ==
  \A i \in live : \A g \in 1 .. i.g - 1 : AllReturned(i.run, g)

\* Handlers of two different messages run at the same time only when the older
\* message was given up at the deadline: processBlock and processTx wait for
\* their goroutines on every other path.
RunsSerial ==
  \A i \in live : i.run \in abandoned \/ (sq = "busy" /\ i.run = LastRun)

\* A run that ended normally was handled completely: when SetPreviousBlock
\* records a block, every handler of every group has returned from it.
RecordedIsHandled ==
  \A r \in completed : \A g \in DOMAIN Groups(runs[r]) : AllReturned(r, g)

Recorded == {r \in completed : runs[r].kind = "connected"}

\* The blocks processBlock has recorded are one chain from the block main gave
\* to SetPreviousBlock up to notifier.previous: each one's parent is the base
\* or recorded as well, and no block and no height is recorded twice, whatever
\* the node reorganises, repeats or loses.
ConnectedChain ==
  base # None =>
    /\ previous \in {base} \cup {runs[r].body : r \in Recorded}
    /\ \A r \in Recorded :
         /\ Parent[runs[r].body] \in {base} \cup {runs[q].body : q \in Recorded}
         /\ Height[base] < Height[runs[r].body]
         /\ Height[runs[r].body] <= Height[previous]
    /\ \A r, q \in Recorded : r < q => Height[runs[r].body] < Height[runs[q].body]

\* The deadlock the comment on anyQ warns of: the reader is blocked on the full
\* queue, superQueue waits for a handler, the handler waits for a reply that
\* only the reader can deliver.
CircularWait ==
  /\ hand # <<>> /\ Len(anyQ) = QueueCap /\ sq = "busy" /\ client = "open"
  /\ \E i \in live : i.run = LastRun /\ i.g = group /\ i.st = "rpc"

\* Nothing but the expiry of the deadline, which gives the message up, or the
\* shutdown of the client ends that deadlock.
OnlyDeadlineBreaksWait ==
  [][CircularWait /\ ~CircularWait' => LastRun \in abandoned' \/ client' # "open"]_vars

\* superQueue never waits for a message's handlers for ever, also in the
\* deadlock above.
GroupWaitEnds == sq = "busy" ~> (sq # "busy" \/ pc = "exited")

\* Listen's RPCs can wait for ever: superQueue is started only after the last
\* of them, so notifications that fill anyQ before that block the reader.
StartupWedged == pc = "await" /\ hand # <<>> /\ Len(anyQ) = QueueCap

AbandonedBlocks == {r \in abandoned : runs[r].kind = "connected"}

Stopping == ctxDone \/ pc \in {"return", "closing", "exited"}

\* The reasons for which the notifier may be left behind the node for good:
\* besides the end of the process, a reorganisation, a block the deadline made
\* it give up, and a block it was not told of.
Untold == missed \/ drops > 0 \/ StartupWedged

\* Without one of those reasons every block the node connects is handled: the
\* notifier ends up with the node's best block as its previous block.
CatchesUp ==
  <>[](previous = tip \/ reorgs > 0 \/ AbandonedBlocks # {} \/ Untold \/ Stopping)

\* SetPreviousBlock's comment: processBlock "keeps this data up-to-date", and
\* a reorganisation is followed ("signalReorg will use SetPreviousBlock after
\* the reorg is complete").
FollowsReorg == <>[](previous = tip \/ AbandonedBlocks # {} \/ Untold \/ Stopping)

\* An interrupted process ends, unless the reader was caught in a send to the
\* full anyQ after superQueue had left its loop, or before it was started.
ReaderWedged == hand # <<>> /\ Len(anyQ) = QueueCap /\ sq \in {"off", "exit"}
ShutdownEnds == ctxDone ~> (pc = "exited" \/ ReaderWedged)

\* The process ends only after a shutdown was requested or its start failed.
StaysUp == pc = "exited" => ctxDone \/ sq = "off"

-----------------------------------------------------------------------------
(* The inductive invariant behind the properties. *)

RunHistory == completed \cup abandoned \subseteq 1 .. LastRun

\* While superQueue is inside processBlock or processTx, the handlers of the
\* earlier groups have returned and those of the current one run or returned;
\* a block's parent is still notifier.previous.
ActiveRun ==
  sq = "busy" =>
    /\ LastRun > 0 /\ LastRun \notin completed \cup abandoned
    /\ group <= Len(Groups(runs[LastRun]))
    /\ \A g \in 1 .. group : \A h \in Groups(runs[LastRun])[g] :
         \/ <<h, g, LastRun>> \in returned
         \/ g = group /\ \E i \in live : CallId(i) = <<h, g, LastRun>>
    /\ runs[LastRun].kind = "connected" => Parent[runs[LastRun].body] = previous

LiveCalls ==
  \A i \in live :
    /\ i.run \in 1 .. LastRun /\ i.g \in DOMAIN Groups(runs[i.run])
    /\ i.h \in Groups(runs[i.run])[i.g]
    /\ i.run = LastRun /\ sq = "busy" /\ i.run \notin abandoned => i.g = group

ReturnedCalls ==
  \A c \in returned :
    /\ c[3] \in 1 .. LastRun /\ c[2] \in DOMAIN Groups(runs[c[3]])
    /\ c[1] \in Groups(runs[c[3]])[c[2]]

\* superQueue starts after main has given the first best block.
StartOrder ==
  /\ pc = "setup" => base = None /\ previous = None
  /\ pc \in {"setup", "listen", "await"} => sq = "off"
  /\ pc \in {"listen", "await", "running"} => base # None
  /\ sq # "off" => base # None
  /\ sq = "off" => runs = <<>>

IndInv ==
  /\ TypeOK /\ RunHistory /\ ActiveRun /\ LiveCalls /\ ReturnedCalls /\ StartOrder
  /\ GroupOrder /\ RunsSerial /\ RecordedIsHandled /\ ConnectedChain

-----------------------------------------------------------------------------
(* The abstract specification and the mapping to it. *)

BlockHandlers == UNION {BlockGroups[g] : g \in DOMAIN BlockGroups}
BlockRuns == {r \in DOMAIN runs : runs[r].kind = "connected"}

Given == {runs[r].body : r \in BlockRuns}
Handled == {<<c[1], runs[c[3]].body>> : c \in {d \in returned : d[3] \in BlockRuns}}

Follower == INSTANCE ChainFollower WITH
  Handlers <- BlockHandlers, NoBlock <- None,
  best <- previous, given <- Given, handled <- Handled

\* The pipeline implements ChainFollower, whatever the queue, the goroutines,
\* the deadline, the node and the connection do.
Follows == Follower!Spec
=============================================================================
