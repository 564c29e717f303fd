--------------------------- MODULE NotifierProofs ---------------------------
(***************************************************************************)
(* What holds of the notification pipeline for every tree of blocks, every *)
(* registration of handlers, every queue capacity and every number of      *)
(* reorganisations, lost connections and missed deadlines.                 *)
(***************************************************************************)
EXTENDS Notifier, TLAPS

HandlerCallRecord == [h : Handlers, g : Nat, run : Nat, st : {"new", "rpc", "back"}]

\* The handlers of a registered group are handlers.
LEMMA GroupsAreHandlers ==
  ASSUME NEW m, NEW g \in DOMAIN Groups(m)
  PROVE  Groups(m)[g] \subseteq Handlers
  BY ConstantsAssumption DEF Groups, Handlers

\* The wire holds replies to callers only.
LEMMA RepliesGoToCallers ==
  ASSUME wire \in Seq(Message)
  PROVE  {m.body : m \in {n \in Range_(wire) : n.kind = "reply"}}
            \subseteq CallIds \cup {Main}
<1>1. Range_(wire) \subseteq Message
  BY DEF Range_
<1>2. \A m \in Message : m.kind = "reply" => m.body \in CallIds \cup {Main}
  BY DEF Message, Notification
<1> QED  BY <1>1, <1>2

LEMMA InitTypeOK == Init => TypeOK
<1> SUFFICES ASSUME Init PROVE TypeOK
  OBVIOUS
<1>1. Genesis \in Blocks /\ 1 \in DOMAIN Registrations
  BY ConstantsAssumption DEF ConstantsAssumption, Registrations
<1>2. /\ wire \in Seq(Message) /\ hand \in Seq(Notification)
      /\ anyQ \in Seq(Notification) /\ runs \in Seq(Notification)
  BY DEF Init
<1> QED  BY <1>1, <1>2 DEF Init, TypeOK

\* A step of the node or of the connection.
LEMMA NodeTypeOK == TypeOK /\ Node => TypeOK'
<1> SUFFICES ASSUME TypeOK, Node PROVE TypeOK'
  OBVIOUS
<1>1. ASSUME NEW k, NEW m \in Message, Send(k, m) PROVE wire' \in Seq(Message)
  BY <1>1 DEF Send, TypeOK
<1>0. Parent[tip] \in Blocks
  BY ConstantsAssumption DEF ConstantsAssumption, TypeOK
<1>2. ASSUME NEW b \in Blocks, NodeConnect(b) PROVE TypeOK'
  <2>1. Connected(b) \in Message
    BY <1>2 DEF NodeConnect, Connected, Message, Notification
  <2>2. wire' \in Seq(Message)
    BY <1>1, <1>2, <2>1 DEF NodeConnect
  <2> QED  BY <1>2, <2>2 DEF NodeConnect, TypeOK, mainVars, runVars
<1>3. CASE NodeDisconnect
  <2>1. Disconnected(tip) \in Message
    BY DEF Disconnected, Message, TypeOK
  <2>2. wire' \in Seq(Message)
    BY <1>1, <1>3, <2>1 DEF NodeDisconnect
  <2> QED  BY <1>0, <1>3, <2>2 DEF NodeDisconnect, TypeOK, mainVars, runVars
<1>4. ASSUME NEW t \in Txs, NodeAcceptTx(t) PROVE TypeOK'
  <2>1. TxAccepted(t) \in Message
    BY DEF TxAccepted, Message, Notification
  <2> QED  BY <1>1, <1>4, <2>1 DEF NodeAcceptTx, TypeOK, mainVars, runVars
<1>5. ASSUME NEW c \in owed, NodeReply(c) PROVE TypeOK'
  <2>1. Reply(c) \in Message
    BY DEF Reply, Message, TypeOK
  <2>2. Registrations[step] \in Range_(Registrations)
    BY DEF Range_, TypeOK
  <2>3. subs' \subseteq Range_(Registrations) /\ missed' \in BOOLEAN
    BY <1>5, <2>2 DEF NodeReply, TypeOK
  <2> QED  BY <1>5, <2>1, <2>3 DEF NodeReply, TypeOK, runVars
<1>6. CASE LinkDrop
  BY <1>6, RepliesGoToCallers DEF LinkDrop, TypeOK, nodeVars, mainVars, runVars
<1>7. CASE LinkUp
  BY <1>7 DEF LinkUp, TypeOK, nodeVars, mainVars, runVars
<1> QED  BY <1>2, <1>3, <1>4, <1>5, <1>6, <1>7 DEF Node

\* A step of the goroutine that reads the socket.
LEMMA ReaderTypeOK == TypeOK /\ Reader => TypeOK'
<1> SUFFICES ASSUME TypeOK, Reader PROVE TypeOK'
  OBVIOUS
<1> USE DEF nodeVars, linkVars, mainVars, runVars
<1>1. ASSUME Take PROVE Head(wire) \in Message /\ wire' \in Seq(Message)
  BY <1>1 DEF Take, TypeOK
<1>2. CASE ReadNotification
  <2>1. Head(wire) \in Notification
    BY <1>1, <1>2 DEF ReadNotification, Message
  <2> QED  BY <1>1, <1>2, <2>1 DEF ReadNotification, TypeOK
<1>3. CASE onBlockDisconnected
  BY <1>1, <1>3 DEF onBlockDisconnected, TypeOK
<1>4. CASE Deposit
  BY <1>4 DEF Deposit, TypeOK
<1>5. CASE ReadHandlerReply
  <2>1. \A i \in live : [i EXCEPT !.st = "back"] \in HandlerCallRecord
    BY DEF TypeOK, HandlerCallRecord
  <2>2. live' \subseteq HandlerCallRecord
    BY <1>5, <2>1 DEF ReadHandlerReply, TypeOK, HandlerCallRecord
  <2> QED  BY <1>1, <1>5, <2>2 DEF ReadHandlerReply, TypeOK, HandlerCallRecord
<1>6. CASE ReadListenReply
  BY <1>1, <1>6 DEF ReadListenReply, TypeOK, Registrations
<1>7. CASE ReaderStop
  BY <1>7 DEF ReaderStop, TypeOK
<1> QED  BY <1>2, <1>3, <1>4, <1>5, <1>6, <1>7 DEF Reader

\* A step of main.
LEMMA MainTypeOK == TypeOK /\ MainThread => TypeOK'
<1> SUFFICES ASSUME TypeOK, MainThread PROVE TypeOK'
  OBVIOUS
<1> USE DEF nodeVars, linkVars, mainVars, runVars
<1>1. CASE ShutdownClient
  <2>1. \A i \in live : [i EXCEPT !.st = "back"] \in HandlerCallRecord
    BY DEF TypeOK, HandlerCallRecord
  <2>2. live' \subseteq HandlerCallRecord
    BY <1>1, <2>1 DEF ShutdownClient, TypeOK, HandlerCallRecord
  <2> QED  BY <1>1, <2>2 DEF ShutdownClient, TypeOK, HandlerCallRecord
<1>2. CASE SetBestBlock  BY <1>2 DEF SetBestBlock, TypeOK
<1>3. CASE ListenCall    BY <1>3 DEF ListenCall, TypeOK
<1>4. CASE StartupFails  BY <1>4 DEF StartupFails, TypeOK
<1>5. CASE Interrupt     BY <1>5 DEF Interrupt, TypeOK
<1>6. CASE WaitReturns   BY <1>6 DEF WaitReturns, TypeOK
<1>7. CASE Exit          BY <1>7 DEF Exit, TypeOK
<1> QED  BY <1>1, <1>2, <1>3, <1>4, <1>5, <1>6, <1>7 DEF MainThread

\* A step of superQueue.
LEMMA QueueTypeOK == TypeOK /\ ActiveRun /\ superQueue => TypeOK'
<1> SUFFICES ASSUME TypeOK, ActiveRun, superQueue PROVE TypeOK'
  OBVIOUS
<1> USE DEF nodeVars, linkVars, mainVars, runVars, SqUnchanged
<1>1. CASE BeginRun
  BY <1>1 DEF BeginRun, TypeOK
<1>2. CASE DropBlock
  BY <1>2 DEF DropBlock, TypeOK
<1>3. CASE StartGroup
  <2> DEFINE m == runs[LastRun]
  <2>1. Groups(m) \in Seq(SUBSET Handlers)
    BY ConstantsAssumption DEF Groups
  <2>2. group + 1 \in DOMAIN Groups(m)
    BY <1>3, <2>1 DEF StartGroup, TypeOK
  <2>3. Groups(m)[group + 1] \subseteq Handlers
    BY <2>2, GroupsAreHandlers
  <2>4. LastRun \in Nat
    BY DEF LastRun, TypeOK
  <2>5. Calls(m, group + 1, LastRun) \subseteq HandlerCallRecord
    BY <2>3, <2>4 DEF Calls, HandlerCallRecord, TypeOK
  <2> QED  BY <1>3, <2>5 DEF StartGroup, TypeOK, HandlerCallRecord
<1>4. CASE CompleteRun
  <2>1. LastRun \in Nat
    BY DEF LastRun, TypeOK
  <2>2. runs[LastRun] \in Notification
    BY <1>4 DEF CompleteRun, ActiveRun, LastRun, TypeOK
  <2>3. previous' \in Blocks \cup {None}
    BY <1>4, <2>2 DEF CompleteRun, TypeOK, Notification
  <2> QED  BY <1>4, <2>1, <2>3 DEF CompleteRun, TypeOK
<1>5. CASE Deadline
  <2>1. LastRun \in Nat
    BY DEF LastRun, TypeOK
  <2> QED  BY <1>5, <2>1 DEF Deadline, TypeOK
<1>6. CASE SuperQueueExit
  BY <1>6 DEF SuperQueueExit, TypeOK
<1> QED  BY <1>1, <1>2, <1>3, <1>4, <1>5, <1>6 DEF superQueue

\* A step of a handler goroutine.
LEMMA HandlerTypeOK == TypeOK /\ HandlerStep => TypeOK'
<1> SUFFICES ASSUME TypeOK, NEW i \in live, HandlerCall(i) \/ HandlerReturn(i)
             PROVE  TypeOK'
  BY DEF HandlerStep
<1>1. CallId(i) \in CallIds /\ [i EXCEPT !.st = "rpc"] \in HandlerCallRecord
  BY DEF TypeOK, CallId, CallIds, HandlerCallRecord
<1>2. CASE HandlerCall(i)
  BY <1>1, <1>2 DEF HandlerCall, TypeOK, HandlerCallRecord, nodeVars, mainVars, runVars
<1>3. CASE HandlerReturn(i)
  BY <1>1, <1>3 DEF HandlerReturn, TypeOK, nodeVars, linkVars, mainVars
<1> QED  BY <1>2, <1>3

-----------------------------------------------------------------------------
(* The inductive invariant.  Core is the part of it that speaks about runs    *)
(* and calls; most steps leave everything it mentions alone.                 *)

Core == /\ RunHistory /\ ActiveRun /\ LiveCalls /\ ReturnedCalls
        /\ GroupOrder /\ RunsSerial /\ RecordedIsHandled /\ ConnectedChain

runState == <<sq, group, runs, completed, abandoned, returned, previous, base>>

\* The same calls are live, perhaps in another state of their RPC.
SameCall(i, j) == i.h = j.h /\ i.g = j.g /\ i.run = j.run
SameCalls == /\ \A i \in live' : \E j \in live : SameCall(i, j)
             /\ \A j \in live : \E i \in live' : SameCall(i, j)

\* What a step that keeps the runs and the calls keeps.
LEMMA SameCallsCore ==
  ASSUME Core, UNCHANGED runState, SameCalls
  PROVE  Core'
<1> USE DEF runState, Core, LastRun
<1>1. RunHistory'
  BY DEF RunHistory
<1>2. ActiveRun'
  <2> SUFFICES ASSUME sq' = "busy" PROVE ActiveRun'
    BY DEF ActiveRun
  <2>1. ASSUME NEW g \in 1 .. group, NEW h \in Groups(runs[LastRun])[g],
               <<h, g, LastRun>> \notin returned
        PROVE  g = group /\ \E i \in live' : CallId(i) = <<h, g, LastRun>>
    BY <2>1 DEF ActiveRun, CallId, SameCalls, SameCall
  <2> QED  BY <2>1 DEF ActiveRun
<1>3. LiveCalls' /\ RunsSerial'
  BY DEF LiveCalls, RunsSerial, SameCalls, SameCall
<1>4. ReturnedCalls'
  BY DEF ReturnedCalls
<1>5. GroupOrder'
  BY DEF GroupOrder, AllReturned, SameCalls, SameCall
<1>6. RecordedIsHandled'
  BY DEF RecordedIsHandled, AllReturned
<1>7. ConnectedChain'
  BY DEF ConnectedChain, Recorded
<1> QED  BY <1>1, <1>2, <1>3, <1>4, <1>5, <1>6, <1>7

\* ... and what one that also leaves the goroutines alone keeps.
LEMMA QuietCore == Core /\ UNCHANGED <<runState, live>> => Core'
<1> SUFFICES ASSUME Core, UNCHANGED <<runState, live>> PROVE Core'
  OBVIOUS
<1>1. SameCalls
  BY DEF SameCalls, SameCall
<1> QED  BY <1>1, SameCallsCore

LEMMA NodeCore == Core /\ Node => Core'
  BY QuietCore DEF Node, NodeConnect, NodeDisconnect, NodeAcceptTx, NodeReply,
     LinkDrop, LinkUp, runState, mainVars, runVars

LEMMA ReaderCore == TypeOK /\ Core /\ StartOrder /\ Reader => Core'
<1> SUFFICES ASSUME TypeOK, Core, StartOrder, Reader PROVE Core'
  OBVIOUS
<1>1. CASE ReadHandlerReply
  <2>0. \A i \in live : SameCall([i EXCEPT !.st = "back"], i) /\ SameCall(i, i)
    BY DEF TypeOK, SameCall
  <2>1. SameCalls
    BY <1>1, <2>0 DEF ReadHandlerReply, SameCalls
  <2> QED  BY <1>1, <2>1, SameCallsCore DEF ReadHandlerReply, runState, mainVars, runVars
<1>2. CASE ReadListenReply
  <2>1. sq = "off" /\ sq' # "busy" /\ UNCHANGED <<group, live, runVars, previous, base>>
    BY <1>2 DEF ReadListenReply, StartOrder
  <2>2. LastRun = 0 /\ live = {}
    BY <2>1 DEF StartOrder, LastRun, Core, LiveCalls
  <2>3. RunHistory' /\ ActiveRun' /\ LiveCalls' /\ ReturnedCalls' /\ GroupOrder' /\ RunsSerial'
    BY <2>1, <2>2 DEF Core, RunHistory, ActiveRun, LiveCalls, ReturnedCalls,
       GroupOrder, RunsSerial, runVars, LastRun
  <2>4. RecordedIsHandled' /\ ConnectedChain'
    BY <2>1 DEF Core, RecordedIsHandled, AllReturned, ConnectedChain, Recorded, runVars
  <2> QED  BY <2>3, <2>4 DEF Core
<1>3. CASE ~(ReadHandlerReply \/ ReadListenReply)
  BY <1>3, QuietCore DEF Reader, ReadNotification, onBlockDisconnected, Deposit,
     ReaderStop, runState, mainVars, runVars
<1> QED  BY <1>1, <1>2, <1>3

LEMMA MainCore == TypeOK /\ Core /\ StartOrder /\ MainThread => Core'
<1> SUFFICES ASSUME TypeOK, Core, StartOrder, MainThread PROVE Core'
  OBVIOUS
<1>1. CASE SetBestBlock
  <2>1. sq = "off" /\ sq' = "off" /\ UNCHANGED <<group, live, runVars>>
    BY <1>1 DEF SetBestBlock, StartOrder
  <2>2. LastRun = 0 /\ live = {} /\ completed = {}
    BY <2>1 DEF StartOrder, LastRun, Core, LiveCalls, RunHistory
  <2>3. RunHistory' /\ ActiveRun' /\ LiveCalls' /\ ReturnedCalls' /\ GroupOrder' /\ RunsSerial'
    BY <2>1, <2>2 DEF Core, RunHistory, ActiveRun, LiveCalls, ReturnedCalls,
       GroupOrder, RunsSerial, runVars, LastRun
  <2>4. completed' = {} /\ previous' = base'
    BY <1>1, <2>2 DEF SetBestBlock, runVars
  <2>5. RecordedIsHandled' /\ ConnectedChain'
    BY <2>4 DEF RecordedIsHandled, ConnectedChain, Recorded
  <2> QED  BY <2>3, <2>5 DEF Core
<1>2. CASE ShutdownClient
  <2>0. \A i \in live : SameCall([i EXCEPT !.st = "back"], i) /\ SameCall(i, i)
    BY DEF TypeOK, SameCall
  <2>1. SameCalls
    BY <1>2, <2>0 DEF ShutdownClient, SameCalls
  <2> QED  BY <1>2, <2>1, SameCallsCore DEF ShutdownClient, runState, runVars
<1>3. CASE ~(SetBestBlock \/ ShutdownClient)
  BY <1>3, QuietCore DEF MainThread, ListenCall, StartupFails, Interrupt,
     WaitReturns, Exit, runState, runVars
<1> QED  BY <1>1, <1>2, <1>3

LEMMA HandlerCore == TypeOK /\ Core /\ HandlerStep => Core'
<1> SUFFICES ASSUME TypeOK, Core, NEW i \in live, HandlerCall(i) \/ HandlerReturn(i)
             PROVE  Core'
  BY DEF HandlerStep
<1>1. CASE HandlerCall(i)
  <2>1. SameCall([i EXCEPT !.st = "rpc"], i)
    BY DEF SameCall, TypeOK
  <2>2. SameCalls
    BY <1>1, <2>1 DEF HandlerCall, SameCalls, SameCall
  <2> QED  BY <1>1, <2>2, SameCallsCore DEF HandlerCall, runState, mainVars, runVars
<1>2. CASE HandlerReturn(i)
  <2>1. /\ live' = live \ {i} /\ returned' = returned \cup {<<i.h, i.g, i.run>>}
        /\ UNCHANGED <<sq, group, runs, completed, abandoned, previous, base, LastRun>>
    BY <1>2 DEF HandlerReturn, mainVars, CallId, LastRun
  <2>2. RunHistory'
    BY <2>1 DEF Core, RunHistory
  <2>3. ActiveRun'
    <3> SUFFICES ASSUME sq = "busy" PROVE ActiveRun'
      BY <2>1 DEF ActiveRun
    <3>1. ASSUME NEW g \in 1 .. group, NEW h \in Groups(runs[LastRun])[g],
                 <<h, g, LastRun>> \notin returned'
          PROVE  g = group /\ \E j \in live' : CallId(j) = <<h, g, LastRun>>
      <4>1. PICK j \in live : g = group /\ CallId(j) = <<h, g, LastRun>>
        BY <2>1, <3>1 DEF Core, ActiveRun
      <4>2. j # i
        BY <2>1, <3>1, <4>1 DEF CallId
      <4> QED  BY <2>1, <4>1, <4>2
    <3> QED  BY <2>1, <3>1 DEF Core, ActiveRun, CallId
  <2>4. LiveCalls' /\ RunsSerial'
    BY <2>1 DEF Core, LiveCalls, RunsSerial
  <2>5. ReturnedCalls'
    BY <2>1 DEF Core, ReturnedCalls, LiveCalls
  <2>6. GroupOrder' /\ RecordedIsHandled'
    BY <2>1 DEF Core, GroupOrder, RecordedIsHandled, AllReturned
  <2>7. ConnectedChain'
    BY <2>1 DEF Core, ConnectedChain, Recorded
  <2> QED  BY <2>2, <2>3, <2>4, <2>5, <2>6, <2>7 DEF Core
<1> QED  BY <1>1, <1>2

\* superQueue takes the next message; the block of a message extends previous.
LEMMA BeginRunCore == TypeOK /\ Core /\ StartOrder /\ BeginRun => Core'
<1> SUFFICES ASSUME TypeOK, Core, StartOrder, BeginRun PROVE Core'
  OBVIOUS
<1> DEFINE m == Head(anyQ)
<1>1. /\ m \in Notification /\ runs' = Append(runs, m)
      /\ sq = "idle" /\ sq' = "busy" /\ group' = 0
      /\ UNCHANGED <<live, completed, abandoned, returned, previous, base>>
      /\ m.kind = "connected" => Parent[m.body] = previous
  BY DEF BeginRun, TypeOK, SqUnchanged, mainVars
<1>2. /\ LastRun \in Nat /\ LastRun' = LastRun + 1 /\ runs'[LastRun'] = m
      /\ \A r \in 1 .. LastRun : runs'[r] = runs[r]
      /\ 1 .. LastRun \subseteq 1 .. LastRun'
  BY <1>1 DEF LastRun, TypeOK
<1>3. RunHistory'
  BY <1>1, <1>2 DEF Core, RunHistory
<1>4. ActiveRun'
  <2>1. LastRun' \notin completed' \cup abandoned'
    BY <1>1, <1>2 DEF Core, RunHistory
  <2>2. Len(Groups(m)) \in Nat
    BY ConstantsAssumption DEF ConstantsAssumption, Groups
  <2>3. LastRun' > 0 /\ group' <= Len(Groups(runs'[LastRun'])) /\ 1 .. group' = {}
    BY <1>1, <1>2, <2>2
  <2>4. runs'[LastRun'].kind = "connected" => Parent[runs'[LastRun'].body] = previous'
    BY <1>1, <1>2
  <2> HIDE DEF m
  <2> QED  BY <2>1, <2>3, <2>4 DEF ActiveRun
<1>5. LiveCalls' /\ RunsSerial'
  <2>1. \A i \in live : i.run \in 1 .. LastRun /\ i.run \in abandoned
    BY <1>1 DEF Core, LiveCalls, RunsSerial
  <2> QED  BY <1>1, <1>2, <2>1 DEF Core, LiveCalls, RunsSerial
<1>6. ReturnedCalls'
  BY <1>1, <1>2 DEF Core, ReturnedCalls
<1>7. GroupOrder'
  BY <1>1, <1>2 DEF Core, GroupOrder, LiveCalls, AllReturned
<1>8. RecordedIsHandled'
  BY <1>1, <1>2 DEF Core, RecordedIsHandled, RunHistory, AllReturned
<1>9. ConnectedChain'
  <2>1. Recorded' = Recorded /\ \A r \in Recorded : runs'[r] = runs[r]
    BY <1>1, <1>2 DEF Core, RunHistory, Recorded
  <2>2. {runs'[r].body : r \in Recorded'} = {runs[r].body : r \in Recorded}
    BY <2>1
  <2> QED  BY <1>1, <2>1, <2>2 DEF Core, ConnectedChain
<1> QED  BY <1>3, <1>4, <1>5, <1>6, <1>7, <1>8, <1>9 DEF Core

\* When the current group is done, each of its handlers has returned.
LEMMA GroupDoneReturned ==
  ASSUME TypeOK, Core, sq = "busy", GroupDone, NEW g \in 1 .. group
  PROVE  AllReturned(LastRun, g)
  BY DEF TypeOK, Core, ActiveRun, GroupDone, AllReturned, CallId

\* The next group is started only after that.
LEMMA StartGroupCore == TypeOK /\ Core /\ StartGroup => Core'
<1> SUFFICES ASSUME TypeOK, Core, StartGroup PROVE Core'
  OBVIOUS
<1> DEFINE new == Calls(runs[LastRun], group + 1, LastRun)
<1>1. /\ sq = "busy" /\ GroupDone /\ group < Len(Groups(runs[LastRun]))
      /\ group' = group + 1 /\ live' = live \cup new
      /\ UNCHANGED <<sq, runs, completed, abandoned, returned, previous, base, LastRun>>
  BY DEF StartGroup, SqUnchanged, mainVars, runVars, LastRun
<1>2. \A i \in new : /\ i.run = LastRun /\ i.g = group + 1
                       /\ i.h \in Groups(runs[LastRun])[group + 1]
  BY DEF Calls
<1>3. /\ group \in Nat /\ LastRun \in 1 .. LastRun
      /\ group + 1 \in DOMAIN Groups(runs[LastRun])
      /\ Len(Groups(runs[LastRun])) \in Nat
  BY <1>1, ConstantsAssumption
     DEF ConstantsAssumption, Core, ActiveRun, TypeOK, LastRun, Groups
<1>4. \A g \in 1 .. group : AllReturned(LastRun, g)
  BY <1>1, GroupDoneReturned
<1>5. RunHistory' /\ ReturnedCalls' /\ RecordedIsHandled'
  BY <1>1 DEF Core, RunHistory, ReturnedCalls, RecordedIsHandled, AllReturned
<1>6. ActiveRun'
  <2>1. ASSUME NEW h \in Groups(runs[LastRun])[group + 1]
        PROVE  \E i \in live' : CallId(i) = <<h, group + 1, LastRun>>
    <3> DEFINE c == [h |-> h, g |-> group + 1, run |-> LastRun, st |-> "new"]
    <3>1. c \in live'
      BY <1>1 DEF Calls
    <3> QED  BY <3>1 DEF CallId
  <2>2. \A g \in 1 .. group' : g \in 1 .. group \/ g = group + 1
    BY <1>1, <1>3
  <2>3. /\ LastRun > 0 /\ LastRun \notin completed \cup abandoned
        /\ group' <= Len(Groups(runs[LastRun]))
        /\ runs[LastRun].kind = "connected" => Parent[runs[LastRun].body] = previous
    BY <1>1, <1>3 DEF Core, ActiveRun
  <2> QED  BY <1>1, <1>4, <2>1, <2>2, <2>3 DEF ActiveRun, AllReturned
<1>7. LiveCalls' /\ RunsSerial'
  <2>1. \A i \in live : ~(i.run = LastRun /\ i.run \notin abandoned)
    BY <1>1 DEF Core, LiveCalls, GroupDone
  <2> QED  BY <1>1, <1>2, <1>3, <2>1 DEF Core, LiveCalls, RunsSerial
<1>8. GroupOrder'
  <2>1. \A i \in new : \A g \in 1 .. i.g - 1 : AllReturned(i.run, g)
    BY <1>2, <1>3, <1>4
  <2>2. \A i \in live' : \A g \in 1 .. i.g - 1 : AllReturned(i.run, g)
    BY <1>1, <2>1 DEF Core, GroupOrder
  <2> QED  BY <1>1, <2>2 DEF GroupOrder, AllReturned
<1>9. ConnectedChain'
  BY <1>1 DEF Core, ConnectedChain, Recorded
<1> QED  BY <1>5, <1>6, <1>7, <1>8, <1>9 DEF Core

\* A block other than the first is one higher than its parent.
LEMMA ParentIsLower ==
  ASSUME NEW b \in Blocks \ {Genesis}
  PROVE  Parent[b] \in Blocks /\ Height[b] \in Nat /\ Height[Parent[b]] \in Nat
         /\ Height[b] = Height[Parent[b]] + 1
  BY ConstantsAssumption DEF ConstantsAssumption

\* A finished run of a block records it as the child of the last recorded one.
LEMMA CompleteRunChain ==
  ASSUME TypeOK, Core, StartOrder, CompleteRun, runs[LastRun].kind = "connected"
  PROVE  ConnectedChain'
<1> DEFINE b == runs[LastRun].body
<1>1. /\ sq = "busy" /\ previous' = b /\ completed' = completed \cup {LastRun}
      /\ UNCHANGED <<runs, base, LastRun>>
  BY DEF CompleteRun, SqUnchanged, mainVars, LastRun
<1>2. /\ LastRun \in DOMAIN runs /\ LastRun \in Nat
      /\ b \in Blocks \ {Genesis} /\ Parent[b] = previous
  BY <1>1 DEF TypeOK, Core, ActiveRun, LastRun, Notification
<1>3. base # None /\ base \in Blocks /\ previous \in Blocks
  <2>1. None \notin Blocks
    BY ConstantsAssumption DEF ConstantsAssumption
  <2> QED  BY <1>1, <1>2, <2>1, ParentIsLower DEF TypeOK, StartOrder
<1>4. Recorded' = Recorded \cup {LastRun} /\ LastRun \notin Recorded
  BY <1>1 DEF Recorded, Core, ActiveRun
<1>5. /\ previous \in {base} \cup {runs[q].body : q \in Recorded}
      /\ \A r \in Recorded :
           /\ Parent[runs[r].body] \in {base} \cup {runs[q].body : q \in Recorded}
           /\ Height[base] < Height[runs[r].body]
           /\ Height[runs[r].body] <= Height[previous]
      /\ \A r, q \in Recorded : r < q => Height[runs[r].body] < Height[runs[q].body]
  BY <1>3 DEF Core, ConnectedChain
<1>6. \A r \in Recorded : r \in Nat /\ r < LastRun /\ Height[runs[r].body] \in Nat
  <2>1. \A r \in Recorded : r \in 1 .. LastRun /\ runs[r] \in Notification
    BY DEF Recorded, Core, RunHistory, TypeOK, LastRun
  <2>2. \A r \in Recorded : runs[r].body \in Blocks
    BY <2>1 DEF Recorded, Notification
  <2> QED  BY <1>2, <1>4, <2>1, <2>2, ConstantsAssumption DEF ConstantsAssumption
<1>7. /\ Height[base] \in Nat /\ Height[previous] \in Nat /\ Height[b] \in Nat
      /\ Height[b] = Height[previous] + 1
  BY <1>2, <1>3, ParentIsLower, ConstantsAssumption DEF ConstantsAssumption
<1>8. Height[base] <= Height[previous]
  BY <1>5, <1>6, <1>7
<1>9. \A r \in Recorded \cup {LastRun} :
        /\ Parent[runs[r].body] \in {base} \cup {runs[q].body : q \in Recorded \cup {LastRun}}
        /\ Height[base] < Height[runs[r].body]
        /\ Height[runs[r].body] <= Height[b]
  BY <1>2, <1>5, <1>6, <1>7, <1>8
<1>10. \A r, q \in Recorded \cup {LastRun} :
         r < q => Height[runs[r].body] < Height[runs[q].body]
  BY <1>2, <1>5, <1>6, <1>7
<1> HIDE DEF b
<1> QED  BY <1>1, <1>4, <1>9, <1>10 DEF ConnectedChain, b

LEMMA CompleteRunCore == TypeOK /\ Core /\ StartOrder /\ CompleteRun => Core'
<1> SUFFICES ASSUME TypeOK, Core, StartOrder, CompleteRun PROVE Core'
  OBVIOUS
<1>1. /\ sq = "busy" /\ GroupDone /\ group = Len(Groups(runs[LastRun]))
      /\ sq' = "idle" /\ completed' = completed \cup {LastRun}
      /\ UNCHANGED <<live, runs, abandoned, returned, base, LastRun>>
  BY DEF CompleteRun, SqUnchanged, mainVars, LastRun
<1>2. LastRun \in 1 .. LastRun
  BY <1>1 DEF TypeOK, Core, ActiveRun, LastRun
<1>3. \A i \in live : i.run \in abandoned
  BY <1>1 DEF Core, LiveCalls, RunsSerial, GroupDone
<1>4. RunHistory' /\ ActiveRun' /\ LiveCalls' /\ RunsSerial'
  BY <1>1, <1>2, <1>3 DEF Core, RunHistory, ActiveRun, LiveCalls, RunsSerial
<1>5. ReturnedCalls' /\ GroupOrder'
  BY <1>1 DEF Core, ReturnedCalls, GroupOrder, AllReturned
<1>6. RecordedIsHandled'
  <2>1. DOMAIN Groups(runs[LastRun]) = 1 .. group
    BY <1>1, ConstantsAssumption DEF ConstantsAssumption, Groups
  <2>2. \A g \in DOMAIN Groups(runs[LastRun]) : AllReturned(LastRun, g)
    BY <1>1, <2>1, GroupDoneReturned
  <2>3. \A r \in completed \cup {LastRun} : \A g \in DOMAIN Groups(runs[r]) : AllReturned(r, g)
    BY <2>2 DEF Core, RecordedIsHandled
  <2> QED  BY <1>1, <2>3 DEF RecordedIsHandled, AllReturned
<1>7. ConnectedChain'
  <2>1. CASE runs[LastRun].kind = "connected"
    BY <2>1, CompleteRunChain
  <2>2. CASE runs[LastRun].kind # "connected"
    <3>1. Recorded' = Recorded /\ previous' = previous
      BY <1>1, <2>2 DEF Recorded, CompleteRun
    <3> QED  BY <1>1, <3>1 DEF Core, ConnectedChain
  <2> QED  BY <2>1, <2>2
<1> QED  BY <1>4, <1>5, <1>6, <1>7 DEF Core

LEMMA DeadlineCore == TypeOK /\ Core /\ Deadline => Core'
<1> SUFFICES ASSUME TypeOK, Core, Deadline PROVE Core'
  OBVIOUS
<1>1. /\ sq = "busy" /\ sq' = "idle" /\ abandoned' = abandoned \cup {LastRun}
      /\ UNCHANGED <<live, runs, completed, returned, previous, base, LastRun>>
  BY DEF Deadline, SqUnchanged, mainVars, LastRun
<1>2. LastRun \in 1 .. LastRun
  BY <1>1 DEF TypeOK, Core, ActiveRun, LastRun
<1>3. RunHistory' /\ ActiveRun' /\ LiveCalls' /\ RunsSerial'
  BY <1>1, <1>2 DEF Core, RunHistory, ActiveRun, LiveCalls, RunsSerial
<1>4. ReturnedCalls' /\ GroupOrder' /\ RecordedIsHandled'
  BY <1>1 DEF Core, ReturnedCalls, GroupOrder, RecordedIsHandled, AllReturned
<1>5. ConnectedChain'
  BY <1>1 DEF Core, ConnectedChain, Recorded
<1> QED  BY <1>3, <1>4, <1>5 DEF Core

LEMMA QueueCore == TypeOK /\ Core /\ StartOrder /\ superQueue => Core'
<1> SUFFICES ASSUME TypeOK, Core, StartOrder, superQueue PROVE Core'
  OBVIOUS
<1>1. CASE SuperQueueExit
  <2>1. sq = "idle" /\ sq' = "exit" /\ UNCHANGED <<group, live, runVars, previous, base, LastRun>>
    BY <1>1 DEF SuperQueueExit, SqUnchanged, mainVars, runVars, LastRun
  <2>2. RunHistory' /\ ActiveRun' /\ LiveCalls' /\ ReturnedCalls' /\ RunsSerial'
    BY <2>1 DEF Core, RunHistory, ActiveRun, LiveCalls, ReturnedCalls, RunsSerial, runVars
  <2>3. GroupOrder' /\ RecordedIsHandled' /\ ConnectedChain'
    BY <2>1 DEF Core, GroupOrder, RecordedIsHandled, AllReturned, ConnectedChain, Recorded, runVars
  <2> QED  BY <2>2, <2>3 DEF Core
<1>2. CASE DropBlock
  BY <1>2, QuietCore DEF DropBlock, SqUnchanged, runState, mainVars, runVars
<1> QED
  BY <1>1, <1>2, BeginRunCore, StartGroupCore, CompleteRunCore, DeadlineCore DEF superQueue

\* The order of main's start.
LEMMA StartOrderKept == TypeOK /\ StartOrder /\ [Next]_vars => StartOrder'
<1> SUFFICES ASSUME TypeOK, StartOrder, [Next]_vars PROVE StartOrder'
  OBVIOUS
<1> USE DEF StartOrder, mainVars, runVars
<1>1. CASE Node
  BY <1>1 DEF Node, NodeConnect, NodeDisconnect, NodeAcceptTx, NodeReply, LinkDrop, LinkUp
<1>2. CASE Reader
  BY <1>2 DEF Reader, ReadNotification, onBlockDisconnected, Deposit, ReadHandlerReply,
     ReadListenReply, ReaderStop
<1>3. CASE MainThread
  <2>1. None \notin Blocks
    BY ConstantsAssumption DEF ConstantsAssumption
  <2> QED
    BY <1>3, <2>1 DEF TypeOK, MainThread, SetBestBlock, ListenCall, StartupFails,
       Interrupt, WaitReturns, ShutdownClient, Exit
<1>4. CASE superQueue
  BY <1>4 DEF superQueue, BeginRun, DropBlock, StartGroup, CompleteRun, Deadline,
     SuperQueueExit, SqUnchanged
<1>5. CASE HandlerStep
  BY <1>5 DEF HandlerStep, HandlerCall, HandlerReturn
<1>6. CASE UNCHANGED vars
  BY <1>6 DEF vars
<1> QED  BY <1>1, <1>2, <1>3, <1>4, <1>5, <1>6 DEF Next

LEMMA InitIndInv == Init => IndInv
<1> SUFFICES ASSUME Init PROVE IndInv
  OBVIOUS
<1>1. LastRun = 0 /\ live = {} /\ returned = {} /\ completed = {} /\ abandoned = {}
  BY DEF Init, LastRun
<1> QED
  BY <1>1, InitTypeOK DEF Init, IndInv, RunHistory, ActiveRun, LiveCalls, ReturnedCalls,
     StartOrder, GroupOrder, RunsSerial, RecordedIsHandled, ConnectedChain

LEMMA IndInvKept == IndInv /\ [Next]_vars => IndInv'
<1> SUFFICES ASSUME IndInv, [Next]_vars PROVE IndInv'
  OBVIOUS
<1>1. TypeOK /\ Core /\ StartOrder /\ ActiveRun
  BY DEF IndInv, Core
<1>2. StartOrder'
  BY <1>1, StartOrderKept
<1>3. CASE UNCHANGED vars
  <2>1. TypeOK'
    BY <1>1, <1>3 DEF TypeOK, vars, nodeVars, linkVars, mainVars, runVars
  <2>2. Core'
    BY <1>1, <1>3, QuietCore DEF vars, runState, mainVars, runVars
  <2> QED  BY <1>2, <2>1, <2>2 DEF IndInv, Core
<1>4. CASE Next
  <2>1. TypeOK'
    BY <1>1, <1>4, NodeTypeOK, ReaderTypeOK, MainTypeOK, QueueTypeOK, HandlerTypeOK DEF Next
  <2>2. Core'
    BY <1>1, <1>4, NodeCore, ReaderCore, MainCore, QueueCore, HandlerCore DEF Next
  <2> QED  BY <1>2, <2>1, <2>2 DEF IndInv, Core
<1> QED  BY <1>3, <1>4

\* The inductive invariant holds in every state of every behaviour.
THEOREM Inductive == Spec => []IndInv
<1> QED  BY InitIndInv, IndInvKept, PTL DEF Spec

\* Type correctness.
THEOREM TypeCorrect == Spec => []TypeOK
<1>1. IndInv => TypeOK
  BY DEF IndInv
<1> QED  BY <1>1, Inductive, PTL

\* Groups are run in the order of their registration, also across deadlines.
THEOREM GroupsInOrder == Spec => []GroupOrder
<1>1. IndInv => GroupOrder
  BY DEF IndInv
<1> QED  BY <1>1, Inductive, PTL

\* Handlers of two messages overlap only after a deadline.
THEOREM SerialRuns == Spec => []RunsSerial
<1>1. IndInv => RunsSerial
  BY DEF IndInv
<1> QED  BY <1>1, Inductive, PTL

\* SetPreviousBlock records only blocks that every handler has returned from.
THEOREM NothingRecordedEarly == Spec => []RecordedIsHandled
<1>1. IndInv => RecordedIsHandled
  BY DEF IndInv
<1> QED  BY <1>1, Inductive, PTL

\* The recorded blocks form one chain that ends in notifier.previous.
THEOREM OneChain == Spec => []ConnectedChain
<1>1. IndInv => ConnectedChain
  BY DEF IndInv
<1> QED  BY <1>1, Inductive, PTL

-----------------------------------------------------------------------------
(* The deadlock on a full anyQ. *)

LEMMA WaitStep ==
  ASSUME CircularWait, Next, ~CircularWait'
  PROVE  LastRun \in abandoned' \/ client' # "open"
<1>1. /\ hand # <<>> /\ Len(anyQ) = QueueCap /\ sq = "busy" /\ client = "open"
      /\ \E i \in live : i.run = LastRun /\ i.g = group /\ i.st = "rpc"
  BY DEF CircularWait
<1> DEFINE rest == <<hand, anyQ, sq, client, live, LastRun, group>>
<1>2. ASSUME UNCHANGED rest PROVE FALSE
  BY <1>1, <1>2 DEF CircularWait
<1> USE DEF mainVars, runVars, nodeVars, linkVars, LastRun
<1>3. CASE Node
  BY <1>2, <1>3 DEF Node, NodeConnect, NodeDisconnect, NodeAcceptTx, NodeReply, LinkDrop, LinkUp
<1>4. CASE Reader
  <2>1. ~Take /\ ~(Len(anyQ) < QueueCap)
    BY <1>1, ConstantsAssumption DEF ConstantsAssumption, Take
  <2> QED
    BY <1>1, <1>4, <2>1 DEF Reader, ReadNotification, onBlockDisconnected, Deposit,
       ReadHandlerReply, ReadListenReply, ReaderStop
<1>5. CASE MainThread
  <2>1. CASE ShutdownClient
    BY <2>1 DEF ShutdownClient
  <2>2. CASE ~ShutdownClient
    BY <1>2, <1>5, <2>2 DEF MainThread, SetBestBlock, ListenCall, StartupFails, Interrupt,
       WaitReturns, Exit
  <2> QED  BY <2>1, <2>2
<1>6. CASE superQueue
  <2>1. ~GroupDone
    BY <1>1 DEF GroupDone
  <2> QED
    BY <1>1, <1>6, <2>1 DEF superQueue, BeginRun, DropBlock, StartGroup, CompleteRun,
       Deadline, SuperQueueExit
<1>7. CASE HandlerStep
  <2>1. PICK i \in live : i.run = LastRun /\ i.g = group /\ i.st = "rpc"
    BY <1>1
  <2>2. PICK j \in live : HandlerCall(j) \/ HandlerReturn(j)
    BY <1>7 DEF HandlerStep
  <2>3. i \in live' /\ UNCHANGED <<hand, anyQ, sq, client, LastRun, group>>
    BY <2>1, <2>2 DEF HandlerCall, HandlerReturn
  <2> QED  BY <1>1, <2>1, <2>3 DEF CircularWait
<1> QED  BY <1>3, <1>4, <1>5, <1>6, <1>7 DEF Next

\* Once the reader, superQueue and a handler wait for each other, only the
\* expiry of the deadline or the shutdown of the client gets them going again.
THEOREM WaitBrokenByDeadline == Spec => OnlyDeadlineBreaksWait
<1>1. [Next]_vars => [CircularWait /\ ~CircularWait' =>
                        LastRun \in abandoned' \/ client' # "open"]_vars
  BY WaitStep
<1> QED  BY <1>1, PTL DEF Spec, OnlyDeadlineBreaksWait

-----------------------------------------------------------------------------
(* The pipeline implements ChainFollower. *)

abstractVars == <<previous, Given, Handled>>

LEMMA BeginRunGives ==
  ASSUME IndInv, BeginRun
  PROVE  Follower!Next \/ UNCHANGED abstractVars
<1> DEFINE m == Head(anyQ)
<1>1. /\ m \in Notification /\ runs' = Append(runs, m) /\ sq = "idle"
      /\ UNCHANGED <<previous, returned>>
      /\ m.kind = "connected" => Parent[m.body] = previous
  BY DEF IndInv, BeginRun, TypeOK, SqUnchanged
<1>2. /\ LastRun \in Nat /\ DOMAIN runs = 1 .. LastRun
      /\ DOMAIN runs' = (1 .. LastRun) \cup {LastRun + 1}
      /\ runs'[LastRun + 1] = m /\ \A r \in 1 .. LastRun : runs'[r] = runs[r]
  BY <1>1 DEF IndInv, LastRun, TypeOK
<1>3. BlockRuns' = BlockRuns \cup (IF m.kind = "connected" THEN {LastRun + 1} ELSE {})
  BY <1>2 DEF BlockRuns
<1>4. Given' = Given \cup (IF m.kind = "connected" THEN {m.body} ELSE {})
  BY <1>2, <1>3 DEF Given, BlockRuns
<1>5. Handled' = Handled
  <2>1. \A c \in returned : c[3] \in 1 .. LastRun
    BY DEF IndInv, ReturnedCalls
  <2>2. {d \in returned' : d[3] \in BlockRuns'} = {d \in returned : d[3] \in BlockRuns}
    BY <1>1, <1>2, <1>3, <2>1
  <2> QED  BY <1>2, <2>1, <2>2 DEF Handled
<1>6. CASE m.kind = "connected"
  <2>1. previous # None /\ m.body \in Blocks
    <3>1. None \notin Blocks /\ m.body \in Blocks \ {Genesis}
      BY <1>1, <1>6, ConstantsAssumption DEF ConstantsAssumption, Notification
    <3> QED  BY <1>1, <1>6, <3>1, ParentIsLower
  <2> QED  BY <1>1, <1>4, <1>5, <1>6, <2>1 DEF Follower!Next, Follower!Give
<1>7. CASE m.kind # "connected"
  BY <1>1, <1>4, <1>5, <1>7 DEF abstractVars
<1> QED  BY <1>6, <1>7

LEMMA ReturnHandles ==
  ASSUME IndInv, NEW i \in live, HandlerReturn(i)
  PROVE  Follower!Next \/ UNCHANGED abstractVars
<1>1. returned' = returned \cup {<<i.h, i.g, i.run>>} /\ UNCHANGED <<previous, runs>>
  BY DEF HandlerReturn, CallId
<1>2. UNCHANGED <<BlockRuns, Given>>
  BY <1>1 DEF BlockRuns, Given
<1>3. CASE i.run \in BlockRuns
  <2> DEFINE ofBlocks(R) == {d \in R : d[3] \in BlockRuns}
             image(R) == {<<c[1], runs[c[3]].body>> : c \in R}
  <2>0. ofBlocks(returned \cup {<<i.h, i.g, i.run>>})
          = ofBlocks(returned) \cup {<<i.h, i.g, i.run>>}
    BY <1>3
  <2>1. Handled' = Handled \cup {<<i.h, runs[i.run].body>>}
    <3>1. Handled = image(ofBlocks(returned)) /\ Handled' = image(ofBlocks(returned'))
      BY <1>1, <1>2 DEF Handled
    <3>2. ASSUME NEW R, NEW call, call[1] = i.h, call[3] = i.run
          PROVE  image(R \cup {call}) = image(R) \cup {<<i.h, runs[i.run].body>>}
      BY <3>2
    <3>3. <<i.h, i.g, i.run>>[1] = i.h /\ <<i.h, i.g, i.run>>[3] = i.run
      OBVIOUS
    <3> HIDE DEF image, ofBlocks
    <3> QED  BY <1>1, <2>0, <3>1, <3>2, <3>3
  <2>2. i.h \in BlockHandlers
    BY <1>3 DEF IndInv, LiveCalls, BlockRuns, Groups, BlockHandlers
  <2>3. runs[i.run].body \in Given /\ runs[i.run].body \in Blocks
    BY <1>3 DEF Given, BlockRuns, IndInv, TypeOK, Notification
  <2> QED  BY <1>1, <1>2, <2>1, <2>2, <2>3 DEF Follower!Next, Follower!Handle
<1>4. CASE i.run \notin BlockRuns
  <2>1. Handled' = Handled
    BY <1>1, <1>2, <1>4 DEF Handled
  <2> QED  BY <1>1, <1>2, <2>1 DEF abstractVars
<1> QED  BY <1>3, <1>4

LEMMA CompleteAdvances ==
  ASSUME IndInv, CompleteRun
  PROVE  Follower!Next \/ UNCHANGED abstractVars
<1>1. /\ sq = "busy" /\ GroupDone /\ group = Len(Groups(runs[LastRun]))
      /\ UNCHANGED <<runs, returned, BlockRuns, Given, Handled>>
  BY DEF CompleteRun, BlockRuns, Given, Handled
<1>2. CASE runs[LastRun].kind = "connected"
  <2> DEFINE b == runs[LastRun].body
  <2>1. /\ LastRun \in BlockRuns /\ b \in Blocks /\ Parent[b] = previous /\ previous' = b
    BY <1>1, <1>2 DEF IndInv, TypeOK, ActiveRun, CompleteRun, BlockRuns, LastRun, Notification
  <2>2. ASSUME NEW h \in BlockHandlers PROVE <<h, b>> \in Handled
    <3>1. PICK g \in DOMAIN BlockGroups : h \in BlockGroups[g]
      BY DEF BlockHandlers
    <3>2. Groups(runs[LastRun]) = BlockGroups /\ g \in 1 .. group
      BY <1>1, <1>2, ConstantsAssumption DEF ConstantsAssumption, Groups
    <3>3. AllReturned(LastRun, g)
      BY <1>1, <3>2, GroupDoneReturned DEF IndInv, Core
    <3>4. <<h, g, LastRun>> \in returned
      BY <3>1, <3>2, <3>3 DEF AllReturned
    <3> QED  BY <2>1, <3>4 DEF Handled
  <2>3. b \in Given
    BY <2>1 DEF Given
  <2> QED  BY <1>1, <2>1, <2>2, <2>3 DEF Follower!Next, Follower!Advance
<1>3. CASE runs[LastRun].kind # "connected"
  BY <1>1, <1>3 DEF CompleteRun, abstractVars
<1> QED  BY <1>2, <1>3

\* Every step of the pipeline is a step of ChainFollower or changes nothing in it.
LEMMA StepFollows ==
  ASSUME IndInv, [Next]_vars
  PROVE  [Follower!Next]_<<previous, Given, Handled>>
<1> USE DEF abstractVars
<1>1. ASSUME UNCHANGED <<previous, runs, returned>> PROVE UNCHANGED abstractVars
  BY <1>1 DEF BlockRuns, Given, Handled
<1> USE DEF mainVars, runVars
<1>2. CASE Node
  BY <1>1, <1>2 DEF Node, NodeConnect, NodeDisconnect, NodeAcceptTx, NodeReply, LinkDrop, LinkUp
<1>3. CASE Reader
  BY <1>1, <1>3 DEF Reader, ReadNotification, onBlockDisconnected, Deposit,
     ReadHandlerReply, ReadListenReply, ReaderStop
<1>4. CASE MainThread
  <2>1. CASE SetBestBlock
    <3>1. UNCHANGED <<Given, Handled>> /\ previous = None /\ previous' = tip /\ tip \in Blocks
      BY <2>1 DEF SetBestBlock, IndInv, StartOrder, TypeOK, BlockRuns, Given, Handled
    <3> QED  BY <3>1 DEF Follower!Next, Follower!Start
  <2>2. CASE ~SetBestBlock
    BY <1>1, <1>4, <2>2 DEF MainThread, ListenCall, StartupFails, Interrupt,
       WaitReturns, ShutdownClient, Exit
  <2> QED  BY <2>1, <2>2
<1>5. CASE superQueue
  <2>1. CASE BeginRun
    BY <2>1, BeginRunGives
  <2>2. CASE CompleteRun
    BY <2>2, CompleteAdvances
  <2>3. CASE DropBlock \/ StartGroup \/ Deadline \/ SuperQueueExit
    <3>1. UNCHANGED <<previous, runs, returned>>
      BY <2>3 DEF DropBlock, StartGroup, Deadline, SuperQueueExit
    <3> QED  BY <1>1, <3>1
  <2> QED  BY <1>5, <2>1, <2>2, <2>3 DEF superQueue
<1>6. CASE HandlerStep
  <2>1. PICK i \in live : HandlerCall(i) \/ HandlerReturn(i)
    BY <1>6 DEF HandlerStep
  <2>2. CASE HandlerCall(i)
    BY <1>1, <2>2 DEF HandlerCall
  <2>3. CASE HandlerReturn(i)
    BY <2>3, ReturnHandles
  <2> QED  BY <2>1, <2>2, <2>3
<1>7. CASE UNCHANGED vars
  BY <1>1, <1>7 DEF vars
<1> QED  BY <1>2, <1>3, <1>4, <1>5, <1>6, <1>7 DEF Next

\* The pipeline implements its abstract specification.
THEOREM Refinement == Spec => Follows
<1>1. Init => Follower!Init
  BY DEF Init, Follower!Init, Given, Handled, BlockRuns
<1>2. IndInv /\ [Next]_vars => [Follower!Next]_(Follower!vars)
  BY StepFollows DEF Follower!vars
<1> QED  BY <1>1, <1>2, Inductive, PTL DEF Spec, Follows, Follower!Spec
=============================================================================
