------------------------------- MODULE Startup -------------------------------
(***************************************************************************)
(* The life of the process: main.go, director.go, and what New or Activate *)
(* of every part does to the database, the notifier and the web server     *)
(* before the process serves anything.  Several copies of the program run, *)
(* each with a database of its own; one may compare its blocks with the    *)
(* databases of others.                                                    *)
(*                                                                         *)
(* A part's set-up is the sequence of its steps that change something      *)
(* outside the part or that can fail; Program strings them together with   *)
(* the steps of _main, and the main goroutine walks through them while the *)
(* goroutines that earlier steps have started already run, the process is  *)
(* asked to stop, or is killed.  All that survives is the tables.          *)
(***************************************************************************)
EXTENDS Tables, SequencesExt

CONSTANTS
  Settings,    \* what may be configured: the copies, [parts, data, http, peers, bot, noHttp] each
  Earlier,     \* bound: how much of tableOrder the databases have at first
  MaxStarts,   \* bound: times a copy is started
  MaxMishaps   \* bound: steps that fail and processes that are killed

\* The copies, each with its own database.
Instances == UNION {DOMAIN s : s \in Settings}

ASSUME StartupAssumption ==
  /\ \A s \in Settings : \A i \in DOMAIN s : s[i].peers \subseteq DOMAIN s
  /\ Earlier \subseteq 1..(Len(tableOrder) + 1)
  /\ {MaxStarts, MaxMishaps} \subseteq Nat

VARIABLES
  cfg,       \* the settings
  exist,     \* exist[i]: the tables of its database
  process,   \* process[i]: what the copy has in memory; see Fresh
  starts,    \* times it has been started
  mishaps

lifeVars == <<cfg, exist, process, starts, mishaps>>

-----------------------------------------------------------------------------
(* The steps of each part's set-up, in their order.  A part that collects and shows data *)
(* has a flag for either, in c.data and c.http.                                          *)

When(flag, steps) == IF flag THEN steps ELSE <<>>

Stats(c) == <<"dbInstance", "AddTemplate", "AddRoute">>

Stakingreward(c) == <<"Rpc", "RegisterBlockHandlerGroup", "AddTemplate", "AddRoute">>

ChainParameters(c) == <<"AddTemplate", "AddRoute">>

NodeCharts(c) == <<"Rpc", "AddTemplate", "RegisterBlockHandlerGroup", "AddRoute">>

Attackcost(c) == <<"NeedsBot", "Rpc", "AddTemplate", "RegisterBlockHandlerGroup", "AddRoute">>

MempoolMonitor(c) == <<"dbInstance", "AddTemplate", "AddRoute", "go">>

PropagationSources(c) ==
  When(c.peers # {}, <<"PeerTables">>) \o
  <<"dbInstance", "AddTemplate", "AddRoute", "RegisterBlockHandlerGroup">>

Politeia(c) ==
  <<"Rpc", "AddTemplate", "RegisterBlockHandlerGroup">> \o
  When("proposals" \in c.http, <<"AddRoute", "AddTemplate">>) \o
  <<"NewProposalsDB", "go">>

NetsnapshotPages == <<"AddTemplate", "AddRoute">>

Netsnapshot(c) ==
  <<"dbInstance">> \o When("netsnapshot" \in c.data, <<"go">>) \o
  When("netsnapshot" \in c.http, NetsnapshotPages)

ExchangePages == <<"AddTemplate", "AddRoute">>

ExchangeHub(c) ==
  <<"dbInstance", "Collectors">> \o When("exchanges" \in c.http, ExchangePages) \o
  When("exchanges" \in c.data, <<"go">>)

CommstatsPages == <<"AddTemplate", "AddRoute">>

Commstats(c) ==
  <<"dbInstance">> \o When("commstats" \in c.data, <<"go">>) \o
  When("commstats" \in c.http, CommstatsPages)

PowPages == <<"AddTemplate", "AddRoute">>

PowPools(c) ==
  <<"dbInstance", "Collectors">> \o When("pow" \in c.data, <<"go">>) \o
  When("pow" \in c.http, PowPages)

VspPages == <<"AddTemplate", "AddRoute">>

VspCollector(c) ==
  <<"dbInstance">> \o When("vsp" \in c.data, <<"go">>) \o
  When("vsp" \in c.http, VspPages)

Treasury(c) == <<"AddRoute", "AddTemplate">>

Homepage(c) == <<"AddTemplate", "AddRoute">>

-----------------------------------------------------------------------------
(* The order of setupModules, within that of _main. *)

Steps(part, steps) == [k \in DOMAIN steps |-> [part |-> part, step |-> steps[k]]]

setupModules(c) ==
  LET Module(part, steps) == When(part \in c.parts, Steps(part, steps))
  IN Module("stats", Stats(c)) \o Module("stakingreward", Stakingreward(c)) \o
     Module("parameters", ChainParameters(c)) \o Module("charts", NodeCharts(c)) \o
     Module("attackcost", Attackcost(c)) \o Module("mempool", MempoolMonitor(c)) \o
     Module("propagation", PropagationSources(c)) \o Module("proposals", Politeia(c)) \o
     Module("netsnapshot", Netsnapshot(c)) \o Module("exchanges", ExchangeHub(c)) \o
     Module("commstats", Commstats(c)) \o Module("pow", PowPools(c)) \o
     Module("vsp", VspCollector(c)) \o Module("treasury", Treasury(c)) \o
     Steps("homepage", Homepage(c))

Programs ==
  [ c \in UNION {Range(s) : s \in Settings} |->
        Steps("main", <<"loadConfig", "connectNodeRPC", "GetCurrentNet">> \o
                      When(c.bot, <<"NewExchangeBot">>) \o <<"NewServer">>)
        \o setupModules(c)
        \o Steps("main", <<"GetBestBlock", "BuildRoute">> \o
                         When(~c.noHttp, <<"listenAndServeProto">>) \o <<"Listen", "Wait">>) ]

Program(i) == Programs[cfg[i]]

\* What a process has when it begins: where main is, whether dbInstance has opened the
\* database, the parts with block handlers, goroutines and routes, those whose routes the
\* web server knows, those whose set-up failed, the exchange bot, the web server, and
\* whether its context is cancelled.
Fresh ==
  [ at |-> 1, opened |-> FALSE, groups |-> {}, workers |-> {}, routes |-> {}, mux |-> {},
    failed |-> {}, bot |-> "none", web |-> "none", asked |-> FALSE ]

Down == [Fresh EXCEPT !.at = 0]

LifeInit ==
  /\ cfg \in Settings
  /\ \E n \in Earlier : exist = [i \in Instances |-> DOMAIN createTableScripts \cap Before(n)]
  /\ process = [i \in Instances |-> Down]
  /\ starts = [i \in Instances |-> 0] /\ mishaps = 0

-----------------------------------------------------------------------------
(* The main goroutine of copy i. *)

Up(i) == process[i].at > 0
Here(i) == Program(i)[process[i].at]
AtStep(i, step) == Up(i) /\ Here(i).step = step

\* main goes on, with the process as p.
GoesOn(i, p) == process' = [process EXCEPT ![i] = [p EXCEPT !.at = @ + 1]]

\* os.Exit, at the end or after an error.
Exits(i) == process' = [process EXCEPT ![i] = Down]

StartsUp(i) ==
  /\ i \in DOMAIN cfg /\ ~Up(i) /\ starts[i] < MaxStarts
  /\ process' = [process EXCEPT ![i] = Fresh]
  /\ starts' = [starts EXCEPT ![i] = @ + 1]
  /\ UNCHANGED <<cfg, exist, mishaps>>

Plain == {"loadConfig", "connectNodeRPC", "GetCurrentNet", "Rpc", "AddTemplate",
          "NewProposalsDB", "Collectors", "GetBestBlock", "Listen"}

\* A step that leaves nothing behind for the others.
PlainStep(i) ==
  /\ Up(i) /\ Here(i).step \in Plain
  /\ GoesOn(i, process[i])
  /\ UNCHANGED <<cfg, exist, starts, mishaps>>

NewExchangeBot(i) ==
  /\ AtStep(i, "NewExchangeBot")
  /\ GoesOn(i, [process[i] EXCEPT !.bot = "running"])
  /\ UNCHANGED <<cfg, exist, starts, mishaps>>

\* Without the template of its status page the server is made all the same.
NewServer(i) ==
  /\ AtStep(i, "NewServer")
  /\ GoesOn(i, [process[i] EXCEPT !.web = "made"])
  /\ UNCHANGED <<cfg, exist, starts, mishaps>>

\* Mutant: the tables are created only in an empty database.
Mutant_dbInstance(i) ==
  /\ AtStep(i, "dbInstance")
  /\ exist' = [exist EXCEPT ![i] = IF @ = {} THEN CreateTables(@) ELSE @]
  /\ GoesOn(i, [process[i] EXCEPT !.opened = TRUE])
  /\ UNCHANGED <<cfg, starts, mishaps>>

\* The database is opened, and its tables created, by the first part that asks for it.
dbInstance(i) ==
  /\ AtStep(i, "dbInstance")
  /\ exist' = [exist EXCEPT ![i] = IF process[i].opened THEN @ ELSE CreateTables(@)]
  /\ GoesOn(i, [process[i] EXCEPT !.opened = TRUE])
  /\ UNCHANGED <<cfg, starts, mishaps>>

\* The attack cost page refuses to be set up without the exchange bot.
NeedsBot(i) ==
  /\ AtStep(i, "NeedsBot")
  /\ IF process[i].bot = "none" THEN Exits(i) ELSE GoesOn(i, process[i])
  /\ UNCHANGED <<cfg, exist, starts, mishaps>>

\* Every peer must have its block and vote tables.
PeerTables(i) ==
  /\ AtStep(i, "PeerTables")
  /\ IF \A j \in cfg[i].peers : {"block", "vote"} \subseteq exist[j]
     THEN GoesOn(i, process[i]) ELSE Exits(i)
  /\ UNCHANGED <<cfg, exist, starts, mishaps>>

RegisterBlockHandlerGroup(i) ==
  /\ AtStep(i, "RegisterBlockHandlerGroup")
  /\ GoesOn(i, [process[i] EXCEPT !.groups = @ \cup {Here(i).part}])
  /\ UNCHANGED <<cfg, exist, starts, mishaps>>

AddRoute(i) ==
  /\ AtStep(i, "AddRoute")
  /\ GoesOn(i, [process[i] EXCEPT !.routes = @ \cup {Here(i).part}])
  /\ UNCHANGED <<cfg, exist, starts, mishaps>>

\* The goroutines of the part begin to work at once.
StartWorkers(i) ==
  /\ AtStep(i, "go")
  /\ GoesOn(i, [process[i] EXCEPT !.workers = @ \cup {Here(i).part}])
  /\ UNCHANGED <<cfg, exist, starts, mishaps>>

\* The routes added so far go to the server, which looks at no others; without the home
\* page one of them, any one, is also the root.
BuildRoute(i) ==
  /\ AtStep(i, "BuildRoute")
  /\ GoesOn(i, [process[i] EXCEPT !.mux = process[i].routes])
  /\ UNCHANGED <<cfg, exist, starts, mishaps>>

\* From here on the routes are served.
listenAndServeProto(i) ==
  /\ AtStep(i, "listenAndServeProto")
  /\ GoesOn(i, [process[i] EXCEPT !.web = "up"])
  /\ UNCHANGED <<cfg, exist, starts, mishaps>>

\* wg.Wait: for the exchange bot and for the graceful shutdown of the server.
WaitEnds(i) ==
  /\ AtStep(i, "Wait")
  /\ process[i].bot # "running" /\ process[i].web \notin {"up", "unbound"}
  /\ Exits(i)
  /\ UNCHANGED <<cfg, exist, starts, mishaps>>

MainStep(i) ==
  \/ PlainStep(i) \/ NewExchangeBot(i) \/ NewServer(i) \/ dbInstance(i) \/ NeedsBot(i)
  \/ PeerTables(i) \/ RegisterBlockHandlerGroup(i) \/ AddRoute(i) \/ StartWorkers(i)
  \/ BuildRoute(i) \/ listenAndServeProto(i) \/ WaitEnds(i)

-----------------------------------------------------------------------------
(* A step fails. *)

CanFail == Plain \cup {"NewExchangeBot", "dbInstance", "PeerTables", "listenAndServeProto"}

\* Where main goes on when the rest of the part it is in is left out.
NextPart(i) == Min({k \in process[i].at..Len(Program(i)) : Program(i)[k].part # Here(i).part})

\* The rest of a part is left out; asked tells whether the end is requested as well.
LeavesOut(i, ask) ==
  process' = [process EXCEPT ![i] =
    [process[i] EXCEPT !.at = NextPart(i), !.asked = @ \/ ask, !.failed = @ \cup {Here(i).part}]]

\* Mutant: a server that cannot be bound does not ask for the end.
Mutant_Unbound(i) ==
  CASE Here(i).part = "homepage"            -> LeavesOut(i, FALSE)
    [] Here(i).part = "proposals"           -> LeavesOut(i, TRUE)
    [] Here(i).step = "NewExchangeBot"      -> GoesOn(i, process[i])
    [] Here(i).step = "listenAndServeProto" -> GoesOn(i, [process[i] EXCEPT !.web = "unbound"])
    [] OTHER                                -> Exits(i)

\* Proposals ask for the end of the process, but the set-up goes on.  The home page and
\* the exchange bot are dispensable.  Without a port the server only asks for the end.
\* Everything else ends the process.
OnError(i) ==
  CASE Here(i).part = "homepage"            -> LeavesOut(i, FALSE)
    [] Here(i).part = "proposals"           -> LeavesOut(i, TRUE)
    [] Here(i).step = "NewExchangeBot"      -> GoesOn(i, process[i])
    [] Here(i).step = "listenAndServeProto" ->
         GoesOn(i, [process[i] EXCEPT !.web = "unbound", !.asked = TRUE])
    [] OTHER                                -> Exits(i)

\* A failed CreateTables rolls its transaction back.
StepFails(i) ==
  /\ mishaps < MaxMishaps /\ Up(i) /\ Here(i).step \in CanFail
  /\ mishaps' = mishaps + 1
  /\ OnError(i)
  /\ UNCHANGED <<cfg, exist, starts>>

-----------------------------------------------------------------------------
(* Beside the main goroutine. *)

\* A signal, at any time.
Asked(i) ==
  /\ Up(i) /\ ~process[i].asked
  /\ process' = [process EXCEPT ![i].asked = TRUE]
  /\ UNCHANGED <<cfg, exist, starts, mishaps>>

\* server.Shutdown waits for the requests in progress; then wg.Done.
ShutdownServer(i) ==
  /\ process[i].asked /\ process[i].web \in {"up", "unbound"}
  /\ process' = [process EXCEPT ![i].web = "closed"]
  /\ UNCHANGED <<cfg, exist, starts, mishaps>>

\* The bot of dcrdata sees that the context is done.
BotEnds(i) ==
  /\ process[i].asked /\ process[i].bot = "running"
  /\ process' = [process EXCEPT ![i].bot = "stopped"]
  /\ UNCHANGED <<cfg, exist, starts, mishaps>>

\* The process is killed, or its snapshot taker calls os.Exit for want of an address book.
Killed(i) ==
  /\ mishaps < MaxMishaps /\ Up(i)
  /\ mishaps' = mishaps + 1
  /\ Exits(i)
  /\ UNCHANGED <<cfg, exist, starts>>

LifeNext ==
  \E i \in Instances :
    \/ StartsUp(i) \/ MainStep(i) \/ StepFails(i) \/ Asked(i)
    \/ ShutdownServer(i) \/ BotEnds(i) \/ Killed(i)

\* The node and the database answer or fail, the handlers of requests in progress
\* return, and the bot heeds its context.
LifeFairness ==
  \A i \in Instances :
    /\ WF_lifeVars(MainStep(i)) /\ WF_lifeVars(ShutdownServer(i)) /\ WF_lifeVars(BotEnds(i))

LifeSpec == LifeInit /\ [][LifeNext]_lifeVars /\ LifeFairness

-----------------------------------------------------------------------------
(* Properties *)

OnDatabase == {"stats", "mempool", "propagation", "netsnapshot", "exchanges", "commstats",
               "pow", "vsp"}

\* The type invariant.
LifeTypeOK ==
  /\ \A i \in DOMAIN cfg :
       /\ exist[i] \subseteq DOMAIN createTableScripts
       /\ process[i].at \in 0..Len(Program(i))
       /\ process[i].failed \cup process[i].groups \cup process[i].workers \subseteq cfg[i].parts \cup {"homepage"}
  /\ mishaps \in 0..MaxMishaps

\* Nothing works on what is not there.  Whatever is registered, running or routed for a
\* part with tables finds all of them, in every earlier schema and after every failure
\* and restart of the set-up; blocks are only compared with peers that keep blocks and
\* votes; every route is served, and pages of a part whose set-up failed only while the
\* process ends.
PartsReady ==
  \A i \in DOMAIN cfg :
    LET p == process[i] IN
    /\ (p.groups \cup p.workers \cup p.routes) \cap OnDatabase # {} =>
         exist[i] = DOMAIN createTableScripts
    /\ "propagation" \in p.groups =>
         \A j \in cfg[i].peers : {"block", "vote"} \subseteq exist[j]
    /\ p.web = "up" => p.mux = p.routes /\ (p.mux \cap p.failed # {} => p.asked)

\* A process that is asked to end, by a signal at any point of its set-up, by a part that
\* failed or by a server without a port, ends.
EndsWhenAsked ==
  \A i \in Instances : process[i].asked \/ process[i].web = "unbound" ~> ~Up(i)
=============================================================================
