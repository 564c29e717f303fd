------------------------------- MODULE Services -------------------------------
(***************************************************************************)
(* What the process does beside its tables and the notifier, under one     *)
(* specification: its own life from the configuration to the exit          *)
(* (Startup), the goroutines that this starts and that share a lock and    *)
(* the database connections (Collectors), and the parts that keep numbers  *)
(* for a page (Calculators).  They meet only in what Startup hands to the  *)
(* other two: a collector begins as the worker of a part, a calculator as  *)
(* the Rpc step of its set-up, and both end with the process.  So a        *)
(* behaviour follows one of them: service names it.                        *)
(***************************************************************************)
EXTENDS Collectors, Startup, Calculators

CONSTANT Services

ASSUME ServicesAssumption ==
  /\ Services \subseteq {"process", "collectors", "calculator"}
  /\ {} \in Enabled /\ 1 \in Earlier

VARIABLE service   \* the one that is followed

\* What does not belong to it starts in one state.
ServicesInit ==
  /\ service \in Services
  /\ Init /\ LifeInit /\ CalcInit
  /\ service = "process" \/ ( /\ cfg = (CHOOSE s \in Settings : TRUE)
                             /\ \A i \in Instances : exist[i] = {} )
  /\ service = "collectors" \/ (ticks = 0 /\ \A p \in Procs : pc[p] = "ended")
  /\ service = "calculator" \/ calc = CHOOSE c \in Calcs : TRUE

\* A step of each of them.
ProcessStep(A) == service = "process" /\ A /\ UNCHANGED <<service, vars, calcVars>>
CollectorsStep(A) == service = "collectors" /\ A /\ UNCHANGED <<service, lifeVars, calcVars>>
CalculatorStep(A) == service = "calculator" /\ A /\ UNCHANGED <<service, vars, lifeVars>>

ServicesNext == ProcessStep(LifeNext) \/ CollectorsStep(Next) \/ CalculatorStep(CalcNext)

servicesVars == <<service, vars, lifeVars, calcVars>>

\* The fairness of the one that is followed.
ServicesFairness ==
  /\ \A i \in Instances :
       WF_servicesVars(ProcessStep(MainStep(i) \/ ShutdownServer(i) \/ BotEnds(i)))
  /\ \A p \in Procs :
       SF_servicesVars(CollectorsStep(alive /\ (Ready(p) \/ Works(p) \/ MarkBusyIfFree(p) \/ Takes(p))))
  /\ SF_servicesVars(CollectorsStep(alive /\ \E p \in Procs : Stops(p)))

ServicesSpec == ServicesInit /\ [][ServicesNext]_servicesVars /\ ServicesFairness

\* The type invariant of all of them.
ServicesTypeOK == TypeOK /\ LifeTypeOK /\ CalcTypeOK
=============================================================================
