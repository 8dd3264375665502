------------------------------ MODULE MCLiveness ------------------------------
(***************************************************************************)
(* What must happen in the end, in one instance for TLC: the alerts of      *)
(* OfflineNotifier on a schedule, the commands of AgentEvents over the POST *)
(* fallback, and the upgrade of SchemaRebuild.  They share no state: a      *)
(* behaviour is one of the component that its first state chooses, the      *)
(* others rest, and only the fairness of that component is assumed.         *)
(***************************************************************************)
EXTENDS MCOfflineNotifier, SchemaRebuild

CONSTANTS c1, c2        \* commands

VARIABLES
    component,  \* the component of the behaviour
    token, gate, registry, queue, queues, order, dispatch, socket, handler, wire, call,
    agent, executed, written, forgotten, faults

eventVars == <<token, gate, registry, queue, queues, order, dispatch, socket, handler, wire,
               call, agent, executed, written, forgotten, faults>>

\* Two commands, one lost call, and one socket that comes up.
Events == INSTANCE AgentEvents WITH
    Commands <- {c1, c2}, Key <- [c \in {c1, c2} |-> 0], NoKey <- 0,
    QueueLimit <- 2, ReportTake <- 1, MaxConns <- 1, MaxRotations <- 0, MayPost <- TRUE,
    FaultKinds <- {"call"}, MaxFaults <- 1

\* Two commands and a restart of the agent, whose dials fail.
Restarted == INSTANCE AgentEvents WITH
    Commands <- {c1, c2}, Key <- [c \in {c1, c2} |-> 0], NoKey <- 0,
    QueueLimit <- 2, ReportTake <- 1, MaxConns <- 1, MaxRotations <- 0, MayPost <- TRUE,
    FaultKinds <- {"restart"}, MaxFaults <- 1

OneInit ==
    /\ Init /\ Events!Init /\ SchemaInit
    /\ component \in {"alerts", "events", "restarted", "upgrade"}
    /\ component # "alerts" => windows = {}
    /\ component # "upgrade" => driver = "sqlite" /\ live = NormalizedTables

OneNext ==
    /\ UNCHANGED component
    /\ \/ component = "alerts" /\ Next /\ UNCHANGED <<eventVars, schemaVars>>
       \/ /\ \/ component = "events" /\ Events!Next
             \/ component = "restarted" /\ Restarted!Next /\ UNCHANGED socket
          /\ UNCHANGED <<vars, schemaVars>>
       \/ component = "upgrade" /\ SchemaNext /\ UNCHANGED <<vars, eventVars>>

allVars == <<vars, eventVars, schemaVars, component>>

\* Fairness, SchemaFairness and the Fairness of AgentEvents, each for its
\* component only.
AlertsFair ==
    /\ SF_vars(component = "alerts" /\ Tick)
    /\ WF_vars(component = "alerts" /\ Deliver)
    /\ \A c \in Conns : /\ WF_vars(component = "alerts" /\ OnlineGoroutine(c))
                        /\ WF_vars(component = "alerts" /\ OfflineGoroutine(c))
                        /\ WF_vars(component = "alerts" /\ PostExpire(c))
    /\ \A s \in Sweepers : WF_vars(component = "alerts" /\ Sweep(s))

Commanding == component \in {"events", "restarted"}

EventsFair ==
    /\ WF_eventVars(Commanding /\ Events!Handler(1))
    /\ WF_eventVars(Commanding /\ Events!ReadFrame(1))
    /\ WF_eventVars(Commanding /\ Events!ReportAdmit)
    /\ WF_eventVars(Commanding /\ Events!PullAdmit)
    /\ WF_eventVars(Commanding /\ Events!PullCheck)
    /\ WF_eventVars(Commanding /\ Events!PullWake)
    /\ WF_eventVars(Commanding /\ Events!EnterPost)
    /\ \A k \in {"pull", "report"} : /\ WF_eventVars(Commanding /\ Events!CallSend(k))
                                /\ WF_eventVars(Commanding /\ Events!CallReply(k))
                                /\ WF_eventVars(Commanding /\ Events!CallReceive(k))

UpgradeFair ==
    /\ WF_schemaVars(component = "upgrade" /\ RunStep)
    /\ WF_schemaVars(component = "upgrade" /\ (OfferGuide \/ OpenStore \/ GuideEnds))
    /\ WF_schemaVars(component = "upgrade" /\ (StartRebuild \/ StartDiscard))

OneSpec == OneInit /\ [][OneNext]_allVars /\ AlertsFair /\ EventsFair /\ UpgradeFair

\* AgentEvents: a queued command is eventually run.
QueuedIsRun == Events!QueuedIsRun

\* SchemaRebuild: a store that a rebuild can read is upgraded.
UpgradeHappens == component = "upgrade" => UpgradeFinishes
=============================================================================
