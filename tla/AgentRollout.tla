----------------------------- MODULE AgentRollout -----------------------------
(***************************************************************************)
(* Which version one node's agent runs: the operator's rollouts             *)
(* (web/rpc/jsonrpc/admin.agentupdate.go), the target the panel persists    *)
(* (database/clients/client.go) and sends again to a node that connects     *)
(* (web/api/client/report_v2.go), and the agent's updates                   *)
(* (agent/update/target.go, agent/update/update.go).                        *)
(*                                                                          *)
(* The agent keeps its target in memory, installs in goroutines of their    *)
(* own, and exits after an install to be started as what is on disk.  A     *)
(* rollout reads, saves and dispatches in steps, while handshakes of the    *)
(* same node read the row, write it and settle a pending clear in theirs.   *)
(*                                                                          *)
(* Versions are the releases in order; 0 is the empty target.  The node has *)
(* no POST presence here (AgentEvents has both transports), and no admission *)
(* fails but for a socket that was replaced.                                *)
(***************************************************************************)
EXTENDS Naturals, Sequences

CONSTANTS
    MaxVersion,   \* bound: releases that are ever published
    Deployments,  \* the agent's flags: [auto: ~DisableAutoUpdate,
                  \* default: AGENT_TARGET_VERSION]
    MaxRolls,     \* bound: calls of rollAgentUpdate
    MaxLinks,     \* bound: sockets at a time; their names are used again
    MaxInstalls,  \* bound: update goroutines started by events at a time
    MaxSetbacks   \* bound: failed queries, uploads and installs, and deaths

NoTarget == 0
Versions == 1..MaxVersion
Targets == {NoTarget} \cup Versions
Rolls == 1..MaxRolls
Links == 1..MaxLinks
NoLink == 0
Updates == [roll : Rolls, target : Targets, turn : Rolls]
Installers == 0..MaxInstalls  \* 0: main and the ticker's loop, one after the other

ASSUME BoundsAreNatural ==
    {MaxVersion, MaxRolls, MaxLinks, MaxInstalls, MaxSetbacks} \subseteq Nat
ASSUME DeploymentsAreFlags == Deployments \subseteq [auto : BOOLEAN, default : Targets]

VARIABLES
    row,         \* the node's row of clients: target, pendingClear, and the
                 \* version its agent last reported
    roll,        \* [Rolls -> record]: the calls of rollAgentUpdate
    connected,   \* connectedClients, and whether the node has its v2 mark
    updates,     \* queued update events: their rolls, targets and turns
    handshake,   \* [Links -> record]: where WebSocketV2RPC is on each socket
    broken,      \* sockets to which writes fail
    inbound,     \* [Links -> Seq(Targets)]: update frames on their way to the agent
    node,        \* the agent's process: CurrentVersion, requested, and its socket
    disk,        \* the version of its executable
    install,     \* [Installers -> record]: updates under way in the process
    newest,      \* the newest release
    deployment,  \* how the agent is deployed
    asked,       \* history: the versions that the agent was deployed with or that
                 \* an operator asked for
    setbacks     \* failures so far

panelSide == <<row, roll, connected, updates, handshake>>
nodeSide == <<node, disk, install>>
rolloutVars == <<panelSide, broken, inbound, nodeSide, newest, deployment, asked, setbacks>>

NoRoll == [pc |-> "new", target |-> NoTarget, version |-> 0, online |-> FALSE, link |-> NoLink]
NoHandler == [pc |-> "none", target |-> NoTarget, clear |-> FALSE, todo |-> {}, sent |-> {}]
NoInstall == [pc |-> "idle", target |-> NoTarget]
AllIdle == [j \in Installers |-> NoInstall]

RolloutInit ==
    /\ newest \in Versions /\ disk \in 1..newest /\ deployment \in Deployments
    /\ \E t \in Targets, clear \in BOOLEAN :
        /\ clear => t = NoTarget
        /\ row = [target |-> t, pendingClear |-> clear, version |-> disk]
    /\ roll = [r \in Rolls |-> NoRoll]
    /\ connected = NoLink /\ updates = {} /\ broken = {}
    /\ handshake = [c \in Links |-> NoHandler]
    /\ inbound = [c \in Links |-> <<>>]
    /\ node = [pc |-> "down", version |-> disk, requested |-> NoTarget, link |-> NoLink]
    /\ install = AllIdle
    /\ asked = {disk, row.target} \ {NoTarget}
    /\ setbacks = 0

Setback == setbacks < MaxSetbacks /\ setbacks' = setbacks + 1
NoSetback == UNCHANGED setbacks

-----------------------------------------------------------------------------
(* A write to a socket: it may succeed although the agent has gone. *)

Written(c, t) ==
    /\ handshake[c].pc # "none" /\ c \notin broken
    /\ inbound' = IF node.link = c THEN [inbound EXCEPT ![c] = Append(@, t)] ELSE inbound
    /\ UNCHANGED broken

WriteFails(c) ==
    /\ handshake[c].pc = "none" \/ c \in broken \/ node.link # c
    /\ broken' = IF handshake[c].pc = "none" THEN broken ELSE broken \cup {c}
    /\ UNCHANGED inbound

-----------------------------------------------------------------------------
(* adminRollAgentUpdate, for this node.  A dry run changes nothing. *)

RollGoes(r, pc) ==
    roll' = [roll EXCEPT ![r] = [@ EXCEPT !.pc = pc, !.version = 0, !.online = FALSE]]
RollEnds(r) == roll' = [roll EXCEPT ![r] = [NoRoll EXCEPT !.pc = "done"]]

\* The list of nodes is read once, with what each last reported.
RollStarts(r, t) ==
    /\ roll[r].pc = "new" /\ \A q \in 1..(r - 1) : roll[q].pc # "new"
    /\ roll' = [roll EXCEPT ![r] = [NoRoll EXCEPT !.pc = "listed", !.target = t,
                                                  !.version = row.version]]
    /\ asked' = asked \cup ({t} \ {NoTarget})
    /\ UNCHANGED <<row, connected, updates, handshake, broken, inbound, nodeSide,
                   newest, deployment, setbacks>>

\* IsAgentOnline.
RollLooks(r) ==
    /\ roll[r].pc = "listed"
    /\ roll' = [roll EXCEPT ![r].pc = "looked", ![r].online = connected # NoLink]
    /\ UNCHANGED <<row, connected, updates, handshake, broken, inbound, nodeSide,
                   newest, deployment, asked, setbacks>>

\* SetAgentUpdateState: a clear that cannot go out now is owed.
SavedRow(r) ==
    [row EXCEPT !.target = roll[r].target,
                !.pendingClear = roll[r].target = NoTarget /\ ~roll[r].online]

\* sameReleaseVersion: the node reported the target it is given.
AtTarget(r) == roll[r].target # NoTarget /\ roll[r].version = roll[r].target

\* The target is saved for a node that is offline or at it, and then sent to
\* neither.
RollSaves(r) ==
    /\ roll[r].pc = "looked"
    /\ \/ /\ row' = SavedRow(r) /\ NoSetback
          /\ IF AtTarget(r) \/ ~roll[r].online THEN RollEnds(r) ELSE RollGoes(r, "dispatch")
       \/ Setback /\ RollEnds(r) /\ UNCHANGED row
    /\ UNCHANGED <<connected, updates, handshake, broken, inbound, nodeSide, newest,
                   deployment, asked>>

\* DispatchV2Event reads the registry, writes to the socket it found there, and
\* queues the event if the socket is still the registered one.
RollPicks(r) ==
    /\ roll[r].pc = "dispatch"
    /\ roll' = [roll EXCEPT ![r].pc = IF connected = NoLink THEN "enqueue" ELSE "send",
                            ![r].link = connected]
    /\ UNCHANGED <<row, connected, updates, handshake, broken, inbound, nodeSide,
                   newest, deployment, asked, setbacks>>

RollSends(r) ==
    /\ roll[r].pc = "send"
    /\ \/ Written(roll[r].link, roll[r].target) /\ RollEnds(r)
       \/ WriteFails(roll[r].link) /\ RollGoes(r, "enqueue")
    /\ UNCHANGED <<row, connected, updates, handshake, nodeSide, newest, deployment,
                   asked, setbacks>>

\* EnqueueV2Event: an event goes behind the others.
Enqueue(r) ==
    \E n \in Rolls :
        /\ \A e \in updates : e.turn < n
        /\ n = 1 \/ \E e \in updates : e.turn = n - 1
        /\ updates' = updates \cup {[roll |-> r, target |-> roll[r].target, turn |-> n]}

RollEnqueues(r) ==
    /\ roll[r].pc = "enqueue"
    /\ IF connected # NoLink /\ connected = roll[r].link
       THEN Enqueue(r) /\ RollEnds(r)
       ELSE /\ UNCHANGED updates
            /\ IF roll[r].target = NoTarget THEN RollGoes(r, "mark") ELSE RollEnds(r)
    /\ UNCHANGED <<row, connected, handshake, broken, inbound, nodeSide, newest,
                   deployment, asked, setbacks>>

\* SetTargetVersionClearPending: a clear that could not be dispatched is owed.
RollMarks(r) ==
    /\ roll[r].pc = "mark"
    /\ \/ row' = [row EXCEPT !.pendingClear = TRUE] /\ NoSetback
       \/ Setback /\ UNCHANGED row
    /\ RollEnds(r)
    /\ UNCHANGED <<connected, updates, handshake, broken, inbound, nodeSide, newest,
                   deployment, asked>>

RollStep(r) ==
    RollLooks(r) \/ RollSaves(r) \/ RollPicks(r) \/ RollSends(r) \/ RollEnqueues(r)
    \/ RollMarks(r)

Oldest(events) == {e \in events : \A f \in events : e.turn <= f.turn}

\* A queued event outlives v2EventTTL.
UpdateExpires ==
    /\ \E e \in Oldest(updates) : updates' = updates \ {e}
    /\ UNCHANGED <<row, roll, connected, handshake, broken, inbound, nodeSide, newest,
                   deployment, asked, setbacks>>

-----------------------------------------------------------------------------
(* WebSocketV2RPC: a node connects. *)

HandlerGoes(c, pc) == handshake' = [handshake EXCEPT ![c] = [NoHandler EXCEPT !.pc = pc]]

\* The deferred conn.Close of every return.
HandlerReturns(c) ==
    /\ handshake' = [handshake EXCEPT ![c] = NoHandler]
    /\ broken' = IF node.link = c THEN broken \cup {c} ELSE broken \ {c}

\* DeleteClientConditionally, deferred once the row was reconciled.
HandlerUnregisters(c) ==
    /\ HandlerReturns(c)
    /\ connected' = IF connected = c THEN NoLink ELSE connected

\* currentOperation: the socket is still the registered one.
Current(c) == connected = c

\* The agent dials; its socket replaces the one registered, which is aborted.
NodeConnects(c) ==
    /\ node.pc = "run" /\ node.link = NoLink
    /\ handshake[c].pc = "none" /\ \A r \in Rolls : roll[r].link # c
    /\ node' = [node EXCEPT !.link = c]
    /\ connected' = c
    /\ broken' = broken \cup ({connected} \ {NoLink})
    /\ HandlerGoes(c, "lookup")
    /\ UNCHANGED <<row, roll, updates, inbound, disk, install, newest, deployment,
                   asked, setbacks>>

\* Mutant: only clears are sent again.
OwedClear == row.pendingClear

\* AgentUpdateState, in resendPersistedAgentUpdateTargetOperation: a target or
\* a clear that is owed must be written.
Owed == row.target # NoTarget \/ row.pendingClear

HandlerLooksUp(c) ==
    /\ handshake[c].pc = "lookup"
    /\ \/ /\ ~Current(c) /\ HandlerReturns(c) /\ NoSetback
       \/ /\ Current(c) /\ NoSetback /\ UNCHANGED broken
          /\ handshake' = [handshake EXCEPT ![c].pc = IF Owed THEN "write" ELSE "push",
                                            ![c].target = row.target,
                                            ![c].clear = row.pendingClear]
       \/ Current(c) /\ Setback /\ HandlerGoes(c, "push") /\ UNCHANGED broken
    /\ UNCHANGED <<row, roll, connected, updates, inbound, nodeSide, newest, deployment, asked>>

HandlerWrites(c) ==
    /\ handshake[c].pc = "write"
    /\ \/ /\ Written(c, handshake[c].target)
          /\ HandlerGoes(c, IF handshake[c].clear THEN "settle" ELSE "push")
       \/ WriteFails(c) /\ HandlerGoes(c, "push")
    /\ UNCHANGED <<row, roll, connected, updates, nodeSide, newest, deployment, asked,
                   setbacks>>

\* SetTargetVersionClearPending: the clear has been written.
HandlerSettles(c) ==
    /\ handshake[c].pc = "settle"
    /\ \/ /\ ~Current(c) /\ HandlerReturns(c) /\ NoSetback /\ UNCHANGED row
       \/ /\ Current(c) /\ HandlerGoes(c, "push") /\ NoSetback /\ UNCHANGED broken
          /\ row' = [row EXCEPT !.pendingClear = FALSE]
       \/ /\ Current(c) /\ HandlerGoes(c, "push") /\ Setback /\ UNCHANGED <<row, broken>>
    /\ UNCHANGED <<roll, connected, updates, inbound, nodeSide, newest, deployment, asked>>

\* pushQueuedV2Events takes the queue, writes its events, and acknowledges what
\* it wrote.
HandlerTakes(c) ==
    /\ handshake[c].pc = "push"
    /\ IF Current(c)
       THEN /\ handshake' = [handshake EXCEPT ![c] =
                [NoHandler EXCEPT !.pc = IF updates = {} THEN "serve" ELSE "pushing",
                                  !.todo = updates]]
            /\ UNCHANGED broken
       ELSE HandlerReturns(c)
    /\ UNCHANGED <<row, roll, connected, updates, inbound, nodeSide, newest, deployment,
                   asked, setbacks>>

Unacked(c) == {e \in updates : e.roll \notin handshake[c].sent}

AfterPush(h, e) ==
    [h EXCEPT !.todo = h.todo \ {e}, !.sent = h.sent \cup {e.roll}]

PushSucceeds(c) ==
    \E e \in Oldest(handshake[c].todo) :
        /\ Written(c, e.target)
        /\ handshake' = [handshake EXCEPT ![c] = AfterPush(handshake[c], e)]
        /\ UNCHANGED <<connected, updates>>

PushFails(c) ==
    /\ c \in broken \/ node.link # c
    /\ updates' = IF Current(c) THEN Unacked(c) ELSE updates
    /\ HandlerUnregisters(c)
    /\ UNCHANGED inbound

HandlerPushes(c) ==
    /\ handshake[c].pc = "pushing" /\ handshake[c].todo # {}
    /\ PushSucceeds(c) \/ PushFails(c)
    /\ UNCHANGED <<row, roll, nodeSide, newest, deployment, asked, setbacks>>

HandlerAcks(c) ==
    /\ handshake[c].pc = "pushing" /\ handshake[c].todo = {}
    /\ IF Current(c)
       THEN /\ updates' = Unacked(c)
            /\ handshake' = [handshake EXCEPT ![c] = [NoHandler EXCEPT !.pc = "serve"]]
            /\ UNCHANGED broken
       ELSE HandlerReturns(c) /\ UNCHANGED updates
    /\ UNCHANGED <<row, roll, connected, inbound, nodeSide, newest, deployment, asked,
                   setbacks>>

HandlerStep(c) ==
    HandlerLooksUp(c) \/ HandlerWrites(c) \/ HandlerSettles(c) \/ HandlerTakes(c)
    \/ HandlerPushes(c) \/ HandlerAcks(c)

\* A read fails, or takes longer than readWait.
HandlerEnds(c) ==
    /\ handshake[c].pc = "serve"
    /\ HandlerUnregisters(c)
    /\ UNCHANGED <<row, roll, updates, inbound, nodeSide, newest, deployment, asked, setbacks>>

\* The panel's process ends and another starts: only the row is kept.
PanelRestarts ==
    /\ Setback
    /\ roll' = [r \in Rolls |-> IF roll[r].pc = "new" THEN NoRoll
                                ELSE [NoRoll EXCEPT !.pc = "done"]]
    /\ connected' = NoLink /\ updates' = {}
    /\ handshake' = [c \in Links |-> NoHandler]
    /\ broken' = {node.link} \ {NoLink}
    /\ UNCHANGED <<row, inbound, nodeSide, newest, deployment, asked>>

-----------------------------------------------------------------------------
(* The agent. *)

\* A socket that neither end holds any more.
Noticed == {c \in broken : handshake[c].pc # "none"}

\* The process ends: os.Exit(42) after an install, or it dies.
NodeEnds ==
    /\ broken' = Noticed
    /\ node' = [node EXCEPT !.pc = "down", !.requested = NoTarget, !.link = NoLink]
    /\ install' = AllIdle
    /\ inbound' = [c \in Links |-> <<>>]

\* Mutant: the check of the start ignores the flag.
NodeStartsChecking ==
    /\ node.pc = "down"
    /\ node' = [node EXCEPT !.pc = "check",
                            !.version = disk]
    /\ UNCHANGED <<panelSide, broken, inbound, disk, install, newest, deployment, asked,
                   setbacks>>

\* Its supervisor starts what is on disk.
NodeStarts ==
    /\ node.pc = "down"
    /\ node' = [node EXCEPT !.pc = IF deployment.auto THEN "check" ELSE "report",
                            !.version = disk]
    /\ UNCHANGED <<panelSide, broken, inbound, disk, install, newest, deployment, asked,
                   setbacks>>

NodeDies ==
    /\ node.pc # "down" /\ Setback
    /\ NodeEnds
    /\ UNCHANGED <<panelSide, disk, newest, deployment, asked>>

Begin(j, t) == install' = [install EXCEPT ![j] = [pc |-> "fetch", target |-> t]]

\* RequestedVersion: what the panel asked for, or the deployment's default.
RequestedVersion ==
    IF node.requested # NoTarget THEN node.requested ELSE deployment.default

\* The CheckAndUpdate of the start, before the node has connected.
StartupCheck ==
    /\ node.pc = "check" /\ install[0].pc = "idle"
    /\ IF newest > node.version
       THEN Begin(0, newest) /\ UNCHANGED node
       ELSE node' = [node EXCEPT !.pc = "report"] /\ UNCHANGED install
    /\ UNCHANGED <<panelSide, broken, inbound, disk, newest, deployment, asked, setbacks>>

\* UpdateBasicInfo, before the first socket and then from time to time.
UploadBasicInfo ==
    /\ \/ /\ node.pc \in {"report", "run"} /\ NoSetback
          /\ row' = [row EXCEPT !.version = node.version]
       \/ node.pc = "report" /\ Setback /\ UNCHANGED row
    /\ node' = [node EXCEPT !.pc = "run"]
    /\ UNCHANGED <<roll, connected, updates, handshake, broken, inbound, disk, install,
                   newest, deployment, asked>>

\* The socket is lost, or the agent finds it closed.
NodeDisconnects(c) ==
    /\ node.link = c
    /\ node' = [node EXCEPT !.link = NoLink]
    /\ inbound' = [inbound EXCEPT ![c] = <<>>]
    /\ broken' = Noticed
    /\ UNCHANGED <<panelSide, disk, install, newest, deployment, asked, setbacks>>

\* SetRequestedVersion, and a goroutine that installs the target unless it runs.
ReadUpdate(c) ==
    /\ node.link = c /\ inbound[c] # <<>>
    /\ LET t == Head(inbound[c])
       IN  /\ node' = [node EXCEPT !.requested = t]
           /\ IF t \in {NoTarget, node.version} THEN UNCHANGED install
              ELSE \E j \in Installers \ {0} :
                       /\ install[j].pc = "idle"
                       /\ \A i \in 1..(j - 1) : install[i].pc # "idle"
                       /\ Begin(j, t)
    /\ inbound' = [inbound EXCEPT ![c] = Tail(@)]
    /\ UNCHANGED <<panelSide, broken, disk, newest, deployment, asked, setbacks>>

\* Mutant: a node without a target is held at what it runs.
HeldTarget == IF RequestedVersion # NoTarget THEN RequestedVersion ELSE node.version

\* What the ticker has to install: the target, or without one the newest
\* release when it is newer.
TickTarget ==
    IF RequestedVersion # NoTarget THEN RequestedVersion
    ELSE IF newest > node.version THEN newest ELSE node.version

\* One tick of DoUpdateWorks.
UpdateTick ==
    /\ deployment.auto /\ node.pc \in {"report", "run"} /\ install[0].pc = "idle"
    /\ TickTarget # node.version
    /\ Begin(0, TickTarget)
    /\ UNCHANGED <<panelSide, broken, inbound, node, disk, newest, deployment, asked, setbacks>>

\* applyRelease replaces the executable ...
Installs(j) ==
    /\ install[j].pc = "fetch" /\ install[j].target <= newest
    /\ disk' = install[j].target
    /\ install' = [install EXCEPT ![j].pc = "applied"]
    /\ UNCHANGED <<panelSide, broken, inbound, node, newest, deployment, asked, setbacks>>

\* ... or the release is not there, or cannot be had.
InstallFails(j) ==
    /\ install[j].pc = "fetch"
    /\ IF install[j].target > newest THEN NoSetback ELSE Setback
    /\ install' = [install EXCEPT ![j] = NoInstall]
    /\ node' = IF node.pc = "check" THEN [node EXCEPT !.pc = "report"] ELSE node
    /\ UNCHANGED <<panelSide, broken, inbound, disk, newest, deployment, asked>>

\* os.Exit(42).
InstallExits(j) ==
    /\ install[j].pc = "applied"
    /\ NodeEnds
    /\ UNCHANGED <<panelSide, disk, newest, deployment, asked, setbacks>>

InstallStep(j) == Installs(j) \/ InstallFails(j) \/ InstallExits(j)

\* A release is published.
ReleasePublished ==
    /\ newest < MaxVersion
    /\ newest' = newest + 1
    /\ UNCHANGED <<panelSide, broken, inbound, nodeSide, deployment, asked, setbacks>>

-----------------------------------------------------------------------------
RolloutNext ==
    \/ \E r \in Rolls : RollStep(r) \/ \E t \in Targets : RollStarts(r, t)
    \/ \E c \in Links : NodeConnects(c) \/ HandlerStep(c) \/ HandlerEnds(c)
                        \/ NodeDisconnects(c) \/ ReadUpdate(c)
    \/ \E j \in Installers : InstallStep(j)
    \/ NodeStarts \/ NodeDies \/ StartupCheck \/ UploadBasicInfo \/ UpdateTick
    \/ UpdateExpires \/ PanelRestarts \/ ReleasePublished

\* Goroutines and processes go on, the supervisor restarts the agent, sockets
\* that are closed are noticed, and what can be installed is in the end.
RolloutFairness ==
    /\ \A r \in Rolls : WF_rolloutVars(RollStep(r))
    /\ \A c \in Links :
        /\ WF_rolloutVars(HandlerStep(c))
        /\ WF_rolloutVars(HandlerEnds(c) /\ (node.link # c \/ c \in broken))
        /\ WF_rolloutVars(NodeDisconnects(c) /\ c \in broken)
        /\ WF_rolloutVars(ReadUpdate(c))
    /\ WF_rolloutVars(\E c \in Links : NodeConnects(c))
    /\ \A j \in Installers : WF_rolloutVars(InstallStep(j))
    /\ WF_rolloutVars(NodeStarts) /\ WF_rolloutVars(StartupCheck)
    /\ WF_rolloutVars(UploadBasicInfo) /\ WF_rolloutVars(UpdateTick)

RolloutSpec == RolloutInit /\ [][RolloutNext]_rolloutVars /\ RolloutFairness

-----------------------------------------------------------------------------
RowRecord == [target : Targets, pendingClear : BOOLEAN, version : Versions]
RollRecord == [pc : {"new", "listed", "looked", "dispatch", "send", "enqueue", "mark", "done"},
               target : Targets, version : {0} \cup Versions, online : BOOLEAN,
               link : {NoLink} \cup Links]
HandlerRecord == [pc : {"none", "lookup", "write", "settle", "push", "pushing", "serve"},
                  target : Targets, clear : BOOLEAN, todo : SUBSET Updates,
                  sent : SUBSET Rolls]
NodeRecord == [pc : {"down", "check", "report", "run"}, version : Versions,
               requested : Targets, link : {NoLink} \cup Links]
InstallRecord == [pc : {"idle", "fetch", "applied"}, target : Targets]

\* A roll that writes has the socket it found.
RollsTyped == /\ roll \in [Rolls -> RollRecord]
              /\ \A r \in Rolls : roll[r].pc = "send" => roll[r].link # NoLink

\* The registered socket has a handler.
SocketsTyped == /\ connected \in {NoLink} \cup Links /\ broken \subseteq Links
                /\ handshake \in [Links -> HandlerRecord]
                /\ connected # NoLink => handshake[connected].pc # "none"

NodeTyped == /\ node \in NodeRecord /\ disk \in Versions
             /\ install \in [Installers -> InstallRecord]
             /\ \A j \in Installers : install[j].pc # "idle" => install[j].target # NoTarget
             /\ deployment \in Deployments

\* Every variable keeps its shape.
RolloutTypeOK ==
    /\ row \in RowRecord /\ updates \subseteq Updates
    /\ RollsTyped /\ SocketsTyped /\ NodeTyped
    /\ inbound \in [Links -> Seq(Targets)]
    /\ newest \in Versions /\ asked \subseteq Versions /\ setbacks \in 0..MaxSetbacks

\* An agent that is told not to update itself (--disable-auto-update,
\* agent/cmd/root.go) never has a version on disk that it was not deployed with
\* and that no operator asked for.
NoUninvitedVersion == ~deployment.auto => disk \in asked

\* The node connects again and again, and each time long enough to read what
\* the handshake wrote.
Reconnects ==
    /\ []<>(node.link = NoLink)
    /\ []<>(\E c \in Links : node.link = c /\ handshake[c].pc = "serve" /\ inbound[c] = <<>>)

Pinned == row.target # NoTarget /\ row.target <= newest

\* A node that leaves updates to the panel and keeps reconnecting ends at the
\* version the panel holds for it, however the call that saved it raced with
\* handshakes, installs and restarts (resendPersistedAgentUpdateTarget).
RolloutConverges ==
    <>[](~deployment.auto /\ Pinned) /\ Reconnects => <>[](node.version = row.target)

\* A node that updates itself and has no target, from the panel or from its
\* deployment, ends at the newest release, whatever failed on the way
\* (DoUpdateWorks, CheckAndUpdate).
UnpinnedTracks ==
    <>[](deployment.auto /\ RequestedVersion = NoTarget) => <>[](node.version = newest)
=============================================================================
