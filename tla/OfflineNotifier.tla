-------------------------- MODULE OfflineNotifier --------------------------
(***************************************************************************)
(* Offline and online notifications of one node: the state machine of      *)
(* utils/notifier/offline.go, the deferred-alert queue and sweeper of      *)
(* utils/notifier/maintenance_defer.go, and the two callers that drive it, *)
(* the report WebSocket (web/api/client/report_v2.go) and the POST         *)
(* presence timer (web/api/client/presence.go).                            *)
(*                                                                         *)
(* Every goroutine the code starts is a process here, and every critical   *)
(* section (state.mu, deferredMu, postPresenceMu) is one action.  Nodes    *)
(* share nothing but the sweep: the alerts of other nodes appear as time   *)
(* passing between a sweep's snapshot and its handling of this node.       *)
(***************************************************************************)
EXTENDS Integers, MaintenanceWindow

CONSTANTS
    Node,           \* the client whose notifications are modelled
    WindowSets,     \* the maintenance schedules an operator may have stored
    Sweepers,       \* sweeps that may run at once: every tick is a goroutine of its own
    GracePeriod,    \* OfflineNotification.GracePeriod
    PresenceTTL,    \* postPresenceTTL
    Transports,     \* what the agent uses: a subset of {"ws", "post"}
    ReadOutcomes,   \* what database reads return: a subset of {"ok", "off", "error"}
    OnlineFirst,    \* TRUE: a connection is recorded before the node's next connection event
    FallbackOnly,   \* TRUE: the agent POSTs only while the panel holds no socket of its
    SlowSender,     \* TRUE: time passes and the schedule changes during a sweep
    MaxConns,       \* bound: connections of the node
    MaxFailures,    \* bound: failed sends
    Horizon,        \* bound: the last instant of a connection or schedule change
    EndOfTime       \* bound: the last instant

ASSUME NotifierAssumption ==
    /\ GracePeriod \in Nat \ {0}
    /\ PresenceTTL \in Nat \ {0}
    /\ MaxConns \in Nat
    /\ MaxFailures \in Nat
    /\ Horizon \in Nat
    /\ EndOfTime \in Nat
    /\ Transports \subseteq {"ws", "post"}
    /\ ReadOutcomes \subseteq {"ok", "off", "error"} /\ "ok" \in ReadOutcomes
    /\ OnlineFirst \in BOOLEAN
    /\ FallbackOnly \in BOOLEAN
    /\ SlowSender \in BOOLEAN
    /\ \A ws \in WindowSets : \A w \in ws : w.start \in Nat /\ w.end \in Nat

Conns == 1 .. MaxConns      \* connection ids, minted in increasing order
NoConn == 0
NoAlert == [conn |-> NoConn, deliverAt |-> 0]

VARIABLES
    now,
    windows,        \* the stored schedule
    opened,         \* connections minted so far
    transport,      \* [Conns -> transport of the connection]
    conn,           \* [Conns -> "unborn" | "open" | "aborted" | "ended" | "retired"]
    postEntry,      \* the connection id in postPresenceStates, or NoConn
    postDeadline,   \* when its timer fires
    online,         \* [Conns -> the OnlineNotification goroutine]
    offline,        \* [Conns -> the OfflineNotification call and its grace goroutine]
    pendingOfflineSince, isFirstConnection, isConnExist, connectionID,
    deferred,       \* deferredAlerts[Node], or NoAlert
    sweep,          \* [Sweepers -> sweepDeferredAlerts]
    outbox,         \* notices handed to a sender goroutine and not yet delivered
    failures,
    \* history
    outageReported, \* an outage was claimed for reporting and no connection recorded since
    stale,          \* connections whose deferred alert was dropped as stale
    claimed,        \* [Conns -> offline notices claimed for the outage]
    delivered,      \* [Conns -> offline notices the provider accepted]
    refused         \* outages whose immediate notice was given up: it is not sent again

clockVars == <<now, windows>>
transportVars == <<opened, transport, conn, postEntry, postDeadline>>
stateVars == <<pendingOfflineSince, isFirstConnection, isConnExist, connectionID>>
claimVars == <<outageReported, claimed>>
senderVars == <<outbox, failures, delivered, refused>>
vars == <<clockVars, transportVars, online, offline, stateVars, deferred,
          sweep, stale, claimVars, senderVars>>

\* What a notifier process must at least leave alone.
envVars == <<clockVars, transportVars>>
-----------------------------------------------------------------------------
Idle == [pc |-> "idle", now |-> 0, conn |-> NoConn, deliverAt |-> 0]
NoOffline == [pc |-> "none", since |-> 0, suppress |-> FALSE, until |-> 0]

Init ==
    /\ now = 0
    /\ windows \in WindowSets
    /\ opened = 0
    /\ transport = [c \in Conns |-> "ws"]
    /\ conn = [c \in Conns |-> "unborn"]
    /\ postEntry = NoConn
    /\ postDeadline = 0
    /\ online = [c \in Conns |-> "none"]
    /\ offline = [c \in Conns |-> NoOffline]
    /\ pendingOfflineSince = FALSE
    /\ isFirstConnection = TRUE
    /\ isConnExist = FALSE
    /\ connectionID = NoConn
    /\ deferred = NoAlert
    /\ sweep = [s \in Sweepers |-> Idle]
    /\ outbox = {}
    /\ failures = 0
    /\ outageReported = FALSE
    /\ stale = {}
    /\ claimed = [c \in Conns |-> 0]
    /\ delivered = [c \in Conns |-> 0]
    /\ refused = {}

(***************************************************************************)
(* The clock and the stored schedule.                                      *)
(***************************************************************************)
\* Past the horizon the clock waits for offline calls that have begun, so that
\* the end of time cuts no grace period short.
Settled == \A c \in Conns : offline[c].pc \notin {"ready", "decided"}

MayPassDuringSweep == SlowSender \/ \A s \in Sweepers : sweep[s].pc = "idle"

\* The POST timer fires before time passes its deadline.
TimerOnTime == postEntry # NoConn => now < postDeadline

Tick ==
    /\ now < EndOfTime
    /\ TimerOnTime
    /\ now < Horizon \/ Settled
    /\ MayPassDuringSweep
    /\ now' = now + 1
    /\ UNCHANGED <<windows, transportVars, online, offline, stateVars, deferred,
                   sweep, stale, claimVars, senderVars>>

\* An admin write to the schedule; the handler invalidates the cached list.
EditWindows ==
    /\ now <= Horizon
    /\ MayPassDuringSweep
    /\ \E ws \in WindowSets \ {windows} : windows' = ws
    /\ UNCHANGED <<now, transportVars, online, offline, stateVars, deferred,
                   sweep, stale, claimVars, senderVars>>

(***************************************************************************)
(* Connections.  A new report WebSocket replaces and aborts the previous   *)
(* one; the POST presence entry is one long-lived connection whose timer   *)
(* every accepted POST restarts.                                           *)
(***************************************************************************)
Recorded == \A d \in Conns : online[d] # "ready"

NewConn(c, kind) ==
    /\ now <= Horizon
    /\ OnlineFirst => Recorded
    /\ kind \in Transports
    /\ c = opened + 1 /\ c \in Conns
    /\ opened' = c
    /\ transport' = [transport EXCEPT ![c] = kind]
    /\ online' = [online EXCEPT ![c] = "ready"]

OpenSockets == {d \in Conns : conn[d] = "open" /\ transport[d] = "ws"}

WebSocketOpen(c) ==
    /\ NewConn(c, "ws")
    /\ conn' = [d \in Conns |-> IF d = c THEN "open"
                                ELSE IF d \in OpenSockets THEN "aborted" ELSE conn[d]]
    /\ UNCHANGED <<clockVars, postEntry, postDeadline, offline, stateVars, deferred,
                   sweep, stale, claimVars, senderVars>>

\* Both ways a connection ends call OfflineNotification on the same goroutine.
EndConn(c) ==
    /\ OnlineFirst => Recorded
    /\ conn' = [conn EXCEPT ![c] = "ended"]
    /\ offline' = [offline EXCEPT ![c].pc = "ready"]
    /\ UNCHANGED <<clockVars, opened, transport, postDeadline, online, stateVars, deferred,
                   sweep, stale, claimVars, senderVars>>

WebSocketClose(c) ==
    /\ now <= Horizon
    /\ transport[c] = "ws" /\ conn[c] \in {"open", "aborted"}
    /\ EndConn(c)
    /\ UNCHANGED postEntry

MayPost == FallbackOnly => OpenSockets = {}

PostRefresh ==
    /\ now <= Horizon
    /\ MayPost
    /\ postEntry # NoConn
    /\ postDeadline' = now + PresenceTTL
    /\ UNCHANGED <<clockVars, opened, transport, conn, postEntry, online, offline, stateVars,
                   deferred, sweep, stale, claimVars, senderVars>>

PostFirst(c) ==
    /\ postEntry = NoConn
    /\ MayPost
    /\ NewConn(c, "post")
    /\ conn' = [conn EXCEPT ![c] = "open"]
    /\ postEntry' = c
    /\ postDeadline' = now + PresenceTTL
    /\ UNCHANGED <<clockVars, offline, stateVars, deferred, sweep, stale, claimVars, senderVars>>

\* A timer of an older generation finds another generation and returns: only
\* the timer started by the last POST ends the connection.
PostExpire(c) ==
    /\ postEntry = c
    /\ now >= postDeadline
    /\ EndConn(c)
    /\ postEntry' = NoConn

\* Credential rotation: the socket is aborted, the POST entry and its timer
\* are dropped without an offline notification.
ResetClientState ==
    /\ now <= Horizon
    /\ OpenSockets # {} \/ postEntry # NoConn
    /\ conn' = [d \in Conns |-> IF d \in OpenSockets THEN "aborted"
                                ELSE IF d = postEntry THEN "retired" ELSE conn[d]]
    /\ postEntry' = NoConn
    /\ UNCHANGED <<clockVars, opened, transport, postDeadline, online, offline, stateVars,
                   deferred, sweep, stale, claimVars, senderVars>>

(***************************************************************************)
(* deferredAlerts: one entry per client, the latest deliverAt wins.        *)
(***************************************************************************)
deferOfflineAlert(c, at) ==
    deferred' = [conn |-> c, deliverAt |-> LaterOf(deferred.deliverAt, at)]

\* Mutant: the entry is forgotten whichever outage it describes.
forgetAnyDeferredAlert(c) == deferred' = NoAlert

forgetDeferredAlertIfCurrent(c) ==
    deferred' = IF deferred.conn = c THEN NoAlert ELSE deferred

\* Mutant: the entry is forgotten after it was handed to the next window.
requeueAndForget(c, at) == deferred' = IF deferred.conn = c THEN NoAlert ELSE deferred

requeueDeferredAlert(c, at) ==
    deferred' = IF deferred.conn = c THEN [conn |-> c, deliverAt |-> at] ELSE deferred

(***************************************************************************)
(* OnlineNotification.                                                     *)
(***************************************************************************)
OnlineLookupFails(c) ==
    /\ online[c] = "ready" /\ "error" \in ReadOutcomes
    /\ online' = [online EXCEPT ![c] = "done"]
    /\ UNCHANGED <<envVars, offline, stateVars, deferred, sweep, stale, claimVars, senderVars>>

\* updateOnlineState's result: does this connection produce a notification?
RecoveryDue == ~isFirstConnection /\ ~pendingOfflineSince /\ ~isConnExist

OnlineNotification(c) ==
    /\ online[c] = "ready"
    /\ online' = [online EXCEPT ![c] = "done"]
    /\ deferred' = NoAlert
    /\ connectionID' = c
    /\ isFirstConnection' = FALSE
    /\ pendingOfflineSince' = FALSE
    /\ isConnExist' = TRUE
    /\ \E read \in ReadOutcomes :
          outbox' = outbox \cup {m \in {[event |-> "online", conn |-> c]} :
                                    RecoveryDue /\ read = "ok"}
    /\ outageReported' = FALSE
    /\ UNCHANGED <<envVars, offline, sweep, stale, claimed, failures, delivered, refused>>

(***************************************************************************)
(* OfflineNotification: reads, then one critical section, then either the  *)
(* deferred queue or a goroutine that sleeps through the grace period.     *)
(***************************************************************************)
offlineStep(c, from, to) ==
    /\ offline[c].pc = from
    /\ offline' = [offline EXCEPT ![c].pc = to]

OfflineNotEnabled(c) ==
    /\ ReadOutcomes \cap {"off", "error"} # {}
    /\ offlineStep(c, "ready", "done")
    /\ UNCHANGED <<envVars, online, stateVars, deferred, sweep, stale, claimVars, senderVars>>

Decision(since, suppress, until) ==
    [pc |-> "decided", since |-> since, suppress |-> suppress, until |-> until]

OfflineDecide(c) ==
    /\ "ok" \in ReadOutcomes
    /\ offline[c].pc = "ready"
    /\ \/ /\ ~Suppressed(now, Node, windows)
          /\ offline' = [offline EXCEPT ![c] = Decision(now, FALSE, 0)]
       \/ \E at \in DeliverAt(now, Node, windows) :
             offline' = [offline EXCEPT ![c] = Decision(now, TRUE, at)]
    /\ UNCHANGED <<envVars, online, stateVars, deferred, sweep, stale, claimVars, senderVars>>

IsCurrentOutage(c) == pendingOfflineSince /\ connectionID = c

OfflineIgnored(c) ==
    /\ pendingOfflineSince \/ connectionID # c
    /\ offlineStep(c, "decided", "done")
    /\ UNCHANGED <<envVars, online, stateVars, deferred, sweep, stale, claimVars, senderVars>>

\* Both the grace period and the maintenance window must have ended.
\* Mutant: the window's end alone.
DeferralEndWindowOnly(c) == offline[c].until

DeferralEnd(c) == LaterOf(offline[c].until, offline[c].since + GracePeriod)

OfflineMark(c) ==
    /\ ~pendingOfflineSince /\ connectionID = c
    /\ pendingOfflineSince' = TRUE
    /\ isConnExist' = FALSE
    /\ \/ /\ offline[c].suppress
          /\ deferOfflineAlert(c, DeferralEnd(c))
          /\ offlineStep(c, "decided", "done")
       \/ /\ ~offline[c].suppress
          /\ offlineStep(c, "decided", "grace")
          /\ UNCHANGED deferred
    /\ UNCHANGED <<envVars, online, isFirstConnection, connectionID, sweep, stale,
                   claimVars, senderVars>>

GraceOver(c) == offline[c].pc = "grace" /\ now >= offline[c].since + GracePeriod

GraceSuperseded(c) ==
    /\ GraceOver(c) /\ ~IsCurrentOutage(c)
    /\ offlineStep(c, "grace", "done")
    /\ UNCHANGED <<envVars, online, stateVars, deferred, sweep, stale, claimVars, senderVars>>

GraceDefer(c) ==
    /\ GraceOver(c) /\ IsCurrentOutage(c)
    /\ \E at \in DeliverAt(now, Node, windows) : deferOfflineAlert(c, at)
    /\ offlineStep(c, "grace", "done")
    /\ UNCHANGED <<envVars, online, stateVars, sweep, stale, claimVars, senderVars>>

\* Mutant: the marker stays until the send has returned.
ClaimOutageKeepsMarker(c) ==
    /\ claimed' = [claimed EXCEPT ![c] = @ + 1]
    /\ outageReported' = TRUE
    /\ UNCHANGED pendingOfflineSince

ClaimOutage(c) ==
    /\ claimed' = [claimed EXCEPT ![c] = @ + 1]
    /\ outageReported' = TRUE
    /\ pendingOfflineSince' = FALSE

GraceClaim(c) ==
    /\ GraceOver(c) /\ IsCurrentOutage(c)
    /\ ~Suppressed(now, Node, windows)
    /\ ClaimOutage(c)
    /\ isConnExist' = FALSE
    /\ outbox' = outbox \cup {[event |-> "offline", conn |-> c]}
    /\ offlineStep(c, "grace", "done")
    /\ UNCHANGED <<envVars, online, isFirstConnection, connectionID, deferred, sweep, stale,
                   failures, delivered, refused>>

(***************************************************************************)
(* The sender goroutines: each notice is accepted by the provider, or given*)
(* up after its retries; nothing orders one goroutine before another.      *)
(***************************************************************************)
Accept(m) ==
    delivered' = IF m.event = "offline" THEN [delivered EXCEPT ![m.conn] = @ + 1]
                 ELSE delivered

GiveUp(m) == refused' = refused \cup {c \in {m.conn} : m.event = "offline"}

SendFails == failures < MaxFailures /\ failures' = failures + 1

Deliver ==
    /\ \E m \in outbox :
          /\ outbox' = outbox \ {m}
          /\ \/ Accept(m) /\ UNCHANGED <<failures, refused>>
             \/ SendFails /\ GiveUp(m) /\ UNCHANGED delivered
    /\ UNCHANGED <<envVars, online, offline, stateVars, deferred, sweep, stale, claimVars>>

(***************************************************************************)
(* sweepDeferredAlerts, one action per critical section.                   *)
(***************************************************************************)
sweepStep(s, from, to) ==
    /\ sweep[s].pc = from
    /\ sweep' = [sweep EXCEPT ![s] = IF to = "idle" THEN Idle ELSE [@ EXCEPT !.pc = to]]

SweepBegin(s) ==
    /\ sweep[s].pc = "idle" /\ deferred # NoAlert
    /\ sweep' = [sweep EXCEPT ![s] = [pc |-> "check", now |-> now, conn |-> deferred.conn,
                                      deliverAt |-> deferred.deliverAt]]
    /\ UNCHANGED <<envVars, online, offline, stateVars, deferred, stale, claimVars, senderVars>>

SweepNotDue(s) ==
    /\ sweep[s].now <= sweep[s].deliverAt
    /\ ~ShouldDeliverDeferred(sweep[s].now, sweep[s].deliverAt)
    /\ sweepStep(s, "check", "idle")
    /\ UNCHANGED <<envVars, online, offline, stateVars, deferred, stale, claimVars, senderVars>>

SweepStale(s) ==
    /\ sweep[s].now > sweep[s].deliverAt
    /\ ~ShouldDeliverDeferred(sweep[s].now, sweep[s].deliverAt)
    /\ sweepStep(s, "check", "idle")
    /\ forgetDeferredAlertIfCurrent(sweep[s].conn)
    /\ stale' = stale \cup {c \in {sweep[s].conn} : deferred.conn = c}
    /\ UNCHANGED <<envVars, online, offline, stateVars, claimVars, senderVars>>

\* Mutant: the condition the alert was about is not checked again.
StillOfflineAssumed(c) == TRUE

StillOffline(c) == connectionID = c /\ ~isConnExist

SweepCheck(s) ==
    /\ ShouldDeliverDeferred(sweep[s].now, sweep[s].deliverAt)
    /\ sweepStep(s, "check", IF StillOffline(sweep[s].conn) THEN "window" ELSE "forget")
    /\ UNCHANGED <<envVars, online, offline, stateVars, deferred, stale, claimVars, senderVars>>

\* The window is re-checked at the instant the sweep started.
SweepRequeue(s) ==
    /\ sweepStep(s, "window", "idle")
    /\ \E at \in DeliverAt(sweep[s].now, Node, windows) :
          requeueDeferredAlert(sweep[s].conn, at)
    /\ UNCHANGED <<envVars, online, offline, stateVars, stale, claimVars, senderVars>>

\* Mutant: a second window that covers the node is not looked for.
SweepWindowUnchecked(s) ==
    /\ \/ sweepStep(s, "window", "claim")
       \/ "error" \in ReadOutcomes /\ sweepStep(s, "window", "idle")
    /\ UNCHANGED <<envVars, online, offline, stateVars, deferred, stale, claimVars, senderVars>>

SweepWindowClear(s) ==
    /\ ~Suppressed(sweep[s].now, Node, windows)
    /\ \/ sweepStep(s, "window", "claim")
       \/ "error" \in ReadOutcomes /\ sweepStep(s, "window", "idle")
    /\ UNCHANGED <<envVars, online, offline, stateVars, deferred, stale, claimVars, senderVars>>

SweepSuperseded(s) ==
    /\ ~StillOffline(sweep[s].conn)
    /\ sweepStep(s, "claim", "forget")
    /\ UNCHANGED <<envVars, online, offline, stateVars, deferred, stale, claimVars, senderVars>>

SweepClaim(s) ==
    /\ StillOffline(sweep[s].conn)
    /\ sweepStep(s, "claim", "send")
    /\ ClaimOutage(sweep[s].conn)
    /\ UNCHANGED <<envVars, online, offline, isFirstConnection, isConnExist, connectionID,
                   deferred, stale, senderVars>>

SweepSendEnds(s, afterFailure) ==
    /\ \/ /\ sweepStep(s, "send", "forget")
          /\ Accept([event |-> "offline", conn |-> sweep[s].conn])
          /\ UNCHANGED failures
       \/ /\ sweepStep(s, "send", afterFailure)
          /\ SendFails
          /\ UNCHANGED delivered
    /\ UNCHANGED <<envVars, online, offline, stateVars, deferred, stale, claimVars, outbox,
                   refused>>

\* Mutant: an entry is forgotten however its send ended.
SweepSendOnce(s) == SweepSendEnds(s, "forget")

\* A failed send leaves the entry queued for the next sweep.
SweepSend(s) == SweepSendEnds(s, "idle")

\* Mutant: a delivered alert stays in the queue.
SweepForgetNothing(s) ==
    /\ sweepStep(s, "forget", "idle")
    /\ UNCHANGED <<envVars, online, offline, stateVars, deferred, stale, claimVars, senderVars>>

SweepForget(s) ==
    /\ sweepStep(s, "forget", "idle")
    /\ forgetDeferredAlertIfCurrent(sweep[s].conn)
    /\ UNCHANGED <<envVars, online, offline, stateVars, stale, claimVars, senderVars>>
-----------------------------------------------------------------------------
OnlineGoroutine(c) == OnlineLookupFails(c) \/ OnlineNotification(c)

OfflineGoroutine(c) ==
    \/ OfflineNotEnabled(c) \/ OfflineDecide(c) \/ OfflineIgnored(c) \/ OfflineMark(c)
    \/ GraceSuperseded(c) \/ GraceDefer(c) \/ GraceClaim(c)

Sweep(s) ==
    \/ SweepBegin(s) \/ SweepNotDue(s) \/ SweepStale(s) \/ SweepCheck(s) \/ SweepRequeue(s)
    \/ SweepWindowClear(s) \/ SweepSuperseded(s) \/ SweepClaim(s) \/ SweepSend(s)
    \/ SweepForget(s)

Transport ==
    \/ \E c \in Conns : WebSocketOpen(c) \/ WebSocketClose(c) \/ PostFirst(c) \/ PostExpire(c)
    \/ PostRefresh \/ ResetClientState

Next ==
    \/ Tick \/ EditWindows \/ Transport \/ Deliver
    \/ \E c \in Conns : OnlineGoroutine(c) \/ OfflineGoroutine(c)
    \/ \E s \in Sweepers : Sweep(s)

Spec == Init /\ [][Next]_vars

(***************************************************************************)
(* The Go scheduler runs every goroutine, the POST timer fires, and the    *)
(* minute job sweeps; nothing makes an agent connect or disconnect, nor an *)
(* operator edit.  Time is strongly fair: sweeps that begin again and      *)
(* again, which the model allows within one instant, cannot stop the clock.*)
(***************************************************************************)
Fairness ==
    /\ SF_vars(Tick)
    /\ WF_vars(Deliver)
    /\ \A c \in Conns : /\ WF_vars(OnlineGoroutine(c))
                        /\ WF_vars(OfflineGoroutine(c))
                        /\ WF_vars(PostExpire(c))
    /\ \A s \in Sweepers : WF_vars(Sweep(s))

FairSpec == Spec /\ Fairness
-----------------------------------------------------------------------------
TypeEnv ==
    /\ now \in Nat
    /\ windows \in WindowSets
    /\ opened \in 0 .. MaxConns
    /\ transport \in [Conns -> {"ws", "post"}]
    /\ conn \in [Conns -> {"unborn", "open", "aborted", "ended", "retired"}]
    /\ postEntry \in 0 .. MaxConns
    /\ postDeadline \in Nat

OfflineStates == [pc : {"none", "ready", "decided", "grace", "done"},
                  since : Nat, suppress : BOOLEAN, until : Nat]

SweepStates == [pc : {"idle", "check", "window", "claim", "send", "forget"},
                now : Nat, conn : 0 .. MaxConns, deliverAt : Nat]

TypeProcesses ==
    /\ online \in [Conns -> {"none", "ready", "done"}]
    /\ offline \in [Conns -> OfflineStates]
    /\ sweep \in [Sweepers -> SweepStates]

TypeState ==
    /\ pendingOfflineSince \in BOOLEAN
    /\ isFirstConnection \in BOOLEAN
    /\ isConnExist \in BOOLEAN
    /\ connectionID \in 0 .. MaxConns
    /\ deferred \in [conn : 0 .. MaxConns, deliverAt : Nat]

TypeNotices ==
    /\ outbox \subseteq [event : {"offline", "online"}, conn : Conns]
    /\ failures \in 0 .. MaxFailures
    /\ outageReported \in BOOLEAN
    /\ stale \subseteq 0 .. MaxConns
    /\ claimed \in [Conns -> Nat]
    /\ delivered \in [Conns -> Nat]
    /\ refused \subseteq Conns

TypeOK == TypeEnv /\ TypeProcesses /\ TypeState /\ TypeNotices
-----------------------------------------------------------------------------
(***************************************************************************)
(* The marker tells the truth: the next recorded connection is announced   *)
(* as a recovery exactly when the outage before it was claimed for         *)
(* reporting (offline.go's rules 1 to 3 and the claim in                   *)
(* sendDeferredOfflineAlert agree across every interleaving).              *)
(***************************************************************************)
RecoveryMatchesReport == outageReported <=> RecoveryDue

(***************************************************************************)
(* No outage is swallowed: while an outage is pending, a grace goroutine   *)
(* or the deferred queue still carries it, unless its deferral went stale. *)
(* Overlapping sweeps, reconnects and re-queues never lose the entry.      *)
(***************************************************************************)
PendingTracked ==
    pendingOfflineSince =>
        \E c \in Conns : /\ connectionID = c
                        /\ \/ offline[c].pc = "grace"
                           \/ deferred.conn = c
                           \/ c \in stale

(***************************************************************************)
(* One outage produces one offline notice, however many sweeps, re-queues  *)
(* and retries handle it.                                                  *)
(***************************************************************************)
OneReportPerOutage == \A c \in Conns : delivered[c] <= 1

Claims(c) == claimed'[c] # claimed[c]

(***************************************************************************)
(* An offline alert waits for the configured grace period, also when it    *)
(* was deferred by one window, or re-queued for another.                   *)
(***************************************************************************)
GraceRespected ==
    [][\A c \in Conns : Claims(c) => now >= offline[c].since + GracePeriod]_vars

(***************************************************************************)
(* An offline alert waits for any active maintenance window: none is       *)
(* claimed at an instant at which a window covers the node.                *)
(***************************************************************************)
NoAlertInsideWindow ==
    [][\A c \in Conns : Claims(c) => ~Suppressed(now, Node, windows)]_vars

Reporting(d) ==
    /\ conn[d] = "open" /\ online[d] = "done"
    /\ transport[d] = "post" => now < postDeadline

(***************************************************************************)
(* A node that came back needs no alert: none is claimed while a recorded  *)
(* connection of the node is open.                                         *)
(***************************************************************************)
NoAlertWhileReporting ==
    [][\A c \in Conns : Claims(c) => ~\E d \in Conns : Reporting(d)]_vars

(***************************************************************************)
(* A lasting outage is reported: when the node's newest connection has     *)
(* ended and no other follows, the provider gets an offline notice, unless *)
(* the deferral went stale or the provider refused the notice of a grace   *)
(* goroutine, which nothing sends again.  A deferred alert whose send      *)
(* failed is sent again by a later sweep.                                  *)
(***************************************************************************)
LastingOutageReported ==
    \A c \in Conns : (conn[c] = "ended" /\ opened = c)
                        ~> (delivered[c] > 0 \/ opened > c \/ c \in stale \/ c \in refused)
=============================================================================
