--------------------------- MODULE TerminalSessions ---------------------------
(***************************************************************************)
(* One terminal session between a browser and an agent's shell              *)
(* (web/api/terminal; agent/terminal and agent/server/websocket.go).        *)
(*                                                                          *)
(* The panel pairs a browser's connection with an agent's and forwards      *)
(* between them.  When either ends it suspends the session: both ends are   *)
(* closed, a timer will delete it, and a browser that returns has the agent *)
(* dial again.  The agent keeps the shell for as long without a connection. *)
(*                                                                          *)
(* Connections are closed after the locks are released, a close handler     *)
(* runs only inside a reader, and a timer that has fired can no longer be   *)
(* stopped.  Timers may fire at any time: nothing here compares times.      *)
(* Session ids are random, so an id names one session.                      *)
(***************************************************************************)
EXTENDS Naturals, Sequences

CONSTANTS
    Browsers,   \* connections of browsers
    AgentConns, \* connections that the agent dials
    NoEnd,     \* nil
    MaxMishaps  \* bound: connections that break, agents that are offline, timers
                \* that fire, shells that exit, closes and retirements

ASSUME NoEndIsNone == NoEnd \notin Browsers \cup AgentConns
ASSUME ConnectionsDiffer == Browsers \cap AgentConns = {}
ASSUME MishapsAreFinite == MaxMishaps \in Nat

VARIABLES
    termSession,  \* the session's entry in TerminalSessions: none, open or gone
    browserEnd,   \* session.Browser
    agentEnd,     \* session.Agent
    forwarding,   \* session.Forwarding
    cleanup,      \* session.CleanupTimer is running
    cleanupFired, \* its callback waits for TerminalSessionsMutex
    browserStage, \* per connection: where RequestTerminal is
    agentStage,   \* per connection: where EstablishConnection is
    forwarder,    \* per pair of connections: where ForwardTerminal is
    termRequests, \* terminal requests on their way to the agent
    closing,      \* connections that somebody is about to close
    ended,        \* connections that have ended
    told,         \* agent connections on which the browser's close was sent
    dial,         \* agent, per connection: where establishTerminalConnection is
    shellOf,      \* agent: the shell object that the connection was given
    shells,       \* agent: shell objects so far, which are numbered
    current,      \* agent: sessions[requestID], 0 for none
    shellConn,    \* agent: conn of each shell object
    shellTimer,   \* agent: timer of each shell object
    timerFired,   \* agent: shells whose fired timer has yet to run
    leaving,      \* agent: shells deleted from sessions and not closed yet
    removed,      \* agent: shells that are closed
    mishaps       \* such events so far

panelTerm == <<termSession, browserEnd, agentEnd, forwarding, cleanup, cleanupFired,
               browserStage, agentStage, forwarder, termRequests>>
wireTerm == <<closing, ended, told>>
agentTerm == <<dial, shellOf, shells, current, shellConn, shellTimer, timerFired,
               leaving, removed>>
terminalVars == <<panelTerm, wireTerm, agentTerm, mishaps>>

Pairs == Browsers \X AgentConns

TerminalInit ==
    /\ termSession = "none" /\ browserEnd = NoEnd /\ agentEnd = NoEnd
    /\ forwarding = FALSE /\ cleanup = FALSE /\ cleanupFired = FALSE
    /\ browserStage = [b \in Browsers |-> "idle"]
    /\ agentStage = [a \in AgentConns |-> "idle"]
    /\ forwarder = [p \in Pairs |-> "none"]
    /\ termRequests = 0 /\ closing = {} /\ ended = {} /\ told = {}
    /\ dial = [a \in AgentConns |-> "none"] /\ shellOf = [a \in AgentConns |-> 0]
    /\ shells = 0 /\ current = 0
    /\ shellConn = <<>> /\ shellTimer = <<>>
    /\ timerFired = {} /\ leaving = {} /\ removed = {} /\ mishaps = 0

-----------------------------------------------------------------------------
(* The panel's critical sections. *)

Mishap == mishaps < MaxMishaps /\ mishaps' = mishaps + 1

BrowserGoes(b, stage) == browserStage' = [browserStage EXCEPT ![b] = stage]
AgentGoes(a, stage) == agentStage' = [agentStage EXCEPT ![a] = stage]
ForwarderGoes(b, a, stage) == forwarder' = [forwarder EXCEPT ![<<b, a>>] = stage]

SessionEnds == ({browserEnd, agentEnd} \ {NoEnd}) \ ended
Paired == browserEnd # NoEnd /\ agentEnd # NoEnd

\* The entry goes with its ends: closeSession, CloseClientSessions and the
\* cleanup.
RemoveSession ==
    IF termSession = "open"
    THEN /\ termSession' = "gone" /\ closing' = closing \cup SessionEnds
         /\ browserEnd' = NoEnd /\ agentEnd' = NoEnd
    ELSE UNCHANGED <<termSession, closing, browserEnd, agentEnd>>

\* closeSession stops the timer as well.
CloseSession ==
    /\ RemoveSession
    /\ cleanup' = (cleanup /\ termSession # "open")
    /\ UNCHANGED <<forwarding, cleanupFired>>

\* What a suspension does; a mutant starts no cleanup.
SuspendedForGood ==
    /\ closing' = closing \cup SessionEnds
    /\ browserEnd' = NoEnd /\ agentEnd' = NoEnd /\ forwarding' = FALSE
    /\ UNCHANGED <<termSession, cleanup, cleanupFired>>

Suspended ==
    /\ closing' = closing \cup SessionEnds
    /\ browserEnd' = NoEnd /\ agentEnd' = NoEnd /\ forwarding' = FALSE
    /\ cleanup' = TRUE
    /\ UNCHANGED <<termSession, cleanupFired>>

\* suspendSession without its comparison of the pair (mutant of Suspend).
SuspendAny(b, a) ==
    IF termSession = "open" THEN Suspended
    ELSE UNCHANGED <<termSession, browserEnd, agentEnd, forwarding, cleanup,
                     cleanupFired, closing>>

\* suspendSession: only while the connections given are the session's.
Suspend(b, a) ==
    IF termSession = "open" /\ b \in {NoEnd, browserEnd} /\ a \in {NoEnd, agentEnd}
    THEN Suspended
    ELSE UNCHANGED <<termSession, browserEnd, agentEnd, forwarding, cleanup,
                     cleanupFired, closing>>

\* maybeStartForwarding, at the end of a handler.
MaybeStartForwarding ==
    IF termSession = "open" /\ Paired /\ ~forwarding
    THEN forwarding' = TRUE /\ ForwarderGoes(browserEnd, agentEnd, "start")
    ELSE UNCHANGED <<forwarding, forwarder>>

-----------------------------------------------------------------------------
(* RequestTerminal: a browser asks for a session, or returns to it. *)

OpenTerminal(b) ==
    /\ browserStage[b] = "idle" /\ termSession = "none"
    /\ termSession' = "open" /\ browserEnd' = b /\ cleanup' = TRUE
    /\ BrowserGoes(b, "created")
    /\ UNCHANGED <<agentEnd, forwarding, cleanupFired, agentStage, forwarder,
                   termRequests, wireTerm, agentTerm, mishaps>>

\* An end that joins stops a running cleanup when the other is there.
StopCleanup(other) == cleanup' = (cleanup /\ other = NoEnd)

\* attachBrowser: the browser before it is closed.
AttachBrowser(b) ==
    /\ browserStage[b] = "idle" /\ termSession # "none"
    /\ IF termSession = "open"
       THEN /\ browserEnd' = b /\ forwarding' = FALSE /\ StopCleanup(agentEnd)
            /\ closing' = closing \cup (({browserEnd} \ {NoEnd}) \ ended)
            /\ BrowserGoes(b, "returned")
       ELSE /\ closing' = closing \cup {b} /\ BrowserGoes(b, "over")
            /\ UNCHANGED <<browserEnd, forwarding, cleanup>>
    /\ UNCHANGED <<termSession, agentEnd, cleanupFired, agentStage, forwarder,
                   termRequests, ended, told, agentTerm, mishaps>>

\* dispatchTerminalRequest: the agent is asked to dial, or it is offline.
DispatchTerminal(b) ==
    /\ browserStage[b] \in {"created", "returned"}
    /\ \/ /\ termRequests' = termRequests + 1
          /\ BrowserGoes(b, IF browserStage[b] = "returned" THEN "join" ELSE "over")
          /\ UNCHANGED mishaps
       \/ Mishap /\ BrowserGoes(b, "offline") /\ UNCHANGED termRequests
    /\ UNCHANGED <<termSession, browserEnd, agentEnd, forwarding, cleanup, cleanupFired,
                   agentStage, forwarder, wireTerm, agentTerm>>

\* The session goes when its agent is offline.
AgentOffline(b) ==
    /\ browserStage[b] = "offline" /\ BrowserGoes(b, "over")
    /\ CloseSession
    /\ UNCHANGED <<agentStage, forwarder, termRequests, ended, told, agentTerm, mishaps>>

BrowserJoins(b) ==
    /\ browserStage[b] = "join" /\ BrowserGoes(b, "over")
    /\ MaybeStartForwarding
    /\ UNCHANGED <<termSession, browserEnd, agentEnd, cleanup, cleanupFired, agentStage,
                   termRequests, wireTerm, agentTerm, mishaps>>

-----------------------------------------------------------------------------
(* EstablishConnection: the agent dials. *)

\* The session must be there and have a browser; else the dial fails, as it may
\* for other reasons.
DialTerminal(a) ==
    /\ termRequests > 0 /\ agentStage[a] = "idle"
    /\ termRequests' = termRequests - 1
    /\ \/ /\ termSession = "open" /\ browserEnd # NoEnd
          /\ AgentGoes(a, "checked") /\ dial' = [dial EXCEPT ![a] = "dialled"]
       \/ UNCHANGED <<agentStage, dial>>
    /\ UNCHANGED <<termSession, browserEnd, agentEnd, forwarding, cleanup, cleanupFired,
                   browserStage, forwarder, wireTerm, shellOf, shells, current,
                   shellConn, shellTimer, timerFired, leaving, removed, mishaps>>

\* attachAgent, under the node's operation: the agent's connection before it is
\* closed.
AttachAgent(a) ==
    /\ agentStage[a] = "checked" /\ termSession = "open"
    /\ agentEnd' = a /\ forwarding' = FALSE /\ StopCleanup(browserEnd)
    /\ closing' = closing \cup (({agentEnd} \ {NoEnd}) \ ended)
    /\ AgentGoes(a, "join")
    /\ UNCHANGED <<termSession, browserEnd, cleanupFired, browserStage, forwarder,
                   termRequests, ended, told, agentTerm, mishaps>>

\* An attachment that is refused and leaves the connection open (mutant of
\* RefuseAgent).
RefuseSilently(a) ==
    /\ agentStage[a] = "checked" /\ AgentGoes(a, "over")
    /\ UNCHANGED <<termSession, browserEnd, agentEnd, forwarding, cleanup, cleanupFired,
                   browserStage, forwarder, termRequests, wireTerm, agentTerm, mishaps>>

\* The session has gone, or the node's credential has.
RefuseAgent(a) ==
    /\ agentStage[a] = "checked" /\ AgentGoes(a, "over")
    /\ closing' = closing \cup ({a} \ ended)
    /\ UNCHANGED <<termSession, browserEnd, agentEnd, forwarding, cleanup, cleanupFired,
                   browserStage, forwarder, termRequests, ended, told, agentTerm, mishaps>>

AgentJoins(a) ==
    /\ agentStage[a] = "join" /\ AgentGoes(a, "over")
    /\ MaybeStartForwarding
    /\ UNCHANGED <<termSession, browserEnd, agentEnd, cleanup, cleanupFired, browserStage,
                   termRequests, wireTerm, agentTerm, mishaps>>

-----------------------------------------------------------------------------
(* ForwardTerminal. *)

\* A forwarder whose pair has been replaced does not begin to read.
ForwarderStarts(b, a) ==
    /\ forwarder[<<b, a>>] = "start"
    /\ ForwarderGoes(b, a, IF termSession = "open" /\ browserEnd = b /\ agentEnd = a
                           THEN "run" ELSE "void")
    /\ UNCHANGED <<termSession, browserEnd, agentEnd, forwarding, cleanup, cleanupFired,
                   browserStage, agentStage, termRequests, wireTerm, agentTerm, mishaps>>

\* A read or a write fails.
ForwarderErrs(b, a) ==
    /\ forwarder[<<b, a>>] = "run" /\ {b, a} \cap ended # {}
    /\ ForwarderGoes(b, a, "failed")
    /\ UNCHANGED <<termSession, browserEnd, agentEnd, forwarding, cleanup, cleanupFired,
                   browserStage, agentStage, termRequests, wireTerm, agentTerm, mishaps>>

\* The browser's close is passed on, and ends the session whichever pair it has.
ForwarderCloses(b, a) ==
    /\ Mishap /\ forwarder[<<b, a>>] = "run" /\ b \notin ended
    /\ told' = IF a \in ended THEN told ELSE told \cup {a}
    /\ CloseSession
    /\ ForwarderGoes(b, a, "failed")
    /\ UNCHANGED <<browserStage, agentStage, termRequests, ended, agentTerm>>

ForwarderSuspends(b, a) ==
    /\ forwarder[<<b, a>>] = "failed" /\ ForwarderGoes(b, a, "done")
    /\ Suspend(b, a)
    /\ UNCHANGED <<browserStage, agentStage, termRequests, ended, told, agentTerm, mishaps>>

\* The close handler of a connection, which a reader of it calls; the readers of
\* a forwarder outlive it until their own connection fails.
Reading(b, a) == forwarder[<<b, a>>] \in {"run", "failed", "done"}

BrowserCloseHandler(b, a) ==
    /\ Reading(b, a) /\ b \in ended /\ browserEnd = b
    /\ Suspend(b, NoEnd)
    /\ UNCHANGED <<browserStage, agentStage, forwarder, termRequests, ended, told, agentTerm, mishaps>>

AgentCloseHandler(b, a) ==
    /\ Reading(b, a) /\ a \in ended /\ agentEnd = a
    /\ Suspend(NoEnd, a)
    /\ UNCHANGED <<browserStage, agentStage, forwarder, termRequests, ended, told, agentTerm, mishaps>>

-----------------------------------------------------------------------------
(* The cleanup, retirement and connections. *)

CleanupFires ==
    /\ Mishap /\ cleanup /\ cleanup' = FALSE /\ cleanupFired' = TRUE
    /\ UNCHANGED <<termSession, browserEnd, agentEnd, forwarding, browserStage, agentStage,
                   forwarder, termRequests, wireTerm, agentTerm>>

\* The callback deletes the session as it finds it, attached or not.
CleanupRuns ==
    /\ cleanupFired /\ cleanupFired' = FALSE
    /\ RemoveSession
    /\ UNCHANGED <<forwarding, cleanup, browserStage, agentStage, forwarder, termRequests,
                   ended, told, agentTerm, mishaps>>

\* CloseClientSessions: the node was deleted or has a new token.
CloseClientSessions ==
    /\ Mishap /\ termSession = "open" /\ CloseSession
    /\ UNCHANGED <<browserStage, agentStage, forwarder, termRequests, ended, told, agentTerm>>

InUse == {b \in Browsers : browserStage[b] # "idle"}
         \cup {a \in AgentConns : agentStage[a] # "idle"}

\* A connection is closed by whoever is about to, or breaks.
ConnectionEnds(c) ==
    /\ c \in InUse \ ended
    /\ \/ c \in closing /\ UNCHANGED mishaps
       \/ c \notin closing /\ Mishap
    /\ ended' = ended \cup {c} /\ closing' = closing \ {c}
    /\ UNCHANGED <<panelTerm, told, agentTerm>>

-----------------------------------------------------------------------------
(* The agent: acquireSession, handleInput, readOutput, detach, closeSession. *)

DialGoes(a, stage) == dial' = [dial EXCEPT ![a] = stage]

\* A connection takes a shell over, and closes the one before it.
Take(a, s) ==
    /\ DialGoes(a, "reading") /\ shellOf' = [shellOf EXCEPT ![a] = s]
    /\ shellConn' = [shellConn EXCEPT ![s] = a]
    /\ shellTimer' = [shellTimer EXCEPT ![s] = "none"]
    /\ closing' = closing \cup (({shellConn[s]} \ {NoEnd}) \ ended)

\* A shell is made without the lock when there is none.
AcquireShell(a) ==
    /\ dial[a] = "dialled"
    /\ IF current # 0 THEN Take(a, current)
       ELSE DialGoes(a, "making") /\ UNCHANGED <<shellOf, shellConn, shellTimer, closing>>
    /\ UNCHANGED <<panelTerm, ended, told, shells, current, timerFired, leaving, removed, mishaps>>

\* The shell of another connection that was made first is taken instead.
AcquireMade(a) ==
    /\ dial[a] = "making"
    /\ IF current # 0 THEN Take(a, current) /\ UNCHANGED <<shells, current>>
       ELSE /\ shells' = shells + 1 /\ current' = shells + 1
            /\ DialGoes(a, "reading") /\ shellOf' = [shellOf EXCEPT ![a] = shells + 1]
            /\ shellConn' = Append(shellConn, a) /\ shellTimer' = Append(shellTimer, "none")
            /\ UNCHANGED closing
    /\ UNCHANGED <<panelTerm, ended, told, timerFired, leaving, removed, mishaps>>

\* detach of a connection that is not the shell's any more (mutant of Detach).
DetachAny(s, a) ==
    IF s \in removed THEN UNCHANGED <<shellConn, shellTimer>>
    ELSE /\ shellConn' = [shellConn EXCEPT ![s] = NoEnd] /\ UNCHANGED shellTimer

\* detach: the shell is kept until its timer fires.
Detach(s, a) ==
    IF s \in removed \/ shellConn[s] # a THEN UNCHANGED <<shellConn, shellTimer>>
    ELSE /\ shellConn' = [shellConn EXCEPT ![s] = NoEnd]
         /\ shellTimer' = [shellTimer EXCEPT ![s] = IF @ = "none" THEN "armed" ELSE @]

InputEnds(a) ==
    /\ dial[a] = "reading" /\ a \in ended /\ DialGoes(a, "over")
    /\ Detach(shellOf[a], a)
    /\ UNCHANGED <<panelTerm, wireTerm, shellOf, shells, current, timerFired, leaving, removed, mishaps>>

\* A write of the shell's output fails.
OutputFails(s) ==
    /\ shellConn[s] \in ended /\ Detach(s, shellConn[s])
    /\ UNCHANGED <<panelTerm, wireTerm, dial, shellOf, shells, current, timerFired,
                   leaving, removed, mishaps>>

\* closeSession, first under sessionsMu and then under the shell's lock.
LeaveSessions(s) ==
    IF current = s THEN current' = 0 /\ leaving' = leaving \cup {s}
    ELSE UNCHANGED <<current, leaving>>

CloseReceived(a) ==
    /\ dial[a] = "reading" /\ a \in told /\ DialGoes(a, "over")
    /\ LeaveSessions(shellOf[a]) /\ closing' = closing \cup ({a} \ ended)
    /\ UNCHANGED <<panelTerm, ended, told, shellOf, shells, shellConn, shellTimer,
                   timerFired, removed, mishaps>>

ShellExits(s) ==
    /\ Mishap /\ current = s /\ LeaveSessions(s)
    /\ UNCHANGED <<panelTerm, wireTerm, dial, shellOf, shells, shellConn, shellTimer,
                   timerFired, removed>>

ShellTimerFires(s) ==
    /\ Mishap /\ shellTimer[s] = "armed" /\ shellTimer' = [shellTimer EXCEPT ![s] = "fired"]
    /\ timerFired' = timerFired \cup {s}
    /\ UNCHANGED <<panelTerm, wireTerm, dial, shellOf, shells, current, shellConn,
                   leaving, removed>>

ShellTimerRuns(s) ==
    /\ s \in timerFired /\ timerFired' = timerFired \ {s}
    /\ LeaveSessions(s)
    /\ UNCHANGED <<panelTerm, wireTerm, dial, shellOf, shells, shellConn, shellTimer, removed, mishaps>>

CloseShell(s) ==
    /\ s \in leaving /\ leaving' = leaving \ {s} /\ removed' = removed \cup {s}
    /\ shellTimer' = [shellTimer EXCEPT ![s] = "none"]
    /\ closing' = closing \cup (({shellConn[s]} \ {NoEnd}) \ ended)
    /\ shellConn' = [shellConn EXCEPT ![s] = NoEnd]
    /\ UNCHANGED <<panelTerm, ended, told, dial, shellOf, shells, current, timerFired, mishaps>>

TerminalNext ==
    \/ \E b \in Browsers : \/ OpenTerminal(b) \/ AttachBrowser(b) \/ DispatchTerminal(b)
                           \/ AgentOffline(b) \/ BrowserJoins(b)
    \/ \E a \in AgentConns : \/ DialTerminal(a) \/ AttachAgent(a) \/ RefuseAgent(a)
                             \/ AgentJoins(a)
                             \/ AcquireShell(a) \/ AcquireMade(a) \/ InputEnds(a)
                             \/ CloseReceived(a)
    \/ \E b \in Browsers, a \in AgentConns :
         \/ ForwarderStarts(b, a) \/ ForwarderErrs(b, a) \/ ForwarderCloses(b, a)
         \/ ForwarderSuspends(b, a) \/ BrowserCloseHandler(b, a) \/ AgentCloseHandler(b, a)
    \/ CleanupFires \/ CleanupRuns \/ CloseClientSessions
    \/ \E c \in Browsers \cup AgentConns : ConnectionEnds(c)
    \/ \E s \in 1..shells : \/ OutputFails(s) \/ ShellExits(s) \/ ShellTimerFires(s)
                            \/ ShellTimerRuns(s) \/ CloseShell(s)

TerminalSpec == TerminalInit /\ [][TerminalNext]_terminalVars

-----------------------------------------------------------------------------
(* Properties. *)

\* The state keeps its shape; a session that is not open has no ends, no cleanup
\* runs against a session that has both, and a shell is in the map, on its way out
\* or closed.
TerminalTypeOK ==
    /\ termSession \in {"none", "open", "gone"}
    /\ browserEnd \in Browsers \cup {NoEnd} /\ agentEnd \in AgentConns \cup {NoEnd}
    /\ termSession # "open" => SessionEnds = {}
    /\ cleanup => ~Paired
    /\ {forwarding, cleanup, cleanupFired} \subseteq BOOLEAN
    /\ browserStage \in [Browsers -> {"idle", "created", "returned", "offline", "join", "over"}]
    /\ agentStage \in [AgentConns -> {"idle", "checked", "join", "over"}]
    /\ forwarder \in [Pairs -> {"none", "start", "run", "failed", "done", "void"}]
    /\ termRequests \in Nat
    /\ closing \subseteq InUse \ ended /\ ended \subseteq InUse /\ told \subseteq AgentConns
    /\ dial \in [AgentConns -> {"none", "dialled", "making", "reading", "over"}]
    /\ shells \in Nat /\ current \in 0..shells /\ shellOf \in [AgentConns -> 0..shells]
    /\ shellConn \in [1..shells -> AgentConns \cup {NoEnd}]
    /\ shellTimer \in [1..shells -> {"none", "armed", "fired"}]
    /\ 1..shells = ({current} \ {0}) \cup leaving \cup removed
    /\ timerFired \subseteq 1..shells /\ mishaps \in 0..MaxMishaps

\* A session does not stay in TerminalSessions for good: its cleanup is due, or
\* its ends are paired and somebody forwards between them, or is about to.
SessionWillEnd ==
    termSession = "open" =>
        \/ cleanup \/ cleanupFired
        \/ /\ Paired
           /\ \/ forwarder[<<browserEnd, agentEnd>>] \in {"start", "run", "failed"}
              \/ \E b \in Browsers : browserStage[b] \in {"returned", "offline", "join"}
              \/ \E a \in AgentConns : agentStage[a] = "join"

\* A forwarder, a close handler or a reader of an earlier pair never suspends a
\* session whose two ends are both alive.
LivePairKept ==
    [][termSession = "open" /\ Paired /\ {browserEnd, agentEnd} \cap (ended \cup closing) = {}
         => termSession' = "gone" \/ (browserEnd' # NoEnd /\ agentEnd' # NoEnd)]_terminalVars

\* An agent's shell is not kept for good: it is being closed, it will be when its
\* timer fires, or somebody reads the connection it is attached to.
ShellWillEnd ==
    \A s \in (1..shells) \ (removed \cup leaving) :
        \/ s \in timerFired \/ shellTimer[s] = "armed"
        \/ /\ shellConn[s] # NoEnd
           /\ dial[shellConn[s]] = "reading" /\ shellOf[shellConn[s]] = s

\* No shell stays attached once the panel has dropped its session, whether by
\* close, retirement or the cleanup and however late the agent dials: its
\* connection has ended or will be closed.
NoShellWithoutSession ==
    termSession = "gone" =>
        \A s \in (1..shells) \ removed :
            shellConn[s] \in {NoEnd} \cup ended \cup closing
                              \cup {a \in AgentConns : agentStage[a] = "checked"}
=============================================================================
