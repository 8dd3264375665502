---------------------------- MODULE AgentEvents ----------------------------
(***************************************************************************)
(* How the panel delivers commands to one node (web/agent/v2_events.go,     *)
(* web/agent/connections.go, web/api/client/report_v2.go) and how the       *)
(* node's agent receives them (agent/server/websocket.go).                  *)
(*                                                                          *)
(* A command is written to the node's registered socket; when that fails,   *)
(* or there is none, it is queued for the next reconnect (which pushes the  *)
(* queue to the socket) or for the POST fallback (whose pulls and reports   *)
(* carry events down and acknowledgements up).  Rotating the node's token   *)
(* retires the socket, the v2 mark and the queue.  The agent's process may   *)
(* end at any moment, as it does after every update it installs, and what   *)
(* it has run and has to acknowledge is in its memory only.                 *)
(*                                                                          *)
(* One action is one critical section: a dispatch reads the registry under  *)
(* mu, writes outside it and takes mu again to enqueue; a long poll drops   *)
(* the queue lock while it waits; a socket handler and a POST handler pass  *)
(* the node's admission gate for each effect.                               *)
(***************************************************************************)
EXTENDS Integers, FiniteSets

CONSTANTS
    Commands,      \* calls of DispatchV2Event for this node, one per command
    Key,           \* [Commands -> keys]: v2EventCoalesceKey of each command
    NoKey,         \* the empty coalescing key
    QueueLimit,    \* v2EventQueueLimit: 128 in the code
    ReportTake,    \* events one report answer carries: 8 in the code
    MaxConns,      \* bound: sockets the agent dials
    MaxRotations,  \* bound: token rotations
    MayPost,       \* TRUE when the agent may fall back to POST
    FaultKinds,    \* faults: {"drop", "call", "lookup", "expiry", "timeout", "restart"}
    MaxFaults      \* bound: how many of them occur

ASSUME CommandsFinite == IsFiniteSet(Commands)
ASSUME KeyTyped == DOMAIN Key = Commands
ASSUME LimitsPositive == QueueLimit \in Nat \ {0} /\ ReportTake \in Nat \ {0}
ASSUME BoundsNatural == MaxConns \in Nat /\ MaxRotations \in Nat /\ MaxFaults \in Nat
ASSUME MayPostBoolean == MayPost \in BOOLEAN

VARIABLES
    token,     \* how often the node's credential was rotated: the valid token
    gate,      \* clientguard: "rotation" while one has committed and not yet reset
    registry,  \* connectedClients, v2Clients, and v2Generation in "minted"
    queue,     \* v2EventQueues: id 0 is no queue; signal changes when closed
    queues,    \* number of queues made so far
    order,     \* [Commands -> Nat]: position of the event minted for it, or 0
    dispatch,  \* [Commands -> record]: the goroutine of each DispatchV2Event
    socket,    \* [Conns -> net state]: "dead" when only the agent has gone,
               \* "broken" once a write to it failed
    handler,   \* [Conns -> record]: WebSocketV2RPC of each socket
    wire,      \* [Conns -> SUBSET Commands]: written and not yet read
    call,      \* [Calls -> record]: the pull and the report in flight
    agent,     \* the agent process: its token, link, and event bookkeeping
    executed,  \* [Commands -> Nat]: how often the agent ran each command
    written,   \* history: commands some socket write reported as sent
    forgotten, \* history, [Commands -> Nat]: how often the agent's process ended
               \* after it ran the command from an answer, with the command still
               \* queued: its acknowledgement had not reached the panel
    faults     \* faults so far

credVars == <<token, gate>>
queueVars == <<queue, queues, order>>
socketVars == <<socket, handler, wire>>
postVars == <<call, agent>>
runVars == <<executed, written, forgotten>>
vars == <<credVars, registry, queueVars, dispatch, socketVars, postVars, runVars, faults>>

Conns == 1..MaxConns
Calls == {"pull", "report"}
Tokens == 0..MaxRotations

NoQueue == [id |-> 0, events |-> {}, signal |-> 0]
Idle == [pc |-> "idle", token |-> 0, acks |-> {}, queue |-> 0, signal |-> 0, events |-> {}]
NewAgent(t) == [token |-> t, conn |-> 0, mode |-> "socket", acks |-> {}, seen |-> {}]

\* The credential epoch of what the panel keeps for the node: the token is
\* replaced in the database before the node's runtime state is reset.
Epoch == IF gate = "rotation" THEN token - 1 ELSE token

\* Events minted so far; also the name of the newest signal channel.
Minted == Cardinality({c \in Commands : order[c] > 0})

Oldest(S, n) == {c \in S : Cardinality({d \in S : order[d] < order[c]}) < n}
Newest(S, n) == {c \in S : Cardinality({d \in S : order[d] > order[c]}) < n}

Fault(kind) == kind \in FaultKinds /\ faults < MaxFaults /\ faults' = faults + 1
NoFault == faults' = faults

Init ==
    /\ token = 0 /\ gate = "open"
    /\ registry = [conn |-> 0, v2 |-> 0, minted |-> 0]
    /\ queue = NoQueue /\ queues = 0
    /\ order = [c \in Commands |-> 0]
    /\ dispatch = [c \in Commands |-> [pc |-> "new", conn |-> 0, gen |-> 0, epoch |-> 0]]
    /\ socket = [s \in Conns |-> "unborn"]
    /\ handler = [s \in Conns |-> [pc |-> "unborn", token |-> 0, old |-> 0, todo |-> {}, sent |-> {}]]
    /\ wire = [s \in Conns |-> {}]
    /\ call = [k \in Calls |-> Idle]
    /\ agent = NewAgent(0)
    /\ executed = [c \in Commands |-> 0]
    /\ written = {} /\ forgotten = [c \in Commands |-> 0] /\ faults = 0

-----------------------------------------------------------------------------
(* The event queue. *)

\* MarkV2Client: the node gets a generation unless it has one.
Mark(r) == IF r.v2 = 0 THEN [r EXCEPT !.v2 = r.minted + 1, !.minted = @ + 1] ELSE r

\* getV2EventQueueLocked.
QueueId == IF queue.id = 0 THEN queues + 1 ELSE queue.id

\* Mutant: a new event leaves the signal channel open.
SameSignal == queue.signal

\* The channel closed and remade for a new event, named after the event.
NextSignal == Minted + 1

\* EnqueueV2Event: coalesce, append, drop the oldest beyond the limit, and
\* replace the signal channel so that every waiting poll wakes.
Enqueue(c) ==
    LET kept == {d \in queue.events : Key[c] = NoKey \/ Key[d] # Key[c]}
    IN  /\ queue' = [id |-> QueueId,
                     events |-> Newest(kept, QueueLimit - 1) \union {c},
                     signal |-> NextSignal]
        /\ queues' = IF queue.id = 0 THEN queues + 1 ELSE queues
        /\ order' = [order EXCEPT ![c] = Minted + 1]

\* AckV2Events, TakeV2Events' and PrepareV2EventWait's first half.
Ack(ids) == queue' = [queue EXCEPT !.events = @ \ ids]

\* An event outlives its TTL.  Every reader prunes under the queue lock before
\* it looks, so dropping it at once is what any of them sees.
Expire(c) ==
    /\ c \in queue.events
    /\ Fault("expiry")
    /\ Ack({c})
    /\ UNCHANGED <<credVars, registry, queues, order, dispatch, socketVars, postVars,
                   runVars>>

\* sweepV2EventQueues: an empty queue idle for five minutes is deleted; a poll
\* waits at most 25 seconds and refreshed lastUsed when it began.
Sweep ==
    /\ queue.id # 0 /\ queue.events = {}
    /\ call["pull"].pc \notin {"prepared", "waiting"}
    /\ queue' = NoQueue
    /\ UNCHANGED <<credVars, registry, queues, order, dispatch, socketVars, postVars,
                   runVars, faults>>

-----------------------------------------------------------------------------
(* DispatchV2Event. *)

\* The registry is read under mu.
DispatchRead(c) ==
    /\ dispatch[c].pc = "new"
    /\ dispatch' = [dispatch EXCEPT ![c] =
         [pc |-> IF registry.conn # 0 THEN "write" ELSE "enqueue",
          conn |-> registry.conn, gen |-> registry.v2, epoch |-> Epoch]]
    /\ UNCHANGED <<credVars, registry, queueVars, socketVars, postVars, runVars,
                   faults>>

\* WriteJSON to socket s.  A socket whose peer is gone may still accept the
\* bytes; they are lost.
WriteSucceeds(s, c) ==
    /\ socket[s] \in {"up", "dead"}
    /\ wire' = IF socket[s] = "up" THEN [wire EXCEPT ![s] = @ \union {c}] ELSE wire
    /\ written' = written \union {c}
    /\ UNCHANGED socket

\* A failed write leaves the connection broken: every later write fails too.
WriteFails(s) ==
    /\ socket[s] \in {"dead", "broken", "closed"}
    /\ socket' = [socket EXCEPT ![s] = IF @ = "dead" THEN "broken" ELSE @]
    /\ UNCHANGED <<wire, written>>

DispatchWrite(c) ==
    /\ dispatch[c].pc = "write"
    /\ \/ /\ WriteSucceeds(dispatch[c].conn, c)
          /\ dispatch' = [dispatch EXCEPT ![c].pc = "sent"]
       \/ /\ WriteFails(dispatch[c].conn)
          /\ dispatch' = [dispatch EXCEPT ![c].pc = "enqueue"]
    /\ UNCHANGED <<credVars, registry, queueVars, handler, postVars, executed, forgotten,
                   faults>>

\* Mutant: a mark of any generation will do.
SameConnection(c) == dispatch[c].gen # 0 /\ registry.conn = dispatch[c].conn

\* enqueueCurrentV2Event's test: what the dispatch read is still registered.
StillCurrent(c) ==
    /\ dispatch[c].gen # 0
    /\ registry.v2 = dispatch[c].gen
    /\ registry.conn = dispatch[c].conn

DispatchEnqueue(c) ==
    /\ dispatch[c].pc = "enqueue"
    /\ \/ /\ StillCurrent(c)
          /\ Enqueue(c)
          /\ dispatch' = [dispatch EXCEPT ![c].pc = "queued"]
       \/ /\ ~StillCurrent(c)
          /\ dispatch' = [dispatch EXCEPT ![c].pc = "refused"]
          /\ UNCHANGED queueVars
    /\ UNCHANGED <<credVars, registry, socketVars, postVars, runVars, faults>>

-----------------------------------------------------------------------------
(* Credential rotation, under the node's admission gate. *)

\* RotateClientTokenAndReset: the new token is committed ...
RotateCommit ==
    /\ gate = "open" /\ token < MaxRotations
    /\ token' = token + 1 /\ gate' = "rotation"
    /\ UNCHANGED <<registry, queueVars, dispatch, socketVars, postVars, runVars,
                   faults>>

\* ... then ResetClient forgets connection, mark and queue under mu, and aborts
\* the connection it removed.
RotateReset ==
    /\ gate = "rotation"
    /\ gate' = "open"
    /\ registry' = [registry EXCEPT !.conn = 0, !.v2 = 0]
    /\ queue' = NoQueue
    /\ socket' = [s \in Conns |-> IF s = registry.conn THEN "closed" ELSE socket[s]]
    /\ UNCHANGED <<token, queues, order, dispatch, handler, wire, postVars, runVars,
                   faults>>

-----------------------------------------------------------------------------
(* WebSocketV2RPC, the panel's handler of socket s. *)

\* ClientOperation admits under the gate when the token is still the node's;
\* a lookup that fails is reported as a retired credential.
TokenRefused(t) == \/ t # token /\ NoFault
                   \/ Fault("lookup")

\* currentOperation also requires the socket to be the registered one.
Admitted(s) == gate = "open" /\ handler[s].token = token /\ registry.conn = s /\ NoFault
Refused(s) == /\ gate = "open"
              /\ \/ TokenRefused(handler[s].token)
                 \/ registry.conn # s /\ NoFault

Goto(s, pc) == handler' = [handler EXCEPT ![s].pc = pc]
CloseSocket(s) == socket' = [socket EXCEPT ![s] = "closed"]

Setup(s) ==
    /\ handler[s].pc = "dialed" /\ gate = "open"
    /\ \/ /\ handler[s].token = token /\ NoFault
          /\ registry' = Mark([registry EXCEPT !.conn = s])
          /\ handler' = [handler EXCEPT ![s].pc = "abort", ![s].old = registry.conn]
          /\ UNCHANGED socket
       \/ /\ TokenRefused(handler[s].token)
          /\ Goto(s, "ended") /\ CloseSocket(s)
          /\ UNCHANGED registry
    /\ UNCHANGED <<credVars, queueVars, dispatch, wire, postVars, runVars>>

AbortOld(s) ==
    /\ handler[s].pc = "abort"
    /\ Goto(s, "reconcile")
    /\ socket' = [t \in Conns |-> IF t = handler[s].old THEN "closed" ELSE socket[t]]
    /\ UNCHANGED <<credVars, registry, queueVars, dispatch, wire, postVars, runVars,
                   faults>>

\* resendPersistedAgentUpdateTargetOperation, for its effect on the connection:
\* a refused admission ends the handler before its cleanup is deferred.
Reconcile(s) ==
    /\ handler[s].pc = "reconcile"
    /\ \/ Admitted(s) /\ Goto(s, "take") /\ UNCHANGED socket
       \/ Refused(s) /\ Goto(s, "ended") /\ CloseSocket(s)
    /\ UNCHANGED <<credVars, registry, queueVars, dispatch, wire, postVars, runVars>>

\* Mutant: no more than a report's answer carries.
OldestFew == Oldest(queue.events, ReportTake)

\* TakeV2Events with no limit.
WholeQueue == queue.events

\* pushQueuedV2Events takes a copy of the queue ...
PushTake(s) ==
    /\ handler[s].pc = "take"
    /\ \/ /\ Admitted(s)
          /\ handler' = [handler EXCEPT ![s].todo = WholeQueue,
                           ![s].pc = IF queue.events = {} THEN "serve" ELSE "push"]
       \/ Refused(s) /\ Goto(s, "cleanup")
    /\ UNCHANGED <<credVars, registry, queueVars, dispatch, socket, wire, postVars,
                   runVars>>

\* ... writes it in order without the gate, up to the first failure ...
PushWrite(s) ==
    /\ handler[s].pc = "push"
    /\ \E c \in Oldest(handler[s].todo, 1) :
         \/ /\ WriteSucceeds(s, c)
            /\ handler' = [handler EXCEPT ![s].todo = handler[s].todo \ {c},
                             ![s].sent = handler[s].sent \union {c},
                             ![s].pc = IF handler[s].todo = {c} THEN "ack" ELSE "push"]
         \/ WriteFails(s) /\ Goto(s, "ack")
    /\ UNCHANGED <<credVars, registry, queueVars, dispatch, postVars, executed,
                   forgotten, faults>>

\* Mutant: events after the failed write are acknowledged too.
AckTaken(s) == Ack(handler[s].sent \union handler[s].todo)

AckPushed(s) == Ack(handler[s].sent)

\* ... and acknowledges what was written.
PushAck(s) ==
    /\ handler[s].pc = "ack"
    /\ \/ /\ Admitted(s)
          /\ AckPushed(s)
          /\ Goto(s, IF handler[s].todo = {} THEN "serve" ELSE "cleanup")
       \/ Refused(s) /\ Goto(s, "cleanup") /\ UNCHANGED queue
    /\ UNCHANGED <<credVars, registry, queues, order, dispatch, socket, wire,
                   postVars, runVars>>

\* The read loop ends when the socket fails, or at a message whose admission
\* is refused.
ServeEnds(s) ==
    /\ handler[s].pc = "serve"
    /\ \/ socket[s] # "up" /\ NoFault
       \/ Refused(s)
    /\ Goto(s, "cleanup")
    /\ UNCHANGED <<credVars, registry, queueVars, dispatch, socket, wire, postVars,
                   runVars>>

\* Mutant: the generation is forgotten and the connection stays registered.
DeleteV2ClientOnly(s) ==
    IF registry.conn = s THEN [registry EXCEPT !.v2 = 0] ELSE registry

\* Mutant: whichever socket is registered is removed.
DeleteClient(s) == [registry EXCEPT !.conn = 0, !.v2 = 0]

DeleteClientConditionally(s) ==
    IF registry.conn = s THEN [registry EXCEPT !.conn = 0, !.v2 = 0] ELSE registry

\* The deferred DeleteClientConditionally, then the deferred Close.
Cleanup(s) ==
    /\ handler[s].pc = "cleanup"
    /\ registry' = DeleteClientConditionally(s)
    /\ Goto(s, "ended") /\ CloseSocket(s)
    /\ UNCHANGED <<credVars, queueVars, dispatch, wire, postVars, runVars, faults>>

Handler(s) == \/ Setup(s) \/ AbortOld(s) \/ Reconcile(s) \/ PushTake(s)
              \/ PushWrite(s) \/ PushAck(s) \/ ServeEnds(s) \/ Cleanup(s)

-----------------------------------------------------------------------------
(* The agent's socket. *)

\* connectWebSocket.  The report loop dials, so no report is outstanding; a
\* pull may be, and is cancelled with the fallback.
Dial(s) ==
    /\ agent.conn = 0 /\ agent.token = token
    /\ call["report"].pc = "idle"
    /\ socket[s] = "unborn" /\ \A t \in 1..(s - 1) : socket[t] # "unborn"
    /\ socket' = [socket EXCEPT ![s] = "up"]
    /\ handler' = [handler EXCEPT ![s].pc = "dialed", ![s].token = agent.token]
    /\ agent' = [agent EXCEPT !.conn = s, !.mode = "socket"]
    /\ UNCHANGED <<credVars, registry, queueVars, dispatch, wire, call, runVars,
                   faults>>

\* The network or the agent drops the link; what was in flight is gone.
LinkDrops(s) ==
    /\ agent.conn = s /\ socket[s] = "up"
    /\ Fault("drop")
    /\ socket' = [socket EXCEPT ![s] = "dead"]
    /\ wire' = [wire EXCEPT ![s] = {}]
    /\ agent' = [agent EXCEPT !.conn = 0]
    /\ UNCHANGED <<credVars, registry, queueVars, dispatch, handler, call, runVars>>

SeesClose(s) ==
    /\ agent.conn = s /\ socket[s] = "closed"
    /\ wire' = [wire EXCEPT ![s] = {}]
    /\ agent' = [agent EXCEPT !.conn = 0]
    /\ UNCHANGED <<credVars, registry, queueVars, dispatch, socket, handler, call,
                   runVars, faults>>

\* handleWebSocketMessages: a socket frame has no event id and is always run.
ReadFrame(s) ==
    /\ agent.conn = s
    /\ \E c \in wire[s] :
         /\ wire' = [wire EXCEPT ![s] = @ \ {c}]
         /\ executed' = [executed EXCEPT ![c] = @ + 1]
    /\ UNCHANGED <<credVars, registry, queueVars, dispatch, socket, handler,
                   postVars, written, forgotten, faults>>

\* A new process of the agent with token t: no link, no call and no memory.
StartProcess(t) ==
    /\ agent' = NewAgent(t)
    /\ call' = [k \in Calls |-> Idle]
    /\ socket' = [s \in Conns |-> IF s = agent.conn /\ socket[s] = "up" THEN "dead" ELSE socket[s]]
    /\ wire' = [s \in Conns |-> IF s = agent.conn THEN {} ELSE wire[s]]

\* An operator installs the new token.
Reinstall ==
    /\ agent.token # token /\ gate = "open"
    /\ StartProcess(token)
    /\ UNCHANGED <<credVars, registry, queueVars, dispatch, handler, runVars, faults>>

\* The process ends, by the exit after an installed update or a crash, and its
\* supervisor starts it on the token it had.
Restart ==
    /\ Fault("restart")
    /\ StartProcess(agent.token)
    /\ forgotten' = [c \in Commands |->
         IF c \in agent.seen \intersect queue.events THEN forgotten[c] + 1 ELSE forgotten[c]]
    /\ UNCHANGED <<credVars, registry, queueVars, dispatch, handler, executed, written>>

-----------------------------------------------------------------------------
(* The POST fallback: runPostFallback's reports and runV2PullLoop's pulls. *)

EnterPost ==
    /\ MayPost /\ agent.conn = 0 /\ agent.mode = "socket"
    /\ agent' = [agent EXCEPT !.mode = "post"]
    /\ UNCHANGED <<credVars, registry, queueVars, dispatch, socketVars, call,
                   runVars, faults>>

CallSend(k) ==
    /\ agent.mode = "post" /\ call[k].pc = "idle"
    /\ call' = [call EXCEPT ![k] =
                  [Idle EXCEPT !.pc = "sent", !.token = agent.token, !.acks = agent.acks]]
    /\ UNCHANGED <<credVars, registry, queueVars, dispatch, socketVars, agent,
                   runVars, faults>>

\* Mutant: what the answer will carry is acknowledged with it.
AckAnswered == Ack(call["report"].acks \union Oldest(queue.events, ReportTake))

\* The acknowledgements the report brought.
AckReported == Ack(call["report"].acks)

\* The admitted part of agent.report: ingesting it marks the node, then
\* TakeV2Events acknowledges and takes at most eight events.
ReportAdmit ==
    /\ call["report"].pc = "sent" /\ gate = "open" /\ call["report"].token = token
    /\ registry' = Mark(registry)
    /\ AckReported
    /\ call' = [call EXCEPT !["report"].pc = "taken",
                  !["report"].events = Oldest(queue.events \ call["report"].acks, ReportTake)]
    /\ UNCHANGED <<credVars, queues, order, dispatch, socketVars, agent, runVars,
                   faults>>

\* The admitted part of agent.pull: MarkV2Client, PrepareV2EventWait.
PullAdmit ==
    /\ call["pull"].pc = "sent" /\ gate = "open" /\ call["pull"].token = token
    /\ registry' = Mark(registry)
    /\ queue' = [queue EXCEPT !.id = QueueId, !.events = @ \ call["pull"].acks]
    /\ queues' = IF queue.id = 0 THEN queues + 1 ELSE queues
    /\ call' = [call EXCEPT !["pull"].pc = "prepared", !["pull"].queue = QueueId]
    /\ UNCHANGED <<credVars, order, dispatch, socketVars, agent, runVars, faults>>

\* Wait compares the queue with the one admitted before it reads events.
SameQueue == queue.id = call["pull"].queue

PullTakes(taken) ==
    call' = [call EXCEPT !["pull"].pc = "taken", !["pull"].events = taken]

\* V2EventWait.Wait, first critical section: answer or capture the signal.
PullCheck ==
    /\ call["pull"].pc = "prepared"
    /\ \/ ~SameQueue /\ PullTakes({})
       \/ SameQueue /\ queue.events # {} /\ PullTakes(queue.events)
       \/ /\ SameQueue /\ queue.events = {}
          /\ call' = [call EXCEPT !["pull"].pc = "waiting", !["pull"].signal = queue.signal]
    /\ UNCHANGED <<credVars, registry, queueVars, dispatch, socketVars, agent,
                   runVars, faults>>

\* V2EventWait.Wait, second critical section, on a closed signal or a timeout.
PullWake ==
    /\ call["pull"].pc = "waiting"
    /\ \/ (~SameQueue \/ queue.signal # call["pull"].signal) /\ NoFault
       \/ Fault("timeout")
    /\ PullTakes(IF SameQueue THEN queue.events ELSE {})
    /\ UNCHANGED <<credVars, registry, queueVars, dispatch, socketVars, agent,
                   runVars>>

\* UploadV2RPC rechecks the credential before it replies.
CallReply(k) ==
    /\ call[k].pc = "taken" /\ gate = "open" /\ call[k].token = token
    /\ call' = [call EXCEPT ![k].pc = "answered"]
    /\ UNCHANGED <<credVars, registry, queueVars, dispatch, socketVars, agent,
                   runVars, faults>>

\* A refusal, a lost request or answer, or a pull cancelled by the return of
\* the socket: the agent keeps its acknowledgements.
CallFails(k) ==
    /\ \/ call[k].pc \in {"sent", "taken"} /\ gate = "open" /\ call[k].token # token /\ NoFault
       \/ call[k].pc # "idle" /\ Fault("call")
       \/ k = "pull" /\ call[k].pc # "idle" /\ agent.mode = "socket" /\ NoFault
    /\ call' = [call EXCEPT ![k] = Idle]
    /\ UNCHANGED <<credVars, registry, queueVars, dispatch, socketVars, agent,
                   runVars>>

\* Mutant: whatever an answer brings is run.
Brought(k) == call[k].events

\* Events of the answer that the agent has not seen.
Unseen(k) == call[k].events \ agent.seen

\* clearV2AckEventIDs, then processV2ResponseEvents with markV2EventSeen: an
\* event already seen is acknowledged again and not run again.
CallReceive(k) ==
    /\ call[k].pc = "answered"
    /\ executed' = [c \in Commands |->
                      IF c \in Unseen(k) THEN executed[c] + 1 ELSE executed[c]]
    /\ agent' = [agent EXCEPT !.acks = (@ \ call[k].acks) \union call[k].events,
                   !.seen = @ \union call[k].events]
    /\ call' = [call EXCEPT ![k] = Idle]
    /\ UNCHANGED <<credVars, registry, queueVars, dispatch, socketVars, written,
                   forgotten, faults>>

Fallback == \/ EnterPost \/ ReportAdmit \/ PullAdmit \/ PullCheck \/ PullWake
            \/ \E k \in Calls : CallSend(k) \/ CallReply(k) \/ CallReceive(k)

-----------------------------------------------------------------------------
Next ==
    \/ \E c \in Commands : DispatchRead(c) \/ DispatchWrite(c) \/ DispatchEnqueue(c) \/ Expire(c)
    \/ \E s \in Conns : Handler(s) \/ Dial(s) \/ LinkDrops(s) \/ SeesClose(s) \/ ReadFrame(s)
    \/ \E k \in Calls : CallFails(k)
    \/ RotateCommit \/ RotateReset \/ Sweep \/ Reinstall \/ Restart \/ Fallback

Spec == Init /\ [][Next]_vars
-----------------------------------------------------------------------------
(* Type invariant. *)

HandlerPcs == {"unborn", "dialed", "abort", "reconcile", "take", "push", "ack", "serve",
               "cleanup", "ended"}

Registries == [conn : 0..MaxConns, v2 : Nat, minted : Nat]
Dispatches == [pc : {"new", "write", "enqueue", "sent", "queued", "refused"},
               conn : 0..MaxConns, gen : Nat, epoch : Tokens]
SocketStates == {"unborn", "up", "dead", "broken", "closed"}
Handlers == [pc : HandlerPcs, token : Tokens, old : 0..MaxConns,
             todo : SUBSET Commands, sent : SUBSET Commands]
CallRecords == [pc : {"idle", "sent", "prepared", "waiting", "taken", "answered"},
                token : Tokens, acks : SUBSET Commands, queue : Nat, signal : Nat,
                events : SUBSET Commands]
Agents == [token : Tokens, conn : 0..MaxConns, mode : {"socket", "post"},
           acks : SUBSET Commands, seen : SUBSET Commands]

TypeCredential ==
    /\ token \in Tokens /\ gate \in {"open", "rotation"} /\ Epoch \in Tokens
    /\ faults \in 0..MaxFaults

TypeQueue ==
    /\ registry \in Registries
    /\ queue \in [id : Nat, events : SUBSET Commands, signal : Nat]
    /\ queues \in Nat /\ order \in [Commands -> Nat]

TypeDispatch == dispatch \in [Commands -> Dispatches]

TypeSockets ==
    /\ socket \in [Conns -> SocketStates]
    /\ handler \in [Conns -> Handlers]
    /\ wire \in [Conns -> SUBSET Commands]

TypePost == call \in [Calls -> CallRecords] /\ agent \in Agents

TypeRun ==
    /\ executed \in [Commands -> Nat] /\ forgotten \in [Commands -> Nat]
    /\ written \subseteq Commands

TypeOK == TypeCredential /\ TypeQueue /\ TypeDispatch /\ TypeSockets /\ TypePost /\ TypeRun

-----------------------------------------------------------------------------
(* Safety. *)

\* Whatever the panel still holds for the node was dispatched under the
\* credential the holder was admitted with: no command of a retired generation
\* sits in the queue, on a socket, in a handler or in an answer.  The threat is
\* a dispatch that read the old registry and enqueues after the rotation, a
\* handler that pushes after it, and a poll that wakes after it.
RetirementBoundary ==
    /\ \A c \in queue.events : dispatch[c].epoch = Epoch
    /\ \A s \in Conns : \A c \in wire[s] \union handler[s].todo :
         dispatch[c].epoch = handler[s].token
    /\ \A k \in Calls : \A c \in call[k].events : dispatch[c].epoch = call[k].token

\* A socket the registry offers to dispatchers has a handler that will remove
\* it: the node does not stay online on a connection nobody reads.
RegisteredIsServed ==
    registry.conn # 0 => handler[registry.conn].pc \notin {"unborn", "dialed", "ended"}

\* A socket the panel has not closed and whose handler is in service is the
\* registered one, or its successor is about to abort it: no handler waits on a
\* half-open connection that nobody will ever write to or close.
NoOrphanSocket ==
    \A s \in Conns :
      /\ handler[s].pc \in {"take", "push", "ack", "serve"}
      /\ socket[s] # "closed" /\ registry.conn # s
      => \E t \in Conns : handler[t].pc = "abort" /\ handler[t].old = s

\* A poll that still waits on the queue's open signal has missed no event: the
\* signal it captured before it released the lock is closed by every enqueue.
WaitingPollMissesNothing ==
    (call["pull"].pc = "waiting" /\ SameQueue /\ queue.signal = call["pull"].signal)
      => queue.events = {}

\* Over POST a process of the agent runs a command at most once, and a later one
\* runs it again only if the earlier ended before its acknowledgement reached the
\* panel: repeated pulls and reports, lost answers and repeated acknowledgements
\* never run a command twice.  A command written to a socket, which carries no
\* event id, is excepted.
ExecutedOnce == \A c \in Commands : c \notin written => executed[c] <= 1 + forgotten[c]

\* The commands a node's agent received: written to a socket, or run.
Handed == written \union {c \in Commands : executed[c] > 0}

Mailbox == INSTANCE CommandMailbox WITH
    Limit <- QueueLimit, Lapses <- "expiry" \in FaultKinds,
    epoch <- Epoch, accepted <- {c \in Commands : order[c] > 0},
    pending <- queue.events, handed <- Handed

\* The queue keeps the mailbox's promise: a command leaves it only handed over
\* and acknowledged, displaced, expired or retired, across pushes that fail
\* half-way, answers that are lost, reconnects, sweeps and rotations.
MailboxSpec == Mailbox!Spec

-----------------------------------------------------------------------------
(* Liveness. *)

\* Handlers, poll handlers and the agent's loops keep running, and an agent whose
\* dials keep failing falls back to POST; dispatches, dials, faults and rotations
\* need not happen.
Fairness ==
    /\ \A s \in Conns : WF_vars(Handler(s)) /\ WF_vars(ReadFrame(s))
    /\ WF_vars(ReportAdmit) /\ WF_vars(PullAdmit) /\ WF_vars(PullCheck) /\ WF_vars(PullWake)
    /\ \A k \in Calls : WF_vars(CallSend(k)) /\ WF_vars(CallReply(k)) /\ WF_vars(CallReceive(k))
    /\ WF_vars(EnterPost)

FairSpec == Spec /\ Fairness

\* Without expiry, rotation, displacement and sockets that are lost a queued command
\* is eventually run: the poll it wakes, a retry after a lost answer, the push of the
\* next socket or a later process of the agent carries it.
QueuedIsRun == \A c \in Commands : dispatch[c].pc = "queued" ~> executed[c] > 0
=============================================================================
