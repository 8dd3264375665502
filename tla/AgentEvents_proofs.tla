------------------------ MODULE AgentEvents_proofs ------------------------
(***************************************************************************)
(* AgentEvents for any commands, keys, limits, sockets, rotations and       *)
(* faults: it keeps its types and RetirementBoundary, and it delivers as    *)
(* CommandMailbox promises, so that no poll misses an event, no command     *)
(* runs twice over POST, and the panel's sockets are served and closed.     *)
(***************************************************************************)
EXTENDS AgentEvents, FiniteSetTheorems, TLAPS

USE DEF Conns, Calls, Tokens

-----------------------------------------------------------------------------
(* Facts about the operators. *)

\* The number of commands that ever got an order is finite.
LEMMA MintedNat == Minted \in Nat
  <1>1. IsFiniteSet({c \in Commands : order[c] > 0})
    BY CommandsFinite, FS_Subset
  <1> QED BY <1>1, FS_CardinalityType DEF Minted

\* A prefix or a suffix of a set of commands is part of it.
LEMMA PrefixSubset == ASSUME NEW S, NEW n
                      PROVE  Oldest(S, n) \subseteq S /\ Newest(S, n) \subseteq S
  BY DEF Oldest, Newest

\* What a bounded queue keeps is part of what it was given.
LEMMA KeptSubset == ASSUME NEW S, NEW P, NEW n, P \subseteq S PROVE Newest(P, n) \subseteq S
  BY DEF Newest

\* Record updates that keep the type of the record.
LEMMA RegistryUpdates ==
    ASSUME NEW r \in Registries, NEW s \in 0..MaxConns, 0 \in 0..MaxConns
    PROVE  /\ [r EXCEPT !.conn = s] \in Registries
           /\ Mark(r) \in Registries
           /\ [r EXCEPT !.conn = 0, !.v2 = 0] \in Registries
<1>1. r.minted + 1 \in Nat /\ 0 \in Nat
  BY DEF Registries
<1>2. [r EXCEPT !.conn = s] \in Registries
  BY Zenon DEF Registries
<1>3. [r EXCEPT !.v2 = r.minted + 1, !.minted = @ + 1] \in Registries
  BY <1>1, Zenon DEF Registries
<1>4. [r EXCEPT !.conn = 0, !.v2 = 0] \in Registries
  BY <1>1, Zenon DEF Registries
<1> QED
  BY <1>2, <1>3, <1>4 DEF Mark

\* Moving a handler keeps the type of the handlers.
LEMMA GotoTypes ==
    ASSUME TypeSockets, NEW s \in Conns, NEW pc \in HandlerPcs, Goto(s, pc)
    PROVE  handler' \in [Conns -> Handlers]
<1>1. handler \in [Conns -> Handlers] /\ handler' = [handler EXCEPT ![s].pc = pc]
  BY DEF TypeSockets, Goto
<1> QED
  BY <1>1, Zenon DEF Handlers

\* The identity of a queue object is a number.
LEMMA QueueIdNat == TypeQueue => QueueId \in Nat
  BY DEF TypeQueue, QueueId

-----------------------------------------------------------------------------
(***************************************************************************)
(* Type correctness: a step keeps each part of TypeOK whose variables it    *)
(* leaves alone, so each action is proved for the parts it changes.         *)
(***************************************************************************)

\* A group of variables that does not change keeps its type.
LEMMA KeepTypes ==
    ASSUME TypeOK
    PROVE  /\ UNCHANGED <<credVars, faults>> => TypeCredential'
           /\ UNCHANGED <<registry, queueVars>> => TypeQueue'
           /\ UNCHANGED dispatch => TypeDispatch'
           /\ UNCHANGED socketVars => TypeSockets'
           /\ UNCHANGED postVars => TypePost'
           /\ UNCHANGED runVars => TypeRun'
<1> USE DEF TypeOK, credVars, queueVars, socketVars, postVars, runVars
<1>1. UNCHANGED <<credVars, faults>> => TypeCredential'
  BY DEF TypeCredential, Epoch
<1>2. UNCHANGED <<registry, queueVars>> => TypeQueue'
  BY DEF TypeQueue
<1>3. UNCHANGED dispatch => TypeDispatch'
  BY DEF TypeDispatch
<1>4. UNCHANGED socketVars => TypeSockets'
  BY DEF TypeSockets
<1>5. UNCHANGED postVars => TypePost'
  BY DEF TypePost
<1>6. UNCHANGED runVars => TypeRun'
  BY DEF TypeRun
<1> QED
  BY <1>1, <1>2, <1>3, <1>4, <1>5, <1>6

\* The initial state is typed.
LEMMA InitType == Init => TypeOK
<1> SUFFICES ASSUME Init PROVE TypeOK
  OBVIOUS
<1> USE BoundsNatural DEF Init
<1>1. TypeCredential
  BY DEF TypeCredential, Epoch
<1>2. TypeQueue
  BY DEF TypeQueue, NoQueue, Registries
<1>3. TypeDispatch
  BY DEF TypeDispatch, Dispatches
<1>4. TypeSockets
  BY DEF TypeSockets, SocketStates, Handlers, HandlerPcs
<1>5. TypePost
  BY DEF TypePost, CallRecords, Agents, Idle, NewAgent
<1>6. TypeRun
  BY DEF TypeRun
<1> QED
  BY <1>1, <1>2, <1>3, <1>4, <1>5, <1>6 DEF TypeOK

\* Every action keeps every type.
LEMMA NextType == TypeOK /\ [Next]_vars => TypeOK'
<1> SUFFICES ASSUME TypeOK, [Next]_vars PROVE TypeOK'
  OBVIOUS
<1> USE BoundsNatural DEF TypeOK, credVars, queueVars, socketVars, postVars, runVars
<1>1. ASSUME NEW c \in Commands, DispatchRead(c) PROVE TypeOK'
  <2>1. TypeDispatch'
    BY <1>1 DEF DispatchRead, TypeDispatch, TypeQueue, TypeCredential, Epoch, Dispatches, Registries
  <2> QED
    BY <1>1, <2>1, KeepTypes DEF DispatchRead
<1>2. ASSUME NEW c \in Commands, DispatchWrite(c) PROVE TypeOK'
  <2>1. TypeDispatch'
    BY <1>2 DEF DispatchWrite, WriteSucceeds, WriteFails, TypeDispatch, Dispatches
  <2>2. TypeSockets'
    <3>1. socket' \in [Conns -> SocketStates]
      BY <1>2 DEF DispatchWrite, WriteSucceeds, WriteFails, TypeSockets, SocketStates
    <3>2. wire' \in [Conns -> SUBSET Commands]
      BY <1>2 DEF DispatchWrite, WriteSucceeds, WriteFails, TypeSockets
    <3> QED
      BY <1>2, <3>1, <3>2 DEF DispatchWrite, TypeSockets
  <2>3. TypeRun'
    BY <1>2 DEF DispatchWrite, WriteSucceeds, WriteFails, TypeRun
  <2> QED
    BY <1>2, <2>1, <2>2, <2>3, KeepTypes DEF DispatchWrite, WriteSucceeds, WriteFails
<1>3. ASSUME NEW c \in Commands, DispatchEnqueue(c) PROVE TypeOK'
  <2>1. TypeDispatch'
    BY <1>3 DEF DispatchEnqueue, Enqueue, NextSignal, TypeDispatch, Dispatches
  <2>2. TypeQueue'
    <3>1. CASE Enqueue(c)
      <4> DEFINE kept == {d \in queue.events : Key[c] = NoKey \/ Key[d] # Key[c]}
                 events == Newest(kept, QueueLimit - 1) \union {c}
      <4>1. kept \subseteq Commands
        BY DEF TypeQueue
      <4>2. events \subseteq Commands
        BY <4>1, KeptSubset
      <4>3. QueueId \in Nat /\ Minted + 1 \in Nat
        BY MintedNat, QueueIdNat
      <4>4. queue' \in [id : Nat, events : SUBSET Commands, signal : Nat]
        <5>1. queue' = [id |-> QueueId, events |-> events, signal |-> Minted + 1]
          BY <3>1 DEF Enqueue, NextSignal
        <5> HIDE DEF events
        <5> QED
          BY <4>2, <4>3, <5>1
      <4>5. order' \in [Commands -> Nat] /\ queues' \in Nat
        BY <1>3, <3>1, <4>3 DEF Enqueue, NextSignal, TypeQueue
      <4> QED
        BY <1>3, <4>4, <4>5 DEF DispatchEnqueue, TypeQueue
    <3> QED
      BY <1>3, <3>1, KeepTypes DEF DispatchEnqueue
  <2> QED
    BY <1>3, <2>1, <2>2, KeepTypes DEF DispatchEnqueue, Enqueue, NextSignal
<1>4. ASSUME NEW c \in Commands, Expire(c) PROVE TypeOK'
  <2>1. TypeQueue'
    BY <1>4 DEF Expire, Fault, Ack, TypeQueue, Registries
  <2>2. TypeCredential'
    BY <1>4 DEF Expire, Fault, Ack, TypeCredential, Epoch
  <2> QED
    BY <1>4, <2>1, <2>2, KeepTypes DEF Expire, Fault, Ack
<1>5. ASSUME NEW s \in Conns, Setup(s) PROVE TypeOK'
  <2>1. TypeQueue'
    <3>1. registry \in Registries /\ 0 \in 0..MaxConns /\ s \in 0..MaxConns
      BY <1>5 DEF TypeQueue
    <3>2. [registry EXCEPT !.conn = s] \in Registries
      BY <3>1, RegistryUpdates, Zenon
    <3>3. Mark([registry EXCEPT !.conn = s]) \in Registries
      BY ZenonT(60), <3>1, <3>2, RegistryUpdates
    <3>4. registry' \in Registries
      BY <1>5, <3>1, <3>3 DEF Setup
    <3> QED
      BY <1>5, <3>4 DEF Setup, TypeQueue
  <2>2. TypeSockets'
    <3>1. ASSUME handler' = [handler EXCEPT ![s].pc = "abort", ![s].old = registry.conn]
         PROVE handler' \in [Conns -> Handlers]
      <4>1. registry.conn \in 0..MaxConns
        BY DEF TypeQueue, Registries
      <4>2. handler \in [Conns -> Handlers] /\ "abort" \in HandlerPcs
        BY DEF TypeSockets, HandlerPcs
      <4> QED
        BY <3>1, <4>1, <4>2, Zenon DEF Handlers
    <3>2. ASSUME Goto(s, "ended") PROVE handler' \in [Conns -> Handlers]
      BY <3>2, GotoTypes DEF HandlerPcs
    <3>3. handler' \in [Conns -> Handlers]
      BY <1>5, <3>1, <3>2 DEF Setup
    <3>4. socket' \in [Conns -> SocketStates]
      BY <1>5 DEF Setup, CloseSocket, TypeSockets, SocketStates
    <3> QED
      BY <1>5, <3>3, <3>4 DEF Setup, TypeSockets
  <2>3. TypeCredential'
    BY <1>5
    DEF Setup, TokenRefused, Fault, NoFault, Mark, Goto, CloseSocket, TypeCredential, Epoch
  <2> QED
    BY <1>5, <2>1, <2>2, <2>3, KeepTypes DEF Setup
<1>6. ASSUME NEW s \in Conns, AbortOld(s) PROVE TypeOK'
  <2>1. TypeSockets'
    <3>1. handler' \in [Conns -> Handlers]
      BY <1>6, GotoTypes DEF AbortOld, HandlerPcs
    <3>2. socket' \in [Conns -> SocketStates]
      BY <1>6 DEF AbortOld, TypeSockets, SocketStates
    <3> QED
      BY <1>6, <3>1, <3>2 DEF AbortOld, TypeSockets
  <2> QED
    BY <1>6, <2>1, KeepTypes DEF AbortOld
<1>7. ASSUME NEW s \in Conns, Reconcile(s) PROVE TypeOK'
  <2>1. TypeSockets'
    <3>1. handler' \in [Conns -> Handlers]
      BY <1>7, GotoTypes DEF Reconcile, HandlerPcs
    <3>2. socket' \in [Conns -> SocketStates]
      BY <1>7 DEF Reconcile, CloseSocket, TypeSockets, SocketStates
    <3> QED
      BY <1>7, <3>1, <3>2 DEF Reconcile, TypeSockets
  <2>2. TypeCredential'
    BY <1>7
    DEF Reconcile, Admitted, Refused, TokenRefused, Fault, NoFault, Goto, CloseSocket, TypeCredential, Epoch
  <2> QED
    BY <1>7, <2>1, <2>2, KeepTypes DEF Reconcile
<1>8. ASSUME NEW s \in Conns, PushTake(s) PROVE TypeOK'
  <2>1. TypeSockets'
    <3>1. ASSUME handler' = [handler EXCEPT ![s].todo = queue.events,
                               ![s].pc = IF queue.events = {} THEN "serve" ELSE "push"]
         PROVE handler' \in [Conns -> Handlers]
      <4>1. queue.events \in SUBSET Commands
        BY DEF TypeQueue
      <4>2. (IF queue.events = {} THEN "serve" ELSE "push") \in HandlerPcs
        BY DEF HandlerPcs
      <4> DEFINE h == [handler[s] EXCEPT !.todo = queue.events,
                                         !.pc = IF queue.events = {} THEN "serve" ELSE "push"]
      <4>3. handler[s] \in Handlers
        BY DEF TypeSockets
      <4>4. h \in Handlers
        BY <4>1, <4>2, <4>3, Zenon DEF Handlers
      <4>5. handler' = [handler EXCEPT ![s] = h]
        BY <3>1, Zenon
      <4> HIDE DEF h
      <4> QED
        BY <4>4, <4>5 DEF TypeSockets
    <3>2. handler' \in [Conns -> Handlers]
      BY <1>8, <3>1, GotoTypes DEF PushTake, WholeQueue, HandlerPcs
    <3> QED
      BY <1>8, <3>2 DEF PushTake, WholeQueue, TypeSockets
  <2>2. TypeCredential'
    BY <1>8
    DEF PushTake, WholeQueue, Admitted, Refused, TokenRefused, Fault, NoFault, Goto, TypeCredential, Epoch
  <2> QED
    BY <1>8, <2>1, <2>2, KeepTypes DEF PushTake, WholeQueue
<1>9. ASSUME NEW s \in Conns, PushWrite(s) PROVE TypeOK'
  <2>1. TypeSockets'
    <3>1. PICK c \in Oldest(handler[s].todo, 1) :
             \/ /\ WriteSucceeds(s, c)
                /\ handler' = [handler EXCEPT ![s].todo = handler[s].todo \ {c},
                                 ![s].sent = handler[s].sent \union {c},
                                 ![s].pc = IF handler[s].todo = {c} THEN "ack" ELSE "push"]
             \/ WriteFails(s) /\ Goto(s, "ack")
      BY ZenonT(60), <1>9 DEF PushWrite
    <3>2. handler[s] \in Handlers
      BY DEF TypeSockets
    <3>3. handler[s].todo \subseteq Commands /\ handler[s].sent \subseteq Commands
      BY <3>2 DEF Handlers
    <3>4. c \in Commands
      BY <3>3, PrefixSubset
    <3>5. ASSUME handler' = [handler EXCEPT ![s].todo = handler[s].todo \ {c},
                                 ![s].sent = handler[s].sent \union {c},
                               ![s].pc = IF handler[s].todo = {c} THEN "ack" ELSE "push"]
         PROVE handler' \in [Conns -> Handlers]
      <4> DEFINE todo == handler[s].todo \ {c}
                 sent == handler[s].sent \union {c}
                 next == IF handler[s].todo = {c} THEN "ack" ELSE "push"
      <4>1. todo \in SUBSET Commands /\ sent \in SUBSET Commands
        BY <3>3, <3>4
      <4>2. next \in HandlerPcs
        BY DEF HandlerPcs
      <4>3. handler \in [Conns -> Handlers]
        BY DEF TypeSockets
      <4>4. handler' = [handler EXCEPT ![s].todo = todo, ![s].sent = sent, ![s].pc = next]
        BY <3>5
      <4> HIDE DEF todo, sent, next
      <4> QED
        BY <1>9, <4>1, <4>2, <4>3, <4>4, ZenonT(60) DEF Handlers
    <3>6. ASSUME Goto(s, "ack") PROVE handler' \in [Conns -> Handlers]
      BY <3>6, GotoTypes DEF HandlerPcs
    <3>7. handler' \in [Conns -> Handlers]
      BY <3>1, <3>5, <3>6
    <3>8. socket' \in [Conns -> SocketStates]
      BY <1>9, <3>1 DEF WriteSucceeds, WriteFails, TypeSockets, SocketStates
    <3>9. wire' \in [Conns -> SUBSET Commands]
      BY <1>9, <3>1, <3>4 DEF WriteSucceeds, WriteFails, TypeSockets
    <3> QED
      BY <3>7, <3>8, <3>9 DEF TypeSockets
  <2>2. TypeRun'
    <3>1. handler[s].todo \subseteq Commands
      BY DEF TypeSockets, Handlers
    <3>2. Oldest(handler[s].todo, 1) \subseteq Commands
      BY <3>1, PrefixSubset
    <3> QED
      BY <1>9, <3>2 DEF PushWrite, WriteSucceeds, WriteFails, TypeRun
  <2> QED
    BY <1>9, <2>1, <2>2, KeepTypes DEF PushWrite, WriteSucceeds, WriteFails
<1>10. ASSUME NEW s \in Conns, PushAck(s) PROVE TypeOK'
  <2>1. TypeSockets'
    <3>1. handler' \in [Conns -> Handlers]
      BY <1>10, GotoTypes DEF PushAck, AckPushed, HandlerPcs
    <3>2. socket' \in [Conns -> SocketStates]
      BY <1>10 DEF PushAck, AckPushed, TypeSockets, SocketStates
    <3> QED
      BY <1>10, <3>1, <3>2 DEF PushAck, AckPushed, TypeSockets
  <2>2. TypeQueue'
    BY <1>10
    DEF PushAck, AckPushed, Admitted, Refused, TokenRefused, Fault, NoFault, Goto, Ack, TypeQueue, Registries
  <2>3. TypeCredential'
    BY <1>10
    DEF PushAck, AckPushed, Admitted, Refused, TokenRefused, Fault, NoFault, Goto, Ack, TypeCredential, Epoch
  <2> QED
    BY <1>10, <2>1, <2>2, <2>3, KeepTypes DEF PushAck, AckPushed, Ack
<1>11. ASSUME NEW s \in Conns, ServeEnds(s) PROVE TypeOK'
  <2>1. TypeSockets'
    <3>1. handler' \in [Conns -> Handlers]
      BY <1>11, GotoTypes DEF ServeEnds, HandlerPcs
    <3>2. socket' \in [Conns -> SocketStates]
      BY <1>11 DEF ServeEnds, TypeSockets, SocketStates
    <3> QED
      BY <1>11, <3>1, <3>2 DEF ServeEnds, TypeSockets
  <2>2. TypeCredential'
    BY <1>11
    DEF ServeEnds, Refused, TokenRefused, Fault, NoFault, Goto, TypeCredential, Epoch
  <2> QED
    BY <1>11, <2>1, <2>2, KeepTypes DEF ServeEnds
<1>12. ASSUME NEW s \in Conns, Cleanup(s) PROVE TypeOK'
  <2>1. TypeSockets'
    <3>1. handler' \in [Conns -> Handlers]
      BY <1>12, GotoTypes DEF Cleanup, DeleteClientConditionally, HandlerPcs
    <3>2. socket' \in [Conns -> SocketStates]
      BY <1>12 DEF Cleanup, DeleteClientConditionally, CloseSocket, TypeSockets, SocketStates
    <3> QED
      BY <1>12, <3>1, <3>2 DEF Cleanup, DeleteClientConditionally, TypeSockets
  <2>2. TypeQueue'
    <3>1. registry \in Registries /\ 0 \in 0..MaxConns
      BY DEF TypeQueue
    <3>2. registry' \in Registries
      BY ZenonT(60), <1>12, <3>1, RegistryUpdates DEF Cleanup, DeleteClientConditionally
    <3> QED
      BY <1>12, <3>2 DEF Cleanup, DeleteClientConditionally, TypeQueue
  <2> QED
    BY <1>12, <2>1, <2>2, KeepTypes DEF Cleanup, DeleteClientConditionally
<1>13. ASSUME NEW s \in Conns, Dial(s) PROVE TypeOK'
  <2>1. TypeSockets'
    <3>1. agent.token \in Tokens /\ "dialed" \in HandlerPcs
      BY DEF TypePost, Agents, HandlerPcs
    <3>2. /\ handler \in [Conns -> Handlers]
          /\ handler' = [handler EXCEPT ![s].pc = "dialed", ![s].token = agent.token]
      BY <1>13 DEF Dial, TypeSockets
    <3>3. handler' \in [Conns -> Handlers]
      BY <1>13, <3>1, <3>2, Zenon DEF Handlers
    <3>4. socket' \in [Conns -> SocketStates]
      BY <1>13 DEF Dial, TypeSockets, SocketStates
    <3> QED
      BY <1>13, <3>3, <3>4 DEF Dial, TypeSockets
  <2>2. TypePost'
    <3>1. s \in 0..MaxConns
      BY <1>13
    <3>2. agent' \in Agents
      BY <1>13, <3>1, Zenon DEF Dial, TypePost, Agents
    <3> QED
      BY <1>13, <3>2 DEF Dial, TypePost
  <2> QED
    BY <1>13, <2>1, <2>2, KeepTypes DEF Dial
<1>14. ASSUME NEW s \in Conns, LinkDrops(s) PROVE TypeOK'
  <2>1. TypeSockets'
    BY <1>14 DEF LinkDrops, Fault, TypeSockets, Handlers, SocketStates
  <2>2. TypePost'
    BY <1>14 DEF LinkDrops, Fault, TypePost, CallRecords, Agents
  <2>3. TypeCredential'
    BY <1>14 DEF LinkDrops, Fault, TypeCredential, Epoch
  <2> QED
    BY <1>14, <2>1, <2>2, <2>3, KeepTypes DEF LinkDrops, Fault
<1>15. ASSUME NEW s \in Conns, SeesClose(s) PROVE TypeOK'
  <2>1. TypeSockets'
    BY <1>15 DEF SeesClose, TypeSockets, Handlers, SocketStates
  <2>2. TypePost'
    BY <1>15 DEF SeesClose, TypePost, CallRecords, Agents
  <2> QED
    BY <1>15, <2>1, <2>2, KeepTypes DEF SeesClose
<1>16. ASSUME NEW s \in Conns, ReadFrame(s) PROVE TypeOK'
  <2>1. TypeSockets'
    BY <1>16 DEF ReadFrame, TypeSockets, Handlers, SocketStates
  <2>2. TypeRun'
    BY <1>16 DEF ReadFrame, TypeRun, TypeSockets, Handlers, SocketStates
  <2> QED
    BY <1>16, <2>1, <2>2, KeepTypes DEF ReadFrame
<1>17. ASSUME NEW k \in Calls, CallFails(k) PROVE TypeOK'
  <2>1. TypePost'
    BY <1>17 DEF CallFails, Fault, NoFault, Idle, TypePost, CallRecords, Agents
  <2>2. TypeCredential'
    BY <1>17 DEF CallFails, Fault, NoFault, Idle, TypeCredential, Epoch
  <2> QED
    BY <1>17, <2>1, <2>2, KeepTypes DEF CallFails
<1>18. ASSUME NEW k \in Calls, CallSend(k) PROVE TypeOK'
  <2>1. TypePost'
    BY <1>18 DEF CallSend, Idle, TypePost, CallRecords, Agents
  <2> QED
    BY <1>18, <2>1, KeepTypes DEF CallSend
<1>19. ASSUME NEW k \in Calls, CallReply(k) PROVE TypeOK'
  <2>1. TypePost'
    BY <1>19 DEF CallReply, TypePost, CallRecords, Agents
  <2> QED
    BY <1>19, <2>1, KeepTypes DEF CallReply
<1>20. ASSUME NEW k \in Calls, CallReceive(k) PROVE TypeOK'
  <2>1. TypePost'
    <3>1. call[k].events \in SUBSET Commands /\ call[k].acks \in SUBSET Commands
      BY <1>20 DEF TypePost, CallRecords
    <3>2. agent.acks \in SUBSET Commands /\ agent.seen \in SUBSET Commands
      BY DEF TypePost, Agents
    <3>3. /\ (agent.acks \ call[k].acks) \union call[k].events \in SUBSET Commands
          /\ agent.seen \union call[k].events \in SUBSET Commands
      BY <3>1, <3>2
    <3>4. agent' \in Agents
      BY <1>20, <3>3, Zenon DEF CallReceive, Unseen, TypePost, Agents
    <3>5. Idle \in CallRecords
      BY DEF Idle, CallRecords
    <3> QED
      BY <1>20, <3>4, <3>5 DEF CallReceive, Unseen, TypePost
  <2>2. TypeRun'
    BY <1>20 DEF CallReceive, Unseen, Idle, TypeRun
  <2> QED
    BY <1>20, <2>1, <2>2, KeepTypes DEF CallReceive, Unseen
<1>21. ASSUME RotateCommit PROVE TypeOK'
  <2>1. TypeCredential'
    BY <1>21 DEF RotateCommit, TypeCredential, Epoch
  <2> QED
    BY <1>21, <2>1, KeepTypes DEF RotateCommit
<1>22. ASSUME RotateReset PROVE TypeOK'
  <2>1. TypeCredential'
    BY <1>22 DEF RotateReset, NoQueue, TypeCredential, Epoch
  <2>2. TypeQueue'
    <3>0. registry \in Registries /\ 0 \in 0..MaxConns
      BY DEF TypeQueue
    <3>1. registry' \in Registries
      BY ZenonT(60), <1>22, <3>0, RegistryUpdates DEF RotateReset
    <3> QED
      BY <1>22, <3>1 DEF RotateReset, NoQueue, TypeQueue
  <2>3. TypeSockets'
    BY <1>22 DEF RotateReset, NoQueue, TypeSockets, Handlers, SocketStates
  <2> QED
    BY <1>22, <2>1, <2>2, <2>3, KeepTypes DEF RotateReset
<1>23. ASSUME Sweep PROVE TypeOK'
  <2>1. TypeQueue'
    BY <1>23 DEF Sweep, NoQueue, TypeQueue, Registries
  <2> QED
    BY <1>23, <2>1, KeepTypes DEF Sweep
<1>24. ASSUME Reinstall \/ Restart PROVE TypeOK'
  <2>1. PICK t \in Tokens : StartProcess(t)
    BY <1>24 DEF Reinstall, Restart, TypeCredential, TypePost, Agents
  <2>2. TypePost'
    BY <2>1 DEF StartProcess, NewAgent, Idle, TypePost, CallRecords, Agents
  <2>3. UNCHANGED <<registry, queueVars, dispatch, handler>>
    BY <1>24 DEF Reinstall, Restart
  <2>4. TypeSockets'
    BY <2>1, <2>3 DEF StartProcess, TypeSockets, SocketStates
  <2>5. TypeRun'
    BY <1>24 DEF Reinstall, Restart, TypeRun
  <2>6. TypeCredential'
    BY <1>24 DEF Reinstall, Restart, Fault, TypeCredential, Epoch
  <2> QED
    BY <2>2, <2>3, <2>4, <2>5, <2>6, KeepTypes
<1>25. ASSUME EnterPost PROVE TypeOK'
  <2>1. TypePost'
    BY <1>25 DEF EnterPost, TypePost, CallRecords, Agents
  <2> QED
    BY <1>25, <2>1, KeepTypes DEF EnterPost
<1>26. ASSUME ReportAdmit PROVE TypeOK'
  <2>1. TypeQueue'
    <3>0. registry \in Registries /\ 0 \in 0..MaxConns
      BY DEF TypeQueue
    <3>1. registry' \in Registries
      BY ZenonT(60), <1>26, <3>0, RegistryUpdates DEF ReportAdmit, AckReported
    <3> QED
      BY <1>26, <3>1 DEF ReportAdmit, AckReported, Ack, TypeQueue
  <2>2. TypePost'
    <3> DEFINE events == Oldest(queue.events \ call["report"].acks, ReportTake)
    <3>1. events \in SUBSET Commands
      <4>1. queue.events \ call["report"].acks \subseteq Commands
        BY DEF TypeQueue
      <4> QED
        BY <4>1, PrefixSubset
    <3>2. call' = [call EXCEPT !["report"].pc = "taken", !["report"].events = events]
      BY <1>26 DEF ReportAdmit, AckReported
    <3>3. "taken" \in {"idle", "sent", "prepared", "waiting", "taken", "answered"}
      OBVIOUS
    <3> HIDE DEF events
    <3>4. call' \in [Calls -> CallRecords]
      BY <3>1, <3>2, <3>3, Zenon DEF TypePost, CallRecords
    <3> QED
      BY <1>26, <3>4 DEF ReportAdmit, AckReported, TypePost
  <2> QED
    BY <1>26, <2>1, <2>2, KeepTypes DEF ReportAdmit, AckReported, Ack
<1>27. ASSUME PullAdmit PROVE TypeOK'
  <2>1. TypeQueue'
    <3>0. registry \in Registries /\ 0 \in 0..MaxConns
      BY DEF TypeQueue
    <3>1. registry' \in Registries
      BY ZenonT(60), <1>27, <3>0, RegistryUpdates DEF PullAdmit
    <3>2. QueueId \in Nat /\ queue.events \ call["pull"].acks \in SUBSET Commands
      BY QueueIdNat DEF TypeQueue
    <3>3. queue' \in [id : Nat, events : SUBSET Commands, signal : Nat]
      BY <1>27, <3>2, Zenon DEF PullAdmit, TypeQueue
    <3> QED
      BY <1>27, <3>1, <3>3 DEF PullAdmit, TypeQueue
  <2>2. TypePost'
    <3>1. QueueId \in Nat
      BY QueueIdNat
    <3>2. "prepared" \in {"idle", "sent", "prepared", "waiting", "taken", "answered"}
      OBVIOUS
    <3>3. call' \in [Calls -> CallRecords]
      BY <1>27, <3>1, <3>2, ZenonT(60) DEF PullAdmit, TypePost, CallRecords
    <3> QED
      BY <1>27, <3>3 DEF PullAdmit, TypePost
  <2> QED
    BY <1>27, <2>1, <2>2, KeepTypes DEF PullAdmit
<1>28. ASSUME PullCheck PROVE TypeOK'
  <2>1. TypePost'
    BY <1>28 DEF PullCheck, PullTakes, TypePost, TypeQueue, CallRecords, Agents, Registries
  <2> QED
    BY <1>28, <2>1, KeepTypes DEF PullCheck, PullTakes
<1>29. ASSUME PullWake PROVE TypeOK'
  <2>1. TypePost'
    <3>1. (IF SameQueue THEN queue.events ELSE {}) \in SUBSET Commands
      BY DEF TypeQueue
    <3>2. "taken" \in {"idle", "sent", "prepared", "waiting", "taken", "answered"}
      OBVIOUS
    <3>3. call' \in [Calls -> CallRecords]
      BY <1>29, <3>1, <3>2, ZenonT(60) DEF PullWake, PullTakes, TypePost, CallRecords
    <3> QED
      BY <1>29, <3>3 DEF PullWake, TypePost
  <2>2. TypeCredential'
    BY <1>29 DEF PullWake, PullTakes, Fault, NoFault, TypeCredential, Epoch
  <2> QED
    BY <1>29, <2>1, <2>2, KeepTypes DEF PullWake, PullTakes
<1>30. CASE UNCHANGED vars
  BY <1>30, KeepTypes DEF vars
<1> QED
  BY <1>1, <1>2, <1>3, <1>4, <1>5, <1>6, <1>7, <1>8, <1>9, <1>10, <1>11, <1>12,
     <1>13, <1>14, <1>15, <1>16, <1>17, <1>18, <1>19, <1>20, <1>21, <1>22, <1>23, <1>24,
     <1>25, <1>26, <1>27, <1>28, <1>29, <1>30
  DEF Next, Handler, Fallback

\* Every variable keeps its type.
THEOREM Typing == Spec => []TypeOK
<1>1. Init => TypeOK
  BY InitType
<1>2. TypeOK /\ [Next]_vars => TypeOK'
  BY NextType
<1> QED
  BY <1>1, <1>2, PTL DEF Spec
-----------------------------------------------------------------------------
(***************************************************************************)
(* Retired is the inductive invariant behind RetirementBoundary.  It says   *)
(* where the credential epoch of a command can be read off: a v2 generation *)
(* is minted once, so a dispatch whose generation is still registered was   *)
(* admitted under the current epoch; a queue id is made once, so a poll     *)
(* that still finds its own queue was too; and a handler keeps the token it *)
(* was dialed with.  Every step but a dispatch's first, a dial and the      *)
(* reset of a rotation is a Step, which keeps Retired; those three are      *)
(* proved on their own.                                                     *)
(***************************************************************************)

\* Command c was dispatched, under credential epoch e.
Bound(c, e) == dispatch[c].pc # "new" /\ dispatch[c].epoch = e

\* Socket s was dialed with the token of epoch e.
Live(s, e) == s \in Conns /\ socket[s] # "unborn" /\ handler[s].token = e

Parked == call["pull"].pc \in {"prepared", "waiting"}
Pending(c) == dispatch[c].pc \in {"write", "enqueue"}

Counted == /\ registry.v2 <= registry.minted /\ queue.id <= queues
           /\ \A c \in Commands : dispatch[c].gen <= registry.minted

Dialed == \A s \in Conns :
            /\ handler[s].pc # "unborn" => socket[s] # "unborn"
            /\ socket[s] = "unborn" => wire[s] = {} /\ handler[s].todo = {}

Registered == registry.conn # 0 => Live(registry.conn, Epoch)

Dispatched == \A c \in Commands :
    /\ dispatch[c].pc = "write" => Live(dispatch[c].conn, dispatch[c].epoch)
    /\ Pending(c) /\ dispatch[c].gen # 0 /\ dispatch[c].gen = registry.v2
         => dispatch[c].epoch = Epoch

Polled == Parked => /\ 0 < call["pull"].queue /\ call["pull"].queue <= queues
                    /\ call["pull"].queue = queue.id => call["pull"].token = Epoch

HeldQueue == \A c \in queue.events : Bound(c, Epoch)
HeldSockets == \A s \in Conns : \A c \in wire[s] \union handler[s].todo : Bound(c, handler[s].token)
HeldCalls == \A k \in Calls : \A c \in call[k].events : Bound(c, call[k].token)

Retired == /\ Counted /\ Dialed /\ Registered /\ Dispatched /\ Polled
           /\ HeldQueue /\ HeldSockets /\ HeldCalls

-----------------------------------------------------------------------------
(* What a step does to each group of variables. *)

EpochStep == Epoch' = Epoch

SocketStep == \A s \in Conns :
    /\ socket[s] # "unborn" => socket'[s] # "unborn"
    /\ handler'[s].token = handler[s].token
    /\ handler'[s].pc # "unborn" => handler[s].pc # "unborn"

WireStep == \A s \in Conns : \A c \in wire'[s] \union handler'[s].todo :
    c \in Commands /\ socket[s] # "unborn" /\ Bound(c, handler[s].token)

DispatchStep == \A c \in Commands :
    /\ dispatch'[c].epoch = dispatch[c].epoch /\ dispatch'[c].gen = dispatch[c].gen
    /\ dispatch'[c].conn = dispatch[c].conn
    /\ dispatch'[c].pc = "new" => dispatch[c].pc = "new"
    /\ dispatch'[c].pc = "write" => dispatch[c].pc = "write"
    /\ Pending(c)' => Pending(c)

RegistryStep ==
    /\ registry.minted <= registry'.minted /\ registry'.v2 <= registry'.minted
    /\ registry'.v2 = 0 \/ registry'.v2 = registry.v2 \/ registry.minted < registry'.v2
    /\ registry'.conn # 0 => Live(registry'.conn, Epoch)

QueueStep ==
    /\ queues <= queues' /\ queue'.id <= queues'
    /\ queue'.id = 0 \/ queue'.id = queue.id \/ queues < queue'.id
    /\ \A c \in queue'.events : c \in Commands /\ Bound(c, Epoch)

CallStep ==
    /\ \A k \in Calls : \A c \in call'[k].events : c \in Commands /\ Bound(c, call'[k].token)
    /\ Parked' => \/ /\ Parked /\ call'["pull"].queue = call["pull"].queue
                     /\ call'["pull"].token = call["pull"].token
                  \/ /\ 0 < call'["pull"].queue /\ call'["pull"].queue <= queues'
                     /\ call'["pull"].token = Epoch

Step == /\ EpochStep /\ SocketStep /\ WireStep /\ DispatchStep
        /\ RegistryStep /\ QueueStep /\ CallStep

-----------------------------------------------------------------------------
(* A Step keeps the invariant, part by part. *)

USE DEF Bound, Live, Parked, Pending, Conns, Calls, Tokens

\* Every step of the shape Step keeps the invariant.
LEMMA StepKeeps == TypeOK /\ TypeOK' /\ Retired /\ Step => Retired'
<1> SUFFICES ASSUME TypeOK, TypeOK', Retired, Step PROVE Retired'
  OBVIOUS
<1> USE DEF TypeOK, Retired, Step
<1>1. \A c \in Commands, e \in Tokens : Bound(c, e) => Bound(c, e)'
  BY DEF DispatchStep
<1>2. \A s : Live(s, Epoch) => Live(s, Epoch)'
  BY DEF SocketStep, EpochStep
<1>3. Counted'
  <2>1. /\ registry.minted \in Nat /\ registry'.minted \in Nat
        /\ \A c \in Commands : dispatch[c].gen \in Nat /\ dispatch'[c].gen = dispatch[c].gen
    BY DEF TypeQueue, TypeDispatch, Registries, Dispatches, DispatchStep
  <2> QED
    BY <2>1 DEF Counted, RegistryStep, QueueStep
<1>4. Dialed'
  BY DEF Dialed, SocketStep, WireStep
<1>5. Registered'
  BY <1>2, EpochStep DEF Registered, RegistryStep
<1>6. Dispatched'
  <2> SUFFICES ASSUME NEW c \in Commands
               PROVE  /\ dispatch'[c].pc = "write" => Live(dispatch[c].conn, dispatch[c].epoch)'
                      /\ Pending(c)' /\ dispatch'[c].gen # 0 /\ dispatch'[c].gen = registry'.v2
                           => dispatch'[c].epoch = Epoch'
    BY DEF Dispatched
  <2>1. /\ dispatch'[c].epoch = dispatch[c].epoch /\ dispatch'[c].gen = dispatch[c].gen
        /\ dispatch'[c].conn = dispatch[c].conn
        /\ dispatch'[c].pc = "write" => dispatch[c].pc = "write"
        /\ Pending(c)' => Pending(c)
    BY DEF DispatchStep
  <2>2. dispatch'[c].pc = "write" => Live(dispatch[c].conn, dispatch[c].epoch)'
    BY <2>1 DEF Dispatched, SocketStep
  <2>3. /\ dispatch[c].gen \in Nat /\ registry.minted \in Nat /\ registry.v2 \in Nat
        /\ registry'.v2 \in Nat /\ dispatch[c].gen <= registry.minted
    BY DEF Counted, TypeQueue, TypeDispatch, Registries, Dispatches
  <2>4. dispatch[c].gen # 0 /\ dispatch[c].gen = registry'.v2 => dispatch[c].gen = registry.v2
    BY <2>3 DEF RegistryStep
  <2> QED
    BY <2>1, <2>2, <2>4 DEF Dispatched, EpochStep
<1>7. Polled'
  <2>1. call["pull"].queue \in Nat /\ call'["pull"].queue \in Nat
    BY DEF TypePost, CallRecords
  <2>2. queues \in Nat /\ queues' \in Nat /\ queue.id \in Nat /\ queue'.id \in Nat
    BY DEF TypeQueue
  <2> QED
    BY <2>1, <2>2 DEF Polled, CallStep, QueueStep, EpochStep
<1>8. HeldQueue'
  BY DEF HeldQueue, QueueStep, DispatchStep, EpochStep
<1>9. HeldSockets'
  BY DEF HeldSockets, WireStep, SocketStep, DispatchStep
<1>10. HeldCalls'
  BY DEF HeldCalls, CallStep, DispatchStep
<1> QED
  BY <1>3, <1>4, <1>5, <1>6, <1>7, <1>8, <1>9, <1>10

\* A group of variables that a step leaves alone needs no argument.
LEMMA Unchanged ==
    ASSUME TypeOK, TypeOK', Retired
    PROVE  /\ UNCHANGED credVars => EpochStep
           /\ UNCHANGED <<socket, handler>> => SocketStep
           /\ UNCHANGED <<wire, handler>> => WireStep
           /\ UNCHANGED dispatch => DispatchStep
           /\ UNCHANGED registry => RegistryStep
           /\ UNCHANGED <<queue, queues>> => QueueStep
           /\ UNCHANGED <<call, queues>> => CallStep
<1> USE DEF TypeOK, Retired
<1>1. UNCHANGED credVars => EpochStep
  BY DEF EpochStep, credVars, Epoch
<1>2. UNCHANGED <<socket, handler>> => SocketStep
  BY DEF SocketStep
<1>3. UNCHANGED <<wire, handler>> => WireStep
  <2>1. \A s \in Conns : wire[s] \subseteq Commands /\ handler[s].todo \subseteq Commands
    BY DEF TypeSockets, Handlers
  <2> QED
    BY <2>1 DEF WireStep, HeldSockets, Dialed
<1>4. UNCHANGED dispatch => DispatchStep
  BY DEF DispatchStep
<1>5. UNCHANGED registry => RegistryStep
  BY DEF RegistryStep, Counted, Registered, TypeQueue, Registries
<1>6. UNCHANGED <<queue, queues>> => QueueStep
  BY DEF QueueStep, Counted, HeldQueue, TypeQueue
<1>7. UNCHANGED <<call, queues>> => CallStep
  <2>1. \A k \in Calls : call[k].events \subseteq Commands
    BY DEF TypePost, CallRecords
  <2> QED
    BY <2>1 DEF CallStep, HeldCalls
<1> QED
  BY <1>1, <1>2, <1>3, <1>4, <1>5, <1>6, <1>7

\* Nothing is added to what the sockets hold.
LEMMA WireShrinks ==
    ASSUME TypeOK, Retired,
           \A s \in Conns : wire'[s] \union handler'[s].todo \subseteq wire[s] \union handler[s].todo
    PROVE  WireStep
<1>1. \A s \in Conns : wire[s] \subseteq Commands /\ handler[s].todo \subseteq Commands
  BY DEF TypeOK, TypeSockets, Handlers
<1> QED
  BY <1>1 DEF Retired, WireStep, HeldSockets, Dialed

\* Nothing is added to the queue, and it is the same queue or none.
LEMMA QueueShrinks ==
    ASSUME TypeOK, Retired, queues' = queues, queue'.id = 0 \/ queue'.id = queue.id,
           queue'.events \subseteq queue.events
    PROVE  QueueStep
  BY DEF TypeOK, Retired, QueueStep, Counted, HeldQueue, TypeQueue

\* No call takes events, and none is parked anew.
EventsShrink == \A k \in Calls :
    \/ \A c \in Commands : c \notin call'[k].events
    \/ call'[k].events = call[k].events /\ call'[k].token = call[k].token

ParkedKept == Parked' => /\ Parked /\ call'["pull"].queue = call["pull"].queue
                         /\ call'["pull"].token = call["pull"].token

\* Calls that only lose events stay within their credential.
LEMMA CallsShrink ==
    ASSUME TypeOK, TypeOK', Retired, queues' = queues, EventsShrink, ParkedKept
    PROVE  CallStep
<1>1. \A k \in Calls : call'[k].events \subseteq Commands
  BY DEF TypeOK, TypePost, CallRecords
<1>2. \A k \in Calls : \A c \in call'[k].events : Bound(c, call'[k].token)
  BY <1>1 DEF EventsShrink, Retired, HeldCalls
<1> QED
  BY <1>1, <1>2 DEF ParkedKept, CallStep

\* Marking the node keeps its generation or mints a greater one.
LEMMA MarkGrows ==
    ASSUME NEW r \in Registries, r.v2 <= r.minted
    PROVE  /\ r.minted <= Mark(r).minted /\ Mark(r).v2 <= Mark(r).minted
           /\ Mark(r).v2 = r.v2 \/ r.minted < Mark(r).v2
           /\ Mark(r).conn = r.conn
<1>1. r.minted \in Nat /\ r.v2 \in Nat
  BY DEF Registries
<1>2. CASE r.v2 = 0
  <2>1. /\ Mark(r).v2 = r.minted + 1 /\ Mark(r).minted = r.minted + 1
        /\ Mark(r).conn = r.conn
    BY <1>2 DEF Mark, Registries
  <2> QED
    BY <1>1, <2>1
<1>3. CASE r.v2 # 0
  BY <1>1, <1>3 DEF Mark
<1> QED
  BY <1>2, <1>3

\* The open gate: the epoch is the current token.
LEMMA OpenEpoch == gate = "open" => Epoch = token
  BY DEF Epoch

\* A handler's control step keeps what the invariant says of it.
LEMMA GotoKeeps ==
    ASSUME TypeSockets, NEW s \in Conns, NEW pc, Goto(s, pc)
    PROVE  \A t \in Conns : /\ handler'[t].token = handler[t].token
                            /\ handler'[t].todo = handler[t].todo
                            /\ t # s => handler'[t].pc = handler[t].pc
  BY DEF Goto, TypeSockets, Handlers

-----------------------------------------------------------------------------
(***************************************************************************)
(* The actions, each proved for the groups of variables it changes.         *)
(***************************************************************************)

\* All actions but the minting ones have the shape Step.
LEMMA ActionsStep ==
    ASSUME TypeOK, TypeOK', Retired
    PROVE  /\ \A c \in Commands : DispatchWrite(c) => Step
           /\ \A c \in Commands : DispatchEnqueue(c) => Step
           /\ \A c \in Commands : Expire(c) => Step
           /\ Sweep => Step
           /\ RotateCommit => Step
           /\ \A s \in Conns : Setup(s) => Step
           /\ \A s \in Conns : AbortOld(s) => Step
           /\ \A s \in Conns : Reconcile(s) => Step
           /\ \A s \in Conns : PushTake(s) => Step
           /\ \A s \in Conns : PushWrite(s) => Step
           /\ \A s \in Conns : PushAck(s) => Step
           /\ \A s \in Conns : ServeEnds(s) => Step
           /\ \A s \in Conns : Cleanup(s) => Step
           /\ \A s \in Conns : LinkDrops(s) => Step
           /\ \A s \in Conns : SeesClose(s) => Step
           /\ \A s \in Conns : ReadFrame(s) => Step
           /\ Reinstall \/ Restart => Step
           /\ EnterPost => Step
           /\ \A k \in Calls : CallSend(k) => Step
           /\ ReportAdmit => Step
           /\ PullAdmit => Step
           /\ PullCheck => Step
           /\ PullWake => Step
           /\ \A k \in Calls : CallReply(k) => Step
           /\ \A k \in Calls : CallFails(k) => Step
           /\ \A k \in Calls : CallReceive(k) => Step
<1> USE DEF TypeOK, Retired
<1>1. ASSUME NEW c \in Commands, DispatchWrite(c) PROVE Step
  <2>1. SocketStep
    BY <1>1 DEF DispatchWrite, WriteSucceeds, WriteFails, TypeSockets, SocketStep
  <2>2. WireStep
    <3>1. CASE WriteSucceeds(dispatch[c].conn, c)
      <4>1. /\ dispatch[c].conn \in Conns /\ socket[dispatch[c].conn] # "unborn"
            /\ Bound(c, handler[dispatch[c].conn].token)
        BY <1>1 DEF DispatchWrite, Dispatched
      <4>2. /\ handler' = handler
            /\ \A t \in Conns : wire'[t] \subseteq wire[t] \union {c}
            /\ \A t \in Conns \ {dispatch[c].conn} : wire'[t] = wire[t]
        BY <1>1, <3>1, <4>1 DEF DispatchWrite, WriteSucceeds, TypeSockets
      <4>3. \A s \in Conns : wire[s] \subseteq Commands /\ handler[s].todo \subseteq Commands
        BY DEF TypeSockets, Handlers
      <4> QED
        BY <1>1, <4>1, <4>2, <4>3 DEF WireStep, HeldSockets, Dialed
    <3>2. CASE UNCHANGED wire
      BY <1>1, <3>2, WireShrinks DEF DispatchWrite
    <3> QED
      BY <1>1, <3>1, <3>2 DEF DispatchWrite, WriteFails
  <2>3. DispatchStep
    <3>1. PICK pc \in {"sent", "enqueue"} : dispatch' = [dispatch EXCEPT ![c].pc = pc]
      BY <1>1 DEF DispatchWrite
    <3> QED
      BY <1>1, <3>1 DEF DispatchWrite, DispatchStep, TypeDispatch, Dispatches
  <2> QED
    BY <1>1, <2>1, <2>2, <2>3, Unchanged DEF DispatchWrite, Step, credVars, queueVars, socketVars, postVars
<1>2. ASSUME NEW c \in Commands, DispatchEnqueue(c) PROVE Step
  <2>1. DispatchStep
    <3>1. PICK pc \in {"queued", "refused"} : dispatch' = [dispatch EXCEPT ![c].pc = pc]
      BY <1>2 DEF DispatchEnqueue
    <3> QED
      BY <1>2, <3>1 DEF DispatchEnqueue, DispatchStep, TypeDispatch, Dispatches
  <2>2. QueueStep
    <3>1. CASE StillCurrent(c) /\ Enqueue(c)
      <4> DEFINE kept == {d \in queue.events : Key[c] = NoKey \/ Key[d] # Key[c]}
      <4>1. Bound(c, Epoch)
        BY <1>2, <3>1 DEF DispatchEnqueue, StillCurrent, Dispatched
      <4>2. Newest(kept, QueueLimit - 1) \subseteq queue.events
        BY KeptSubset
      <4>3. \A d \in Newest(kept, QueueLimit - 1) \union {c} : d \in Commands /\ Bound(d, Epoch)
        BY <1>2, <4>1, <4>2 DEF HeldQueue, TypeQueue
      <4>4. /\ queue'.id = QueueId /\ queue'.events = Newest(kept, QueueLimit - 1) \union {c}
            /\ queues' = IF queue.id = 0 THEN queues + 1 ELSE queues
        BY <3>1 DEF Enqueue, NextSignal
      <4>5. /\ queues <= queues' /\ queue'.id <= queues'
            /\ queue'.id = queue.id \/ queues < queue'.id
        BY <4>4 DEF QueueId, TypeQueue, Counted
      <4> QED
        BY <4>3, <4>4, <4>5 DEF QueueStep
    <3> QED
      BY <1>2, <3>1, Unchanged DEF DispatchEnqueue, queueVars
  <2>3. CallStep
    <3>1. queues <= queues' /\ queues \in Nat /\ queues' \in Nat /\ call' = call
      BY <1>2, <2>2 DEF DispatchEnqueue, QueueStep, TypeQueue, postVars
    <3>2. \A k \in Calls : call[k].events \subseteq Commands
      BY DEF TypePost, CallRecords
    <3> QED
      BY <3>1, <3>2 DEF CallStep, HeldCalls
  <2> QED
    BY <1>2, <2>1, <2>2, <2>3, Unchanged DEF DispatchEnqueue, Step, credVars, queueVars, socketVars, postVars
<1>3. ASSUME NEW c \in Commands, Expire(c) PROVE Step
  <2>1. QueueStep
    <3>1. queue'.id = queue.id /\ queue'.events \subseteq queue.events /\ queues' = queues
      BY <1>3 DEF Expire, Ack, TypeQueue
    <3> QED
      BY <3>1, QueueShrinks
  <2> QED
    BY <1>3, <2>1, Unchanged DEF Expire, Step, credVars, queueVars, socketVars, postVars, Ack
<1>4. ASSUME Sweep PROVE Step
  <2>1. QueueStep
    BY <1>4 DEF Sweep, NoQueue, TypeQueue, Counted, QueueStep
  <2> QED
    BY <1>4, <2>1, Unchanged DEF Sweep, Step, credVars, queueVars, socketVars, postVars
<1>5. ASSUME RotateCommit PROVE Step
  <2>1. EpochStep
    BY <1>5 DEF RotateCommit, Epoch, TypeCredential, EpochStep
  <2> QED
    BY <1>5, <2>1, Unchanged DEF RotateCommit, Step, credVars, queueVars, socketVars, postVars
<1>6. ASSUME NEW s \in Conns, Setup(s) PROVE Step
  <2>1. SocketStep
    BY SMTT(30), <1>6, GotoKeeps DEF Setup, CloseSocket, TypeSockets, Handlers, SocketStep
  <2>2. WireStep
    <3>1. \A t \in Conns : handler'[t].todo = handler[t].todo
      BY SMTT(30), <1>6, GotoKeeps DEF Setup, TypeSockets, Handlers
    <3> QED
      BY <1>6, <3>1, WireShrinks DEF Setup
  <2>3. RegistryStep
    <3>1. CASE registry' = registry
      BY <3>1, Unchanged
    <3>2. CASE registry' = Mark([registry EXCEPT !.conn = s]) /\ handler[s].token = token
      <4> DEFINE r == [registry EXCEPT !.conn = s]
      <4>1. registry \in Registries /\ 0 \in 0..MaxConns /\ s \in 0..MaxConns
        BY <1>6, BoundsNatural DEF TypeQueue
      <4>2. r \in Registries
        BY <4>1, RegistryUpdates, Zenon
      <4>3. r.minted = registry.minted /\ r.v2 = registry.v2 /\ r.conn = s
        BY <4>1 DEF Registries
      <4>4. Live(s, Epoch)
        BY <1>6, <3>2, OpenEpoch DEF Setup, Dialed
      <4>5. r.v2 <= r.minted
        BY <4>3 DEF Counted
      <4>6. registry' = Mark(r)
        BY <3>2
      <4> HIDE DEF r
      <4> QED
        BY <4>2, <4>3, <4>4, <4>5, <4>6, MarkGrows DEF RegistryStep
    <3> QED
      BY <1>6, <3>1, <3>2 DEF Setup
  <2> QED
    BY <1>6, <2>1, <2>2, <2>3, Unchanged DEF Setup, Step, credVars, queueVars, socketVars, postVars
<1>7. ASSUME NEW s \in Conns, AbortOld(s) PROVE Step
  <2>1. SocketStep
    BY <1>7, GotoKeeps DEF AbortOld, TypeSockets, SocketStep
  <2>2. WireStep
    BY <1>7, GotoKeeps, WireShrinks DEF AbortOld
  <2> QED
    BY <1>7, <2>1, <2>2, Unchanged DEF AbortOld, Step, credVars, queueVars, socketVars, postVars
<1>8. ASSUME NEW s \in Conns, Reconcile(s) PROVE Step
  <2>1. SocketStep
    BY <1>8, GotoKeeps DEF Reconcile, CloseSocket, TypeSockets, SocketStep
  <2>2. WireStep
    BY <1>8, GotoKeeps, WireShrinks DEF Reconcile
  <2> QED
    BY <1>8, <2>1, <2>2, Unchanged DEF Reconcile, Step, credVars, queueVars, socketVars, postVars
<1>9. ASSUME NEW s \in Conns, PushTake(s) PROVE Step
  <2>1. SocketStep
    <3>1. CASE handler' = [handler EXCEPT ![s].todo = queue.events,
                             ![s].pc = IF queue.events = {} THEN "serve" ELSE "push"]
      <4>1. \A t \in Conns : handler'[t].token = handler[t].token
        BY ZenonT(60), <1>9, <3>1 DEF TypeSockets, Handlers
      <4>2. \A t \in Conns \ {s} : handler'[t].pc = handler[t].pc
        BY ZenonT(60), <1>9, <3>1 DEF TypeSockets, Handlers
      <4> QED
        BY <1>9, <4>1, <4>2 DEF PushTake, WholeQueue, SocketStep
    <3>2. CASE Goto(s, "cleanup")
      BY <1>9, <3>2, GotoKeeps DEF PushTake, WholeQueue, SocketStep
    <3> QED
      BY <1>9, <3>1, <3>2 DEF PushTake, WholeQueue
  <2>2. WireStep
    <3>1. CASE /\ Admitted(s)
               /\ handler' = [handler EXCEPT ![s].todo = queue.events,
                               ![s].pc = IF queue.events = {} THEN "serve" ELSE "push"]
      <4>1. handler[s].token = Epoch /\ socket[s] # "unborn"
        BY <1>9, <3>1, OpenEpoch DEF Admitted, PushTake, WholeQueue, Dialed
      <4>2. /\ handler'[s].todo = queue.events /\ wire' = wire
            /\ \A t \in Conns \ {s} : handler'[t].todo = handler[t].todo
        BY ZenonT(60), <1>9, <3>1 DEF PushTake, WholeQueue, TypeSockets, Handlers, socketVars
      <4>3. \A t \in Conns : wire[t] \subseteq Commands /\ handler[t].todo \subseteq Commands
        BY DEF TypeSockets, Handlers
      <4>4. queue.events \subseteq Commands
        BY DEF TypeQueue
      <4> QED
        BY <4>1, <4>2, <4>3, <4>4 DEF WireStep, HeldSockets, HeldQueue, Dialed
    <3>2. CASE Goto(s, "cleanup")
      BY <1>9, <3>2, GotoKeeps, WireShrinks DEF PushTake, WholeQueue
    <3> QED
      BY <1>9, <3>1, <3>2 DEF PushTake, WholeQueue
  <2> QED
    BY <1>9, <2>1, <2>2, Unchanged DEF PushTake, WholeQueue, Step, credVars, queueVars, socketVars, postVars
<1>10. ASSUME NEW s \in Conns, PushWrite(s) PROVE Step
  <2>1. SocketStep
    BY SMTT(30), <1>10, GotoKeeps DEF PushWrite, TypeSockets, Handlers, WriteSucceeds, WriteFails, SocketStep
  <2>2. WireStep
    <3>1. PICK c \in Oldest(handler[s].todo, 1) :
             \/ /\ WriteSucceeds(s, c)
                /\ handler' = [handler EXCEPT ![s].todo = handler[s].todo \ {c},
                                 ![s].sent = handler[s].sent \union {c},
                                 ![s].pc = IF handler[s].todo = {c} THEN "ack" ELSE "push"]
             \/ WriteFails(s) /\ Goto(s, "ack")
      BY ZenonT(60), <1>10 DEF PushWrite
    <3>2. c \in handler[s].todo
      BY <3>1, PrefixSubset
    <3>3. \A t \in Conns : handler'[t].todo \subseteq handler[t].todo
      <4>1. CASE Goto(s, "ack")
        BY <1>10, <4>1, GotoKeeps
      <4>2. CASE handler' = [handler EXCEPT ![s].todo = handler[s].todo \ {c},
                               ![s].sent = handler[s].sent \union {c},
                               ![s].pc = IF handler[s].todo = {c} THEN "ack" ELSE "push"]
        BY ZenonT(60), <1>10, <4>2 DEF TypeSockets, Handlers
      <4> QED
        BY <3>1, <4>1, <4>2
    <3>4. \A t \in Conns : wire'[t] \subseteq wire[t] \union handler[t].todo
      BY <1>10, <3>1, <3>2 DEF WriteSucceeds, WriteFails, TypeSockets
    <3> QED
      BY <3>3, <3>4, WireShrinks
  <2> QED
    BY <1>10, <2>1, <2>2, Unchanged DEF PushWrite, Step, credVars, queueVars, socketVars, postVars, WriteSucceeds, WriteFails
<1>11. ASSUME NEW s \in Conns, PushAck(s) PROVE Step
  <2>1. SocketStep
    BY <1>11, GotoKeeps DEF PushAck, AckPushed, TypeSockets, SocketStep
  <2>2. WireStep
    BY <1>11, GotoKeeps, WireShrinks DEF PushAck, AckPushed
  <2>3. QueueStep
    <3>1. queue'.id = queue.id /\ queue'.events \subseteq queue.events /\ queues' = queues
      BY <1>11 DEF PushAck, AckPushed, Ack, TypeQueue
    <3> QED
      BY <3>1, QueueShrinks
  <2> QED
    BY <1>11, <2>1, <2>2, <2>3, Unchanged DEF PushAck, AckPushed, Step, credVars, queueVars, socketVars, postVars, Ack
<1>12. ASSUME NEW s \in Conns, ServeEnds(s) PROVE Step
  <2>1. SocketStep
    BY <1>12, GotoKeeps DEF ServeEnds, TypeSockets, SocketStep
  <2>2. WireStep
    BY <1>12, GotoKeeps, WireShrinks DEF ServeEnds
  <2> QED
    BY <1>12, <2>1, <2>2, Unchanged DEF ServeEnds, Step, credVars, queueVars, socketVars, postVars
<1>13. ASSUME NEW s \in Conns, Cleanup(s) PROVE Step
  <2>1. SocketStep
    BY <1>13, GotoKeeps DEF Cleanup, DeleteClientConditionally, CloseSocket, TypeSockets, SocketStep
  <2>2. WireStep
    BY <1>13, GotoKeeps, WireShrinks DEF Cleanup, DeleteClientConditionally
  <2>3. RegistryStep
    <3>1. CASE registry' = registry
      BY <3>1, Unchanged
    <3>2. CASE registry' = [registry EXCEPT !.conn = 0, !.v2 = 0]
      <4>1. registry'.conn = 0 /\ registry'.v2 = 0 /\ registry'.minted = registry.minted
        BY <3>2 DEF TypeQueue, Registries
      <4>2. registry.minted \in Nat
        BY DEF TypeQueue, Registries
      <4> QED
        BY <4>1, <4>2 DEF RegistryStep
    <3> QED
      BY <1>13, <3>1, <3>2 DEF Cleanup, DeleteClientConditionally
  <2> QED
    BY <1>13, <2>1, <2>2, <2>3, Unchanged DEF Cleanup, DeleteClientConditionally, Step, credVars, queueVars, socketVars, postVars
<1>14. ASSUME NEW s \in Conns, LinkDrops(s) PROVE Step
  <2>1. SocketStep
    BY <1>14 DEF LinkDrops, TypeSockets, SocketStep
  <2>2. WireStep
    <3>1. \A t \in Conns : wire'[t] \subseteq wire[t]
      BY <1>14 DEF LinkDrops, TypeSockets
    <3> QED
      BY <1>14, <3>1, WireShrinks DEF LinkDrops
  <2> QED
    BY <1>14, <2>1, <2>2, Unchanged DEF LinkDrops, Step, credVars, queueVars, socketVars, postVars
<1>15. ASSUME NEW s \in Conns, SeesClose(s) PROVE Step
  <2>1. WireStep
    <3>1. \A t \in Conns : wire'[t] \subseteq wire[t]
      BY <1>15 DEF SeesClose, TypeSockets
    <3> QED
      BY <1>15, <3>1, WireShrinks DEF SeesClose
  <2> QED
    BY <1>15, <2>1, Unchanged DEF SeesClose, Step, credVars, queueVars, socketVars, postVars
<1>16. ASSUME NEW s \in Conns, ReadFrame(s) PROVE Step
  <2>1. WireStep
    <3>1. \A t \in Conns : wire'[t] \subseteq wire[t]
      BY <1>16 DEF ReadFrame, TypeSockets
    <3> QED
      BY <1>16, <3>1, WireShrinks DEF ReadFrame
  <2> QED
    BY <1>16, <2>1, Unchanged DEF ReadFrame, Step, credVars, queueVars, socketVars, postVars
<1>17. ASSUME Reinstall \/ Restart PROVE Step
  <2>1. PICK t : StartProcess(t)
    BY <1>17 DEF Reinstall, Restart
  <2>2. UNCHANGED <<credVars, registry, queueVars, dispatch, handler>>
    BY <1>17 DEF Reinstall, Restart
  <2>3. SocketStep
    BY <2>1, <2>2 DEF StartProcess, TypeSockets, SocketStep
  <2>4. WireStep
    <3>1. \A s \in Conns : wire'[s] \subseteq wire[s]
      BY <2>1 DEF StartProcess, TypeSockets
    <3> QED
      BY <2>2, <3>1, WireShrinks
  <2>5. CallStep
    <3>1. \A k \in Calls : call'[k] = Idle
      BY <2>1 DEF StartProcess
    <3>2. EventsShrink /\ ParkedKept
      BY <3>1 DEF Idle, EventsShrink, ParkedKept
    <3> QED
      BY <2>2, <3>2, CallsShrink DEF queueVars
  <2> QED
    BY <2>2, <2>3, <2>4, <2>5, Unchanged DEF Step, credVars, queueVars
<1>18. ASSUME EnterPost PROVE Step
  <2> QED
    BY <1>18, Unchanged DEF EnterPost, Step, credVars, queueVars, socketVars, postVars
<1>19. ASSUME NEW k \in Calls, CallSend(k) PROVE Step
  <2>1. CallStep
    <3>1. /\ \A j \in Calls \ {k} : call'[j] = call[j]
          /\ call'[k] = [Idle EXCEPT !.pc = "sent", !.token = agent.token, !.acks = agent.acks]
          /\ queues' = queues
      BY <1>19 DEF CallSend, TypePost, queueVars
    <3>2. call'[k].events = {} /\ call'[k].pc = "sent"
      BY <3>1 DEF Idle
    <3>3. EventsShrink /\ ParkedKept
      BY <1>19, <3>1, <3>2 DEF EventsShrink, ParkedKept
    <3> QED
      BY <3>1, <3>3, CallsShrink
  <2> QED
    BY <1>19, <2>1, Unchanged DEF CallSend, Step, credVars, queueVars, socketVars, postVars
<1>20. ASSUME ReportAdmit PROVE Step
  <2>1. RegistryStep
    <3>1. registry \in Registries /\ registry.v2 <= registry.minted
      BY DEF TypeQueue, Counted
    <3>2. registry' = Mark(registry)
      BY <1>20 DEF ReportAdmit, AckReported
    <3> QED
      BY <3>1, <3>2, MarkGrows DEF RegistryStep, Registered
  <2>2. QueueStep
    <3>1. queue'.id = queue.id /\ queue'.events \subseteq queue.events /\ queues' = queues
      BY <1>20 DEF ReportAdmit, AckReported, Ack, TypeQueue
    <3> QED
      BY <3>1, QueueShrinks
  <2>3. CallStep
    <3> DEFINE events == Oldest(queue.events \ call["report"].acks, ReportTake)
    <3>1. /\ call'["report"].events = events /\ call'["report"].token = call["report"].token
          /\ call'["pull"] = call["pull"] /\ queues' = queues
      BY <1>20 DEF ReportAdmit, AckReported, TypePost, CallRecords
    <3>2. call["report"].token = Epoch
      BY <1>20, OpenEpoch DEF ReportAdmit, AckReported
    <3>3. events \subseteq queue.events /\ queue.events \subseteq Commands
      BY PrefixSubset DEF TypeQueue
    <3>4. call["pull"].events \subseteq Commands
      BY DEF TypePost, CallRecords
    <3> HIDE DEF events
    <3> QED
      BY <3>1, <3>2, <3>3, <3>4 DEF CallStep, HeldCalls, HeldQueue
  <2> QED
    BY <1>20, <2>1, <2>2, <2>3, Unchanged DEF ReportAdmit, AckReported, Step, credVars, queueVars, socketVars, postVars, Ack
<1>21. ASSUME PullAdmit PROVE Step
  <2>1. RegistryStep
    <3>1. registry \in Registries /\ registry.v2 <= registry.minted
      BY DEF TypeQueue, Counted
    <3>2. registry' = Mark(registry)
      BY <1>21 DEF PullAdmit
    <3> QED
      BY <3>1, <3>2, MarkGrows DEF RegistryStep, Registered
  <2>2. QueueStep
    <3>1. /\ queue'.id = QueueId /\ queue'.events \subseteq queue.events
          /\ queues' = IF queue.id = 0 THEN queues + 1 ELSE queues
      BY <1>21 DEF PullAdmit, TypeQueue
    <3> QED
      BY <3>1 DEF QueueStep, QueueId, TypeQueue, Counted, HeldQueue
  <2>3. CallStep
    <3>1. /\ call'["pull"].queue = QueueId /\ call'["pull"].token = call["pull"].token
          /\ call'["pull"].events = call["pull"].events /\ call'["report"] = call["report"]
          /\ queues' = IF queue.id = 0 THEN queues + 1 ELSE queues
      BY <1>21 DEF PullAdmit, TypePost, CallRecords
    <3>2. call["pull"].token = Epoch
      BY <1>21, OpenEpoch DEF PullAdmit
    <3>3. 0 < QueueId /\ QueueId <= queues'
      BY <3>1 DEF QueueId, TypeQueue, Counted
    <3>4. \A k \in Calls : call[k].events \subseteq Commands
      BY DEF TypePost, CallRecords
    <3> QED
      BY <3>1, <3>2, <3>3, <3>4 DEF CallStep, HeldCalls
  <2> QED
    BY <1>21, <2>1, <2>2, <2>3, Unchanged DEF PullAdmit, Step, credVars, queueVars, socketVars, postVars
<1>22. ASSUME PullCheck PROVE Step
  <2>1. CallStep
    <3>1. ASSUME NEW taken, PullTakes(taken),
                 \A c \in taken : c \in queue.events /\ SameQueue
          PROVE  CallStep
      <4>1. /\ call'["pull"].pc = "taken" /\ call'["pull"].events = taken
            /\ call'["pull"].token = call["pull"].token /\ call'["report"] = call["report"]
        BY <3>1 DEF PullTakes, TypePost, CallRecords
      <4>2. \A c \in taken : call["pull"].token = Epoch
        BY <1>22, <3>1 DEF PullCheck, SameQueue, Polled
      <4>3. call["report"].events \subseteq Commands /\ queue.events \subseteq Commands
        BY DEF TypePost, CallRecords, TypeQueue
      <4> QED
        BY <3>1, <4>1, <4>2, <4>3 DEF CallStep, HeldCalls, HeldQueue
    <3>2. ASSUME call' = [call EXCEPT !["pull"].pc = "waiting", !["pull"].signal = queue.signal]
          PROVE  CallStep
      <4>1. /\ call'["pull"].queue = call["pull"].queue /\ call'["report"] = call["report"]
            /\ call'["pull"].events = call["pull"].events
            /\ call'["pull"].token = call["pull"].token /\ queues' = queues
        BY <1>22, <3>2 DEF PullCheck, TypePost, CallRecords, queueVars
      <4>2. EventsShrink /\ ParkedKept
        BY <1>22, <4>1 DEF PullCheck, EventsShrink, ParkedKept
      <4> QED
        BY <4>1, <4>2, CallsShrink
    <3>3. ASSUME PullTakes({}) PROVE CallStep
      BY <3>1, <3>3
    <3>4. ASSUME SameQueue, PullTakes(queue.events) PROVE CallStep
      BY <3>1, <3>4
    <3> QED
      BY <1>22, <3>2, <3>3, <3>4 DEF PullCheck
  <2> QED
    BY <1>22, <2>1, Unchanged DEF PullCheck, Step, credVars, queueVars, socketVars, postVars
<1>23. ASSUME PullWake PROVE Step
  <2>1. CallStep
    <3>1. ASSUME NEW taken, PullTakes(taken),
                 \A c \in taken : c \in queue.events /\ SameQueue
          PROVE  CallStep
      <4>1. /\ call'["pull"].pc = "taken" /\ call'["pull"].events = taken
            /\ call'["pull"].token = call["pull"].token /\ call'["report"] = call["report"]
        BY <3>1 DEF PullTakes, TypePost, CallRecords
      <4>2. \A c \in taken : call["pull"].token = Epoch
        BY <1>23, <3>1 DEF PullWake, SameQueue, Polled
      <4>3. call["report"].events \subseteq Commands /\ queue.events \subseteq Commands
        BY DEF TypePost, CallRecords, TypeQueue
      <4> QED
        BY <3>1, <4>1, <4>2, <4>3 DEF CallStep, HeldCalls, HeldQueue
    <3>2. PullTakes(IF SameQueue THEN queue.events ELSE {})
      BY <1>23 DEF PullWake
    <3>3. CASE SameQueue
      BY <3>1, <3>2, <3>3
    <3>4. CASE ~SameQueue
      BY <3>1, <3>2, <3>4
    <3> QED
      BY <3>3, <3>4
  <2> QED
    BY <1>23, <2>1, Unchanged DEF PullWake, Step, credVars, queueVars, socketVars, postVars
<1>24. ASSUME NEW k \in Calls, CallReply(k) PROVE Step
  <2>1. CallStep
    <3>1. /\ \A j \in Calls \ {k} : call'[j] = call[j]
          /\ call'[k].pc = "answered" /\ call'[k].events = call[k].events
          /\ call'[k].token = call[k].token /\ queues' = queues
      BY <1>24 DEF CallReply, TypePost, CallRecords, queueVars
    <3>2. EventsShrink /\ ParkedKept
      BY <1>24, <3>1 DEF EventsShrink, ParkedKept
    <3> QED
      BY <3>1, <3>2, CallsShrink
  <2> QED
    BY <1>24, <2>1, Unchanged DEF CallReply, Step, credVars, queueVars, socketVars, postVars
<1>25. ASSUME NEW k \in Calls, CallFails(k) PROVE Step
  <2>1. CallStep
    <3>1. /\ \A j \in Calls \ {k} : call'[j] = call[j]
          /\ call'[k] = Idle /\ queues' = queues
      BY <1>25 DEF CallFails, TypePost, queueVars
    <3>2. call'[k].events = {} /\ call'[k].pc = "idle"
      BY <3>1 DEF Idle
    <3>3. EventsShrink /\ ParkedKept
      BY <1>25, <3>1, <3>2 DEF EventsShrink, ParkedKept
    <3> QED
      BY <3>1, <3>3, CallsShrink
  <2> QED
    BY <1>25, <2>1, Unchanged DEF CallFails, Step, credVars, queueVars, socketVars, postVars
<1>26. ASSUME NEW k \in Calls, CallReceive(k) PROVE Step
  <2>1. CallStep
    <3>1. /\ \A j \in Calls \ {k} : call'[j] = call[j]
          /\ call'[k] = Idle /\ queues' = queues
      BY <1>26 DEF CallReceive, Unseen, TypePost, queueVars
    <3>2. call'[k].events = {} /\ call'[k].pc = "idle"
      BY <3>1 DEF Idle
    <3>3. EventsShrink /\ ParkedKept
      BY <1>26, <3>1, <3>2 DEF EventsShrink, ParkedKept
    <3> QED
      BY <3>1, <3>3, CallsShrink
  <2> QED
    BY <1>26, <2>1, Unchanged DEF CallReceive, Unseen, Step, credVars, queueVars, socketVars, postVars
<1> QED
  BY <1>1, <1>2, <1>3, <1>4, <1>5, <1>6, <1>7, <1>8, <1>9, <1>10, <1>11, <1>12,
     <1>13, <1>14, <1>15, <1>16, <1>17, <1>18, <1>19, <1>20, <1>21, <1>22, <1>23, <1>24,
     <1>25, <1>26

-----------------------------------------------------------------------------
(* The three actions that are not Steps. *)

\* A command that is read now was held nowhere.
LEMMA ReadKeeps ==
    ASSUME TypeOK, TypeOK', Retired, NEW c \in Commands, DispatchRead(c)
    PROVE  Retired'
<1> USE DEF TypeOK, Retired, credVars, queueVars, socketVars, postVars
<1>1. /\ \A d \in Commands \ {c} : dispatch'[d] = dispatch[d]
      /\ dispatch'[c].pc # "new" /\ dispatch[c].pc = "new"
      /\ dispatch'[c].epoch = Epoch /\ dispatch'[c].gen = registry.v2
      /\ dispatch'[c].conn = registry.conn
      /\ dispatch'[c].pc = "write" => registry.conn # 0
  BY DEF DispatchRead, TypeDispatch, Dispatches
<1>2. UNCHANGED <<credVars, registry, queueVars, socketVars, postVars>> /\ Epoch' = Epoch
  BY DEF DispatchRead, Epoch
<1>3. Counted'
  <2>1. \A d \in Commands : dispatch'[d].gen <= registry.minted
    BY <1>1 DEF Counted
  <2> QED
    BY <1>2, <2>1 DEF Counted
<1>4. Dialed' /\ Registered' /\ Polled'
  BY <1>2 DEF Dialed, Registered, Polled
<1>5. Dispatched'
  BY <1>1, <1>2 DEF Dispatched, Registered
<1>6. HeldQueue'
  BY <1>1, <1>2 DEF HeldQueue, TypeQueue
<1>7. HeldSockets'
  <2>1. \A s \in Conns : wire[s] \subseteq Commands /\ handler[s].todo \subseteq Commands
    BY DEF TypeSockets, Handlers
  <2> QED
    BY <1>1, <1>2, <2>1 DEF HeldSockets
<1>8. HeldCalls'
  <2>1. \A k \in Calls : call[k].events \subseteq Commands
    BY DEF TypePost, CallRecords
  <2> QED
    BY <1>1, <1>2, <2>1 DEF HeldCalls
<1> QED
  BY <1>3, <1>4, <1>5, <1>6, <1>7, <1>8

\* A dialed socket held nothing and was offered to nobody.
LEMMA DialKeeps ==
    ASSUME TypeOK, TypeOK', Retired, NEW s \in Conns, Dial(s)
    PROVE  Retired'
<1> USE DEF TypeOK, Retired, credVars, queueVars, socketVars
<1>1. /\ socket[s] = "unborn" /\ socket'[s] = "up"
      /\ \A t \in Conns \ {s} : socket'[t] = socket[t] /\ handler'[t] = handler[t]
      /\ handler'[s].todo = handler[s].todo
  BY DEF Dial, TypeSockets, Handlers
<1>2. UNCHANGED <<credVars, registry, queueVars, dispatch, wire, call>> /\ Epoch' = Epoch
  BY DEF Dial, Epoch
<1>3. wire[s] = {} /\ handler[s].todo = {}
  BY <1>1 DEF Dialed
<1>4. Counted' /\ Polled' /\ HeldQueue' /\ HeldCalls'
  BY <1>2 DEF Counted, Polled, HeldQueue, HeldCalls
<1>5. Dialed'
  BY <1>1, <1>2 DEF Dialed
<1>6. Registered'
  BY <1>1, <1>2 DEF Registered
<1>7. Dispatched'
  BY <1>1, <1>2 DEF Dispatched
<1>8. HeldSockets'
  BY <1>1, <1>2, <1>3 DEF HeldSockets
<1> QED
  BY <1>4, <1>5, <1>6, <1>7, <1>8

\* The reset of a rotation forgets the mark, the connection and the queue.
LEMMA ResetKeeps ==
    ASSUME TypeOK, TypeOK', Retired, RotateReset
    PROVE  Retired'
<1> USE DEF TypeOK, Retired, queueVars, postVars
<1>1. registry'.conn = 0 /\ registry'.v2 = 0 /\ registry'.minted = registry.minted
  BY DEF RotateReset, TypeQueue, Registries
<1>2. queue'.id = 0 /\ queue'.events = {}
  BY DEF RotateReset, NoQueue
<1>3. /\ UNCHANGED <<queues, dispatch, handler, wire, call>>
      /\ \A s \in Conns : socket'[s] = socket[s] \/ socket'[s] = "closed"
  BY DEF RotateReset, TypeSockets
<1>4. Counted'
  BY <1>1, <1>2, <1>3 DEF Counted, TypeQueue, Registries
<1>5. Dialed'
  BY <1>3 DEF Dialed
<1>6. Registered' /\ HeldQueue'
  BY <1>1, <1>2 DEF Registered, HeldQueue
<1>7. Dispatched'
  BY <1>1, <1>3 DEF Dispatched
<1>8. Polled'
  <2>1. call["pull"].queue \in Nat
    BY DEF TypePost, CallRecords
  <2> QED
    BY <1>2, <1>3, <2>1 DEF Polled
<1>9. HeldSockets' /\ HeldCalls'
  BY <1>3 DEF HeldSockets, HeldCalls
<1> QED
  BY <1>4, <1>5, <1>6, <1>7, <1>8, <1>9

-----------------------------------------------------------------------------
(* The theorem. *)

\* No credential has been rotated at the start.
LEMMA InitRetired == Init => Retired
<1> SUFFICES ASSUME Init PROVE Retired
  OBVIOUS
<1> USE DEF Init
<1>1. Counted /\ Dialed /\ Registered
  BY DEF Counted, Dialed, Registered, NoQueue
<1>2. Dispatched
  BY DEF Dispatched
<1>3. Polled /\ HeldQueue /\ HeldSockets /\ HeldCalls
  BY DEF Polled, HeldQueue, HeldSockets, HeldCalls, NoQueue, Idle
<1> QED
  BY <1>1, <1>2, <1>3 DEF Retired

\* The retirement invariant is inductive.
LEMMA NextRetired == TypeOK /\ TypeOK' /\ Retired /\ [Next]_vars => Retired'
<1> SUFFICES ASSUME TypeOK, TypeOK', Retired, [Next]_vars PROVE Retired'
  OBVIOUS
<1>1. ASSUME NEW c \in Commands,
             DispatchRead(c) \/ DispatchWrite(c) \/ DispatchEnqueue(c) \/ Expire(c)
      PROVE  Retired'
  BY <1>1, ReadKeeps, ActionsStep, StepKeeps
<1>2. ASSUME NEW s \in Conns,
             Handler(s) \/ Dial(s) \/ LinkDrops(s) \/ SeesClose(s) \/ ReadFrame(s)
      PROVE  Retired'
  BY <1>2, DialKeeps, ActionsStep, StepKeeps DEF Handler
<1>3. ASSUME NEW k \in Calls, CallFails(k) PROVE Retired'
  BY <1>3, ActionsStep, StepKeeps
<1>4. CASE RotateReset
  BY <1>4, ResetKeeps
<1>5. CASE RotateCommit \/ Sweep \/ Reinstall \/ Restart \/ Fallback
  BY <1>5, ActionsStep, StepKeeps DEF Fallback
<1>6. CASE UNCHANGED vars
  <2>1. Step
    BY <1>6, Unchanged DEF Step, vars, credVars, queueVars, socketVars, postVars
  <2> QED
    BY <2>1, StepKeeps
<1> QED
  BY <1>1, <1>2, <1>3, <1>4, <1>5, <1>6 DEF Next

\* No command of a retired credential generation is held in the queue, on a
\* socket, in a handler or in an answer.
THEOREM Retirement == Spec => []RetirementBoundary
<1>1. Init => TypeOK /\ Retired
  BY InitType, InitRetired
<1>2. TypeOK /\ Retired /\ [Next]_vars => (TypeOK /\ Retired)'
  BY NextType, NextRetired
<1>3. Retired => RetirementBoundary
  BY DEF Retired, HeldQueue, HeldSockets, HeldCalls, RetirementBoundary
<1> QED
  BY <1>1, <1>2, <1>3, PTL DEF Spec

HIDE DEF Bound, Live, Parked, Pending

-----------------------------------------------------------------------------
(* The way of a command: what is dispatched, handed over and acknowledged. *)

\* Command c was written to a socket by its own dispatch, or queued.
Known(c) == dispatch[c].pc = "sent" \/ order[c] > 0

\* What a command's place in the queue, on a socket, in a handler or in an
\* answer says of its dispatch: it was queued first, and it is known.
KnownInv ==
    /\ \A c \in Commands : order[c] > 0 => dispatch[c].pc = "queued"
    /\ \A c \in queue.events : order[c] > 0
    /\ \A s \in Conns : \A c \in handler[s].todo : order[c] > 0
    /\ \A k \in Calls : \A c \in call[k].events : order[c] > 0
    /\ \A c \in Handed : Known(c)

\* What is acknowledged was handed over: a handler acknowledges what it wrote,
\* an agent what it was brought.
HandedInv ==
    /\ \A s \in Conns : wire[s] \union handler[s].sent \subseteq written
    /\ agent.acks \union agent.seen \subseteq Handed
    /\ \A k \in Calls : call[k].acks \subseteq Handed

DeliveryInv == KnownInv /\ HandedInv
-----------------------------------------------------------------------------
USE DEF Conns, Calls, Tokens

(* What a step does to each group of variables. *)

\* What was written, run, queued or sent stays so.
Grown ==
    /\ written \subseteq written'
    /\ \A c \in Commands : executed[c] > 0 => executed'[c] > 0
    /\ \A c \in Commands : order[c] > 0 => order'[c] > 0
    /\ \A c \in Commands :
         dispatch[c].pc \in {"sent", "queued"} => dispatch'[c].pc = dispatch[c].pc

QueueMoves ==
    /\ \A c \in queue'.events : c \in Commands /\ (c \in queue.events \/ order'[c] > 0)
    /\ \A c \in Commands : order'[c] > 0 => order[c] > 0 \/ dispatch'[c].pc = "queued"

HandlerMoves == \A s \in Conns :
    /\ handler'[s].todo \subseteq handler[s].todo \union queue.events
    /\ wire'[s] \union handler'[s].sent \subseteq wire[s] \union handler[s].sent \union written'

CallMoves == \A k \in Calls :
    /\ call'[k].events \subseteq call[k].events \union queue.events
    /\ call'[k].acks \subseteq call[k].acks \union agent.acks

AgentMoves == agent'.acks \union agent'.seen \subseteq agent.acks \union agent.seen \union Handed'

RunMoves == \A c \in Handed' : c \in Handed \/ dispatch'[c].pc = "sent" \/ order[c] > 0

Moves == Grown /\ QueueMoves /\ HandlerMoves /\ CallMoves /\ AgentMoves /\ RunMoves

\* Every step of the shape Moves keeps the invariant.
LEMMA MovesKeep ==
    ASSUME TypeOK, TypeOK', DeliveryInv, Moves
    PROVE  DeliveryInv'
<1> USE DEF Moves, DeliveryInv
<1>1. /\ queue.events \subseteq Commands /\ Handed \subseteq Commands
      /\ \A s \in Conns : handler[s].todo \subseteq Commands
      /\ \A k \in Calls : call[k].events \subseteq Commands
  BY DEF TypeOK, TypeQueue, TypeSockets, Handlers, TypePost, CallRecords, TypeRun, Handed
<1>2. Handed \subseteq Handed'
  BY DEF Grown, Handed
<1>3. \A c \in Commands : order'[c] > 0 => dispatch'[c].pc = "queued"
  BY DEF Grown, QueueMoves, KnownInv
<1>4. \A c \in queue'.events : order'[c] > 0
  BY <1>1 DEF Grown, QueueMoves, KnownInv
<1>5. \A s \in Conns : \A c \in handler'[s].todo : order'[c] > 0
  BY <1>1 DEF Grown, HandlerMoves, KnownInv
<1>6. \A k \in Calls : \A c \in call'[k].events : order'[c] > 0
  BY <1>1 DEF Grown, CallMoves, KnownInv
<1>7. \A c \in Handed' : Known(c)'
  <2> SUFFICES ASSUME NEW c \in Handed' PROVE Known(c)'
    OBVIOUS
  <2>1. c \in Commands
    BY DEF Handed, TypeOK, TypeRun
  <2> QED
    BY <1>1, <2>1 DEF RunMoves, Grown, KnownInv, Known
<1>8. KnownInv'
  BY <1>3, <1>4, <1>5, <1>6, <1>7 DEF KnownInv
<1>9. HandedInv'
  <2>1. \A s \in Conns : wire'[s] \union handler'[s].sent \subseteq written'
    BY DEF Grown, HandlerMoves, HandedInv
  <2>2. agent'.acks \union agent'.seen \subseteq Handed'
    BY <1>2 DEF AgentMoves, HandedInv
  <2>3. \A k \in Calls : call'[k].acks \subseteq Handed'
    BY <1>2 DEF CallMoves, HandedInv
  <2> QED
    BY <2>1, <2>2, <2>3 DEF HandedInv
<1> QED
  BY <1>8, <1>9

\* A group of variables that a step leaves alone needs no argument.
LEMMA Rests ==
    ASSUME TypeOK, DeliveryInv
    PROVE  /\ UNCHANGED <<dispatch, order, executed, written>> => Grown
           /\ UNCHANGED <<queue, order>> => QueueMoves
           /\ UNCHANGED <<handler, wire>> => HandlerMoves
           /\ UNCHANGED call => CallMoves
           /\ UNCHANGED agent => AgentMoves
           /\ UNCHANGED <<executed, written>> => RunMoves
<1>1. queue.events \subseteq Commands
  BY DEF TypeOK, TypeQueue
<1>2. UNCHANGED <<dispatch, order, executed, written>> => Grown
  BY DEF Grown
<1>3. UNCHANGED <<queue, order>> => QueueMoves
  BY <1>1 DEF QueueMoves
<1>4. UNCHANGED <<handler, wire>> => HandlerMoves
  BY DEF HandlerMoves
<1>5. UNCHANGED call => CallMoves
  BY DEF CallMoves
<1>6. UNCHANGED agent => AgentMoves
  BY DEF AgentMoves
<1>7. UNCHANGED <<executed, written>> => RunMoves
  BY DEF RunMoves, Handed
<1> QED
  BY <1>2, <1>3, <1>4, <1>5, <1>6, <1>7

\* The queue loses events and nothing is queued.
LEMMA QueueLoses ==
    ASSUME TypeOK, queue'.events \subseteq queue.events, UNCHANGED order
    PROVE  QueueMoves
  BY DEF TypeOK, TypeQueue, QueueMoves

\* A handler's control step moves no command.
LEMMA GotoMoves ==
    ASSUME TypeOK, NEW s \in Conns, NEW pc, Goto(s, pc)
    PROVE  \A t \in Conns : handler'[t].todo = handler[t].todo /\ handler'[t].sent = handler[t].sent
  BY DEF TypeOK, Goto, TypeSockets, Handlers

\* A dispatch moves on.
LEMMA DispatchTo ==
    ASSUME TypeOK, NEW c \in Commands, NEW pc, dispatch[c].pc \notin {"sent", "queued"},
           dispatch' = [dispatch EXCEPT ![c].pc = pc]
    PROVE  /\ dispatch'[c].pc = pc
           /\ \A d \in Commands : dispatch[d].pc \in {"sent", "queued"} =>
                dispatch'[d].pc = dispatch[d].pc
  BY DEF TypeOK, TypeDispatch, Dispatches

-----------------------------------------------------------------------------
(* The actions. *)

\* The steps of a dispatch.
LEMMA DispatchMoves ==
    ASSUME TypeOK, DeliveryInv, NEW c \in Commands,
           DispatchRead(c) \/ DispatchWrite(c) \/ DispatchEnqueue(c)
    PROVE  Moves
<1> USE DEF credVars, queueVars, socketVars, postVars, runVars
<1>1. CASE DispatchRead(c)
  <2>1. /\ dispatch[c].pc = "new" /\ \A d \in Commands \ {c} : dispatch'[d] = dispatch[d]
        /\ UNCHANGED <<queueVars, socketVars, postVars, runVars>>
    BY <1>1 DEF DispatchRead, TypeOK, TypeDispatch
  <2>2. Grown
    BY <2>1 DEF Grown
  <2> QED
    BY <2>1, <2>2, Rests DEF Moves
<1>2. CASE DispatchWrite(c)
  <2>1. CASE WriteSucceeds(dispatch[c].conn, c) /\ dispatch' = [dispatch EXCEPT ![c].pc = "sent"]
    <3>1. /\ dispatch'[c].pc = "sent" /\ Grown
          /\ UNCHANGED <<queueVars, handler, postVars, executed>>
          /\ written' = written \union {c}
      BY <1>2, <2>1, DispatchTo DEF DispatchWrite, WriteSucceeds, Grown
    <3>2. \A s \in Conns : wire'[s] \subseteq wire[s] \union {c}
      BY <2>1 DEF WriteSucceeds, TypeOK, TypeSockets
    <3>3. HandlerMoves
      BY <3>1, <3>2 DEF HandlerMoves
    <3>4. RunMoves
      BY <3>1 DEF RunMoves, Handed
    <3> QED
      BY <3>1, <3>3, <3>4, Rests DEF Moves
  <2>2. CASE WriteFails(dispatch[c].conn) /\ dispatch' = [dispatch EXCEPT ![c].pc = "enqueue"]
    <3>1. Grown /\ UNCHANGED <<queueVars, handler, wire, postVars, runVars>>
      BY <1>2, <2>2, DispatchTo DEF DispatchWrite, WriteFails, Grown
    <3> QED
      BY <3>1, Rests DEF Moves
  <2> QED
    BY <1>2, <2>1, <2>2 DEF DispatchWrite
<1>3. CASE DispatchEnqueue(c)
  <2>1. UNCHANGED <<socketVars, postVars, runVars>> /\ dispatch[c].pc = "enqueue"
    BY <1>3 DEF DispatchEnqueue
  <2>2. CASE Enqueue(c) /\ dispatch' = [dispatch EXCEPT ![c].pc = "queued"]
    <3> DEFINE kept == {d \in queue.events : Key[c] = NoKey \/ Key[d] # Key[c]}
    <3>1. /\ queue'.events = Newest(kept, QueueLimit - 1) \union {c}
          /\ order' = [order EXCEPT ![c] = Minted + 1]
      BY <2>2 DEF Enqueue
    <3>2. Newest(kept, QueueLimit - 1) \subseteq queue.events
      BY KeptSubset
    <3>3. /\ order \in [Commands -> Nat] /\ Minted + 1 > 0 /\ queue.events \subseteq Commands
      BY MintedNat DEF TypeOK, TypeQueue
    <3>4. /\ order'[c] > 0 /\ \A d \in Commands \ {c} : order'[d] = order[d]
          /\ dispatch'[c].pc = "queued"
      BY <2>1, <2>2, <3>1, <3>3, DispatchTo
    <3> HIDE DEF kept
    <3>5. QueueMoves
      BY <3>1, <3>2, <3>3, <3>4 DEF QueueMoves
    <3>6. Grown
      BY <2>1, <2>2, <3>4, DispatchTo DEF Grown
    <3> QED
      BY <2>1, <3>5, <3>6, Rests DEF Moves
  <2>3. CASE UNCHANGED queueVars /\ dispatch' = [dispatch EXCEPT ![c].pc = "refused"]
    <3>1. Grown
      BY <2>1, <2>3, DispatchTo DEF Grown
    <3> QED
      BY <2>1, <2>3, <3>1, Rests DEF Moves
  <2> QED
    BY <1>3, <2>2, <2>3 DEF DispatchEnqueue
<1> QED
  BY <1>1, <1>2, <1>3

\* The steps of a socket's handler.
LEMMA HandlerStepMoves ==
    ASSUME TypeOK, DeliveryInv, NEW s \in Conns, Handler(s)
    PROVE  Moves
<1> USE DEF credVars, queueVars, socketVars, postVars, runVars
<1>1. ASSUME NEW pc, Goto(s, pc), UNCHANGED <<dispatch, queueVars, wire, postVars, runVars>>
      PROVE  Moves
  <2>1. HandlerMoves
    BY <1>1, GotoMoves DEF HandlerMoves
  <2> QED
    BY <1>1, <2>1, Rests DEF Moves
<1>2. CASE Setup(s)
  <2>1. UNCHANGED <<dispatch, queueVars, wire, postVars, runVars>>
    BY <1>2 DEF Setup
  <2>2. CASE handler' = [handler EXCEPT ![s].pc = "abort", ![s].old = registry.conn]
    <3>1. \A t \in Conns : handler'[t].todo = handler[t].todo
      BY ZenonT(30), <2>2 DEF TypeOK, TypeSockets, Handlers
    <3>2. \A t \in Conns : handler'[t].sent = handler[t].sent
      BY ZenonT(30), <2>2 DEF TypeOK, TypeSockets, Handlers
    <3>3. HandlerMoves
      BY <2>1, <3>1, <3>2 DEF HandlerMoves
    <3> QED
      BY <2>1, <3>3, Rests DEF Moves
  <2> QED
    BY <1>1, <1>2, <2>1, <2>2 DEF Setup
<1>3. CASE AbortOld(s) \/ Reconcile(s) \/ ServeEnds(s) \/ Cleanup(s)
  <2>1. PICK pc : Goto(s, pc)
    BY <1>3 DEF AbortOld, Reconcile, ServeEnds, Cleanup
  <2>2. UNCHANGED <<dispatch, queueVars, wire, postVars, runVars>>
    BY <1>3 DEF AbortOld, Reconcile, ServeEnds, Cleanup
  <2> QED
    BY <1>1, <2>1, <2>2
<1>4. CASE PushTake(s)
  <2>1. UNCHANGED <<dispatch, queueVars, wire, postVars, runVars>>
    BY <1>4 DEF PushTake
  <2>2. CASE handler' = [handler EXCEPT ![s].todo = WholeQueue,
                           ![s].pc = IF queue.events = {} THEN "serve" ELSE "push"]
    <3>1. \A t \in Conns : handler'[t].todo \in {handler[t].todo, queue.events}
      BY ZenonT(30), <2>2 DEF TypeOK, TypeSockets, Handlers, WholeQueue
    <3>2. \A t \in Conns : handler'[t].sent = handler[t].sent
      BY ZenonT(30), <2>2 DEF TypeOK, TypeSockets, Handlers
    <3>3. HandlerMoves
      BY <2>1, <3>1, <3>2 DEF HandlerMoves
    <3> QED
      BY <2>1, <3>3, Rests DEF Moves
  <2> QED
    BY <1>1, <1>4, <2>1, <2>2 DEF PushTake
<1>5. CASE PushWrite(s)
  <2>1. UNCHANGED <<dispatch, queueVars, postVars, executed, forgotten>>
    BY <1>5 DEF PushWrite
  <2>2. PICK c \in Oldest(handler[s].todo, 1) :
          \/ /\ WriteSucceeds(s, c)
             /\ handler' = [handler EXCEPT ![s].todo = handler[s].todo \ {c},
                              ![s].sent = handler[s].sent \union {c},
                              ![s].pc = IF handler[s].todo = {c} THEN "ack" ELSE "push"]
          \/ WriteFails(s) /\ Goto(s, "ack")
    BY ZenonT(60), <1>5 DEF PushWrite
  <2>3. c \in handler[s].todo /\ order[c] > 0
    BY PrefixSubset DEF DeliveryInv, KnownInv
  <2>4. CASE /\ WriteSucceeds(s, c)
             /\ handler' = [handler EXCEPT ![s].todo = handler[s].todo \ {c},
                              ![s].sent = handler[s].sent \union {c},
                              ![s].pc = IF handler[s].todo = {c} THEN "ack" ELSE "push"]
    <3>1. \A t \in Conns : handler'[t].todo \subseteq handler[t].todo
      BY ZenonT(60), <2>4 DEF TypeOK, TypeSockets, Handlers
    <3>2. \A t \in Conns : handler'[t].sent \subseteq handler[t].sent \union {c}
      BY ZenonT(60), <2>4 DEF TypeOK, TypeSockets, Handlers
    <3>3. /\ written' = written \union {c}
          /\ \A t \in Conns : wire'[t] \subseteq wire[t] \union {c}
      BY <2>4 DEF WriteSucceeds, TypeOK, TypeSockets
    <3>4. HandlerMoves
      BY <3>1, <3>2, <3>3 DEF HandlerMoves
    <3>5. Grown /\ RunMoves
      BY <2>1, <2>3, <3>3 DEF Grown, RunMoves, Handed
    <3> QED
      BY <2>1, <3>4, <3>5, Rests DEF Moves
  <2>5. CASE WriteFails(s) /\ Goto(s, "ack")
    BY <1>1, <2>1, <2>5 DEF WriteFails
  <2> QED
    BY <2>2, <2>4, <2>5
<1>6. CASE PushAck(s)
  <2>1. PICK pc : Goto(s, pc)
    BY <1>6 DEF PushAck
  <2>2. /\ UNCHANGED <<dispatch, queues, order, wire, postVars, runVars>>
        /\ queue'.events \subseteq queue.events
    BY <1>6 DEF PushAck, AckPushed, Ack, TypeOK, TypeQueue
  <2>3. HandlerMoves
    BY <2>1, <2>2, GotoMoves DEF HandlerMoves
  <2> QED
    BY <2>2, <2>3, QueueLoses, Rests DEF Moves
<1> QED
  BY <1>2, <1>3, <1>4, <1>5, <1>6 DEF Handler

\* The agent's socket, and the node's credential.
LEMMA SocketMoves ==
    ASSUME TypeOK, DeliveryInv,
           \/ RotateCommit \/ RotateReset \/ Sweep \/ Reinstall \/ Restart \/ EnterPost
           \/ \E c \in Commands : Expire(c)
           \/ \E s \in Conns : Dial(s) \/ LinkDrops(s) \/ SeesClose(s) \/ ReadFrame(s)
    PROVE  Moves
<1> USE DEF credVars, queueVars, socketVars, postVars, runVars
<1>1. CASE RotateCommit
  BY <1>1, Rests DEF RotateCommit, Moves
<1>2. CASE RotateReset \/ Sweep \/ \E c \in Commands : Expire(c)
  <2>1. queue'.events \subseteq queue.events
    BY <1>2 DEF RotateReset, Sweep, Expire, Ack, NoQueue, TypeOK, TypeQueue
  <2>2. UNCHANGED <<order, dispatch, handler, wire, postVars, runVars>>
    BY <1>2 DEF RotateReset, Sweep, Expire
  <2> QED
    BY <2>1, <2>2, QueueLoses, Rests DEF Moves
<1>3. CASE Reinstall \/ Restart
  <2>1. PICK t : StartProcess(t)
    BY <1>3 DEF Reinstall, Restart
  <2>2. UNCHANGED <<queueVars, dispatch, handler, executed, written>>
    BY <1>3 DEF Reinstall, Restart
  <2>3. /\ agent'.acks = {} /\ agent'.seen = {}
        /\ \A k \in Calls : call'[k].events = {} /\ call'[k].acks = {}
        /\ \A s \in Conns : wire'[s] \subseteq wire[s]
    BY <2>1 DEF StartProcess, NewAgent, Idle
  <2>4. AgentMoves /\ CallMoves /\ HandlerMoves
    BY <2>2, <2>3 DEF AgentMoves, CallMoves, HandlerMoves
  <2> QED
    BY <2>2, <2>4, Rests DEF Moves
<1>4. CASE EnterPost
  <2>1. /\ UNCHANGED <<queueVars, dispatch, socketVars, call, runVars>>
        /\ agent'.acks = agent.acks /\ agent'.seen = agent.seen
    BY <1>4 DEF EnterPost, TypeOK, TypePost, Agents
  <2>2. AgentMoves
    BY <2>1 DEF AgentMoves
  <2> QED
    BY <2>1, <2>2, Rests DEF Moves
<1>5. ASSUME NEW s \in Conns, Dial(s) \/ LinkDrops(s) \/ SeesClose(s) PROVE Moves
  <2>1. /\ UNCHANGED <<queueVars, dispatch, call, runVars>>
        /\ agent'.acks = agent.acks /\ agent'.seen = agent.seen
    BY <1>5 DEF Dial, LinkDrops, SeesClose, TypeOK, TypePost, Agents
  <2>2. \A t \in Conns : wire'[t] \subseteq wire[t]
    BY <1>5 DEF Dial, LinkDrops, SeesClose, TypeOK, TypeSockets
  <2>3. \A t \in Conns : handler'[t].todo = handler[t].todo /\ handler'[t].sent = handler[t].sent
    <3>1. CASE LinkDrops(s) \/ SeesClose(s)
      BY <3>1 DEF LinkDrops, SeesClose
    <3>2. CASE handler' = [handler EXCEPT ![s].pc = "dialed", ![s].token = agent.token]
      <4>1. \A t \in Conns : handler'[t].todo = handler[t].todo
        BY ZenonT(30), <3>2 DEF TypeOK, TypeSockets, Handlers
      <4>2. \A t \in Conns : handler'[t].sent = handler[t].sent
        BY ZenonT(30), <3>2 DEF TypeOK, TypeSockets, Handlers
      <4> QED
        BY <4>1, <4>2
    <3> QED
      BY <1>5, <3>1, <3>2 DEF Dial
  <2>4. AgentMoves /\ HandlerMoves
    BY <2>1, <2>2, <2>3 DEF AgentMoves, HandlerMoves
  <2> QED
    BY <2>1, <2>4, Rests DEF Moves
<1>6. ASSUME NEW s \in Conns, ReadFrame(s) PROVE Moves
  <2>1. PICK c \in wire[s] : /\ wire' = [wire EXCEPT ![s] = wire[s] \ {c}]
                             /\ executed' = [executed EXCEPT ![c] = executed[c] + 1]
    BY <1>6 DEF ReadFrame
  <2>2. UNCHANGED <<queueVars, dispatch, handler, postVars, written>> /\ c \in written
    BY <1>6 DEF ReadFrame, DeliveryInv, HandedInv
  <2>3. /\ executed \in [Commands -> Nat] /\ wire \in [Conns -> SUBSET Commands]
    BY DEF TypeOK, TypeRun, TypeSockets
  <2>4. /\ \A t \in Conns : wire'[t] \subseteq wire[t]
        /\ \A d \in Commands : d # c => executed'[d] = executed[d]
        /\ \A d \in Commands : executed[d] > 0 => executed'[d] > 0
    BY <2>1, <2>3
  <2>5. Grown /\ RunMoves /\ HandlerMoves
    BY <2>2, <2>4 DEF Grown, RunMoves, HandlerMoves, Handed
  <2> QED
    BY <2>2, <2>5, Rests DEF Moves
<1> QED
  BY <1>1, <1>2, <1>3, <1>4, <1>5, <1>6

\* The calls of the POST fallback.
LEMMA PostMoves ==
    ASSUME TypeOK, DeliveryInv,
           \/ ReportAdmit \/ PullAdmit \/ PullCheck \/ PullWake
           \/ \E k \in Calls : CallSend(k) \/ CallReply(k) \/ CallReceive(k) \/ CallFails(k)
    PROVE  Moves
<1> USE DEF credVars, queueVars, socketVars, postVars, runVars
<1>0. call \in [Calls -> CallRecords] /\ agent \in Agents
  BY DEF TypeOK, TypePost
<1>1. CASE ReportAdmit
  <2> DEFINE events == Oldest(queue.events \ call["report"].acks, ReportTake)
  <2>1. /\ UNCHANGED <<order, dispatch, socketVars, agent, runVars>>
        /\ queue'.events \subseteq queue.events
        /\ call' = [call EXCEPT !["report"].pc = "taken", !["report"].events = events]
    BY <1>1 DEF ReportAdmit, AckReported, Ack, TypeOK, TypeQueue
  <2>2. events \subseteq queue.events
    BY PrefixSubset
  <2> HIDE DEF events
  <2>3. /\ call'["report"].events = events /\ call'["report"].acks = call["report"].acks
        /\ call'["pull"] = call["pull"]
    BY <1>0, <2>1 DEF CallRecords
  <2>4. CallMoves
    BY <2>2, <2>3 DEF CallMoves
  <2> QED
    BY <2>1, <2>4, QueueLoses, Rests DEF Moves
<1>2. CASE PullAdmit
  <2>1. /\ UNCHANGED <<order, dispatch, socketVars, agent, runVars>>
        /\ queue'.events \subseteq queue.events
    BY <1>2 DEF PullAdmit, TypeOK, TypeQueue
  <2>2. \A k \in Calls : call'[k].events = call[k].events /\ call'[k].acks = call[k].acks
    BY <1>0, <1>2 DEF PullAdmit, CallRecords
  <2>3. CallMoves
    BY <2>2 DEF CallMoves
  <2> QED
    BY <2>1, <2>3, QueueLoses, Rests DEF Moves
<1>3. CASE PullCheck \/ PullWake
  <2>1. UNCHANGED <<queueVars, dispatch, socketVars, agent, runVars>>
    BY <1>3 DEF PullCheck, PullWake
  <2>2. ASSUME NEW taken, PullTakes(taken), taken \subseteq queue.events PROVE CallMoves
    <3>1. /\ call'["pull"].events = taken /\ call'["pull"].acks = call["pull"].acks
          /\ call'["report"] = call["report"]
      BY <1>0, <2>2 DEF PullTakes, CallRecords
    <3> QED
      BY <2>2, <3>1 DEF CallMoves
  <2>3. ASSUME call' = [call EXCEPT !["pull"].pc = "waiting", !["pull"].signal = queue.signal]
        PROVE  CallMoves
    <3>1. \A k \in Calls : call'[k].events = call[k].events /\ call'[k].acks = call[k].acks
      BY <1>0, <2>3 DEF CallRecords
    <3> QED
      BY <3>1 DEF CallMoves
  <2>4. CallMoves
    <3>1. CASE PullCheck
      BY <2>2, <2>3, <3>1 DEF PullCheck
    <3>2. CASE PullWake
      <4>1. PullTakes(IF SameQueue THEN queue.events ELSE {})
        BY <3>2 DEF PullWake
      <4>2. CASE SameQueue
        BY <2>2, <4>1, <4>2
      <4>3. CASE ~SameQueue
        BY <2>2, <4>1, <4>3
      <4> QED
        BY <4>2, <4>3
    <3> QED
      BY <1>3, <3>1, <3>2
  <2> QED
    BY <2>1, <2>4, Rests DEF Moves
<1>4. ASSUME NEW k \in Calls, CallSend(k) \/ CallReply(k) \/ CallFails(k) PROVE Moves
  <2>1. UNCHANGED <<queueVars, dispatch, socketVars, agent, runVars>>
    BY <1>4 DEF CallSend, CallReply, CallFails
  <2>2. /\ \A j \in Calls \ {k} : call'[j] = call[j]
        /\ call'[k].events \subseteq call[k].events
        /\ call'[k].acks \subseteq call[k].acks \union agent.acks
    <3>1. CASE CallSend(k)
      BY <1>0, <3>1 DEF CallSend, Idle
    <3>2. CASE CallReply(k)
      BY <1>0, <3>2 DEF CallReply, CallRecords
    <3>3. CASE CallFails(k)
      BY <1>0, <3>3 DEF CallFails, Idle
    <3> QED
      BY <1>4, <3>1, <3>2, <3>3
  <2>3. CallMoves
    BY <2>2 DEF CallMoves
  <2> QED
    BY <2>1, <2>3, Rests DEF Moves
<1>5. ASSUME NEW k \in Calls, CallReceive(k) PROVE Moves
  <2>1. /\ UNCHANGED <<queueVars, dispatch, socketVars, written>>
        /\ executed' = [c \in Commands |->
                          IF c \in Unseen(k) THEN executed[c] + 1 ELSE executed[c]]
        /\ agent'.acks = (agent.acks \ call[k].acks) \union call[k].events
        /\ agent'.seen = agent.seen \union call[k].events
        /\ call' = [call EXCEPT ![k] = Idle]
    BY <1>0, <1>5 DEF CallReceive, Agents
  <2>2. executed \in [Commands -> Nat] /\ call[k].events \subseteq Commands
    BY <1>0 DEF TypeOK, TypeRun, CallRecords
  <2>3. CallMoves
    BY <1>0, <2>1 DEF CallMoves, Idle
  <2>4. Handed' = Handed \union Unseen(k)
    BY <2>1, <2>2 DEF Handed, Unseen
  <2>5. AgentMoves
    BY <2>1, <2>4 DEF AgentMoves, Unseen
  <2>6. RunMoves
    BY <2>4 DEF RunMoves, Unseen, DeliveryInv, KnownInv
  <2>7. Grown
    BY <2>1, <2>2 DEF Grown
  <2> QED
    BY <2>1, <2>3, <2>5, <2>6, <2>7, Rests DEF Moves
<1> QED
  BY <1>1, <1>2, <1>3, <1>4, <1>5

\* Every step has the shape Moves.
LEMMA NextMoves == TypeOK /\ DeliveryInv /\ [Next]_vars => Moves
<1> SUFFICES ASSUME TypeOK, DeliveryInv, [Next]_vars PROVE Moves
  OBVIOUS
<1>1. CASE UNCHANGED vars
  BY <1>1, Rests DEF Moves, vars, queueVars, socketVars, postVars, runVars
<1> QED
  BY <1>1, DispatchMoves, HandlerStepMoves, SocketMoves, PostMoves DEF Next, Fallback

LEMMA InitDelivery == Init => DeliveryInv
  BY DEF Init, DeliveryInv, KnownInv, HandedInv, Handed, Idle, NoQueue, NewAgent

\* The delivery invariant holds in every reachable state.
LEMMA Delivery == Spec => [](TypeOK /\ Retired /\ DeliveryInv)
<1>1. Init => TypeOK /\ Retired /\ DeliveryInv
  BY InitType, InitRetired, InitDelivery
<1>2. TypeOK /\ Retired /\ DeliveryInv /\ [Next]_vars => (TypeOK /\ Retired /\ DeliveryInv)'
  BY NextType, NextRetired, NextMoves, MovesKeep
<1> QED
  BY <1>1, <1>2, PTL DEF Spec
-----------------------------------------------------------------------------
(***************************************************************************)
(* The refinement: each step is a step of the mailbox, or none.             *)
(***************************************************************************)

\* What the mailbox does not see.
LEMMA Silent ==
    ASSUME Epoch' = Epoch, queue'.events = queue.events, UNCHANGED <<order, executed, written>>
    PROVE  UNCHANGED Mailbox!vars
  BY DEF Mailbox!vars, Handed

\* A hand-over: nothing is accepted or settled.
LEMMA HandsOver ==
    ASSUME NEW S \in SUBSET Commands, Handed' = Handed \union S,
           Epoch' = Epoch, queue'.events = queue.events, UNCHANGED order
    PROVE  Mailbox!Next
<1>1. Mailbox!HandOver(S)
  BY DEF Mailbox!HandOver
<1> QED
  BY <1>1 DEF Mailbox!Next

\* An acknowledgement of what was handed over.
LEMMA Settles ==
    ASSUME TypeOK, NEW acks, acks \subseteq Handed, queue'.events = queue.events \ acks,
           Epoch' = Epoch, UNCHANGED <<order, executed, written>>
    PROVE  Mailbox!Next
<1> DEFINE S == queue.events \intersect acks
<1>1. S \in SUBSET Commands /\ S \subseteq queue.events \intersect Handed
  BY DEF TypeOK, TypeQueue
<1>2. queue'.events = queue.events \ S
  OBVIOUS
<1>3. Handed' = Handed
  BY DEF Handed
<1> HIDE DEF S
<1>4. Mailbox!Settle(S)
  BY <1>1, <1>2, <1>3 DEF Mailbox!Settle
<1> QED
  BY <1>1, <1>4 DEF Mailbox!Next

\* What the newest of a set leaves out: as many as it takes are newer.
LEMMA CrowdedOut ==
    ASSUME TypeOK, NEW S \in SUBSET Commands, IsFiniteSet(S), NEW n \in Nat,
           NEW d \in S, d \notin Newest(S, n)
    PROVE  Cardinality(S) >= n + 1
<1> DEFINE newer == {e \in S : order[e] > order[d]}
<1>1. IsFiniteSet(newer) /\ newer \subseteq S \ {d} /\ IsFiniteSet(S \ {d})
  <2>1. newer \subseteq S \ {d}
    <3>1. order[d] \in Nat
      BY DEF TypeOK, TypeQueue
    <3> QED
      BY <3>1
  <2>2. IsFiniteSet(S \ {d})
    BY FS_RemoveElement
  <2> QED
    BY <2>1, <2>2, FS_Subset
<1>2. Cardinality(newer) \in Nat /\ ~(Cardinality(newer) < n)
  BY <1>1, FS_CardinalityType DEF Newest
<1>3. Cardinality(newer) <= Cardinality(S \ {d})
  BY <1>1, FS_Subset
<1>4. Cardinality(S \ {d}) = Cardinality(S) - 1 /\ Cardinality(S) \in Nat
  BY FS_RemoveElement, FS_CardinalityType
<1> QED
  BY <1>1, <1>2, <1>3, <1>4, FS_CardinalityType

\* The mailbox counts as the queue does.
LEMMA MailboxCounts == \A S : Mailbox!Cardinality(S) = Cardinality(S)
  BY DEF Cardinality, Mailbox!Cardinality

\* A command that a new one drives out of the queue has its key, or the queue
\* was full.
LEMMA Displaced ==
    ASSUME TypeOK, NEW c \in Commands, NEW d \in queue.events,
           d \notin Newest({e \in queue.events : Key[c] = NoKey \/ Key[e] # Key[c]}, QueueLimit - 1)
    PROVE  Mailbox!Displaces(c, d)
<1> DEFINE kept == {e \in queue.events : Key[c] = NoKey \/ Key[e] # Key[c]}
<1>1. IsFiniteSet(queue.events) /\ IsFiniteSet(kept) /\ Cardinality(kept) <= Cardinality(queue.events)
  <2>1. IsFiniteSet(queue.events)
    BY CommandsFinite, FS_Subset DEF TypeOK, TypeQueue
  <2> QED
    BY <2>1, FS_Subset
<1>2. CASE d \in kept
  <2>1. QueueLimit - 1 \in Nat
    BY LimitsPositive
  <2>2. kept \in SUBSET Commands
    BY DEF TypeOK, TypeQueue
  <2>3. Cardinality(kept) >= (QueueLimit - 1) + 1
    BY <1>1, <1>2, <2>1, <2>2, CrowdedOut
  <2>4. Cardinality(kept) \in Nat /\ Cardinality(queue.events) \in Nat /\ QueueLimit \in Nat
    BY <1>1, FS_CardinalityType, LimitsPositive
  <2> HIDE DEF kept
  <2>5. Cardinality(queue.events) >= QueueLimit
    BY <1>1, <2>3, <2>4
  <2> QED
    BY <2>5, MailboxCounts DEF Mailbox!Displaces
<1>3. CASE d \notin kept
  BY <1>3 DEF Mailbox!Displaces
<1> QED
  BY <1>2, <1>3

\* A dispatch that queues its command: the mailbox accepts it.
LEMMA Accepts ==
    ASSUME TypeOK, DeliveryInv, NEW c \in Commands, dispatch[c].pc = "enqueue",
           Enqueue(c), Epoch' = Epoch, UNCHANGED runVars
    PROVE  Mailbox!Next
<1> DEFINE kept == {e \in queue.events : Key[c] = NoKey \/ Key[e] # Key[c]}
           accepted == {e \in Commands : order[e] > 0}
<1>1. c \notin accepted /\ c \notin Handed
  BY DEF DeliveryInv, KnownInv, Known
<1>2. /\ queue'.events = Newest(kept, QueueLimit - 1) \union {c}
      /\ order' = [order EXCEPT ![c] = Minted + 1]
  BY DEF Enqueue
<1>3. accepted' = accepted \union {c}
  BY <1>2, MintedNat DEF TypeOK, TypeQueue
<1>4. c \in queue'.events /\ queue'.events \subseteq queue.events \union {c}
  BY <1>2, KeptSubset
<1>5. \A d \in queue.events \ queue'.events : Mailbox!Displaces(c, d)
  BY <1>2, Displaced
<1>6. Handed' = Handed
  BY DEF Handed, runVars
<1>7. Mailbox!Accept(c)
  BY <1>1, <1>3, <1>4, <1>5, <1>6 DEF Mailbox!Accept
<1> QED
  BY <1>7 DEF Mailbox!Next

\* The steps of a dispatch, and the expiry of a command.
LEMMA DispatchRefines ==
    ASSUME TypeOK, DeliveryInv, NEW c \in Commands,
           DispatchRead(c) \/ DispatchWrite(c) \/ DispatchEnqueue(c) \/ Expire(c)
    PROVE  Mailbox!Next \/ UNCHANGED Mailbox!vars
<1> USE DEF credVars, queueVars, socketVars, postVars, runVars
<1>1. Epoch' = Epoch
  BY DEF DispatchRead, DispatchWrite, DispatchEnqueue, Expire, Epoch
<1>2. CASE DispatchRead(c)
  BY <1>1, <1>2, Silent DEF DispatchRead
<1>3. CASE DispatchWrite(c)
  <2>1. UNCHANGED <<queueVars, executed>>
    BY <1>3 DEF DispatchWrite
  <2>2. CASE WriteSucceeds(dispatch[c].conn, c)
    <3>1. Handed' = Handed \union {c}
      BY <2>1, <2>2 DEF WriteSucceeds, Handed
    <3> QED
      BY <1>1, <2>1, <3>1, HandsOver
  <2>3. CASE UNCHANGED written
    BY <1>1, <2>1, <2>3, Silent DEF runVars
  <2> QED
    BY <1>3, <2>2, <2>3 DEF DispatchWrite, WriteFails
<1>4. CASE DispatchEnqueue(c)
  BY <1>1, <1>4, Silent, Accepts DEF DispatchEnqueue
<1>5. CASE Expire(c)
  <2>1. Mailbox!Lapse(c)
    BY <1>1, <1>5 DEF Expire, Fault, Ack, Mailbox!Lapse, Handed, runVars
  <2> QED
    BY <2>1 DEF Mailbox!Next
<1> QED
  BY <1>2, <1>3, <1>4, <1>5

\* The steps of a socket, at either end.
LEMMA SocketRefines ==
    ASSUME TypeOK, DeliveryInv, NEW s \in Conns,
           Handler(s) \/ Dial(s) \/ LinkDrops(s) \/ SeesClose(s) \/ ReadFrame(s)
    PROVE  Mailbox!Next \/ UNCHANGED Mailbox!vars
<1> USE DEF credVars, queueVars, socketVars, postVars, runVars
<1>1. Epoch' = Epoch /\ UNCHANGED order
  BY DEF Handler, Setup, AbortOld, Reconcile, PushTake, PushWrite, PushAck, ServeEnds, Cleanup,
         Dial, LinkDrops, SeesClose, ReadFrame, Epoch
<1>2. CASE Setup(s) \/ AbortOld(s) \/ Reconcile(s) \/ PushTake(s) \/ ServeEnds(s) \/ Cleanup(s)
             \/ Dial(s) \/ LinkDrops(s) \/ SeesClose(s)
  <2>1. UNCHANGED <<queue, runVars>>
    BY <1>2 DEF Setup, AbortOld, Reconcile, PushTake, ServeEnds, Cleanup, Dial, LinkDrops,
                SeesClose
  <2> QED
    BY <1>1, <2>1, Silent
<1>3. CASE PushWrite(s)
  <2>1. PICK c \in Oldest(handler[s].todo, 1) : WriteSucceeds(s, c) \/ WriteFails(s)
    BY ZenonT(60), <1>3 DEF PushWrite
  <2>2. UNCHANGED <<queueVars, executed>> /\ c \in Commands
    BY <1>3, PrefixSubset DEF PushWrite, TypeOK, TypeSockets, Handlers
  <2>3. CASE WriteSucceeds(s, c)
    <3>1. Handed' = Handed \union {c}
      BY <2>2, <2>3 DEF WriteSucceeds, Handed
    <3> QED
      BY <1>1, <2>2, <3>1, HandsOver
  <2>4. CASE WriteFails(s)
    BY <1>1, <2>2, <2>4, Silent DEF WriteFails, runVars
  <2> QED
    BY <2>1, <2>3, <2>4
<1>4. CASE PushAck(s)
  <2>1. UNCHANGED runVars
    BY <1>4 DEF PushAck
  <2>2. CASE AckPushed(s)
    <3>1. queue'.events = queue.events \ handler[s].sent /\ handler[s].sent \subseteq Handed
      BY <2>2 DEF AckPushed, Ack, TypeOK, TypeQueue, DeliveryInv, HandedInv, Handed
    <3> QED
      BY <1>1, <2>1, <3>1, Settles
  <2>3. CASE UNCHANGED queue
    BY <1>1, <2>1, <2>3, Silent
  <2> QED
    BY <1>4, <2>2, <2>3 DEF PushAck
<1>5. CASE ReadFrame(s)
  <2>1. PICK c \in wire[s] : executed' = [executed EXCEPT ![c] = executed[c] + 1]
    BY <1>5 DEF ReadFrame
  <2>2. UNCHANGED <<queueVars, written>> /\ c \in written
    BY <1>5 DEF ReadFrame, DeliveryInv, HandedInv
  <2>3. \A d \in Commands : d # c => executed'[d] = executed[d]
    BY <2>1 DEF TypeOK, TypeRun
  <2>4. Handed' = Handed
    BY <2>2, <2>3 DEF Handed
  <2> QED
    BY <1>1, <2>2, <2>4 DEF Mailbox!vars
<1> QED
  BY <1>2, <1>3, <1>4, <1>5 DEF Handler

\* The steps of the fallback, of rotation and of the agent's restart.
LEMMA PostRefines ==
    ASSUME TypeOK, TypeOK', DeliveryInv,
           \/ RotateCommit \/ RotateReset \/ Sweep \/ Reinstall \/ Restart \/ Fallback
           \/ \E k \in Calls : CallFails(k)
    PROVE  Mailbox!Next \/ UNCHANGED Mailbox!vars
<1> USE DEF credVars, queueVars, socketVars, postVars, runVars
<1>1. CASE RotateReset
  <2>1. Epoch' = Epoch + 1 /\ queue'.events = {} /\ Handed' = Handed /\ order' = order
    BY <1>1 DEF RotateReset, Epoch, NoQueue, Handed, runVars, TypeOK, TypeCredential
  <2>2. Mailbox!Retire
    BY <2>1 DEF Mailbox!Retire
  <2> QED
    BY <2>2 DEF Mailbox!Next
<1>2. CASE RotateCommit \/ Sweep \/ Reinstall \/ Restart \/ EnterPost \/ PullCheck \/ PullWake
             \/ \E k \in Calls : CallFails(k) \/ CallSend(k) \/ CallReply(k)
  <2>1. Epoch' = Epoch
    <3>1. CASE RotateCommit
      BY <3>1 DEF RotateCommit, Epoch, TypeOK, TypeCredential
    <3>2. CASE UNCHANGED credVars
      BY <3>2 DEF Epoch
    <3> QED
      BY <1>2, <3>1, <3>2 DEF Sweep, Reinstall, Restart, EnterPost, PullCheck, PullWake, CallFails,
                              CallSend, CallReply
  <2>2. queue'.events = queue.events
    <3>1. CASE Sweep
      BY <3>1 DEF Sweep, NoQueue
    <3>2. CASE UNCHANGED queueVars
      BY <3>2
    <3> QED
      BY <1>2, <3>1, <3>2 DEF RotateCommit, Reinstall, Restart, EnterPost, PullCheck, PullWake,
                              CallFails, CallSend, CallReply
  <2>3. UNCHANGED <<order, executed, written>>
    BY <1>2 DEF RotateCommit, Sweep, Reinstall, Restart, EnterPost, PullCheck, PullWake, CallFails,
                CallSend, CallReply
  <2> QED
    BY <2>1, <2>2, <2>3, Silent
<1>3. CASE ReportAdmit \/ PullAdmit
  <2>1. PICK k \in Calls : queue'.events = queue.events \ call[k].acks
    BY <1>3 DEF ReportAdmit, AckReported, Ack, PullAdmit, TypeOK, TypeQueue
  <2>2. Epoch' = Epoch /\ UNCHANGED <<order, executed, written>>
    BY <1>3 DEF ReportAdmit, PullAdmit, Epoch
  <2>3. call[k].acks \subseteq Handed
    BY DEF DeliveryInv, HandedInv
  <2> QED
    BY <2>1, <2>2, <2>3, Settles
<1>4. ASSUME NEW k \in Calls, CallReceive(k) PROVE Mailbox!Next
  <2>1. /\ UNCHANGED <<queueVars, written>> /\ Epoch' = Epoch
        /\ executed' = [c \in Commands |->
                          IF c \in Unseen(k) THEN executed[c] + 1 ELSE executed[c]]
    BY <1>4 DEF CallReceive, Epoch
  <2>2. executed \in [Commands -> Nat] /\ Unseen(k) \in SUBSET Commands
    BY DEF TypeOK, TypeRun, TypePost, CallRecords, Unseen
  <2>3. Handed' = Handed \union Unseen(k)
    BY <2>1, <2>2 DEF Handed
  <2> QED
    BY <2>1, <2>2, <2>3, HandsOver
<1> QED
  BY <1>1, <1>2, <1>3, <1>4 DEF Fallback

\* Every step is a step of the mailbox, or none.
LEMMA NextRefines ==
    ASSUME TypeOK, TypeOK', DeliveryInv, [Next]_vars
    PROVE  [Mailbox!Next]_(Mailbox!vars)
<1>1. CASE UNCHANGED vars
  BY <1>1, Silent DEF vars, credVars, queueVars, runVars, Epoch
<1> QED
  BY <1>1, DispatchRefines, SocketRefines, PostRefines DEF Next

LEMMA InitRefines == Init => Mailbox!Init
  BY DEF Init, Mailbox!Init, Epoch, NoQueue, Handed

(***************************************************************************)
(* The event queue keeps the mailbox's promise: a command leaves it only    *)
(* handed over and acknowledged, displaced by a newer one, expired or       *)
(* retired, through pushes that fail half-way, lost answers, reconnects,    *)
(* sweeps and rotations.                                                    *)
(***************************************************************************)
THEOREM QueueIsMailbox == Spec => MailboxSpec
<1>1. TypeOK /\ DeliveryInv /\ (TypeOK /\ DeliveryInv)' /\ [Next]_vars
        => [Mailbox!Next]_(Mailbox!vars)
  BY NextRefines
<1>2. Spec => [](TypeOK /\ DeliveryInv)
  BY Delivery, PTL
<1> QED
  BY <1>1, <1>2, InitRefines, PTL DEF Spec, MailboxSpec, Mailbox!Spec
-----------------------------------------------------------------------------
(***************************************************************************)
(* A waiting poll.  Every enqueue closes the signal channel and makes one   *)
(* that is named after its event, which no poll can have captured before.   *)
(***************************************************************************)
SignalsInv ==
    /\ queue.signal <= Minted
    /\ call["pull"].pc = "waiting" => call["pull"].signal <= Minted

WaitInv == SignalsInv /\ WaitingPollMissesNothing

\* Minting an event counts it.
LEMMA MintedGrows ==
    ASSUME TypeOK, \A c \in Commands : order[c] > 0 => order'[c] > 0
    PROVE  Minted <= Minted' /\ Minted \in Nat /\ Minted' \in Nat
<1> DEFINE S == {c \in Commands : order[c] > 0}
           T == {c \in Commands : order'[c] > 0}
<1>1. S \subseteq T /\ IsFiniteSet(T) /\ IsFiniteSet(S)
  BY CommandsFinite, FS_Subset
<1>2. Cardinality(S) <= Cardinality(T) /\ Cardinality(S) \in Nat /\ Cardinality(T) \in Nat
  BY <1>1, FS_Subset, FS_CardinalityType
<1> QED
  BY <1>2 DEF Minted

LEMMA MintedNext ==
    ASSUME TypeOK, NEW c \in Commands, order[c] = 0, Enqueue(c)
    PROVE  Minted' = Minted + 1
<1> DEFINE S == {e \in Commands : order[e] > 0}
<1>1. order' = [order EXCEPT ![c] = Minted + 1] /\ Minted \in Nat
  BY MintedNat DEF Enqueue
<1>2. {e \in Commands : order'[e] > 0} = S \union {c}
  BY <1>1 DEF TypeOK, TypeQueue
<1>3. IsFiniteSet(S) /\ c \notin S
  BY CommandsFinite, FS_Subset
<1>4. Cardinality(S \union {c}) = Cardinality(S) + 1
  BY <1>3, FS_AddElement
<1> QED
  BY <1>2, <1>4 DEF Minted

\* The pull and its queue are left alone, or the queue loses events only.
LEMMA WaitKept ==
    ASSUME TypeOK, Moves, WaitInv, UNCHANGED order,
           queue'.signal \in {queue.signal, 0},
           call'["pull"].pc = "waiting" => /\ call["pull"].pc = "waiting"
                                           /\ call'["pull"].signal = call["pull"].signal
                                           /\ call'["pull"].queue = call["pull"].queue,
           queue'.id = queue.id /\ queue'.signal = queue.signal
             => queue'.events \subseteq queue.events,
           call'["pull"].pc = "waiting" /\ queue'.id = call["pull"].queue
             => queue'.id = queue.id /\ queue'.signal = queue.signal
    PROVE  WaitInv'
<1>1. Minted' = Minted /\ Minted \in Nat
  BY MintedNat DEF Minted
<1>2. SignalsInv'
  BY <1>1 DEF WaitInv, SignalsInv
<1>3. WaitingPollMissesNothing'
  BY DEF WaitInv, WaitingPollMissesNothing, SameQueue
<1> QED
  BY <1>2, <1>3 DEF WaitInv

\* A new event wakes every poll: it makes a queue, or replaces the signal.
LEMMA EnqueueWakes ==
    ASSUME TypeOK, Retired, DeliveryInv, WaitInv, NEW c \in Commands, DispatchEnqueue(c)
    PROVE  WaitInv'
<1>1. UNCHANGED call /\ dispatch[c].pc = "enqueue"
  BY DEF DispatchEnqueue, postVars
<1>2. CASE Enqueue(c)
  <2>1. order[c] = 0
    BY <1>1 DEF TypeOK, TypeQueue, DeliveryInv, KnownInv
  <2>2. /\ Minted' = Minted + 1 /\ Minted \in Nat
        /\ queue'.signal = Minted + 1 /\ queue'.id = QueueId
    BY <1>2, <2>1, MintedNext, MintedNat DEF Enqueue, NextSignal
  <2>3. queue.signal \in Nat /\ call["pull"].signal \in Nat
    BY DEF TypeOK, TypeQueue, TypePost, CallRecords, Calls
  <2>4. SignalsInv'
    BY <1>1, <2>2, <2>3 DEF WaitInv, SignalsInv
  <2>5. WaitingPollMissesNothing'
    BY <1>1, <2>2, <2>3 DEF WaitInv, SignalsInv, WaitingPollMissesNothing, SameQueue
  <2> QED
    BY <2>4, <2>5 DEF WaitInv
<1>3. CASE UNCHANGED queueVars
  BY <1>1, <1>3 DEF queueVars, WaitInv, SignalsInv, WaitingPollMissesNothing, SameQueue, Minted
<1> QED
  BY <1>2, <1>3 DEF DispatchEnqueue

\* A poll goes to wait only on an empty queue, with its signal.
LEMMA CheckWaits ==
    ASSUME TypeOK, WaitInv, PullCheck \/ PullWake
    PROVE  WaitInv'
<1>1. UNCHANGED queueVars /\ Minted' = Minted
  BY DEF PullCheck, PullWake, queueVars, Minted
<1>2. call \in [Calls -> CallRecords]
  BY DEF TypeOK, TypePost
<1>3. CASE \E taken : PullTakes(taken)
  <2>1. call'["pull"].pc = "taken"
    BY <1>2, <1>3 DEF PullTakes, CallRecords
  <2> QED
    BY <1>1, <2>1 DEF queueVars, WaitInv, SignalsInv, WaitingPollMissesNothing
<1>4. CASE /\ call' = [call EXCEPT !["pull"].pc = "waiting", !["pull"].signal = queue.signal]
           /\ queue.events = {}
  <2>1. call'["pull"].signal = queue.signal
    BY <1>2, <1>4 DEF CallRecords
  <2> QED
    BY <1>1, <1>4, <2>1 DEF queueVars, WaitInv, SignalsInv, WaitingPollMissesNothing
<1> QED
  BY <1>3, <1>4 DEF PullCheck, PullWake

\* A poll that waits was admitted with a queue of its own.
LEMMA WaitsOnQueue ==
    ASSUME TypeOK, Retired, call["pull"].pc = "waiting"
    PROVE  call["pull"].queue # 0
  BY DEF TypeOK, TypePost, CallRecords, Retired, Polled, Parked, Calls

\* No step loses an event from under a waiting poll.
LEMMA NextWait ==
    ASSUME TypeOK, TypeOK', Retired, DeliveryInv, Moves, WaitInv, [Next]_vars
    PROVE  WaitInv'
<1> USE DEF credVars, queueVars, socketVars, postVars
<1>1. ASSUME UNCHANGED <<queueVars, call>> PROVE WaitInv'
  BY <1>1, WaitKept
<1>2. CASE UNCHANGED vars
  BY <1>1, <1>2 DEF vars
<1>3. CASE RotateCommit \/ EnterPost
             \/ (\E c \in Commands : DispatchRead(c) \/ DispatchWrite(c))
             \/ \E s \in Conns : \/ Setup(s) \/ AbortOld(s) \/ Reconcile(s) \/ PushTake(s)
                                 \/ PushWrite(s) \/ ServeEnds(s) \/ Cleanup(s)
                                 \/ Dial(s) \/ LinkDrops(s) \/ SeesClose(s) \/ ReadFrame(s)
  BY <1>1, <1>3
  DEF RotateCommit, EnterPost, DispatchRead, DispatchWrite, Setup, AbortOld, Reconcile, PushTake,
      PushWrite, ServeEnds, Cleanup, Dial, LinkDrops, SeesClose, ReadFrame
<1>4. ASSUME UNCHANGED <<call, order>>, queue' = NoQueue PROVE WaitInv'
  BY <1>4, WaitsOnQueue, WaitKept DEF NoQueue
<1>5. CASE RotateReset \/ Sweep
  BY <1>4, <1>5 DEF RotateReset, Sweep
<1>6. ASSUME NEW ids, Ack(ids), UNCHANGED order,
             call'["pull"] = call["pull"] PROVE WaitInv'
  <2>1. /\ queue'.id = queue.id /\ queue'.signal = queue.signal
        /\ queue'.events \subseteq queue.events
    BY <1>6 DEF Ack, TypeOK, TypeQueue
  <2> QED
    BY <1>6, <2>1, WaitKept
<1>7. ASSUME NEW s \in Conns, PushAck(s) PROVE WaitInv'
  BY <1>1, <1>6, <1>7 DEF PushAck, AckPushed
<1>8. ASSUME NEW c \in Commands, Expire(c) PROVE WaitInv'
  BY <1>6, <1>8 DEF Expire
<1>9. CASE ReportAdmit
  <2>1. call'["pull"] = call["pull"]
    BY <1>9 DEF ReportAdmit, TypeOK, TypePost
  <2> QED
    BY <1>6, <1>9, <2>1 DEF ReportAdmit, AckReported
<1>10. ASSUME call'["pull"].pc # "waiting", queue'.signal = queue.signal, UNCHANGED order
       PROVE  WaitInv'
  BY <1>10 DEF WaitInv, SignalsInv, WaitingPollMissesNothing, Minted
<1>11. CASE PullAdmit
  <2>1. call'["pull"].pc = "prepared" /\ queue'.signal = queue.signal
    BY <1>11 DEF PullAdmit, TypeOK, TypePost, TypeQueue, CallRecords
  <2> QED
    BY <1>10, <1>11, <2>1 DEF PullAdmit
<1>12. CASE \/ Reinstall \/ Restart
            \/ \E k \in Calls : CallSend(k) \/ CallReply(k) \/ CallFails(k) \/ CallReceive(k)
  <2>1. UNCHANGED queueVars
    BY <1>12 DEF Reinstall, Restart, CallSend, CallReply, CallFails, CallReceive
  <2>2. call'["pull"] = call["pull"] \/ call'["pull"].pc # "waiting"
    <3>1. call \in [Calls -> CallRecords]
      BY DEF TypeOK, TypePost
    <3>2. CASE Reinstall \/ Restart
      BY <3>2 DEF Reinstall, Restart, StartProcess, Idle
    <3>3. ASSUME NEW k \in Calls, CallSend(k) PROVE call'["pull"] = call["pull"] \/ call'["pull"].pc # "waiting"
      BY <3>1, <3>3 DEF CallSend, Idle
    <3>4. ASSUME NEW k \in Calls, CallReply(k) PROVE call'["pull"] = call["pull"] \/ call'["pull"].pc # "waiting"
      BY <3>1, <3>4 DEF CallReply, CallRecords
    <3>5. ASSUME NEW k \in Calls, CallFails(k) \/ CallReceive(k)
          PROVE  call'["pull"] = call["pull"] \/ call'["pull"].pc # "waiting"
      BY <3>1, <3>5 DEF CallFails, CallReceive, Idle
    <3> QED
      BY <1>12, <3>2, <3>3, <3>4, <3>5
  <2> QED
    BY <1>10, <2>1, <2>2, WaitKept
<1> QED
  BY <1>2, <1>3, <1>5, <1>7, <1>8, <1>9, <1>11, <1>12, EnqueueWakes, CheckWaits
  DEF Next, Handler, Fallback

LEMMA InitWait == Init => WaitInv
<1>1. Init => TypeOK /\ Minted \in Nat
  BY InitType, MintedNat
<1> QED
  BY <1>1 DEF Init, WaitInv, SignalsInv, WaitingPollMissesNothing, NoQueue, Idle

(***************************************************************************)
(* A poll that still waits on the open signal of its queue has missed no    *)
(* event, whatever was enqueued between its look at the queue and its wait. *)
(***************************************************************************)
THEOREM NoEventIsMissed == Spec => []WaitingPollMissesNothing
<1>1. TypeOK /\ Retired /\ DeliveryInv /\ (TypeOK /\ Retired /\ DeliveryInv)' /\ WaitInv
        /\ [Next]_vars => WaitInv'
  BY NextMoves, NextWait
<1>2. WaitInv => WaitingPollMissesNothing
  BY DEF WaitInv
<1> QED
  BY <1>1, <1>2, InitWait, Delivery, PTL DEF Spec
-----------------------------------------------------------------------------
(***************************************************************************)
(* Execution.  A process of the agent remembers what an answer brought it,  *)
(* so a second answer runs nothing again.  The next process has forgotten   *)
(* it, and runs again what is still queued; what is not queued any more no  *)
(* answer brings, and a process with a new token gets no old command.       *)
(***************************************************************************)

\* The agent's process holds a token the panel has had, and its calls carry it.
TokensInv ==
    /\ agent.token <= token
    /\ \A k \in Calls : call[k].pc # "idle" => call[k].token = agent.token

\* No answer will bring command c, once it was queued.
Gone(c) == c \notin queue.events /\ \A k \in Calls : c \notin call[k].events

\* A command that ran from answers alone ran once more than it was forgotten, at
\* most; when it did, the process has seen it or it is gone, unless it was of an
\* earlier credential.
SeenInv ==
    \A c \in Commands : executed[c] > 0 /\ c \notin written =>
        /\ executed[c] <= 1 + forgotten[c]
        /\ order[c] > 0 /\ dispatch[c].epoch <= agent.token
        /\ dispatch[c].epoch = agent.token /\ executed[c] = 1 + forgotten[c]
             => c \in agent.seen \/ Gone(c)

ExecutionInv == TokensInv /\ SeenInv

\* The dispatch of a command that ran is over.
DispatchKept == \A c \in Commands : executed[c] > 0 =>
    dispatch'[c].epoch = dispatch[c].epoch /\ (dispatch'[c].pc = "new" => dispatch[c].pc = "new")

LEMMA DispatchStays ==
    ASSUME TypeOK, TypeOK', Retired, DeliveryInv, [Next]_vars
    PROVE  DispatchKept
<1>1. DispatchStep => DispatchKept
  BY DEF DispatchStep, DispatchKept
<1>2. Step => DispatchKept
  BY <1>1 DEF Step
<1>3. UNCHANGED dispatch => DispatchKept
  BY DEF DispatchKept
<1>4. ASSUME NEW c \in Commands, DispatchRead(c) PROVE DispatchKept
  <2>1. executed[c] = 0
    BY <1>4 DEF DispatchRead, DeliveryInv, KnownInv, Known, Handed, TypeOK, TypeRun
  <2>2. \A d \in Commands \ {c} : dispatch'[d] = dispatch[d]
    BY <1>4 DEF DispatchRead, TypeOK, TypeDispatch
  <2> QED
    BY <2>1, <2>2 DEF DispatchKept
<1>5. CASE (\E s \in Conns : Dial(s)) \/ RotateReset \/ UNCHANGED vars
  BY <1>3, <1>5 DEF Dial, RotateReset, vars
<1> QED
  BY <1>2, <1>4, <1>5, ActionsStep DEF Next, Handler, Fallback

\* What a step may do to the agent's process, its calls and what it ran.
SameProcess ==
    /\ agent'.token = agent.token /\ agent.seen \subseteq agent'.seen /\ token <= token'
    /\ \A k \in Calls : call'[k].pc # "idle" => call'[k].token = agent.token

RunsKept == \A c \in Commands :
    /\ c \in written => c \in written'
    /\ executed'[c] = executed[c] \/ c \in written'

\* Only a command that was never queued is queued.
Fresh == \A c \in queue'.events : c \in queue.events \/ order[c] = 0

LEMMA NextFresh ==
    ASSUME TypeOK, TypeOK', DeliveryInv, [Next]_vars
    PROVE  Fresh
<1> USE DEF queueVars, socketVars
<1>1. queue'.events \subseteq queue.events => Fresh
  BY DEF Fresh
<1>2. UNCHANGED queue => Fresh
  BY DEF Fresh
<1>3. ASSUME NEW ids, Ack(ids) PROVE Fresh
  BY <1>1, <1>3 DEF Ack, TypeOK, TypeQueue
<1>4. CASE RotateReset \/ Sweep
  BY <1>1, <1>4 DEF RotateReset, Sweep, NoQueue
<1>5. CASE PullAdmit
  <2>1. queue' = [queue EXCEPT !.id = QueueId, !.events = @ \ call["pull"].acks]
    BY <1>5 DEF PullAdmit
  <2>2. queue'.events = queue.events \ call["pull"].acks
    BY <2>1 DEF TypeOK, TypeQueue
  <2> QED
    BY <1>1, <2>2
<1>6. CASE ReportAdmit \/ \E c \in Commands : Expire(c)
  BY <1>3, <1>6 DEF ReportAdmit, AckReported, Expire
<1>7. ASSUME NEW s \in Conns, PushAck(s) PROVE Fresh
  BY <1>2, <1>3, <1>7 DEF PushAck, AckPushed
<1>8. ASSUME NEW c \in Commands, DispatchEnqueue(c) PROVE Fresh
  <2>1. order[c] = 0
    <3>1. dispatch[c].pc = "enqueue" /\ order[c] \in Nat
      BY <1>8 DEF DispatchEnqueue, TypeOK, TypeQueue
    <3> QED
      BY <3>1 DEF DeliveryInv, KnownInv
  <2>2. queue'.events \subseteq queue.events \union {c}
    <3>1. CASE Enqueue(c)
      BY <3>1, KeptSubset DEF Enqueue, Newest, TypeOK, TypeQueue
    <3>2. CASE UNCHANGED queueVars
      BY <3>2
    <3> QED
      BY <1>8, <3>1, <3>2 DEF DispatchEnqueue
  <2> QED
    BY <2>1, <2>2 DEF Fresh
<1> QED
  BY <1>2, <1>4, <1>5, <1>6, <1>7, <1>8
  DEF Next, Handler, Fallback, vars, RotateCommit, Reinstall, Restart, EnterPost, PullCheck,
      PullWake, CallSend, CallReply, CallReceive, CallFails, DispatchRead, DispatchWrite, Setup,
      AbortOld, Reconcile, PushTake, PushWrite, ServeEnds, Cleanup, Dial, LinkDrops, SeesClose,
      ReadFrame

\* A command that is gone stays so.
LEMMA GoneKept ==
    ASSUME Moves, Fresh, NEW c \in Commands, order[c] > 0, Gone(c)
    PROVE  order'[c] > 0 /\ Gone(c)'
  BY DEF Moves, Grown, CallMoves, Fresh, Gone

LEMMA ExecutionKept ==
    ASSUME TypeOK, TypeOK', ExecutionInv, Moves, Fresh, DispatchKept, SameProcess, RunsKept,
           UNCHANGED forgotten
    PROVE  ExecutionInv'
<1>1. agent.token \in Nat /\ token \in Nat /\ token' \in Nat
  BY BoundsNatural DEF TypeOK, TypeCredential, TypePost, Agents
<1>2. TokensInv'
  BY <1>1 DEF ExecutionInv, TokensInv, SameProcess
<1>3. SeenInv'
  <2> SUFFICES ASSUME NEW c \in Commands, executed'[c] > 0, c \notin written'
               PROVE  /\ executed'[c] <= 1 + forgotten'[c]
                      /\ order'[c] > 0 /\ dispatch'[c].epoch <= agent'.token
                      /\ dispatch'[c].epoch = agent'.token /\ executed'[c] = 1 + forgotten'[c]
                           => c \in agent'.seen \/ Gone(c)'
    BY DEF SeenInv
  <2>1. executed'[c] = executed[c] /\ c \notin written
    BY DEF RunsKept
  <2>2. order'[c] > 0 /\ (Gone(c) => Gone(c)')
    BY <2>1, GoneKept DEF ExecutionInv, SeenInv, Moves, Grown
  <2> QED
    BY <2>1, <2>2 DEF ExecutionInv, SeenInv, DispatchKept, SameProcess
<1> QED
  BY <1>2, <1>3 DEF ExecutionInv

\* An answer runs what the process has not seen, once.
LEMMA ReceiveRunsOnce ==
    ASSUME TypeOK, TypeOK', Retired, DeliveryInv, ExecutionInv, NEW k \in Calls, CallReceive(k)
    PROVE  ExecutionInv'
<1> USE DEF credVars, queueVars, socketVars
<1>1. /\ agent'.token = agent.token /\ agent'.seen = agent.seen \union call[k].events
      /\ \A j \in Calls : call'[j].pc # "idle" => call'[j] = call[j]
      /\ \A j \in Calls : call'[j].events \subseteq call[j].events
      /\ UNCHANGED <<token, dispatch, queue, order, written, forgotten>>
  BY DEF CallReceive, TypeOK, TypePost, Agents, Idle
<1>2. call[k].token = agent.token
  BY DEF CallReceive, ExecutionInv, TokensInv
<1>3. \A c \in call[k].events : dispatch[c].epoch = agent.token /\ order[c] > 0
  BY <1>2 DEF Retired, HeldCalls, Bound, DeliveryInv, KnownInv
<1>4. TokensInv'
  BY <1>1 DEF ExecutionInv, TokensInv
<1>5. SeenInv'
  <2> SUFFICES ASSUME NEW c \in Commands, executed'[c] > 0, c \notin written
               PROVE  /\ executed'[c] <= 1 + forgotten[c]
                      /\ order[c] > 0 /\ dispatch[c].epoch <= agent.token
                      /\ dispatch[c].epoch = agent.token /\ executed'[c] = 1 + forgotten[c]
                           => c \in agent'.seen \/ Gone(c)'
    BY <1>1 DEF SeenInv
  <2>1. /\ executed[c] \in Nat /\ forgotten[c] \in Nat
        /\ dispatch[c].epoch \in Nat /\ agent.token \in Nat
    BY BoundsNatural DEF TypeOK, TypeRun, TypeDispatch, Dispatches, TypePost, Agents
  <2>2. executed'[c] = IF c \in Unseen(k) THEN executed[c] + 1 ELSE executed[c]
    BY DEF CallReceive
  <2>3. CASE c \in Unseen(k)
    <3>1. c \in call[k].events /\ c \notin agent.seen /\ ~Gone(c)
      BY <2>3 DEF Unseen, Gone
    <3>2. executed[c] <= forgotten[c]
      BY <1>3, <2>1, <3>1 DEF ExecutionInv, SeenInv
    <3> QED
      BY <1>1, <1>3, <2>1, <2>2, <2>3, <3>1, <3>2
  <2>4. CASE c \notin Unseen(k)
    <3>1. Gone(c) => Gone(c)'
      BY <1>1 DEF Gone
    <3> QED
      BY <1>1, <2>2, <2>4, <3>1 DEF ExecutionInv, SeenInv
  <2> QED
    BY <2>3, <2>4
<1> QED
  BY <1>4, <1>5 DEF ExecutionInv

\* A reinstalled agent has a newer token than any command it ran.
LEMMA ReinstallRunsNothing ==
    ASSUME TypeOK, ExecutionInv, Reinstall
    PROVE  ExecutionInv'
<1>1. /\ agent.token < token /\ agent.token \in Nat /\ token \in Nat
      /\ \A c \in Commands : dispatch[c].epoch \in Nat
  BY BoundsNatural
  DEF Reinstall, ExecutionInv, TokensInv, TypeOK, TypeCredential, TypePost, Agents, TypeDispatch, Dispatches
<1>2. /\ agent'.token = token /\ UNCHANGED <<token, dispatch, order, runVars>>
      /\ \A k \in Calls : call'[k].pc = "idle"
  BY DEF Reinstall, StartProcess, NewAgent, Idle, credVars, queueVars
<1>3. TokensInv'
  BY <1>1, <1>2 DEF TokensInv
<1>4. SeenInv'
  BY <1>1, <1>2 DEF runVars, ExecutionInv, SeenInv
<1> QED
  BY <1>3, <1>4 DEF ExecutionInv

\* A restarted agent has forgotten what it ran: that is counted if it is still
\* queued, and gone if it is not, because its calls end with it.
LEMMA RestartForgets ==
    ASSUME TypeOK, ExecutionInv, Restart
    PROVE  ExecutionInv'
<1>1. /\ agent'.token = agent.token
      /\ UNCHANGED <<token, dispatch, queue, order, executed, written>>
      /\ \A k \in Calls : call'[k].pc = "idle" /\ call'[k].events = {}
  BY DEF Restart, StartProcess, NewAgent, Idle, credVars, queueVars
<1>2. TokensInv'
  BY <1>1 DEF ExecutionInv, TokensInv
<1>3. SeenInv'
  <2> SUFFICES ASSUME NEW c \in Commands, executed[c] > 0, c \notin written
               PROVE  /\ executed[c] <= 1 + forgotten'[c]
                      /\ order[c] > 0 /\ dispatch[c].epoch <= agent.token
                      /\ dispatch[c].epoch = agent.token /\ executed[c] = 1 + forgotten'[c]
                           => Gone(c)'
    BY <1>1 DEF SeenInv
  <2>1. executed[c] \in Nat /\ forgotten[c] \in Nat
    BY DEF TypeOK, TypeRun
  <2>2. /\ executed[c] <= 1 + forgotten[c] /\ order[c] > 0
        /\ dispatch[c].epoch <= agent.token
        /\ dispatch[c].epoch = agent.token /\ executed[c] = 1 + forgotten[c]
             => c \in agent.seen \/ Gone(c)
    BY DEF ExecutionInv, SeenInv
  <2>3. /\ c \in agent.seen \intersect queue.events => forgotten'[c] = forgotten[c] + 1
        /\ c \notin agent.seen \intersect queue.events => forgotten'[c] = forgotten[c]
    BY DEF Restart
  <2>4. c \notin queue.events => Gone(c)'
    BY <1>1 DEF Gone
  <2>5. Gone(c) => c \notin queue.events
    BY DEF Gone
  <2> QED
    BY <2>1, <2>2, <2>3, <2>4, <2>5
<1> QED
  BY <1>2, <1>3 DEF ExecutionInv

\* No step but an answer's arrival runs a command without writing it first.
LEMMA NextExecution ==
    ASSUME TypeOK, TypeOK', Retired, DeliveryInv, ExecutionInv, [Next]_vars
    PROVE  ExecutionInv'
<1> USE DEF credVars, queueVars, socketVars, postVars, runVars
<1>1. DispatchKept /\ Moves /\ Fresh
  BY DispatchStays, NextMoves, NextFresh
<1>2. token \in Nat /\ call \in [Calls -> CallRecords] /\ agent \in Agents
  BY BoundsNatural DEF TypeOK, TypeCredential, TypePost
<1>3. ASSUME UNCHANGED runVars, SameProcess PROVE ExecutionInv'
  BY <1>1, <1>3, ExecutionKept DEF RunsKept
<1>4. ASSUME UNCHANGED <<token, agent, call>> PROVE SameProcess
  BY <1>2, <1>4 DEF SameProcess, ExecutionInv, TokensInv
<1>5. CASE UNCHANGED vars
  BY <1>3, <1>4, <1>5 DEF vars
<1>6. CASE \/ RotateReset \/ Sweep
           \/ \E c \in Commands : DispatchRead(c) \/ DispatchEnqueue(c) \/ Expire(c)
           \/ \E s \in Conns : \/ Setup(s) \/ AbortOld(s) \/ Reconcile(s) \/ PushTake(s)
                               \/ PushAck(s) \/ ServeEnds(s) \/ Cleanup(s)
  BY <1>3, <1>4, <1>6
  DEF RotateReset, Sweep, DispatchRead, DispatchEnqueue, Expire, Setup, AbortOld, Reconcile,
      PushTake, PushAck, ServeEnds, Cleanup
<1>7. CASE RotateCommit
  <2>1. SameProcess
    BY <1>2, <1>7 DEF RotateCommit, SameProcess, ExecutionInv, TokensInv
  <2> QED
    BY <1>3, <1>7, <2>1 DEF RotateCommit
<1>8. CASE (\E c \in Commands : DispatchWrite(c)) \/ (\E s \in Conns : PushWrite(s))
  <2>1. UNCHANGED <<token, agent, call, executed, forgotten>> /\ written \subseteq written'
    BY <1>8 DEF DispatchWrite, PushWrite, WriteSucceeds, WriteFails
  <2> QED
    BY <1>1, <1>4, <2>1, ExecutionKept DEF RunsKept
<1>9. ASSUME NEW s \in Conns, ReadFrame(s) PROVE ExecutionInv'
  <2>1. wire[s] \subseteq written
    BY DEF DeliveryInv, HandedInv
  <2>2. UNCHANGED <<token, agent, call, written, forgotten>>
    BY <1>9 DEF ReadFrame
  <2>3. RunsKept
    BY <1>9, <2>1, <2>2 DEF ReadFrame, RunsKept, TypeOK, TypeRun
  <2> QED
    BY <1>1, <1>4, <2>2, <2>3, ExecutionKept
<1>10. CASE EnterPost \/ \E s \in Conns : Dial(s) \/ LinkDrops(s) \/ SeesClose(s)
  <2>1. /\ UNCHANGED <<token, call, runVars>>
        /\ agent'.token = agent.token /\ agent'.seen = agent.seen
    BY <1>2, <1>10 DEF EnterPost, Dial, LinkDrops, SeesClose, Agents
  <2>2. SameProcess
    BY <1>2, <2>1 DEF SameProcess, ExecutionInv, TokensInv
  <2> QED
    BY <1>3, <2>1, <2>2
<1>11. ASSUME UNCHANGED <<token, agent, runVars>>,
              \A k \in Calls : \/ call'[k].pc = "idle" \/ call'[k].token = agent.token
                               \/ call[k].pc # "idle" /\ call'[k].token = call[k].token
       PROVE  ExecutionInv'
  <2>1. SameProcess
    BY <1>2, <1>11 DEF SameProcess, ExecutionInv, TokensInv
  <2> QED
    BY <1>3, <1>11, <2>1
<1>12. CASE ReportAdmit \/ PullAdmit \/ PullCheck \/ PullWake
  <2>1. UNCHANGED <<token, agent, runVars>>
    BY <1>12 DEF ReportAdmit, PullAdmit, PullCheck, PullWake
  <2>2. \A k \in Calls : \/ call'[k].pc = call[k].pc
                         \/ call[k].pc # "idle"
    BY <1>2, <1>12 DEF ReportAdmit, PullAdmit, PullCheck, PullWake, PullTakes, CallRecords
  <2>3. \A k \in Calls : call'[k].token = call[k].token
    BY <1>2, <1>12 DEF ReportAdmit, PullAdmit, PullCheck, PullWake, PullTakes, CallRecords
  <2> QED
    BY <1>11, <2>1, <2>2, <2>3
<1>13. ASSUME NEW k \in Calls, CallSend(k) \/ CallReply(k) \/ CallFails(k) PROVE ExecutionInv'
  <2>1. UNCHANGED <<token, agent, runVars>> /\ \A j \in Calls \ {k} : call'[j] = call[j]
    BY <1>2, <1>13 DEF CallSend, CallReply, CallFails
  <2>2. \/ call'[k].pc = "idle" \/ call'[k].token = agent.token
        \/ call[k].pc # "idle" /\ call'[k].token = call[k].token
    <3>1. CASE CallSend(k)
      BY <1>2, <3>1 DEF CallSend, Idle
    <3>2. CASE CallReply(k)
      BY <1>2, <3>2 DEF CallReply, CallRecords
    <3>3. CASE CallFails(k)
      BY <1>2, <3>3 DEF CallFails, Idle
    <3> QED
      BY <1>13, <3>1, <3>2, <3>3
  <2> QED
    BY <1>11, <2>1, <2>2
<1> QED
  BY <1>5, <1>6, <1>7, <1>8, <1>9, <1>10, <1>12, <1>13, ReceiveRunsOnce, ReinstallRunsNothing,
     RestartForgets
  DEF Next, Handler, Fallback

LEMMA InitExecution == Init => ExecutionInv
  BY DEF Init, ExecutionInv, TokensInv, SeenInv, NewAgent, Idle

(***************************************************************************)
(* Over POST a process of the agent runs a command at most once, and a      *)
(* later process runs it again only if the earlier one ended before its     *)
(* acknowledgement reached the panel: lost answers, repeated pulls and      *)
(* reports and rotations never repeat a command that was not written to a   *)
(* socket.                                                                  *)
(***************************************************************************)
THEOREM RunsAtMostOnce == Spec => []ExecutedOnce
<1>1. TypeOK /\ Retired /\ DeliveryInv /\ (TypeOK /\ Retired /\ DeliveryInv)' /\ ExecutionInv
        /\ [Next]_vars => ExecutionInv'
  BY NextExecution
<1>2. TypeOK /\ ExecutionInv => ExecutedOnce
  BY DEF TypeOK, TypeRun, ExecutionInv, SeenInv, ExecutedOnce
<1> QED
  BY <1>1, <1>2, InitExecution, Delivery, PTL DEF Spec
-----------------------------------------------------------------------------
(***************************************************************************)
(* The panel's sockets.  A handler enters service only while its socket is  *)
(* the registered one, and whoever takes its place closes it.               *)
(***************************************************************************)

\* The steps that leave every handler and the registered connection alone.
ElsewhereSteps ==
    \/ RotateCommit \/ Sweep \/ Fallback
    \/ \E c \in Commands : DispatchRead(c) \/ DispatchWrite(c) \/ DispatchEnqueue(c) \/ Expire(c)
    \/ \E s \in Conns : LinkDrops(s) \/ SeesClose(s) \/ ReadFrame(s)
    \/ \E k \in Calls : CallFails(k)
    \/ Reinstall \/ Restart

InService(s) == handler[s].pc \in {"take", "push", "ack", "serve"}
Aborts(t, s) == handler[t].pc = "abort" /\ handler[t].old = s

\* A socket is not opened again, and only the registry's own may lose its place.
LEMMA ElsewhereRests ==
    ASSUME TypeOK, ElsewhereSteps \/ UNCHANGED vars
    PROVE  /\ UNCHANGED handler /\ registry'.conn = registry.conn
           /\ \A s \in Conns : socket[s] = "closed" => socket'[s] = "closed"
<1> USE DEF credVars, queueVars, socketVars
<1>1. \A r \in Registries : Mark(r).conn = r.conn
  BY DEF Mark, Registries
<1>2. registry'.conn = registry.conn
  <2>1. CASE ReportAdmit \/ PullAdmit
    BY <1>1, <2>1 DEF ReportAdmit, PullAdmit, TypeOK, TypeQueue
  <2>2. CASE UNCHANGED registry
    BY <2>2
  <2> QED
    BY <2>1, <2>2
    DEF ElsewhereSteps, vars, RotateCommit, Sweep, Fallback, EnterPost, PullCheck, PullWake, CallSend,
        CallReply, CallReceive, CallFails, Reinstall, Restart, DispatchRead, DispatchWrite,
        DispatchEnqueue, Expire, LinkDrops, SeesClose, ReadFrame
<1>3. UNCHANGED handler
  BY DEF ElsewhereSteps, vars, RotateCommit, Sweep, Fallback, EnterPost, ReportAdmit, PullAdmit,
        PullCheck, PullWake, CallSend, CallReply, CallReceive, CallFails, Reinstall, Restart, DispatchRead,
        DispatchWrite, DispatchEnqueue, Expire, LinkDrops, SeesClose, ReadFrame
<1>4. \A s \in Conns : socket[s] = "closed" => socket'[s] = "closed"
  <2>1. CASE Reinstall \/ Restart \/ \E s \in Conns : LinkDrops(s)
    BY <2>1 DEF Reinstall, Restart, StartProcess, LinkDrops, TypeOK, TypeSockets
  <2>2. CASE \E c \in Commands : DispatchWrite(c)
    BY <2>2 DEF DispatchWrite, WriteSucceeds, WriteFails, TypeOK, TypeSockets
  <2>3. CASE UNCHANGED socket
    BY <2>3
  <2> QED
    BY <2>1, <2>2, <2>3
    DEF ElsewhereSteps, vars, RotateCommit, Sweep, Fallback, EnterPost, ReportAdmit, PullAdmit,
        PullCheck, PullWake, CallSend, CallReply, CallReceive, CallFails, DispatchRead,
        DispatchEnqueue, Expire, SeesClose, ReadFrame
<1> QED
  BY <1>2, <1>3, <1>4

\* A handler's control step, field by field.
LEMMA GotoFields ==
    ASSUME TypeOK, NEW s \in Conns, NEW pc, Goto(s, pc)
    PROVE  /\ handler'[s].pc = pc /\ \A t \in Conns \ {s} : handler'[t] = handler[t]
           /\ handler'[s].old = handler[s].old
  BY DEF TypeOK, Goto, TypeSockets, Handlers

\* What Setup does when the node admits it.
LEMMA SetupFields ==
    ASSUME TypeOK, NEW s \in Conns, Setup(s), handler[s].token = token, UNCHANGED socket,
           registry' = Mark([registry EXCEPT !.conn = s]),
           handler' = [handler EXCEPT ![s].pc = "abort", ![s].old = registry.conn]
    PROVE  /\ handler'[s].pc = "abort" /\ handler'[s].old = registry.conn /\ registry'.conn = s
           /\ \A t \in Conns \ {s} : handler'[t] = handler[t]
<1>1. handler \in [Conns -> Handlers] /\ registry \in Registries
  BY DEF TypeOK, TypeSockets, TypeQueue
<1>2. registry'.conn = s
  BY <1>1 DEF Mark, Registries
<1>3. \A t \in Conns \ {s} : handler'[t] = handler[t]
  BY <1>1
<1>4. handler'[s].pc = "abort"
  BY ZenonT(30), <1>1 DEF Handlers
<1>5. handler'[s].old = registry.conn
  BY ZenonT(30), <1>1 DEF Handlers
<1> QED
  BY <1>2, <1>3, <1>4, <1>5

\* An orphan a step would make was one before, or its successor is gone.
LEMMA OrphanKept ==
    ASSUME NoOrphanSocket,
           \A s \in Conns : InService(s)' /\ socket'[s] # "closed" /\ registry'.conn # s =>
             \/ \E t \in Conns : Aborts(t, s)'
             \/ /\ InService(s) /\ socket[s] # "closed" /\ registry.conn # s
                /\ \A t \in Conns : Aborts(t, s) => Aborts(t, s)'
    PROVE  NoOrphanSocket'
  BY DEF NoOrphanSocket, InService, Aborts
\* No step orphans a socket.
LEMMA NextOrphan ==
    ASSUME TypeOK, TypeOK', Retired, NoOrphanSocket, [Next]_vars
    PROVE  NoOrphanSocket'
<1> USE DEF credVars, queueVars, socketVars
<1>0. handler \in [Conns -> Handlers] /\ socket \in [Conns -> SocketStates] /\ registry \in Registries
  BY DEF TypeOK, TypeSockets, TypeQueue
<1>1. CASE ElsewhereSteps \/ UNCHANGED vars
  BY <1>1, ElsewhereRests DEF NoOrphanSocket
<1>2. ASSUME NEW s \in Conns, NEW pc, Goto(s, pc), handler[s].pc # "abort",
             InService(s)' => \/ InService(s) /\ socket[s] # "closed"
                             \/ registry'.conn = s \/ socket'[s] = "closed",
             registry'.conn # registry.conn => registry.conn = s /\ ~InService(s)',
             \A t \in Conns : socket[t] = "closed" => socket'[t] = "closed"
      PROVE  NoOrphanSocket'
  <2>1. /\ handler'[s].pc = pc /\ \A t \in Conns \ {s} : handler'[t] = handler[t]
    BY <1>2, GotoFields
  <2>2. \A t \in Conns, u \in Conns : Aborts(t, u) => Aborts(t, u)'
    BY <1>2, <2>1 DEF Aborts
  <2>3. \A t \in Conns : InService(t)' /\ socket'[t] # "closed" /\ registry'.conn # t
          => InService(t) /\ socket[t] # "closed" /\ registry.conn # t
    BY <1>2, <2>1 DEF InService
  <2> QED
    BY <2>2, <2>3, OrphanKept
<1>3. ASSUME NEW s \in Conns, Setup(s) PROVE NoOrphanSocket'
  <2>1. CASE /\ handler[s].token = token /\ UNCHANGED socket
             /\ registry' = Mark([registry EXCEPT !.conn = s])
             /\ handler' = [handler EXCEPT ![s].pc = "abort", ![s].old = registry.conn]
    <3>1. /\ handler'[s].pc = "abort" /\ handler'[s].old = registry.conn /\ registry'.conn = s
          /\ \A t \in Conns \ {s} : handler'[t] = handler[t]
      BY <1>3, <2>1, SetupFields
    <3>2. \A t \in Conns, u \in Conns : Aborts(t, u) => Aborts(t, u)'
      BY <1>3, <3>1 DEF Aborts, Setup
    <3>3. \A u \in Conns \ {s} : InService(u)' => InService(u) /\ socket'[u] = socket[u]
      BY <2>1, <3>1 DEF InService
    <3>4. \A u \in Conns : registry.conn = u => Aborts(s, u)'
      BY <3>1 DEF Aborts
    <3>5. ~InService(s)'
      BY <3>1 DEF InService
    <3> QED
      BY <3>1, <3>2, <3>3, <3>4, <3>5, OrphanKept
  <2>2. CASE Goto(s, "ended") /\ CloseSocket(s) /\ UNCHANGED registry
    <3>1. \A t \in Conns : socket[t] = "closed" => socket'[t] = "closed"
      BY <1>0, <2>2 DEF CloseSocket
    <3>2. handler[s].pc # "abort" /\ ~InService(s)'
      BY <1>3, <2>2, GotoFields DEF Setup, InService
    <3> QED
      BY <1>2, <2>2, <3>1, <3>2
  <2> QED
    BY <1>3, <2>1, <2>2 DEF Setup
<1>4. ASSUME NEW s \in Conns, AbortOld(s) PROVE NoOrphanSocket'
  <2>1. /\ handler'[s].pc = "reconcile" /\ \A t \in Conns \ {s} : handler'[t] = handler[t]
    BY <1>4, GotoFields DEF AbortOld
  <2>2. UNCHANGED registry /\ \A t \in Conns : socket'[t] = IF t = handler[s].old THEN "closed" ELSE socket[t]
    BY <1>4 DEF AbortOld
  <2>3. ASSUME NEW u \in Conns, InService(u)', socket'[u] # "closed", registry'.conn # u
        PROVE  /\ InService(u) /\ socket[u] # "closed" /\ registry.conn # u
               /\ \A t \in Conns : Aborts(t, u) => Aborts(t, u)'
    <3>1. u # s /\ u # handler[s].old
      BY <2>1, <2>2, <2>3 DEF InService
    <3> QED
      BY <2>1, <2>2, <2>3, <3>1 DEF InService, Aborts
  <2> QED
    BY <2>3, OrphanKept
<1>5. ASSUME NEW s \in Conns, Reconcile(s) PROVE NoOrphanSocket'
  <2>1. handler[s].pc = "reconcile" /\ UNCHANGED registry
    BY <1>5 DEF Reconcile
  <2>2. CASE Admitted(s) /\ Goto(s, "take") /\ UNCHANGED socket
    BY <1>2, <2>1, <2>2 DEF Admitted
  <2>3. CASE Goto(s, "ended") /\ CloseSocket(s)
    <3>1. socket'[s] = "closed" /\ \A t \in Conns : socket[t] = "closed" => socket'[t] = "closed"
      BY <1>0, <2>3 DEF CloseSocket
    <3> QED
      BY <1>2, <2>1, <2>3, <3>1
  <2> QED
    BY <1>5, <2>2, <2>3 DEF Reconcile
<1>6. ASSUME NEW s \in Conns, UNCHANGED <<registry, socket>>, InService(s),
             handler'[s].pc \in {"push", "serve"}, registry.conn = s,
             \A t \in Conns \ {s} : handler'[t] = handler[t]
      PROVE  NoOrphanSocket'
  <2>1. \A t \in Conns, u \in Conns : Aborts(t, u) => Aborts(t, u)'
    BY <1>6 DEF Aborts, InService
  <2> QED
    BY <1>6, <2>1, OrphanKept DEF InService
<1>7. ASSUME NEW s \in Conns, PushTake(s) PROVE NoOrphanSocket'
  <2>1. handler[s].pc = "take" /\ UNCHANGED <<registry, socket>>
    BY <1>7 DEF PushTake
  <2>2. CASE /\ Admitted(s)
             /\ handler' = [handler EXCEPT ![s].todo = WholeQueue,
                             ![s].pc = IF queue.events = {} THEN "serve" ELSE "push"]
    <3>1. \A t \in Conns \ {s} : handler'[t] = handler[t]
      BY <1>0, <2>2
    <3>2. handler'[s].pc \in {"push", "serve"}
      BY ZenonT(30), <1>0, <2>2 DEF Handlers
    <3> QED
      BY <1>6, <2>1, <2>2, <3>1, <3>2 DEF Admitted, InService
  <2>3. CASE Goto(s, "cleanup")
    <3>1. ~InService(s)'
      BY <2>3, GotoFields DEF InService
    <3> QED
      BY <1>2, <2>1, <2>3, <3>1
  <2> QED
    BY <1>7, <2>2, <2>3 DEF PushTake
<1>8. ASSUME NEW s \in Conns, PushWrite(s) PROVE NoOrphanSocket'
  <2>1. handler[s].pc = "push" /\ UNCHANGED registry
    BY <1>8 DEF PushWrite
  <2>2. PICK c \in Oldest(handler[s].todo, 1) :
          \/ /\ WriteSucceeds(s, c)
             /\ handler' = [handler EXCEPT ![s].todo = handler[s].todo \ {c},
                              ![s].sent = handler[s].sent \union {c},
                              ![s].pc = IF handler[s].todo = {c} THEN "ack" ELSE "push"]
          \/ WriteFails(s) /\ Goto(s, "ack")
    BY ZenonT(60), <1>8 DEF PushWrite
  <2>3. \A t \in Conns : socket'[t] = socket[t] \/ socket[t] = "dead"
    BY <1>0, <2>2 DEF WriteSucceeds, WriteFails
  <2>4. \A t \in Conns \ {s} : handler'[t] = handler[t]
    <3>1. CASE handler' = [handler EXCEPT ![s].todo = handler[s].todo \ {c},
                              ![s].sent = handler[s].sent \union {c},
                              ![s].pc = IF handler[s].todo = {c} THEN "ack" ELSE "push"]
      BY <1>0, <3>1
    <3> QED
      BY <2>2, <3>1, GotoFields
  <2>5. \A t \in Conns, u \in Conns : Aborts(t, u) => Aborts(t, u)'
    BY <2>1, <2>4 DEF Aborts
  <2>6. \A u \in Conns : InService(u)' => InService(u)
    BY <2>1, <2>4 DEF InService
  <2> QED
    BY <2>1, <2>3, <2>5, <2>6, OrphanKept
<1>9. ASSUME NEW s \in Conns, PushAck(s) \/ ServeEnds(s) PROVE NoOrphanSocket'
  <2>1. InService(s) /\ handler[s].pc # "abort" /\ UNCHANGED <<registry, socket>>
    BY <1>9 DEF PushAck, ServeEnds, InService
  <2>2. PICK pc : Goto(s, pc)
    BY <1>9 DEF PushAck, ServeEnds
  <2>3. \A t \in Conns \ {s} : handler'[t] = handler[t]
    BY <2>2, GotoFields
  <2>4. \A t \in Conns, u \in Conns : Aborts(t, u) => Aborts(t, u)'
    BY <2>1, <2>3 DEF Aborts
  <2>5. \A u \in Conns : InService(u)' => InService(u)
    BY <2>1, <2>3 DEF InService
  <2> QED
    BY <2>1, <2>4, <2>5, OrphanKept
<1>10. ASSUME NEW s \in Conns, Cleanup(s) PROVE NoOrphanSocket'
  <2>1. /\ handler[s].pc # "abort" /\ Goto(s, "ended")
        /\ registry'.conn # registry.conn => registry.conn = s
    BY <1>0, <1>10 DEF Cleanup, DeleteClientConditionally
  <2>2. ~InService(s)'
    BY <2>1, GotoFields DEF InService
  <2>3. \A t \in Conns : socket[t] = "closed" => socket'[t] = "closed"
    BY <1>0, <1>10 DEF Cleanup, CloseSocket
  <2> QED
    BY <1>2, <2>1, <2>2, <2>3
<1>11. ASSUME NEW s \in Conns, Dial(s) PROVE NoOrphanSocket'
  <2>1. handler[s].pc = "unborn" /\ \A t \in Conns \ {s} : handler'[t] = handler[t] /\ socket'[t] = socket[t]
    BY <1>0, <1>11 DEF Dial, Retired, Dialed, SocketStates
  <2>2. handler'[s].pc = "dialed"
    BY ZenonT(30), <1>0, <1>11 DEF Dial, Handlers
  <2>3. UNCHANGED registry
    BY <1>11 DEF Dial
  <2> QED
    BY <2>1, <2>2, <2>3, OrphanKept DEF InService, Aborts
<1>12. CASE RotateReset
  <2>1. UNCHANGED handler /\ \A t \in Conns : socket'[t] = IF t = registry.conn THEN "closed" ELSE socket[t]
    BY <1>12 DEF RotateReset
  <2> QED
    BY <2>1, OrphanKept DEF InService, Aborts
<1> QED
  BY <1>1, <1>3, <1>4, <1>5, <1>7, <1>8, <1>9, <1>10, <1>11, <1>12
  DEF Next, Handler, ElsewhereSteps

(***************************************************************************)
(* No handler is left in service on a socket that is neither registered nor *)
(* about to be closed, through reconnects, failed lookups and rotations.    *)
(***************************************************************************)
THEOREM SocketsAreClosed == Spec => []NoOrphanSocket
<1>1. Init => TypeOK /\ Retired /\ NoOrphanSocket
  BY InitType, InitRetired DEF Init, NoOrphanSocket
<1>2. TypeOK /\ Retired /\ NoOrphanSocket /\ [Next]_vars => (TypeOK /\ Retired /\ NoOrphanSocket)'
  BY NextType, NextRetired, NextOrphan
<1> QED
  BY <1>1, <1>2, PTL DEF Spec

-----------------------------------------------------------------------------
(* A registered socket has a handler. *)

\* A registered handler is refused nothing while the gate is open, unless a
\* lookup of its token fails.
LEMMA RegisteredAdmitted ==
    ASSUME TypeOK, Retired, "lookup" \notin FaultKinds, NEW s \in Conns, registry.conn = s
    PROVE  ~Refused(s)
<1>1. handler[s].token = Epoch
  BY DEF Retired, Registered, Live
<1> QED
  BY <1>1, OpenEpoch DEF Refused, TokenRefused, Fault

\* Without failed lookups, a registered socket keeps its handler.
LEMMA NextServed ==
    ASSUME TypeOK, TypeOK', Retired, "lookup" \notin FaultKinds, RegisteredIsServed, [Next]_vars
    PROVE  RegisteredIsServed'
<1> USE DEF credVars, queueVars, socketVars, RegisteredIsServed
<1>0. /\ handler \in [Conns -> Handlers] /\ socket \in [Conns -> SocketStates]
      /\ registry \in Registries /\ registry' \in Registries
  BY DEF TypeOK, TypeSockets, TypeQueue
<1>1. CASE ElsewhereSteps \/ UNCHANGED vars
  BY <1>1, ElsewhereRests
<1>2. ASSUME NEW s \in Conns, NEW pc, Goto(s, pc), UNCHANGED registry,
             pc \notin {"unborn", "dialed", "ended"} \/ registry.conn # s
      PROVE  RegisteredIsServed'
  BY <1>0, <1>2, GotoFields DEF Registries
<1>3. ASSUME NEW s \in Conns, Setup(s) PROVE RegisteredIsServed'
  <2>1. CASE /\ handler[s].token = token /\ UNCHANGED socket
             /\ registry' = Mark([registry EXCEPT !.conn = s])
             /\ handler' = [handler EXCEPT ![s].pc = "abort", ![s].old = registry.conn]
    BY <1>3, <2>1, SetupFields
  <2>2. CASE Goto(s, "ended") /\ UNCHANGED registry
    BY <1>2, <1>3, <2>2 DEF Setup
  <2> QED
    BY <1>3, <2>1, <2>2 DEF Setup
<1>4. ASSUME NEW s \in Conns, AbortOld(s) PROVE RegisteredIsServed'
  BY <1>2, <1>4 DEF AbortOld
<1>5. ASSUME NEW s \in Conns, Reconcile(s) PROVE RegisteredIsServed'
  BY <1>2, <1>5, RegisteredAdmitted DEF Reconcile
<1>6. ASSUME NEW s \in Conns, UNCHANGED registry, handler[s].pc \in {"take", "push"},
             handler'[s].pc \in {"push", "ack", "serve", "cleanup"},
             \A t \in Conns \ {s} : handler'[t] = handler[t]
      PROVE  RegisteredIsServed'
  BY <1>0, <1>6 DEF Registries
<1>7. ASSUME NEW s \in Conns, PushTake(s) PROVE RegisteredIsServed'
  <2>1. CASE handler' = [handler EXCEPT ![s].todo = WholeQueue,
                             ![s].pc = IF queue.events = {} THEN "serve" ELSE "push"]
    <3>1. \A t \in Conns \ {s} : handler'[t] = handler[t]
      BY <1>0, <2>1
    <3>2. handler'[s].pc \in {"push", "serve"}
      BY ZenonT(30), <1>0, <2>1 DEF Handlers
    <3> QED
      BY <1>6, <1>7, <3>1, <3>2 DEF PushTake
  <2> QED
    BY <1>2, <1>7, <2>1 DEF PushTake
<1>8. ASSUME NEW s \in Conns, PushWrite(s) PROVE RegisteredIsServed'
  <2>1. handler[s].pc = "push" /\ UNCHANGED registry
    BY <1>8 DEF PushWrite
  <2>2. PICK c \in Oldest(handler[s].todo, 1) :
          \/ /\ WriteSucceeds(s, c)
             /\ handler' = [handler EXCEPT ![s].todo = handler[s].todo \ {c},
                              ![s].sent = handler[s].sent \union {c},
                              ![s].pc = IF handler[s].todo = {c} THEN "ack" ELSE "push"]
          \/ WriteFails(s) /\ Goto(s, "ack")
    BY ZenonT(60), <1>8 DEF PushWrite
  <2>3. CASE handler' = [handler EXCEPT ![s].todo = handler[s].todo \ {c},
                              ![s].sent = handler[s].sent \union {c},
                              ![s].pc = IF handler[s].todo = {c} THEN "ack" ELSE "push"]
    <3>1. \A t \in Conns \ {s} : handler'[t] = handler[t]
      BY <1>0, <2>3
    <3>2. handler'[s].pc \in {"push", "ack"}
      BY ZenonT(30), <1>0, <2>3 DEF Handlers
    <3> QED
      BY <1>6, <2>1, <3>1, <3>2
  <2> QED
    BY <1>2, <2>1, <2>2, <2>3
<1>9. ASSUME NEW s \in Conns, PushAck(s) \/ ServeEnds(s) PROVE RegisteredIsServed'
  BY <1>2, <1>9 DEF PushAck, ServeEnds
<1>10. ASSUME NEW s \in Conns, Cleanup(s) PROVE RegisteredIsServed'
  <2>1. registry'.conn \in {0, registry.conn} \ {s} /\ Goto(s, "ended")
    BY <1>0, <1>10 DEF Cleanup, DeleteClientConditionally, Registries
  <2> QED
    BY <1>0, <2>1, GotoFields DEF Registries
<1>11. ASSUME NEW s \in Conns, Dial(s) PROVE RegisteredIsServed'
  <2>1. UNCHANGED registry /\ \A t \in Conns \ {s} : handler'[t] = handler[t]
    BY <1>0, <1>11 DEF Dial
  <2>2. registry.conn # s
    BY <1>11 DEF Dial, Retired, Registered, Live
  <2> QED
    BY <1>0, <2>1, <2>2 DEF Registries
<1>12. CASE RotateReset
  BY <1>0, <1>12 DEF RotateReset, Registries
<1> QED
  BY <1>1, <1>3, <1>4, <1>5, <1>7, <1>8, <1>9, <1>10, <1>11, <1>12
  DEF Next, Handler, ElsewhereSteps

(***************************************************************************)
(* While token lookups do not fail, the socket that the registry offers to  *)
(* dispatchers has a handler that will remove it, across reconnects and     *)
(* rotations.  A failed lookup is the exception: see the ghost run.         *)
(***************************************************************************)
THEOREM ServedUntilRemoved ==
    ASSUME "lookup" \notin FaultKinds
    PROVE  Spec => []RegisteredIsServed
<1>1. Init => TypeOK /\ Retired /\ RegisteredIsServed
  BY InitType, InitRetired DEF Init, RegisteredIsServed
<1>2. TypeOK /\ Retired /\ RegisteredIsServed /\ [Next]_vars
        => (TypeOK /\ Retired /\ RegisteredIsServed)'
  BY NextType, NextRetired, NextServed
<1> QED
  BY <1>1, <1>2, PTL DEF Spec
=============================================================================
