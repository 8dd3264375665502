---------------------- MODULE OfflineNotifier_proofs -----------------------
(***************************************************************************)
(* What OfflineNotifier guarantees for every number of connections and     *)
(* sweeps, every schedule, every bound and every interleaving: types, the  *)
(* recovery marker is right, a pending outage is never lost, no alert is   *)
(* earlier than the grace period; and, under the restrictions each theorem *)
(* names, one alert per outage, none inside a window, none about a node    *)
(* that reports.                                                           *)
(***************************************************************************)
EXTENDS OfflineNotifier, TLAPS

\* A deferral ends strictly after the instant that was suppressed.
LEMMA DeferralIsLater ==
    ASSUME NEW ws \in WindowSets, NEW at \in Nat, NEW t \in DeliverAt(at, Node, ws)
    PROVE  t \in Nat /\ at < t
  BY NotifierAssumption DEF DeliverAt, OpenWindows, Contains

\* The later of two instants.
LEMMA LaterOfNat ==
    ASSUME NEW a \in Nat, NEW b \in Nat
    PROVE  LaterOf(a, b) \in Nat /\ LaterOf(a, b) >= a /\ LaterOf(a, b) >= b
  BY DEF LaterOf

-----------------------------------------------------------------------------
(***************************************************************************)
(* Type correctness.  Each part of TypeOK is kept by every step that       *)
(* leaves its variables alone.                                             *)
(***************************************************************************)
USE DEF envVars, clockVars, transportVars, stateVars, claimVars, senderVars

processVars == <<online, offline, sweep>>
noticeVars == <<stale, claimVars, senderVars>>

\* The environment's variables keep their type when they do not change.
LEMMA KeepEnv == TypeEnv /\ UNCHANGED envVars => TypeEnv'
  BY DEF TypeEnv
\* So do the goroutines'.
LEMMA KeepProcesses == TypeProcesses /\ UNCHANGED processVars => TypeProcesses'
  BY DEF TypeProcesses, processVars
\* So do the state record's and the deferred entry's.
LEMMA KeepState == TypeState /\ UNCHANGED <<stateVars, deferred>> => TypeState'
  BY DEF TypeState
\* So do the notices'.
LEMMA KeepNotices == TypeNotices /\ UNCHANGED noticeVars => TypeNotices'
  BY DEF TypeNotices, noticeVars

\* The initial state is typed.
LEMMA InitTypeOK == Init => TypeOK
<1> SUFFICES ASSUME Init PROVE TypeOK
  OBVIOUS
<1> USE NotifierAssumption DEF NoConn
<1>1. TypeEnv
  BY DEF Init, TypeEnv
<1>2. TypeProcesses
  BY DEF Init, TypeProcesses, OfflineStates, SweepStates, Idle, NoOffline
<1>3. TypeState
  <2>1. deferred \in [conn : 0 .. MaxConns, deliverAt : Nat] /\ connectionID \in 0 .. MaxConns
    BY DEF Init, NoAlert
  <2> QED
    BY <2>1, Zenon DEF Init, TypeState
<1>4. TypeNotices
  <2>1. /\ outbox \subseteq [event : {"offline", "online"}, conn : Conns]
        /\ failures \in 0 .. MaxFailures /\ stale \subseteq 0 .. MaxConns
        /\ claimed \in [Conns -> Nat] /\ delivered \in [Conns -> Nat] /\ refused \subseteq Conns
    BY DEF Init
  <2> QED
    BY <2>1, Zenon DEF Init, TypeNotices
<1> QED
  BY <1>1, <1>2, <1>3, <1>4 DEF TypeOK

\* What the critical sections of the deferred queue do to its type.
LEMMA DeferredType ==
    ASSUME TypeState, NEW c \in 0 .. MaxConns, NEW at \in Nat
    PROVE  /\ deferOfflineAlert(c, at) => deferred' \in [conn : 0 .. MaxConns, deliverAt : Nat]
           /\ forgetDeferredAlertIfCurrent(c)
                => deferred' \in [conn : 0 .. MaxConns, deliverAt : Nat]
           /\ requeueDeferredAlert(c, at)
                => deferred' \in [conn : 0 .. MaxConns, deliverAt : Nat]
<1>1. LaterOf(deferred.deliverAt, at) \in Nat
  BY LaterOfNat DEF TypeState
<1> QED
  BY <1>1, NotifierAssumption
  DEF deferOfflineAlert, forgetDeferredAlertIfCurrent, requeueDeferredAlert, NoAlert, NoConn,
      TypeState

\* A move of an offline goroutine keeps the goroutines' type.
LEMMA OfflineStepType ==
    ASSUME TypeProcesses, NEW c \in Conns, NEW from,
           NEW to \in {"ready", "decided", "grace", "done"}, offlineStep(c, from, to)
    PROVE  offline' \in [Conns -> OfflineStates]
  BY DEF offlineStep, TypeProcesses, OfflineStates

\* A move of a sweep keeps the sweeps' type.
LEMMA SweepStepType ==
    ASSUME TypeProcesses, NEW s \in Sweepers, NEW from,
           NEW to \in {"idle", "window", "claim", "send", "forget"}, sweepStep(s, from, to)
    PROVE  sweep' \in [Sweepers -> SweepStates]
<1>1. Idle \in SweepStates
  BY NotifierAssumption DEF Idle, NoConn, SweepStates
<1>2. [sweep[s] EXCEPT !.pc = to] \in SweepStates
  BY DEF TypeProcesses, SweepStates
<1> QED
  BY <1>1, <1>2 DEF sweepStep, TypeProcesses

\* The clock, the schedule, the transports and the senders.
LEMMA EnvStepType ==
    ASSUME TypeOK, Tick \/ EditWindows \/ Transport \/ Deliver
    PROVE  TypeOK'
<1> USE NotifierAssumption DEF TypeOK, processVars, noticeVars
<1>1. CASE Tick \/ EditWindows
  <2>1. TypeEnv'
    BY <1>1 DEF Tick, EditWindows, TypeEnv
  <2> QED
    BY <1>1, <2>1, KeepProcesses, KeepState, KeepNotices DEF Tick, EditWindows
<1>2. ASSUME NEW c \in Conns,
             WebSocketOpen(c) \/ PostFirst(c) \/ WebSocketClose(c) \/ PostExpire(c)
      PROVE  TypeOK'
  <2>1. CASE WebSocketOpen(c)
    <3>1. TypeEnv'
      BY <2>1 DEF WebSocketOpen, NewConn, TypeEnv, Conns
    <3>2. TypeProcesses'
      BY <2>1 DEF WebSocketOpen, NewConn, TypeProcesses
    <3> QED
      BY <2>1, <3>1, <3>2, KeepState, KeepNotices DEF WebSocketOpen
  <2>2. CASE PostFirst(c)
    <3>1. TypeEnv'
      BY <2>2 DEF PostFirst, NewConn, TypeEnv, Conns
    <3>2. TypeProcesses'
      BY <2>2 DEF PostFirst, NewConn, TypeProcesses
    <3> QED
      BY <2>2, <3>1, <3>2, KeepState, KeepNotices DEF PostFirst
  <2>3. CASE WebSocketClose(c) \/ PostExpire(c)
    <3>1. TypeEnv'
      BY <2>3 DEF WebSocketClose, PostExpire, EndConn, TypeEnv, NoConn
    <3>2. offline' = [offline EXCEPT ![c].pc = "ready"]
      BY <2>3 DEF WebSocketClose, PostExpire, EndConn
    <3>3. TypeProcesses'
      BY <2>3, <3>2 DEF WebSocketClose, PostExpire, EndConn, TypeProcesses, OfflineStates
    <3> QED
      BY <2>3, <3>1, <3>3, KeepState, KeepNotices DEF WebSocketClose, PostExpire, EndConn
  <2> QED
    BY <1>2, <2>1, <2>2, <2>3
<1>3. CASE PostRefresh \/ ResetClientState
  <2>1. TypeEnv'
    BY <1>3 DEF PostRefresh, ResetClientState, TypeEnv, NoConn
  <2> QED
    BY <1>3, <2>1, KeepProcesses, KeepState, KeepNotices DEF PostRefresh, ResetClientState
<1>4. CASE Deliver
  <2> PICK m \in outbox :
        /\ outbox' = outbox \ {m}
        /\ \/ Accept(m) /\ UNCHANGED <<failures, refused>>
           \/ SendFails /\ GiveUp(m) /\ UNCHANGED delivered
    BY <1>4, Zenon DEF Deliver
  <2>1. m.event \in {"offline", "online"}
    BY DEF TypeNotices
  <2>2. TypeNotices'
    BY <1>4, <2>1 DEF Deliver, Accept, GiveUp, SendFails, TypeNotices
  <2> QED
    BY <1>4, <2>2, KeepEnv, KeepProcesses, KeepState DEF Deliver
<1> QED
  BY <1>1, <1>2, <1>3, <1>4 DEF Transport

\* The goroutines of one connection.
LEMMA GoroutineStepType ==
    ASSUME TypeOK, NEW c \in Conns, OnlineGoroutine(c) \/ OfflineGoroutine(c)
    PROVE  TypeOK'
<1> USE NotifierAssumption DEF TypeOK, processVars, noticeVars
<1> c \in 0 .. MaxConns
  BY DEF Conns
<1>1. CASE OnlineLookupFails(c)
  <2>1. TypeProcesses'
    BY <1>1 DEF OnlineLookupFails, TypeProcesses
  <2> QED
    BY <1>1, <2>1, KeepEnv, KeepState, KeepNotices DEF OnlineLookupFails
<1>2. CASE OnlineNotification(c)
  <2>1. TypeProcesses'
    BY <1>2 DEF OnlineNotification, TypeProcesses
  <2>2. deferred' \in [conn : 0 .. MaxConns, deliverAt : Nat] /\ connectionID' \in 0 .. MaxConns
    BY <1>2 DEF OnlineNotification, NoAlert, NoConn
  <2>3. TypeState'
    BY <1>2, <2>2, Zenon DEF OnlineNotification, TypeState
  <2>4. outbox' \subseteq [event : {"offline", "online"}, conn : Conns]
    BY <1>2 DEF OnlineNotification, TypeNotices
  <2>5. TypeNotices'
    BY <1>2, <2>4, Zenon DEF OnlineNotification, TypeNotices
  <2> QED
    BY <1>2, <2>1, <2>3, <2>5, KeepEnv DEF OnlineNotification
<1>3. CASE OfflineNotEnabled(c) \/ OfflineIgnored(c) \/ GraceSuperseded(c)
  <2>1. offline' \in [Conns -> OfflineStates]
    BY <1>3, OfflineStepType DEF OfflineNotEnabled, OfflineIgnored, GraceSuperseded
  <2>2. TypeProcesses'
    BY <1>3, <2>1 DEF OfflineNotEnabled, OfflineIgnored, GraceSuperseded, TypeProcesses
  <2> QED
    BY <1>3, <2>2, KeepEnv, KeepState, KeepNotices
    DEF OfflineNotEnabled, OfflineIgnored, GraceSuperseded
<1>4. CASE OfflineDecide(c)
  <2>1. now \in Nat /\ windows \in WindowSets
    BY DEF TypeEnv
  <2>2. \A at \in DeliverAt(now, Node, windows) : Decision(now, TRUE, at) \in OfflineStates
    BY <2>1, DeferralIsLater DEF Decision, OfflineStates
  <2>3. Decision(now, FALSE, 0) \in OfflineStates
    BY <2>1 DEF Decision, OfflineStates
  <2>4. TypeProcesses'
    BY <1>4, <2>2, <2>3 DEF OfflineDecide, TypeProcesses
  <2> QED
    BY <1>4, <2>4, KeepEnv, KeepState, KeepNotices DEF OfflineDecide
<1>5. CASE OfflineMark(c)
  <2>1. offline' \in [Conns -> OfflineStates]
    BY <1>5, OfflineStepType DEF OfflineMark
  <2>2. TypeProcesses'
    BY <1>5, <2>1 DEF OfflineMark, TypeProcesses
  <2>0. offline[c].until \in Nat /\ offline[c].since + GracePeriod \in Nat
    BY DEF TypeProcesses, OfflineStates
  <2>3. DeferralEnd(c) \in Nat
    BY <2>0, LaterOfNat DEF DeferralEnd
  <2>4. deferred' \in [conn : 0 .. MaxConns, deliverAt : Nat]
    BY <1>5, <2>3, DeferredType DEF OfflineMark, TypeState
  <2>5. TypeState'
    BY <1>5, <2>4 DEF OfflineMark, TypeState
  <2> QED
    BY <1>5, <2>2, <2>5, KeepEnv, KeepNotices DEF OfflineMark
<1>6. CASE GraceDefer(c)
  <2>1. offline' \in [Conns -> OfflineStates]
    BY <1>6, OfflineStepType DEF GraceDefer
  <2>2. TypeProcesses'
    BY <1>6, <2>1 DEF GraceDefer, TypeProcesses
  <2>3. PICK at \in DeliverAt(now, Node, windows) : deferOfflineAlert(c, at)
    BY <1>6 DEF GraceDefer
  <2>4. at \in Nat
    BY DeferralIsLater DEF TypeEnv
  <2>5. deferred' \in [conn : 0 .. MaxConns, deliverAt : Nat]
    BY <2>3, <2>4, DeferredType
  <2>6. TypeState'
    BY <1>6, <2>5 DEF GraceDefer, TypeState
  <2> QED
    BY <1>6, <2>2, <2>6, KeepEnv, KeepNotices DEF GraceDefer
<1>7. CASE GraceClaim(c)
  <2>1. offline' \in [Conns -> OfflineStates]
    BY <1>7, OfflineStepType DEF GraceClaim
  <2>2. TypeProcesses'
    BY <1>7, <2>1 DEF GraceClaim, TypeProcesses
  <2>3. TypeState'
    BY <1>7 DEF GraceClaim, ClaimOutage, TypeState
  <2>4. TypeNotices'
    BY <1>7 DEF GraceClaim, ClaimOutage, TypeNotices
  <2> QED
    BY <1>7, <2>2, <2>3, <2>4, KeepEnv DEF GraceClaim
<1> QED
  BY <1>1, <1>2, <1>3, <1>4, <1>5, <1>6, <1>7 DEF OnlineGoroutine, OfflineGoroutine

\* The steps of one sweep.
LEMMA SweepStepKeepsType ==
    ASSUME TypeOK, NEW s \in Sweepers, Sweep(s)
    PROVE  TypeOK'
<1> USE NotifierAssumption DEF TypeOK, processVars, noticeVars
<1>0. sweep[s] \in SweepStates
  BY DEF TypeProcesses
<1>1. CASE SweepBegin(s)
  <2>1. [pc |-> "check", now |-> now, conn |-> deferred.conn,
         deliverAt |-> deferred.deliverAt] \in SweepStates
    BY DEF TypeEnv, TypeState, SweepStates
  <2>2. TypeProcesses'
    BY <1>1, <2>1 DEF SweepBegin, TypeProcesses
  <2> QED
    BY <1>1, <2>2, KeepEnv, KeepState, KeepNotices DEF SweepBegin
<1>2. CASE SweepNotDue(s) \/ SweepSuperseded(s) \/ SweepCheck(s) \/ SweepWindowClear(s)
  <2>1. sweep' \in [Sweepers -> SweepStates]
    BY <1>2, SweepStepType DEF SweepNotDue, SweepSuperseded, SweepCheck, SweepWindowClear
  <2>2. TypeProcesses'
    BY <1>2, <2>1 DEF SweepNotDue, SweepSuperseded, SweepCheck, SweepWindowClear, TypeProcesses
  <2> QED
    BY <1>2, <2>2, KeepEnv, KeepState, KeepNotices
    DEF SweepNotDue, SweepSuperseded, SweepCheck, SweepWindowClear
<1>3. CASE SweepStale(s) \/ SweepForget(s)
  <2>1. sweep' \in [Sweepers -> SweepStates]
    BY <1>3, SweepStepType DEF SweepStale, SweepForget
  <2>2. TypeProcesses'
    BY <1>3, <2>1 DEF SweepStale, SweepForget, TypeProcesses
  <2>3. sweep[s].conn \in 0 .. MaxConns
    BY <1>0 DEF SweepStates
  <2>4. deferred' \in [conn : 0 .. MaxConns, deliverAt : Nat]
    BY <1>3, <2>3, DeferredType DEF SweepStale, SweepForget
  <2>5. TypeState'
    BY <1>3, <2>4 DEF SweepStale, SweepForget, TypeState
  <2>6. TypeNotices'
    BY <1>3, <2>3 DEF SweepStale, SweepForget, TypeNotices
  <2> QED
    BY <1>3, <2>2, <2>5, <2>6, KeepEnv DEF SweepStale, SweepForget
<1>4. CASE SweepRequeue(s)
  <2>1. sweep' \in [Sweepers -> SweepStates]
    BY <1>4, SweepStepType DEF SweepRequeue
  <2>2. TypeProcesses'
    BY <1>4, <2>1 DEF SweepRequeue, TypeProcesses
  <2>3. PICK at \in DeliverAt(sweep[s].now, Node, windows) :
              requeueDeferredAlert(sweep[s].conn, at)
    BY <1>4 DEF SweepRequeue
  <2>4. at \in Nat /\ sweep[s].conn \in 0 .. MaxConns
    BY <1>0, DeferralIsLater DEF TypeEnv, SweepStates
  <2>5. deferred' \in [conn : 0 .. MaxConns, deliverAt : Nat]
    BY <2>3, <2>4, DeferredType
  <2>6. TypeState'
    BY <1>4, <2>5 DEF SweepRequeue, TypeState
  <2> QED
    BY <1>4, <2>2, <2>6, KeepEnv, KeepNotices DEF SweepRequeue
<1>5. CASE SweepClaim(s)
  <2>1. sweep' \in [Sweepers -> SweepStates]
    BY <1>5, SweepStepType DEF SweepClaim
  <2>2. TypeProcesses'
    BY <1>5, <2>1 DEF SweepClaim, TypeProcesses
  <2>3. TypeState'
    BY <1>5 DEF SweepClaim, ClaimOutage, TypeState
  <2>4. claimed' \in [Conns -> Nat]
    <3> DEFINE c == sweep[s].conn
    <3>1. claimed' = [claimed EXCEPT ![c] = claimed[c] + 1]
      BY <1>5 DEF SweepClaim, ClaimOutage
    <3>2. claimed \in [Conns -> Nat]
      BY DEF TypeNotices
    <3>3. CASE c \in Conns
      BY <3>1, <3>2, <3>3
    <3>4. CASE c \notin Conns
      BY <3>1, <3>2, <3>4
    <3> QED
      BY <3>3, <3>4
  <2>5. TypeNotices'
    BY <1>5, <2>4, Zenon DEF SweepClaim, ClaimOutage, TypeNotices
  <2> QED
    BY <1>5, <2>2, <2>3, <2>5, KeepEnv DEF SweepClaim
<1>6. CASE SweepSend(s)
  <2>1. sweep' \in [Sweepers -> SweepStates]
    BY <1>6, SweepStepType DEF SweepSend, SweepSendEnds
  <2>2. TypeProcesses'
    BY <1>6, <2>1 DEF SweepSend, SweepSendEnds, TypeProcesses
  <2>3. TypeNotices'
    BY <1>6 DEF SweepSend, SweepSendEnds, Accept, SendFails, TypeNotices
  <2> QED
    BY <1>6, <2>2, <2>3, KeepEnv, KeepState DEF SweepSend, SweepSendEnds
<1> QED
  BY <1>1, <1>2, <1>3, <1>4, <1>5, <1>6 DEF Sweep

\* Every action keeps every type.
LEMMA NextTypeOK == TypeOK /\ [Next]_vars => TypeOK'
<1>1. ASSUME TypeOK, UNCHANGED vars PROVE TypeOK'
  BY <1>1, KeepEnv, KeepProcesses, KeepState, KeepNotices DEF vars, TypeOK, processVars, noticeVars
<1> QED
  BY <1>1, EnvStepType, GoroutineStepType, SweepStepKeepsType DEF Next

\* Every variable of the notifier keeps its type.
THEOREM Typing == Spec => []TypeOK
  BY InitTypeOK, NextTypeOK, PTL DEF Spec
-----------------------------------------------------------------------------
(***************************************************************************)
(* The inductive invariant.  A connection's offline call starts only after *)
(* the connection has ended, and it ends once.                             *)
(***************************************************************************)
ConnectionsInv ==
    /\ \A c \in Conns : c > opened => conn[c] = "unborn"
    /\ \A c \in Conns : offline[c].pc # "none" => conn[c] = "ended"
    /\ postEntry # NoConn => conn[postEntry] = "open" /\ transport[postEntry] = "post"

\* A connection whose offline call has not reached its critical section is
\* still on record as existing: this is why a marked outage was not claimed.
RecordInv ==
    /\ isFirstConnection <=> connectionID = NoConn
    /\ pendingOfflineSince => ~isConnExist
    /\ \A c \in Conns : (connectionID = c /\ offline[c].pc \notin {"grace", "done"})
                            => isConnExist /\ ~pendingOfflineSince

\* Only outages whose offline call has finished are in the queue or in a sweep.
Queued(c, deliverAt) ==
    c \in Conns /\ offline[c].pc = "done" /\ offline[c].since + GracePeriod <= deliverAt

QueueInv == deferred # NoAlert => Queued(deferred.conn, deferred.deliverAt)

\* A sweep that gave up its claim, or made it, can drop the entry: its outage
\* is not the pending one, and cannot become it again.
SweepOK(s) ==
    sweep[s].pc # "idle" =>
        /\ Queued(sweep[s].conn, sweep[s].deliverAt)
        /\ sweep[s].now <= now
        /\ sweep[s].pc # "check" => sweep[s].deliverAt <= sweep[s].now
        /\ sweep[s].pc \in {"send", "forget"} => ~IsCurrentOutage(sweep[s].conn)

SweepInv == \A s \in Sweepers : SweepOK(s)

OutageInv == /\ TypeOK /\ ConnectionsInv /\ RecordInv /\ QueueInv /\ SweepInv
             /\ RecoveryMatchesReport /\ PendingTracked
-----------------------------------------------------------------------------
USE NotifierAssumption
USE DEF envVars, clockVars, transportVars, stateVars, claimVars, senderVars, NoConn, Conns

\* Nothing is pending at the start.
LEMMA InitOutageInv == Init => OutageInv
<1> SUFFICES ASSUME Init PROVE OutageInv
  OBVIOUS
<1>1. TypeOK
  BY InitTypeOK
<1>2. ConnectionsInv /\ QueueInv /\ SweepInv
  BY DEF Init, ConnectionsInv, QueueInv, SweepInv, SweepOK, NoOffline, Idle
<1>3. RecordInv
  <2>1. \A c \in Conns : connectionID # c
    BY DEF Init
  <2> QED
    BY <2>1, Zenon DEF Init, RecordInv
<1>4. RecoveryMatchesReport /\ PendingTracked
  BY DEF Init, RecoveryMatchesReport, RecoveryDue, PendingTracked
<1> QED
  BY <1>1, <1>2, <1>3, <1>4 DEF OutageInv

(***************************************************************************)
(* What a step must respect: finished offline calls stay as they are, and  *)
(* an outage whose call has finished does not become the pending one again.*)
(***************************************************************************)
DoneKept ==
    \A c \in Conns : offline[c].pc = "done" =>
        offline'[c] = offline[c] /\ (IsCurrentOutage(c)' => IsCurrentOutage(c))

\* A deferred entry is kept by a step that leaves the queue alone.
LEMMA QueueKept ==
    ASSUME QueueInv, DoneKept, UNCHANGED deferred
    PROVE  QueueInv'
  BY DEF QueueInv, Queued, DoneKept

\* Sweeps are kept by a step that moves none of them.
LEMMA SweepKept ==
    ASSUME TypeOK, SweepInv, DoneKept, now' \in Nat, now <= now', UNCHANGED sweep
    PROVE  SweepInv'
<1> SUFFICES ASSUME NEW s \in Sweepers, sweep[s].pc # "idle" PROVE SweepOK(s)'
  BY DEF SweepInv, SweepOK
<1>1. SweepOK(s)
  BY DEF SweepInv
<1>2. sweep[s].now \in Nat /\ now \in Nat
  BY DEF TypeOK, TypeProcesses, TypeEnv, SweepStates
<1>3. sweep[s].now <= now'
  BY <1>1, <1>2 DEF SweepOK
<1>4. Queued(sweep[s].conn, sweep[s].deliverAt)'
  BY <1>1 DEF SweepOK, Queued, DoneKept
<1>5. IsCurrentOutage(sweep[s].conn)' => IsCurrentOutage(sweep[s].conn)
  BY <1>1 DEF SweepOK, Queued, DoneKept
<1> QED
  BY <1>1, <1>3, <1>4, <1>5 DEF SweepOK

\* One sweep moves, the others are kept.
LEMMA SweepMoved ==
    ASSUME TypeOK, SweepInv, DoneKept, UNCHANGED now,
           NEW s \in Sweepers, NEW r, sweep' = [sweep EXCEPT ![s] = r], SweepOK(s)'
    PROVE  SweepInv'
<1> SUFFICES ASSUME NEW t \in Sweepers, t # s, sweep'[t].pc # "idle" PROVE SweepOK(t)'
  BY DEF SweepInv, SweepOK
<1>1. SweepOK(t) /\ sweep'[t] = sweep[t]
  BY DEF SweepInv, TypeOK, TypeProcesses
<1>2. Queued(sweep[t].conn, sweep[t].deliverAt)'
  BY <1>1 DEF SweepOK, Queued, DoneKept
<1>3. IsCurrentOutage(sweep[t].conn)' => IsCurrentOutage(sweep[t].conn)
  BY <1>1 DEF SweepOK, Queued, DoneKept
<1> QED
  BY <1>1, <1>2, <1>3 DEF SweepOK

\* A step that changes neither the record nor an offline call.
LEMMA RecordKept ==
    ASSUME OutageInv, UNCHANGED <<offline, stateVars>>
    PROVE  DoneKept /\ RecordInv' 
<1>1. DoneKept
  BY DEF DoneKept, IsCurrentOutage
<1>2. RecordInv'
  BY DEF OutageInv, RecordInv
<1> QED
  BY <1>1, <1>2

\* The two properties look at five groups of variables only.
LEMMA NoticesKept ==
    ASSUME OutageInv, UNCHANGED <<offline, stateVars, outageReported, deferred, stale>>
    PROVE  RecoveryMatchesReport' /\ PendingTracked'
  BY DEF OutageInv, RecoveryMatchesReport, RecoveryDue, PendingTracked
-----------------------------------------------------------------------------
\* The clock, the schedule, the transports and the senders.
LEMMA EnvOutageInv ==
    ASSUME OutageInv, Tick \/ EditWindows \/ PostRefresh \/ ResetClientState \/ Deliver
                        \/ \E c \in Conns : WebSocketOpen(c) \/ PostFirst(c)
                                            \/ OnlineLookupFails(c)
    PROVE  OutageInv'
<1>0. TypeOK'
  BY NextTypeOK DEF OutageInv, Next, Transport, OnlineGoroutine
<1>1. UNCHANGED <<offline, stateVars, outageReported, deferred, stale, sweep>>
  BY DEF Tick, EditWindows, PostRefresh, ResetClientState, Deliver, WebSocketOpen, PostFirst,
         OnlineLookupFails
<1>2. DoneKept /\ RecordInv' /\ RecoveryMatchesReport' /\ PendingTracked'
  BY <1>1, RecordKept, NoticesKept
<1>3. now' \in Nat /\ now <= now'
  BY DEF Tick, EditWindows, PostRefresh, ResetClientState, Deliver, WebSocketOpen, PostFirst,
         OnlineLookupFails, OutageInv, TypeOK, TypeEnv
<1>4. QueueInv' /\ SweepInv'
  BY <1>1, <1>2, <1>3, QueueKept, SweepKept DEF OutageInv
<1>5. ConnectionsInv'
  <2>1. CASE Tick \/ EditWindows \/ PostRefresh \/ Deliver
                \/ \E c \in Conns : OnlineLookupFails(c)
    BY <2>1, <1>1
    DEF Tick, EditWindows, PostRefresh, Deliver, OnlineLookupFails, OutageInv, ConnectionsInv
  <2>2. CASE ResetClientState
    BY <2>2, <1>1 DEF ResetClientState, OpenSockets, OutageInv, ConnectionsInv, TypeOK, TypeEnv
  <2>3. ASSUME NEW c \in Conns, WebSocketOpen(c) PROVE ConnectionsInv'
    BY <2>3, <1>1 DEF WebSocketOpen, NewConn, OpenSockets, OutageInv, ConnectionsInv, TypeOK, TypeEnv
  <2>4. ASSUME NEW c \in Conns, PostFirst(c) PROVE ConnectionsInv'
    BY <2>4, <1>1 DEF PostFirst, NewConn, OutageInv, ConnectionsInv, TypeOK, TypeEnv
  <2> QED
    BY <2>1, <2>2, <2>3, <2>4
<1> QED
  BY <1>0, <1>2, <1>4, <1>5 DEF OutageInv

\* A connection ends: its offline call begins.
LEMMA EndOutageInv ==
    ASSUME OutageInv, NEW c \in Conns, WebSocketClose(c) \/ PostExpire(c)
    PROVE  OutageInv'
<1>0. TypeOK'
  BY NextTypeOK DEF OutageInv, Next, Transport
<1>1. /\ offline' = [offline EXCEPT ![c].pc = "ready"]
      /\ conn' = [conn EXCEPT ![c] = "ended"]
      /\ conn[c] \in {"open", "aborted"}
      /\ UNCHANGED <<opened, transport, stateVars, outageReported, deferred, stale, sweep, now>>
  BY DEF WebSocketClose, PostExpire, EndConn, OutageInv, ConnectionsInv
<1>2. (postEntry' = postEntry /\ postEntry # c) \/ postEntry' = NoConn
  BY DEF WebSocketClose, PostExpire, EndConn, OutageInv, ConnectionsInv
<1>3. offline[c].pc = "none" /\ offline'[c].pc = "ready"
      /\ \A d \in Conns : d # c => offline'[d] = offline[d]
  BY <1>1 DEF OutageInv, ConnectionsInv, TypeOK, TypeProcesses, OfflineStates
<1>4. DoneKept
  BY <1>1, <1>3 DEF DoneKept, IsCurrentOutage
<1>5. ConnectionsInv'
  BY <1>1, <1>2, <1>3 DEF OutageInv, ConnectionsInv, TypeOK, TypeEnv
<1>6. RecordInv'
  BY <1>1, <1>3 DEF OutageInv, RecordInv
<1>7. QueueInv' /\ SweepInv'
  BY <1>1, <1>4, QueueKept, SweepKept DEF OutageInv, TypeOK, TypeEnv
<1>8. RecoveryMatchesReport' /\ PendingTracked'
  BY <1>1, <1>3 DEF OutageInv, RecoveryMatchesReport, RecoveryDue, PendingTracked
<1> QED
  BY <1>0, <1>5, <1>6, <1>7, <1>8 DEF OutageInv

\* An offline call that changes only its own progress.
LEMMA OfflineMoves ==
    ASSUME OutageInv, NEW c \in Conns, offline[c].pc \in {"ready", "decided", "grace"},
           \A d \in Conns : d # c => offline'[d] = offline[d],
           UNCHANGED envVars
    PROVE  /\ \A d \in Conns : offline[d].pc = "done" => offline'[d] = offline[d]
           /\ ConnectionsInv'
  BY DEF OutageInv, ConnectionsInv

\* An offline goroutine's move changes its own program counter only.
LEMMA OfflineStepMoves ==
    ASSUME TypeOK, NEW c \in Conns, NEW from, NEW to, offlineStep(c, from, to)
    PROVE  /\ offline[c].pc = from /\ offline'[c].pc = to /\ offline'[c].since = offline[c].since
           /\ \A d \in Conns : d # c => offline'[d] = offline[d]
  BY DEF offlineStep, TypeOK, TypeProcesses, OfflineStates

\* The offline goroutine's steps that leave the record alone.
LEMMA QuietOutageInv ==
    ASSUME OutageInv, NEW c \in Conns,
           OfflineNotEnabled(c) \/ OfflineDecide(c) \/ OfflineIgnored(c) \/ GraceSuperseded(c)
    PROVE  OutageInv'
<1>0. TypeOK'
  BY NextTypeOK DEF OutageInv, Next, OfflineGoroutine
<1>1. UNCHANGED <<envVars, stateVars, outageReported, deferred, stale, sweep>>
  BY DEF OfflineNotEnabled, OfflineDecide, OfflineIgnored, GraceSuperseded
<1>2. /\ offline[c].pc \in {"ready", "decided", "grace"}
      /\ \A d \in Conns : d # c => offline'[d] = offline[d]
      /\ offline[c].pc # "grace" => offline'[c].pc \in {"decided", "done"}
      /\ offline[c].pc = "grace" => offline'[c].pc = "done" /\ ~IsCurrentOutage(c)
  <2>1. CASE OfflineDecide(c)
    <3>1. offline[c].pc = "ready" /\ offline \in [Conns -> OfflineStates]
      BY <2>1 DEF OfflineDecide, OutageInv, TypeOK, TypeProcesses
    <3>2. \E suppress, until : offline' = [offline EXCEPT ![c] = Decision(now, suppress, until)]
      BY <2>1 DEF OfflineDecide
    <3>3. offline'[c].pc = "decided" /\ \A d \in Conns : d # c => offline'[d] = offline[d]
      BY <3>1, <3>2 DEF Decision
    <3> QED
      BY <3>1, <3>3
  <2>2. TypeOK
    BY DEF OutageInv
  <2>3. CASE OfflineNotEnabled(c)
    BY <2>2, <2>3, OfflineStepMoves DEF OfflineNotEnabled
  <2>4. CASE OfflineIgnored(c)
    BY <2>2, <2>4, OfflineStepMoves DEF OfflineIgnored
  <2>5. CASE GraceSuperseded(c)
    BY <2>2, <2>5, OfflineStepMoves DEF GraceSuperseded
  <2> QED
    BY <2>1, <2>3, <2>4, <2>5
<1>3. DoneKept /\ ConnectionsInv'
  BY <1>1, <1>2, OfflineMoves DEF DoneKept, IsCurrentOutage
<1>4. RecordInv'
  BY <1>1, <1>2 DEF OutageInv, RecordInv
<1>5. QueueInv' /\ SweepInv'
  BY <1>1, <1>3, QueueKept, SweepKept DEF OutageInv, TypeOK, TypeEnv
<1>6. RecoveryMatchesReport' /\ PendingTracked'
  BY <1>1, <1>2
  DEF OutageInv, RecoveryMatchesReport, RecoveryDue, PendingTracked, IsCurrentOutage
<1> QED
  BY <1>0, <1>3, <1>4, <1>5, <1>6 DEF OutageInv

\* A reconnect takes over the record and closes the outage.
LEMMA OnlineOutageInv ==
    ASSUME OutageInv, NEW c \in Conns, OnlineNotification(c)
    PROVE  OutageInv'
<1>0. TypeOK'
  BY NextTypeOK DEF OutageInv, Next, OnlineGoroutine
<1>1. /\ connectionID' = c /\ ~isFirstConnection' /\ ~pendingOfflineSince' /\ isConnExist'
      /\ ~outageReported' /\ deferred' = NoAlert
      /\ UNCHANGED <<envVars, offline, sweep, stale>>
  BY DEF OnlineNotification
<1>2. DoneKept
  BY <1>1 DEF DoneKept, IsCurrentOutage
<1>3. ConnectionsInv'
  BY <1>1 DEF OutageInv, ConnectionsInv
<1>4. RecordInv'
  <2>1. connectionID' # NoConn
    BY <1>1
  <2> QED
    BY <1>1, <2>1, Zenon DEF RecordInv
<1>5. QueueInv' /\ SweepInv'
  BY <1>1, <1>2, SweepKept DEF QueueInv, OutageInv, TypeOK, TypeEnv
<1>6. RecoveryMatchesReport' /\ PendingTracked'
  BY <1>1, Zenon DEF RecoveryMatchesReport, RecoveryDue, PendingTracked
<1> QED
  BY <1>0, <1>3, <1>4, <1>5, <1>6 DEF OutageInv

\* The critical section that marks an outage: only a connection on record as
\* existing can be marked, so nothing has been claimed for it.
LEMMA MarkOutageInv ==
    ASSUME OutageInv, NEW c \in Conns, OfflineMark(c)
    PROVE  OutageInv'
<1>0. TypeOK'
  BY NextTypeOK DEF OutageInv, Next, OfflineGoroutine
<1>1. /\ ~pendingOfflineSince /\ connectionID = c
      /\ pendingOfflineSince' /\ ~isConnExist'
      /\ UNCHANGED <<envVars, isFirstConnection, connectionID, outageReported, sweep, stale>>
  BY DEF OfflineMark
<1>2. PICK to \in {"grace", "done"} :
        /\ offlineStep(c, "decided", to)
        /\ to = "done" => deferOfflineAlert(c, DeferralEnd(c))
        /\ to = "grace" => UNCHANGED deferred
  BY DEF OfflineMark
<1>3. /\ offline[c].pc = "decided" /\ offline'[c].pc = to /\ offline'[c].since = offline[c].since
      /\ \A d \in Conns : d # c => offline'[d] = offline[d]
  BY <1>2, OfflineStepMoves DEF OutageInv
<1>4. isConnExist /\ ~outageReported
  BY <1>1, <1>3 DEF OutageInv, RecordInv, RecoveryMatchesReport, RecoveryDue
<1>5. DoneKept /\ ConnectionsInv'
  BY <1>1, <1>3, OfflineMoves DEF DoneKept, IsCurrentOutage
<1>6. RecordInv'
  <2>1. \A d \in Conns : connectionID' = d => offline'[d].pc \in {"grace", "done"}
    BY <1>1, <1>3
  <2>2. isFirstConnection' <=> connectionID' = NoConn
    BY <1>1 DEF OutageInv, RecordInv
  <2> QED
    BY <1>1, <2>1, <2>2, Zenon DEF RecordInv
<1>7. QueueInv'
  <2>1. CASE to = "grace"
    BY <1>2, <1>5, <2>1, QueueKept DEF OutageInv
  <2>2. CASE to = "done"
    <3>1. offline[c].until \in Nat /\ offline[c].since \in Nat /\ deferred.deliverAt \in Nat
      BY DEF OutageInv, TypeOK, TypeProcesses, TypeState, OfflineStates
    <3>2. DeferralEnd(c) \in Nat /\ offline[c].since + GracePeriod <= DeferralEnd(c)
      BY <3>1, LaterOfNat DEF DeferralEnd
    <3>3. LaterOf(deferred.deliverAt, DeferralEnd(c)) >= DeferralEnd(c)
          /\ LaterOf(deferred.deliverAt, DeferralEnd(c)) \in Nat
      BY <3>1, <3>2, LaterOfNat
    <3>4. /\ deferred'.conn = c
          /\ deferred'.deliverAt = LaterOf(deferred.deliverAt, DeferralEnd(c))
      BY <1>2, <2>2 DEF deferOfflineAlert
    <3>5. offline[c].since + GracePeriod <= deferred'.deliverAt
      BY <3>1, <3>2, <3>3, <3>4
    <3> QED
      BY <1>3, <2>2, <3>4, <3>5 DEF QueueInv, Queued
  <2> QED
    BY <2>1, <2>2
<1>8. SweepInv'
  BY <1>1, <1>5, SweepKept DEF OutageInv, TypeOK, TypeEnv
<1>9. RecoveryMatchesReport' /\ PendingTracked'
  <2>1. RecoveryMatchesReport'
    BY <1>1, <1>4 DEF RecoveryMatchesReport, RecoveryDue
  <2>2. offline'[c].pc = "grace" \/ deferred'.conn = c
    BY <1>2, <1>3 DEF deferOfflineAlert
  <2> QED
    BY <1>1, <2>1, <2>2 DEF PendingTracked
<1> QED
  BY <1>0, <1>5, <1>6, <1>7, <1>8, <1>9 DEF OutageInv

\* The end of the grace period: the alert is handed to a window, or claimed.
LEMMA GraceOutageInv ==
    ASSUME OutageInv, NEW c \in Conns, GraceDefer(c) \/ GraceClaim(c)
    PROVE  OutageInv'
<1>0. TypeOK'
  BY NextTypeOK DEF OutageInv, Next, OfflineGoroutine
<1>1. /\ GraceOver(c) /\ IsCurrentOutage(c) /\ offlineStep(c, "grace", "done")
      /\ UNCHANGED <<envVars, isFirstConnection, connectionID, sweep, stale>>
      /\ isConnExist' => isConnExist
      /\ pendingOfflineSince' => pendingOfflineSince
  BY DEF GraceDefer, GraceClaim, ClaimOutage
<1>2. /\ offline[c].pc = "grace" /\ offline'[c].pc = "done"
      /\ offline'[c].since = offline[c].since
      /\ \A d \in Conns : d # c => offline'[d] = offline[d]
  BY <1>1, OfflineStepMoves DEF OutageInv
<1>3. DoneKept /\ ConnectionsInv'
  BY <1>1, <1>2, OfflineMoves DEF DoneKept, IsCurrentOutage
<1>4. pendingOfflineSince /\ connectionID = c /\ ~isConnExist
  BY <1>1 DEF IsCurrentOutage, OutageInv, RecordInv
<1>5. RecordInv'
  <2>1. \A d \in Conns : connectionID' = d => offline'[d].pc \in {"grace", "done"}
    BY <1>1, <1>2, <1>4
  <2>2. isFirstConnection' <=> connectionID' = NoConn
    BY <1>1 DEF OutageInv, RecordInv
  <2> QED
    BY <1>1, <1>4, <2>1, <2>2, Zenon DEF RecordInv
<1>6. SweepInv'
  BY <1>1, <1>3, SweepKept DEF OutageInv, TypeOK, TypeEnv
<1>7. CASE GraceDefer(c)
  <2>1. PICK at \in DeliverAt(now, Node, windows) : deferOfflineAlert(c, at)
    BY <1>7 DEF GraceDefer
  <2>2. /\ now \in Nat /\ windows \in WindowSets /\ offline[c].since \in Nat
        /\ deferred.deliverAt \in Nat
    BY DEF OutageInv, TypeOK, TypeProcesses, TypeEnv, TypeState, OfflineStates
  <2>3. at \in Nat /\ offline[c].since + GracePeriod <= at
    BY <1>1, <2>2, DeferralIsLater DEF GraceOver
  <2>4. deferred'.conn = c /\ deferred'.deliverAt = LaterOf(deferred.deliverAt, at)
    BY <2>1 DEF deferOfflineAlert
  <2>5. offline[c].since + GracePeriod <= deferred'.deliverAt
    <3>1. LaterOf(deferred.deliverAt, at) \in Nat /\ LaterOf(deferred.deliverAt, at) >= at
      BY <2>2, <2>3, LaterOfNat
    <3> QED
      BY <2>2, <2>3, <2>4, <3>1
  <2>6. QueueInv'
    BY <1>2, <2>4, <2>5 DEF QueueInv, Queued
  <2>7. RecoveryMatchesReport'
    BY <1>7 DEF GraceDefer, OutageInv, RecoveryMatchesReport, RecoveryDue
  <2>8. PendingTracked'
    BY <1>1, <1>4, <2>4 DEF PendingTracked
  <2> QED
    BY <1>0, <1>3, <1>5, <1>6, <2>6, <2>7, <2>8 DEF OutageInv
<1>8. CASE GraceClaim(c)
  <2>1. ~pendingOfflineSince' /\ outageReported' /\ ~isConnExist' /\ UNCHANGED deferred
    BY <1>8 DEF GraceClaim, ClaimOutage
  <2>2. ~isFirstConnection'
    BY <1>1, <1>4 DEF OutageInv, RecordInv
  <2>3. RecoveryMatchesReport' /\ PendingTracked'
    BY <2>1, <2>2, Zenon DEF RecoveryMatchesReport, RecoveryDue, PendingTracked
  <2> QED
    BY <1>0, <1>3, <1>5, <1>6, <2>1, <2>3, QueueKept DEF OutageInv
<1> QED
  BY <1>7, <1>8
-----------------------------------------------------------------------------
\* The outage of connection e is pending after the step.
PendingAfter(e) == pendingOfflineSince' /\ connectionID' = e

\* A sweep that goes on, or gives up, with the entry it is about.
LEMMA SweepAdvances ==
    ASSUME OutageInv, DoneKept, UNCHANGED now, NEW s \in Sweepers,
           NEW from \in {"check", "window", "claim", "send", "forget"},
           NEW to \in {"idle", "window", "claim", "send", "forget"},
           sweepStep(s, from, to),
           to # "idle" => sweep[s].deliverAt <= sweep[s].now,
           to \in {"send", "forget"} => ~PendingAfter(sweep[s].conn)
    PROVE  SweepInv'
<1>1. sweep \in [Sweepers -> SweepStates] /\ SweepOK(s) /\ sweep[s].pc = from
  BY DEF OutageInv, TypeOK, TypeProcesses, SweepInv, sweepStep
<1> DEFINE r == IF to = "idle" THEN Idle ELSE [sweep[s] EXCEPT !.pc = to]
<1>2. sweep' = [sweep EXCEPT ![s] = r] /\ sweep'[s] = r
  BY <1>1 DEF sweepStep
<1>3. SweepOK(s)'
  <2>1. CASE to = "idle"
    BY <1>2, <2>1 DEF SweepOK, Idle
  <2>2. CASE to # "idle"
    <3>1. /\ r.pc = to /\ r.conn = sweep[s].conn /\ r.now = sweep[s].now
          /\ r.deliverAt = sweep[s].deliverAt
      BY <1>1, <2>2 DEF SweepStates
    <3>2. Queued(sweep[s].conn, sweep[s].deliverAt) /\ sweep[s].now <= now
      BY <1>1 DEF SweepOK
    <3>3. offline[sweep[s].conn] = offline'[sweep[s].conn]
      BY <3>2 DEF DoneKept, Queued
    <3>4. Queued(sweep[s].conn, sweep[s].deliverAt)'
      BY <1>2, <3>1, <3>2, <3>3 DEF Queued
    <3>5. to \in {"send", "forget"} => ~IsCurrentOutage(sweep[s].conn)'
      BY <1>2, <3>1 DEF IsCurrentOutage, PendingAfter
    <3> QED
      BY <1>2, <3>1, <3>2, <3>4, <3>5, <2>2 DEF SweepOK
  <2> QED
    BY <2>1, <2>2
<1> HIDE DEF r
<1> QED
  BY <1>2, <1>3, SweepMoved DEF OutageInv

\* Sweep steps that change nothing but the sweep.
LEMMA SweepReadsOutageInv ==
    ASSUME OutageInv, NEW s \in Sweepers,
           \/ SweepBegin(s) \/ SweepNotDue(s) \/ SweepCheck(s) \/ SweepWindowClear(s)
           \/ SweepSuperseded(s) \/ SweepSend(s)
    PROVE  OutageInv'
<1>0. TypeOK'
  BY NextTypeOK DEF OutageInv, Next, Sweep
<1>1. UNCHANGED <<envVars, offline, stateVars, outageReported, deferred, stale>>
  BY DEF SweepBegin, SweepNotDue, SweepCheck, SweepWindowClear, SweepSuperseded, SweepSend,
         SweepSendEnds
<1>2. DoneKept /\ RecordInv' /\ RecoveryMatchesReport' /\ PendingTracked' /\ QueueInv'
  BY <1>1, RecordKept, NoticesKept, QueueKept DEF OutageInv
<1>3. ConnectionsInv'
  BY <1>1 DEF OutageInv, ConnectionsInv
<1>4. SweepOK(s) /\ sweep[s] \in SweepStates
  BY DEF OutageInv, SweepInv, TypeOK, TypeProcesses
<1>6. PendingAfter(sweep[s].conn) <=> IsCurrentOutage(sweep[s].conn)
  BY <1>1 DEF IsCurrentOutage, PendingAfter
<1>7. ~StillOffline(sweep[s].conn) => ~IsCurrentOutage(sweep[s].conn)
  BY DEF StillOffline, IsCurrentOutage, OutageInv, RecordInv
<1>8. SweepInv'
  <2>1. CASE SweepBegin(s)
    <3> DEFINE r == [pc |-> "check", now |-> now, conn |-> deferred.conn,
                     deliverAt |-> deferred.deliverAt]
    <3>1. sweep' = [sweep EXCEPT ![s] = r] /\ deferred # NoAlert /\ sweep'[s] = r
      BY <2>1 DEF SweepBegin, OutageInv, TypeOK, TypeProcesses
    <3>2. Queued(deferred.conn, deferred.deliverAt)'
      BY <1>1, <3>1 DEF OutageInv, QueueInv, Queued
    <3>3. SweepOK(s)'
      BY <1>1, <3>1, <3>2 DEF SweepOK, Queued, OutageInv, TypeOK, TypeEnv
    <3> HIDE DEF r
    <3> QED
      BY <1>1, <1>2, <3>1, <3>3, SweepMoved DEF OutageInv
  <2>2. CASE SweepNotDue(s)
    BY <1>1, <1>2, <2>2, SweepAdvances DEF SweepNotDue
  <2>3. CASE SweepCheck(s)
    <3>1. sweep[s].deliverAt <= sweep[s].now
      BY <2>3 DEF SweepCheck, ShouldDeliverDeferred
    <3>2. CASE StillOffline(sweep[s].conn)
      BY <1>1, <1>2, <2>3, <3>1, <3>2, SweepAdvances DEF SweepCheck
    <3>3. CASE ~StillOffline(sweep[s].conn)
      BY <1>1, <1>2, <1>6, <1>7, <2>3, <3>1, <3>3, SweepAdvances DEF SweepCheck
    <3> QED
      BY <3>2, <3>3
  <2>4. CASE SweepWindowClear(s)
    <3>1. sweep[s].pc = "window" => sweep[s].deliverAt <= sweep[s].now
      BY <1>4 DEF SweepOK
    <3>2. sweep[s].pc = "window"
      BY <2>4 DEF SweepWindowClear, sweepStep
    <3>3. PICK to \in {"claim", "idle"} : sweepStep(s, "window", to)
      BY <2>4 DEF SweepWindowClear
    <3> QED
      BY <1>1, <1>2, <3>1, <3>2, <3>3, SweepAdvances
  <2>5. CASE SweepSuperseded(s)
    <3>1. sweep[s].pc = "claim" /\ sweepStep(s, "claim", "forget")
      BY <2>5 DEF SweepSuperseded, sweepStep
    <3>2. sweep[s].deliverAt <= sweep[s].now
      BY <1>4, <3>1 DEF SweepOK
    <3>3. ~PendingAfter(sweep[s].conn)
      BY <1>6, <1>7, <2>5 DEF SweepSuperseded
    <3> QED
      BY <1>1, <1>2, <3>1, <3>2, <3>3, SweepAdvances
  <2>6. CASE SweepSend(s)
    <3>1. PICK to \in {"forget", "idle"} : sweepStep(s, "send", to)
      BY <2>6 DEF SweepSend, SweepSendEnds
    <3>2. sweep[s].pc = "send"
      BY <3>1 DEF sweepStep
    <3>3. sweep[s].deliverAt <= sweep[s].now /\ ~PendingAfter(sweep[s].conn)
      BY <1>4, <1>6, <3>2 DEF SweepOK
    <3> QED
      BY <1>1, <1>2, <3>1, <3>3, SweepAdvances
  <2> QED
    BY <2>1, <2>2, <2>3, <2>4, <2>5, <2>6
<1> QED
  BY <1>0, <1>2, <1>3, <1>8 DEF OutageInv

\* The entry is dropped, or handed to the next window.
LEMMA SweepEndsOutageInv ==
    ASSUME OutageInv, NEW s \in Sweepers, SweepStale(s) \/ SweepRequeue(s) \/ SweepForget(s)
    PROVE  OutageInv'
<1>0. TypeOK'
  BY NextTypeOK DEF OutageInv, Next, Sweep
<1>1. UNCHANGED <<envVars, offline, stateVars, outageReported>>
  BY DEF SweepStale, SweepRequeue, SweepForget
<1>2. DoneKept /\ RecordInv' /\ ConnectionsInv'
  BY <1>1, RecordKept DEF OutageInv, ConnectionsInv
<1>3. RecoveryMatchesReport'
  BY <1>1 DEF OutageInv, RecoveryMatchesReport, RecoveryDue
<1>4. SweepOK(s) /\ sweep[s] \in SweepStates
  BY DEF OutageInv, SweepInv, TypeOK, TypeProcesses
<1>5. PICK from \in {"check", "window", "forget"} :
        sweepStep(s, from, "idle") /\ sweep[s].pc = from
  BY DEF SweepStale, SweepRequeue, SweepForget, sweepStep
<1>6. SweepInv'
  BY <1>1, <1>2, <1>5, SweepAdvances
<1>7. Queued(sweep[s].conn, sweep[s].deliverAt)
  BY <1>4, <1>5 DEF SweepOK
<1>8. CASE SweepStale(s)
  <2>1. /\ \/ deferred' = NoAlert /\ deferred.conn = sweep[s].conn
           \/ UNCHANGED deferred
        /\ stale' = stale \cup {c \in {sweep[s].conn} : deferred.conn = c}
    BY <1>8 DEF SweepStale, forgetDeferredAlertIfCurrent
  <2>2. QueueInv'
    BY <1>1, <2>1 DEF OutageInv, QueueInv, Queued
  <2>3. PendingTracked'
    BY <1>1, <2>1 DEF OutageInv, PendingTracked
  <2> QED
    BY <1>0, <1>2, <1>3, <1>6, <2>2, <2>3 DEF OutageInv
<1>9. CASE SweepForget(s)
  <2>1. /\ \/ deferred' = NoAlert /\ deferred.conn = sweep[s].conn
           \/ UNCHANGED deferred
        /\ UNCHANGED stale
    BY <1>9 DEF SweepForget, forgetDeferredAlertIfCurrent
  <2>2. QueueInv'
    BY <1>1, <2>1 DEF OutageInv, QueueInv, Queued
  <2>3. sweep[s].pc = "forget"
    BY <1>9 DEF SweepForget, sweepStep
  <2>4. ~IsCurrentOutage(sweep[s].conn)
    BY <1>4, <2>3 DEF SweepOK
  <2>5. PendingTracked'
    BY <1>1, <2>1, <2>4 DEF OutageInv, PendingTracked, IsCurrentOutage
  <2> QED
    BY <1>0, <1>2, <1>3, <1>6, <2>2, <2>5 DEF OutageInv
<1>10. CASE SweepRequeue(s)
  <2>1. PICK at \in DeliverAt(sweep[s].now, Node, windows) :
              requeueDeferredAlert(sweep[s].conn, at)
    BY <1>10 DEF SweepRequeue
  <2>2. UNCHANGED stale /\ sweep[s].pc = "window"
    BY <1>10 DEF SweepRequeue, sweepStep
  <2>3. at \in Nat /\ sweep[s].now < at /\ sweep[s].deliverAt <= sweep[s].now
    BY <1>4, <2>2, DeferralIsLater DEF SweepOK, SweepStates, OutageInv, TypeOK, TypeEnv
  <2>4. offline[sweep[s].conn].since + GracePeriod <= at
    BY <1>4, <1>7, <2>3 DEF Queued, SweepStates, OutageInv, TypeOK, TypeProcesses, OfflineStates
  <2>5. \/ /\ deferred' = [conn |-> sweep[s].conn, deliverAt |-> at]
           /\ deferred.conn = sweep[s].conn
        \/ UNCHANGED deferred
    BY <2>1 DEF requeueDeferredAlert
  <2>6. QueueInv'
    BY <1>1, <1>7, <2>4, <2>5 DEF OutageInv, QueueInv, Queued
  <2>7. deferred'.conn = deferred.conn
    BY <2>5
  <2>8. PendingTracked'
    BY <1>1, <2>2, <2>7 DEF OutageInv, PendingTracked
  <2> QED
    BY <1>0, <1>2, <1>3, <1>6, <2>6, <2>8 DEF OutageInv
<1> QED
  BY <1>8, <1>9, <1>10

\* The claim of a deferred alert.
LEMMA SweepClaimOutageInv ==
    ASSUME OutageInv, NEW s \in Sweepers, SweepClaim(s)
    PROVE  OutageInv'
<1>0. TypeOK'
  BY NextTypeOK DEF OutageInv, Next, Sweep
<1>1. /\ StillOffline(sweep[s].conn) /\ sweepStep(s, "claim", "send") /\ sweep[s].pc = "claim"
      /\ ~pendingOfflineSince' /\ outageReported'
      /\ UNCHANGED <<envVars, offline, isFirstConnection, isConnExist, connectionID,
                     deferred, stale>>
  BY DEF SweepClaim, ClaimOutage, sweepStep
<1>2. SweepOK(s)
  BY DEF OutageInv, SweepInv
<1>3. /\ connectionID = sweep[s].conn /\ sweep[s].conn \in Conns /\ ~isConnExist
      /\ sweep[s].deliverAt <= sweep[s].now
  BY <1>1, <1>2 DEF StillOffline, SweepOK, Queued
<1>4. DoneKept /\ ConnectionsInv' /\ QueueInv'
  BY <1>1 DEF DoneKept, IsCurrentOutage, OutageInv, ConnectionsInv, QueueInv, Queued
<1>5. RecordInv'
  <2>1. \A c \in Conns : connectionID' = c => offline'[c].pc \in {"grace", "done"}
    BY <1>1, <1>3 DEF OutageInv, RecordInv
  <2>2. isFirstConnection' <=> connectionID' = NoConn
    BY <1>1 DEF OutageInv, RecordInv
  <2> QED
    BY <1>1, <2>1, <2>2, Zenon DEF RecordInv
<1>6. SweepInv'
  BY <1>1, <1>3, <1>4, SweepAdvances DEF PendingAfter
<1>7. RecoveryMatchesReport' /\ PendingTracked'
  <2>1. ~isFirstConnection' /\ ~isConnExist'
    BY <1>1, <1>3 DEF OutageInv, RecordInv
  <2> QED
    BY <1>1, <2>1, Zenon DEF RecoveryMatchesReport, RecoveryDue, PendingTracked
<1> QED
  BY <1>0, <1>4, <1>5, <1>6, <1>7 DEF OutageInv
-----------------------------------------------------------------------------
\* The outage invariant is inductive.
LEMMA NextOutageInv == OutageInv /\ [Next]_vars => OutageInv'
<1>1. ASSUME OutageInv, UNCHANGED vars PROVE OutageInv'
  <2>1. TypeOK'
    BY <1>1, NextTypeOK DEF OutageInv
  <2>2. UNCHANGED <<envVars, offline, stateVars, outageReported, deferred, stale, sweep>>
    BY <1>1 DEF vars
  <2>3. DoneKept /\ RecordInv' /\ RecoveryMatchesReport' /\ PendingTracked'
    BY <1>1, <2>2, RecordKept, NoticesKept
  <2>4. QueueInv' /\ SweepInv' /\ ConnectionsInv'
    BY <1>1, <2>2, <2>3, QueueKept, SweepKept
    DEF OutageInv, ConnectionsInv, TypeOK, TypeEnv
  <2> QED
    BY <2>1, <2>3, <2>4 DEF OutageInv
<1>2. ASSUME OutageInv, Transport PROVE OutageInv'
  BY <1>2, EnvOutageInv, EndOutageInv DEF Transport
<1>3. ASSUME OutageInv, NEW c \in Conns, OnlineGoroutine(c) \/ OfflineGoroutine(c)
      PROVE  OutageInv'
  BY <1>3, EnvOutageInv, OnlineOutageInv, QuietOutageInv, MarkOutageInv, GraceOutageInv
  DEF OnlineGoroutine, OfflineGoroutine
<1>4. ASSUME OutageInv, NEW s \in Sweepers, Sweep(s) PROVE OutageInv'
  BY <1>4, SweepReadsOutageInv, SweepEndsOutageInv, SweepClaimOutageInv DEF Sweep
<1> QED
  BY <1>1, <1>2, <1>3, <1>4, EnvOutageInv DEF Next

\* The outage invariant holds in every reachable state.
LEMMA OutageInvariant == Spec => []OutageInv
  BY InitOutageInv, NextOutageInv, PTL DEF Spec

(***************************************************************************)
(* The next connection is announced as a recovery exactly when the outage  *)
(* before it was claimed for reporting: offline.go's marker and the        *)
(* sweeper's claim agree in every interleaving.                            *)
(***************************************************************************)
THEOREM RecoveryIsTruthful == Spec => []RecoveryMatchesReport
<1>1. OutageInv => RecoveryMatchesReport
  BY DEF OutageInv
<1> QED
  BY <1>1, OutageInvariant, PTL

(***************************************************************************)
(* A pending outage is carried by its grace goroutine or by the deferred   *)
(* queue until it is reported, cancelled or stale: no number of            *)
(* overlapping sweeps loses it.                                            *)
(***************************************************************************)
THEOREM NoOutageIsLost == Spec => []PendingTracked
<1>1. OutageInv => PendingTracked
  BY DEF OutageInv
<1> QED
  BY <1>1, OutageInvariant, PTL

\* An outage is claimed by its grace goroutine, or by a sweep that handles it.
LEMMA ClaimIsGraceOrSweep ==
    ASSUME OutageInv, [Next]_vars, NEW c \in Conns, Claims(c)
    PROVE  GraceClaim(c) \/ \E s \in Sweepers : SweepClaim(s) /\ sweep[s].conn = c
<1>1. claimed \in [Conns -> Nat] /\ claimed' # claimed /\ Next
  BY DEF OutageInv, TypeOK, TypeNotices, Claims, vars
<1>2. ASSUME Tick \/ EditWindows \/ Transport \/ Deliver PROVE UNCHANGED claimed
  BY <1>2
  DEF Tick, EditWindows, Transport, Deliver, WebSocketOpen, WebSocketClose, PostFirst,
      PostExpire, EndConn, PostRefresh, ResetClientState
<1>3. ASSUME NEW d \in Conns, OnlineGoroutine(d) \/ OfflineGoroutine(d), ~GraceClaim(d)
      PROVE  UNCHANGED claimed
  BY <1>3
  DEF OnlineGoroutine, OfflineGoroutine, OnlineLookupFails, OnlineNotification,
      OfflineNotEnabled, OfflineDecide, OfflineIgnored, OfflineMark, GraceSuperseded,
      GraceDefer
<1>4. ASSUME NEW s \in Sweepers, Sweep(s), ~SweepClaim(s) PROVE UNCHANGED claimed
  BY <1>4
  DEF Sweep, SweepBegin, SweepNotDue, SweepStale, SweepCheck, SweepRequeue,
      SweepWindowClear, SweepSuperseded, SweepSend, SweepSendEnds, SweepForget
<1>5. ASSUME NEW d \in Conns, GraceClaim(d) PROVE d = c
  BY <1>1, <1>5 DEF GraceClaim, ClaimOutage, Claims
<1>6. ASSUME NEW s \in Sweepers, SweepClaim(s) PROVE sweep[s].conn = c
  BY <1>1, <1>6 DEF SweepClaim, ClaimOutage, Claims
<1> QED
  BY <1>1, <1>2, <1>3, <1>4, <1>5, <1>6 DEF Next

(***************************************************************************)
(* No alert is claimed before the grace period of its outage has passed,   *)
(* whether it came from the grace goroutine or from the deferred queue.    *)
(***************************************************************************)
THEOREM GraceIsRespected == Spec => GraceRespected
<1>1. ASSUME OutageInv, [Next]_vars
      PROVE  [\A c \in Conns : Claims(c) => now >= offline[c].since + GracePeriod]_vars
  <2> SUFFICES ASSUME NEW c \in Conns, Claims(c)
               PROVE  now >= offline[c].since + GracePeriod
    OBVIOUS
  <2>1. CASE GraceClaim(c)
    BY <2>1 DEF GraceClaim, GraceOver
  <2>2. ASSUME NEW s \in Sweepers, SweepClaim(s), sweep[s].conn = c
        PROVE  now >= offline[c].since + GracePeriod
    <3>1. sweep[s].pc = "claim"
      BY <2>2 DEF SweepClaim, sweepStep
    <3>2. /\ offline[c].since + GracePeriod <= sweep[s].deliverAt
          /\ sweep[s].deliverAt <= sweep[s].now /\ sweep[s].now <= now
      BY <1>1, <2>2, <3>1 DEF OutageInv, SweepInv, SweepOK, Queued
    <3>3. /\ offline[c].since \in Nat /\ sweep[s].deliverAt \in Nat /\ sweep[s].now \in Nat
          /\ now \in Nat
      BY <1>1 DEF OutageInv, TypeOK, TypeProcesses, TypeEnv, OfflineStates, SweepStates
    <3> QED
      BY <3>2, <3>3
  <2> QED
    BY <1>1, <2>1, <2>2, ClaimIsGraceOrSweep
<1> QED
  BY <1>1, OutageInvariant, PTL DEF Spec, GraceRespected
-----------------------------------------------------------------------------
(***************************************************************************)
(* One notice per outage.  An outage has one carrier: its grace goroutine, *)
(* the sender goroutine of its notice, or its entry in the queue with the  *)
(* sweep that handles it.  A sweep that has sent the notice goes on to     *)
(* drop the entry.  With a second sweep at work on the same entry this     *)
(* fails, so the theorem is about sweeps that do not overlap.              *)
(***************************************************************************)
SweepsDoNotOverlap == \A s, t \in Sweepers : s = t

Handles(s, c) == sweep[s].pc # "idle" /\ sweep[s].conn = c

Handed(c) == [event |-> "offline", conn |-> c] \in outbox

\* Once its notice is accepted, the only thing left of an outage is the entry
\* that the sweep is about to drop.
ReportedOnce(c) ==
    delivered[c] # 0 =>
        /\ delivered[c] = 1 /\ offline[c].pc = "done" /\ ~Handed(c)
        /\ \A s \in Sweepers : Handles(s, c) => sweep[s].pc = "forget"
        /\ deferred.conn = c => \E s \in Sweepers : Handles(s, c)

\* A notice with a sender goroutine is about an outage no sweep will see.
HandedOnce(c) ==
    Handed(c) =>
        /\ offline[c].pc = "done" /\ deferred.conn # c
        /\ \A s \in Sweepers : ~Handles(s, c)

ReportInv == \A c \in Conns : ReportedOnce(c) /\ HandedOnce(c)

\* Nothing is reported at the start.
LEMMA InitReportInv == Init => ReportInv
  BY DEF Init, ReportInv, ReportedOnce, HandedOnce, Handed

\* A step that hands out nothing, and moves neither an alert nor a sweep.
LEMMA ReportKept ==
    ASSUME ReportInv, DoneKept, UNCHANGED <<deferred, sweep, outbox, delivered>>
    PROVE  ReportInv'
<1>1. \A c \in Conns : Handed(c)' <=> Handed(c)
  BY DEF Handed
<1>2. \A c \in Conns : \A s \in Sweepers : Handles(s, c)' <=> Handles(s, c)
  BY DEF Handles
<1> QED
  BY <1>1, <1>2 DEF ReportInv, ReportedOnce, HandedOnce, DoneKept

\* An outage whose offline call is under way has been reported by nobody, is in
\* no queue, and no sweep handles it.
LEMMA NotYetReported ==
    ASSUME OutageInv, ReportInv, NEW c \in Conns, offline[c].pc # "done"
    PROVE  /\ delivered[c] = 0 /\ ~Handed(c) /\ deferred.conn # c
           /\ \A s \in Sweepers : ~Handles(s, c)
  BY DEF ReportInv, ReportedOnce, HandedOnce, Handles, OutageInv, QueueInv, Queued, SweepInv,
         SweepOK, NoAlert

\* Only offline[c] moves, from a call under way; the queue may get its alert.
LEMMA OwnAlertKeepsReport ==
    ASSUME OutageInv, ReportInv, NEW c \in Conns, offline[c].pc # "done",
           \A d \in Conns : d # c => offline'[d] = offline[d],
           deferred'.conn \in {c, deferred.conn}, UNCHANGED <<sweep, outbox, delivered>>
    PROVE  ReportInv'
<1>1. /\ delivered[c] = 0 /\ ~Handed(c) /\ \A s \in Sweepers : ~Handles(s, c)
  BY NotYetReported
<1> SUFFICES ASSUME NEW d \in Conns PROVE (ReportedOnce(d) /\ HandedOnce(d))'
  BY DEF ReportInv
<1>2. CASE d = c
  BY <1>1, <1>2 DEF ReportedOnce, HandedOnce, Handed, Handles
<1>3. CASE d # c
  BY <1>3 DEF ReportInv, ReportedOnce, HandedOnce, Handed, Handles
<1> QED
  BY <1>2, <1>3

\* The goroutines' steps.
LEMMA GoroutineReportInv ==
    ASSUME OutageInv, ReportInv, NEW c \in Conns, OnlineGoroutine(c) \/ OfflineGoroutine(c)
    PROVE  ReportInv'
<1>1. CASE OnlineLookupFails(c)
  BY <1>1, RecordKept, ReportKept DEF OnlineLookupFails
<1>2. CASE OnlineNotification(c)
  <2>1. /\ deferred' = NoAlert /\ UNCHANGED <<offline, sweep, delivered>>
        /\ \A d \in Conns : Handed(d)' <=> Handed(d)
    BY <1>2 DEF OnlineNotification, Handed
  <2> QED
    BY <2>1 DEF ReportInv, ReportedOnce, HandedOnce, Handles, NoAlert
<1>3. CASE OfflineNotEnabled(c) \/ OfflineIgnored(c) \/ GraceSuperseded(c)
  <2>1. PICK from \in {"ready", "decided", "grace"} :
          offlineStep(c, from, "done") /\ UNCHANGED <<deferred, sweep, outbox, delivered>>
    BY <1>3 DEF OfflineNotEnabled, OfflineIgnored, GraceSuperseded
  <2> QED
    BY <2>1, OfflineStepMoves, OwnAlertKeepsReport DEF OutageInv
<1>4. CASE OfflineDecide(c)
  <2>1. /\ offline[c].pc = "ready" /\ \A d \in Conns : d # c => offline'[d] = offline[d]
        /\ UNCHANGED <<deferred, sweep, outbox, delivered>>
    BY <1>4 DEF OfflineDecide, OutageInv, TypeOK, TypeProcesses
  <2> QED
    BY <2>1, OwnAlertKeepsReport
<1>5. CASE OfflineMark(c)
  <2>1. PICK to \in {"grace", "done"} : offlineStep(c, "decided", to)
    BY <1>5 DEF OfflineMark
  <2>2. deferred'.conn \in {c, deferred.conn} /\ UNCHANGED <<sweep, outbox, delivered>>
    BY <1>5 DEF OfflineMark, deferOfflineAlert
  <2> QED
    BY <2>1, <2>2, OfflineStepMoves, OwnAlertKeepsReport DEF OutageInv
<1>6. CASE GraceDefer(c)
  <2>1. /\ offlineStep(c, "grace", "done") /\ deferred'.conn = c
        /\ UNCHANGED <<sweep, outbox, delivered>>
    BY <1>6 DEF GraceDefer, deferOfflineAlert
  <2> QED
    BY <2>1, OfflineStepMoves, OwnAlertKeepsReport DEF OutageInv
<1>7. CASE GraceClaim(c)
  <2>1. /\ offlineStep(c, "grace", "done") /\ UNCHANGED <<deferred, sweep, delivered>>
        /\ outbox' = outbox \cup {[event |-> "offline", conn |-> c]}
    BY <1>7 DEF GraceClaim
  <2>2. /\ offline[c].pc = "grace" /\ offline'[c].pc = "done"
        /\ \A d \in Conns : d # c => offline'[d] = offline[d]
    BY <2>1, OfflineStepMoves DEF OutageInv
  <2>3. delivered[c] = 0 /\ deferred.conn # c /\ \A s \in Sweepers : ~Handles(s, c)
    BY <2>2, NotYetReported
  <2>4. \A d \in Conns : d # c => (Handed(d)' <=> Handed(d))
    BY <2>1 DEF Handed
  <2>5. ASSUME NEW d \in Conns, d # c PROVE (ReportedOnce(d) /\ HandedOnce(d))'
    BY <2>1, <2>2, <2>4, <2>5 DEF ReportInv, ReportedOnce, HandedOnce, Handles
  <2>6. (ReportedOnce(c) /\ HandedOnce(c))'
    BY <2>1, <2>2, <2>3 DEF ReportedOnce, HandedOnce, Handles
  <2> QED
    BY <2>5, <2>6 DEF ReportInv
<1> QED
  BY <1>1, <1>2, <1>3, <1>4, <1>5, <1>6, <1>7 DEF OnlineGoroutine, OfflineGoroutine

\* A sender goroutine: its notice is accepted, or lost.
LEMMA DeliverReportInv ==
    ASSUME OutageInv, ReportInv, Deliver
    PROVE  ReportInv'
<1>1. PICK m \in outbox : outbox' = outbox \ {m} /\ (Accept(m) \/ UNCHANGED delivered)
  BY DEF Deliver
<1>2. /\ UNCHANGED <<offline, deferred, sweep>> /\ delivered \in [Conns -> Nat]
      /\ m \in [event : {"offline", "online"}, conn : Conns]
  BY DEF Deliver, OutageInv, TypeOK, TypeNotices
<1>3. \A d \in Conns : Handed(d)' => Handed(d)
  BY <1>1 DEF Handed
<1> SUFFICES ASSUME NEW d \in Conns PROVE (ReportedOnce(d) /\ HandedOnce(d))'
  BY DEF ReportInv
<1>4. HandedOnce(d)'
  BY <1>2, <1>3 DEF ReportInv, HandedOnce, Handles
<1>5. CASE m = [event |-> "offline", conn |-> d]
  <2>1. Handed(d) /\ ~Handed(d)'
    BY <1>1, <1>5 DEF Handed
  <2>2. delivered[d] = 0 /\ delivered'[d] \in {0, 1}
    BY <1>1, <1>2, <1>5, <2>1 DEF ReportInv, ReportedOnce, Accept
  <2> QED
    BY <1>2, <1>4, <2>1, <2>2 DEF ReportInv, ReportedOnce, HandedOnce, Handles
<1>6. CASE m # [event |-> "offline", conn |-> d]
  <2>1. delivered'[d] = delivered[d]
    BY <1>1, <1>2, <1>6 DEF Accept
  <2> QED
    BY <1>2, <1>3, <1>4, <2>1 DEF ReportInv, ReportedOnce, Handles
<1> QED
  BY <1>5, <1>6

\* The steps of the only sweep.
LEMMA SweepReportInv ==
    ASSUME SweepsDoNotOverlap, OutageInv, ReportInv, NEW s \in Sweepers, Sweep(s)
    PROVE  ReportInv'
<1>1. /\ \A t \in Sweepers : t = s
      /\ sweep[s] \in SweepStates /\ sweep \in [Sweepers -> SweepStates]
      /\ delivered \in [Conns -> Nat]
  BY DEF SweepsDoNotOverlap, OutageInv, TypeOK, TypeProcesses, TypeNotices
<1>2. UNCHANGED <<offline, outbox>>
  BY DEF Sweep, SweepBegin, SweepNotDue, SweepStale, SweepCheck, SweepRequeue, SweepWindowClear,
         SweepSuperseded, SweepClaim, SweepSend, SweepSendEnds, SweepForget
<1>3. \A c \in Conns : Handed(c)' <=> Handed(c)
  BY <1>2 DEF Handed
<1>4. CASE SweepBegin(s)
  <2>1. /\ sweep[s].pc = "idle" /\ sweep'[s].conn = deferred.conn
        /\ UNCHANGED <<deferred, delivered>>
    BY <1>1, <1>4 DEF SweepBegin
  <2> QED
    BY <1>1, <1>2, <1>3, <2>1 DEF ReportInv, ReportedOnce, HandedOnce, Handles
<1>5. ASSUME NEW from \in {"check", "window", "claim", "send"},
             NEW to \in {"idle", "window", "claim", "send", "forget"},
             sweepStep(s, from, to), UNCHANGED delivered,
             deferred' = NoAlert \/ deferred'.conn = deferred.conn
      PROVE  ReportInv'
  <2>1. sweep[s].pc = from /\ (sweep'[s].pc = "idle" \/ sweep'[s].conn = sweep[s].conn)
    BY <1>1, <1>5 DEF sweepStep, Idle, SweepStates
  <2> SUFFICES ASSUME NEW c \in Conns PROVE (ReportedOnce(c) /\ HandedOnce(c))'
    BY DEF ReportInv
  <2>2. HandedOnce(c)'
    BY <1>1, <1>2, <1>3, <1>5, <2>1 DEF ReportInv, HandedOnce, Handles, NoAlert
  <2>3. delivered[c] # 0 => deferred.conn # c /\ ~Handles(s, c)
    BY <1>1, <2>1 DEF ReportInv, ReportedOnce, Handles
  <2>4. ReportedOnce(c)'
    BY <1>1, <1>2, <1>3, <1>5, <2>1, <2>3 DEF ReportInv, ReportedOnce, Handles, NoAlert
  <2> QED
    BY <2>2, <2>4
<1>6. CASE SweepNotDue(s) \/ SweepStale(s) \/ SweepCheck(s) \/ SweepRequeue(s)
             \/ SweepWindowClear(s) \/ SweepSuperseded(s) \/ SweepClaim(s)
  <2>1. PICK from \in {"check", "window", "claim"},
             to \in {"idle", "window", "claim", "send", "forget"} : sweepStep(s, from, to)
    BY <1>6 DEF SweepNotDue, SweepStale, SweepCheck, SweepRequeue, SweepWindowClear,
                SweepSuperseded, SweepClaim
  <2>2. /\ UNCHANGED delivered
        /\ deferred' = NoAlert \/ deferred'.conn = deferred.conn
    BY <1>6 DEF SweepNotDue, SweepStale, SweepCheck, SweepRequeue, SweepWindowClear,
                SweepSuperseded, SweepClaim, forgetDeferredAlertIfCurrent, requeueDeferredAlert
  <2> QED
    BY <1>5, <2>1, <2>2
<1>7. CASE SweepSend(s)
  <2>1. CASE sweepStep(s, "send", "idle") /\ UNCHANGED delivered
    BY <1>5, <1>7, <2>1 DEF SweepSend, SweepSendEnds
  <2>2. CASE /\ sweepStep(s, "send", "forget")
             /\ Accept([event |-> "offline", conn |-> sweep[s].conn])
    <3>1. PICK c \in Conns : c = sweep[s].conn /\ offline[c].pc = "done"
      BY <2>2 DEF OutageInv, SweepInv, SweepOK, Queued, sweepStep
    <3>2. Handles(s, c) /\ sweep[s].pc = "send"
      BY <2>2, <3>1 DEF sweepStep, Handles
    <3>3. delivered[c] = 0 /\ ~Handed(c)
      BY <3>1, <3>2 DEF ReportInv, ReportedOnce, HandedOnce
    <3>4. /\ sweep'[s].pc = "forget" /\ sweep'[s].conn = c /\ UNCHANGED deferred
          /\ delivered' = [delivered EXCEPT ![c] = delivered[c] + 1]
      BY <1>1, <1>7, <2>2, <3>1 DEF sweepStep, SweepStates, SweepSend, SweepSendEnds, Accept
    <3>5. (ReportedOnce(c) /\ HandedOnce(c))'
      BY <1>1, <1>2, <1>3, <3>1, <3>3, <3>4 DEF ReportedOnce, HandedOnce, Handles
    <3>6. ASSUME NEW d \in Conns, d # c PROVE (ReportedOnce(d) /\ HandedOnce(d))'
      BY <1>1, <1>2, <1>3, <3>2, <3>4, <3>6
      DEF ReportInv, ReportedOnce, HandedOnce, Handles
    <3> QED
      BY <3>5, <3>6 DEF ReportInv
  <2> QED
    BY <1>7, <2>1, <2>2 DEF SweepSend, SweepSendEnds
<1>8. CASE SweepForget(s)
  <2>1. /\ sweep[s].pc = "forget" /\ sweep'[s].pc = "idle" /\ UNCHANGED delivered
        /\ deferred' = IF deferred.conn = sweep[s].conn THEN NoAlert ELSE deferred
    BY <1>1, <1>8 DEF SweepForget, sweepStep, Idle, forgetDeferredAlertIfCurrent
  <2> QED
    BY <1>1, <1>2, <1>3, <2>1 DEF ReportInv, ReportedOnce, HandedOnce, Handles, NoAlert
<1> QED
  BY <1>4, <1>6, <1>7, <1>8 DEF Sweep

\* With sweeps that do not overlap, no step reports an outage twice.
LEMMA NextReportInv ==
    ASSUME SweepsDoNotOverlap
    PROVE  OutageInv /\ ReportInv /\ [Next]_vars => ReportInv'
<1> SUFFICES ASSUME OutageInv, ReportInv, [Next]_vars PROVE ReportInv'
  OBVIOUS
<1>1. CASE UNCHANGED vars
  BY <1>1, ReportKept DEF vars, DoneKept, IsCurrentOutage
<1>2. CASE Tick \/ EditWindows \/ PostRefresh \/ ResetClientState
             \/ \E c \in Conns : WebSocketOpen(c) \/ PostFirst(c)
  <2>1. UNCHANGED <<offline, stateVars, deferred, sweep, outbox, delivered>>
    BY <1>2 DEF Tick, EditWindows, PostRefresh, ResetClientState, WebSocketOpen, PostFirst
  <2> QED
    BY <2>1, RecordKept, ReportKept
<1>3. ASSUME NEW c \in Conns, WebSocketClose(c) \/ PostExpire(c) PROVE ReportInv'
  <2>1. /\ offline' = [offline EXCEPT ![c].pc = "ready"]
        /\ UNCHANGED <<deferred, sweep, outbox, delivered>>
        /\ conn[c] # "ended"
    BY <1>3 DEF WebSocketClose, PostExpire, EndConn, OutageInv, ConnectionsInv
  <2>2. offline[c].pc # "done"
    BY <2>1 DEF OutageInv, ConnectionsInv
  <2>3. \A d \in Conns : d # c => offline'[d] = offline[d]
    BY <2>1 DEF OutageInv, TypeOK, TypeProcesses
  <2> QED
    BY <2>1, <2>2, <2>3, OwnAlertKeepsReport
<1> QED
  BY <1>1, <1>2, <1>3, GoroutineReportInv, DeliverReportInv, SweepReportInv DEF Next, Transport

(***************************************************************************)
(* However often an alert is deferred, re-queued, claimed and sent, the    *)
(* provider accepts one notice of an outage, as long as one sweep ends     *)
(* before the next begins.                                                 *)
(***************************************************************************)
THEOREM OneReport == ASSUME SweepsDoNotOverlap PROVE Spec => []OneReportPerOutage
<1>1. OutageInv /\ ReportInv => OneReportPerOutage
  BY DEF OutageInv, TypeOK, TypeNotices, ReportInv, ReportedOnce, OneReportPerOutage
<1>2. OutageInv /\ ReportInv /\ [Next]_vars => ReportInv'
  BY NextReportInv
<1> QED
  BY <1>1, <1>2, InitReportInv, OutageInvariant, PTL DEF Spec
-----------------------------------------------------------------------------
(***************************************************************************)
(* No alert inside a window.  A sweep takes the clock once, at its start,  *)
(* and reads the schedule later: the theorem is about sweeps during which  *)
(* neither moves (a sender that does not stall).                           *)
(***************************************************************************)
SweepsAreInstant == ~SlowSender

\* A sweep that is about to claim has seen that no window covers the node.
SeenClear(s) ==
    /\ sweep[s].pc # "idle" => sweep[s].now = now
    /\ sweep[s].pc = "claim" => ~Suppressed(now, Node, windows)

ClearInv == \A s \in Sweepers : SeenClear(s)

LEMMA InitClearInv == Init => ClearInv
  BY DEF Init, ClearInv, SeenClear, Idle

\* No step makes a sweep's view stale.
LEMMA NextClearInv ==
    ASSUME SweepsAreInstant
    PROVE  OutageInv /\ ClearInv /\ [Next]_vars => ClearInv'
<1> SUFFICES ASSUME OutageInv, ClearInv, [Next]_vars PROVE ClearInv'
  OBVIOUS
<1>1. ASSUME UNCHANGED <<now, windows, sweep>> PROVE ClearInv'
  BY <1>1 DEF ClearInv, SeenClear
<1>2. CASE Tick \/ EditWindows
  BY <1>2 DEF Tick, EditWindows, MayPassDuringSweep, SweepsAreInstant, ClearInv, SeenClear
<1>3. CASE Transport \/ Deliver \/ UNCHANGED vars
  BY <1>1, <1>3
  DEF Transport, Deliver, WebSocketOpen, WebSocketClose, PostFirst, PostExpire, EndConn,
      NewConn, PostRefresh, ResetClientState, vars
<1>4. ASSUME NEW c \in Conns, OnlineGoroutine(c) \/ OfflineGoroutine(c)
      PROVE  UNCHANGED <<now, windows, sweep>>
  BY <1>4
  DEF OnlineGoroutine, OfflineGoroutine, OnlineLookupFails, OnlineNotification,
      OfflineNotEnabled, OfflineDecide, OfflineIgnored, OfflineMark, GraceSuperseded,
      GraceDefer, GraceClaim
<1>5. ASSUME NEW s \in Sweepers, Sweep(s) PROVE ClearInv'
  <2>1. UNCHANGED <<now, windows>>
    BY <1>5 DEF Sweep, SweepBegin, SweepNotDue, SweepStale, SweepCheck, SweepRequeue,
                SweepWindowClear, SweepSuperseded, SweepClaim, SweepSend, SweepSendEnds, SweepForget
  <2>2. sweep \in [Sweepers -> SweepStates] /\ SeenClear(s)
    BY DEF OutageInv, TypeOK, TypeProcesses, ClearInv
  <2>3. ASSUME NEW r, sweep' = [sweep EXCEPT ![s] = r], SeenClear(s)' PROVE ClearInv'
    <3> SUFFICES ASSUME NEW t \in Sweepers, t # s PROVE SeenClear(t)'
      BY <2>3 DEF ClearInv
    <3>1. sweep'[t] = sweep[t]
      BY <2>2, <2>3
    <3> QED
      BY <2>1, <3>1 DEF ClearInv, SeenClear
  <2>4. ASSUME NEW from, NEW to, sweepStep(s, from, to), from # "idle",
               to = "claim" => ~Suppressed(sweep[s].now, Node, windows)
        PROVE  ClearInv'
    <3>1. PICK r : /\ sweep' = [sweep EXCEPT ![s] = r]
                   /\ r = IF to = "idle" THEN Idle ELSE [sweep[s] EXCEPT !.pc = to]
      BY <2>4 DEF sweepStep
    <3>2. sweep'[s] = r /\ r.pc = to /\ (to # "idle" => r.now = sweep[s].now)
      BY <2>2, <3>1 DEF Idle, SweepStates
    <3>3. sweep[s].now = now
      BY <2>2, <2>4 DEF sweepStep, SeenClear
    <3>4. SeenClear(s)'
      BY <2>1, <2>4, <3>2, <3>3 DEF SeenClear
    <3> QED
      BY <2>3, <3>1, <3>4
  <2>5. CASE SweepBegin(s)
    <3> DEFINE r == [pc |-> "check", now |-> now, conn |-> deferred.conn,
                     deliverAt |-> deferred.deliverAt]
    <3>1. sweep' = [sweep EXCEPT ![s] = r] /\ sweep'[s] = r
      BY <2>2, <2>5 DEF SweepBegin
    <3>2. SeenClear(s)'
      BY <2>1, <3>1 DEF SeenClear
    <3> HIDE DEF r
    <3> QED
      BY <2>3, <3>1, <3>2
  <2>6. CASE SweepWindowClear(s)
    BY <2>4, <2>6 DEF SweepWindowClear
  <2>7. CASE SweepNotDue(s) \/ SweepStale(s) \/ SweepCheck(s) \/ SweepRequeue(s)
               \/ SweepSuperseded(s) \/ SweepClaim(s) \/ SweepSend(s) \/ SweepForget(s)
    <3>1. PICK from \in {"check", "window", "claim", "send", "forget"},
               to \in {"idle", "window", "send", "forget"} : sweepStep(s, from, to)
      BY <2>7 DEF SweepNotDue, SweepStale, SweepCheck, SweepRequeue, SweepSuperseded,
                  SweepClaim, SweepSend, SweepSendEnds, SweepForget
    <3> QED
      BY <2>4, <3>1
  <2> QED
    BY <1>5, <2>5, <2>6, <2>7 DEF Sweep
<1> QED
  BY <1>1, <1>2, <1>3, <1>4, <1>5 DEF Next

(***************************************************************************)
(* No alert is claimed while a maintenance window covers the node, whether *)
(* the claim is the grace goroutine's or a sweep's, for any number of      *)
(* sweeps at once, if time and schedule stand still during each.           *)
(***************************************************************************)
THEOREM WindowsAreRespected == ASSUME SweepsAreInstant PROVE Spec => NoAlertInsideWindow
<1>1. ASSUME OutageInv, ClearInv, [Next]_vars
      PROVE  [\A c \in Conns : Claims(c) => ~Suppressed(now, Node, windows)]_vars
  <2> SUFFICES ASSUME NEW c \in Conns, Claims(c) PROVE ~Suppressed(now, Node, windows)
    OBVIOUS
  <2>1. CASE GraceClaim(c)
    BY <2>1 DEF GraceClaim
  <2>2. CASE \E s \in Sweepers : SweepClaim(s)
    BY <1>1, <2>2 DEF SweepClaim, sweepStep, ClearInv, SeenClear
  <2> QED
    BY <1>1, <2>1, <2>2, ClaimIsGraceOrSweep
<1>2. OutageInv /\ ClearInv /\ [Next]_vars => ClearInv'
  BY NextClearInv
<1> QED
  BY <1>1, <1>2, InitClearInv, OutageInvariant, PTL DEF Spec, NoAlertInsideWindow
-----------------------------------------------------------------------------
(***************************************************************************)
(* No alert about a node that reports.  The theorem is about an agent that *)
(* reports over its socket, whose connections are recorded in the order in *)
(* which they came, on a panel whose reads succeed; without any of these   *)
(* the code does alert (see the findings in the README).                   *)
(***************************************************************************)
RecordedInOrder ==
    Transports \subseteq {"ws"} /\ OnlineFirst /\ "error" \notin ReadOutcomes

\* The newest socket is the only one that is open, and the record is of the
\* newest connection as soon as its goroutine has run.
NewestInv ==
    /\ \A c \in Conns : conn[c] = "open" => c = opened /\ transport[c] = "ws"
    /\ \A c \in Conns : online[c] # "none" => c <= opened
    /\ \A c \in Conns : online[c] = "ready" => c = opened
    /\ \A c \in Conns : c = opened /\ online[c] = "done" => connectionID = c
    /\ postEntry = NoConn

LEMMA InitNewestInv == Init => NewestInv
  BY DEF Init, NewestInv

\* No step loses the newest connection.
LEMMA NextNewestInv ==
    ASSUME RecordedInOrder
    PROVE  OutageInv /\ NewestInv /\ [Next]_vars => NewestInv'
<1> SUFFICES ASSUME OutageInv, NewestInv, [Next]_vars PROVE NewestInv'
  OBVIOUS
<1>1. /\ opened \in Nat /\ online \in [Conns -> {"none", "ready", "done"}]
      /\ conn \in [Conns -> {"unborn", "open", "aborted", "ended", "retired"}]
      /\ transport \in [Conns -> {"ws", "post"}]
  BY DEF OutageInv, TypeOK, TypeEnv, TypeProcesses
<1>2. CASE UNCHANGED <<opened, conn, transport, online, postEntry, connectionID>>
  BY <1>2 DEF NewestInv
<1>3. CASE Tick \/ EditWindows \/ PostRefresh \/ Deliver \/ UNCHANGED vars
  BY <1>2, <1>3 DEF Tick, EditWindows, PostRefresh, Deliver, vars
<1>4. ASSUME NEW c \in Conns, WebSocketOpen(c) PROVE NewestInv'
  <2>1. /\ c = opened + 1 /\ opened' = c /\ UNCHANGED <<postEntry, connectionID>>
        /\ online' = [online EXCEPT ![c] = "ready"] /\ \A d \in Conns : online[d] # "ready"
        /\ transport' = [transport EXCEPT ![c] = "ws"]
    BY <1>4 DEF WebSocketOpen, NewConn, RecordedInOrder, Recorded
  <2>2. \A d \in Conns : conn'[d] = "open" => d = c
    BY <1>1, <1>4 DEF WebSocketOpen, OpenSockets, NewestInv
  <2> QED
    BY <1>1, <2>1, <2>2 DEF NewestInv
<1>5. ASSUME NEW c \in Conns, WebSocketClose(c) \/ PostFirst(c) \/ PostExpire(c)
      PROVE  NewestInv'
  <2>1. WebSocketClose(c)
    BY <1>5 DEF PostFirst, NewConn, PostExpire, RecordedInOrder, NewestInv
  <2> QED
    BY <1>1, <2>1 DEF WebSocketClose, EndConn, NewestInv
<1>6. CASE ResetClientState
  BY <1>1, <1>6 DEF ResetClientState, OpenSockets, NewestInv
<1>7. ASSUME NEW c \in Conns, OnlineGoroutine(c) PROVE NewestInv'
  <2>1. OnlineNotification(c)
    BY <1>7 DEF OnlineGoroutine, OnlineLookupFails, RecordedInOrder
  <2> QED
    BY <1>1, <2>1 DEF OnlineNotification, NewestInv
<1>8. ASSUME NEW c \in Conns, OfflineGoroutine(c) PROVE NewestInv'
  <2>1. UNCHANGED <<opened, conn, transport, online, postEntry, connectionID>>
    BY <1>8
    DEF OfflineGoroutine, OfflineNotEnabled, OfflineDecide, OfflineIgnored, OfflineMark,
        GraceSuperseded, GraceDefer, GraceClaim
  <2> QED
    BY <1>2, <2>1
<1>9. ASSUME NEW s \in Sweepers, Sweep(s) PROVE NewestInv'
  <2>1. UNCHANGED <<opened, conn, transport, online, postEntry, connectionID>>
    BY <1>9
    DEF Sweep, SweepBegin, SweepNotDue, SweepStale, SweepCheck, SweepRequeue,
        SweepWindowClear, SweepSuperseded, SweepClaim, SweepSend, SweepSendEnds, SweepForget
  <2> QED
    BY <1>2, <2>1
<1> QED
  BY <1>3, <1>4, <1>5, <1>6, <1>7, <1>8, <1>9 DEF Next, Transport

(***************************************************************************)
(* No alert is claimed while a recorded connection of the node is open,    *)
(* for any number of reconnects and of sweeps at once, slow ones too.      *)
(***************************************************************************)
THEOREM ReportingIsQuiet == ASSUME RecordedInOrder PROVE Spec => NoAlertWhileReporting
<1>1. ASSUME OutageInv, NewestInv, [Next]_vars
      PROVE  [\A c \in Conns : Claims(c) => ~\E d \in Conns : Reporting(d)]_vars
  <2> SUFFICES ASSUME NEW c \in Conns, Claims(c), NEW d \in Conns, Reporting(d) PROVE FALSE
    OBVIOUS
  <2>1. connectionID = c /\ ~isConnExist
    <3>1. CASE GraceClaim(c)
      BY <1>1, <3>1 DEF GraceClaim, IsCurrentOutage, OutageInv, RecordInv
    <3>2. CASE \E s \in Sweepers : SweepClaim(s) /\ sweep[s].conn = c
      BY <3>2 DEF SweepClaim, StillOffline
    <3> QED
      BY <1>1, <3>1, <3>2, ClaimIsGraceOrSweep
  <2>2. conn[c] = "ended"
    BY <1>1, <2>1 DEF OutageInv, RecordInv, ConnectionsInv
  <2>3. d = opened /\ connectionID = d /\ conn[d] = "open"
    BY <1>1 DEF NewestInv, Reporting
  <2> QED
    BY <2>1, <2>2, <2>3
<1>2. OutageInv /\ NewestInv /\ [Next]_vars => NewestInv'
  BY NextNewestInv
<1> QED
  BY <1>1, <1>2, InitNewestInv, OutageInvariant, PTL DEF Spec, NoAlertWhileReporting
=============================================================================
