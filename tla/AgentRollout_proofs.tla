------------------------- MODULE AgentRollout_proofs -------------------------
(***************************************************************************)
(* The agent's rollout for any number of releases, calls, sockets and       *)
(* failures: the shape of its state, and where the versions it installs     *)
(* come from.                                                               *)
(***************************************************************************)
EXTENDS AgentRollout, TLAPS

-----------------------------------------------------------------------------
(* Lemmas on the steps that several actions share. *)

\* A call that goes on to dispatch, queue or mark, or that ends, keeps its shape.
LEMMA RollMoves ==
    ASSUME RollsTyped, NEW r \in Rolls,
           RollEnds(r) \/ \E pc \in {"dispatch", "enqueue", "mark"} : RollGoes(r, pc)
    PROVE  RollsTyped'
<1>1. roll[r] \in RollRecord
  BY DEF RollsTyped
<1>2. [NoRoll EXCEPT !.pc = "done"] \in RollRecord
  BY DEF NoRoll, RollRecord, Targets, NoTarget, NoLink
<1>3. \A pc \in {"dispatch", "enqueue", "mark"} :
        [roll[r] EXCEPT !.pc = pc, !.version = 0, !.online = FALSE] \in RollRecord
  BY <1>1 DEF RollRecord
<1>4. CASE RollEnds(r)
  BY <1>2, <1>4 DEF RollEnds, RollsTyped, NoRoll
<1>5. CASE \E pc \in {"dispatch", "enqueue", "mark"} : RollGoes(r, pc)
  <2> PICK pc \in {"dispatch", "enqueue", "mark"} : RollGoes(r, pc)
    BY <1>5
  <2> DEFINE moved == [roll[r] EXCEPT !.pc = pc, !.version = 0, !.online = FALSE]
  <2>1. roll' = [roll EXCEPT ![r] = moved] /\ moved \in RollRecord /\ moved.pc # "send"
    BY <1>1, <1>3 DEF RollGoes, RollRecord
  <2> QED
    BY <2>1 DEF RollsTyped
<1> QED
  BY <1>4, <1>5

\* A handler that goes on to its next stage, or returns unregistered, keeps the
\* registered socket's handler.
LEMMA HandlerMoves ==
    ASSUME SocketsTyped, NEW c \in Links, UNCHANGED connected,
           \/ /\ broken' \subseteq Links
              /\ \E pc \in {"lookup", "settle", "push", "serve"} : HandlerGoes(c, pc)
           \/ connected # c /\ HandlerReturns(c)
    PROVE  SocketsTyped'
<1>1. NoHandler \in HandlerRecord
  BY DEF NoHandler, HandlerRecord, Targets, NoTarget
<1>2. \A pc \in {"lookup", "settle", "push", "serve"} :
        [NoHandler EXCEPT !.pc = pc] \in HandlerRecord /\ [NoHandler EXCEPT !.pc = pc].pc = pc
  BY <1>1 DEF NoHandler, HandlerRecord
<1>3. CASE connected # c /\ HandlerReturns(c)
  BY <1>1, <1>3 DEF SocketsTyped, HandlerReturns
<1>4. CASE /\ broken' \subseteq Links
           /\ \E pc \in {"lookup", "settle", "push", "serve"} : HandlerGoes(c, pc)
  BY <1>2, <1>4 DEF SocketsTyped, HandlerGoes
<1> QED
  BY <1>3, <1>4

\* A handler that leaves takes its socket out of the registry.
LEMMA HandlerGone ==
    ASSUME SocketsTyped, NEW c \in Links, HandlerUnregisters(c)
    PROVE  SocketsTyped'
<1>1. NoHandler \in HandlerRecord
  BY DEF NoHandler, HandlerRecord, Targets, NoTarget
<1> QED
  BY <1>1 DEF SocketsTyped, HandlerUnregisters, HandlerReturns, NoLink, Links

\* Frames stay targets, whether or not they arrive.
LEMMA FramesStay ==
    ASSUME inbound \in [Links -> Seq(Targets)], broken \subseteq Links,
           NEW c \in Links, NEW t \in Targets, Written(c, t) \/ WriteFails(c)
    PROVE  inbound' \in [Links -> Seq(Targets)] /\ broken' \subseteq Links
<1>1. inbound[c] \in Seq(Targets)
  OBVIOUS
<1>2. Append(inbound[c], t) \in Seq(Targets)
  BY <1>1
<1> QED
  BY <1>2 DEF Written, WriteFails

\* An agent that ends leaves nothing behind but what is on disk.
LEMMA NodeGone ==
    ASSUME RolloutTypeOK, NodeEnds, UNCHANGED <<disk, deployment, connected, handshake>>
    PROVE  NodeTyped' /\ SocketsTyped' /\ inbound' \in [Links -> Seq(Targets)]
<1>1. AllIdle \in [Installers -> InstallRecord]
  BY DEF AllIdle, NoInstall, InstallRecord, Targets, NoTarget
<1>2. node' \in NodeRecord
  BY DEF NodeEnds, RolloutTypeOK, NodeTyped, NodeRecord, Targets, NoTarget, NoLink
<1>3. \A j \in Installers : AllIdle[j].pc = "idle"
  BY DEF AllIdle, NoInstall
<1> QED
  BY <1>1, <1>2, <1>3 DEF NodeEnds, RolloutTypeOK, NodeTyped, SocketsTyped, Noticed

-----------------------------------------------------------------------------
(* The shape. *)

LEMMA RolloutTypeStep == RolloutTypeOK /\ [RolloutNext]_rolloutVars => RolloutTypeOK'
<1> SUFFICES ASSUME RolloutTypeOK, [RolloutNext]_rolloutVars PROVE RolloutTypeOK'
  OBVIOUS
<1>1. ASSUME NEW r \in Rolls, NEW t \in Targets, RollStarts(r, t) PROVE RolloutTypeOK'
  <2>1. RollsTyped'
    BY <1>1 DEF RollStarts, RolloutTypeOK, RollsTyped, NoRoll, RollRecord, RowRecord, NoLink
  <2>2. asked' \subseteq Versions
    BY <1>1 DEF RollStarts, RolloutTypeOK, Targets
  <2> QED
    BY <1>1, <2>1, <2>2 DEF RollStarts, RolloutTypeOK, RollsTyped, SocketsTyped, NodeTyped,
                            panelSide, nodeSide
<1>2. ASSUME NEW r \in Rolls, RollLooks(r) PROVE RolloutTypeOK'
  <2>1. RollsTyped'
    <3> DEFINE b == connected # NoLink
               looked == [roll[r] EXCEPT !.pc = "looked", !.online = b]
    <3>1. b \in BOOLEAN
      OBVIOUS
    <3>2. roll' = [roll EXCEPT ![r] = looked]
      BY <1>2 DEF RollLooks
    <3> HIDE DEF b
    <3>3. looked \in RollRecord /\ looked.pc = "looked"
      BY <3>1 DEF RolloutTypeOK, RollsTyped, RollRecord
    <3> QED
      BY <3>2, <3>3 DEF RolloutTypeOK, RollsTyped
  <2> QED
    BY <1>2, <2>1 DEF RollLooks, RolloutTypeOK, RollsTyped, SocketsTyped, NodeTyped,
                      panelSide, nodeSide
<1>3. ASSUME NEW r \in Rolls, RollSaves(r) PROVE RolloutTypeOK'
  <2>1. row' \in RowRecord
    BY <1>3 DEF RollSaves, SavedRow, RolloutTypeOK, RollsTyped, RowRecord, RollRecord
  <2>2. RollsTyped'
    BY <1>3, RollMoves DEF RollSaves, RolloutTypeOK
  <2>3. setbacks' \in 0..MaxSetbacks
    BY <1>3, BoundsAreNatural DEF RollSaves, RolloutTypeOK, Setback, NoSetback
  <2> QED
    BY <1>3, <2>1, <2>2, <2>3 DEF RollSaves, RolloutTypeOK, RollsTyped, SocketsTyped,
                                  NodeTyped, panelSide, nodeSide
<1>4. ASSUME NEW r \in Rolls, RollPicks(r) PROVE RolloutTypeOK'
  <2>1. RollsTyped'
    <3> DEFINE picked ==
                 [roll[r] EXCEPT !.pc = IF connected = NoLink THEN "enqueue" ELSE "send",
                                 !.link = connected]
    <3>1. roll' = [roll EXCEPT ![r] = picked]
      BY <1>4 DEF RollPicks
    <3>2. picked \in RollRecord /\ (picked.pc = "send" => picked.link # NoLink)
      BY DEF RolloutTypeOK, RollsTyped, SocketsTyped, RollRecord
    <3> QED
      BY <3>1, <3>2 DEF RolloutTypeOK, RollsTyped
  <2> QED
    BY <1>4, <2>1 DEF RollPicks, RolloutTypeOK, RollsTyped, SocketsTyped, NodeTyped,
                      panelSide, nodeSide
<1>5. ASSUME NEW r \in Rolls, RollSends(r) PROVE RolloutTypeOK'
  <2>1. roll[r].link \in Links /\ roll[r].target \in Targets
    BY <1>5 DEF RollSends, RolloutTypeOK, RollsTyped, RollRecord
  <2>2. RollsTyped'
    BY <1>5, RollMoves DEF RollSends, RolloutTypeOK
  <2>3. inbound' \in [Links -> Seq(Targets)] /\ broken' \subseteq Links
    BY <1>5, <2>1, FramesStay DEF RollSends, RolloutTypeOK, SocketsTyped
  <2>4. SocketsTyped'
    BY <1>5, <2>3 DEF RollSends, RolloutTypeOK, SocketsTyped
  <2> QED
    BY <1>5, <2>1, <2>2, <2>3, <2>4 DEF RollSends, RolloutTypeOK, RollsTyped, SocketsTyped,
                                        NodeTyped, panelSide, nodeSide
<1>6. ASSUME NEW r \in Rolls, RollEnqueues(r) PROVE RolloutTypeOK'
  <2>1. RollsTyped'
    BY <1>6, RollMoves DEF RollEnqueues, RolloutTypeOK
  <2>2. updates' \subseteq Updates
    BY <1>6 DEF RollEnqueues, Enqueue, RolloutTypeOK, RollsTyped, RollRecord, Updates
  <2> QED
    BY <1>6, <2>1, <2>2 DEF RollEnqueues, RolloutTypeOK, RollsTyped, SocketsTyped, NodeTyped,
                            panelSide, nodeSide
<1>7. ASSUME NEW r \in Rolls, RollMarks(r) PROVE RolloutTypeOK'
  <2>1. row' \in RowRecord
    BY <1>7 DEF RollMarks, RolloutTypeOK, RowRecord
  <2>2. RollsTyped'
    BY <1>7, RollMoves DEF RollMarks, RolloutTypeOK
  <2>3. setbacks' \in 0..MaxSetbacks
    BY <1>7, BoundsAreNatural DEF RollMarks, RolloutTypeOK, Setback, NoSetback
  <2> QED
    BY <1>7, <2>1, <2>2, <2>3 DEF RollMarks, RolloutTypeOK, RollsTyped, SocketsTyped,
                                  NodeTyped, panelSide, nodeSide
<1>8. ASSUME NEW c \in Links, NodeConnects(c) PROVE RolloutTypeOK'
  <2>1. NodeTyped'
    BY <1>8 DEF NodeConnects, RolloutTypeOK, NodeTyped, NodeRecord
  <2>2. [NoHandler EXCEPT !.pc = "lookup"] \in HandlerRecord
    BY <1>8 DEF NoHandler, HandlerRecord, Targets, NoTarget
  <2>3. SocketsTyped'
    BY <1>8, <2>2 DEF NodeConnects, HandlerGoes, RolloutTypeOK, SocketsTyped, NoHandler
  <2> QED
    BY <1>8, <2>1, <2>2, <2>3 DEF NodeConnects, RolloutTypeOK, RollsTyped, SocketsTyped,
                                  NodeTyped, panelSide, nodeSide
<1>9. ASSUME NEW c \in Links, HandlerLooksUp(c) PROVE RolloutTypeOK'
  <2>1. SocketsTyped'
    <3>1. CASE ~Current(c) /\ HandlerReturns(c)
      BY <1>9, <3>1, HandlerMoves DEF HandlerLooksUp, Current, RolloutTypeOK
    <3>2. CASE UNCHANGED broken /\ HandlerGoes(c, "push")
      BY <1>9, <3>2, HandlerMoves DEF HandlerLooksUp, RolloutTypeOK, SocketsTyped
    <3>3. CASE /\ UNCHANGED broken
               /\ handshake' = [handshake EXCEPT ![c].pc = IF Owed THEN "write" ELSE "push",
                                                 ![c].target = row.target,
                                                 ![c].clear = row.pendingClear]
      <4> DEFINE found ==
                   [handshake[c] EXCEPT !.pc = IF Owed THEN "write" ELSE "push",
                                        !.target = row.target, !.clear = row.pendingClear]
      <4>1. handshake' = [handshake EXCEPT ![c] = found]
        BY <3>3
      <4>2. found \in HandlerRecord /\ found.pc # "none"
        BY DEF RolloutTypeOK, SocketsTyped, HandlerRecord, RowRecord
      <4> QED
        BY <1>9, <3>3, <4>1, <4>2 DEF HandlerLooksUp, RolloutTypeOK, SocketsTyped
    <3> QED
      BY <1>9, <3>1, <3>2, <3>3 DEF HandlerLooksUp
  <2>2. setbacks' \in 0..MaxSetbacks
    BY <1>9, BoundsAreNatural DEF HandlerLooksUp, RolloutTypeOK, Setback, NoSetback
  <2> QED
    BY <1>9, <2>1, <2>2 DEF HandlerLooksUp, RolloutTypeOK, RollsTyped, SocketsTyped,
                            NodeTyped, panelSide, nodeSide
<1>10. ASSUME NEW c \in Links, HandlerWrites(c) PROVE RolloutTypeOK'
  <2>1. handshake[c].target \in Targets
    BY <1>10 DEF RolloutTypeOK, SocketsTyped, HandlerRecord
  <2>2. inbound' \in [Links -> Seq(Targets)] /\ broken' \subseteq Links
    BY <1>10, <2>1, FramesStay DEF HandlerWrites, RolloutTypeOK, SocketsTyped
  <2>3. SocketsTyped'
    BY <1>10, <2>2, HandlerMoves DEF HandlerWrites, RolloutTypeOK
  <2> QED
    BY <1>10, <2>1, <2>2, <2>3 DEF HandlerWrites, RolloutTypeOK, RollsTyped, SocketsTyped,
                                   NodeTyped, panelSide, nodeSide
<1>11. ASSUME NEW c \in Links, HandlerSettles(c) PROVE RolloutTypeOK'
  <2>1. row' \in RowRecord
    BY <1>11 DEF HandlerSettles, RolloutTypeOK, RowRecord
  <2>2. SocketsTyped'
    BY <1>11, HandlerMoves DEF HandlerSettles, Current, RolloutTypeOK, SocketsTyped
  <2>3. setbacks' \in 0..MaxSetbacks
    BY <1>11, BoundsAreNatural DEF HandlerSettles, RolloutTypeOK, Setback, NoSetback
  <2> QED
    BY <1>11, <2>1, <2>2, <2>3 DEF HandlerSettles, RolloutTypeOK, RollsTyped, SocketsTyped,
                                   NodeTyped, panelSide, nodeSide
<1>12. ASSUME NEW c \in Links, HandlerTakes(c) PROVE RolloutTypeOK'
  <2>1. SocketsTyped'
    <3>1. CASE ~Current(c)
      BY <1>12, <3>1, HandlerMoves DEF HandlerTakes, Current, RolloutTypeOK
    <3>2. CASE Current(c)
      <4> DEFINE taken == [NoHandler EXCEPT !.pc = IF updates = {} THEN "serve" ELSE "pushing",
                                            !.todo = updates]
      <4>1. handshake' = [handshake EXCEPT ![c] = taken] /\ UNCHANGED <<connected, broken>>
        BY <1>12, <3>2 DEF HandlerTakes
      <4>2. taken \in HandlerRecord /\ taken.pc # "none"
        BY DEF RolloutTypeOK, NoHandler, HandlerRecord, Targets, NoTarget
      <4> QED
        BY <4>1, <4>2 DEF RolloutTypeOK, SocketsTyped
    <3> QED
      BY <3>1, <3>2
  <2> QED
    BY <1>12, <2>1 DEF HandlerTakes, RolloutTypeOK, RollsTyped, SocketsTyped, NodeTyped,
                       panelSide, nodeSide
<1>13. ASSUME NEW c \in Links, HandlerPushes(c) PROVE RolloutTypeOK'
  <2>1. CASE PushSucceeds(c)
    <3> PICK e \in handshake[c].todo :
          /\ Written(c, e.target)
          /\ handshake' = [handshake EXCEPT ![c] = AfterPush(handshake[c], e)]
          /\ UNCHANGED <<connected, updates>>
      BY <2>1 DEF PushSucceeds, Oldest
    <3>1. handshake[c] \in HandlerRecord /\ e.roll \in Rolls /\ e.target \in Targets
      BY DEF RolloutTypeOK, SocketsTyped, HandlerRecord, Updates
    <3>2. inbound' \in [Links -> Seq(Targets)] /\ broken' \subseteq Links
      BY <3>1, FramesStay DEF RolloutTypeOK, SocketsTyped
    <3>3. SocketsTyped'
      <4>1. /\ AfterPush(handshake[c], e) \in HandlerRecord
            /\ AfterPush(handshake[c], e).pc = handshake[c].pc
        <5>1. handshake[c].todo \ {e} \in SUBSET Updates
          BY <3>1 DEF HandlerRecord
        <5>2. handshake[c].sent \cup {e.roll} \in SUBSET Rolls
          BY <3>1 DEF HandlerRecord
        <5> QED
          BY <3>1, <5>1, <5>2 DEF AfterPush, HandlerRecord
      <4> QED
        BY <3>2, <4>1 DEF RolloutTypeOK, SocketsTyped
    <3> QED
      BY <1>13, <3>2, <3>3 DEF HandlerPushes, RolloutTypeOK, RollsTyped, NodeTyped, nodeSide
  <2>2. CASE PushFails(c)
    BY <1>13, <2>2, HandlerGone DEF HandlerPushes, PushFails, Unacked, RolloutTypeOK,
                                    RollsTyped,
                                   NodeTyped, nodeSide
  <2> QED
    BY <1>13, <2>1, <2>2 DEF HandlerPushes
<1>14. ASSUME NEW c \in Links, HandlerAcks(c) PROVE RolloutTypeOK'
  <2>1. updates' \subseteq Updates
    BY <1>14 DEF HandlerAcks, Unacked, RolloutTypeOK
  <2>2. SocketsTyped'
    BY <1>14, HandlerMoves DEF HandlerAcks, HandlerGoes, Current, RolloutTypeOK, SocketsTyped
  <2> QED
    BY <1>14, <2>1, <2>2 DEF HandlerAcks, RolloutTypeOK, RollsTyped, SocketsTyped, NodeTyped,
                             panelSide, nodeSide
<1>15. ASSUME NEW c \in Links, HandlerEnds(c) PROVE RolloutTypeOK'
  <2>1. SocketsTyped'
    BY <1>15, HandlerGone DEF HandlerEnds, RolloutTypeOK
  <2> QED
    BY <1>15, <2>1 DEF HandlerEnds, RolloutTypeOK, RollsTyped, SocketsTyped, NodeTyped,
                       panelSide, nodeSide
<1>16. ASSUME NEW c \in Links, NodeDisconnects(c) PROVE RolloutTypeOK'
  <2>1. NodeTyped'
    BY <1>16 DEF NodeDisconnects, RolloutTypeOK, NodeTyped, NodeRecord
  <2>2. SocketsTyped'
    BY <1>16 DEF NodeDisconnects, panelSide, Noticed, RolloutTypeOK, SocketsTyped
  <2>3. inbound' \in [Links -> Seq(Targets)]
    BY <1>16 DEF NodeDisconnects, RolloutTypeOK
  <2> QED
    BY <1>16, <2>1, <2>2, <2>3 DEF NodeDisconnects, RolloutTypeOK, RollsTyped, SocketsTyped,
                                   NodeTyped, panelSide, nodeSide
<1>17. ASSUME NEW c \in Links, ReadUpdate(c) PROVE RolloutTypeOK'
  <2>1. Head(inbound[c]) \in Targets /\ Tail(inbound[c]) \in Seq(Targets)
    BY <1>17 DEF ReadUpdate, RolloutTypeOK
  <2>2. node' \in NodeRecord
    BY <1>17, <2>1 DEF ReadUpdate, RolloutTypeOK, NodeTyped, NodeRecord
  <2>3. NodeTyped'
    <3>1. CASE UNCHANGED install
      BY <1>17, <2>2, <3>1 DEF ReadUpdate, RolloutTypeOK, NodeTyped
    <3>2. CASE \E j \in Installers \ {0} : Begin(j, Head(inbound[c]))
      BY <1>17, <2>1, <2>2, <3>2 DEF ReadUpdate, Begin, RolloutTypeOK, NodeTyped,
                                     InstallRecord
    <3> QED
      BY <1>17, <3>1, <3>2 DEF ReadUpdate
  <2>4. inbound' \in [Links -> Seq(Targets)]
    BY <1>17, <2>1 DEF ReadUpdate, RolloutTypeOK
  <2> QED
    BY <1>17, <2>1, <2>2, <2>3, <2>4 DEF ReadUpdate, RolloutTypeOK, RollsTyped, SocketsTyped,
                                         NodeTyped, panelSide, nodeSide
<1>18. ASSUME NEW j \in Installers, Installs(j) PROVE RolloutTypeOK'
  <2>1. NodeTyped'
    BY <1>18 DEF Installs, RolloutTypeOK, NodeTyped, InstallRecord, Targets, NoTarget
  <2> QED
    BY <1>18, <2>1 DEF Installs, RolloutTypeOK, RollsTyped, SocketsTyped, NodeTyped,
                       panelSide, nodeSide
<1>19. ASSUME NEW j \in Installers, InstallFails(j) PROVE RolloutTypeOK'
  <2>1. node' \in NodeRecord
    BY <1>19 DEF InstallFails, RolloutTypeOK, NodeTyped, NodeRecord
  <2>2. NodeTyped'
    BY <1>19, <2>1 DEF InstallFails, NoInstall, RolloutTypeOK, NodeTyped, InstallRecord,
                       Targets
  <2>3. setbacks' \in 0..MaxSetbacks
    BY <1>19, BoundsAreNatural DEF InstallFails, RolloutTypeOK, Setback, NoSetback
  <2> QED
    BY <1>19, <2>1, <2>2, <2>3 DEF InstallFails, RolloutTypeOK, RollsTyped, SocketsTyped,
                                   NodeTyped, panelSide, nodeSide
<1>20. ASSUME NEW j \in Installers, InstallExits(j) PROVE RolloutTypeOK'
  <2>1. NodeTyped' /\ SocketsTyped' /\ inbound' \in [Links -> Seq(Targets)]
    BY <1>20, NodeGone DEF InstallExits, panelSide
  <2> QED
    BY <1>20, <2>1 DEF InstallExits, RolloutTypeOK, RollsTyped, SocketsTyped, NodeTyped,
                       panelSide, nodeSide
<1>21. CASE NodeStarts
  <2>1. NodeTyped'
    BY <1>21 DEF NodeStarts, RolloutTypeOK, NodeTyped, NodeRecord
  <2> QED
    BY <1>21, <2>1 DEF NodeStarts, RolloutTypeOK, RollsTyped, SocketsTyped, NodeTyped,
                       panelSide, nodeSide
<1>22. CASE NodeDies
  <2>1. NodeTyped' /\ SocketsTyped' /\ inbound' \in [Links -> Seq(Targets)]
    BY <1>22, NodeGone DEF NodeDies, panelSide
  <2>2. setbacks' \in 0..MaxSetbacks
    BY <1>22, BoundsAreNatural DEF NodeDies, RolloutTypeOK, Setback
  <2> QED
    BY <1>22, <2>1, <2>2 DEF NodeDies, RolloutTypeOK, RollsTyped, SocketsTyped, NodeTyped,
                             panelSide, nodeSide
<1>23. CASE StartupCheck
  <2>1. 0 \in Installers /\ newest \in Targets /\ newest # NoTarget
    BY <1>23, BoundsAreNatural DEF Installers, RolloutTypeOK, Targets, Versions, NoTarget
  <2>2. node' \in NodeRecord
    BY <1>23 DEF StartupCheck, RolloutTypeOK, NodeTyped, NodeRecord
  <2>3. NodeTyped'
    <3>1. CASE newest > node.version
      <4> DEFINE begun == [pc |-> "fetch", target |-> newest]
      <4>1. install' = [install EXCEPT ![0] = begun]
        BY <1>23, <3>1 DEF StartupCheck, Begin
      <4>2. begun \in InstallRecord
        BY <2>1 DEF InstallRecord
      <4> QED
        BY <1>23, <2>1, <2>2, <4>1, <4>2 DEF StartupCheck, RolloutTypeOK, NodeTyped
    <3>2. CASE ~(newest > node.version)
      BY <1>23, <2>2, <3>2 DEF StartupCheck, RolloutTypeOK, NodeTyped
    <3> QED
      BY <3>1, <3>2
  <2> QED
    BY <1>23, <2>1, <2>2, <2>3 DEF StartupCheck, RolloutTypeOK, RollsTyped, SocketsTyped,
                                   NodeTyped, panelSide, nodeSide
<1>24. CASE UploadBasicInfo
  <2>1. row' \in RowRecord
    BY <1>24 DEF UploadBasicInfo, RolloutTypeOK, NodeTyped, NodeRecord, RowRecord
  <2>2. NodeTyped'
    BY <1>24 DEF UploadBasicInfo, RolloutTypeOK, NodeTyped, NodeRecord
  <2>3. setbacks' \in 0..MaxSetbacks
    BY <1>24, BoundsAreNatural DEF UploadBasicInfo, RolloutTypeOK, Setback, NoSetback
  <2> QED
    BY <1>24, <2>1, <2>2, <2>3 DEF UploadBasicInfo, RolloutTypeOK, RollsTyped, SocketsTyped,
                                   NodeTyped, panelSide, nodeSide
<1>25. CASE UpdateTick
  <2>1. NodeTyped'
    BY <1>25, BoundsAreNatural, DeploymentsAreFlags
       DEF UpdateTick, TickTarget, RequestedVersion, Begin, RolloutTypeOK, NodeTyped,
           NodeRecord, InstallRecord, Installers, Targets, Versions, NoTarget
  <2> QED
    BY <1>25, <2>1 DEF UpdateTick, RolloutTypeOK, RollsTyped, SocketsTyped, NodeTyped,
                       panelSide, nodeSide
<1>26. CASE UpdateExpires
  <2>1. updates' \subseteq Updates
    BY <1>26 DEF UpdateExpires, RolloutTypeOK
  <2> QED
    BY <1>26, <2>1 DEF UpdateExpires, RolloutTypeOK, RollsTyped, SocketsTyped, NodeTyped,
                       panelSide, nodeSide
<1>27. CASE PanelRestarts
  <2>1. RollsTyped'
    BY <1>27 DEF PanelRestarts, RolloutTypeOK, RollsTyped, NoRoll, RollRecord, Targets,
                 NoTarget, NoLink
  <2>2. SocketsTyped'
    BY <1>27 DEF PanelRestarts, RolloutTypeOK, SocketsTyped, NodeTyped, NodeRecord, NoHandler,
                 HandlerRecord, Targets, NoTarget, NoLink
  <2>3. setbacks' \in 0..MaxSetbacks
    BY <1>27, BoundsAreNatural DEF PanelRestarts, RolloutTypeOK, Setback
  <2> QED
    BY <1>27, <2>1, <2>2, <2>3 DEF PanelRestarts, RolloutTypeOK, RollsTyped, SocketsTyped,
                                   NodeTyped, panelSide, nodeSide
<1>28. CASE ReleasePublished
  <2>1. newest' \in Versions
    BY <1>28, BoundsAreNatural DEF ReleasePublished, RolloutTypeOK, Versions
  <2> QED
    BY <1>28, <2>1 DEF ReleasePublished, RolloutTypeOK, RollsTyped, SocketsTyped, NodeTyped,
                       panelSide, nodeSide
<1>29. CASE UNCHANGED rolloutVars
  BY <1>29 DEF rolloutVars, RollRecord, RolloutTypeOK, RollsTyped, SocketsTyped, NodeTyped,
               panelSide, nodeSide
<1> QED
  BY <1>1, <1>2, <1>3, <1>4, <1>5, <1>6, <1>7, <1>8, <1>9, <1>10, <1>11, <1>12, <1>13, <1>14,
     <1>15, <1>16, <1>17, <1>18, <1>19, <1>20, <1>21, <1>22, <1>23, <1>24, <1>25, <1>26, <1>27,
     <1>28, <1>29
     DEF RolloutNext, RollStep, HandlerStep, InstallStep

\* In every behaviour each variable of the rollout, on the panel and on the node,
\* keeps its shape, a registered socket has a handler, and a call that writes has
\* a socket (adminRollAgentUpdate, WebSocketV2RPC, the agent's updates).
THEOREM RolloutTyped == RolloutSpec => []RolloutTypeOK
<1>1. RolloutInit => RolloutTypeOK
  <2> SUFFICES ASSUME RolloutInit PROVE RolloutTypeOK
    OBVIOUS
  <2>0. newest \in Versions /\ disk \in Versions
    BY BoundsAreNatural DEF RolloutInit, Versions
  <2>1. row \in RowRecord /\ asked \subseteq Versions
    <3> PICK t \in Targets, clear \in BOOLEAN :
           row = [target |-> t, pendingClear |-> clear, version |-> disk]
      BY DEF RolloutInit
    <3> QED
      BY <2>0 DEF RolloutInit, RowRecord, Targets, NoTarget
  <2>2. RollsTyped
    BY DEF RolloutInit, RollsTyped, NoRoll, RollRecord, Targets, NoTarget, NoLink
  <2>3. SocketsTyped
    BY DEF RolloutInit, SocketsTyped, NoHandler, HandlerRecord, Targets, NoTarget, NoLink
  <2>4. NodeTyped
    BY <2>0 DEF RolloutInit, NodeTyped, NodeRecord, AllIdle, NoInstall, InstallRecord,
                Targets,
           NoTarget, NoLink
  <2> QED
    BY <2>0, <2>1, <2>2, <2>3, <2>4, BoundsAreNatural DEF RolloutInit, RolloutTypeOK
<1> QED
  BY <1>1, RolloutTypeStep, PTL DEF RolloutSpec

-----------------------------------------------------------------------------
(* Where the versions come from: each part of the state names only versions  *)
(* that were asked for.  The set of those only grows.                         *)

Known == {NoTarget} \cup asked
Events == {e \in Updates : e.target \in Known}

RowAsked == row.target \in Known
RollsAsked == \A r \in Rolls : roll[r].target \in Known
QueueAsked == updates \subseteq Events
HandlersAsked == \A c \in Links : /\ handshake[c].target \in Known
                                  /\ handshake[c].todo \subseteq Events
FramesAsked == inbound \in [Links -> Seq(Known)]
PanelAsked == RowAsked /\ RollsAsked /\ QueueAsked /\ HandlersAsked /\ FramesAsked

\* What an agent that leaves updates to the panel installs.
AgentAsked ==
    ~deployment.auto => /\ disk \in asked /\ node.pc # "check"
                        /\ \A j \in Installers : install[j].target \in Known

AllAsked == PanelAsked /\ AgentAsked

\* A call that goes on or ends names no other version.
LEMMA RollKeepsAsked ==
    ASSUME RollsTyped, RollsAsked, UNCHANGED asked, NEW r \in Rolls, NEW pc,
           RollEnds(r) \/ RollGoes(r, pc)
    PROVE  RollsAsked'
<1>1. roll[r] \in RollRecord
  BY DEF RollsTyped
<1>2. CASE RollEnds(r)
  BY <1>2 DEF RollEnds, RollsTyped, RollsAsked, NoRoll, Known
<1>3. CASE RollGoes(r, pc)
  BY <1>1, <1>3 DEF RollGoes, RollsTyped, RollsAsked, RollRecord, Known
<1> QED
  BY <1>2, <1>3

\* A handler that goes on or returns names no other version.
LEMMA HandlerKeepsAsked ==
    ASSUME SocketsTyped, HandlersAsked, UNCHANGED asked, NEW c \in Links, NEW pc,
           HandlerGoes(c, pc) \/ HandlerReturns(c)
    PROVE  HandlersAsked'
<1>1. CASE HandlerGoes(c, pc)
  BY <1>1 DEF HandlerGoes, NoHandler, SocketsTyped, HandlersAsked, Known, Events
<1>2. CASE HandlerReturns(c)
  BY <1>2 DEF HandlerReturns, NoHandler, SocketsTyped, HandlersAsked, Known, Events
<1> QED
  BY <1>1, <1>2

\* A frame carries a version that was asked for.
LEMMA FramesKeepAsked ==
    ASSUME FramesAsked, UNCHANGED asked, NEW c \in Links, NEW t \in Known,
           Written(c, t) \/ WriteFails(c)
    PROVE  FramesAsked'
<1>1. Append(inbound[c], t) \in Seq(Known)
  BY DEF FramesAsked
<1> QED
  BY <1>1 DEF FramesAsked, Written, WriteFails, Known

\* An agent that ends has no frames and installs nothing.
LEMMA NodeGoneAsked ==
    ASSUME RolloutTypeOK, AllAsked, NodeEnds, UNCHANGED <<disk, deployment, asked>>
    PROVE  FramesAsked' /\ AgentAsked'
BY DEF RolloutTypeOK, NodeTyped, NodeRecord, AllAsked, PanelAsked, FramesAsked, AgentAsked,
       NodeEnds, AllIdle, NoInstall,
       Known

LEMMA AskedStep == RolloutTypeOK /\ AllAsked /\ [RolloutNext]_rolloutVars => AllAsked'
<1> SUFFICES ASSUME RolloutTypeOK, AllAsked, [RolloutNext]_rolloutVars PROVE AllAsked'
  OBVIOUS
<1>1. ASSUME NEW r \in Rolls, NEW t \in Targets, RollStarts(r, t) PROVE AllAsked'
  <2>1. RollsAsked'
    BY <1>1 DEF RollStarts, RolloutTypeOK, RollsTyped, NoRoll, AllAsked, PanelAsked,
                RollsAsked, Known
  <2>2. Known \subseteq Known' /\ asked \subseteq asked'
    BY <1>1 DEF RollStarts, Known
  <2>3. FramesAsked'
    BY <1>1, <2>2 DEF RollStarts, AllAsked, PanelAsked, FramesAsked
  <2>4. RowAsked' /\ QueueAsked' /\ HandlersAsked'
    BY <1>1, <2>2 DEF RollStarts, AllAsked, PanelAsked, RowAsked, QueueAsked, HandlersAsked,
                      Events
  <2>5. AgentAsked'
    BY <1>1, <2>2 DEF RollStarts, nodeSide, AllAsked, AgentAsked
  <2> QED
    BY <1>1, <2>1, <2>2, <2>3, <2>4, <2>5 DEF RollStarts, AllAsked, PanelAsked
<1>2. ASSUME NEW r \in Rolls, RollLooks(r) PROVE AllAsked'
  <2>1. RollsAsked'
    BY <1>2 DEF RollLooks, RolloutTypeOK, AllAsked, PanelAsked, RollsTyped, RollsAsked,
                RollRecord, Known
  <2> QED
    BY <1>2, <2>1 DEF RollLooks, AllAsked, PanelAsked, RowAsked, QueueAsked, Events,
                      HandlersAsked, FramesAsked, AgentAsked, Known, panelSide, nodeSide
<1>3. ASSUME NEW r \in Rolls, RollSaves(r) PROVE AllAsked'
  <2>1. RowAsked'
    BY <1>3 DEF RollSaves, SavedRow, RolloutTypeOK, AllAsked, PanelAsked, RowRecord, RowAsked,
                RollsAsked, Known
  <2>2. RollsAsked'
    BY <1>3, RollKeepsAsked DEF RollSaves, RolloutTypeOK, AllAsked, PanelAsked
  <2> QED
    BY <1>3, <2>1, <2>2 DEF RollSaves, AllAsked, PanelAsked, QueueAsked, Events,
                            HandlersAsked, FramesAsked, AgentAsked, Known, panelSide, nodeSide
<1>4. ASSUME NEW r \in Rolls, RollPicks(r) PROVE AllAsked'
  <2>1. RollsAsked'
    BY <1>4 DEF RollPicks, RolloutTypeOK, AllAsked, PanelAsked, RollsTyped, RollsAsked,
                RollRecord, Known
  <2> QED
    BY <1>4, <2>1 DEF RollPicks, AllAsked, PanelAsked, RowAsked, QueueAsked, Events,
                      HandlersAsked, FramesAsked, AgentAsked, Known, panelSide, nodeSide
<1>5. ASSUME NEW r \in Rolls, RollSends(r) PROVE AllAsked'
  <2>1. roll[r].link \in Links /\ roll[r].target \in Known
    BY <1>5 DEF RollSends, RolloutTypeOK, AllAsked, PanelAsked, RollsTyped, RollRecord,
                RollsAsked
  <2>2. FramesAsked'
    BY <1>5, <2>1, FramesKeepAsked DEF RollSends, RolloutTypeOK, AllAsked, PanelAsked
  <2>3. RollsAsked'
    BY <1>5, RollKeepsAsked DEF RollSends, RolloutTypeOK, AllAsked, PanelAsked
  <2> QED
    BY <1>5, <2>1, <2>2, <2>3 DEF RollSends, AllAsked, PanelAsked, RowAsked, QueueAsked,
                                  Events, HandlersAsked, AgentAsked, Known, panelSide,
                                  nodeSide
<1>6. ASSUME NEW r \in Rolls, RollEnqueues(r) PROVE AllAsked'
  <2>1. RollsAsked'
    BY <1>6, RollKeepsAsked DEF RollEnqueues, RolloutTypeOK, AllAsked, PanelAsked
  <2>2. QueueAsked'
    BY <1>6 DEF RollEnqueues, Enqueue, RolloutTypeOK, AllAsked, PanelAsked, RollsTyped,
                RollRecord, RollsAsked, QueueAsked, Events, Updates, Known
  <2> QED
    BY <1>6, <2>1, <2>2 DEF RollEnqueues, AllAsked, PanelAsked, RowAsked, HandlersAsked,
                            Events, FramesAsked, AgentAsked, Known, panelSide, nodeSide
<1>7. ASSUME NEW r \in Rolls, RollMarks(r) PROVE AllAsked'
  <2>1. RowAsked'
    BY <1>7 DEF RollMarks, RolloutTypeOK, AllAsked, PanelAsked, RowRecord, RowAsked, Known
  <2>2. RollsAsked'
    BY <1>7, RollKeepsAsked DEF RollMarks, RolloutTypeOK, AllAsked, PanelAsked
  <2> QED
    BY <1>7, <2>1, <2>2 DEF RollMarks, AllAsked, PanelAsked, QueueAsked, Events,
                            HandlersAsked, FramesAsked, AgentAsked, Known, panelSide, nodeSide
<1>8. ASSUME NEW c \in Links, NodeConnects(c) PROVE AllAsked'
  <2>1. HandlersAsked'
    BY <1>8, HandlerKeepsAsked DEF NodeConnects, RolloutTypeOK, AllAsked, PanelAsked
  <2>2. AgentAsked'
    BY <1>8 DEF NodeConnects, RolloutTypeOK, NodeTyped, NodeRecord, AllAsked, AgentAsked,
                Known
  <2> QED
    BY <1>8, <2>1, <2>2 DEF NodeConnects, AllAsked, PanelAsked, RowAsked, RollsAsked,
                            QueueAsked, Events, FramesAsked, Known, panelSide, nodeSide
<1>9. ASSUME NEW c \in Links, HandlerLooksUp(c) PROVE AllAsked'
  <2>1. HandlersAsked'
    <3>1. CASE HandlerGoes(c, "push") \/ HandlerReturns(c)
      BY <1>9, <3>1, HandlerKeepsAsked DEF HandlerLooksUp, RolloutTypeOK, AllAsked, PanelAsked
    <3>2. CASE handshake' = [handshake EXCEPT ![c].pc = IF Owed THEN "write" ELSE "push",
                                              ![c].target = row.target,
                                              ![c].clear = row.pendingClear]
      <4>1. handshake[c] \in HandlerRecord
        BY DEF RolloutTypeOK, SocketsTyped
      <4>2. handshake'[c].target = row.target /\ handshake'[c].todo = handshake[c].todo
        BY <3>2, <4>1 DEF RolloutTypeOK, SocketsTyped, HandlerRecord
      <4>3. \A d \in Links \ {c} : handshake'[d] = handshake[d]
        BY <3>2 DEF RolloutTypeOK, SocketsTyped
      <4> QED
        BY <1>9, <4>2, <4>3 DEF HandlerLooksUp, AllAsked, PanelAsked, RowAsked, HandlersAsked,
                                Events, Known
    <3> QED
      BY <1>9, <3>1, <3>2 DEF HandlerLooksUp
  <2> QED
    BY <1>9, <2>1 DEF HandlerLooksUp, AllAsked, PanelAsked, RowAsked, RollsAsked, QueueAsked,
                      Events, FramesAsked, AgentAsked, Known, panelSide, nodeSide
<1>10. ASSUME NEW c \in Links, HandlerWrites(c) PROVE AllAsked'
  <2>1. handshake[c].target \in Known
    BY <1>10 DEF RolloutTypeOK, AllAsked, PanelAsked, HandlersAsked
  <2>2. FramesAsked'
    BY <1>10, <2>1, FramesKeepAsked DEF HandlerWrites, RolloutTypeOK, AllAsked, PanelAsked
  <2>3. HandlersAsked'
    BY <1>10, HandlerKeepsAsked DEF HandlerWrites, RolloutTypeOK, AllAsked, PanelAsked
  <2> QED
    BY <1>10, <2>1, <2>2, <2>3 DEF HandlerWrites, AllAsked, PanelAsked, RowAsked, RollsAsked,
                                   QueueAsked, Events, AgentAsked, Known, panelSide, nodeSide
<1>11. ASSUME NEW c \in Links, HandlerSettles(c) PROVE AllAsked'
  <2>1. RowAsked'
    BY <1>11 DEF HandlerSettles, RolloutTypeOK, AllAsked, PanelAsked, RowRecord, RowAsked,
                 Known
  <2>2. HandlersAsked'
    BY <1>11, HandlerKeepsAsked DEF HandlerSettles, RolloutTypeOK, AllAsked, PanelAsked
  <2> QED
    BY <1>11, <2>1, <2>2 DEF HandlerSettles, AllAsked, PanelAsked, RollsAsked, QueueAsked,
                             Events, FramesAsked, AgentAsked, Known, panelSide, nodeSide
<1>12. ASSUME NEW c \in Links, HandlerTakes(c) PROVE AllAsked'
  <2>1. HandlersAsked'
    <3>1. CASE Current(c)
      <4> DEFINE taken == [NoHandler EXCEPT !.pc = IF updates = {} THEN "serve" ELSE "pushing",
                                            !.todo = updates]
      <4>1. handshake' = [handshake EXCEPT ![c] = taken] /\ UNCHANGED asked
        BY <1>12, <3>1 DEF HandlerTakes
      <4>2. taken.target = NoTarget /\ taken.todo = updates
        BY DEF NoHandler
      <4> HIDE DEF taken
      <4> QED
        BY <4>1, <4>2 DEF RolloutTypeOK, SocketsTyped, AllAsked, PanelAsked, QueueAsked,
                          HandlersAsked, Events, Known
    <3>2. CASE ~Current(c)
      BY <1>12, <3>2, HandlerKeepsAsked DEF HandlerTakes, RolloutTypeOK, AllAsked, PanelAsked
    <3> QED
      BY <3>1, <3>2
  <2> QED
    BY <1>12, <2>1 DEF HandlerTakes, AllAsked, PanelAsked, RowAsked, RollsAsked, QueueAsked,
                       Events, FramesAsked, AgentAsked, Known, panelSide, nodeSide
<1>13. ASSUME NEW c \in Links, HandlerPushes(c) PROVE AllAsked'
  <2>1. CASE PushSucceeds(c)
    <3> PICK e \in handshake[c].todo :
          /\ Written(c, e.target)
          /\ handshake' = [handshake EXCEPT ![c] = AfterPush(handshake[c], e)]
          /\ UNCHANGED <<connected, updates>>
      BY <2>1 DEF PushSucceeds, Oldest
    <3>1. e.target \in Known
      BY DEF AllAsked, PanelAsked, HandlersAsked, Events
    <3>2. FramesAsked'
      BY <1>13, <3>1, FramesKeepAsked DEF HandlerPushes, AllAsked, PanelAsked
    <3>3. handshake[c] \in HandlerRecord
      BY DEF RolloutTypeOK, SocketsTyped
    <3>4. /\ AfterPush(handshake[c], e).target = handshake[c].target
          /\ AfterPush(handshake[c], e).todo \subseteq handshake[c].todo
      BY <3>3 DEF AfterPush, HandlerRecord
    <3>5. HandlersAsked'
      BY <1>13, <3>4 DEF HandlerPushes, RolloutTypeOK, SocketsTyped, AllAsked, PanelAsked,
                         HandlersAsked,
                        Events, Known
    <3> QED
      BY <1>13, <3>2, <3>5 DEF HandlerPushes, AllAsked, PanelAsked, RowAsked, RollsAsked,
                              QueueAsked, AgentAsked, Events, Known, nodeSide
  <2>2. CASE PushFails(c)
    <3>1. HandlersAsked'
      BY <1>13, <2>2, HandlerKeepsAsked DEF HandlerPushes, PushFails, HandlerUnregisters,
                                           RolloutTypeOK, AllAsked, PanelAsked
    <3>2. QueueAsked'
      BY <1>13, <2>2 DEF HandlerPushes, PushFails, Unacked, AllAsked, PanelAsked, QueueAsked,
                        Events, Known
    <3> QED
      BY <1>13, <2>2, <3>1, <3>2 DEF HandlerPushes, PushFails, AllAsked, PanelAsked, RowAsked,
                                    RollsAsked, FramesAsked, AgentAsked, Known, nodeSide
  <2> QED
    BY <1>13, <2>1, <2>2 DEF HandlerPushes
<1>14. ASSUME NEW c \in Links, HandlerAcks(c) PROVE AllAsked'
  <2>1. QueueAsked'
    BY <1>14 DEF HandlerAcks, Unacked, RolloutTypeOK, AllAsked, PanelAsked, QueueAsked,
                 Events, Known
  <2>2. HandlersAsked'
    BY <1>14, HandlerKeepsAsked DEF HandlerAcks, HandlerGoes, RolloutTypeOK, AllAsked,
                                    PanelAsked
  <2> QED
    BY <1>14, <2>1, <2>2 DEF HandlerAcks, AllAsked, PanelAsked, RowAsked, RollsAsked,
                             FramesAsked, AgentAsked, Known, panelSide, nodeSide
<1>15. ASSUME NEW c \in Links, HandlerEnds(c) PROVE AllAsked'
  <2>1. HandlersAsked'
    BY <1>15, HandlerKeepsAsked DEF HandlerEnds, HandlerUnregisters, RolloutTypeOK, AllAsked,
                                    PanelAsked
  <2> QED
    BY <1>15, <2>1 DEF HandlerEnds, AllAsked, PanelAsked, RowAsked, RollsAsked, QueueAsked,
                       Events, FramesAsked, AgentAsked, Known, panelSide, nodeSide
<1>16. ASSUME NEW c \in Links, NodeDisconnects(c) PROVE AllAsked'
  <2>1. FramesAsked'
    BY <1>16 DEF NodeDisconnects, RolloutTypeOK, AllAsked, PanelAsked, FramesAsked, Known
  <2>2. AgentAsked'
    BY <1>16 DEF NodeDisconnects, RolloutTypeOK, NodeTyped, NodeRecord, AllAsked, AgentAsked,
                 Known
  <2> QED
    BY <1>16, <2>1, <2>2 DEF NodeDisconnects, AllAsked, PanelAsked, RowAsked, RollsAsked,
                             QueueAsked, Events, HandlersAsked, Known, panelSide, nodeSide
<1>17. ASSUME NEW c \in Links, ReadUpdate(c) PROVE AllAsked'
  <2>1. Head(inbound[c]) \in Known /\ Tail(inbound[c]) \in Seq(Known)
    BY <1>17 DEF ReadUpdate, RolloutTypeOK, AllAsked, PanelAsked, FramesAsked
  <2>2. FramesAsked'
    BY <1>17, <2>1 DEF ReadUpdate, RolloutTypeOK, AllAsked, PanelAsked, FramesAsked, Known
  <2>3. AgentAsked'
    <3>1. ~deployment.auto => node'.pc # "check" /\ disk' \in asked'
      BY <1>17 DEF ReadUpdate, RolloutTypeOK, NodeTyped, NodeRecord, AllAsked, AgentAsked
    <3>2. CASE UNCHANGED install
      BY <1>17, <3>1, <3>2 DEF ReadUpdate, AllAsked, AgentAsked, Known
    <3>3. CASE \E j \in Installers \ {0} : Begin(j, Head(inbound[c]))
      BY <1>17, <2>1, <3>1, <3>3 DEF ReadUpdate, Begin, RolloutTypeOK, NodeTyped, AllAsked,
                                    AgentAsked, Known
    <3> QED
      BY <1>17, <3>2, <3>3 DEF ReadUpdate
  <2> QED
    BY <1>17, <2>1, <2>2, <2>3 DEF ReadUpdate, AllAsked, PanelAsked, RowAsked, RollsAsked,
                                   QueueAsked, Events, HandlersAsked, Known, panelSide,
                                   nodeSide
<1>18. ASSUME NEW j \in Installers, Installs(j) PROVE AllAsked'
  <2>1. AgentAsked'
    BY <1>18 DEF Installs, RolloutTypeOK, NodeTyped, InstallRecord, AllAsked, AgentAsked,
                 Known
  <2> QED
    BY <1>18, <2>1 DEF Installs, AllAsked, PanelAsked, RowAsked, RollsAsked, QueueAsked,
                       Events, HandlersAsked, FramesAsked, Known, panelSide, nodeSide
<1>19. ASSUME NEW j \in Installers, InstallFails(j) PROVE AllAsked'
  <2>1. AgentAsked'
    BY <1>19 DEF InstallFails, NoInstall, RolloutTypeOK, NodeTyped, NodeRecord, AllAsked,
                 AgentAsked, Known
  <2> QED
    BY <1>19, <2>1 DEF InstallFails, AllAsked, PanelAsked, RowAsked, RollsAsked, QueueAsked,
                       Events, HandlersAsked, FramesAsked, Known, panelSide, nodeSide
<1>20. ASSUME NEW j \in Installers, InstallExits(j) PROVE AllAsked'
  <2>1. FramesAsked' /\ AgentAsked'
    BY <1>20, NodeGoneAsked DEF InstallExits
  <2> QED
    BY <1>20, <2>1 DEF InstallExits, AllAsked, PanelAsked, RowAsked, RollsAsked, QueueAsked,
                       Events, HandlersAsked, Known, panelSide, nodeSide
<1>21. CASE NodeStarts
  <2>1. AgentAsked'
    BY <1>21 DEF NodeStarts, RolloutTypeOK, NodeTyped, NodeRecord, AllAsked, AgentAsked, Known
  <2> QED
    BY <1>21, <2>1 DEF NodeStarts, AllAsked, PanelAsked, RowAsked, RollsAsked, QueueAsked,
                       Events, HandlersAsked, FramesAsked, Known, panelSide, nodeSide
<1>22. CASE NodeDies
  <2>1. FramesAsked' /\ AgentAsked'
    BY <1>22, NodeGoneAsked DEF NodeDies
  <2> QED
    BY <1>22, <2>1 DEF NodeDies, AllAsked, PanelAsked, RowAsked, RollsAsked, QueueAsked,
                       Events, HandlersAsked, Known, panelSide, nodeSide
<1>23. CASE StartupCheck
  <2>1. AgentAsked'
    BY <1>23 DEF StartupCheck, AllAsked, AgentAsked
  <2> QED
    BY <1>23, <2>1 DEF StartupCheck, AllAsked, PanelAsked, RowAsked, RollsAsked, QueueAsked,
                       Events, HandlersAsked, FramesAsked, Known, panelSide, nodeSide
<1>24. CASE UploadBasicInfo
  <2>1. RowAsked'
    BY <1>24 DEF UploadBasicInfo, RolloutTypeOK, AllAsked, PanelAsked, RowRecord, RowAsked,
                 Known
  <2>2. AgentAsked'
    BY <1>24 DEF UploadBasicInfo, RolloutTypeOK, NodeTyped, NodeRecord, AllAsked, AgentAsked,
                 Known
  <2> QED
    BY <1>24, <2>1, <2>2 DEF UploadBasicInfo, AllAsked, PanelAsked, RollsAsked, QueueAsked,
                             Events, HandlersAsked, FramesAsked, Known, panelSide, nodeSide
<1>25. CASE UpdateTick
  <2>1. AgentAsked'
    BY <1>25 DEF UpdateTick, AllAsked, AgentAsked
  <2> QED
    BY <1>25, <2>1 DEF UpdateTick, AllAsked, PanelAsked, RowAsked, RollsAsked, QueueAsked,
                       Events, HandlersAsked, FramesAsked, Known, panelSide, nodeSide
<1>26. CASE UpdateExpires
  <2>1. QueueAsked'
    BY <1>26 DEF UpdateExpires, RolloutTypeOK, AllAsked, PanelAsked, QueueAsked, Events, Known
  <2> QED
    BY <1>26, <2>1 DEF UpdateExpires, AllAsked, PanelAsked, RowAsked, RollsAsked,
                       HandlersAsked, Events, FramesAsked, AgentAsked, Known, panelSide,
                       nodeSide
<1>27. CASE PanelRestarts
  <2>1. RollsAsked'
    BY <1>27 DEF PanelRestarts, NoRoll, RolloutTypeOK, AllAsked, PanelAsked, RollsAsked, Known
  <2>2. HandlersAsked'
    BY <1>27 DEF PanelRestarts, NoHandler, HandlersAsked, Events, Known
  <2>3. QueueAsked'
    BY <1>27 DEF PanelRestarts, QueueAsked
  <2> QED
    BY <1>27, <2>1, <2>2, <2>3 DEF PanelRestarts, AllAsked, PanelAsked, RowAsked, FramesAsked,
                                   AgentAsked, Known, panelSide, nodeSide
<1>28. CASE ReleasePublished
  BY <1>28 DEF ReleasePublished, AllAsked, PanelAsked, RowAsked, RollsAsked, QueueAsked,
               HandlersAsked, FramesAsked, AgentAsked, Events, Known, panelSide, nodeSide
<1>29. CASE UNCHANGED rolloutVars
  BY <1>29 DEF rolloutVars, AllAsked, PanelAsked, RowAsked, RollsAsked, QueueAsked,
               HandlersAsked, FramesAsked, AgentAsked, Events, Known, panelSide, nodeSide
<1> QED
  BY <1>1, <1>2, <1>3, <1>4, <1>5, <1>6, <1>7, <1>8, <1>9, <1>10, <1>11, <1>12, <1>13, <1>14,
     <1>15, <1>16, <1>17, <1>18, <1>19, <1>20, <1>21, <1>22, <1>23, <1>24, <1>25, <1>26, <1>27,
     <1>28, <1>29
     DEF RolloutNext, RollStep, HandlerStep, InstallStep

\* An agent that was told to leave updates to the panel never has a version on
\* disk that it was not deployed with and that no operator asked for, whatever is
\* lost, late, restarted or repeated between them (agent/cmd/root.go,
\* adminRollAgentUpdate, DispatchV2Event, resendPersistedAgentUpdateTarget).
THEOREM OnlyInvitedVersions == RolloutSpec => []NoUninvitedVersion
<1>1. RolloutInit => AllAsked
  <2> SUFFICES ASSUME RolloutInit PROVE AllAsked
    OBVIOUS
  <2>1. disk \in asked /\ RowAsked
    <3> PICK t \in Targets, clear \in BOOLEAN :
           row = [target |-> t, pendingClear |-> clear, version |-> disk]
      BY DEF RolloutInit
    <3> QED
      BY BoundsAreNatural DEF RolloutInit, RowAsked, Known, NoTarget
  <2>2. RollsAsked /\ QueueAsked /\ HandlersAsked
    BY DEF RolloutInit, NoRoll, NoHandler, RollsAsked, QueueAsked, HandlersAsked, Known
  <2>3. FramesAsked /\ AgentAsked
    BY <2>1 DEF RolloutInit, AllIdle, NoInstall, FramesAsked, AgentAsked, Known
  <2> QED
    BY <2>1, <2>2, <2>3 DEF AllAsked, PanelAsked
<1>2. AllAsked => NoUninvitedVersion
  BY DEF AllAsked, AgentAsked, NoUninvitedVersion
<1> QED
  BY <1>1, <1>2, AskedStep, RolloutTyped, PTL DEF RolloutSpec
=============================================================================
