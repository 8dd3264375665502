----------------------------- MODULE RemoteUpload -----------------------------
(***************************************************************************)
(* Uploads of the file manager to an agent (web/filemanager/transfer.go and *)
(* client.go; agent/server/files.go and file_stream.go).                    *)
(*                                                                          *)
(* The panel keeps a session for an upload in memory, with a slot, and in a *)
(* state file from which it restores the session after a restart.  A        *)
(* browser's request finds the session, makes one call to the agent and     *)
(* waits for its answer, a time-out or the browser to go.  The agent runs   *)
(* every call in a goroutine of its own: streams write their chunk into a   *)
(* private part file, a commit waits for the streams and renames that file  *)
(* to the target, a cancel removes it and refuses later streams.            *)
(*                                                                          *)
(* A file is the set of its chunks.  An agent's calls and the requests of   *)
(* browsers are only bounded in number; the order they run in is free.      *)
(***************************************************************************)
EXTENDS Integers, FiniteSets

CONSTANTS
    Uploads,      \* upload ids, each with a target path of its own
    NoUpload,     \* the upload of a request that has none
    PartCount,    \* chunks of an upload
    Callers,      \* goroutines of requests and of the minute's cleanup
    UploadSlots,  \* maxConcurrentUploads: 4
    SessionTTL,   \* uploadSessionTTL: 15 minutes
    StreamTTL,    \* streamCallTimeout: 30 minutes
    SameSize,     \* uploads whose target is a file of the same size already
    UploadHorizon,    \* bound: the clock stops there
    MaxObjects,       \* bound: session objects made for one upload
    MaxCalls,         \* bound: calls to the agent, but for those that ask for
                      \* the target after a commit, and sessions restored
    MaxUploadFaults   \* bound: requests that stop waiting for their call,
                      \* restarts of the agent and of the panel, and ticks

ASSUME NoUploadIsNone == NoUpload \notin Uploads /\ SameSize \subseteq Uploads
ASSUME UploadSizes == PartCount \in Nat \ {0} /\ UploadSlots \in Nat \ {0}
ASSUME UploadTimes == SessionTTL \in Nat /\ StreamTTL \in Nat /\ UploadHorizon \in Nat
ASSUME UploadBounds == /\ MaxObjects \in Nat \ {0} /\ MaxCalls \in Nat
                       /\ MaxUploadFaults \in Nat

VARIABLES
    uploadClock, \* time.Now
    session,     \* uploadSessions: the number of the session object, 0 for none
    objects,     \* session objects made for an upload so far
    expiresAt,   \* ExpiresAt of each object
    slots,       \* length of uploadSlots
    stateFile,   \* the expiry in the state file, or NoFile
    caller,      \* the panel's requests
    calls,       \* calls to the agent that somebody waits for or that run
    made,        \* calls made and sessions restored so far
    known,       \* agent: uploads that have an entry in uploadChunks
    got,         \* agent: Parts of that entry
    partFile,    \* agent: the part file on disk, and the chunks in it
    cancelled,   \* agent: uploads with a tombstone
    target,      \* agent: the chunks of the upload that the target path holds
    completed,   \* history: uploads a browser was told are complete
    uploadFaults \* requests that gave up, restarts and ticks so far

callState == <<calls, made>>
sessionState == <<session, objects, expiresAt, slots, stateFile>>
agentState == <<known, got, partFile, cancelled, target>>
remoteVars == <<uploadClock, sessionState, caller, callState, agentState, completed,
                uploadFaults>>

Parts == 0..(PartCount - 1)
Objects == 1..MaxObjects
NoFile == -1
NoPartFile == [exists |-> FALSE, data |-> {}]

CallerKinds == {"none", "chunk", "merge", "cancel", "cleanup"}
CallerStages == {"idle", "check", "remove", "restore", "insert", "use", "wait", "stat"}
Free == [kind |-> "none", on |-> NoUpload, part |-> 0, object |-> 0, stage |-> "idle",
         call |-> 0]

\* A call is forgotten when nobody waits for it and nothing runs for it.
CallIds == 1..MaxCalls
NoCall == [kind |-> "none", on |-> NoUpload, part |-> 0, stage |-> "over"]

\* A stream is sent, active, checked, open (or detached, when the file it opened
\* was renamed) and written; a commit and a cancel are alone when no stream is
\* active, and a commit is checked and renamed.  Answers end a call that somebody
\* waits for, the others are over.
CallKinds == {"stream", "commit", "cancel", "stat"}
StreamActive == {"active", "checked", "open", "detached", "written"}
Answers == {"ok", "failed", "unknown"}
Ended == Answers \cup {"over"}
CallStages == {"sent", "alone", "renamed", "over"} \cup StreamActive \cup Answers

RemoteInit ==
    /\ uploadClock = 0
    /\ session = [u \in Uploads |-> 0] /\ objects = [u \in Uploads |-> 0]
    /\ expiresAt = [u \in Uploads |-> [n \in Objects |-> 0]]
    /\ slots = 0 /\ stateFile = [u \in Uploads |-> NoFile]
    /\ caller = [h \in Callers |-> Free] /\ calls = [i \in CallIds |-> NoCall] /\ made = 0
    /\ known = {} /\ got = [u \in Uploads |-> {}]
    /\ partFile = [u \in Uploads |-> NoPartFile]
    /\ cancelled = {} /\ target = [u \in Uploads |-> {}]
    /\ completed = {}
    /\ uploadFaults = 0

-----------------------------------------------------------------------------
(* The panel's sessions. *)

UploadFault == uploadFaults < MaxUploadFaults /\ uploadFaults' = uploadFaults + 1

CallerIs(h, stage) == caller[h].stage = stage
CallerGoes(h, stage) == caller' = [caller EXCEPT ![h].stage = stage]
CallerDone(h) == caller' = [caller EXCEPT ![h] = Free]

\* A merge holds session.mu for the whole of its calls.
SessionLocked(u, n) ==
    \E h \in Callers : /\ caller[h].kind = "merge" /\ caller[h].stage \in {"wait", "stat"}
                       /\ caller[h].on = u /\ caller[h].object = n

SessionExpired(u, n) == uploadClock > expiresAt[u][n]

SaveState(u, n) == stateFile' = [stateFile EXCEPT ![u] = expiresAt[u][n]]

\* initRemoteUpload with acquireUploadSession: a slot, an object, a state file.
InitUpload(u) ==
    /\ objects[u] = 0 /\ slots < UploadSlots
    /\ slots' = slots + 1
    /\ objects' = [objects EXCEPT ![u] = 1] /\ session' = [session EXCEPT ![u] = 1]
    /\ expiresAt' = [expiresAt EXCEPT ![u][1] = uploadClock + SessionTTL]
    /\ stateFile' = [stateFile EXCEPT ![u] = uploadClock + SessionTTL]
    /\ UNCHANGED <<uploadClock, caller, callState, agentState, completed, uploadFaults>>

\* A request with an upload id, or a round of the cleanup, looks into the map.
LookUp(h, u, kind, part) ==
    /\ CallerIs(h, "idle") /\ objects[u] > 0
    /\ kind = "cleanup" => session[u] # 0
    /\ caller' = [caller EXCEPT ![h] =
                    [Free EXCEPT !.kind = kind, !.on = u, !.part = part,
                                 !.object = session[u],
                                 !.stage = IF session[u] = 0 THEN "restore" ELSE "check"]]
    /\ UNCHANGED <<uploadClock, sessionState, callState, agentState, completed, uploadFaults>>

\* uploadSessionExpired, under session.mu.
CheckExpiry(h) ==
    LET c == caller[h] IN
    /\ CallerIs(h, "check") /\ ~SessionLocked(c.on, c.object)
    /\ IF SessionExpired(c.on, c.object) THEN CallerGoes(h, "remove")
       ELSE IF c.kind = "cleanup" THEN CallerDone(h) ELSE CallerGoes(h, "use")
    /\ UNCHANGED <<uploadClock, sessionState, callState, agentState, completed, uploadFaults>>

\* A call has an id of its own; which one no other part of the model looks at.
FreeCall == CHOOSE i \in CallIds : calls[i] = NoCall

NewCall(kind, u, part) ==
    /\ made < MaxCalls /\ made' = made + 1
    /\ calls' = [calls EXCEPT ![FreeCall] =
                   [kind |-> kind, on |-> u, part |-> part, stage |-> "sent"]]

\* removeExpiredUploadSession, under uploadMu: the session may have been renewed
\* meanwhile.  The agent is told in the background, and nobody waits for it.
RemoveExpired(h) ==
    LET c == caller[h] u == c.on
        after == IF c.kind = "cleanup" THEN Free ELSE [c EXCEPT !.stage = "restore"]
    IN  /\ CallerIs(h, "remove")
        /\ IF session[u] = c.object
           THEN /\ session' = [session EXCEPT ![u] = 0] /\ slots' = slots - 1
                /\ stateFile' = [stateFile EXCEPT ![u] = NoFile]
                /\ NewCall("cancel", u, 0)
                /\ caller' = [caller EXCEPT ![h] = after]
           ELSE /\ IF c.kind = "cleanup" THEN CallerDone(h) ELSE CallerGoes(h, "use")
                /\ UNCHANGED <<session, slots, stateFile, callState>>
        /\ UNCHANGED <<uploadClock, objects, expiresAt, agentState, completed, uploadFaults>>

\* restoreUploadSession: an object is made from the state file, if it is there
\* and has not expired.
RestoreSession(h) ==
    LET u == caller[h].on n == objects[u] + 1 IN
    /\ CallerIs(h, "restore")
    /\ IF stateFile[u] = NoFile \/ uploadClock > stateFile[u]
       THEN /\ stateFile' = [stateFile EXCEPT ![u] = NoFile] /\ CallerDone(h)
            /\ UNCHANGED <<objects, expiresAt, made>>
       ELSE /\ n \in Objects /\ made < MaxCalls /\ made' = made + 1
            /\ objects' = [objects EXCEPT ![u] = n]
            /\ expiresAt' = [expiresAt EXCEPT ![u][n] = stateFile[u]]
            /\ caller' = [caller EXCEPT ![h].stage = "insert", ![h].object = n]
            /\ UNCHANGED stateFile
    /\ UNCHANGED <<uploadClock, session, slots, calls, agentState, completed, uploadFaults>>

\* Another request may have restored it first; a restored session takes a slot.
InsertRestored(h) ==
    LET u == caller[h].on IN
    /\ CallerIs(h, "insert")
    /\ IF session[u] # 0
       THEN /\ caller' = [caller EXCEPT ![h].stage = "use", ![h].object = session[u]]
            /\ UNCHANGED <<session, slots>>
       ELSE IF slots < UploadSlots
       THEN /\ slots' = slots + 1 /\ session' = [session EXCEPT ![u] = caller[h].object]
            /\ CallerGoes(h, "use")
       ELSE CallerDone(h) /\ UNCHANGED <<session, slots>>
    /\ UNCHANGED <<uploadClock, objects, expiresAt, stateFile, callState, agentState,
                   completed, uploadFaults>>

-----------------------------------------------------------------------------
(* What a request does with its session. *)

\* Call: the request waits for the call it makes.
Dispatch(h, kind, stage) ==
    /\ NewCall(kind, caller[h].on, caller[h].part)
    /\ caller' = [caller EXCEPT ![h].stage = stage, ![h].call = FreeCall]

\* uploadRemoteChunkStream: the session is kept for as long as a stream may take.
StartChunk(h) ==
    LET u == caller[h].on n == caller[h].object IN
    /\ CallerIs(h, "use") /\ caller[h].kind = "chunk" /\ ~SessionLocked(u, n)
    /\ expiresAt' = [expiresAt EXCEPT ![u][n] = uploadClock + StreamTTL]
    /\ stateFile' = [stateFile EXCEPT ![u] = uploadClock + StreamTTL]
    /\ Dispatch(h, "stream", "wait")
    /\ UNCHANGED <<uploadClock, session, objects, slots, agentState, completed, uploadFaults>>

\* mergeRemoteUpload: session.mu is taken, the agent is asked to commit.
StartMerge(h) ==
    /\ CallerIs(h, "use") /\ caller[h].kind = "merge"
    /\ ~SessionLocked(caller[h].on, caller[h].object)
    /\ Dispatch(h, "commit", "wait")
    /\ UNCHANGED <<uploadClock, sessionState, agentState, completed, uploadFaults>>

StartCancel(h) ==
    /\ CallerIs(h, "use") /\ caller[h].kind = "cancel"
    /\ Dispatch(h, "cancel", "wait")
    /\ UNCHANGED <<uploadClock, sessionState, agentState, completed, uploadFaults>>

\* What a request learns: the answer of its call, or nothing.
Learns(h, answer) ==
    LET i == caller[h].call IN
    \/ /\ calls[i].stage = answer /\ calls' = [calls EXCEPT ![i] = NoCall]
       /\ UNCHANGED uploadFaults
    \/ /\ answer = "failed" /\ UploadFault
       /\ calls' = [calls EXCEPT ![i] = IF @.stage \in Ended THEN NoCall ELSE @]

\* A slot given back whether or not the session is still the map's (mutant of
\* FinishSession).
FinishAlways(u, n) ==
    /\ stateFile' = [stateFile EXCEPT ![u] = NoFile]
    /\ session' = [session EXCEPT ![u] = 0] /\ slots' = slots - 1
    /\ UNCHANGED <<objects, expiresAt>>

\* finishUploadSession: the state file goes, and the session if it is still the
\* map's.
FinishSession(u, n) ==
    /\ stateFile' = [stateFile EXCEPT ![u] = NoFile]
    /\ IF session[u] = n THEN session' = [session EXCEPT ![u] = 0] /\ slots' = slots - 1
       ELSE UNCHANGED <<session, slots>>
    /\ UNCHANGED <<objects, expiresAt>>

\* The end of a chunk, which the agent may not know the upload of any more: the session
\* is saved, unless the browser's body failed.
EndChunk(h) ==
    LET u == caller[h].on n == caller[h].object IN
    /\ CallerIs(h, "wait") /\ caller[h].kind = "chunk" /\ CallerDone(h)
    /\ \E answer \in {"ok", "failed", "unknown"} :
         /\ Learns(h, answer)
         /\ \/ ~SessionLocked(u, n) /\ SaveState(u, n)
            \/ answer = "ok" /\ UNCHANGED stateFile
    /\ UNCHANGED <<uploadClock, made, session, objects, expiresAt, slots, agentState, completed>>

\* The end of a merge, or the question whether an earlier one made it.  The
\* mutant takes an unknown upload for a completed one.
TrustUnknown(h) ==
    LET u == caller[h].on n == caller[h].object IN
    /\ CallerIs(h, "wait") /\ caller[h].kind = "merge"
    /\ \E answer \in {"ok", "unknown"} : Learns(h, answer)
    /\ FinishSession(u, n) /\ completed' = completed \cup {u} /\ CallerDone(h)
    /\ UNCHANGED <<uploadClock, made, agentState>>

MergeAnswered(h) ==
    LET u == caller[h].on n == caller[h].object IN
    /\ CallerIs(h, "wait") /\ caller[h].kind = "merge" /\ Learns(h, "ok")
    /\ FinishSession(u, n) /\ completed' = completed \cup {u} /\ CallerDone(h)
    /\ UNCHANGED <<uploadClock, made, agentState>>

MergeUnknown(h) ==
    LET i == caller[h].call u == caller[h].on IN
    /\ CallerIs(h, "wait") /\ caller[h].kind = "merge" /\ calls[i].stage = "unknown"
    /\ calls' = [calls EXCEPT ![i].kind = "stat", ![i].stage = "sent"]
    /\ CallerGoes(h, "stat")
    /\ UNCHANGED <<uploadClock, made, sessionState, agentState, completed, uploadFaults>>

\* The target has the upload's size: it is complete.
StatAnswered(h) ==
    LET u == caller[h].on n == caller[h].object IN
    /\ CallerIs(h, "stat") /\ Learns(h, "ok")
    /\ FinishSession(u, n) /\ completed' = completed \cup {u} /\ CallerDone(h)
    /\ UNCHANGED <<uploadClock, made, agentState>>

MergeFailed(h) ==
    LET u == caller[h].on n == caller[h].object IN
    /\ caller[h].kind = "merge" /\ caller[h].stage \in {"wait", "stat"}
    /\ Learns(h, "failed")
    /\ SaveState(u, n) /\ CallerDone(h)
    /\ UNCHANGED <<uploadClock, made, session, objects, expiresAt, slots, agentState, completed>>

\* cancelUpload finishes the session whatever the agent says.
EndCancel(h) ==
    LET u == caller[h].on n == caller[h].object IN
    /\ CallerIs(h, "wait") /\ caller[h].kind = "cancel" /\ ~SessionLocked(u, n)
    /\ \E answer \in {"ok", "failed"} : Learns(h, answer)
    /\ FinishSession(u, n) /\ CallerDone(h)
    /\ UNCHANGED <<uploadClock, made, agentState, completed>>

-----------------------------------------------------------------------------
(* The agent: upload_stream. *)

Is(i, kind, stage) == calls[i].kind = kind /\ calls[i].stage = stage
CallGoes(i, stage) == calls' = [calls EXCEPT ![i].stage = stage]

\* postFileResult: an answer nobody waits for is dropped.
Replied(i, answer) == IF \E h \in Callers : caller[h].call = i
                      THEN [calls[i] EXCEPT !.stage = answer] ELSE NoCall
Reply(i, answer) == calls' = [calls EXCEPT ![i] = Replied(i, answer)]

panelState == <<uploadClock, made, sessionState, caller, completed, uploadFaults>>

\* beginUploadStream: a cancelled upload takes no more streams.
StreamBegins(i) ==
    /\ Is(i, "stream", "sent")
    /\ IF calls[i].on \in cancelled THEN Reply(i, "failed") ELSE CallGoes(i, "active")
    /\ UNCHANGED <<panelState, agentState>>

\* The first chunk makes the entry and an empty part file, the others need one.
StreamChecks(i) ==
    LET u == calls[i].on IN
    /\ Is(i, "stream", "active")
    /\ IF u \in known THEN CallGoes(i, "checked") /\ UNCHANGED <<known, got, partFile>>
       ELSE IF calls[i].part = 0
       THEN /\ known' = known \cup {u} /\ got' = [got EXCEPT ![u] = {}]
            /\ partFile' = [partFile EXCEPT ![u] = [exists |-> TRUE, data |-> {}]]
            /\ CallGoes(i, "checked")
       ELSE Reply(i, "unknown") /\ UNCHANGED <<known, got, partFile>>
    /\ UNCHANGED <<panelState, cancelled, target>>

\* The part file is opened, and made if it has gone.
StreamOpens(i) ==
    /\ Is(i, "stream", "checked") /\ CallGoes(i, "open")
    /\ partFile' = [partFile EXCEPT ![calls[i].on].exists = TRUE]
    /\ UNCHANGED <<panelState, known, got, cancelled, target>>

\* The whole chunk is written and synced; what goes to a renamed file is in it.
StreamWrites(i) ==
    LET u == calls[i].on IN
    /\ calls[i].kind = "stream" /\ calls[i].stage \in {"open", "detached"}
    /\ CallGoes(i, "written")
    /\ partFile' = IF calls[i].stage = "open"
                   THEN [partFile EXCEPT ![u].data = @ \cup {calls[i].part}]
                   ELSE partFile
    /\ UNCHANGED <<panelState, known, got, cancelled, target>>

\* The chunk counts from here, if the upload still has its entry.
StreamRecords(i) ==
    LET u == calls[i].on IN
    /\ Is(i, "stream", "written")
    /\ IF u \in known
       THEN got' = [got EXCEPT ![u] = @ \cup {calls[i].part}] /\ Reply(i, "ok")
       ELSE Reply(i, "failed") /\ UNCHANGED got
    /\ UNCHANGED <<panelState, known, partFile, cancelled, target>>

\* The browser, the panel or the agent ends the transfer before the last byte.
StreamBreaks(i) ==
    /\ calls[i].kind = "stream" /\ calls[i].stage \in {"active", "open", "detached"}
    /\ Reply(i, "failed")
    /\ UNCHANGED <<panelState, agentState>>

-----------------------------------------------------------------------------
(* The agent: upload_commit, upload_cancel and stat.  The write lock of an     *)
(* upload is left out, so that two commits may both be between the check and   *)
(* the rename: in the code they are when a third operation, which deletes the  *)
(* lock from uploadWriteLocks, has let them hold different locks.              *)

NoStream(u) == \A i \in CallIds : ~(calls[i].kind = "stream" /\ calls[i].on = u
                                     /\ calls[i].stage \in StreamActive)

\* waitUploadStreams; a cancel first leaves a tombstone.
CommitWaits(i) ==
    /\ Is(i, "commit", "sent") /\ NoStream(calls[i].on)
    /\ CallGoes(i, "alone")
    /\ UNCHANGED <<panelState, agentState>>

\* A commit without its check (mutant of CommitChecks).
CommitUnchecked(i) ==
    LET u == calls[i].on IN
    /\ Is(i, "commit", "alone")
    /\ IF u \notin known THEN Reply(i, "unknown") ELSE CallGoes(i, "checked")
    /\ UNCHANGED <<panelState, agentState>>

CommitChecks(i) ==
    LET u == calls[i].on IN
    /\ Is(i, "commit", "alone")
    /\ IF u \notin known THEN Reply(i, "unknown")
       ELSE IF got[u] # Parts THEN Reply(i, "failed") ELSE CallGoes(i, "checked")
    /\ UNCHANGED <<panelState, agentState>>

\* The part file, if it is there and long enough, becomes the target; streams
\* that have it open go on writing to the target.
CommitRenames(i) ==
    LET u == calls[i].on
        file == partFile[u]
    IN  /\ Is(i, "commit", "checked")
        /\ IF file.exists /\ PartCount - 1 \in file.data
           THEN /\ target' = [target EXCEPT ![u] = file.data]
                /\ partFile' = [partFile EXCEPT ![u] = NoPartFile]
                /\ calls' = [j \in CallIds |->
                               IF j = i THEN [calls[j] EXCEPT !.stage = "renamed"]
                               ELSE IF calls[j].on = u /\ calls[j].stage = "open"
                               THEN [calls[j] EXCEPT !.stage = "detached"] ELSE calls[j]]
           ELSE Reply(i, "failed") /\ UNCHANGED <<target, partFile>>
        /\ UNCHANGED <<panelState, known, got, cancelled>>

CommitForgets(i) ==
    /\ Is(i, "commit", "renamed") /\ Reply(i, "ok")
    /\ known' = known \ {calls[i].on} /\ got' = [got EXCEPT ![calls[i].on] = {}]
    /\ UNCHANGED <<panelState, partFile, cancelled, target>>

CancelBegins(i) ==
    /\ Is(i, "cancel", "sent") /\ CallGoes(i, "alone")
    /\ cancelled' = cancelled \cup {calls[i].on}
    /\ UNCHANGED <<panelState, known, got, partFile, target>>

CancelRemoves(i) ==
    LET u == calls[i].on IN
    /\ Is(i, "cancel", "alone") /\ NoStream(u)
    /\ known' = known \ {u} /\ got' = [got EXCEPT ![u] = {}]
    /\ partFile' = [partFile EXCEPT ![u] = NoPartFile]
    /\ Reply(i, "ok")
    /\ UNCHANGED <<panelState, cancelled, target>>

\* The size of the target is the upload's.
StatReplies(i) ==
    LET u == calls[i].on IN
    /\ Is(i, "stat", "sent")
    /\ Reply(i, IF PartCount - 1 \in target[u] \/ u \in SameSize THEN "ok" ELSE "failed")
    /\ UNCHANGED <<panelState, agentState>>

-----------------------------------------------------------------------------
(* Restarts and the clock. *)

\* The agent forgets its uploads and its tombstones; files stay.  Calls that are
\* queued may still arrive.
AgentRestart ==
    /\ UploadFault
    /\ calls' = [i \in CallIds |-> IF calls[i].stage \in {"sent"} \cup Ended THEN calls[i]
                                    ELSE Replied(i, "over")]
    /\ known' = {} /\ got' = [u \in Uploads |-> {}] /\ cancelled' = {}
    /\ UNCHANGED <<uploadClock, made, sessionState, caller, partFile, target, completed>>

\* The panel forgets its sessions and requests, and the calls it has not sent out
\* yet; state files stay.
PanelRestart ==
    /\ UploadFault
    /\ session' = [u \in Uploads |-> 0] /\ slots' = 0
    /\ caller' = [h \in Callers |-> Free]
    /\ \E lost \in SUBSET {i \in CallIds : calls[i].stage = "sent"} :
         calls' = [i \in CallIds |-> IF i \in lost \/ calls[i].stage \in Ended
                                     THEN NoCall ELSE calls[i]]
    /\ UNCHANGED <<uploadClock, made, objects, expiresAt, stateFile, agentState, completed>>

UploadTick ==
    /\ UploadFault /\ uploadClock < UploadHorizon /\ uploadClock' = uploadClock + 1
    /\ UNCHANGED <<sessionState, caller, callState, agentState, completed>>

RemoteNext ==
    \/ \E u \in Uploads : InitUpload(u)
    \/ \E h \in Callers :
         \/ \E u \in Uploads :
              \/ \E part \in Parts : LookUp(h, u, "chunk", part)
              \/ \E kind \in {"merge", "cancel", "cleanup"} : LookUp(h, u, kind, 0)
         \/ CheckExpiry(h) \/ RemoveExpired(h) \/ RestoreSession(h) \/ InsertRestored(h)
         \/ StartChunk(h) \/ StartMerge(h) \/ StartCancel(h)
         \/ EndChunk(h) \/ MergeAnswered(h) \/ MergeUnknown(h) \/ StatAnswered(h)
         \/ MergeFailed(h) \/ EndCancel(h)
    \/ \E i \in CallIds :
         \/ StreamBegins(i) \/ StreamChecks(i) \/ StreamOpens(i) \/ StreamWrites(i)
         \/ StreamRecords(i) \/ StreamBreaks(i)
         \/ CommitWaits(i) \/ CommitChecks(i) \/ CommitRenames(i) \/ CommitForgets(i)
         \/ CancelBegins(i) \/ CancelRemoves(i) \/ StatReplies(i)
    \/ AgentRestart \/ PanelRestart \/ UploadTick

RemoteSpec == RemoteInit /\ [][RemoteNext]_remoteVars

-----------------------------------------------------------------------------
(* Properties. *)

CallerRecord == [kind : CallerKinds, on : Uploads \cup {NoUpload}, part : Parts,
                 object : 0..MaxObjects, stage : CallerStages, call : 0..MaxCalls]
CallRecord == [kind : CallKinds, on : Uploads, part : Parts, stage : CallStages]

\* The state keeps its shape: a session is one of the objects made, the agent
\* counts chunks only of uploads it knows.
RemoteTypeOK ==
    /\ uploadClock \in Nat /\ slots \in Int
    /\ objects \in [Uploads -> 0..MaxObjects]
    /\ session \in [Uploads -> 0..MaxObjects] /\ \A u \in Uploads : session[u] <= objects[u]
    /\ expiresAt \in [Uploads -> [Objects -> Nat]]
    /\ stateFile \in [Uploads -> Nat \cup {NoFile}]
    /\ caller \in [Callers -> CallerRecord]
    /\ calls \in [CallIds -> CallRecord \cup {NoCall}] /\ made \in 0..MaxCalls
    /\ known \subseteq Uploads /\ cancelled \subseteq Uploads /\ completed \subseteq Uploads
    /\ got \in [Uploads -> SUBSET Parts] /\ \A u \in Uploads \ known : got[u] = {}
    /\ partFile \in [Uploads -> [exists : BOOLEAN, data : SUBSET Parts]]
    /\ target \in [Uploads -> SUBSET Parts]

\* Slots are neither lost nor given back twice, whoever expires, restores,
\* finishes or cancels a session at the same time: as many are taken as there
\* are sessions in the map.
SlotsAccounted ==
    slots = Cardinality({u \in Uploads : session[u] # 0}) /\ slots <= UploadSlots

\* "Wait for every active stream before inspecting and renaming the part file"
\* (files.go:664-665): the file that appears at the target is the whole upload,
\* whatever was cancelled, sent again, cut short or restarted before.  (What late
\* duplicates of a committed upload's chunks may do to it is not claimed.)
PublishedWhole ==
    [][\A u \in Uploads : target[u] = {} => target'[u] \in {{}, Parts}]_remoteVars

\* A browser is told that an upload is complete only when it was published, for
\* every answer that is lost or late; a target that had the upload's size before
\* cannot tell them apart.
CompleteMeansStored == \A u \in completed \ SameSize : target[u] # {}
=============================================================================
