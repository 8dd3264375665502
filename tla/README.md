# Nekomari in TLA+

Nekomari is a monitoring panel (Go, this repository's root module) with agents
(`agent/`) on the monitored nodes. Agents report over a WebSocket or, as a
fallback, over HTTP POST; the panel keeps live state in memory, batches
measurements into a metric store, evaluates alerts, and sends commands (ping
tasks, terminal, file operations, configuration) back through the same
transports. This directory holds TLA+ models of the parts of the system whose
correctness depends on interleavings, failures and time, the TLC runs that
check them on small instances, and TLAPS proofs for every instance.

## Inventory

| Component | Where | State | Operations | Hard part | Correctness |
|---|---|---|---|---|---|
| Offline/online notifications | utils/notifier/offline.go, maintenance_defer.go, web/api/client/presence.go | per-node marker, deferred queue | connect, disconnect, grace end, minute sweep | goroutines of successive connections, two transports, slow sends | every lasting outage is reported once, not early, not in a window; recovery iff reported |
| Maintenance windows | internal/maintenance, utils/notifier/windows.go | stored windows, 30 s cache | contains, evaluate, defer | boundaries | half-open, soonest end |
| Agent registry and event queues | web/agent, web/api/client/report_v2.go, internal/clientguard | live sockets with a generation, per-node bounded event queue | dispatch, enqueue, ack, take, long poll, sweep, reset | a write that fails while the node reconnects or its token rotates; at-least-once delivery with deduplication on the agent | no command crosses a retirement; no acked command returns; bounded queue |
| Report batching | internal/metricstore/report_batcher.go | queued reports, per-node baseline | enqueue, flush, commit, stop | failed write retried whole, flush racing stop, reload | a sample is counted once |
| Metric store | internal/metricstore, pkg/metric | time series, rollups, gate | write, query, compact, reopen | samples in memory before they are durable, two threads flushing, recovery of parents | minutes count each sample once; a sealed parent equals its minutes |
| Caches | internal/dbcache, internal/config/cache.go, database/accounts/session_cache.go | cached row, generation | load, invalidate | fill racing an invalidation | no stale value after an invalidation returns |
| Sessions, API keys, login limiting | database/accounts, internal/apikeys, web/security | sessions, failure counters | login, refresh, revoke | concurrent failures | limits hold |
| Uploads | web/upload | chunk files, claims | begin, put, complete, expire | two completions, expiry during write | content is complete and published once |
| Terminal sessions | web/api/terminal, agent/terminal | paired sockets | request, attach, forward, close | attach racing timeout | both ends are closed |
| File manager | web/filemanager | transfers | stream, cancel | partial transfers | no partial file is published |
| Scheduler | internal/scheduler | jobs | tick, run | overlapping ticks | see the notifier |
| Agent link | agent/server | reconnect backoff, seen events, POST fallback | connect, report, poll, ack | lost acknowledgements | an event with an id is executed at most once by one agent process |
| Agent measurement | agent/monitoring | counters, traffic totals | sample | counter resets | monotone totals |
| Self update | agent/update | requested version, installs under way, the executable | check, tick, install, exit | installs that overlap, targets lost at an exit | only versions that somebody asked for, or the newest |
| Agent rollout | web/rpc/jsonrpc/admin.agentupdate.go, database/clients, web/api/client/report_v2.go | persisted target, owed clear, queued events | roll out, send again at a connection, settle | a rollout racing the handshake of its node | the node ends at the version the panel holds for it |
| Managed configuration | web/api/admin, internal/managedconfig | revisions | save, report applied | node applying an old revision | converges to the newest |
| Backup and restore | web/backup, web/api/admin/archive_upload.go, database/dbcore, web/recovery, internal/backupwatch | `./data`, the staged backup, snapshots and upgrade archives | stage, announce, snapshot, wipe, extract, archive, prune | any step fails or dies and the whole is begun again | nothing is deleted without a copy, a promised backup is applied |
| Migrations | pkg/metric/restructure.go, web/migration, internal/migrations | old, rebuilt and backup tables, the guide | inspect, rebuild, discard, switch, finish | a death between statements that commit; points and rows that overlap | the history is whole after every statement, counted once, and the upgrade finishes |
| SLA and uptime | internal/sla | generations of intervals | record, roll up | generation change | intervals do not overlap |
| Plugins, JS runtime | internal/plugin, pkg/jsruntime | loaded scripts | install, enable, call | hot reload | old instance is stopped |
| RPC dispatch | pkg/rpc, web/rpc | method table | call | none | - |
| Site and themes | frontend, site, web/public | static | - | none | - |

The hazards list of PROJECT.json names, for each component, the line where it bites.

## Plan

Order of work, most important behaviour first:

1. `MaintenanceWindow`, `OfflineNotifier`: the alerting core (done), with proofs.
2. `AgentEvents`, `CommandMailbox`: registry generations, bounded event queue,
   long polls, retirement and the agent's deduplication (done), with proofs.
3. `MetricIngest`: from an accepted report to its sealed rollup (done), with
   proofs of all its properties.
4. `SessionCache`: the session cache around an unlocked query (done), with proofs of what
   holds of it; that a revocation takes effect at once does not.
5. `UploadStore`, `RemoteUpload`, `TerminalSessions` (done), with proofs of all their properties.
6. `SchemaRebuild`, `RebuiltHistory`: the upgrade of the metric tables (done), with
   proofs of all their safety properties.
7. `AgentRollout`: rollouts, persisted targets and the agent's updates (done), with
   proofs of its safety.
8. `DataRestore`: the restore of a backup and the archives of version upgrades (done),
   with proofs of all its properties.
9. Next: the move of the store to another database, the plugins' lifecycle, the
   accounting of traffic and availability.

Proof modules: `OfflineNotifier_proofs`, `AgentEvents_proofs`, `MetricStore_proofs`
(`MetricIngest`, `RebuiltHistory`), `SessionCache_proofs`, `Uploads_proofs`
(`UploadStore`, `RemoteUpload`), `TerminalSessions_proofs`, `Upgrade_proofs`
(`SchemaRebuild`, `DataRestore`) and `AgentRollout_proofs`.

Every safety property of a passing run is stated by a theorem, for its component
alone and for every value of the constants. Five of these theorems have a hypothesis,
explained with their component: three of the notifier's, `ParentsMatch` and
`ServedUntilRemoved`. The type invariants and `CacheBounded` are
proved too, and no run repeats them. What is left to TLC are the five liveness
properties, `LastingOutageReported`, `QueuedIsRun`, `UpgradeHappens`, `RolloutConverges`
and `UnpinnedTracks`, which the prover cannot reach, and the runs that expect a violation.

Components that share no state are checked in common runs, whose first state
chooses one of them: `MCRaces` (alerts, rebuilt history, restore), `MCLiveness`
(alerts, commands, upgrade), `MCPanelState` (ingestion, sessions, commands around a
rotation) and `MCTransfers` (both uploads,
terminal, commands over POST, over sockets and across restarts of the agent). `MCLiveness` states each component's
fairness for its own behaviours only. `MCAgentRollout` stands alone.

## Offline and online notifications

`OfflineNotifier` models one node and everything that can act on its
notification state:

| State | Code |
|---|---|
| `pendingOfflineSince`, `isFirstConnection`, `isConnExist`, `connectionID` | `notificationState`, utils/notifier/offline.go |
| `deferred` | the node's entry in `deferredAlerts`, utils/notifier/maintenance_defer.go |
| `online[c]`, `offline[c]` | the goroutines started for connection `c`: `OnlineNotification`, `OfflineNotification` and its grace goroutine |
| `sweep[s]` | one run of `sweepDeferredAlerts`; several may overlap, because the scheduler starts every tick with `go` |
| `conn`, `transport`, `opened` | the report sockets (web/api/client/report_v2.go) and the POST presence entry (web/api/client/presence.go), which is one long-lived connection |
| `postEntry`, `postDeadline` | `postPresenceStates` and its timer |
| `outbox`, `failures` | notices handed to a sender goroutine, and sends that failed |
| `windows`, `now` | the stored maintenance schedule and the clock |

Every critical section (`state.mu`, `deferredMu`, `postPresenceMu`) is one
action; between two of them any other process may step. Other nodes share
nothing with this one except the sweep: their alerts appear as time passing
(and the schedule changing) between a sweep's snapshot and its handling of
this node, when `SlowSender` is TRUE. `claimed`, `delivered`, `stale`,
`refused` and
`outageReported` are history variables.

`MaintenanceWindow` holds the pure rule: coverage, half-open windows, the
deferral instant and the bound on staleness. `DeliverAt` is a set with one
element per open schedule, so that a stored schedule that is not open yields no
instant.

### Runs

| Run | Instance | Shows |
|---|---|---|
| `races` | two sweeps, two connections over sockets and POST, rotation, disabled notifications, reads and one send that fail, any goroutine order | a pending outage always has a carrier; the recovery marker is exactly "an outage was claimed and nothing connected since" |
| `liveness` | one sweep, three connections, three schedules (overlapping, back-to-back, another node's), edits at any instant, one refused notice, fairness | a lasting outage is reported, also when a deferred alert could not be sent the first time; alerts wait for grace and windows, are never doubled and never about a node that came back |
| `notifier_late_online`, `notifier_post_fallback` | the smallest instance of each | the code departs from its docs; see Findings |

`liveness` sets `OnlineFirst` (a connection is recorded before the next
connection event) because `late_online` shows what the other order does, and keeps
to one sweep, to sockets and to a sender that does not stall sweeps
(`SlowSender`) because its properties fail otherwise: two overlapping sweeps
report one outage twice, a slow sweep sends into a window opened since it
started, and POST refreshes do not cancel a socket's outage. So these two
hazards, overlapping sweeps and a sweep's stale instant, are described and not ruled out. `races`
leaves all of them free.

`LastingOutageReported` excepts an outage whose notice the provider refused after
the grace goroutine had claimed it (`refused`): its sender only logs the error
(offline.go:143-150). A deferred alert whose send failed stays queued instead,
and the property holds the code to sending it at a later sweep.

Bounds: two or three connections, instants 0 .. 6 (`Horizon` stops connections and
edits, `EndOfTime` the clock), one failed send. Two connections suffice for
every pair "older outage, newer connection" the code compares by connection
id; the proofs below remove the bound for the properties they cover. The clock
waits for begun offline calls after the horizon (`Settled`), so that the end
of time cuts no grace period short, and for the POST timer (`TimerOnTime`).
Deadlock checking is off because the clock and the connections end.

Fairness: every goroutine the code has started, the POST timer and the
minute sweep run (weak fairness); the clock is strongly fair because the model
lets sweeps repeat within one instant. Nothing makes agents connect or operators edit.

### Proofs

`OfflineNotifier_proofs` proves `TypeOK` (theorem `Typing`) and, for every value
of the constants, one inductive invariant, `OutageInv`, and from it
`RecoveryMatchesReport`, `PendingTracked` and `GraceRespected`. The
argument: a connection's offline call begins only after the connection ended,
and only once (`ConnectionsInv`); until the call has passed its critical
section the connection is on record as existing, so nothing can have been
claimed for it (`RecordInv`); only outages whose call has finished are in the
queue or in a sweep, so they can never become the pending outage again
(`QueueInv`, `SweepInv`). A sweep that drops an entry therefore drops a
superseded or reported outage. `RecoveryMatchesReport` and `PendingTracked`
are not inductive alone: without `RecordInv` a mark could follow a claim of
the same connection, without `SweepInv` a sweep in its last step could drop the
only carrier.

Three more theorems have a hypothesis, because the code breaks the property
without it; each hypothesis is a restriction of the `liveness` run.

| Theorem | Property | Hypothesis | Argument |
|---|---|---|---|
| `OneReport` | `OneReportPerOutage` | `SweepsDoNotOverlap`: at most one sweep runs | `ReportInv`: an outage has one carrier, its grace goroutine, its notice in the outbox, or its entry with the sweep at work on it; once it is delivered only a sweep about to forget the entry is left |
| `WindowsAreRespected` | `NoAlertInsideWindow` | `SweepsAreInstant`: no time passes inside a sweep | `ClearInv`: a sweep that is about to claim has seen that no window covers the node, at this instant and on this schedule |
| `ReportingIsQuiet` | `NoAlertWhileReporting` | `RecordedInOrder`: sockets only, recorded in the order they came, and reads that succeed | `NewestInv`: only the newest socket is open, and the record is of the newest connection as soon as its goroutine has run |

Only model-checked: liveness, which the prover cannot reach.

### Findings

Two runs reach a state the repository's own text rules out: an offline call
that overtakes the goroutine that records its connection loses the outage for
good, and POST refreshes do not cancel the outage of a short-lived socket.
PROJECT.json quotes the lines. The restrictions of `liveness` name two
more orders the code does not exclude; and nothing orders the recovery notice
after the offline notice, which are sent by goroutines of their own.

### Left out

A panel restart forgets the in-memory queue (the docs say so). The 30 s cache
of the schedule is invalidated by every admin write. `last_notified`, the renewal
reminders, message templates and the provider's retry loop inside one send
are data or wording.

## Agent registry, event queue and agent link

`AgentEvents` models one node: everything on the panel that can hold a command
for it, and the agent process that runs it.

| State | Code |
|---|---|
| `registry` | `connectedClients`, `v2Clients` (the node's v2 generation, 0 when unmarked), `v2Generation`; web/agent/connections.go |
| `queue`, `queues`, `order` | the node's `v2EventQueue`, the number of queue objects made, the order of minted event ids; web/agent/v2_events.go |
| `dispatch[c]` | the call of `DispatchV2Event` for command `c`, with the connection and generation it read |
| `socket[s]`, `wire[s]` | a WebSocket between agent and panel, and what was written to it and not read |
| `handler[s]` | `WebSocketV2RPC` for socket `s`, step by step; web/api/client/report_v2.go |
| `call["pull"]`, `call["report"]` | the agent's long poll and POST report in flight, with the panel's handler of each (`UploadV2RPC`, `V2EventWait`) |
| `agent` | the agent's process, agent/server/websocket.go: its token, link, unconfirmed acknowledgements and seen set |
| `forgotten[c]` | history: processes of the agent that ended after they had run `c` and before its acknowledgement reached the panel |
| `token`, `gate` | the stored credential, and the node's admission gate (internal/clientguard) while a rotation holds it |

The panel's registry lock, the queue lock and the admission gate each make one
critical section one action. `DispatchV2Event` is three of them (read, write,
enqueue), a push of the queue three (take, write, acknowledge), a long poll
three (prepare, check, wake). A socket whose peer is gone is `dead` until a
write to it fails; such a write may also still succeed, and its bytes are lost.
Faults (dropped links, lost calls, failed token lookups, expiry, poll timeouts,
restarts of the agent) are counted by `faults`.

The seen set and the unconfirmed acknowledgements are package variables of the
agent: a new process (`StartProcess`) starts without them, with no link and no call.
One starts when an operator installs the token of a rotation (`Reinstall`), and on the
same token after an installed update, which ends in `os.Exit(42)`, or a crash
(`Restart`).

`CommandMailbox` is the abstract promise: a command taken into the mailbox leaves
it only when it was handed to the node, was displaced by a newer one, expired,
or was retired with the node's credential. `MailboxSpec` is the refinement, with
`queue.events` as `pending` and the commands written to a socket or run by the
agent as `handed`.

### Runs

| Run | Instance | Shows |
|---|---|---|
| `panel_state` | (with ingestion and sessions) one dispatch, one rotation, one dropped link or expiry, and two sockets beside pulls, two sockets beside reports, or one socket beside both | nothing of a retired credential is held for the node; the registered socket always has a live handler, and an unregistered one is closed |
| `transfers` | (with the uploads and the terminal) three scenarios chosen at the start: POST (three commands, two of one key, queue of two, two lost calls or timeouts), restarts (two commands over POST, two lost calls or restarts of the agent) and pushes (two commands, two successive sockets, two dropped links or failed lookups) | at-least-once delivery, at-most-once execution by one process, no missed wake-up; a push that fails half-way or races its successor keeps the mailbox's promise |
| `liveness` | two scenarios: one lost call and one socket that comes up, or one restart of an agent whose dials fail; no timeout | every queued command is run |
| `events_ghost` | one socket, one failed lookup | see Findings |

`MCTransfers` holds its three scenarios as instances of `AgentEvents` with different
constants over the same variables; the first state decides which of them takes
the steps. In the last two scenarios one of the two commands that share a key is
dispatched, and the one without a key.
At-least-once delivery is `MailboxSpec`.

Bounds. Two sockets are the least at which a handler can outlive its
successor's registration; with one rotation they contain every order of a
dispatch, a push and a poll or report around a retirement. Both kinds of call at once are
checked beside one socket, and the theorems below remove the bounds. A queue of two with three
commands reaches displacement by the limit and by the key. `ReportTake` is 1 so
that a report leaves events behind.
`liveness` has no timeouts, so a wait can only end by the signal, and no
dropped link, because a write to a socket whose peer has gone loses the command;
for the same reason its restart is of an agent without a socket.
Deadlock checking is off: dispatches, sockets and
faults are finite.

Fairness: weak fairness of each handler, each poll handler and each of the
agent's two loops, which are goroutines that nothing blocks for good, and of `EnterPost`:
dials that keep failing end in `runPostFallback` after the configured number of
retries. A socket that connects disables it.
Dispatches, dials, faults, rotations and the sweep need not happen.

### Proofs

`AgentEvents_proofs` proves `TypeOK` (theorem `Typing`) and `RetirementBoundary` (theorem
`Retirement`) for any set of commands, any number of sockets and
rotations and any faults. The inductive invariant `Retired` adds to the
boundary where a holder's credential epoch can be read off: a v2 generation is
minted once, so a dispatch whose generation is still registered belongs to the
current epoch (`Dispatched`); a queue object is made once, so a poll that finds
its own queue does too (`Polled`); a registered socket was dialed with the
current token (`Registered`). Without `Dispatched` an enqueue after a rotation
could not be excluded, without `Polled` a poll could answer with its successor's
queue. All actions but three satisfy `Step`, a relation over the groups of
variables, and lemma `StepKeeps` does their preservation once.

The second half of the module is about the way of a command, on top of these two:

| Theorem | States | Argument |
|---|---|---|
| `QueueIsMailbox` | `MailboxSpec`: every step of `AgentEvents` is a step of `CommandMailbox` or a stutter | `DeliveryInv`: whatever holds a command, a queue, a socket, a handler or an answer, holds one that was dispatched (`KnownInv`), and what is acknowledged was handed over (`HandedInv`); so a command that leaves the queue by an acknowledgement is in `handed` |
| `NoEventIsMissed` | `WaitingPollMissesNothing` | `SignalsInv`: every enqueue makes a signal named after its event, which no poll can have captured before; so a poll whose signal is still the queue's has missed nothing |
| `RunsAtMostOnce` | `ExecutedOnce` | `TokensInv` and `SeenInv`: a command that ran from answers alone ran once more than processes forgot it, and is in the agent's seen set unless it is `Gone`, in no queue and no answer, or of a credential earlier than the process's token, whose queue no later call is answered from; a `Restart` that forgets a command still queued raises `forgotten` |
| `SocketsAreClosed` | `NoOrphanSocket` | itself inductive on top of `Retired`: a handler leaves the registry only to close its socket, or because another registered and then aborts it |
| `ServedUntilRemoved` | `RegisteredIsServed` | for `FaultKinds` without `"lookup"`: a failed token lookup is the counterexample of `events_ghost` |

`DeliveryInv` is needed because `MailboxSpec` says nothing of
sockets and answers: an acknowledgement that names a command nobody was
handed would be a step the mailbox forbids.

Only model-checked: that every queued command is run (liveness).

### Findings

`events_ghost`: `WebSocketV2RPC` defers the removal of its socket only after the
rollout state was reconciled; a failed token lookup there leaves a closed socket
registered.

### Left out

A queued command is acknowledged by the panel itself once `WriteJSON` returned,
so a link that drops during the push loses it; `MailboxSpec` counts a socket
write as handed over. Commands written to a socket carry no event id, so one
pushed after a POST answer the agent had already received runs twice;
`ExecutedOnce` excludes exactly those. A process that ends before the
acknowledgement of a command reached the panel leaves it queued, and the next one runs it
again: the code gives at-least-once execution across restarts, and `ExecutedOnce` allows
exactly one more run for each such end. A restart under a live socket is in the
theorems and in no liveness run. The agent's seen
set is bounded by ten minutes and 4096 entries; an event lives five minutes in a
queue of 128. The latest-report and report-clamp maps hold no commands. Node
removal resets the runtime as a rotation does. Reconnect backoff only delays.

## Report batching and metric rollups

`MetricIngest` follows one series of one node from the report queue to its first
coarse tier.

| State | Code |
|---|---|
| `waiting`, `batch`, `mode` | the batcher's queue and pending list, the batch inside `WriteBatch`, and its stop; internal/metricstore/report_batcher.go |
| `raw` | `Store.raw`, the volatile window of exact samples; pkg/metric/raw_points.go |
| `hot`, `replace` | `Store.hot` and `Store.hotReplace`, the minute buckets in memory; pkg/metric/hot_rollup.go |
| `coarse` | `Store.coarse`, the children of unsealed parents; pkg/metric/coarse_rollup.go |
| `minuteRow`, `parentRow`, `sealed` | the database |
| `compactor`, `writeNow`, `compactNow` | the scheduled `Compact` between its steps, and the clock each of the two threads goes by |
| `late`, `cut`, `missed` | history: minutes reached too late, cut through by a restart, stored behind a reload |

A sample is its timestamp, and a bucket is the number of times it counts each
sample, which is what its count, sum and digest are made of. `ingestMu` makes
each database step one action: `WriteMinutes` and `WriteSeal` are one
`WriteBatch`, `CompactFlush` and `CompactSeal` one `Compact`. Either step may
fail, and a failed batch is retried with its samples already in memory. `Crash`
may strike between any two steps; `RestartPanel` follows a stop of the batcher;
`Reload` swaps the store under a running one.

What makes a retry harmless is the raw window: a sample found in it is an upsert,
its minute is rebuilt from raw, and the rebuilt bucket replaces its row. The
window lives in memory and for ten minutes, so `CountedOnce` excepts minutes cut
through by a restart (`cut`) and minutes written after they left the window
(`late`): a write outage longer than ten minutes makes every further retry count
its old samples once more.

### Runs

| Run | Instance | Shows |
|---|---|---|
| `panel_state` | (with the session cache, below, and commands around a rotation) two reports, one failing step, one crash, restart or reload | each sample is counted once; what is stored stays due until sealed; a sealed parent equals its minutes |
| `metrics_sealed` | three reports, batches of one, one failing step | see Findings |
| `metrics_reload` | two reports, one reload | see Findings |

Bounds. A minute is two ticks, so that a minute has a sample kept and one that
is retried; parents are two minutes; the raw window and the grace are two
minutes each, equal as they are in the code. The clock stops at 8, when the
first parent is past its grace. One fault reaches each of the four failing
steps. Deadlock checking is off: the clock, reports, faults and restarts are
finite. The specification needs no fairness: `StoredIsPending` says that what is
stored will be sealed by the first compaction that succeeds after the grace.

### Proofs

The first half of `MetricStore_proofs` proves every property above for any widths of minutes and
parents, any raw window, grace, batch and queue sizes, clocks, faults and
restarts.

| Theorem | States | Argument |
|---|---|---|
| `IngestCounts`, `IngestTypes` | `CountInv`, `IngestTypeOK` | |
| `SamplesAreCountedOnce` | `CountedOnce` | `CountsOK`: in a minute that is neither late nor cut, `Total`, what the row will hold of a sample once memory is flushed, is 1 for a sample of a written batch and for every sample in raw; conversely a counted sample is in raw as long as its minute may get another one (`Open`) and is in the window. So a sample that comes again is found in raw exactly if it was counted, and a rebuilt minute loses none |
| `StoredStaysPending` | `StoredIsPending` | inductive on top of `CountInv`: a flush that refuses a child records its minute as late, a reload as missed |
| `ParentsMatch` | `ParentMatchesMinutes`, for `WindowWithinGrace` | `SealInv`: a batch between its steps has left no closed minute in memory (`WrittenOK`); a minute in memory whose parent is sealed, or about to be sealed by the compactor, came late (`ParentsOK`, `CompactOK`); a sealed parent without late minutes has no children left (`SealedOK`), so that it is never written again |

`ReplaceOK` is needed because a minute that replaces its row without holding
anything in memory would erase the row. `Flushed` is the lemma both threads rest
on: a flush, failed or not, leaves `Total` as it was.

`WindowWithinGrace` says that the raw window is no longer than the grace. Both
are ten minutes in the code, as two constants of different files
(`rawMemoryRetention`, `coarseRollupGrace`); with a window of four minutes and a
grace of one TLC finds a sealed parent that misses a stored minute (a report
waits past the grace but is still in the window, its flush fails between the
compactor's two steps, and a restart stores the minute). So raising the first
constant alone would break the rollups. The counts need no such relation.

### Findings

`metrics_sealed`: the compactor goes by a clock read before it waited for the
store, and a sealed parent can be reopened and overwritten by it. `metrics_reload`:
the minutes that the old store writes when a reload closes it never reach the
coarse tier of the new one.

### Left out

Tiers above the first coarse one repeat the same step. Samples that change their
label set move between buckets; one label set is modelled. Queries read `hot`
and the rows side by side and are not modelled, nor are retention, deletion,
restructuring and migration. The ping queue runs through the same loop as the
reports. The retry delay of at most a minute only delays.

## Session cache

`SessionCache` models the lookups of every request against the revocations and
user changes that run beside them.

| State | Code |
|---|---|
| `allocated`, `entries`, `cacheRevision` | `sessionCache`: nil or a map from token to `cachedSession` (row or miss, and until when), with the users revision it was filled under; database/accounts/session_cache.go |
| `rows`, `expires`, `userRevision` | the sessions table, and the revision of the users table; database/accounts/sessions.go, internal/dbcache/revision.go |
| `request[r]` | a request: the lookup between its two critical sections, what it has read and when, or the revocation between its statement and its `forget` |
| `seen` | tokens some request has carried: a new session's token is a fresh one |
| `goneAt`, `settled` | history: when a row was deleted, and whose revocation has returned with no lookup of it under way |

A lookup is four actions: the check under the mutex, the query without it, the
second critical section, and the return to the caller, which deletes a session
it finds expired. A revocation is two: the statement and the `forget`.

What a revocation promises is in the comment at session_cache.go:101: "forgetSession
drops one cached session so a revocation takes effect immediately." `RevokedAtOnce`
says so: once the row is deleted and the revocation has returned, no entry that
a lookup would accept is left. The run `sessions_revoked` refutes it; see Findings.

Two properties say what does hold. `RevokedSoonRefused` bounds the damage
for every interleaving: a request that comes a positive lifetime (the 30 seconds
of session_cache.go:91) or more after a session's row was deleted is not given its
user. `RevocationIsFinal` is the promise kept by a revocation that no lookup
straddles: no stale entry is left behind, and none comes back. `CacheBounded`, proved below and in no run, is the limit on a map
whose keys come from the cookies of whoever sends them.

| Run | Instance | Shows |
|---|---|---|
| `panel_state` | (with ingestion and commands) two tokens, two requests, a map of one entry, both lifetimes 1, a users write and a failed statement | `RevokedSoonRefused`, `RevocationIsFinal` |
| `sessions_revoked` | one token, two requests | `RevokedAtOnce` is violated |

A map of one entry with two tokens reaches the limit in one step, both kinds of
pruning, and replacement; lifetimes of one tick put expiry between any two steps.
Two requests are a lookup and whatever overlaps it.

A bulk revocation sets the map to nil between a lookup's critical sections; the
second assigns to it unless the users revision changed in between, and the
request panics (session_cache.go:91, :113). The model has the panic, which gin's
recover handler turns into a failed request with the mutex released by its defer.
A change of the users table that comes between a lookup's query and its second
section empties the map and then stores the record that was read before the
change; it concerns the user record only and is refused or refreshed at
the next expiry.

### Proofs

`SessionCache_proofs` proves `RevokedSoonRefused`, `RevocationIsFinal`, `CacheBounded` and the type invariant for any tokens, requests,
lifetimes and limits. None of them is inductive: a lookup between its query and
its second critical section still holds the row of a session that has gone, and
an entry stored from it is valid. The invariant `Inv` says how old that may be.
`RequestsOK`: what a lookup holds of a gone session it read no later than the
deletion, and what it returns was read less than a positive lifetime after it.
`EntryTimes`: a valid entry runs out at most a positive lifetime after its row
went. Both exclude the settled sessions, which have no row either (`TablesOK`).
`MapOK` has one entry per token and the bound, and that a nil map is empty. A
step moves one request or one group of tables; `Later` relates the tables and the clock of
two states, and the lemmas `OthersKeep` and `MapKeeps` carry everything else over it.

### Findings

`sessions_revoked`: `loadSession` queries without the lock. A lookup that has read the
row, then a `DeleteSession` whose statement and `forgetSession` both run, then the
lookup's second critical section: it stores the revoked session as valid until 30
seconds after the clock it read first, and every request in that time is given the
user.

### Left out

`touchSession`, which only writes the activity columns.

## Uploads

Two programs share a protocol of chunks: the panel's store of uploaded archives
(`UploadStore`: themes, backups, plugins) and the transfer of a file
through the panel to an agent (`RemoteUpload`).

### The store of archives

| State | Code |
|---|---|
| `dirs[a]` | directory of upload `a` under `DefaultStore.Root`: none, bare, with torn or good metadata, its chunks, archive and scratch file; web/upload/chunk.go |
| `foreign` | the root holds a state file of an upload to an agent |
| `op`, `removing` | the operation that holds `Store.mu`, before which of its file operations, and the directory it is removing |
| `reconciled` | `startupPass` has run since the last start |
| `cut`, `cuts` | history: uploads whose metadata or removal was cut half-way; crashes and errors so far |

One lock is held for a whole operation and a second caller gets `ErrBusy`, so
what interleaves is files and crashes: each file operation that a crash or an
error can leave half-way is one step. `FinalizedIsWhole`
is about `replaceFile` (remove the old, rename the new) and the concatenation:
what `Finalize` hands out is all chunks in order whatever was cut before.
`DirectoriesBounded` is the quota with the directories that cuts leave.
`DownOnlyIfCut` says what a crash may cost: the
store refuses admissions only while a directory is there that a cut has left
without metadata.

Errors leave things behind as crashes do. The removal of a scratch file is never looked
at (chunk.go:137, 199), and a failed rename or removal in `replaceFile` ends the
operation with what it had done (`StepFails`, `GiveUp`): either may
leave a scratch file. The startup pass goes on when it cannot remove a scratch file or
an empty directory (lifecycle.go:224-227, 251-254), so both may outlive it
(`StartupPass`, `Reclaimed`); such a directory stops every scan until a later
start, and `DownOnlyIfCut` counts it as cut. Scratch files cost only space: every
operation that uses one truncates it first, which `FinalizedIsWhole` is checked with.

### Uploads to an agent

| State | Code |
|---|---|
| `session[u]`, `slots`, `stateFile[u]`, `expiresAt` | `uploadSessions`, the semaphore of concurrent uploads, the persisted session and the expiry of each session object; web/filemanager/transfer.go |
| `caller[h]` | a request of the browser or the minute's cleanup, with the session object it holds |
| `calls[i]` | a call to the agent, on its way, in the agent's goroutine, or answered; web/filemanager/client.go, agent/server/files.go, file_stream.go |
| `known`, `got`, `partFile`, `target`, `cancelled` | the agent's entry of the upload, its received chunks, its files, its tombstones |

A session object is restored from its state file under a new identity, so a
request may go on with one that has been replaced; `SlotsAccounted` says that
the semaphore is released once per object all the same. `PublishedWhole` is the
promise of the comment at agent/server/files.go:664: streams that are queued,
repeated or cancelled open and write the part file around the commit, and the
file that appears is the whole one. `CompleteMeansStored` is about the merge
whose answer was lost: asked again, the agent no longer knows the upload, and the
panel decides by the size of the target. A target that had that size before
cannot be told apart (transfer.go:418-431); those uploads are excluded by
the constant `SameSize`.

A disagreement between the two that no run shows: the session files of the
file manager (`data/.uploading/.komari-upload-<id>.json`, transfer.go:131-132) lie
in the directory that is the store's root (chunk.go:76), where `scan` takes them
for "unexpected entry in upload store" (lifecycle.go:105-106). While a transfer
to an agent is under way, every admission of an archive and the hourly cleanup
fail; a file left behind by a panel restart, or written by a late
`saveUploadSession` after its session finished, stays. The model has such a file
come and go (`StateFileChanges`), and `DownOnlyIfCut` names it among what stops a scan.

| Run | Instance | Shows |
|---|---|---|
| `transfers` | archives: two, quota 1, two chunks, lifetime 1, two cuts. Agent: one upload of two parts, two callers, four calls, one lost answer, restart or tick. Terminal: below. Commands: see the agent's events | the properties above |

The first state of `MCTransfers` chooses which of the six components runs; they share nothing. Two
callers contain every race of a request with the cleanup or with its own
repetition; two parts tell the first chunk, which creates the entry, from the
last, which completes it; two cuts reach a crash in what follows another.

A crash inside `RemoveAll` or `WriteFile` leaves a directory that the startup
pass keeps and that stops every scan until it expires a day later:
`DownOnlyIfCut` has it in `cut`.

### Proofs

`Uploads_proofs` proves both modules for every value of their constants; the properties
of the run `transfers` about them are all theorems.

The store, in its first half: the inductive invariant `StoreInv` says what the stage of
the operation that holds the lock implies for its directory (`HolderOK`,
`StageOK`, `RemovalOK`), which directories without
metadata (`TornOK`) may be there, and that the quota still has room for the
directory that an admission is about to make (`QuotaOK`). `FinalizedWhole`
follows from `StageOK`: before the last step of `Finalize` the scratch file
holds all chunks, whatever an earlier attempt left. `DirectoriesStayBounded`
does not assume that the set of ids is finite; that the directories on the
disk are is part of the invariant. `DownOnlyWhenCut` is read off `TornOK`.

Uploads to an agent, in its second half: the inductive invariant `RemoteInv` has three arguments.
The semaphore holds one slot for each session in the map (`SlotsOK`); every
critical section that clears the map's entry compares the object first, so
the slot goes back once (`SlotsAreAccounted`). A request waits for one call of
its own, on its own upload, and no two wait for the same (`CallersOK`,
`WaitsOK`); a free identity for a call exists because every call in use was
made (`UsedOK`); so an answer that reaches a merge is that merge's, and
`CallOK` says it was given when the target was there
(`CompletionIsStored`). For `WholeIsPublished`: while nothing is at the target
every chunk that counts is in the part file, a stream between its check and its
end still finds its entry, and a commit that has passed its check still has all
chunks, or a cancel has since removed the part file and left a tombstone
that keeps new streams out (`AgentOK`, `Removed`). Without the
last alternative the invariant is not inductive: a cancel that was waiting may
run between a commit's check and its rename, which then finds no file.

Left out: the failure of `MkdirAll` and of directory reads in a scan or the startup pass
(which refuse an operation, or skip a directory, before anything has changed), the free-space check,
tombstone expiry, late duplicates of chunks of a committed upload, downloads and
the relay. The agent's per-upload write lock is left out as well, which
only allows more.

## Terminal sessions

`TerminalSessions` composes the panel's session of one terminal with the agent
process that holds its shell.

| State | Code |
|---|---|
| `termSession`, `browserEnd`, `agentEnd`, `forwarding` | the entry in `TerminalSessions`, its two connections and its flag; web/api/terminal/terminal.go |
| `cleanup`, `cleanupFired` | its timer, running, or fired and waiting for the mutex |
| `browserStage`, `agentStage`, `termRequests` | `RequestTerminal` and `EstablishConnection` of each connection, and the requests on their way to the agent |
| `forwarder[<<b, a>>]` | `ForwardTerminal` of a pair of connections, between its steps; forward.go |
| `closing`, `ended`, `told` | connections somebody is about to close, that have ended, and on which the browser's close was passed on |
| `dial`, `shellOf`, `current`, `shells`, `leaving`, `removed` | the agent's connections and its table of shells; agent/terminal/terminal.go |
| `shellConn`, `shellTimer`, `timerFired` | each shell's connection and timer |

Sessions survive lost connections: a forwarder that ends suspends the session and
arms a timer; a browser or an agent that reconnects takes its place. Timers are
`time.AfterFunc`: one that has fired waits for the mutex and may not be
stopped any more. `LivePairKept` says that what an old pair leaves behind,
its forwarder or its close handlers, never takes down a pair that lives;
`SessionWillEnd`, `ShellWillEnd` and `NoShellWithoutSession` that every session
and every shell that nobody uses has something that will end it: a
session without an agent is never left without a timer, and a shell is killed
when the panel says the session is gone. They are invariants about what is
armed, so they need no fairness.

The run `transfers` has two connections of each side and one mishap (a lost link, a failed
write, or a timer that fires early); two mishaps were checked once as well, in 2.7
million states.

`LivePairKept` excludes one case the code has: a cleanup that fired before both
ends attached deletes the session although it is attached (terminal.go:31 checks
nothing after taking the mutex). Not stated: the agent's reader of an old
forwarder may still be reading the connection that the new forwarder reads. An
agent that closes its old connection before it attaches the new one makes
the new forwarder suspend the reattached browser; the timer then covers it.

### Proofs

`TerminalSessions_proofs` proves every property of the run for any number of
connections and mishaps, under one assumption on the constants, that browsers and
agent connections are different names (`ConnectionsDiffer`). The invariant
`TerminalInv` adds to `SessionWillEnd` and `ShellWillEnd` what makes them
inductive. On the panel: only an open session has ends, and they are
connections that came that far (`EndsOK`); an agent connection that was
attached once is the session's, has ended, or somebody is about to close it
(`AttachedKnown`), so a replaced connection is never left open; a
forwarder fails only for a connection that ended or with the session, and
the one of the session's own pair goes on while the session says that
it forwards (`ForwardOK`), so nobody else clears the flag. On the agent: the
current shell has a timer, a callback that waits, or a reader, and a timer that
fired has its callback (`CurrentEnds`). `LivePairStays` is the action property, from
the same invariant: of all steps that suspend a session, each needs an end that
ended or is being closed. `NoShellIsLeft` relates the two sides.

## Upgrade of the metric tables

An old version stored points and wide rollup rows; this one stores normalized
rollups only. At startup the panel inspects the tables and, when they are old,
serves a guide in which an administrator starts a rebuild or discards the history.
`SchemaRebuild` models which tables exist after every statement,
`RebuiltHistory` what the rows hold.

### The tables

| State | Code |
|---|---|
| `live[t]`, `spare` | the layout of each table under the configured prefix, and the `_legacy` backups; pkg/metric/restructure.go |
| `rows`, `shadowRows` | how often each batch of the history is held by the live and by the `rebuild_` tables |
| `index` | the names under which the indexes of the live tables exist |
| `phase` | the startup loop of cmd/server.go and the guide's status, web/migration/migration.go |
| `task`, `step`, `copiedTo` | the goroutine of the run: `Restructure` or `DiscardHistory`, its next statement, the batches it has copied |
| `discarded`, `purged`, `breaks` | history: a discard took effect, it took backups away; failures so far |

A step is what commits at once: on SQLite and PostgreSQL the switch is one
transaction, on MySQL each drop, the `RENAME TABLE` and the index work are
steps of their own. `RunFails` and `PanelDies` may come between any two; the first leaves
the guide open, the second starts detection again. The series, label and
resolution tables are always made and moved together and count as one. A step of
`FinishIndexes` stands for both indexes; it looks at what it finds, so a cut
inside is a cut before.

`FoundTables` are the stores an upgrade may find, among them one whose definitions were lost, which
a rebuild refuses and only an operator can repair. The definitions of a fresh
store are made by `Migrate` as in any other open and are not modelled.

`HistoryNeverTorn`: the history is held whole and once until a discard
takes effect. `BackupsAreSpare`: the comment of `replaceLegacyMySQLTables`, that
dropping backups never drops the one copy, which is what makes it harmless that
every run starts by dropping them. `OpensClean`: what the panel serves on.
`UpgradeFinishes` (in the run, `UpgradeHappens`): every store that a rebuild can
read is upgraded.

`OpensClean` excepts one case. `discardNormalizedHistory` drops MySQL backups without
`finishInterruptedMySQLIndexes`. When it clears a store whose rebuild was cut after the
rename, the `rebuild_` indexes stay and `Migrate` adds the
canonical ones beside them: every write then maintains both. No document
promises otherwise.

### The history

| State | Code |
|---|---|
| `legacy` | the old tables: points, and rows of the minute, hour and day tiers |
| `stage`, `copied` | the stages of `Restructure`, and the points this run has replayed |
| `shadow`, `rebuilt` | rows of the `rebuild_` tables and of the live ones, each with the memory of the store open on them: children of hours and days, and whether recovery is due |
| `clock`, `stored`, `aborts`, `reopens` | time, samples reported since, failed runs, restarts |

A sample is its minute, and a row the number of times it counts each
sample. `LegacyInit` enumerates what an old version can have left: any set of
samples, folded up to any instant, with points, minutes and hours expired
up to any other, so that points and rows overlap, leave gaps, or meet.
`CopiedOnce` says that however they lie, and however often the run starts
over, a sample is counted once in the finest tier that held it. Its
exceptions are what the code gives up: days whose hours had expired in part
are recomputed from the rest, and an hour within its grace at the upgrade is sealed
again from the points.

| Run | Instance | Shows |
|---|---|---|
| `liveness` | (with the alerts and the commands) three drivers, nine stores, two batches, three failures | the properties of the tables |
| `races` | (with the alerts and the restore) hours and days of two, grace one, batches of two points, an upgrade at 4, clock to 7, one failed run, one restart | `CopiedOnce` |
| `rebuild_day` | days of two hours, no grace, rows only | see Findings |

Bounds. Two batches tell a copy cut in the middle from one not begun. Three failures let
a run be cut, its repetition be cut elsewhere, and the one after that; MySQL has
three places where a cut leaves different tables. Four minutes are two hours of one day, one within its
grace at the upgrade; the clock goes on until the day and the first hour after
it are sealed. Batches of two put a batch's edge inside an hour and between two.

Fairness. The run's goroutine and the startup loop go on, and the administrator
starts a run again while the guide is offered, a rebuild or a discard as they
choose: the guide serves nothing else. Failures are bounded.

### Proofs

The first half of `Upgrade_proofs` proves `HistoryNeverTorn`, `BackupsAreSpare` and
`OpensClean` for any number of batches and failures. None is inductive: whether a
drop is harmless depends on what the run has inspected since it started,
and whether a switch is depends on what it copied. The invariant `SchemaInv` adds what
a run knows at each step. `StepsOK`: a shadow is built only beside incomplete
tables, and whatever drops or deletes runs on a complete schema. `ShadowOK`: while
copying, the shadow holds the batches up to `copiedTo` and no more, and before the
switch the whole history, or none of it for a discard. `IndexOK`: a rebuild index has
its backups beside it, unless a discard took them. `TablesLeft`: something is there for the
rename to back up.

The second half of `MetricStore_proofs` proves `HistoryTypeOK` and `CopiedOnce` of
`RebuiltHistory`, for any bucket widths, grace, batch size, legacy tables, failed runs,
reports and restarts (theorems `HistoryTypes`, `UpgradeCopiesOnce`, from
`HistoryInvariant`). `StageOK` says what the store of each stage holds: each
sample once in its minute (`Row`), and two conditions that keep sealing off the old
rows. An hour that had a row and was past its grace at the upgrade has no child in memory
(`KeptHour`): the points never give it one after the first sealing, since they are
replayed past its grace, and what is read back skips it because it has a row. A day that
had nothing but its row has nothing in any finer tier (`LoneDay`), so that neither
`rebuildDailyRollups` nor a later seal recomputes it; that the old minutes of such a
day are gone too follows from how the old version folded and expired them
(`LegacyOK`), which is `LegacyInit`'s account of it. A store is only restored to `Building` by a
whole `Sealed`: between reading back and sealing the hours past their grace do have children.

`UpgradeFinishes` is model-checked only: it is a liveness property.

### Findings

`rebuild_day`: the rebuild writes the row of the day it runs in; recovery takes
any parent with a row for a sealed one, so the first hours of that day are not
read back, and when the day ends its row is overwritten by the hours after the
upgrade. The comment at coarse_rollup.go:397 says that a parent is written once.
`RebuildCoarserRollups` (rollup_import.go:100), which the import of an older panel's
tables uses, writes its days in the same way.

### Left out

The import of legacy monitoring tables (the guide's other mode), the recovery
guide that opens when detection itself fails, the size measurements, `ReclaimSpace`,
which rewrites files and no rows, and retention, which runs in `Compact` and
deletes what has expired. Minutes still in memory when the rebuild flushes them
are `MetricIngest`'s subject.

## Restore and version upgrade of the panel's data

`DataRestore` follows `./data` through the panel's processes: an uploaded backup is
staged while the panel serves and applied by the next start, and a start of another version
archives what it is about to migrate.

| State | Code |
|---|---|
| `panel` | how far `doInitialize` is: snapshot, wipe, extract, remove, open, migrate, mark, serve, or down; whether files that withstood removal mix with the backup; `recordVersion`; database/dbcore/dbcore.go |
| `second`, `running` | the second of the last start, which names its archives, and `versionID` |
| `data` | `./data` but for `backup.zip` and `backup/`: the number of a saved state, 0 when it is none, and the version marker in its database |
| `zip` | `./data/backup.zip`: of which state, and whether whole |
| `staging[r]` | a call of `finalizeBackupUpload`: validated, old backup removed, renamed or copied, answered, about to exit; web/api/admin/archive_upload.go, web/backup/restore.go |
| `snapshots`, `upgradeArchives` | `pre-restore-<second>.zip` and `upgrade-<second>.zip` |
| `replaced`, `wiped`, `promised`, `upgrade` | history: what an archive of the same second overwrote, what restores began to delete, the backup an administrator was told will be applied, and what the upgrade under way began with |

Each step may fail (`Trouble`) or be the last of its process (`PanelEnds`). A failed
snapshot ends the restore; a failed wipe does not, so the backup is extracted among what is
left (`mixes`) and gives no saved state; a failed extraction leaves the backup for the next
start and goes on with an empty `./data`; a failed removal has the same backup
restored again. `zipDirectoryExcluding` renames a whole archive into place and is one step.

`WipedIsArchived` is the rule of `doInitialize`, that no data is deleted without a
copy, over all the starts a restore may take. `StagedUntilApplied` joins the upload's
answer ("The service will restart and apply the backup") to the start that does.
`RollbackKept` is what the upgrade archive is for: as long as the new version has not
finished starting, the data of the old one can be brought back.

| Run | Instance | Shows |
|---|---|---|
| `races` | (with the alerts and the history) two requests, two versions, retention 2, three states, seconds 0 .. 3, two failed steps, deaths or starts in the second of the one before | the three properties |

Bounds. Two troubles let a restore be cut and its repetition be cut elsewhere.
Three states are the old data, the backup and one more, written by migrations, by the panel or
uploaded by the other request. Four seconds with a retention of two fill and prune the archives;
the code keeps three. Deadlock checking is off: states, seconds and
troubles are finite. No fairness is needed.

### Proofs

The second half of `Upgrade_proofs` proves `RestoreTypeOK` (`RestoreTyped`) and the three
properties for any number of requests, versions, states, seconds and failures and any
retention of at least one.

| Theorem | Property | Argument |
|---|---|---|
| `RestoresLoseNothing` | `WipedIsArchived` | `ArchivedInv`: between its snapshot and its wipe a start has `./data` in a snapshot (`SnapshotsOK`). Nothing else removes a snapshot, and the one of a start replaces another of the same second only |
| `PromisesKept` | `StagedUntilApplied` | `StagedInv`: requests are under way only while the panel serves, and at most one of them holds the lock (`StagersOK`); the one between its removal and its answer has taken the promise back, and what it has put in place is its own backup. So no step of another request, and no start, touches a promised backup before it was extracted |
| `UpgradesReversible` | `RollbackKept` | `UpgradeInv`: the archive the upgrade began with is there as long as at most `Retention` were taken, and fewer archives are newer than it than were taken since. Cardinalities are needed here: `PrunedKeeps` says that pruning keeps whatever fewer than `Retention` archives are newer than, whichever removals fail |

None of the three is inductive without its addition: a wipe without `SnapshotsOK`, a rename
without `StagersOK`, and a pruning without the count could each lose the only copy.

### What the properties leave open

- Archives are named by the second. A supervisor may start the panel again within the same
  second (deploy/docker-compose.yml has `restart: unless-stopped`), and the archive of the
  second start then overwrites that of the first: after a restore whose extraction failed, the
  one copy of the deleted data is replaced by a snapshot of an empty directory. `replaced`
  excepts exactly this; TLC finds the loss as soon as it is dropped from the property.
- While migrations fail, every start archives again, so that after `upgradeArchiveRetention`
  starts the archive of the old version has been pruned. `upgrade.taken <= Retention` excepts this.
- The comment of `RestoreLock` (restore.go:52-54) asks that the lock be held until the
  process restarts. `finalizeBackupUpload` releases it just before `os.Exit`, and the
  install guide (web/install) as soon as the backup is staged; a second upload may then take the
  place of the announced one. The promise ends there in `StagedUntilApplied`.
- Files that withstand the removal are mixed with those of the backup, and the start goes
  on (dbcore.go:712).

### Left out

What makes an uploaded archive valid, the staging files that a death leaves and
`CleanupStagedUploads` removes, the marker file beside `backup.zip`, which no step of the restore
reads, and what the archives exclude: an upgrade archive does not hold the local metric
store.

## Agent rollout and self-update

`AgentRollout` is one node from the operator's call to the executable on its disk.

| State | Code |
|---|---|
| `row` | the node's row of clients: `target_version`, `target_version_pending_clear`, and the version its agent last reported; database/clients/client.go |
| `roll[r]` | a call of `adminRollAgentUpdate`, between its reading of the registry, its save, its dispatch and its mark; web/rpc/jsonrpc/admin.agentupdate.go |
| `connected`, `updates` | the registered socket and the queued update events; web/agent |
| `handshake[c]` | `WebSocketV2RPC` on socket `c`: lookup of the persisted target, its write, the settling of a pending clear, the push of the queue; web/api/client/report_v2.go |
| `inbound[c]`, `broken` | frames on their way to the agent, and sockets to which writes fail |
| `node`, `disk`, `install[j]` | the agent's process with the version it was started as and the one it was asked for, its executable, and its updates under way: main and ticker (0), goroutines of events (the others); agent/update/target.go, update.go |
| `newest`, `deployment` | published releases, and how the agent was deployed (`DisableAutoUpdate`, `AGENT_TARGET_VERSION`) |
| `asked` | history: the versions the agent was deployed with or that an operator named |

The agent remembers its target in memory only and exits after each install, so the panel
must send the target again at each connection; the rollout, which reads "online", saves
and dispatches in three steps, races with that handshake. An empty target clears the pin, and
a clear that could not go out is owed (`pendingClear`).

`NoUninvitedVersion`: an agent deployed with `--disable-auto-update` never has a version
on disk that nobody asked for. `RolloutConverges`: such an agent, if it keeps reconnecting,
ends at the version the panel holds for it. `UnpinnedTracks`: an agent that updates itself and
has no target ends at the newest release, because the six hours' ticker tries again what
failed.

| Run | Instance | Shows |
|---|---|---|
| `rollout` | two releases, any stored target or owed clear, one call, two sockets, one event's install beside the ticker's, one failure or death | the three properties |

`EachSpec` leaves the call to the agent that leaves updates to the panel: `ManualRolls`
keeps the other deployments with the target or clear they find, which halves the states
and takes nothing from the properties, of which `UnpinnedTracks` is about nodes
without a target. One call contains each order of a rollout and a handshake,
of which two sockets give two that overlap; one failure reaches every failing step. Deadlock
checking is off: calls and failures are finite.

Fairness: goroutines go on, the supervisor starts an agent that exited, the agent dials
while it has no socket, closed sockets are noticed, and an install that can succeed
does or is one of the counted failures. Calls, releases and deaths need not happen, and
that the agent reconnects often enough is a hypothesis of `RolloutConverges`
(`Reconnects`), not assumed.

### Proofs

`AgentRollout_proofs` proves `RolloutTypeOK` (theorem `RolloutTyped`), which contains that the
registered socket has a handler, and `NoUninvitedVersion` (theorem
`OnlyInvitedVersions`), for any number of releases, calls, sockets, overlapping installs and
failures. `NoUninvitedVersion` is not inductive: the version on disk comes from an
install, which took it from a frame, which a roll, a handshake or a queued event
wrote, which took it from the row or the call. The invariant `AllAsked` follows that way
back: each of them names only versions of `asked`, and an agent without
automatic updates is never in the check of its start nor installs the newest
release. `RolloutConverges` and `UnpinnedTracks` are model-checked only: liveness.

### What the properties leave open

An agent that updates itself and is pinned may leave the pin: the check of its start
asks for the newest release before it has connected, and installs it. It then comes back to
its target, and again leaves it at the next start when a newer release is out;
`RolloutConverges` is about agents that do not. A clear is written once to the socket the handshake
holds; when the agent dies before it reads it, the panel has settled the clear and
the next process starts without a target anyway.

### Left out

Dry runs and the report of a rollout per node, the download with its checksum, the
replacement of the executable, which a library does, and POST presence.
