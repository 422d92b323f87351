# Endpoint Platform: TLA+ verification project

Endpoint Platform manages Windows and ALT Linux workstations.  A server
(`endpoint_server`, FastAPI over PostgreSQL) keeps all durable state; an agent
(`pc_agent`) on every device holds one WSS connection to the server's Gateway,
executes typed commands and reports what it observes.  This directory models the
platform's own core logic, checks it with TLC and proves what it can with TLAPS.

## 1. Inventory

Components in the order of their weight for correctness.  `PROJECT.json` lists
every one with its sources and status.

| Component | State | Operations | What makes it correct |
|---|---|---|---|
| Gateway command delivery (`gateway/command_service.py`) | `commands`, `command_deliveries`, `command_results` and the rows they belong to | `deliver_next`, `record_ack`, `record_result` | one story in all rows, nothing sent twice on a session, nothing lost for good, ends are final |
| Gateway connection handler (`gateway/ws_routes.py`, `presence_service.py`) | `device_sessions`, the coroutine's position | connect, refresh, receive loop, every exception exit, `close_session` | at most one open session, a replaced handler does no harm |
| Endpoint operations (`operations/`) | `endpoint_operations`, `operation_evidence`, audit | create, cancel, expire, read, pin, retention | end once, audited once, evidence iff success |
| Module operations (`modules/operation_service.py`, `recipe_engine.py`) | parent operation, `module_operation_steps` | create, advance a step, expire | steps in order, success iff all steps succeeded |
| Module registry (`modules/lifecycle.py`, `routes.py`) | `module_versions.state` | validate, accept, publish, deprecate | lifecycle order, running work is not affected |
| Context collections (`context/repository.py`, `scheduler.py`, `connect_refresh.py`) | `context_collections` | request, schedule, refresh, expire | at most one active request per profile |
| Context ingestion (`context/ingestion.py`) | snapshots, diffs, current pointer | ingest a result, compare, advance, retain | current never moves back in time |
| Worker (`worker.py`) | none of its own | expiry, schedule and retention jobs | a failing job stops no other |
| Connection registry (`gateway/connection_registry.py`) | live connections, worker lease | register, replace, unregister, shutdown | a stale unregister removes nobody |
| HTTP pull (`gateway/routes.py`, `transport/http_pull.py`) | the same command rows | next, ack, result | never a second control plane for operations |
| Agent runtime (`runtime/lifecycle.py`, `transport/websocket.py`) | connection, command in execution | connect with backoff, acknowledge, execute, answer, recover | every loss ends in a reconnect or a deliberate exit |
| Update rollouts (`updates/`) | builds, rollouts, targets, reports | register, create, pause, complete, cancel, roll back, ack, report | one active target per device, canary before broad |
| Update client (`update_adapter.py`, `launcher/`, `alt_update_installer.py`, `platform/windows/updater_service.py`) | journals, selectors, transition and outcome files | fetch, hand off, install, prove, roll back, report | a crash at any point leaves a proven version or the way back, every handoff is reported |
| Enrollment (`enrollment/`, `enrollment_bootstrap.py`) | campaigns, claims, envelopes, credentials | enroll, retry, acknowledge, rotate, activate | a claim yields one device, a lost answer can be retried |
| Endpoint policy (`policy/`, agent `policy/`) | versions, assignments, device state, cache | assign, deliver, apply, acknowledge | an old acknowledgement never hides a new version |
| Event spools (`pc_agent/security`, `pc_agent/power`, server ingestion) | bounded local queues, event rows | enqueue, batch, ack, trim, ingest | at least once to the server, stored once |
| Activity, browser sensor, device binding, auth, audit, console, contracts, SDK, web app, packaging, remote assist | - | - | reads, validation or OS integration; not modelled (reasons in `PROJECT.json`) |

**Interaction.**  API routes and the worker write rows; `connect_agent`, one
coroutine per connection, turns rows into frames and frames into rows; the agent
sees frames only.  The components share state through PostgreSQL rows and row
locks (`FOR UPDATE`, `FOR UPDATE SKIP LOCKED`) and advisory locks.  Two handlers
of the same device exist whenever the agent reconnects before the server has
noticed the loss.

**What is hard.**  The unlocked read of the session row in `deliver_next`; the
send after the commit; results, acknowledgements, cancellations and two expiry
paths meeting in any order; process restarts that skip `finally`; an agent that
acknowledges first, then executes, and remembers neither; recipes whose next step
is chosen from rows in motion; two processes of a host that agree through files
while either may die between two replacements; answers that were processed and
lost; bounded queues that evict what is in flight.  `PROJECT.json` lists each
hazard at its line.

## 2. Modules

| Module | Models | Instance |
|---|---|---|
| `GatewayCommands` | one device: rows, sessions, handlers, frames, agent, clock | `MCGatewayCommands` |
| `OperationPromise` | abstract: what an operation promises its caller, without rows, sessions or frames; `GatewayCommands!KeepsPromise` is the refinement | - |
| `ContextSchedule` | one device: requests for Device Context by worker, handlers and administrators, their locks and expiry | `MCContextSchedule` |
| `ContextSnapshots` | devices and profiles: snapshots, current pointers, pins, retention and clean-up | `MCContextSnapshots` |
| `EndpointPolicy` | policy versions, assignment, delivery and acknowledgement over one device's connections, the agent's cache | extended by `SecurityTelemetry` |
| `SecurityTelemetry` | security events on the connection of `EndpointPolicy`: spool, batches, ingestion, retention | `MCSecurityTelemetry` |
| `PowerTelemetry` | the native power log, collector, durable queue, sender, ingestion | `MCPowerTelemetry` |
| `Enrollment` | campaigns, requests, claims, `/enroll` with its retry envelope, rotation, and the Windows and Linux clients with their files | `MCEnrollment` |
| `UpdateRollout` | the rollout service: one operator per call | extended by the next two |
| `RolloutService` | that service with devices that may send anything at any time, and administrators that act on what they read earlier | `MCRolloutService` |
| `UpdateAdapter` | the client's two journals and its repeated calls, beside the service | extended by the next two |
| `AltUpdate` | an ALT Linux host: launcher, agent, root worker and their files, composed with the service | itself |
| `WindowsUpdate` | a Windows host: agent service, updater service, mutex and files, composed with the service | itself |
| `GatewayCommandsProofs`, `ContextScheduleProofs`, `ContextSnapshotsProofs`, `SecurityTelemetryProofs` (with `EndpointPolicy`), `PowerTelemetryProofs`, `EnrollmentProofs`, `RolloutProofs` (`RolloutService` and `AltUpdate`), `WindowsUpdateProofs` | theorems (section 4) | - |

The first three parts meet at the collection row.  `ContextSchedule` creates and
expires it, `GatewayCommands` delivers it and stores the result, `ContextSnapshots`
turns the result into a snapshot.  Each repeats of the others only what its own
properties depend on: `ContextSchedule` the locks and effects of a delivery, an
acknowledgement and a result, `ContextSnapshots` the status of a collection.
Security events are checked against the policy the device had applied, so
`SecurityTelemetry` runs the two on one connection.  The update modules share one
server: what `RolloutService` lets any device do, `AltUpdate` and `WindowsUpdate`
do with the journals and files of a real host.

### State and code

A row is named by what it belongs to: a diagnostic operation `d` has its private
collection `col[d]` and its command `cmd[d]`; a plain collection `c` its command
`cmd[c]`; step `i` of a module operation `m` is `<<m, i>>` with the command
`cmd[<<m, i>>]`.  A transaction that locks what it reads is one action.  The
delivery transaction is not atomic: `DeliverBegin` selects and locks and reads the
session without a lock, `DeliverCommit` commits (expiries met on the way, a newly
materialised command, the binding to the session), `Send` is the frame after the
commit.  `handler[s]` is where `connect_agent` stands for session `s`; `tx[s]` is
its open transaction: the selected command, the work to expire, the locked work.
`Free(w)` is `FOR UPDATE` waiting and `SKIP LOCKED` passing over.

`older` records creation order, because `next_pending_command` takes the first
candidate by creation time; module operations come before collections, and a due
operation met on the way to the selected one is expired.  `due` is the clock:
deadlines that have passed.  A result is a status and the session in which it was
produced, which is all that the payload digest distinguishes.  Frames are lost
with their connection and are otherwise in order, as TCP delivers them.

Left out of `GatewayCommands`: HTTP pull, handshake, the lab mode of modules, telemetry
and policy frames (they change none of these rows), and the registry's shutdown
notice (its effect is the connection loss `AgentLosesLink`).  `Connect` opens the
session in the step in which the agent gets its link; a handler of an older link that
commits its `open_session` late belongs to `GatewayRegistry` (section 5).

`ContextSchedule` runs one SQL statement per action, because its questions are
about what a statement sees.  `tx[a]` is the open transaction of the worker, the
gateway or a handler: the rows a `FOR UPDATE` has found and still waits for
(`found`), locked rows, and the writes that become visible with `Commit`.  A row
that ended during the wait is passed over (`LockRow`), as READ COMMITTED evaluates
the condition again.  `SKIP LOCKED` statements are one step.  A row is named by its
idempotency identity, so a repeated request is a row that exists.  An expired row is
`expired` (it had no command), `closed` (its command expired with it, as
`expire_overdue_collections` does) or `released` (its command is still open, as the
scheduler leaves it); the difference decides what a late acknowledgement does.

`ContextSnapshots` names a snapshot and its collection by the result they come from,
a number that stands for the random identifier that breaks ties of `collected_at`.
Ingestion is one action: its reads and writes are under the advisory lock of the
device/profile pair.  Retention is not: `RetainRead` reads the candidates without a
lock, `RetainStep` locks and decides one after the other, `RetainCommit` deletes.  A
pin is two steps for the same reason.  `newest` is the newest observation taken in;
the code stores it for `activity_v1` only, for the other profiles it is what the
properties compare with.  The fallback `_current_collection` for a result that comes
without a collection row (`context/ingestion.py:101`) is left out.

`EndpointPolicy` keeps a connection as two queues; frames of a lost connection may
still be read by its handler (`late`, `LateFrame`), also after the next one is up.
`row` is the `PolicyDeviceState` row, with a history field for the connection whose
frame answered last; `applications` are the `PolicyApplication` rows, `current` and
`cache` what the agent runs and what it would restore.  `prepare_policy_delivery`
and `record_policy_ack` are operators of the handler's steps (`Connect`,
`ServerHeartbeat`, `ServerAck`, `LateFrame`).  Time is logical: each application
has an instant, and whether something took longer than a limit is a choice.
`apply_delivery` is one step: it takes its time, writes the cache and then publishes the
policy, and what a sensor can see of that order is which policy it reads, before or
after, and when it reads the clock, which are steps of their own in `SecurityTelemetry`.

`SecurityTelemetry` adds `spool`, the drop counters, the one batch in flight and the
server's rows.  A sensor thread reads the policy (`ReadPolicy`, kept in `seen`) and
later the clock and the spool (`record`), with applications, connections and batches in
between; a browser event carries the earlier time of its observation.  One thread is
between its two reads at a time.  An event may also be delayed, come from a clock ahead
of the server's, or be too large for the spool, which counts it.  It remembers the
version and application it was seen under and, as history, whether that application was
in force at its time (`steady`).  `horizon` is 24 hours ago, at the agent's expiry, at
the server's validation and in retention.

`PowerTelemetry` numbers the records of the native log; a page is read (`ReadPage`) and
then committed together with the checkpoint (`commit_page`), with the log free to grow,
to rotate or to be created again (`Recreates`, numbers above `base`) in between; `Reset`
compares the checkpoint with the range of the log and with the record it was taken at,
as the anchor does.  A callback (`record`) is an event of its own with an identity of
its own (`called`), also when the log has a record of the same transition: nothing
identifies the two.  The server refuses misdated, conflicting and oversized events
(`Refusable`).  `stats` are the counters that the source status carries.

`Enrollment` is one action per route and per durable write of a client.  A call is
on its way until the server runs it; the answer reaches the client or does not.
A client is a process with the files of its machine: Setup draws a new installation
for every run (`Kind = "setup"`), looks at the files once, at its start (`StartSetup`),
and may run beside another run of the machine (`beside`, a history field), the provisioner presents a campaign's bearer from
protected material (`"material"`), a systemd host repeats its own installation
(`"systemd"`).  A start is a
delivery nonce, and with it the receipt under which the server returns the same
credential again.

`UpdateRollout` has one operator per call of `updates/service.py`; a call is one
transaction under row locks and therefore one step.  An operation is a pair of
rollout and device.  `UpdateAdapter` keeps `handoffs`/`acked`
(`endpoint_update_state.json`) and `journal` (`endpoint_update_reports.json`).
`AltUpdate` and `WindowsUpdate` replace one file per step and name the steps by the
functions that do; `agent.pc`, `worker` and `updater.pc` are where the processes
stand, and a fault may come between any two steps.  In `WindowsUpdate` the updater
holds the machine-wide mutex except at the points in `Unlocked`.  `accepted` and
`selector` are history variables.  The history of an ALT host keeps the entries with an
operation, all of them: the code drops the oldest of more than a hundred, as it does
with the handoff journal.

On an ALT host the worker's history and marker are root's (`hidden`) until the script
gives them back before it starts the agent (`restore_update_state_owner`); the agent
cannot read them before, and the next append of the launcher puts an unreadable history
aside.  The launcher writes its own files in place, so that a power failure may leave
half a file.  `lost` are the operations whose outcome went that way, `blamed` the ones
whose replay failed after the release had been selected.  That systemd ends a worker
after 180 seconds is a crash at one of its steps.

On a Windows host `aside` are the operations whose request the updater moved away:
because it could not be loaded (`LoadFails`) or because its outcome could not be written
(`OutcomeFails`).  A restore in the handler may fail (`UndoFails`) and leave the candidate
selected and the agent stopped; `GiveUp` and `Ending` are the returns without an outcome,
a full disk among them; `IoError` is an error at any other step of the updater's `try`,
extraction included.  An error of the service manager is not one the handler catches: it
ends the updater (`UpdaterCrash`), which the recovery policy starts again.

### Named bounds

`Session` bounds the number of connections; `Spare` lets failures happen only
while a session is left to reconnect with, so that a failure is never the last
event of an instance merely because the instance is small; `Exhausted` is the
exception liveness makes when rejected late results have used the sessions up.
`MayResend` switches on an agent that repeats a result without `result_ack`, which
the server handles and the tests exercise
(`tests/gateway/test_endpoint_operation_delivery.py:1915`) although the present
agent runtime does not do it.

In `ContextSchedule`, `Server` selects which of worker and gateway take part,
`MaxTime` ends the clock, and intervals are one or two ticks.  In
`ContextSnapshots`, `Carries` lists what a result may report, `MayPin` which
snapshots may be pinned, `MayEnd` which collections may end without a result, and
`Limit` is 1, so that a batch is full after one deletion.  `Window`, `4 * limit` in the
code, is 1, so that one current snapshot of another key fills it.

In the telemetry modules `MaxVersion`, `MaxChanges`, `MaxFaults`, `MaxTime`,
`MaxEvents`, `MaxRecords`, `MaxSends` and `MaxReports` end the run of events,
`MaxQueue` (policy) and `MaxFrames` (power) keep the senders from filling a queue of
frames, `MaxFaults` of power counts a repeated batch (an answer after its timeout)
among the faults, and the spool holds one event (`MaxSpool`, `MaxQueue` of power) while a
batch holds two, so that the second event always evicts.  `MayBeDelayed`, `MayBeAhead`,
`MayBeLarge` and `MayBeMisdated` name the events that may be dated before or after their
time, be oversized, or be refused by the server; `MaxLogs` counts how often the native
log is created again and `MaxExpired` how many records may grow old.  `MaxUses`,
`MaxStarts`, `RetryAttempts` and `MaxRotations` bound enrollment.  `MaxRollouts`,
`MaxPauses` and `Pausable` bound the administrators, `MaxFaults` the crashes and I/O
errors, and `RetryLimit` is the launcher's own.  `Canaries` are the sizes of a canary
stage the hosts' runs create: 1 there, since a host is the only device; with both sizes
`alt_updates` passes as well (452,469 states), and so do the invariants of
`windows_updates` (969,111 states, and 732,122 with three faults).

## 3. Runs

| Run | Instance | Shows |
|---|---|---|
| `gateway_context` | 2 sessions, 1 diagnostic, 1 scheduled collection, repeats, both ack statuses | `LocksHold`, `TerminalOnce`, `CanceledNeverSent` |
| `gateway_recipe` | 2 sessions, 1 recipe of 2 steps, repeats | `OperationRows`, `StepsInOrder`, `NeverSentTwice`, `KeepsPromise`; `Redelivered`, `EveryOperationEnds` under `FairDelivery` |
| `snapshots` | a baseline, an activity, a health and a diagnostic key, 7 results, clock skew, a candidate window of 1 | `CurrentNewest`, `PinnedStored`, `PreviousKept`, `PointerOnlyForNewer`; `HotHistoryDrains` under `FairRetention` |
| `schedule_requests` | 2 handlers, gateway, 1 manual key | `OneRefresh`, `InsertsUnique` |
| `schedule_worker` | worker and gateway, 3 instants | `TransactionsEnd`, `ScheduledExpire` under `FairWorker` |
| `policy_delivery` | 2 versions, 3 assignments, 1 fault, failing sensors, agents with and without the feature | `QuietMeansCurrent`; `PolicyAnswered` under `FairSpec` |
| `security_events` | 2 events, one delayed or oversized, one from a clock ahead; spool of 1, rotation between 2 versions, 1 fault, servers with and without per-event results | `Accounted`, `RotationKeepsEvents`, `NotStoredAgain` |
| `power_events` | 2 records or callbacks, one misdated; a log created again, queue of 1, pages and batches of 2, 1 fault | `NothingSkipped`, `PowerAccounted`; `QueueDrains` under `FairSpec` |
| `enrollment` | a campaign of up to 2 uses; a Setup run before, after or during a second one of its machine, beside a Linux host or a provisioner, or alone before two campaigns; 2 claims, 2 starts each | `UsesAreDevices`, `OwnPair`, `RefusedForGood`, `RetryServed` |
| `update_rollouts` | 2 devices, 2 builds, 2 rollouts, 2 report keys | `OneOwner`, `ReportsMatch`, `OverTogether`, `CancelsWhatWasRead` |
| `alt_updates` | 1 host, an update and a rollback, 2 faults, failing replays, root-owned files | `WayBack`, `UndoneIsUndone`; `HandoffReported` under `FairSpec` |
| `windows_updates` | 1 host, an update and a rollback, 2 faults, quarantined requests, failing writes | `ProvenOrRestorable`, `AuthorityKept`; `RequestReported` under `FairSpec` |

Two sessions give the replaced handler that overlaps its successor, the lost frame
and the redelivery.  Two steps give a predecessor and a last step; one operation of
each kind suffices because operations meet only in the selection order, which
`gateway_context` covers with two pieces of work.  Sessions are interchangeable
(`SYMMETRY`) in the safety run; the liveness runs use no symmetry.

Two handlers are the replaced and the new connection of a device.  Worker and gateway
take collection rows and the device row in opposite orders, which is what the lock
cycles of this code are made of.  Two instants with an interval of one let a request
become overdue and a second bucket begin.  Three results of the baseline key are a
current, a previous and a deletable snapshot, in every order of collection time,
arrival and identifier.  The health key has one snapshot, always current and older than
the activity ones: it is the row that fills the candidate window.

Two policy versions and three assignments give a change, a change back and a
delivery overtaken by both.  Two events for a spool of one give an eviction while a
batch is in flight; two records for a queue of one the same, with a page behind.
Two installations of one machine, of which one may be stopped between its two files,
give the mixture `OwnPair` excludes, one after the other, and the one it admits, at the
same time; a campaign of one or two uses is used up by the
two clients, and the second campaign makes the choice of one ambiguous.
Two rollouts give a successor of a paused one, a rollback, and a report that comes
after both; two faults let a recovery be interrupted itself.

Six properties state their exceptions, each a state the code can stay in or reach and
each needed (without it the run fails).  `HotHistoryDrains`: a superseded hot snapshot is
deleted unless as many due current snapshots as the window holds are before it.
`OwnPair`: unless two clients of the machine overlapped, or one was the bearer provisioner, which
looks at no file.  `RotationKeepsEvents` speaks of events whose policy was in force at
their time and whose application the server knows; those it rejects are old or from a
clock ahead.  `UndoneIsUndone`: a failure blamed on a selected release.
`HandoffReported` and `RequestReported` name their silent ends: an inconsistent replay,
a lost outcome of a build that already runs, a history that stays root's; and
`Overtaken`, `Disowned`, `Orphaned`, `Stranded` (see Observations).

Deadlock checking is off where an instance ends when its sessions, its clock or its
work do, and on in `Snapshots.cfg`.

**Fairness.**  `FairDelivery`: the agent's reconnect loop (and the service manager
that restarts it after a terminal exit), the handlers and the agent's receive loop
keep running (weak fairness) - the code's own loops - and `expire_operations`, which
runs periodically and skips locked rows, meets every row unlocked now and then
(strong fairness: a lock is held only for a transaction).  `FairTransactions`: a
statement that can run runs, a waiting statement gets a lock that becomes free again
and again (strong fairness: PostgreSQL queues the waiters of a row), and its deadlock
detection aborts a cycle.  `FairWorker` adds that time passes and that `run_worker`
starts the schedule job again and again.  `FairRetention`: `run_worker` repeats the
retention job.  Neither assumes that the agent, the gateway or an administrator does
anything.

`SecurityTelemetry!FairSpec`: handlers and the agent's tasks take the frames they
have (weak fairness), the agent starts and connects again, and its heartbeat timer,
which waits while frames are on their way, fires now and then (strong fairness).
`PowerTelemetry!FairSpec`: the collector, the sender, the handler and the reconnect
loop run on (weak fairness).  `AltUpdate!FairSpec` and `WindowsUpdate!FairSpec`:
systemd or the service manager keeps agent and worker or updater running (weak
fairness), and a call, a download or (on Windows) a handoff that is repeated for ever
is answered in the end (strong fairness on the answered outcome); faults are never required and are bounded.

**Observations.**  What the models and the reading of the code showed, beside the
properties that hold.

* `deprecate_module_version` says it stops *new* operations (`modules/routes.py:489`).
  While an operation of the deprecated version is active, every `deliver_next` of that
  device raises (`gateway/command_service.py:200`), diagnostics and collections
  included, until the operation's deadline.  `RefusedOnlyForVersion` proves it is the
  only way an open session is refused.
* The scheduler and the connect refresh both promise no duplicate active work, but use
  different advisory lock keys (`context/scheduler.py:102`) and do not see each other's
  uncommitted row: two active requests of one profile are possible.  A late
  acknowledgement moves a request the scheduler has expired back to collecting
  (`gateway/command_service.py:1023`).
* Retention looks at the `4 * limit` oldest hot snapshots including current ones it
  never deletes (`context/retention.py:79`); that many unchanged states stop it.  This is
  the exception in `HotHistoryDrains`, and the instance reaches it.
* An offline agent cannot block the scheduler, says `context/scheduler.py:91`; a request
  of an administrator or a service has no expiry (`context/repository.py:121`) and
  blocks its profile until the device answers.
* `_advance_current_pointer` advances only for a strictly newer observation
  (`context/ingestion.py:118`); an unchanged observation is folded into the newest
  snapshot and leaves no trace of its time, so a delayed older one can still replace
  it.  `activity_v1` stores that time: `PointerOnlyForNewer` is stated for activity.
* A policy acknowledgement for a superseded delivery is refused and ends the
  connection and the agent process (`policy/delivery.py:132` speaks of marking it
  stale); the service manager's restart is what `PolicyAnswered` rests on.
  `record_policy_ack` does not look at the session, so a replaced connection's
  acknowledgement counts; `QuietMeansCurrent` is therefore stated for rows answered on
  the live connection.
* Security events recorded under an application whose acknowledgement was lost are
  rejected for good, and so is one whose sensor read the policy before and the clock
  after an application (`runtime/application.py:368`), or a browser event observed before
  the policy it is sent under (`activity_ingress.py:268`).
  When an event in flight is evicted, the security spool cannot match the answer and
  repeats the batch until the connection ends; the power spool settles the rest.
* After the native log was created again within a boot, its records name no boot the
  source knows and are counted as losses.  A suspend or resume that has a callback and a
  record in the log is sent as two events.
* A Linux host that stops between the consumed claim and its files is denied at its
  next start, which draws another nonce.  The answer of `/credentials/rotate` is not
  repeatable.  The status route turns a completed request into an expired one after its
  lifetime.
* `_classify_installation_state` says it will "fail closed before a rerun can overwrite
  enrollment-owned local state" (`setup_entry.py:686`).  It looks once, at the start, and
  no lock keeps a second run off the machine: two runs that both find it clean can leave
  files of two devices.  Without `Met`, `OwnPair` fails on exactly this.
* The update service locks rollout, device and target rows in different orders in
  different calls; PostgreSQL aborts one of two that meet.  A broad rollout asks for a
  completed canary, not for a successful one.
* An ALT host publishes its pending file before the handoff is journalled
  (`gateway_update_runtime.py:78`): an update installed after a crash in between is
  never reported.  `HandoffReported` starts at the journal.
* "Leave the pending request for an idempotent replay instead of reporting an active
  build failed" (`alt_update_installer.py:138`) holds for the run that selected the
  build.  The replay after a power failure has neither flag of that run, and when it
  fails, its handler (`:142`) records the running build as failed.
* The worker's history is root's until the script changes its owner
  (`apply-pending-alt-update.sh:163`).  After a power failure between the removal of the
  request and that line nothing repeats the change: the agent reads no history, and a
  launcher that appends to it puts it aside.
* On Windows, a run after a crash may accept an update whose failure is already in
  `terminal-outcome.json`, and the agent then stays with a report it cannot deliver
  (`Overtaken`); an updater that dies in `_rollback` after it cleared the transition, or
  whose restore failed, leaves the agent service stopped until the next boot
  (`Stranded`, `updater_service.py:524`).
* A request that cannot be loaded, or whose outcome cannot be written, is moved away
  (`updater_service.py:424`, `:565`), also under a prepared transition.  From then on the
  updater stops at "unconfirmed transition is missing pending identity" (`:415`) and
  nobody takes the way back that `ProvenOrRestorable` shows to exist (`Orphaned`).  The
  startup attempt it leaves behind makes later outcomes unreportable (`Disowned`,
  `online_update_runtime.py:299`).
* An error after the candidate was started restores the selector and starts a service
  that is running already: the candidate runs on with the previous release selected.

## 4. Proofs

The gateway theorems hold for any sets of sessions, operations and collections, from
`KindsAssumption` (the names of different kinds of work differ),
`StepCountAssumption` (a recipe has 1 to 8 steps, the limit of the code) and
`ProtocolAssumption` (statuses a frame may carry).  TLC evaluates the three on
every run.

| Theorem | Property | Rests on |
|---|---|---|
| `TypeCorrect` | `TypeOK` | `Wired` |
| `LocksCorrect` | `LocksHold` | `TypeOK`, `Wired` |
| `EndsOnce`, `EndIsFinal` | `TerminalOnce`, `TerminalFinal` | `LocksHold` |
| `RowsAgree` | `OperationRows` | `LocksHold`, `Unanswered` |
| `RefusalIsForVersion` | `RefusedOnlyForVersion` | `OperationRows` |
| `DeliveriesMirror`, `PlainResultsStand` | `DeliveryMirrorsCommand`, `PlainResultStands` | `LocksHold` |
| `CancellationHolds` | `CanceledNeverSent` | `OperationRows`, `IdleFree`, `SentHasRow` |
| `SentOnce` | `NeverSentTwice` | `IdleFree`, `OneOpen`, `Ownership` |
| `RecipeInOrder` | `StepsInOrder` | `OperationRows`, `HeldPrepared` |
| `PromiseKept` | `KeepsPromise` | `OperationRows` |

**The inductive invariant** is
`TypeOK /\ Wired /\ LocksHold /\ OperationRows /\ Unanswered`, extended where the
sending side is concerned.

* `Wired` says what the types do not: an executing agent is connected, a handler
  that sends has a command in hand, an unused session has no handler.
* `LocksHold` carries the decision made in `DeliverBegin` over to
  `DeliverCommit`.  `LockedUndisturbed` shows that no step but the owner's commit
  touches locked rows; `DecisionStable` that the decision, which depends on those
  rows only, is still right; `CommitUndisturbed` that one commit leaves the rows
  locked by another alone.  Everything about rows follows from it: without it a
  commit could overwrite a cancellation or an expiry that happened in between.
* `OperationRows` is not inductive alone: a result row for a command that has not
  been delivered is consistent with it and would break it at delivery.
  `Unanswered` excludes it.
* `IdleFree` and `SentHasRow` say that what has been sent, or is about to be, has a
  command row.  A canceled operation has none, since cancellation is refused once
  the row exists.
* `OneOpen` and `Ownership` replace the missing lock on the session row: whatever a
  session has sent, or is about to send, it owns or it is closed.  A handler that
  reads its session as open and is replaced before its commit binds the
  command to a closed session; that session then holds it, but another session
  that takes it over can never lose it back to the closed one.
* `HeldPrepared` says that every step frame on its way has its predecessors' stored
  successes.

**The argument.**  The model has some twenty actions and an operation some five row
families.  `GatewayCommandsProofs` first shows that every step does to every piece of
work one of a few *effects* (keep, expire, deliver, acknowledge, store a result),
and then that each effect preserves agreement, once per effect and kind of work
instead of once per action and conjunct.

**Snapshots.**  The theorems of `ContextSnapshotsProofs` hold for any keys, results,
contents, limits and clocks from `SnapshotConstants`, which TLC evaluates.

| Theorem | Property |
|---|---|
| `TypeCorrect` | `TypeOK` |
| `CurrentIsNewest` | `CurrentNewest` |
| `PinsHold` | `PinnedStored` |
| `PointersForward` | `CurrentForward` |
| `PreviousStays` | `PreviousKept` |
| `ActivityFollowsNewest` | `PointerOnlyForNewer` |

The inductive invariant `Safe` is
`CurrentNewest /\ PinnedStored /\ Backed /\ DoomedSafe`.  `Backed` (a snapshot belongs
to a completed collection) is why neither a second result nor the clean-up of
bookkeeping rows, with its cascade, touches a snapshot.  `DoomedSafe` carries the
decisions of retention over to its commit: what it is about to delete is stored,
unpinned, under a held lock, not current (except for diagnostics) and not the
predecessor of a stable current one; the lock keeps ingestion and pins of that key
away.  Every step has one of three effects on a key: a result adds a
snapshot, a result folds into one or changes none, or retention commits
(`NextEffect`), and each property is shown once per effect.

**Rollouts.**  The theorems of `RolloutProofs` about `RolloutService` hold for any devices, builds,
report keys and bounds from `RolloutAssumption`, which TLC evaluates.

| Theorem | Property |
|---|---|
| `OwnersUnique` | `OneOwner` |
| `ReportsAgree` | `ReportsMatch` |
| `EndTogether` | `OverTogether` |
| `CancelsAsRead` | `CancelsWhatWasRead` |

The inductive invariant is
`Shape /\ SoleOwner /\ ReportsMatch /\ OverTogether /\ Stale`.  `Shape` says that the
rollouts are a sequence of records and that a report row belongs to a target.
`Stale` is what the counter of pauses (the time `paused_at` in the code) is for: once
the rollout of a cancellation context has been touched, it has been paused again, is not
paused, or its only target is over, and it can never return to the state that was read.
A step moves one target, turns one rollout or adds a rollout (`Moves`, `Turns`, `Adds`);
each call is shown to be one of the three, and the invariant is preserved per call.

**Enrollment.**  The theorems of `EnrollmentProofs` hold for any campaigns, installs,
claims and machines, from `EnrollmentAssumption` (finitely many installs, which the
count of uses needs), `NilAssumption` (an absent row is none of the present ones) and
`HostAssumption` (a Linux installation is its machine's only one).  TLC evaluates the
three.

| Theorem | Property | Rests on |
|---|---|---|
| `EnrollmentTypes` | `TypeOK` | `Bound` |
| `UsesAreDevicesAlways` | `UsesAreDevices` | `Bound` |
| `RefusedForGoodAlways` | `RefusedForGood` | `Bound` |
| `RetryServedAlways` | `RetryServed` | `Bound`, `StartBound`, `UsesAreDevices` |
| `OwnPairAlways` | `OwnPair` | `Bound`, `RunBound`, `Mine`, `PairBound`, `FileBound`, `Owner` |

`Bound` ties what is presented to what was issued: a claim belongs to one install and
campaign and came from a request exactly for Setup (`ClaimBound`), clients and calls on
their way present only their own (`ClientBound`, `CallBound`), a Setup run has the
request row its position needs (`RequestBound`), and a Setup device has a registered
request (`DeviceBound`), which is why a refused one has none.  `StartBound` says that
all calls of one start carry the same campaign and claim and that a receipt is of a
start its client has reached; with it the branch of `enroll_agent` for an existing
device recognises its own client.  `PairBound` and `FileBound` follow the two files
through the writes.  Each step moves one client (`OneTurn`, `ProcStep`), one request
(`RequestStep`), and either enrolls one device or none (`DeviceStep`); the invariants
are shown from these effects.

`OwnPairAlways` needs no hypothesis on how runs overlap.  `RunBound` says that a running
client has met every other one of its machine that runs or owns one of the files
(`Owner`), since it began on a clean machine or looked at none; `PairBound` that a client finds what it
wrote (`Mine`) unless it met another; `FileBound` that two owners of the files met.

**Schedule.**  The theorems of `ContextScheduleProofs` hold for any handlers, profiles
and instants from `ScheduleConstants`, which TLC evaluates: `InsertsUniqueAlways`
(`InsertsUnique`) and `OneRefreshAlways` (`OneRefresh`).  The invariant `Safe` has a
part per mechanism.  `DeviceHeld`: who looks an identity up, or has a row to
insert, holds the device row.  `RowsHeld` and `InsertsNew`: locked rows exist and have
one owner, rows to be inserted do not exist.  `Roles`: worker, gateway and
administrators do their own work only.  `Turns`: a handler at work on a rule holds the
advisory lock of its profile, and by the time it inserts, every active refresh of the
profile is one it is about to expire; that is what its reading of a row that somebody
else has locked must not lose.  `Single` is `OneRefresh` without counting.  An action of
a transaction is one `Statement`, steps outside transactions are `RowStep`s, and a commit
publishes what the locks kept apart; each part is shown once per effect.

**Policy and security events.**  The theorems of `SecurityTelemetryProofs` hold for any
versions, applications, spool sizes and numbers of lost connections, from
`PolicyConstants` and `TelemetryConstants`, which TLC evaluates.

| Theorem | Property | Rests on |
|---|---|---|
| `AccountedAlways` | `Accounted` | `Books` |
| `NotStoredAgainAlways` | `NotStoredAgain` | `Books`, `Gone` |
| `RotationKeepsEventsAlways` | `RotationKeepsEvents` | `Newer`, `Periods` |
| `QuietMeansCurrentAlways` | `QuietMeansCurrent` | `Agrees` |

`Books` is `Shape /\ Sent /\ Accounts`.  `Sent` says that frames are well formed, that a
batch names events that happened, and that an answer which settles an event names one
that is stored or was forgotten for its age; `Accounts` that the events in none of these
places are at most as many as the counters say.  What `_trim` drops is bounded by the
least number that makes the spool fit.  `Gone`: a forgotten event is old and not stored.
`Newer` and `Periods`: no application later than the cached policy's has been reported,
and between the application a steady event was seen under and the event no other was.
`Agrees`: the last successful answer on its way is for the current policy, and when
nothing is on its way and the live policy is applied, row, cache and assignment agree.

**Power events.**  The theorems of `PowerTelemetryProofs` hold for any log, page, queue
and batch size and any number of faults from `PowerConstants`, which TLC evaluates:
`NothingSkippedAlways` (`NothingSkipped`) and `PowerAccountedAlways`
(`PowerAccounted`).  The invariant `Books` has three parts beside the shapes.  `Covered`:
a page that was read and not committed continues where the taken records end
(`NothingSkipped` alone is not inductive at `commit_page`); it speaks of the records of
the present log, so a log created again asks for nothing of the page; it rests on `PageFacts`, that a page is a prefix of what can be read.  `Sent`: an answer names
records that are stored or old, also after retention has removed them.  `Accounts`: the
records missing from queue and server are at most as many as the counters say; the rows
`_trim` drops, the unreadable records of a page and the rejected ones are counted where
they go missing (`TrimmedKeeps`, `LossesCounted`).  The lemmas before these show that
expiry, acknowledgement and queueing keep a queue free of duplicates and in order.

**Windows update.**  The theorems of `WindowsUpdateProofs`,
`ProvenOrRestorableAlways` (`ProvenOrRestorable`) and `AuthorityKeptAlways`
(`AuthorityKept`), hold for any builds, rollouts and any number of faults, from
`RolloutAssumption`, `AdapterAssumption` and `WindowsAssumption`, which TLC evaluates.
The invariant is `Safe`, that is
`Shapes /\ Selection /\ AppliedAccepted /\ Position /\ AtHand`.  `Selection` is what the
files say by themselves, whatever process is running: without a transition the
last accepted release is selected; a prepared transition leads back to it and has its
attempt and, unless the updater put it aside, its request (`QuarantineKeeps`); a marked
one has the proof of its own attempt.  `Position` says
what the updater may rely on at each of its steps, the ones after it let go of the
mutex included; `AtHand` the same of the agent; `AppliedAccepted` that the server
knows as applied only accepted operations.  A step of the service moves one operation
and keeps the rest (`ServerStep`), steps that leave the files alone only have to
establish the updater's next position, and each replacement of a file is shown once.

**ALT update.**  `WayBackAlways` (`WayBack`) and `UndoneAlways` (`UndoneIsUndone`)
of `RolloutProofs` hold for any builds, number of rollouts,
retry limit and number of faults, from `RolloutAssumption`, `AdapterAssumption` and
`AltAssumption` (`None` is no version and no operation), which TLC evaluates.  The
invariant is `AltSafe`, that is `ServerSafe /\ JournalSafe /\ HostSafe /\ AgentSafe`,
beside `KeptSafe`, the types of `hidden`, `blamed` and `lost`.
In `HostSafe`, `SelectionSafe` strengthens the way back: it also exists while the
request of the selected update is still there, and a request of another operation is
there only when the selected one is over.  The second half comes from `SoleOwner`,
because only one open operation can be offered to a host, and is what lets the worker
replace `previous.json`.  `WorkerSafe` says what the worker finds on disk at each step:
at `select` the previous release is the current one, after a rollback nothing is
selected by an operation before `previous.json` goes.  `LogSafe` (one entry per
operation, with its version) and `FailureSafe` (a recorded failure of the selected
operation still has its request, so that the next run records its success) make the
outcome the agent reads from the history the true one.  `AgentSafe` says that agent and
worker never run at once and that what the agent has in hand would change the release.
A step of the service moves one open operation and adds open ones (`Serves`); a step of
the worker leaves agent and service alone (`WorkerFrame`).

**Model-checked only.**  The liveness properties (`Redelivered`, `EveryOperationEnds`,
`TransactionsEnd`, `ScheduledExpire`, `HotHistoryDrains`, `PolicyAnswered`,
`QueueDrains`, `HandoffReported`, `RequestReported`) need fairness and `ENABLED`, out
of the prover's reach.  Every invariant a run checks is also a theorem.

**Proved only.**  `TypeOK` of `GatewayCommands`, `ContextSnapshots` and `Enrollment`,
`TerminalFinal`, `DeliveryMirrorsCommand`, `PlainResultStands`,
`RefusedOnlyForVersion` and `CurrentForward` are theorems for every instance and are not
repeated in a run.

## 5. Plan

| Module | Models | Properties and theorems | Composition |
|---|---|---|---|
| `HttpPull` | `gateway/routes.py`, agent `transport/http_pull.py` | pull moves no row of an operation; a pulled command is answered once | the same command rows, beside `GatewayCommands` |
| `OperationRequests` | create with idempotency key, request digest, cancel, read, pin, evidence retention | a repeat returns the first operation, pinned evidence stays; abstract specification: a keyed create-once register | the requests of `OperationPromise` |
| `GatewayRegistry` | `connection_registry.py`, worker lease, the order of `open_session`, `register`, `unregister` and `close_session` in `connect_agent`, `MigrationFallbackGatewayTransport` | a connection leaves the registry by its own handler, its successor or a shutdown; no ended handler leaves a registration or an open session; an agent that keeps reconnecting ends with a registered connection and an open session, although an old handler may open or register after a new one | its notices are `AgentLosesLink` |

## 6. Not modelled

* Handshake, contract validation, authentication and authorisation: they decide
  whether a request is accepted, without keeping state that interacts.
* Diffs, device events, findings and the scrub of raw payloads in Device Context:
  written beside a snapshot and read by nothing that decides.
* Payload content of telemetry, activity, browser and power data: reads and
  aggregations without a protocol.
* Staged recovery, provenance checks and repair by Windows Setup, and the installer of
  unprivileged launchers: further users of the files of `WindowsUpdate`, run by an
  administrator one at a time.  Of `WindowsUpdate` itself, `previous.json` and the
  branch of the request writer for a selector changed by somebody else are left out,
  as is the limit of 128 sequences in flight in the security runtime
  (`security/runtime.py:181`).
* HTTP pull, the connection registry and idempotent operation requests: planned.
* Generated contracts, migrations, the web console, packaging scripts, the tools and
  the integration with Windows and ALT Linux services: generated code, pure I/O or
  code whose behaviour is the operating system's.  They are most of the repository's
  lines, which is why the share of lines that the modules stand for is small.
* PostgreSQL itself: row locks, `SKIP LOCKED` and commit atomicity are assumed as
  documented; file replacement is assumed atomic and durable.
