# Verification of garage-lpr

garage-lpr watches cameras at a garage entrance, reads number plates and opens a gate for
vehicles that are authorized.  The backend (`src/backend/src/garage_lpr`) is one Python process:
FastAPI runs the requests of the management API on a pool of threads, and a handful of
long-lived threads do the work: one capture thread per active camera, one inference thread, one
gate command thread, one audit thread.  Every one of those is started, stopped and replaced at
run time by requests that take no common lock.  What is hard to test in this program is what
those threads do to each other between two lock sections, and that is what the TLA+ modules in
this directory are about.

Paths below are relative to `src/backend/src/garage_lpr/` unless they start with `src/`.

## 1. Inventory

| Component | State | Operations | Hard behaviours | What makes it correct |
|---|---|---|---|---|
| Gate command executor, `gate/manager.py:19-85` | queue of one, `busy`, `poisoned`, `stopped`, the command in flight | `open`, `shutdown`, worker `_run` | hand-over of `busy` from a caller to the worker; timeouts; pill lost to, or ahead of, a command; adapters that hang | one command at a time; no gate moves behind the back of a caller that was told something else; nobody waits for ever |
| Gate manager, `gate/manager.py:88-162` | controllers, the executor in use | `apply`, `remove`, `open`, `shutdown` | the executor is retired while calls hold a reference to it; its thread may not start once the controller is stored | an executor exists only while gates do, and gates are without one only after a failed start; none is lost; poison stays until the operator has removed all gates |
| Inference manager, `inference/manager.py` | bundle of pipeline and orchestrator, cameras, handle of the worker, state | `configure`, `apply_camera`, `remove_camera`, `shutdown`, worker `_run` | stop, change and start are separate lock sections; join with timeout; failed builds and starts | one worker, under the confirmed settings, whenever there is something to do |
| Cooldowns, `access/cooldown.py` | last trigger per plate (bounded table), last global trigger | `check_and_reserve` | frames out of order, pruning, eviction, replacement by a settings change | two openings are apart, per plate and overall |
| Event service, `events/service.py` | bounded queue, worker, counters, retention | `start`, `publish`, `configure_retention`, `shutdown`, worker | retries around a commit, full queue, stop racing publishers, a stop that gives up on a worker at work, retention changed while pruning | every event accounted for; shown only if committed; retention obeyed; queue drained at the stop unless the shutdown gave up |
| Camera manager and stream, `camera/manager.py`, `stream.py`, `buffer.py` | workers, buffers, snapshots, active ids | `apply`, `stop`, `shutdown`, `mark_unavailable`, worker `run` | join with timeout, state written by worker and requests, frame of an older stream | one worker per camera; CONNECTED means a live one; no stale frame |
| Event broker and WebSocket, `events/broker.py`, `api/routes/events.py` | subscriptions and their bounded queues, the event loop's callbacks | `subscribe`, `publish`, `unsubscribe`, the handler of a connection | hand-over from the audit thread to the event loop; slow clients; clients that go away | a client gets events in order and loses only the oldest; the slot of one that left is freed |
| Recognition, `recognition/` | tracks, observations per track, decisions | `process` | bounded tables shared by the cameras, votes by time, eviction of decided tracks | a decision has its readings; one decision per stay |
| Orchestration and authorization, `gate/orchestration.py`, `access/authorization.py` | vehicles, rules and gates in the database | `process`, `evaluate` | a decision reads the database several times while requests change it; overnight schedules; failures at each step | no gate opens without every check; the log tells what happened |
| Authentication, `auth/` | users, sessions, failed logins | `setup_admin`, `login`, `authenticate`, `logout` | set-up race, password checked between two sections of the limiter, bounded limiter table | one first administrator; a locked client stays locked; sessions end for a reason |
| Snapshot storage, `storage/` | settings in force, files and their age, time of the last pruning | `configure`, `capture` | pruning once a day with settings that change; write, replacement and deletion may fail midway | an event finds its picture; pictures go in time and never too early |
| Event recorder, `events/recorder.py` | time of the last sample per camera | `record` | gate results arrive apart from decisions | no decision goes unrecorded |
| Lifespan, `main.py` | order of start and shutdown | start, shutdown | a component that fails to start or stop; a crash | what runs after a start is what is stored |
| Administration, `camera/service.py`, `access/rules.py`, `access/vehicles.py`, `api/routes/` | rows, and what runs | create, update, delete, settings | the row is committed first and the managers told afterwards, if at all; ids used again; count-then-insert | what runs is what is stored; the limit of active cameras; one fallback rule |
| Health, `health/` | none | aggregation | stale error texts | a failure shows |
| Detection and OCR, `detection/`, `ocr/` | none of interest | numeric | - | outside TLC's reach |

How they interact.  A capture thread writes frames into its camera's buffer and states into the
camera manager, which tells an observer in `main.py`, which publishes camera events.  The
inference thread reads the latest frames and the camera state, runs recognition, asks the
cooldown manager, calls `GateManager.open` through the orchestrator and records what happened as
events.  The gate worker calls the adapter.  The audit thread writes events into SQLite, prunes,
and hands events to the broker.  Requests call `apply`/`stop`/`configure`/`remove` of the managers;
`PUT /settings` also replaces the recognition service, and with it tracks and cooldowns.
`PROJECT.json` lists each hazard at the line where it bites, with the properties that guard it.

## 2. Modules

`AuditTrail` and `GateRight` are abstract specifications; `MC*` hold the symmetry sets for TLC;
`*Proofs` hold theorems.

**GateExecutor** (with **GateRight**).  One action per lock section, queue operation or adapter
call: `Claim`, `Enqueue`, `EnqueueFails`, `GiveUp`, `TimeOut`, `Poison`, `ReturnResult` are
`open()`; `Deny` stands for its three refusals; `SetStopped`, `OfferPill`, `JoinReturns` are
`shutdown()`; `Take`, `PollTimesOut`, `CheckStopped`, `AdapterReturns`, `Release`, `Signal` are
`_run()`.  A command is named by its caller: `CommandOwned` says that a caller has one command at
most that the worker may still execute, so nothing is lost by the naming.  `GateRight` knows no
queue and no thread: it grants the right to move the gate to one call at a time, a closed
executor grants it no more, and answers agree with what the adapter did.

**GateManager** composes with the executor through that abstraction: every executor ever created
is represented by holder and stage of its right, so that several executors and the calls that hold
on to retired ones can be explored together.  `apply()` stores the controller before it starts the
executor's thread: when that raises (`ApplyFails`) the gate is active and there is no executor until
the next `apply()` (`unstarted` is history).  `open()` is `LookUp`, the adapter's health check
(`Healthy`, `HealthFails`), then the executor's answer.

**InferenceManager**.  Workers are numbered as they are created and settings as they are saved, so
that "which settings does this worker run under" can be asked.  A request is a sequence of
`ReadHandle`, `SetStop`, `Joined`/`JoinTimesOut`/`JoinTooEarly`, `Clear`, `Install`/`EditCamera`,
`Create`, `Start`/`StartFails`.  A round of the worker over the cameras is `NoFrame`, `Process` or
`PipelineFails`.  `InferenceHealth` is what the health report says of the
pipeline.  The history variable `overlapped` remembers that a request began while another
was in progress.

**Cooldown**.  `check_and_reserve` is one lock section and one action per outcome
(`RefusePlate`, `RefuseGlobal`, `Allow`), with pruning and eviction inside.  `Rebuild` is what
saving the settings does.  `skew` says how much older than the newest frame a frame may be, since
the inference worker goes round the cameras.  `opened` is history.

**EventService** (with **AuditTrail**).  Publishers are `Check`, then `Put`, `PutFails` or
`RecordDrop`.  The worker is `Take`, `Persist`/`Commit` with `AttemptFails`, `Break`
and `RollbackRaises` for the three ways a transaction goes wrong, `Due`, `NotDue`, `Delete`,
`DeleteFails`, `Announce`, `End`.  `EventHealth` is what the health report makes of the counters.  A failing attempt may have committed (the commit succeeds, the refresh raises),
which is how an event gets two rows or counts as failed although written.  A pruning that fails is counted
as a failure too (`CountFailure`), besides the event at hand, which was persisted.  `LeaveJoin` is the join of
`shutdown()`, ended or timed out; `Exit` is the end of the process, which cuts off a worker that is still
at work, since its thread is a daemon.  Time is days.
`AuditTrail` says what is promised of a single event: turned away for good, or accepted, then
kept, then shown.

**CameraManager**.  A request is `ReadWorker`, `SetStop`, `Joined`/`JoinTimesOut`/`JoinTooEarly`,
`Remove`, then for `apply()` `Install`/`InstallRefused` and `Start`/`StartFails`; the lifespan uses the same
operations (`Boot`, `StopNext`) one at a time.  A worker is `Round`, `Dial`, `FirstFrame`, `Greet`,
`NextFrame`, `Store`, `Record`, `CaptureEnds`, `Closed`, `Retry`, `Leave`.  `Store` and `Record` are
the two lock sections of `_receive_frame()`.  CONNECTED is announced by `Greet` before the frame is
stored.  History: `last` (what the last request was answered), `overdue` (a join timed out),
`crowded` (two requests for the camera overlapped).  `CameraHealth` is what the health report says of a camera.

**Recognition**.  One action, `Process`: the body of `RecognitionService.process()` for one frame, with
the tracker's expiry, greedy assignment, creation and eviction (`Update`), the votes (`Observed`,
`Eligible`, `Winner`), the decision of a confirmed track and the pruning of what is remembered.  The tracker
makes room for the new tracks of a frame one by one; `RoomMade` says in one expression which tracks are left in the
end, and `MCRecognition` compares it with the loop (`MakeRoom`, `OneByOne`).  The
inference thread alone calls it, so the interleaving that matters is that of the cameras' frames.
History: `readings` within the window, and `stays`, which counts the decisions on a plate at a place
since it was first seen there without a gap.

**Schedule** and **Decision**.  `Schedule` has the authorization's arithmetic of weekday and time of
day (`Inside`, `Valid`) and the reference it is compared with (`Allowed`: the windows laid out on a
line of minutes).  `Decision` is one frame from its confirmed plates to its log entries: `Deny`,
`Block`, `Cool`, `Pend` judge a plate in one session, the orchestrator then checks camera, rule, gate
and sends the command in steps of its own, the recorder joins results to decisions, and any step may
fail.  Between any two steps a request may commit a change of the vehicle, a rule or a gate (`since`
is the history of the databases seen).

**Authentication**.  Set-up under its lock (`SetupLock`, `SetupCount`, `SetupCommit`, `SetupFails`),
login as check of the limiter, password and commit, reset (`LoginCheck`, `LoginWrong` or `LoginCommit`,
`LoginReset`), `Authenticate`/`Expire`/`Logout`.  The limiter's table is a sequence in order of use.

**Administration**.  A request is `Load`, `Check`, `Insert` or `Save`, `Refresh`, and then one step per
manager it tells; deletes stop first and remove afterwards, as the handlers do.  Each step that may raise
has its own failure, with what it leaves: a commit that did not happen (`Save`, `Remove`), one whose row
could not be read again (`Refresh`), a worker that did not stop or did not start, a gate whose controller is
stored without an executor (`Apply`), a camera stored or settings installed although the inference worker
did not start (`Infer`, `Configure`).  A handler that creates an inactive row tells no manager (`Tells`), so
it does not repair what an earlier row of the same id left running.  `Crash` loses what runs, `Boot` rebuilds it from the rows.  A behaviour is about
one kind of resource (`scope`): the handlers of different kinds share no runtime, and no row except that a deleted
camera or gate takes its access rules with it, which breaks neither property.  History:
`alone` (requests without another about the same row), `loose` (rows of which a request overlapped
or failed, since one that was alone told the managers), `mixed` (checks and writes of two requests overlapped).

**LiveEvents**.  The audit worker is `Publish`, `Post` and `Forget`; the event loop is `Callback` and
`CloseLoop`; a handler is `Connect`, `Take` or `Heartbeat`, `Sent` or `Disconnected`; a client may
`Leave`.  Each connection is made once: a client that returns is another connection.

**Snapshots**.  A capture is `Record`, `Prune`, `WriteTemporary`, `Replace`, `Publish`, with
`PruningFails` and `WriteFails`; `Configure` prunes when due.  The service's lock makes a capture and
a `Configure` exclusive.  `Stop` may come at any step, `Start` prunes from the stored settings.

How they fit together.  The answer of the gate is `Decision`'s `Open(i, accepted)`: any answer, which
is all that `GateExecutor` leaves open (`GateRight` says which call it belongs to).  `Decision`'s
outcome `Cool` is `Cooldown`'s refusal.  `Recognition`'s batch is what `Decision` starts with.  The
managers that `Administration` tells are detailed in `CameraManager`, `GateManager` and
`InferenceManager`, which assume nothing of the order of requests.  What the audit worker of
`EventService` announces is what `LiveEvents` publishes.

## 3. Runs

| Run | Instance | What it shows |
|---|---|---|
| `gate_executor` | 3 callers | `IndInv` (types, one command at a time, no command without its caller, a stop explains a full queue), refinement of `GateRight`; `Progress`: every call returns, `busy` never sticks unnoticed, a stopped worker ends |
| `gate_manager` | 2 gates, 2 openers, 2 executors | `Inv`: the executor in use follows the gates, up to failed starts, none is lost; poison sticks; `ManagerProgress`: calls return once their health check has, retired executors are stopped |
| `inference_manager` | 2 requests, 1 camera, 2 settings, 3 workers | `Inv`: while requests do not overlap, one worker, under confirmed settings, none after a shutdown; cameras are served or the health report says why not; requests end |
| `cooldown` | 3 plates, windows 4 and 2, tables of 1 and 2, skews 0 and 2, 7 ticks, 1 rebuild | the global window always holds, the plate window in order |
| `event_service` | 2 publishers, queue of 1, 3 events, 2 attempts, retentions 1 and 2, 2 days | accounting, retention, refinement of `AuditTrail`; `Progress`: drained at the stop unless the shutdown gave up, the worker stops |
| `camera_manager` | 2 cameras, 2 requests, limit 1, 2 workers | `Inv`: one worker per camera, answers hold; CONNECTED is live and the health report agrees; fresh frames; the log follows |
| `recognition` | 2 cameras, 2 plates, 3 places, 2 confirmations, window 2, 2 observations, time 3, 2 installations | a decision has its readings; one decision per stay; tables stay bounded; the assumption `RoomForEach`: the room made is what the loop leaves |
| `authentication` | 2 requests, 3 keys in a limiter of 2, locks and sessions of 1 tick, time 3 | one administrator; sessions accounted for; locks hold; failures between locks are bounded |
| `decision` | 2 gates, 2 rules, 2 plates, any storable database, 1 edit | what opens was permitted; the log tells one story of each plate; windows over midnight |
| `administration` | 2 requests; 2 cameras with a limit of 1, a gate, 2 rules, 2 settings, an error at any step | what runs is what is stored; checks before writes hold; both unless requests overlap |
| `live_events` | 3 connections for 2 slots, queues of 2, 3 events, 1 reader | `QueuesInv`: only the oldest events are lost; `LiveProgress`: the latest arrive, slots are freed |
| `snapshots` | 3 pictures, retentions of 1 and 2 days, 4 days in half days | an event finds its picture; pictures go in time and never too early |

**Why the bounds are enough.**  The executor has two roles besides the worker, the call in flight
and one that meets it; three callers put one between claim and queue, one timed out and one
being denied at the same time.  Two executors are one that was retired, perhaps with calls and a moving
gate, and the next one in use; no step looks at more than the one in use and the one a call holds.  Two requests are one more than the code expects; every step of theirs interleaves with the
worker.  Three inference workers: the one in use, its successor and the one a failed stop leaves
behind.  For the cooldowns, a table of two with a plate window of two global windows is the smallest that satisfies the
premise of `PlateGapInOrder`, and a table of one the largest that does not; time is long
enough for every entry to expire.  In the event service a queue of one is full after one event,
three events fill worker, queue and one publisher, two attempts are one failure with a retry and one
without.  In the camera manager one active camera of two makes each request meet the limit, and
two workers are a stream and its successor.

In `recognition` one installation has a track for each place and places that do not overlap, the
other a table of one track, places that overlap and frames out of order, so that both the premise of
`OncePerStay` and its absence are explored; two confirmations are the fewest that need votes, and
`MaxObservations` is scaled down from `max(32, 4 * required)` so that it is reached.  Three keys overfill the limiter's
two entries.  A decision starts from every database the unique constraints allow, so one edit is
enough to separate any two of its reads; the arithmetic of windows is compared over a week of three
days of three minutes for every timetable of one window and all minutes, midnight and the turn of the week
included.  Two requests of
`administration` overlap in every pair of steps, and a limit of one is met by the second camera.
Three connections ask for two slots, and three events overflow a queue of two.  In `snapshots` the
interval of pruning is one day (two ticks) and the shorter retention equals it; four days let a
picture outlive either retention after a change.

The bounds `MaxExecutors`, `MaxWorkers`, `MaxSettings`, `MaxEvents`, `MaxDays`, `MaxTime`,
`MaxRebuilds`, `MaxIds`, `MaxDetections`, `MaxTokens`, `MaxPlates` and `MaxEdits` cap what grows for
ever in the program; they are guards of the actions that count.  Deadlock is not checked where the
system may stop: after a shutdown, at the end of a frame, or when a bound is used up.

**Symmetry** is used only in runs without liveness properties.

**Each property has a mutant**: a slip defined in the module under the heading "Slips", or next to
the definition it replaces, that makes TLC find the property violated.

**Fairness.**  Threads of the pool and workers are scheduled by the operating system, so a step
that waits for nothing outside the process is weakly fair.  Not fair: an adapter's answer
(`AdapterReturns`, `EndMove`) and its health check, which has no timeout: `OpenReturns` speaks of calls whose
health check has answered.  Not fair either: the arrival of requests, a shutdown.  In the inference manager the
worker is not fair, since a pipeline or an adapter may hang in it: `RequestsEnd` rests on the
timeout of the join alone.  In the event service the worker is fair while the process runs, because
SQLite's calls return or raise after the busy timeout of five seconds; the join of `shutdown()` and the end of
the process are not, so the shutdown may give up on the worker, and the process may end before it has drained
the queue or never.  In `LiveEvents` the event loop, the worker and the heartbeat are fair; a send is fair only
for the clients in `Readers`, since a send waits for a client that does not read, and a client leaves
when it pleases.  The other modules state no liveness and no fairness.

## 4. Proofs

`tlapm` checks these for every value of the constants.

* **GateProofs** (executor).  `Invariance`: the conjunction `IndInv` of `TypeOK`, `SingleFlight`,
  `CommandOwned` and `StopExplains` is inductive; no conjunct is by itself.  `SingleFlight` needs to
  know that a full queue only follows a stop (otherwise `GiveUp` could clear the `busy` of another
  command), `CommandOwned` needs `SingleFlight` (the worker's signal must not be for a caller that
  has gone on to its next command).  `MutualExclusion`, `NoGhostCommand` and `Typing` follow.
  `Refinement` proves that the executor implements `GateRight`.  It needs `Agreement` besides: `open()` is silent
  exactly while it is under way, a command in a caller's hand, in the queue or at the adapter has no outcome yet, and one that
  completed has.  `HolderIs` says what the refinement mapping makes of a flight; `RightStep` maps each action
  to an action of `GateRight` or to a stutter.
  Assumed: `TokensAssumption`, that the two tokens are no callers.
* **GateProofs** (manager).  `ManagerInvariance`: `Inv`, that is types, an executor in use that follows the gates and none that is
  lost, is inductive.  `WorkersFollowGates` is about the executor the manager has, not about threads (a retired worker may live
  on): it has one only while gates are active, and gates are without one only after a start that failed.  `WorkersAccounted` says
  what became of the others;
  `PoisonedUntilEmpty` is the action property `PoisonSticks`, which needs `Inv` in the state it starts from.
  Assumed: `ManagerAssumption`.
* **CooldownProofs.**  `GlobalWindowHolds` for any order of frames and any table.
  `PlateWindowHolds` for frames in order and a table of at least as many entries as there are global windows in a
  plate window: live entries are pairwise a global window apart, so they map one to one to global
  windows, so a full table has no live entry to evict.  The invariant says besides that
  every opening inside its plate window has its entry.  `TableBounded` is `TypeOK`: a full table evicts
  before it grows.  Assumed: `CooldownAssumption`.
* **EventProofs** (service).  `Typing`.  `RetentionObeyed` proves `RetentionHolds`, which is not inductive: a
  deletion could use a retention that is no longer in force, a commit could write a row of an old day.
  `CutoffInForce` (the worker deletes by the retention in force, or the check is no longer fresh) and `Today` (every
  event under way is of today, by `NextDay`'s guard) close it.  `TrailKept` proves that the service implements
  `AuditTrail`.  It needs `Single` (the event of a publisher is nowhere else, and no other publisher has it) and
  `Ways` (a dropped event is in no place from which it could be written; only a committed one is handed on);
  `TrailStep` maps each action to one of `AuditTrail`'s or to a stutter.  `AccountsBalance` proves `Accounted`
  from `AccountInv`: no event is in two places (`Once`), the places together hold the events that were made
  (`Filed`), and the cardinalities add up (`Counted`), which each action keeps by moving one event from one
  place to another; `Failures` says that `_failed` is the events given up and the prunings that failed, which `Accounted`
  counts on its other side.  Assumed: `EventAssumption`.
* **EventProofs** (broker and connections).  `OnlyOldestLost` proves `QueuesInv` from `LiveInv`.  Events reach a queue in two steps,
  the worker's `Post` and the loop's `Callback`, so `LatestKept` speaks of queue and callbacks together: what a
  served connection has still to get is the latest that was published, one after the other and without a gap.
  `Wired` has the types, and that subscriptions are those of served connections as long as the loop is open; `Fresh` says that
  nothing is on its way to a connection that is not served yet, which is what keeps a new connection from finding
  old events.  The lemmas on `ready` say what is left of a connection's callbacks when one is added or run.
  Assumed: `LiveEventsAssumption`.
* **InferenceManagerProofs.**  `InTurnHolds` proves `Inv`.  While no two requests have overlapped (`Turn`), one is
  under way at most (`Solo`); `Stage` says for each of its locations whether the worker it knows is the manager's
  and has ended, and which settings the bundle has; `Versioned` keeps settings in the order they are saved, and `Left`
  is what the last request leaves behind, from which `CamerasAreServed` follows.  `Planned` (no more requests may still create a worker
  than the bound leaves room for) only serves the bound.  Assumed: `BoundsAssumption`, with a finite
  set of request threads, which the server's thread pool is.
* **CameraManagerProofs.**  `WorkersAnswer` proves `Inv`, for the cameras that are not `crowded`, beside others that may be.
  `IInv` states for each such camera (`InTurn`): its requests come one at a time; the request under way has
  the worker of the table in its hand, and from `Remove` on that worker has ended (`Stage`); an idle camera is as the last
  answer says (`Answered`); a live worker is the one in the table, its camera is active, the buffer has its frames only,
  and what it is about to log is still so unless a join timed out (`Calm`).
  `Typed` knows of the workers of all cameras, crowded or not.  The steps are proved once for the camera
  they belong to and once for the others, which they leave alone.  `ConnectedLives`, `FramesAreFresh` and
  `LogFollows` follow from the same invariant.  Assumed: `CameraAssumption`.
* **SnapshotsProofs.**  `PathsFindPictures` (`Inv`), `RetentionBounds` (`Bounded`) and the action property
  `OnlyOldIsDeleted` (`Kept`).  `IInv` adds where the picture of the capture at hand is (`AtHand`), that
  nothing is written while a pruning is due (`Timely`), and that what the last pruning left was not old then
  (`Spared`): a write follows a pruning by less than the interval, which gives the bound.  Assumed: `SnapshotAssumption`.
* **RecognitionProofs** (decision).  `WindowsHold`: weekday and minute of the code agree with the windows laid out on a line, for every length
  of day and week, every timetable and every moment (`Windows`), from the uniqueness of quotient and remainder.
  `OnlyJustified` (`Justified`), `OneStory` (`Audited`) and `RowsAndDecisions` (`TypeOK`) follow from `IInv`: the database of now is one of `since`;
  `Evidence` keeps, for each step towards the gate, that some database since the frame had allowed it, though the
  present one may not any more; `OneGoes` says that one plate of a frame is pending at most, that no gate has moved
  before the frame is with the recorder, and that the recorder gets every result unless the orchestrator raised.
  `RecordAudits` derives the story of the log from that.  Assumed: `DecisionAssumption`, `ScheduleAssumption`, and `NothingAssumption`, that NULL is
  no row.
* **RecognitionProofs** (recognition).  `RecognitionTypes` (`RecognitionTypeOK`), `OnEnoughReadings` (`Voted`) and `DecidedOnce`
  (`OncePerStay`) follow from `RecognitionInv`.  The lemmas on the algorithms come first, each for any input: a greedy assignment exists
  (`GreedyExists`: the least set of pairs without one would have a best pair to take away), so `Assignment` is one; the
  new tracks are numbered without a gap (`Ranks`); the room made never leaves more than the table holds (`RoomBound`), and takes
  nothing from a table that is large enough (`RoomForAll`).  `UpdateFacts` sums up what the tracker does with a frame.
  `ObservedFacts` says what a validator counts after a reading, and `CountedReadings` that observations at
  different times are different readings.
  `Tracked` and `Voting` type the tables; the bound on what is remembered of a camera is the table and one frame more, less the
  one track of the frame that is always left in the table (`KeysBound`).
  `Dated` says that an observation is no newer than its camera's last frame, and on record for as long as it may count: from that
  a decision has its readings.
  Under the premise of `OncePerStay` a place of a camera has one track at most (`Apart`), and a place that was decided upon
  still has the track, marked as decided and last seen when the plate was, unless a newer frame of some camera shows that the
  stay is over (`Stays`); so the next frame finds the same track and asks it nothing.
  Assumed: `RecognitionAssumption`, with finitely many places, and frames with room for one detection at least.
* **ApiProofs** (authentication).  `LocksHold` (`LockHolds`), `FailuresAreFew` (`GuessesBounded`), `SessionsEndForAReason`
  (`SessionsAccounted`) and `OneAdministrator` (`TypeOK`).  The lemmas on the table come first: what it holds after a key is
  used (`Renewed`), forgotten (`Popped`) or evicted (`Evicted`), and that each keeps the order of use.
  `InOrder` says that every key behind another was used since, so the first key of a full table has been passed
  by as many as the table holds (`FullTable`), and evicting it breaks no promise (`Present`).  `Told` says that a row waits
  for what its key was told.  `Counting` gives the bound on failures: a locked key has as many threads at most that are
  past the check as keep failures and threads together below the pool (`Past`); a key that goes on has its lock forgotten first.
  `SettingUp` has one request in the set-up, so `Issue` finds no other user.  Assumed: `AuthenticationAssumption`, with a finite,
  non-empty set of request threads, which the server's thread pool is.
* **ApiProofs** (administration).  `RequestsInPlace` (`AdminTypeOK`), `RuntimeAgrees` (`AgreeInTurn`) and `ChecksHold` (`CheckedInTurn`)
  follow from `AdminInv`.  `Stored` has the rows and what runs, `Asked` where each request is and what it has in hand.  `Settled`
  gives the agreement: requests that are alone with their row have rows of their own (`Apart`), and while one is
  under way its row and the runtime are as its location says (`Undisturbed`), so that the last step leaves them equal.
  For a row that is created inactive this holds only if nothing ran under its id before, which is what `loose` remembers.
  `Serial` gives the checks: while no two requests' checks and writes have overlapped there is one between check and write
  at most, and what it checked still holds (`Admissible`).  Assumed: `AdministrationAssumption`, with finitely many cameras,
  the kinds of rows disjoint.

TLC found each inductive invariant to hold on the instance of its run before it was proved.

Every safety invariant, action property and refinement that a run checks is proved.  Only model-checked are:

* Liveness (`Progress`, `ManagerProgress`, `LiveProgress`, `InferenceManager`'s `RequestsEnd`): fairness is about
  ENABLED, which the prover does not know.
* `RoomForEach`: the loop it compares with is a fold, and what a fold computes for every input takes induction over data.
  The proofs about recognition rest on `RoomMade`; that it is what the loop leaves, TLC evaluates, when the run
  starts, for every table of up to three tracks.

## 5. Seen while modelling

What the code does that a reader of its documents may not expect.  The properties are stated so that
they hold beside these, with the exclusion named in their comments; no run claims the opposite.

Gate and inference:

* *Gates without an executor* (`gate/manager.py:102`).  The controller is stored before the executor's thread
  is started.  If that raises, the gate is active and every opening is refused, which the snapshot of the gate
  reports, until the next `apply()`.
* A call that is in an adapter's health check (`gate/manager.py:120`) has no timeout.
* *Two command workers* (`gate/manager.py:107`).  `remove()` of the last gate lets go of the
  executor after at most half a second although its worker may be inside an adapter; the next `apply()`
  starts another.  ARCHITECTURE.md:118-121 speaks of one worker for all open calls.
* *Two inference workers* (`inference/manager.py:221`).  Of two overlapping requests the second
  clears the handle of the worker the first has just started.
* *Confirmed settings not in force* (`inference/manager.py:172`).  A camera request inside a
  settings request restarts the worker with the old orchestrator; the settings request finds a
  worker and answers 200.
* A join of the inference worker that times out sets ERROR; the worker's last round
  sets RUNNING again (`inference/manager.py:342`) and ends.  Nothing contradicts it until the next request.
* The handle of a worker is stored before its thread is started (`inference/manager.py:195`), so a request that
  overlaps may join a thread that has not begun, which raises (`JoinTooEarly`).  The camera manager does the same.

Cooldowns:

* *A plate twice within its window* (`access/cooldown.py:67`), when frames of two cameras are
  processed out of order: a newer frame prunes the entry the older one should have met.
* Saving the settings builds a new cooldown manager (`recognition/factory.py:27`): a plate may open
  the gate twice within its window.  The gaps are therefore stated per manager (`epoch`).

Cameras:

* *A deactivated camera that stays active* (`camera/manager.py:98`): `mark_unavailable()`, used for a
  camera that failed at the start, makes it active without a worker, and `stop()` forgets only cameras that have one.
* Two overlapping requests for one camera may leave two capture workers (`camera/manager.py:114`): both find no worker, or
  one removes from the table the worker the other has just put there.  ARCHITECTURE.md:46-47 excludes a
  second worker.  The properties of `CameraManager` are stated for cameras that are not `crowded`.
* A stop of a camera that times out writes UNAVAILABLE without a notification
  (`camera/manager.py:104-112`), so the log goes on saying connected; `AuditFollows` excludes it.
  The first such stop also ends `CameraManager.shutdown()`.

Events:

* *A drop that does not show* (`events/service.py:138`): the next success clears the error, and with
  it the only sign in the health report; the counter stays.
* A commit that succeeds before its refresh fails is retried: two rows for one event.  A rollback
  that raises inside the handler ends the audit worker, and `publish()` goes on accepting.
* A failed pruning counts as a failure (`events/service.py:183`) beside the event that was persisted at that moment, so
  the counters of the service add up to more than the events.
* The shutdown gives up on a worker after five seconds (`events/service.py:103`); what is left in the queue is
  written only if the process lives on long enough, and is not counted anywhere otherwise.

Administration (`AgreeInTurn` and `CheckedInTurn` are stated for requests that do not overlap):

* A delete that an update overlaps stops the device, the update starts it again, the delete removes the
  row: the device runs on without a row until the next start of the process, or under the next row that gets its id.
  If that row is created inactive nothing stops the device, since only a row that is created active is told to a manager
  (`api/routes/cameras.py:62`, `gates.py:58`); an update of it does.
* Two overlapping requests may exceed the limit of active cameras (`camera/service.py:30`), or store
  two fallback rules of a vehicle for one gate (`access/rules.py:50`), after which its decisions are
  ambiguous.  Both last until an operator changes the rows.

Snapshots:

* A shorter retention takes effect with the next pruning that is due (`storage/service.py:48`), up to
  a day later; nothing is pruned while snapshots are disabled.
* A pruning that fails keeps pictures from being written, and at the start keeps the application from
  starting.  One that fails in `configure()` does not show in the health report.
* A `.tmp` file that a failed write or a crash leaves behind is never removed, since the pruning looks
  at pictures only.  Disabling snapshots after a failed capture leaves the storage degraded.

## 6. Abstractions

* Frames, plates, reasons and payloads are values without content; counters of frames and metrics,
  logging and wording are left out.
* `InferenceManager`, `CameraManager` and `Administration` state some properties for requests that do not overlap
  (`overlapped`, `crowded`, `alone`, `mixed` are history variables, not restrictions of the behaviour: overlapping requests are
  explored, and types are checked for them too).
* In `EventService` a day passes only while no event is under way and no shutdown is: persisting takes
  seconds.  `pruned` remembers that the deletion of the fresh check went through: `RetentionHolds` does not
  speak of a day on which the deletion failed.
* The back-off between connections has a value and no length.  Connect and read of the capture
  device are one location, which ends with a frame, with none, or with the stop event.
* Health checks of gate adapters are a step that succeeds or fails.
* `Recognition`: a box is a place on a line and the overlap of two boxes falls with their distance.
  Detection and reading of a frame are its input.
* `Authentication`: passwords, hashes, names and cookies are left out; the limiter reads its clock just before it
  takes its lock, which is one step here; a session and its CSRF token
  have one number; a transaction is one step, since SQLite lets one writer in at a time.
* `Decision`: one vehicle and one camera, and one frame begun with any database, since nothing
  but the database carries over to the next, and the cooldowns, whose refusal is a free choice here.
  The `PLATE_DETECTED` samples and the snapshot attached to an event are left out, and so are an exception of the
  recorder itself and a rollback that raises inside the authorization.
* `Administration`: names, passwords and stream details are left out; a manager's call is one step
  that succeeds or fails.  A read of the database that raises before anything was written ends a request like a
  refusal.  A gate "runs" when it has a controller; whether the executor started is in `GateManager`.
* The lifespan's last step, `engine.dispose()`, closes connections that are not in use and is left out.
* `LiveEvents`: authentication of a connection and the listing of stored events are left out.  The subscribers are a
  set, and `publish()` may take them in any order, since none of them can tell in which.
* `Snapshots`: encoding and directories are left out; the wall clock, by which pictures are aged, and the monotonic
  clock, by which prunings are spaced, advance together, and time passes between captures only.

## 7. Plan

Done: every module above, with the proofs of section 4.  What would come next is the order of the
shutdowns in the lifespan, and the sampling of the event recorder.

Not modelled:

* Detection and OCR (`detection/`, `ocr/`): numeric image processing on ONNX models; the inference manager sees
  only success or failure.
* Configuration: constants with ranges and one row; the ranges are used as bounds of the other modules.
* Database schema and migrations: declarations; uniqueness constraints appear where a model needs them (`Storable`, `TypeOK` of `Administration`).
* The measuring tools in `resilience/`: outside the running system.
* Logging, security headers, the Windows service: pure I/O and wrappers.
* The frontend: keeps no state the backend relies on.

Modelled in part: the event recorder (access and gate events, not the samples), the lifespan (the start
from the rows, and each manager's own shutdown; not the order of the shutdowns), vehicle administration
(the vehicle is a row that changes under a decision) and the health report (cameras, pipeline and events;
the other comparisons have no state of their own).
