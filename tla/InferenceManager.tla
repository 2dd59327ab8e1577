---------------------------- MODULE InferenceManager ----------------------------
(* InferenceManager of inference/manager.py: requests of the management API     *)
(* stop the inference worker, change what it works with and start another one.  *)
(* FastAPI runs those requests on a pool of threads and no lock is held across  *)
(* the stop, the change and the start.  Workers are numbered in the order of    *)
(* their creation and settings in the order in which they are saved.            *)
EXTENDS Naturals, FiniteSets

CONSTANTS Requests,    \* threads that serve management requests
          Cameras,
          MaxSettings, \* bound on the settings ever saved
          MaxWorkers   \* bound on the workers ever created

ASSUME BoundsAssumption == /\ MaxSettings \in Nat /\ MaxWorkers \in Nat
                           /\ IsFiniteSet(Requests) \* the thread pool of the server

Workers  == 1..MaxWorkers
Versions == 0..MaxSettings
None     == 0             \* no worker, or no bundle

VARIABLES saved,     \* version of the settings in the database
          confirmed, \* newest version whose request was answered with success
          bundle,    \* version the installed pipeline and gate orchestrator have
          active,    \* the active cameras of _cameras
          thread,    \* _thread, which comes and goes with _stop_event
          stopSet,   \* workers whose stop event is set
          state,     \* _state
          created,   \* workers created so far
          loop,      \* loop[w]: where worker w is in _run()
          version,   \* version[w]: version worker w was started with
          op, pc,    \* what request r does, and where it is
          handle,    \* handle[r]: the worker _stop_worker() read
          target,    \* target[r]: the version a settings request installs
          answer,    \* answer[r]: how r's last request ended
          overlapped,\* history: a request has begun while another was in progress
          down       \* the application has shut down

installed == <<bundle, active, thread, stopSet, state>>
workers   == <<created, loop, version>>
request   == <<op, pc, handle, target, answer>>
ended     == <<overlapped, down>>
store     == <<saved, confirmed>>
vars      == <<store, installed, workers, request, ended>>

Running == {w \in Workers : loop[w] \in {"checking", "working"}}
Idle    == \A r \in Requests : pc[r] = "idle"
-----------------------------------------------------------------------------
Init == /\ saved = 0 /\ confirmed = 0
        /\ bundle = None /\ active = {} /\ thread = None /\ stopSet = {}
        /\ state = "required"
        /\ created = 0
        /\ loop = [w \in Workers |-> "new"]
        /\ version = [w \in Workers |-> 0]
        /\ op = [r \in Requests |-> "none"]
        /\ pc = [r \in Requests |-> "idle"]
        /\ handle = [r \in Requests |-> None]
        /\ target = [r \in Requests |-> 0]
        /\ answer = [r \in Requests |-> "ok"]
        /\ overlapped = FALSE /\ down = FALSE

\* Every request creates at most one worker.
Budget == created + Cardinality({r \in Requests : pc[r] # "idle"}) < MaxWorkers

\* r's request is over and its local variables are gone; a settings request that
\* succeeds confirms its version.
Done(r, result) ==
    /\ pc' = [pc EXCEPT ![r] = "idle"]
    /\ answer' = [answer EXCEPT ![r] = result]
    /\ op' = [op EXCEPT ![r] = "none"]
    /\ handle' = [handle EXCEPT ![r] = None]
    /\ target' = [target EXCEPT ![r] = 0]
    /\ confirmed' = IF result = "ok" /\ op[r] = "settings" /\ target[r] > confirmed
                    THEN target[r] ELSE confirmed

-----------------------------------------------------------------------------
(* Slips, one mistake each; none is part of Next.                            *)

\* _stop_worker() does not look whether the join succeeded.
JoinIgnored(r) == /\ pc[r] = "joining"
                  /\ pc' = [pc EXCEPT ![r] = "clearing"]
                  /\ UNCHANGED <<store, installed, workers, op, handle, target, answer, ended>>

\* A worker that never ends is joined without a timeout.
JoinForEver(r) == FALSE

\* The handle of a worker that has ended is kept.
ClearNothing(r) == /\ pc[r] = "clearing"
                   /\ pc' = [pc EXCEPT ![r] = "changing"]
                   /\ UNCHANGED <<store, installed, workers, op, handle, target, answer, ended>>

-----------------------------------------------------------------------------
\* update_runtime_settings(): the database has the new settings before the
\* manager is asked to configure itself.
BeginSettings(r) == /\ pc[r] = "idle" /\ ~down /\ Budget
                    /\ saved < MaxSettings
                    /\ saved' = saved + 1
                    /\ target' = [target EXCEPT ![r] = saved + 1]
                    /\ op' = [op EXCEPT ![r] = "settings"]
                    /\ pc' = [pc EXCEPT ![r] = "reading"]
                    /\ overlapped' = (overlapped \/ ~Idle)
                    /\ UNCHANGED <<confirmed, installed, workers, handle, answer, down>>

BeginCamera(r) == /\ pc[r] = "idle" /\ ~down /\ Budget
                  /\ op' = [op EXCEPT ![r] = "camera"]
                  /\ pc' = [pc EXCEPT ![r] = "reading"]
                  /\ overlapped' = (overlapped \/ ~Idle)
                  /\ UNCHANGED <<store, installed, workers, handle, target, answer, down>>

\* The lifespan shuts the manager down once the server has drained its requests.
BeginShutdown(r) == /\ Idle /\ ~down
                    /\ down' = TRUE
                    /\ op' = [op EXCEPT ![r] = "shutdown"]
                    /\ pc' = [pc EXCEPT ![r] = "reading"]
                    /\ UNCHANGED <<store, installed, workers, handle, target, answer, overlapped>>
-----------------------------------------------------------------------------
\* _stop_worker(): read the handle, set its event, join for ten seconds, clear
\* the handle.  The four steps are not one lock section.
ReadHandle(r) ==
    /\ pc[r] = "reading"
    /\ handle' = [handle EXCEPT ![r] = thread]
    /\ pc' = [pc EXCEPT ![r] = IF thread = None THEN "changing" ELSE "stopping"]
    /\ UNCHANGED <<store, installed, workers, op, target, answer, ended>>

SetStop(r) == /\ pc[r] = "stopping"
              /\ stopSet' = stopSet \cup {handle[r]}
              /\ pc' = [pc EXCEPT ![r] = "joining"]
              /\ UNCHANGED <<store, bundle, active, thread, state, workers, op, handle,
                             target, answer, ended>>

Joined(r) == /\ pc[r] = "joining"
             /\ loop[handle[r]] = "dead"
             /\ pc' = [pc EXCEPT ![r] = "clearing"]
             /\ UNCHANGED <<store, installed, workers, op, handle, target, answer, ended>>

\* The worker outlives the join: InferenceWorkerStopError.
JoinTimesOut(r) == /\ pc[r] = "joining"
                   /\ handle[r] \in Running
                   /\ state' = "error"
                   /\ Done(r, "failed")
                   /\ UNCHANGED <<saved, bundle, active, thread, stopSet, workers, ended>>

\* A thread that was created and not started yet cannot be joined: RuntimeError.
JoinTooEarly(r) == /\ pc[r] = "joining"
                   /\ loop[handle[r]] = "new"
                   /\ Done(r, "failed")
                   /\ UNCHANGED <<saved, installed, workers, ended>>

Clear(r) == /\ pc[r] = "clearing"
            /\ thread' = None
            /\ pc' = [pc EXCEPT ![r] = "changing"]
            /\ UNCHANGED <<store, bundle, active, stopSet, state, workers, op, handle,
                           target, answer, ended>>
-----------------------------------------------------------------------------
\* What the request is for, once _stop_worker() has returned.
Install(r) == /\ pc[r] = "changing" /\ op[r] = "settings"
              /\ bundle' = target[r]
              /\ state' = "ready"
              /\ pc' = [pc EXCEPT ![r] = "ensuring"]
              /\ UNCHANGED <<store, active, thread, stopSet, workers, op, handle, target,
                             answer, ended>>

\* A model that cannot be built leaves the manager without a pipeline; the
\* request itself succeeds.
BuildFails(r) == /\ pc[r] = "changing" /\ op[r] = "settings"
                 /\ bundle' = None
                 /\ state' \in {"required", "error"}
                 /\ Done(r, "ok")
                 /\ UNCHANGED <<saved, active, thread, stopSet, workers, ended>>

EditCamera(r) == /\ pc[r] = "changing" /\ op[r] = "camera"
                 /\ \E k \in Cameras : active' \in {active \cup {k}, active \ {k}}
                 /\ pc' = [pc EXCEPT ![r] = "ensuring"]
                 /\ UNCHANGED <<store, bundle, thread, stopSet, state, workers, op, handle,
                                target, answer, ended>>

MarkStopped(r) == /\ pc[r] = "changing" /\ op[r] = "shutdown"
                  /\ state' = "stopped"
                  /\ Done(r, "ok")
                  /\ UNCHANGED <<saved, bundle, active, thread, stopSet, workers, ended>>

\* _ensure_worker(): nothing to start, or a worker that captures the bundle.
MayStart == bundle # None /\ active # {} /\ thread = None

EnsureNothing(r) == /\ pc[r] = "ensuring"
                    /\ ~MayStart
                    /\ state' = IF bundle # None /\ active = {} THEN "ready" ELSE state
                    /\ Done(r, "ok")
                    /\ UNCHANGED <<saved, bundle, active, thread, stopSet, workers, ended>>

Create(r) == /\ pc[r] = "ensuring"
             /\ MayStart
             /\ created' = created + 1
             /\ thread' = created + 1
             /\ version' = [version EXCEPT ![created + 1] = bundle]
             /\ handle' = [handle EXCEPT ![r] = created + 1]
             /\ state' = "ready"
             /\ pc' = [pc EXCEPT ![r] = "starting"]
             /\ UNCHANGED <<store, bundle, active, stopSet, loop, op, target, answer, ended>>

Start(r) == /\ pc[r] = "starting"
            /\ loop' = [loop EXCEPT ![handle[r]] = "checking"]
            /\ Done(r, "ok")
            /\ UNCHANGED <<saved, installed, created, version, ended>>

StartFails(r) == /\ pc[r] = "starting"
                 /\ loop' = [loop EXCEPT ![handle[r]] = "dead"]
                 /\ thread' = None
                 /\ state' = "error"
                 /\ Done(r, "failed")
                 /\ UNCHANGED <<saved, bundle, active, stopSet, created, version, ended>>

RequestStep(r) == \/ ReadHandle(r) \/ SetStop(r) \/ Joined(r) \/ JoinTimesOut(r)
                  \/ JoinTooEarly(r) \/ Clear(r) \/ Install(r) \/ BuildFails(r)
                  \/ EditCamera(r) \/ MarkStopped(r) \/ EnsureNothing(r)
                  \/ Create(r) \/ Start(r) \/ StartFails(r)
-----------------------------------------------------------------------------
\* _run(): the stop event is looked at between two rounds over the cameras.
CheckStop(w) == /\ loop[w] = "checking"
                /\ loop' = [loop EXCEPT ![w] = CASE w \in stopSet -> "dead"
                                                 [] w \notin stopSet /\ active # {} -> "working"
                                                 [] OTHER -> "checking"]
                /\ UNCHANGED <<store, installed, created, version, request, ended>>

\* A round in which no camera has a frame to process.
NoFrame(w) == /\ loop[w] = "working"
              /\ loop' = [loop EXCEPT ![w] = "checking"]
              /\ UNCHANGED <<store, installed, created, version, request, ended>>

\* Detection, recognition and, for an authorized plate, the gate.
Process(w) == /\ loop[w] = "working"
              /\ state' = "running"
              /\ loop' = [loop EXCEPT ![w] = "checking"]
              /\ UNCHANGED <<store, bundle, active, thread, stopSet, created, version,
                             request, ended>>

PipelineFails(w) == /\ loop[w] = "working"
                    /\ state' = "error"
                    /\ loop' = [loop EXCEPT ![w] = "dead"]
                    /\ UNCHANGED <<store, bundle, active, thread, stopSet, created,
                                   version, request, ended>>

Next == \/ \E r \in Requests : \/ BeginSettings(r) \/ BeginCamera(r) \/ BeginShutdown(r)
                               \/ RequestStep(r)
        \/ \E w \in Workers : CheckStop(w) \/ NoFrame(w) \/ Process(w) \/ PipelineFails(w)

\* The threads that serve requests are scheduled.  A round of the worker may last
\* as long as a detector, an OCR or a gate command does, so it is given nothing.
Fairness == \A r \in Requests : WF_vars(RequestStep(r))

Spec == Init /\ [][Next]_vars /\ Fairness
-----------------------------------------------------------------------------
\* What the health of the system says of a pipeline that is loaded.
InferenceHealth == CASE state = "error" -> "UNHEALTHY"
                     [] state = "required" -> "DEGRADED"
                     [] OTHER -> "HEALTHY"
-----------------------------------------------------------------------------
(* Properties.                                                               *)

\* The state is well formed.
TypeOK == /\ saved \in Versions /\ confirmed \in Versions /\ bundle \in Versions
          /\ active \in SUBSET Cameras
          /\ thread \in 0..created /\ created \in 0..MaxWorkers
          /\ stopSet \in SUBSET (1..created)
          /\ state \in {"required", "ready", "running", "error", "stopped"}
          /\ loop \in [Workers -> {"new", "checking", "working", "dead"}]
          /\ version \in [Workers -> Versions]
          /\ op \in [Requests -> {"none", "settings", "camera", "shutdown"}]
          /\ pc \in [Requests -> {"idle", "reading", "stopping", "joining", "clearing",
                                  "changing", "ensuring", "starting"}]
          /\ handle \in [Requests -> 0..created]
          /\ target \in [Requests -> Versions]
          /\ answer \in [Requests -> {"ok", "failed"}]
          /\ overlapped \in BOOLEAN /\ down \in BOOLEAN

\* One inference worker in the whole application: a worker that runs is the one
\* the manager knows, and can stop.
OneWorker == Running \subseteq {thread}

\* Between requests, no worker decides with settings older than the last ones
\* that the management API confirmed: maintenance and simulation bind the gate as
\* soon as the operator is told so.
SettingsInForce == Idle => \A w \in Running : version[w] >= confirmed

\* After a shutdown that succeeded no worker is left to open the gate.
ShutdownIsFinal == (down /\ Idle /\ \A r \in Requests : answer[r] = "ok") => Running = {}

\* What requests that follow one another may rely on, however they end and whatever
\* the worker does between their steps: one worker, under the settings that were
\* confirmed, and none after a shutdown.
InTurn == ~overlapped => OneWorker /\ SettingsInForce /\ ShutdownIsFinal
Inv == TypeOK /\ InTurn

\* When the last request of every thread succeeded and there is a pipeline and an
\* active camera, a worker looks at the frames, or the health of the system says
\* that it failed.  Requests follow one another.
CamerasServed == (/\ ~overlapped /\ Idle /\ ~down
                  /\ \A r \in Requests : answer[r] = "ok"
                  /\ bundle # None /\ active # {})
                 => thread \in Running \/ InferenceHealth = "UNHEALTHY"

\* A request ends although the worker never looks at its stop event again.
RequestsEnd == \A r \in Requests : pc[r] # "idle" ~> pc[r] = "idle"
=============================================================================
