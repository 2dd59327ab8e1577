------------------------------ MODULE CameraManager ------------------------------
(* CameraManager of camera/manager.py with the CameraStreamLoop of camera/stream.py *)
(* that each of its workers runs.  Requests of the management API, the lifespan and *)
(* the capture workers interleave between any two lock sections, stop events, joins *)
(* and calls of the capture device.                                                 *)
EXTENDS Naturals, FiniteSets

CONSTANTS Cameras, Requests,
          MaxActive,   \* max_active_cameras
          MaxWorkers   \* bound on the workers ever created

ASSUME CameraAssumption == /\ MaxActive \in Nat \ {0} /\ MaxWorkers \in Nat

Workers == 1..MaxWorkers
None    == 0

VARIABLES table,     \* table[k]: the worker in _workers, or None
          actives,   \* _active_ids
          snap,      \* snap[k]: the state in _snapshots
          source,    \* source[k]: the worker whose frame is in the buffer of k, or None
          created, loop, of, \* the workers: how many, where in run(), for which camera
          stopSet,   \* the workers whose stop event is set
          pc, op, cam, handle, \* the requests: where, doing what, for which camera and worker
          phase,     \* of the lifespan
          todo,      \* the cameras that the lifespan has still to start, or to stop
          told,      \* told[k]: the last camera event published was CAMERA_CONNECTED
          last,      \* history: what the last request for k was answered, "none" if it raised
          overdue,   \* history: the cameras whose worker outlived a join
          crowded    \* history: the cameras for which two requests overlapped

manager == <<table, actives, snap>>
workers == <<created, loop, of, stopSet>>
request == <<pc, op, cam, handle>>
history == <<last, overdue, crowded>>
vars    == <<manager, source, workers, request, phase, todo, told, history>>
-----------------------------------------------------------------------------
Alive == {w \in Workers : loop[w] \notin {"none", "dead"}}
AliveOf(k) == {w \in Alive : of[w] = k}
Busy(k) == {r \in Requests : pc[r] # "idle" /\ cam[r] = k}
Idle == \A r \in Requests : pc[r] = "idle"

\* A request ends: how it ended is remembered, where it was is forgotten.
Done(r, how) == /\ pc' = [pc EXCEPT ![r] = "idle"]
                /\ op' = [op EXCEPT ![r] = "none"]
                /\ handle' = [handle EXCEPT ![r] = None]
                /\ cam' = [cam EXCEPT ![r] = None]
                /\ last' = [last EXCEPT ![cam[r]] = how]

Goes(r, where) == /\ pc' = [pc EXCEPT ![r] = where]
                  /\ UNCHANGED <<op, cam, handle>>

\* A change of state, and the event that the observer in main.py makes of it: the
\* notification follows the lock section.
Shows(k, state) == /\ snap' = [snap EXCEPT ![k] = state]
                   /\ told' = [told EXCEPT ![k] =
                         CASE state = "CONNECTED" /\ snap[k] # "CONNECTED" -> TRUE
                           [] state # "CONNECTED" /\ snap[k] = "CONNECTED" -> FALSE
                           [] OTHER -> told[k]]
-----------------------------------------------------------------------------
Init == /\ table = [k \in Cameras |-> None] /\ actives = {}
        /\ snap = [k \in Cameras |-> "STOPPED"]
        /\ source = [k \in Cameras |-> None]
        /\ created = 0 /\ stopSet = {}
        /\ loop = [w \in Workers |-> "none"]
        /\ of = [w \in Workers |-> None]
        /\ pc = [r \in Requests |-> "idle"] /\ op = [r \in Requests |-> "none"]
        /\ cam = [r \in Requests |-> None]
        /\ handle = [r \in Requests |-> None]
        /\ phase = "booting" /\ todo \in SUBSET Cameras
        /\ told = [k \in Cameras |-> FALSE]
        /\ last = [k \in Cameras |-> "none"]
        /\ overdue = {} /\ crowded = {}
-----------------------------------------------------------------------------
(* The lifespan and the routes.                                              *)

Begins(r, k, what) == /\ pc[r] = "idle"
                      /\ op' = [op EXCEPT ![r] = what]
                      /\ cam' = [cam EXCEPT ![r] = k]
                      /\ pc' = [pc EXCEPT ![r] = "reading"]
                      /\ crowded' = IF Busy(k) = {} THEN crowded ELSE crowded \cup {k}
                      /\ UNCHANGED <<manager, source, workers, handle, phase, told, last, overdue>>

\* lifespan(): the cameras that are active in the database, one after the other,
\* before the first request.
Boot(r, k) == /\ phase = "booting" /\ Idle /\ k \in todo
              /\ todo' = todo \ {k}
              /\ Begins(r, k, "boot")

Serve == /\ phase = "booting" /\ Idle /\ todo = {}
         /\ phase' = "serving"
         /\ UNCHANGED <<manager, source, workers, request, todo, told, history>>

\* create_camera(), update_camera() of an active camera; update_camera() of an
\* inactive one, delete_camera().
BeginApply(r, k) == phase = "serving" /\ Begins(r, k, "apply") /\ UNCHANGED todo
BeginStop(r, k)  == phase = "serving" /\ Begins(r, k, "stop") /\ UNCHANGED todo

\* shutdown(), once the server has drained its requests.
BeginShutdown == /\ phase = "serving" /\ Idle
                 /\ phase' = "stopping"
                 /\ todo' = {k \in Cameras : table[k] # None}
                 /\ UNCHANGED <<manager, source, workers, request, told, history>>

\* The first stop() that raises ends the loop.
StopNext(r, k) == /\ phase = "stopping" /\ Idle /\ k \in todo
                  /\ todo' = todo \ {k}
                  /\ Begins(r, k, "stop")
-----------------------------------------------------------------------------
(* stop(): read the worker, set its event, join, remove.                     *)

ReadWorker(r) ==
    /\ pc[r] = "reading"
    /\ \/ /\ table[cam[r]] # None
          /\ handle' = [handle EXCEPT ![r] = table[cam[r]]]
          /\ pc' = [pc EXCEPT ![r] = "signalling"]
          /\ UNCHANGED <<op, cam, last>>
       \/ /\ table[cam[r]] = None /\ op[r] # "stop"
          /\ Goes(r, "installing") /\ UNCHANGED last
       \/ /\ table[cam[r]] = None /\ op[r] = "stop"
          /\ Done(r, "stopped")
    /\ UNCHANGED <<manager, source, workers, phase, todo, told, overdue, crowded>>

SetStop(r) == /\ pc[r] = "signalling"
              /\ stopSet' = stopSet \cup {handle[r]}
              /\ Goes(r, "joining")
              /\ UNCHANGED <<manager, source, created, loop, of, phase, todo, told, history>>

\* A thread that has not been started cannot be joined: RuntimeError.
JoinTooEarly(r) == /\ pc[r] = "joining"
                   /\ loop[handle[r]] = "new"
                   /\ Done(r, "none")
                   /\ UNCHANGED <<manager, source, workers, phase, todo, told, overdue, crowded>>

\* Slip: is_alive() is not asked after the join.
JoinedAnyway(r) == /\ pc[r] = "joining"
                   /\ Goes(r, "removing")
                   /\ UNCHANGED <<manager, source, workers, phase, todo, told, history>>

Joined(r) == /\ pc[r] = "joining"
             /\ handle[r] \notin Alive
             /\ Goes(r, "removing")
             /\ UNCHANGED <<manager, source, workers, phase, todo, told, history>>

JoinTimesOut(r) == /\ pc[r] = "joining"
                   /\ handle[r] \in Alive /\ loop[handle[r]] # "new"
                   /\ overdue' = overdue \cup {cam[r]}
                   /\ Goes(r, "giving up")
                   /\ UNCHANGED <<manager, source, workers, phase, todo, told, last, crowded>>

\* CameraWorkerStopError, which nobody but the lifespan catches.
RaiseStopError(r) == /\ pc[r] = "giving up"
                     /\ snap' = [snap EXCEPT ![cam[r]] = "UNAVAILABLE"]
                     /\ todo' = {}
                     /\ Done(r, "none")
                     /\ UNCHANGED <<table, actives, source, workers, phase, told, overdue, crowded>>

\* Whatever worker the table holds by now goes.
Remove(r) == /\ pc[r] = "removing"
             /\ table' = [table EXCEPT ![cam[r]] = None]
             /\ actives' = actives \ {cam[r]}
             /\ Shows(cam[r], "STOPPED")
             /\ IF op[r] = "stop" THEN Done(r, "stopped")
                                  ELSE Goes(r, "installing") /\ UNCHANGED last
             /\ UNCHANGED <<source, workers, phase, todo, overdue, crowded>>
-----------------------------------------------------------------------------
(* apply(): after stop(), one lock section that installs, then start().      *)

Full == Cardinality({k \in Cameras : table[k] # None}) >= MaxActive

Fails(r) == IF op[r] = "boot" THEN Goes(r, "marking") /\ UNCHANGED last ELSE Done(r, "none")

InstallRefused(r) == /\ pc[r] = "installing"
                     /\ Full
                     /\ Fails(r)
                     /\ UNCHANGED <<manager, source, workers, phase, todo, told, overdue, crowded>>

\* Slip: the buffer is kept as it is.
KeepFrame(k) == source' = [source EXCEPT ![k] = @]

ClearFrame(k) == source' = [source EXCEPT ![k] = None]

Install(r) == /\ pc[r] = "installing"
              /\ ~Full
              /\ created < MaxWorkers
              /\ created' = created + 1
              /\ table' = [table EXCEPT ![cam[r]] = created']
              /\ actives' = actives \cup {cam[r]}
              /\ snap' = [snap EXCEPT ![cam[r]] = "STOPPED"]
              /\ ClearFrame(cam[r])
              /\ loop' = [loop EXCEPT ![created'] = "new"]
              /\ of' = [of EXCEPT ![created'] = cam[r]]
              /\ handle' = [handle EXCEPT ![r] = created']
              /\ pc' = [pc EXCEPT ![r] = "starting"]
              /\ UNCHANGED <<stopSet, op, cam, phase, todo, told, history>>

Start(r) == /\ pc[r] = "starting"
            /\ loop' = [loop EXCEPT ![handle[r]] = "checking"]
            /\ Done(r, "applied")
            /\ UNCHANGED <<manager, source, created, of, stopSet, phase, todo, told, overdue, crowded>>

StartFails(r) == /\ pc[r] = "starting"
                 /\ loop' = [loop EXCEPT ![handle[r]] = "dead"]
                 /\ table' = [table EXCEPT ![cam[r]] = None]
                 /\ actives' = actives \ {cam[r]}
                 /\ Fails(r)
                 /\ UNCHANGED <<snap, source, created, of, stopSet, phase, todo, told, overdue, crowded>>

\* mark_unavailable(), for a camera that could not be started at boot.
MarkUnavailable(r) == /\ pc[r] = "marking"
                      /\ actives' = actives \cup {cam[r]}
                      /\ Shows(cam[r], "UNAVAILABLE")
                      /\ Done(r, "none")
                      /\ UNCHANGED <<table, source, workers, phase, todo, overdue, crowded>>

RequestStep(r) == \/ ReadWorker(r) \/ SetStop(r) \/ JoinTooEarly(r) \/ Joined(r)
                  \/ JoinTimesOut(r) \/ RaiseStopError(r) \/ Remove(r)
                  \/ InstallRefused(r) \/ Install(r) \/ Start(r) \/ StartFails(r)
                  \/ MarkUnavailable(r)
-----------------------------------------------------------------------------
(* run() of a worker.                                                        *)

Moves(w, from, to) == /\ loop[w] = from
                      /\ loop' = [loop EXCEPT ![w] = to]
                      /\ UNCHANGED <<table, actives, created, of, stopSet, request, phase, todo, history>>

Silently == UNCHANGED <<snap, source, told>>
Says(w, state) == Shows(of[w], state) /\ UNCHANGED source

Stopping(w) == w \in stopSet

Round(w) == \/ ~Stopping(w) /\ Moves(w, "checking", "dialling") /\ Silently
            \/ Stopping(w) /\ Moves(w, "checking", "leaving") /\ Silently

\* CONNECTING or RECONNECTING, then connect() of the provider and its first read().
Dial(w) == Moves(w, "dialling", "connecting") /\ Says(w, "CONNECTING")

\* connect() or a read() raises, a read() yields no frame, or the stop event is seen.
CaptureEnds(w) == /\ \/ Moves(w, "connecting", "closing")
                     \/ Moves(w, "capturing", "closing")
                  /\ Silently

\* The first frame of a connection is announced before it is handed over.
FirstFrame(w) == ~Stopping(w) /\ Moves(w, "connecting", "greeting") /\ Silently
Greet(w)      == Moves(w, "greeting", "storing") /\ Says(w, "CONNECTED")
NextFrame(w)  == ~Stopping(w) /\ Moves(w, "capturing", "storing") /\ Silently

\* _receive_frame(): the state is read, the frame stored, and the state written in
\* a second lock section; it is announced if the first read found another one.
Store(w) == /\ Moves(w, "storing", IF snap[of[w]] = "CONNECTED" THEN "recording" ELSE "renewing")
            /\ source' = [source EXCEPT ![of[w]] = w]
            /\ UNCHANGED <<snap, told>>

Record(w) == /\ \/ Moves(w, "recording", "capturing") /\ UNCHANGED told
                \/ Moves(w, "renewing", "capturing") /\ told' = [told EXCEPT ![of[w]] = TRUE]
             /\ snap' = [snap EXCEPT ![of[w]] = "CONNECTED"]
             /\ UNCHANGED source

Closed(w) == \/ Stopping(w) /\ Moves(w, "closing", "leaving") /\ Silently
             \/ ~Stopping(w) /\ Moves(w, "closing", "retrying") /\ Silently

\* Slips: the state is written and nobody notified; the end is not even written.
RetryMute(w) == /\ Moves(w, "retrying", "checking")
                /\ snap' = [snap EXCEPT ![of[w]] = "RECONNECTING"]
                /\ UNCHANGED <<source, told>>
LeaveMute(w) == Moves(w, "leaving", "dead") /\ Silently

\* RECONNECTING, and a wait that the stop event cuts short.
Retry(w) == Moves(w, "retrying", "checking") /\ Says(w, "RECONNECTING")
Leave(w) == Moves(w, "leaving", "dead") /\ Says(w, "STOPPED")

WorkerStep(w) == \/ Round(w) \/ Dial(w) \/ CaptureEnds(w) \/ FirstFrame(w)
                 \/ Greet(w) \/ NextFrame(w) \/ Store(w) \/ Record(w)
                 \/ Closed(w) \/ Retry(w) \/ Leave(w)
-----------------------------------------------------------------------------
Next == \/ Serve \/ BeginShutdown
        \/ \E r \in Requests : RequestStep(r)
        \/ \E r \in Requests, k \in Cameras : Boot(r, k) \/ BeginApply(r, k) \/ BeginStop(r, k)
                                              \/ StopNext(r, k)
        \/ \E w \in Workers : WorkerStep(w)

Spec == Init /\ [][Next]_vars
-----------------------------------------------------------------------------
\* What the health of the system says of the cameras, from snapshots().
CameraHealth ==
    CASE actives = {} -> "DEGRADED"
      [] actives # {} /\ \A k \in actives : snap[k] = "CONNECTED" -> "HEALTHY"
      [] \E k \in actives : snap[k] = "UNAVAILABLE" -> "UNHEALTHY"
      [] OTHER -> "DEGRADED"
-----------------------------------------------------------------------------
(* Properties.                                                               *)

States == {"STOPPED", "CONNECTING", "RECONNECTING", "CONNECTED", "UNAVAILABLE"}
Places == {"none", "new", "checking", "dialling", "connecting", "greeting", "storing",
           "recording", "renewing", "capturing", "closing", "retrying", "leaving", "dead"}
Stages == {"idle", "reading", "signalling", "joining", "giving up", "removing",
           "installing", "starting", "marking"}
Answers == {"none", "applied", "stopped"}

ManagerTyped == /\ table \in [Cameras -> {None} \cup 1..created]
                /\ Cardinality({k \in Cameras : table[k] # None}) <= MaxActive
                /\ actives \in SUBSET Cameras /\ snap \in [Cameras -> States]
                /\ source \in [Cameras -> {None} \cup 1..created]
                /\ told \in [Cameras -> BOOLEAN]
WorkersTyped == /\ created \in 0..MaxWorkers /\ stopSet \in SUBSET (1..created)
                /\ loop \in [Workers -> Places]
                /\ \A w \in Workers : loop[w] = "none" <=> w > created
                /\ of \in [Workers -> Cameras \cup {None}]
RequestsTyped == /\ pc \in [Requests -> Stages]
                 /\ op \in [Requests -> {"none", "boot", "apply", "stop"}]
                 /\ cam \in [Requests -> Cameras \cup {None}]
                 /\ handle \in [Requests -> {None} \cup 1..created]
HistoryTyped == /\ last \in [Cameras -> Answers]
                /\ overdue \in SUBSET Cameras /\ crowded \in SUBSET Cameras

\* Every variable stays in its range, and no more cameras have a worker than may be
\* active.
TypeOK == /\ ManagerTyped /\ WorkersTyped /\ RequestsTyped /\ HistoryTyped
          /\ phase \in {"booting", "serving", "stopping"} /\ todo \in SUBSET Cameras

\* A camera has one capture worker at most, the one that stop() can find, even when
\* that worker outlives a join: a second one is never started beside it.
OneCapture == \A k \in Cameras \ crowded : AliveOf(k) \subseteq {table[k]}

\* The state CONNECTED, without which no gate is opened, means a worker that is
\* alive, however the worker and the requests wrote the state last.
ConnectedIsLive == \A k \in Cameras \ crowded :
                      snap[k] = "CONNECTED" => table[k] \in Alive

\* So the health of the system, while it is good, counts exactly the cameras with a
\* live worker.
HealthTells == crowded = {} /\ CameraHealth = "HEALTHY" =>
                   actives = {k \in Cameras : AliveOf(k) # {}}
ConnectedMeansLive == ConnectedIsLive /\ HealthTells

\* The frame that waits for inference is one of the current worker's: a restart
\* lets no frame of the previous stream through.
FreshFrame == \A k \in Cameras \ crowded :
                 table[k] # None => source[k] \in {None, table[k]}

\* What a request for a camera was answered is so: an applied camera has a worker that nobody
\* has told to stop, and a stopped one has none.
AnswerHolds == \A k \in Cameras \ crowded : Busy(k) = {} =>
                  /\ last[k] = "applied" => table[k] \in Alive \ stopSet /\ k \in actives
                  /\ last[k] = "stopped" => AliveOf(k) = {}

\* Workers and answers agree while the requests for a camera come one at a time.
WorkerInTurn == OneCapture /\ AnswerHolds
Inv == TypeOK /\ WorkerInTurn

\* The last camera event in the log says whether the camera is connected, unless a
\* stop timed out: that one writes its state without a word.
AuditFollows == \A k \in Cameras \ (overdue \cup crowded) : told[k] <=> snap[k] = "CONNECTED"
=============================================================================
