----------------------------- MODULE Administration -----------------------------
(* The management routes of api/routes/ for cameras, gate controllers, access    *)
(* rules and settings, with the services and repositories under them: a request  *)
(* reads, checks, commits a row, and only then tells the component that runs it. *)
(* Requests run on the threads of the server, each with a session of its own, so *)
(* any two interleave between these steps; the process may stop anywhere and     *)
(* starts from the rows (lifespan() in main.py).                                 *)
EXTENDS Naturals, FiniteSets

CONSTANTS AdminRequests, \* the threads that serve requests
          Cameras, Gates, Rules, Values,
          Settings,  \* the one row of system_settings
          MaxActive, \* max_active_cameras
          Nowhere    \* a request that has no row yet

Rows == Cameras \cup Gates \cup Rules \cup {Settings}

\* What a row may say: whether a device is active; whether an access rule of the
\* vehicle and the gate is for one camera or a fallback; the settings stored.
Says(d) == IF d \in Rules THEN {"exact", "fallback"}
           ELSE IF d = Settings THEN Values
           ELSE {"off", "on"}
Absent == "absent"
Kinds == {Cameras, Gates, Rules, {Settings}}

ASSUME AdministrationAssumption ==
    /\ MaxActive \in Nat /\ IsFiniteSet(Cameras) /\ Nowhere \notin Rows
    /\ Cameras \cap Gates = {} /\ Settings \notin Cameras \cup Gates \cup Rules
    /\ Rules \cap (Cameras \cup Gates) = {}

VARIABLES scope,    \* the kind of row the requests are about, one per behaviour
          row,      \* the database
          running,  \* the devices that the camera manager and the gate manager run
          inferred, \* what the inference manager knows of each camera
          applied,  \* the settings each component has been given
          up,       \* whether the process runs
          pc, op, on, wants, seen, \* the requests: where, what, for which row, with
                    \* which payload, and what they last read
          alone,    \* history: the requests that nobody overlapped on their row
          loose,    \* history: the rows of which a request failed midway or overlapped, since
                    \* one that was alone told the managers
          mixed     \* history: writes that overlapped may have left the rows out of line

runtime == <<running, inferred, applied>>
requests == <<pc, op, on, wants, seen>>
history == <<alone, loose, mixed>>
adminVars == <<scope, row, runtime, up, requests, history>>

Parts == {"retention", "snapshots", "inference"}
Active == {c \in Cameras : row[c] = "on"}
Busy == {r \in AdminRequests : pc[r] # "idle"}

\* What is checked before a row is written: the limit of active cameras, and that the
\* vehicle has no second fallback for the gate.
InLine == /\ Cardinality(Active) <= MaxActive
          /\ \A x, y \in Rules : row[x] = "fallback" /\ row[y] = "fallback" => x = y
-----------------------------------------------------------------------------
(* Slips, one mistake each; none is part of AdminNext.                       *)

\* The limit is checked for new cameras only.
FitsNew(r) == on[r] = Nowhere /\ wants[r] = "on" =>
                 Cardinality(Active \ {on[r]}) < MaxActive

\* camera_id = NULL instead of IS NULL.
TakenByEquals(r) == \E x \in Rules \ {on[r]} : row[x] = wants[r] /\ wants[r] = "exact"

\* A device that is switched off goes on running.
RunsOn(r) == seen[r] = "on" \/ on[r] \in running

\* Two requests may create the row of the settings.
ConflictNever(r, d) == FALSE
-----------------------------------------------------------------------------
\* CameraService._check_active_limit(), for the row that a request is about.
Fits(r) == wants[r] = "on" => Cardinality(Active \ {on[r]}) < MaxActive

\* AccessRuleRepository.duplicate_exists()
Taken(r) == \E x \in Rules \ {on[r]} : row[x] = wants[r]

\* The UNIQUE constraint of the rules does not compare NULL; a key is inserted once.
Conflict(r, d) == \/ d \in Rules /\ wants[r] = "exact" /\ \E x \in Rules \ {d} : row[x] = "exact"
                  \/ d = Settings /\ seen[r] = Absent /\ row[d] # Absent

Runs(r) == seen[r] = "on"

\* A handler that creates a row which is not active tells no manager of cameras or gates.
Tells(r) == op[r] # "create" \/ Runs(r)

AdminInit == /\ scope \in Kinds
             /\ row \in [Rows -> {Absent}]
             /\ running = {} /\ inferred = [c \in Cameras |-> Absent]
             /\ applied = [p \in Parts |-> Absent]
             /\ up = FALSE
             /\ pc = [r \in AdminRequests |-> "idle"] /\ op = [r \in AdminRequests |-> "none"]
             /\ on = [r \in AdminRequests |-> Nowhere]
             /\ wants = [r \in AdminRequests |-> "none"] /\ seen = [r \in AdminRequests |-> "none"]
             /\ alone = {} /\ loose = {} /\ mixed = FALSE
-----------------------------------------------------------------------------
Proceeds(r, where) == pc' = [pc EXCEPT ![r] = where] /\ UNCHANGED <<op, on, wants, seen>>

Forgets(r) == /\ pc' = [pc EXCEPT ![r] = "idle"] /\ op' = [op EXCEPT ![r] = "none"]
              /\ on' = [on EXCEPT ![r] = Nowhere]
              /\ wants' = [wants EXCEPT ![r] = "none"] /\ seen' = [seen EXCEPT ![r] = "none"]
              /\ alone' = alone \ {r}

\* The answer: what it did for its row stands if it was alone, and told the managers.
Succeeds(r) == /\ loose' = IF r \in alone /\ Tells(r) THEN loose \ {on[r]} ELSE loose
               /\ Forgets(r) /\ UNCHANGED mixed

\* Refused before anything was written.
Refused(r) == Forgets(r) /\ UNCHANGED <<loose, mixed>>

\* An error after the row or the runtime was touched.
Fails(r) == /\ loose' = loose \cup {on[r]}
            /\ Forgets(r) /\ UNCHANGED mixed

\* A request and its row: those already about the same row are no longer alone.
Overlaps(r, d) == LET others == {s \in Busy \ {r} : on[s] = d /\ d # Nowhere}
                  IN  /\ alone' = IF others = {} THEN alone \cup {r} ELSE alone \ (others \cup {r})
                      /\ loose' = IF others = {} THEN loose ELSE loose \cup {d}

Begin(r, what, d, v) == /\ up /\ pc[r] = "idle"
                        /\ op' = [op EXCEPT ![r] = what] /\ on' = [on EXCEPT ![r] = d]
                        /\ wants' = [wants EXCEPT ![r] = v]
                        /\ pc' = [pc EXCEPT ![r] = IF what = "create" THEN "checking" ELSE "loading"]
                        /\ Overlaps(r, d)
                        /\ mixed' = IF Busy = {} THEN mixed /\ ~InLine ELSE TRUE
                        /\ UNCHANGED <<scope, row, runtime, up, seen>>

Create(r) == scope # {Settings} /\ \E v \in UNION {Says(d) : d \in scope} : Begin(r, "create", Nowhere, v)
Update(r) == \E d \in scope : \E v \in Says(d) : Begin(r, "update", d, v)
Delete(r) == scope # {Settings} /\ \E d \in scope : Begin(r, "delete", d, "none")

\* _get_or_404(), and SystemSettingsRepository.get().
Load(r) == /\ pc[r] = "loading"
           /\ \/ /\ row[on[r]] = Absent /\ on[r] # Settings
                 /\ Refused(r)
              \/ /\ row[on[r]] # Absent \/ on[r] = Settings
                 /\ seen' = [seen EXCEPT ![r] = row[on[r]]]
                 /\ pc' = [pc EXCEPT ![r] =
                       IF on[r] = Settings THEN "saving"
                       ELSE IF op[r] = "update" THEN "checking"
                       ELSE IF on[r] \in Rules THEN "removing" ELSE "stopping"]
                 /\ UNCHANGED <<op, on, wants, history>>
           /\ UNCHANGED <<scope, row, runtime, up>>

Admissible(r) == (scope = Cameras => Fits(r)) /\ (scope = Rules => ~Taken(r))

Check(r) == /\ pc[r] = "checking"
            /\ \/ ~Admissible(r) /\ Refused(r)
               \/ Admissible(r) /\ Proceeds(r, "saving") /\ UNCHANGED history
            /\ UNCHANGED <<scope, row, runtime, up>>

Saved(r, d) == pc' = [pc EXCEPT ![r] = IF d = Settings THEN "retention" ELSE "refreshing"]

\* The database gives a new row an id that no row has; an id is used again, since the
\* keys are not AUTOINCREMENT.  A commit may also fail for other reasons.
Insert(r) == /\ pc[r] = "saving" /\ op[r] = "create"
             /\ \E d \in {x \in scope : row[x] = Absent} :
                   \/ Refused(r) /\ UNCHANGED row
                   \/ /\ ~Conflict(r, d)
                      /\ row' = [row EXCEPT ![d] = wants[r]]
                      /\ on' = [on EXCEPT ![r] = d]
                      /\ Saved(r, d) /\ Overlaps(r, d)
                      /\ UNCHANGED <<op, wants, seen, mixed>>
             /\ UNCHANGED <<scope, runtime, up>>

\* Only a column that differs from what was loaded is written; a row that is gone
\* cannot be updated.
Save(r) == /\ pc[r] = "saving" /\ op[r] = "update"
           /\ LET d    == on[r]
                  lost == (row[d] = Absent /\ d # Settings) \/ Conflict(r, d)
              IN  \/ Refused(r) /\ UNCHANGED row
                  \/ /\ ~lost
                     /\ row' = IF wants[r] = seen[r] THEN row ELSE [row EXCEPT ![d] = wants[r]]
                     /\ Saved(r, d)
                     /\ UNCHANGED <<op, on, wants, seen, history>>
           /\ UNCHANGED <<scope, runtime, up>>

\* The row is read again after its commit, which fails if it is gone, or for any error
\* of the database; the change stays, and nobody is told of it.
Refresh(r) == /\ pc[r] = "refreshing"
              /\ \/ Fails(r)
                 \/ row[on[r]] # Absent /\ on[r] \in Rules /\ Succeeds(r)
                 \/ /\ row[on[r]] # Absent /\ on[r] \notin Rules
                    /\ seen' = [seen EXCEPT ![r] = row[on[r]]]
                    /\ pc' = [pc EXCEPT ![r] = "applying"]
                    /\ UNCHANGED <<op, on, wants, history>>
              /\ UNCHANGED <<scope, row, runtime, up>>

Continues(r) == IF on[r] \in Cameras THEN Proceeds(r, "inferring") /\ UNCHANGED history ELSE Succeeds(r)

\* CameraManager.apply() and stop(), GateManager.apply() and remove(), or none of them.
\* A camera's worker may not stop; one that was stopped may have no successor, since the
\* manager is full or its thread does not start.  A gate's adapter may not be made; one
\* that was stored stays when its executor does not start.
Apply(r) == /\ pc[r] = "applying"
            /\ LET d    == on[r]
                   full == d \in Cameras /\ Cardinality((running \ {d}) \cap Cameras) >= MaxActive
               IN  \/ Runs(r) /\ ~full /\ running' = running \cup {d} /\ Continues(r)
                   \/ ~Runs(r) /\ Tells(r) /\ running' = running \ {d} /\ Continues(r)
                   \/ ~Tells(r) /\ running' = running /\ Continues(r)
                   \/ d \in Cameras /\ Runs(r) /\ running' \in {running, running \ {d}} /\ Fails(r)
                   \/ d \in Cameras /\ ~Runs(r) /\ Tells(r) /\ running' = running /\ Fails(r)
                   \/ d \in Gates /\ Runs(r) /\ running' \in {running, running \cup {d}} /\ Fails(r)
            /\ UNCHANGED <<scope, row, inferred, applied, up>>

\* InferenceManager.apply_camera() and remove_camera(): the worker that is there may not
\* stop, and the next one may not start once the camera was stored.
Infer(r) == /\ pc[r] = "inferring"
            /\ LET told == [inferred EXCEPT ![on[r]] = IF op[r] = "delete" THEN Absent ELSE seen[r]]
               IN  \/ /\ inferred' = told
                      /\ IF op[r] = "delete" THEN Proceeds(r, "removing") /\ UNCHANGED history
                         ELSE Succeeds(r)
                   \/ inferred' \in {inferred, told} /\ Fails(r)
            /\ UNCHANGED <<scope, row, running, applied, up>>

\* A request to delete a device stops it first.
Stop(r) == /\ pc[r] = "stopping"
           /\ \/ /\ running' = running \ {on[r]}
                 /\ Proceeds(r, IF on[r] \in Cameras THEN "inferring" ELSE "removing")
                 /\ UNCHANGED history
              \/ on[r] \in Cameras /\ UNCHANGED running /\ Fails(r)
           /\ UNCHANGED <<scope, row, inferred, applied, up>>

\* A row that is gone already may be deleted again; a commit that fails leaves the row,
\* with its device stopped.
Remove(r) == /\ pc[r] = "removing"
             /\ \/ row' = [row EXCEPT ![on[r]] = Absent] /\ Succeeds(r)
                \/ UNCHANGED row /\ Fails(r)
             /\ UNCHANGED <<scope, runtime, up>>

\* update_runtime_settings() after the row: configure_retention(), configure() of the
\* snapshots, whose pruning may raise once the values are set, and configure() of the
\* inference.  This raises before anything if its worker does not stop, or at the end if
\* the next one does not start; if the models load, it gives the settings to the other
\* two again, as it builds the recorder of events.
Retain(r) == /\ pc[r] = "retention"
             /\ applied' = [applied EXCEPT !["retention"] = wants[r]]
             /\ Proceeds(r, "snapshots")
             /\ UNCHANGED <<scope, row, running, inferred, up, history>>

Snapshots(r) == /\ pc[r] = "snapshots"
                /\ applied' = [applied EXCEPT !["snapshots"] = wants[r]]
                /\ \/ Proceeds(r, "inference") /\ UNCHANGED history
                   \/ Fails(r)
                /\ UNCHANGED <<scope, row, running, inferred, up>>

Configure(r) == /\ pc[r] = "inference"
                /\ LET all == [p \in Parts |-> wants[r]]
                   IN  \/ applied' \in {[applied EXCEPT !["inference"] = wants[r]], all} /\ Succeeds(r)
                       \/ applied' \in {applied, all} /\ Fails(r)
                /\ UNCHANGED <<scope, row, running, inferred, up>>
-----------------------------------------------------------------------------
\* lifespan(): gates, settings and cameras from their rows.  A gate or a camera that
\* cannot be started is logged and left out, and the cameras end at the limit.
Boot == /\ ~up /\ up' = TRUE
        /\ \E started \in SUBSET {d \in Cameras \cup Gates : row[d] = "on"} :
              /\ Cardinality(started \cap Cameras) <= MaxActive
              /\ running' = started
              /\ loose' = {d \in Cameras \cup Gates : row[d] = "on"} \ started
        /\ inferred' = [c \in Cameras |-> row[c]]
        /\ applied' = [p \in Parts |-> row[Settings]]
        /\ UNCHANGED <<scope, row, requests, alone, mixed>>

\* The process ends, with whatever its requests had got to; only the rows are left.
Crash == /\ up /\ up' = FALSE
         /\ running' = {} /\ inferred' = [c \in Cameras |-> Absent]
         /\ applied' = [p \in Parts |-> Absent]
         /\ pc' = [r \in AdminRequests |-> "idle"] /\ op' = [r \in AdminRequests |-> "none"]
         /\ on' = [r \in AdminRequests |-> Nowhere]
         /\ wants' = [r \in AdminRequests |-> "none"] /\ seen' = [r \in AdminRequests |-> "none"]
         /\ alone' = {} /\ loose' = {}
         /\ UNCHANGED <<scope, row, mixed>>

AdminNext == \/ Boot \/ Crash
             \/ \E r \in AdminRequests :
                   \/ Create(r) \/ Update(r) \/ Delete(r) \/ Load(r) \/ Check(r) \/ Insert(r)
                   \/ Save(r) \/ Refresh(r) \/ Apply(r) \/ Infer(r) \/ Stop(r) \/ Remove(r)
                   \/ Retain(r) \/ Snapshots(r) \/ Configure(r)

AdminSpec == AdminInit /\ [][AdminNext]_adminVars
-----------------------------------------------------------------------------
Wheres == {"idle", "loading", "checking", "saving", "refreshing", "applying", "inferring",
           "stopping", "removing", "retention", "snapshots", "inference"}

\* What rows, runtime and requests hold; two rules for one camera are never stored.
AdminTypeOK == /\ \A d \in Rows : row[d] \in Says(d) \cup {Absent}
               /\ \A x, y \in Rules : row[x] = "exact" /\ row[y] = "exact" => x = y
               /\ running \subseteq Cameras \cup Gates /\ loose \subseteq Rows
               /\ \A c \in Cameras : inferred[c] \in Says(c) \cup {Absent}
               /\ \A p \in Parts : applied[p] \in Values \cup {Absent}
               /\ \A r \in AdminRequests :
                    /\ pc[r] \in Wheres
                    /\ on[r] \in scope \cup {Nowhere}
                    /\ on[r] = Nowhere <=>
                          pc[r] = "idle" \/ (op[r] = "create" /\ pc[r] \in {"checking", "saving"})
               /\ alone \subseteq Busy /\ up \in BOOLEAN /\ (~up => Busy = {})

\* What runs is what is stored.  While no request is about a row, and the last one that
\* told the managers of it was alone with it and none since failed midway or overlapped,
\* a camera or a gate runs (a gate: has a controller) if and only if its row
\* says so, the inference knows the camera as its row has it, and every component has
\* been given the settings of the row: after any history of requests about other rows,
\* failures repaired by a later request, crashes and restarts.
AgreeInTurn == up => \A d \in Rows \ loose : (\A r \in Busy : on[r] # d) =>
    /\ d \in Cameras \cup Gates => (d \in running <=> row[d] = "on")
    /\ d \in Cameras => inferred[d] = row[d]
    /\ d = Settings => \A p \in Parts : applied[p] = row[d]

\* The checks that are made before a row is written, and not with it, hold as long as
\* writes come one after the other: the limit of active cameras, and no two fallback
\* rules of a vehicle for one gate, after which no decision of it could be resolved.
\* Requests that overlap break both, and rows once out of line stay so.
CheckedInTurn == ~mixed => InLine
=============================================================================
