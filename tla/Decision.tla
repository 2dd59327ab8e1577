-------------------------------- MODULE Decision --------------------------------
(* From a confirmed plate to the gate and the audit: what RecognitionService,    *)
(* AuthorizationService, GateOrchestrator and OperationalEventRecorder do with   *)
(* the plates of one frame, on the inference thread, while requests change the   *)
(* vehicle, its access rules and the gates.  Every read sees what is committed    *)
(* when it runs.  One vehicle, one camera, and one frame, begun with any database:*)
(* nothing but the database carries over to the next.                            *)
EXTENDS Schedule, Sequences, FiniteSets

CONSTANTS Gates,
          Here,       \* the camera that read the plates
          Anywhere,   \* camera_id NULL: a fallback rule
          Car,        \* the plate of the vehicle
          Stranger,   \* a plate nobody has entered
          Nothing,
          Rules,      \* ids of access rules
          Plans,      \* the timetables considered
          Terms,      \* the validities considered
          Moments,    \* the capture times considered
          MaxPlates,  \* bound on the plates confirmed by one frame
          MaxEdits    \* bound on the changes committed while a frame is processed

ASSUME DecisionAssumption == /\ Plans \subseteq Timetables /\ Terms \subseteq Validities
                             /\ Moments \subseteq Nat
                             /\ MaxPlates \in Nat /\ MaxEdits \in Nat
                             /\ Car # Stranger /\ Here # Anywhere

VARIABLES mode,    \* "live", "simulation" or "maintenance", fixed by the settings
          vehicle, \* its row: Nothing, or whether it is active and when it may pass
          gates,   \* the active flag of the gates there are rows for
          rules,   \* the rules of the vehicle by id: camera, gate, active
          pc,      \* where the worker is
          moment,  \* the time the plates of the frame are judged by
          batch,   \* the decisions of the frame: plate, outcome, gate outcome, gate
          target,  \* the rule resolved for the decision in hand
          events,  \* what the recorder has published for the frame
          raised,  \* whether the orchestrator gave up on the frame
          edits,
          since,   \* history: the databases in force at some time since the frame
          moved    \* history: the gates that moved for the frame, by decision

database == <<vehicle, gates, rules>>
work == <<pc, moment, batch, target, events, raised, moved>>
vars == <<mode, database, work, edits, since>>

Undecided == "undecided"
VehicleRows == [active : BOOLEAN, plan : Plans, term : Terms]
RuleRows == [camera : {Here, Anywhere}, gate : Gates, active : BOOLEAN]

ASSUME NothingAssumption == Nothing \notin VehicleRows \cup RuleRows \* NULL is no row
-----------------------------------------------------------------------------
(* Slips, one mistake each; none is part of Next.                            *)

\* Rules that are switched off count.
ApplicableOff == {r \in DOMAIN rules : rules[r].camera \in {Here, Anywhere}}

\* Rows are left that name a gate which is gone.
CascadeNot(S) == rules

\* A command that failed is recorded as a granted access.
GrantedByCommand(d) == d.gate \in {"GATE_OPEN_SUCCESS", "GATE_OPEN_FAILED", "SIMULATED_GATE_OPEN"}
-----------------------------------------------------------------------------
\* AccessRuleRepository.applicable()
Applicable == {r \in DOMAIN rules : rules[r].active /\ rules[r].camera \in {Here, Anywhere}}

\* A rule for this camera goes before the fallback.
Candidates == LET exact == {r \in Applicable : rules[r].camera = Here}
              IN  IF exact # {} THEN exact ELSE Applicable

\* AuthorizationService.authorize(), with the database up.
Authorized(plate) == /\ plate = Car /\ vehicle # Nothing
                     /\ vehicle.active /\ Valid(vehicle.term, moment) /\ Inside(vehicle.plan, moment)

\* UNIQUE of access_rules does not see two rows with a NULL camera as equal.
Storable(r) == \A x, y \in DOMAIN r : /\ r[x].camera = Here /\ r[y].camera = Here
                                     /\ r[x].gate = r[y].gate => x = y

Init == /\ mode \in {"live", "simulation", "maintenance"}
        /\ vehicle \in {Nothing} \cup VehicleRows
        /\ gates \in UNION {[S -> BOOLEAN] : S \in SUBSET Gates}
        /\ rules \in {r \in UNION {[S -> RuleRows] : S \in SUBSET Rules} :
                         /\ Storable(r) /\ (vehicle = Nothing => r = <<>>)
                         /\ \A x \in DOMAIN r : r[x].gate \in DOMAIN gates}
        /\ pc = "idle" /\ moment = 0 /\ batch = <<>> /\ target = Nothing
        /\ events = {} /\ raised = FALSE /\ moved = {}
        /\ edits = 0 /\ since = {}
-----------------------------------------------------------------------------
(* What requests commit meanwhile.                                           *)

Edit == /\ pc \notin {"idle", "record", "done"} /\ edits < MaxEdits
        /\ edits' = edits + 1
        /\ since' = since \cup {database'}
        /\ UNCHANGED <<mode, work>>

\* The rules that are left when the rows of the gates are gone.
Cascade(S) == LET kept == {x \in DOMAIN rules : rules[x].gate \notin S}
              IN  [x \in kept |-> rules[x]]

EditVehicle == /\ vehicle' \in VehicleRows
               /\ UNCHANGED <<gates, rules>>
               /\ Edit

DeleteVehicle == /\ vehicle # Nothing
                 /\ vehicle' = Nothing /\ rules' = <<>>
                 /\ UNCHANGED gates
                 /\ Edit

SaveGate(g) == /\ \E on \in BOOLEAN : gates' = [x \in DOMAIN gates \cup {g} |-> IF x = g THEN on ELSE gates[x]]
               /\ UNCHANGED <<vehicle, rules>>
               /\ Edit

DeleteGate(g) == /\ g \in DOMAIN gates
                 /\ gates' = [x \in DOMAIN gates \ {g} |-> gates[x]]
                 /\ rules' = Cascade({g})
                 /\ UNCHANGED vehicle
                 /\ Edit

SaveRule(x) == /\ vehicle # Nothing
               /\ \E row \in RuleRows :
                    /\ row.gate \in DOMAIN gates
                    /\ rules' = [y \in DOMAIN rules \cup {x} |-> IF y = x THEN row ELSE rules[y]]
               /\ Storable(rules')
               /\ UNCHANGED <<vehicle, gates>>
               /\ Edit

DeleteRule(x) == /\ x \in DOMAIN rules
                 /\ rules' = [y \in DOMAIN rules \ {x} |-> rules[y]]
                 /\ UNCHANGED <<vehicle, gates>>
                 /\ Edit
-----------------------------------------------------------------------------
(* The worker.                                                               *)

Working == UNCHANGED <<mode, database, edits, since>>

\* The tracker and the votes have confirmed the plates of a frame.
Confirm == /\ pc = "idle"
           /\ \E n \in 1..MaxPlates : \E plates \in [1..n -> {Car, Stranger}] :
                 batch' = [i \in 1..n |-> [plate |-> plates[i], outcome |-> Undecided, gate |-> "none"]]
           /\ moment' \in Moments
           /\ pc' = "decide"
           /\ since' = {database}
           /\ UNCHANGED <<mode, database, edits, target, events, raised, moved>>

Pending(b) == {i \in DOMAIN b : b[i].outcome = "AUTHORIZED_PENDING_GATE" /\ b[i].gate = "none"}

\* To the next decision for the gates, or to the recorder.
Onward(b) == /\ batch' = b
             /\ pc' = IF Pending(b) # {} THEN "camera" ELSE "record"

Decide(i, outcome) == /\ pc = "decide" /\ i \in DOMAIN batch
                      /\ \A j \in DOMAIN batch : (j < i) <=> batch[j].outcome # Undecided
                      /\ LET b == [batch EXCEPT ![i].outcome = outcome]
                         IN  IF i = Len(batch) THEN Onward(b) ELSE batch' = b /\ pc' = pc
                      /\ UNCHANGED <<moment, target, events, raised, moved>>
                      /\ Working

\* The vehicle may not pass, or the database did not answer.
Deny(i) == Decide(i, "DENIED")

Block(i) == /\ Decide(i, "MAINTENANCE_BLOCKED")
            /\ Authorized(batch[i].plate) /\ mode = "maintenance"

Cool(i) == /\ Decide(i, "COOLDOWN")
           /\ Authorized(batch[i].plate) /\ mode # "maintenance"

\* The cooldown lets a plate pass once.
Pend(i) == /\ Decide(i, "AUTHORIZED_PENDING_GATE")
           /\ Authorized(batch[i].plate) /\ mode # "maintenance"
           /\ \A j \in DOMAIN batch : batch[j].outcome # "AUTHORIZED_PENDING_GATE"

Result(i, outcome) == /\ Onward([batch EXCEPT ![i].gate = outcome])
                      /\ target' = Nothing
                      /\ UNCHANGED <<moment, events, raised>>
                      /\ Working

CameraUnhealthy(i) == /\ pc = "camera" /\ i \in Pending(batch)
                      /\ Result(i, "CAMERA_UNHEALTHY")
                      /\ UNCHANGED moved

CameraConnected(i) == /\ pc = "camera" /\ i \in Pending(batch)
                      /\ pc' = "rules"
                      /\ UNCHANGED <<moment, batch, target, events, raised, moved>>
                      /\ Working

\* None or several, or the database did not answer.
Unresolved(i) == /\ pc = "rules" /\ i \in Pending(batch)
                 /\ \/ Result(i, "ACCESS_RULE_NOT_FOUND")
                    \/ Cardinality(Candidates) > 1 /\ Result(i, "ACCESS_RULE_AMBIGUOUS")
                 /\ UNCHANGED moved

Resolved(i) == /\ pc = "rules" /\ i \in Pending(batch)
               /\ \E r \in Candidates : Candidates = {r} /\ target' = rules[r]
               /\ pc' = "gate"
               /\ UNCHANGED <<moment, batch, events, raised, moved>>
               /\ Working

Usable(g) == g \in DOMAIN gates /\ gates[g]

GateDisabled(i) == /\ pc = "gate" /\ i \in Pending(batch)
                   /\ \/ ~Usable(target.gate) /\ Result(i, "GATE_DISABLED")
                      \/ Result(i, "ACCESS_RULE_NOT_FOUND")
                   /\ UNCHANGED moved

Simulate(i) == /\ pc = "gate" /\ i \in Pending(batch) /\ Usable(target.gate)
               /\ mode = "simulation"
               /\ Result(i, "SIMULATED_GATE_OPEN")
               /\ UNCHANGED moved

GateUsable(i) == /\ pc = "gate" /\ i \in Pending(batch) /\ Usable(target.gate)
                 /\ mode # "simulation"
                 /\ pc' = "command"
                 /\ UNCHANGED <<moment, batch, target, events, raised, moved>>
                 /\ Working

\* GateManager.open(): accepted, or not; a command that timed out may still move it.
Open(i, accepted) ==
    /\ pc = "command" /\ i \in Pending(batch)
    /\ Result(i, IF accepted THEN "GATE_OPEN_SUCCESS" ELSE "GATE_OPEN_FAILED")
    /\ moved' \in {moved \cup {[index |-> i, gate |-> target.gate]}} \cup
                  (IF accepted THEN {} ELSE {moved})

\* An error in the orchestrator leaves the recorder without any gate result.
Raise == /\ pc \in {"camera", "rules", "gate", "command"}
         /\ pc' = "record" /\ raised' = TRUE
         /\ batch' = [i \in DOMAIN batch |-> [batch[i] EXCEPT !.gate = "none"]]
         /\ target' = Nothing
         /\ UNCHANGED <<moment, events, moved>>
         /\ Working

Granted(d) == d.gate \in {"GATE_OPEN_SUCCESS", "SIMULATED_GATE_OPEN"}

\* OperationalEventRecorder.record(): gate results are looked up by plate.
Record == /\ pc = "record"
          /\ LET results == {batch[i] : i \in {j \in DOMAIN batch : batch[j].gate # "none"}}
                 opened  == {d \in results : d.gate \in {"GATE_OPEN_SUCCESS", "GATE_OPEN_FAILED"}}
                 denied  == {batch[i] : i \in {j \in DOMAIN batch :
                                /\ \A d \in results : d.plate # batch[j].plate
                                /\ batch[j].outcome # "AUTHORIZED_PENDING_GATE"}}
             IN  events' = {<<"PLATE_RECOGNIZED", batch[i].plate>> : i \in DOMAIN batch} \cup
                           {<<"ACCESS_DENIED", d.plate>> : d \in denied} \cup
                           {<<"GATE_OPEN_REQUESTED", d.plate>> : d \in opened} \cup
                           {<<IF Granted(d) THEN "ACCESS_GRANTED" ELSE "ACCESS_DENIED", d.plate>> : d \in results}
          /\ pc' = "done"
          /\ UNCHANGED <<moment, batch, target, raised, moved>>
          /\ Working

Next == \/ EditVehicle \/ DeleteVehicle
        \/ \E g \in Gates : SaveGate(g) \/ DeleteGate(g)
        \/ \E x \in Rules : SaveRule(x) \/ DeleteRule(x)
        \/ Confirm \/ Raise \/ Record
        \/ \E i \in DOMAIN batch :
              \/ Deny(i) \/ Block(i) \/ Cool(i) \/ Pend(i)
              \/ CameraUnhealthy(i) \/ CameraConnected(i) \/ Unresolved(i) \/ Resolved(i)
              \/ GateDisabled(i) \/ Simulate(i) \/ GateUsable(i)
              \/ \E accepted \in BOOLEAN : Open(i, accepted)

Spec == Init /\ [][Next]_vars
-----------------------------------------------------------------------------
\* What a decision and the worker may hold: no gate outcome without a pending
\* decision, a target only between the rule and the command.
Outcomes == {Undecided, "DENIED", "MAINTENANCE_BLOCKED", "COOLDOWN", "AUTHORIZED_PENDING_GATE"}
GateOutcomes == {"SIMULATED_GATE_OPEN", "GATE_OPEN_SUCCESS", "GATE_OPEN_FAILED", "CAMERA_UNHEALTHY",
                 "ACCESS_RULE_NOT_FOUND", "ACCESS_RULE_AMBIGUOUS", "GATE_DISABLED"}
TypeOK == /\ vehicle \in {Nothing} \cup VehicleRows
          /\ gates \in UNION {[S -> BOOLEAN] : S \in SUBSET Gates}
          /\ DOMAIN rules \subseteq Rules /\ \A x \in DOMAIN rules : rules[x] \in RuleRows
          /\ Storable(rules)
          /\ \A x \in DOMAIN rules : vehicle # Nothing /\ rules[x].gate \in DOMAIN gates
          /\ \A i \in DOMAIN batch : /\ batch[i].outcome \in Outcomes
                                    /\ batch[i].gate \in GateOutcomes \cup {"none"}
                                    /\ batch[i].gate # "none" => batch[i].outcome = "AUTHORIZED_PENDING_GATE"
          /\ target # Nothing <=> pc \in {"gate", "command"}

\* A gate moves for a plate only if it could be the right one: the installation is
\* live, and since the frame there was a time when the vehicle was active, inside its
\* dates and its timetable; a time when the rule that was followed was the only one of
\* its rank, with none for this camera above it; and a time when the gate was in use.
\* What was withdrawn before the frame never opens, whatever fails or changes meanwhile.
Sole(db, x) == /\ x \in DOMAIN db[3] /\ db[3][x].active
               /\ \A y \in DOMAIN db[3] \ {x} : db[3][y].active =>
                     db[3][x].camera = Here /\ db[3][y].camera = Anywhere
Justified == \A c \in moved :
    /\ mode = "live" /\ batch[c.index].plate = Car
    /\ \E db \in since : /\ db[1] # Nothing /\ db[1].active
                         /\ Valid(db[1].term, moment) /\ Allowed(db[1].plan, moment)
    /\ \E db \in since : \E x \in Rules : Sole(db, x) /\ db[3][x].gate = c.gate
    /\ \E db \in since : c.gate \in DOMAIN db[2] /\ db[2][c.gate]

\* The audit of a frame tells one story of each plate: it was granted if and only if a
\* gate accepted or simulated the opening, never granted and denied at once, and denied
\* otherwise; a command that moved a gate has its request in the log.  Only an error of
\* the orchestrator leaves a pending plate without an answer.
Audited == pc = "done" =>
    /\ \A i \in DOMAIN batch :
          LET plate   == batch[i].plate
              granted == \E j \in DOMAIN batch : batch[j].plate = plate /\
                            batch[j].gate \in {"GATE_OPEN_SUCCESS", "SIMULATED_GATE_OPEN"}
          IN  /\ <<"ACCESS_GRANTED", plate>> \in events <=> granted
              /\ granted => <<"ACCESS_DENIED", plate>> \notin events
              /\ ~granted /\ ~raised => <<"ACCESS_DENIED", plate>> \in events
    /\ \A c \in moved : <<"GATE_OPEN_REQUESTED", batch[c.index].plate>> \in events

\* A window belongs to the day it begins on, also when it ends after midnight: what the
\* code computes from the weekday and the time of day is what the windows cover.
WindowsAsWritten == pc = "idle" =>
    \A t \in Timetables, at \in Week * Day..2 * Week * Day - 1 : Inside(t, at) <=> Allowed(t, at)
=============================================================================
