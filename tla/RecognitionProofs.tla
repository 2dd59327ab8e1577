---------------------------- MODULE RecognitionProofs ----------------------------
(* Decision and Recognition for any installation.  Decision: any gates, rules and    *)
(* timetables, any number of plates in a frame and of edits while it is decided.     *)
(* Recognition: any cameras and plates, any table, window and number of detections.  *)
EXTENDS Decision, Recognition, FiniteSetTheorems, SequenceTheorems, TLAPS

Places == {"idle", "decide", "camera", "rules", "gate", "command", "record", "done"}
Rows == [plate : {Car, Stranger}, outcome : Outcomes, gate : GateOutcomes \cup {"none"}]

APG == "AUTHORIZED_PENDING_GATE"
Sent == {"GATE_OPEN_SUCCESS", "GATE_OPEN_FAILED"}

\* What the types leave open: the frame, its decisions, and where they may be.
Framed ==
    /\ mode \in {"live", "simulation", "maintenance"} /\ pc \in Places
    /\ moment \in Nat /\ batch \in [DOMAIN batch -> Rows]
    /\ target \in RuleRows \cup {Nothing}
    /\ pc = "idle" => DOMAIN batch = {}
    /\ pc # "idle" => database \in since
    /\ pc \in {"idle", "decide"} => \A i \in DOMAIN batch : batch[i].gate = "none"

\* A database in which the vehicle may pass, and one in which a gate is in use.
Passable(db) == /\ db[1] # Nothing /\ db[1].active
                /\ Valid(db[1].term, moment) /\ Allowed(db[1].plan, moment)
Leads(db, gate) == \E x \in Rules : Sole(db, x) /\ db[3][x].gate = gate
InUse(db, gate) == gate \in DOMAIN db[2] /\ db[2][gate]

\* What has been seen before each step towards the gate.
Evidence ==
    /\ \A i \in DOMAIN batch : batch[i].outcome = APG =>
         /\ batch[i].plate = Car /\ mode # "maintenance"
         /\ \E db \in since : Passable(db)
    /\ pc \in {"gate", "command"} => \E db \in since : Leads(db, target.gate)
    /\ pc = "command" => mode # "simulation" /\ \E db \in since : InUse(db, target.gate)

\* One plate of a frame goes on to the gate at most; the frame is over when its gate has
\* moved; what is handed to the recorder is complete unless the orchestrator gave up.
OneGoes ==
    /\ \A i, j \in DOMAIN batch : batch[i].outcome = APG /\ batch[j].outcome = APG => i = j
    /\ raised \in BOOLEAN
    /\ raised => /\ pc \in {"record", "done"}
                 /\ \A i \in DOMAIN batch : batch[i].gate = "none"
    /\ pc \in {"record", "done"} /\ ~raised => Pending(batch) = {}
    /\ \A c \in moved : /\ c.index \in DOMAIN batch /\ batch[c.index].gate \in Sent
                        /\ batch[c.index].outcome = APG
                        /\ pc \in {"record", "done"} /\ ~raised

IInv == TypeOK /\ Framed /\ Evidence /\ OneGoes /\ Justified /\ Audited
-----------------------------------------------------------------------------
(* Windows.                                                                  *)

LEMMA Division ==
    ASSUME NEW a \in Int, NEW n \in Nat \ {0}
    PROVE  /\ a \div n \in Int /\ a % n \in 0..n - 1 /\ a = (a \div n) * n + (a % n)
OBVIOUS

\* A number has one quotient and one remainder.
LEMMA Unique ==
    ASSUME NEW n \in Nat \ {0}, NEW q \in Int, NEW p \in Int, NEW r \in 0..n - 1, NEW s \in 0..n - 1,
           q * n + r = p * n + s
    PROVE  q = p /\ r = s
<1>1. CASE q < p
  <2>1. (p - q) * n >= n
    BY <1>1
  <2> QED BY <2>1
<1>2. CASE q > p
  <2>1. (q - p) * n >= n
    BY <1>2
  <2> QED BY <2>1
<1>3. CASE q = p
  BY <1>3
<1> QED BY <1>1, <1>2, <1>3

\* ... and % and \div find them.
LEMMA Remainder ==
    ASSUME NEW n \in Nat \ {0}, NEW a \in Int, NEW q \in Int, NEW r \in 0..n - 1, a = q * n + r
    PROVE  a % n = r /\ a \div n = q
<1>1. a \div n \in Int /\ a % n \in 0..n - 1 /\ a = (a \div n) * n + (a % n)
  BY Division
<1>2. (a \div n) * n + (a % n) = q * n + r
  BY <1>1
<1> QED BY <1>1, <1>2, Unique

\* The weekday before, taken from the weekday or from the day.
LEMMA YesterdayWeek ==
    ASSUME NEW d \in Int
    PROVE  ((d % Week) - 1) % Week = (d - 1) % Week
<1> DEFINE q == d \div Week
           r == d % Week
<1>1. Week \in Nat \ {0}
  BY ScheduleAssumption
<1>2. q \in Int /\ r \in 0..Week - 1 /\ d = q * Week + r
  BY <1>1, Division
<1> HIDE DEF q, r
<1>3. CASE r >= 1
  <2>1. d - 1 = q * Week + (r - 1) /\ r - 1 \in 0..Week - 1 /\ r - 1 = 0 * Week + (r - 1)
    BY <1>1, <1>2, <1>3
  <2>2. (d - 1) % Week = r - 1
    BY <1>1, <1>2, <2>1, Remainder
  <2>3. (r - 1) % Week = r - 1
    BY <1>1, <1>2, <2>1, Remainder
  <2> QED BY <2>2, <2>3 DEF r
<1>4. CASE r = 0
  <2>1. d - 1 = (q - 1) * Week + (Week - 1) /\ Week - 1 \in 0..Week - 1
        /\ r - 1 = (0 - 1) * Week + (Week - 1)
    BY <1>1, <1>2, <1>4
  <2>2. (d - 1) % Week = Week - 1 /\ (r - 1) % Week = Week - 1
    BY <1>1, <1>2, <2>1, Remainder
  <2> QED BY <2>2 DEF r
<1> QED BY <1>2, <1>3, <1>4

\* What is computed from weekday and minute is what the windows cover.
LEMMA Windows ==
    ASSUME NEW t \in Timetables, NEW at \in Nat
    PROVE  Inside(t, at) <=> Allowed(t, at)
<1> DEFINE d == at \div Day
           m == at % Day
           today == d % Week \in t.days
           yesterday == (d - 1) % Week \in t.days
<1>1. /\ Week \in Nat \ {0} /\ Day \in Nat \ {0} /\ None \notin Nat
      /\ t.start \in Minutes /\ t.end \in Minutes
  BY ScheduleAssumption DEF Timetables
<1>2. /\ d \in Nat /\ m \in 0..Day - 1 /\ at = d * Day + m
  <2>1. d \in Int /\ m \in 0..Day - 1 /\ at = d * Day + m
    BY <1>1, Division
  <2> HIDE DEF d, m
  <2>2. ASSUME d < 0 PROVE FALSE
    <3>1. d * Day <= (0 - 1) * Day
      BY <1>1, <2>1, <2>2
    <3> QED BY <1>1, <2>1, <3>1
  <2> QED BY <2>1, <2>2
<1>3. d # d - 1
  BY <1>2
<1>4. Allowed(t, at) <=> (today /\ Covers(t, d, at)) \/ (yesterday /\ Covers(t, d - 1, at))
  BY <1>3 DEF Allowed
<1>5. ((WeekDay(at) - 1) % Week \in t.days) <=> yesterday
  BY <1>2, YesterdayWeek DEF WeekDay
<1> HIDE DEF d, m
<1>6. (d - 1) * Day = d * Day - Day
  BY <1>1, <1>2
<1>7. CASE t.start = None \/ t.end = None
  <2>1. Covers(t, d, at) /\ ~Covers(t, d - 1, at)
    BY <1>1, <1>2, <1>6, <1>7 DEF Covers
  <2> QED BY <1>4, <1>7, <2>1 DEF Inside, WeekDay, d
<1>8. CASE t.start # None /\ t.end # None /\ t.start <= t.end
  <2>0. t.start \in 0..Day - 1 /\ t.end \in 0..Day - 1
    BY <1>1, <1>8 DEF Minutes
  <2>1. \A day \in Int : Covers(t, day, at) <=> day * Day + t.start <= at /\ at <= day * Day + t.end
    BY <1>8 DEF Covers
  <2>2. (Covers(t, d, at) <=> (t.start <= m /\ m <= t.end)) /\ ~Covers(t, d - 1, at)
    BY <1>1, <1>2, <1>6, <2>0, <2>1
  <2> QED BY <1>4, <1>8, <2>2 DEF Inside, WeekDay, Minute, d, m
<1>9. CASE t.start # None /\ t.end # None /\ ~(t.start <= t.end)
  <2>1. /\ Covers(t, d, at) <=> t.start <= m
        /\ Covers(t, d - 1, at) <=> m <= t.end
    <3>0. t.start \in 0..Day - 1 /\ t.end \in 0..Day - 1 /\ t.start > t.end
      BY <1>1, <1>9 DEF Minutes
    <3>1. \A day \in Int : Covers(t, day, at) <=>
                              day * Day + t.start <= at /\ at <= day * Day + (t.end + Day)
      BY <1>9 DEF Covers
    <3> QED BY <1>1, <1>2, <1>6, <3>0, <3>1
  <2>2. t.start > t.end /\ t.start \in Nat /\ t.end \in Nat
    BY <1>1, <1>9 DEF Minutes
  <2> QED BY <1>2, <1>4, <1>5, <1>9, <2>1, <2>2 DEF Inside, WeekDay, Minute, d, m
<1> QED BY <1>7, <1>8, <1>9

\* For every timetable and every moment.
THEOREM WindowsHold == Spec => []WindowsAsWritten
<1>1. WindowsAsWritten
  <2>1. Week * Day..2 * Week * Day - 1 \subseteq Nat
    BY ScheduleAssumption
  <2> QED BY <2>1, Windows DEF WindowsAsWritten
<1> QED BY <1>1, PTL
-----------------------------------------------------------------------------
(* The database.                                                             *)

Stored == /\ vehicle \in {Nothing} \cup VehicleRows
          /\ gates \in UNION {[S -> BOOLEAN] : S \in SUBSET Gates}
          /\ DOMAIN rules \subseteq Rules /\ \A x \in DOMAIN rules : rules[x] \in RuleRows
          /\ Storable(rules)
          /\ \A x \in DOMAIN rules : vehicle # Nothing /\ rules[x].gate \in DOMAIN gates
Shape == /\ \A i \in DOMAIN batch : batch[i].gate # "none" => batch[i].outcome = APG
         /\ target # Nothing <=> pc \in {"gate", "command"}

\* TypeOK, without what Framed says as well.
LEMMA Parts == Framed => (TypeOK <=> Stored /\ Shape)
<1> SUFFICES ASSUME Framed PROVE TypeOK <=> Stored /\ Shape
  OBVIOUS
<1>1. \A i \in DOMAIN batch : batch[i].outcome \in Outcomes /\ batch[i].gate \in GateOutcomes \cup {"none"}
  BY DEF Framed, Rows
<1> QED BY <1>1 DEF TypeOK, Stored, Shape, APG

Edits == \/ EditVehicle \/ DeleteVehicle
         \/ \E g \in Gates : SaveGate(g) \/ DeleteGate(g)
         \/ \E x \in Rules : SaveRule(x) \/ DeleteRule(x)

\* The rows keep what the database demands of them.
LEMMA StoredEdits == Stored /\ Edits => Stored'
<1> SUFFICES ASSUME Stored, Edits PROVE Stored'
  OBVIOUS
<1>0. PICK on \in SUBSET Gates : gates \in [on -> BOOLEAN]
  BY DEF Stored
<1>n. Nothing \notin VehicleRows
  BY NothingAssumption
<1>g. ASSUME NEW f, NEW S \in SUBSET Gates, f \in [S -> BOOLEAN]
      PROVE  f \in UNION {[T -> BOOLEAN] : T \in SUBSET Gates}
  BY <1>g
<1>s. ASSUME NEW S \in SUBSET DOMAIN rules, rules' = [x \in S |-> rules[x]]
      PROVE  /\ DOMAIN rules' = S /\ \A x \in S : rules'[x] = rules[x]
             /\ DOMAIN rules' \subseteq Rules /\ \A x \in DOMAIN rules' : rules'[x] \in RuleRows
             /\ Storable(rules')
  BY <1>s DEF Stored, Storable
<1>1. CASE EditVehicle
  BY <1>n, <1>1 DEF EditVehicle, Stored
<1>2. CASE DeleteVehicle
  <2>1. vehicle' = Nothing /\ DOMAIN rules' = {} /\ gates' = gates
    BY <1>2 DEF DeleteVehicle
  <2>2. Storable(rules')
    BY <2>1 DEF Storable
  <2> QED BY <2>1, <2>2 DEF Stored
<1>3. ASSUME NEW g \in Gates, SaveGate(g) PROVE Stored'
  <2>1. PICK b \in BOOLEAN : gates' = [x \in DOMAIN gates \cup {g} |-> IF x = g THEN b ELSE gates[x]]
    BY <1>3 DEF SaveGate
  <2>2. gates' \in [on \cup {g} -> BOOLEAN] /\ DOMAIN gates' = DOMAIN gates \cup {g}
    BY <1>0, <2>1
  <2>3. gates' \in UNION {[S -> BOOLEAN] : S \in SUBSET Gates}
    BY <1>g, <2>2
  <2> QED BY <1>3, <2>2, <2>3 DEF SaveGate, Stored
<1>4. ASSUME NEW g \in Gates, DeleteGate(g) PROVE Stored'
  <2> DEFINE kept == {x \in DOMAIN rules : rules[x].gate \notin {g}}
  <2>1. /\ gates' = [x \in DOMAIN gates \ {g} |-> gates[x]] /\ vehicle' = vehicle
        /\ rules' = [x \in kept |-> rules[x]]
    BY <1>4 DEF DeleteGate, Cascade
  <2>2. gates' \in [on \ {g} -> BOOLEAN] /\ DOMAIN gates' = DOMAIN gates \ {g}
    BY <1>0, <2>1
  <2>3. gates' \in UNION {[S -> BOOLEAN] : S \in SUBSET Gates}
    BY <1>g, <2>2
  <2>4. /\ DOMAIN rules' = kept /\ \A x \in kept : rules'[x] = rules[x]
        /\ DOMAIN rules' \subseteq Rules /\ \A x \in DOMAIN rules' : rules'[x] \in RuleRows
        /\ Storable(rules')
    BY <1>s, <2>1
  <2>5. \A x \in kept : vehicle # Nothing /\ rules[x].gate \in DOMAIN gates /\ rules[x].gate # g
    BY DEF Stored
  <2> QED BY <2>1, <2>2, <2>3, <2>4, <2>5 DEF Stored
<1>5. ASSUME NEW x \in Rules, SaveRule(x) PROVE Stored'
  <2>1. PICK row \in RuleRows :
          /\ row.gate \in DOMAIN gates
          /\ rules' = [y \in DOMAIN rules \cup {x} |-> IF y = x THEN row ELSE rules[y]]
    BY <1>5 DEF SaveRule
  <2>2. vehicle # Nothing /\ Storable(rules') /\ vehicle' = vehicle /\ gates' = gates
    BY <1>5 DEF SaveRule
  <2> QED BY <2>1, <2>2 DEF Stored
<1>6. ASSUME NEW x \in Rules, DeleteRule(x) PROVE Stored'
  <2>1. rules' = [y \in DOMAIN rules \ {x} |-> rules[y]] /\ vehicle' = vehicle /\ gates' = gates
    BY <1>6 DEF DeleteRule
  <2>2. /\ DOMAIN rules' = DOMAIN rules \ {x} /\ \A y \in DOMAIN rules \ {x} : rules'[y] = rules[y]
        /\ DOMAIN rules' \subseteq Rules /\ \A y \in DOMAIN rules' : rules'[y] \in RuleRows
        /\ Storable(rules')
    BY <1>s, <2>1
  <2> QED BY <2>1, <2>2 DEF Stored
<1> QED BY <1>1, <1>2, <1>3, <1>4, <1>5, <1>6 DEF Edits
-----------------------------------------------------------------------------
(* The beginning, and what does not concern the worker.                      *)

LEMMA Begins == Init => IInv
<1> SUFFICES ASSUME Init PROVE IInv
  OBVIOUS
<1>1. Framed
  BY DEF Init, Framed, Places
<1>2. Stored
  <2>1. \A x \in DOMAIN rules : vehicle # Nothing
    BY DEF Init
  <2>2. PICK S \in SUBSET Rules : rules \in [S -> RuleRows]
    BY DEF Init
  <2> QED BY <2>1, <2>2 DEF Init, Stored
<1>3. Shape
  BY DEF Init, Shape
<1>4. TypeOK
  BY <1>1, <1>2, <1>3, Parts
<1>5. pc = "idle" /\ moved = {} /\ raised = FALSE /\ DOMAIN batch = {}
  BY DEF Init
<1> QED BY <1>1, <1>4, <1>5 DEF IInv, Evidence, OneGoes, Justified, Audited

\* What justified a gate that moved still does while nothing is forgotten.
LEMMA Steady ==
    ASSUME Justified, since \subseteq since', moved' = moved, moment' = moment, mode' = mode,
           \A c \in moved : batch'[c.index].plate = batch[c.index].plate
    PROVE  Justified'
<1> SUFFICES ASSUME NEW c \in moved
             PROVE  /\ mode = "live" /\ batch'[c.index].plate = Car
                    /\ \E db \in since' : Passable(db)
                    /\ \E db \in since' : Leads(db, c.gate)
                    /\ \E db \in since' : InUse(db, c.gate)
  BY DEF Justified, Passable, Leads, InUse, Sole
<1> QED BY DEF Justified, Passable, Leads, InUse

\* A request commits between two steps of the worker.
LEMMA EditsKeep == IInv /\ Edits => IInv'
<1> SUFFICES ASSUME IInv, Edits PROVE IInv'
  OBVIOUS
<1>1. pc \notin {"idle", "record", "done"} /\ since' = since \cup {database'} /\ UNCHANGED <<mode, work>>
  BY DEF Edits, EditVehicle, DeleteVehicle, SaveGate, DeleteGate, SaveRule, DeleteRule, Edit
<1>2. UNCHANGED <<mode, pc, moment, batch, target, events, raised, moved>>
  BY <1>1 DEF work
<1>3. database' \in since' /\ since \subseteq since'
  BY <1>1
<1>4. Framed'
  <2>1. Framed
    BY DEF IInv
  <2> QED BY <1>2, <1>3, <2>1 DEF Framed
<1>5. TypeOK'
  <2>1. Stored /\ Shape
    BY Parts DEF IInv
  <2>2. Stored' /\ Shape'
    BY <1>2, <2>1, StoredEdits DEF Shape
  <2>3. (Framed => (TypeOK <=> Stored /\ Shape))'
    BY Parts, PTL
  <2> QED BY <1>4, <2>2, <2>3
<1>6. Evidence'
  BY <1>2, <1>3 DEF IInv, Evidence, Passable, Leads, InUse, Sole
<1>7. OneGoes'
  BY <1>2 DEF IInv, OneGoes, Pending
<1>8. Justified' /\ Audited'
  BY <1>1, <1>2, <1>3, Steady DEF IInv, Audited
<1> QED BY <1>4, <1>5, <1>6, <1>7, <1>8 DEF IInv
-----------------------------------------------------------------------------
(* The decisions.                                                            *)

\* The rest of the state before the frame goes to the recorder.
LEMMA NotYetMoved == IInv /\ pc \notin {"record", "done"} => raised = FALSE /\ moved = {}
BY DEF IInv, OneGoes

\* The frame begins with the database as it is.
LEMMA ConfirmKeeps == IInv /\ Confirm => IInv'
<1> SUFFICES ASSUME IInv, Confirm PROVE IInv'
  OBVIOUS
<1>0. PICK n \in 1..MaxPlates : \E plates \in [1..n -> {Car, Stranger}] :
        batch' = [i \in 1..n |-> [plate |-> plates[i], outcome |-> Undecided, gate |-> "none"]]
  BY DEF Confirm
<1>1. PICK plates \in [1..n -> {Car, Stranger}] :
        batch' = [i \in 1..n |-> [plate |-> plates[i], outcome |-> Undecided, gate |-> "none"]]
  BY <1>0
<1>2. /\ DOMAIN batch' = 1..n /\ batch' \in [1..n -> Rows]
      /\ \A i \in 1..n : batch'[i].outcome = Undecided /\ batch'[i].gate = "none"
  BY <1>1 DEF Rows, Outcomes
<1>3. pc = "idle" /\ raised = FALSE /\ moved = {} /\ target = Nothing
  BY NotYetMoved DEF Confirm, IInv, TypeOK
<1>4. /\ pc' = "decide" /\ moment' \in Nat /\ database' = database /\ since' = {database}
      /\ UNCHANGED <<mode, vehicle, gates, rules, target, raised, moved>>
  BY DecisionAssumption DEF Confirm, database
<1>5. Framed'
  BY <1>2, <1>3, <1>4 DEF IInv, Framed, Places
<1>6. Stored' /\ Shape'
  <2>1. Stored
    BY Parts DEF IInv
  <2>2. Stored'
    BY <1>4, <2>1 DEF Stored, Storable
  <2> QED BY <1>2, <1>3, <1>4, <2>2 DEF Shape
<1>7. TypeOK'
  <2>1. (Framed => (TypeOK <=> Stored /\ Shape))'
    BY Parts, PTL
  <2> QED BY <1>5, <1>6, <2>1
<1>8. Evidence' /\ OneGoes' /\ Justified' /\ Audited'
  BY <1>2, <1>3, <1>4 DEF Evidence, OneGoes, Justified, Audited, Undecided, APG
<1> QED BY <1>5, <1>7, <1>8 DEF IInv

\* The vehicle that is let through could pass at that time.
LEMMA AuthorizedPasses ==
    ASSUME IInv, NEW plate, Authorized(plate)
    PROVE  plate = Car /\ Passable(database)
<1>1. vehicle \in VehicleRows /\ vehicle.plan \in Timetables /\ moment \in Nat
  BY DecisionAssumption DEF IInv, TypeOK, Framed, Authorized, VehicleRows
<1>2. Allowed(vehicle.plan, moment)
  BY <1>1, Windows DEF Authorized
<1> QED BY <1>2 DEF Authorized, Passable, database

\* One decision, whatever it is.
LEMMA DecideKeeps ==
    ASSUME IInv, NEW i \in DOMAIN batch, NEW outcome \in Outcomes, Decide(i, outcome),
           outcome = APG => /\ Authorized(batch[i].plate) /\ mode # "maintenance"
                            /\ \A j \in DOMAIN batch : batch[j].outcome # APG
    PROVE  IInv'
<1>1. /\ batch' = [batch EXCEPT ![i].outcome = outcome]
      /\ pc' \in {"decide", "camera", "record"}
      /\ pc' = "record" => Pending(batch') = {}
  BY DEF Decide, Onward
<1>2. batch \in [DOMAIN batch -> Rows] /\ \A j \in DOMAIN batch : batch[j].gate = "none"
  BY DEF IInv, Framed, Decide
<1>3. /\ DOMAIN batch' = DOMAIN batch /\ batch'[i] \in Rows
      /\ batch'[i].outcome = outcome /\ batch'[i].plate = batch[i].plate /\ batch'[i].gate = "none"
      /\ \A j \in DOMAIN batch \ {i} : batch'[j] = batch[j]
  BY <1>1, <1>2 DEF Rows
<1>4. pc = "decide" /\ raised = FALSE /\ moved = {} /\ target = Nothing /\ database \in since
  BY NotYetMoved DEF Decide, IInv, TypeOK, Framed
<1>5. UNCHANGED <<mode, vehicle, gates, rules, since, moment, target, raised, moved>> /\ database' = database
  BY DEF Decide, Working, database
<1>6. Framed'
  <2>1. batch' \in [DOMAIN batch' -> Rows] /\ \A j \in DOMAIN batch' : batch'[j].gate = "none"
    BY <1>1, <1>2, <1>3
  <2> QED BY <1>1, <1>4, <1>5, <2>1 DEF IInv, Framed, Places
<1>7. TypeOK'
  <2>1. Stored'
    <3>1. Stored
      BY Parts DEF IInv
    <3> QED BY <1>5, <3>1 DEF Stored, Storable
  <2>2. Shape'
    BY <1>1, <1>2, <1>3, <1>4, <1>5 DEF Shape
  <2>3. (Framed => (TypeOK <=> Stored /\ Shape))'
    BY Parts, PTL
  <2> QED BY <1>6, <2>1, <2>2, <2>3
<1>8. Evidence'
  <2>1. ASSUME NEW j \in DOMAIN batch', batch'[j].outcome = APG
        PROVE  /\ batch'[j].plate = Car /\ mode # "maintenance"
               /\ \E db \in since : Passable(db)
    <3>1. CASE j = i
      BY <1>3, <1>4, <2>1, <3>1, AuthorizedPasses
    <3>2. CASE j # i
      BY <1>3, <2>1, <3>2 DEF IInv, Evidence
    <3> QED BY <3>1, <3>2
  <2> QED BY <1>1, <1>5, <2>1 DEF Evidence, Passable
<1>9. OneGoes'
  <2>1. \A j, k \in DOMAIN batch' : batch'[j].outcome = APG /\ batch'[k].outcome = APG => j = k
    BY <1>3 DEF IInv, OneGoes
  <2> QED BY <1>1, <1>4, <1>5, <2>1 DEF OneGoes
<1>10. Justified' /\ Audited'
  BY <1>1, <1>4, <1>5 DEF Justified, Audited
<1> QED BY <1>6, <1>7, <1>8, <1>9, <1>10 DEF IInv
-----------------------------------------------------------------------------
(* The way to the gate.                                                      *)

\* The one decision that goes on.
LEMMA OnlyOne ==
    ASSUME IInv, NEW i \in Pending(batch)
    PROVE  /\ i \in DOMAIN batch /\ batch[i].outcome = APG /\ batch[i].plate = Car /\ mode # "maintenance"
           /\ \A j \in DOMAIN batch : batch[j].outcome = APG => j = i
           /\ \E db \in since : Passable(db)
BY DEF IInv, Evidence, OneGoes, Pending, APG

\* The gate's answer to it, and the gate that may have moved.
LEMMA ResultKeeps ==
    ASSUME IInv, NEW i \in Pending(batch), NEW outcome \in GateOutcomes, Result(i, outcome),
           pc \in {"camera", "rules", "gate", "command"},
           \/ moved' = moved
           \/ /\ pc = "command" /\ outcome \in Sent
              /\ moved' = moved \cup {[index |-> i, gate |-> target.gate]}
    PROVE  IInv'
<1>1. /\ batch' = [batch EXCEPT ![i].gate = outcome] /\ target' = Nothing
      /\ pc' = IF Pending(batch') # {} THEN "camera" ELSE "record"
      /\ UNCHANGED <<mode, vehicle, gates, rules, since, moment, raised>>
  BY DEF Result, Onward, Working, database
<1>2. /\ i \in DOMAIN batch /\ batch[i].outcome = APG /\ batch[i].plate = Car /\ mode # "maintenance"
      /\ \A j \in DOMAIN batch : batch[j].outcome = APG => j = i
      /\ \E db \in since : Passable(db)
  BY OnlyOne
<1>3. outcome # "none" /\ batch \in [DOMAIN batch -> Rows]
  BY DEF GateOutcomes, IInv, Framed
<1>4. /\ DOMAIN batch' = DOMAIN batch /\ batch'[i] \in Rows
      /\ batch'[i].outcome = APG /\ batch'[i].plate = Car /\ batch'[i].gate = outcome
      /\ \A j \in DOMAIN batch \ {i} : batch'[j] = batch[j]
  BY <1>1, <1>2, <1>3 DEF Rows
<1>5. Pending(batch') = {} /\ pc' = "record"
  BY <1>1, <1>2, <1>3, <1>4 DEF Pending, APG
<1>6. raised = FALSE /\ moved = {} /\ database \in since /\ database' = database
  BY <1>1, NotYetMoved DEF IInv, Framed, database
<1>7. Framed'
  <2>1. batch' \in [DOMAIN batch' -> Rows]
    BY <1>1, <1>3, <1>4
  <2> QED BY <1>1, <1>5, <1>6, <2>1 DEF IInv, Framed, Places
<1>8. TypeOK'
  <2>0. Stored /\ Shape
    BY Parts DEF IInv
  <2>1. Stored'
    BY <1>1, <2>0 DEF Stored, Storable
  <2>2. Shape'
    BY <1>1, <1>4, <1>5, <2>0 DEF Shape
  <2>3. (Framed => (TypeOK <=> Stored /\ Shape))'
    BY Parts, PTL
  <2> QED BY <1>7, <2>1, <2>2, <2>3
<1>9. Evidence'
  <2>1. \A j \in DOMAIN batch' : batch'[j].outcome = APG => j = i
    BY <1>2, <1>4
  <2> QED BY <1>1, <1>2, <1>4, <1>5, <2>1 DEF Evidence, Passable
<1>10. OneGoes'
  <2>1. \A j \in DOMAIN batch' : batch'[j].outcome = APG => j = i
    BY <1>2, <1>4
  <2>2. \A c \in moved' : c.index = i /\ outcome \in Sent
    BY <1>6
  <2> QED BY <1>1, <1>2, <1>4, <1>5, <1>6, <2>1, <2>2 DEF OneGoes
<1>11. Justified'
  <2>1. ASSUME NEW c \in moved'
        PROVE  /\ mode = "live" /\ batch'[c.index].plate = Car
               /\ \E db \in since : Passable(db)
               /\ \E db \in since : Leads(db, c.gate)
               /\ \E db \in since : InUse(db, c.gate)
    <3>1. c.index = i /\ c.gate = target.gate /\ pc = "command"
      BY <1>6, <2>1
    <3>2. mode = "live"
      BY <1>2, <3>1 DEF IInv, Evidence, Framed
    <3> QED BY <1>2, <1>4, <3>1, <3>2 DEF IInv, Evidence
  <2>2. mode' = mode /\ since' = since /\ moment' = moment
    BY <1>1
  <2> QED BY <2>1, <2>2 DEF Justified, Passable, Leads, InUse, Sole
<1>12. Audited'
  BY <1>5 DEF Audited
<1> QED BY <1>7, <1>8, <1>9, <1>10, <1>11, <1>12 DEF IInv

\* A step that only asks and goes on.
LEMMA OnwardKeeps ==
    ASSUME IInv, NEW i \in Pending(batch), pc \in {"camera", "rules", "gate"},
           UNCHANGED <<mode, database, edits, since, moment, batch, events, raised, moved>>,
           \/ pc' = "rules" /\ target' = Nothing
           \/ /\ pc' = "gate" /\ target' \in RuleRows /\ Leads(database, target'.gate)
           \/ /\ pc = "gate" /\ pc' = "command" /\ target' = target
              /\ mode # "simulation" /\ InUse(database, target.gate)
    PROVE  IInv'
<1>1. UNCHANGED <<mode, vehicle, gates, rules, since, moment, batch, events, raised, moved>>
  BY DEF database
<1>2. /\ raised = FALSE /\ moved = {} /\ database \in since /\ database' = database
      /\ Nothing \notin RuleRows
  BY NotYetMoved, NothingAssumption DEF IInv, Framed, database
<1>3. Framed'
  BY <1>1, <1>2 DEF IInv, Framed, Places
<1>4. TypeOK'
  <2>0. Stored /\ Shape
    BY Parts DEF IInv
  <2>1. Stored'
    BY <1>1, <2>0 DEF Stored, Storable
  <2>2. Shape'
    BY <1>1, <1>2, <2>0 DEF Shape
  <2>3. (Framed => (TypeOK <=> Stored /\ Shape))'
    BY Parts, PTL
  <2> QED BY <1>3, <2>1, <2>2, <2>3
<1>5. Evidence'
  BY <1>1, <1>2 DEF IInv, Evidence, Passable, Leads, InUse, Sole
<1>6. OneGoes'
  BY <1>1, <1>2 DEF IInv, OneGoes
<1>7. Justified' /\ Audited'
  BY <1>1, <1>2 DEF Justified, Audited
<1> QED BY <1>3, <1>4, <1>5, <1>6, <1>7 DEF IInv

\* The only candidate is the only one of its rank, with none above it.
LEMMA CandidateLeads ==
    ASSUME IInv, NEW r \in Candidates, Candidates = {r}
    PROVE  rules[r] \in RuleRows /\ Leads(database, rules[r].gate)
<1>1. r \in Rules /\ r \in DOMAIN rules /\ rules[r].active
  BY DEF IInv, TypeOK, Candidates, Applicable
<1>2. \A y \in DOMAIN rules : rules[y] \in RuleRows
  BY DEF IInv, TypeOK
<1>3. ASSUME NEW y \in DOMAIN rules \ {r}, rules[y].active
      PROVE  rules[r].camera = Here /\ rules[y].camera = Anywhere
  <2>1. y \in Applicable /\ r \in Applicable
    BY <1>1, <1>2, <1>3 DEF Applicable, RuleRows
  <2>2. y \notin Candidates
    BY <1>3
  <2>3. rules[y].camera # Here /\ {x \in Applicable : rules[x].camera = Here} # {}
    BY <2>1, <2>2 DEF Candidates
  <2>4. rules[r].camera = Here
    BY <2>3 DEF Candidates
  <2> QED BY <1>2, <1>3, <2>3, <2>4 DEF RuleRows
<1>4. Sole(database, r)
  BY <1>1, <1>3 DEF Sole, database
<1> QED BY <1>1, <1>2, <1>4 DEF Leads, database

\* The orchestrator gives up before any gate has moved.
LEMMA RaiseKeeps == IInv /\ Raise => IInv'
<1> SUFFICES ASSUME IInv, Raise PROVE IInv'
  OBVIOUS
<1>1. /\ pc \in {"camera", "rules", "gate", "command"} /\ pc' = "record" /\ raised' = TRUE
      /\ batch' = [i \in DOMAIN batch |-> [batch[i] EXCEPT !.gate = "none"]] /\ target' = Nothing
      /\ UNCHANGED <<mode, vehicle, gates, rules, since, moment, moved>> /\ database' = database
  BY DEF Raise, Working, database
<1>2. batch \in [DOMAIN batch -> Rows] /\ moved = {} /\ database \in since
  BY <1>1, NotYetMoved DEF IInv, Framed
<1>3. /\ DOMAIN batch' = DOMAIN batch /\ batch' \in [DOMAIN batch -> Rows]
      /\ \A i \in DOMAIN batch : /\ batch'[i].plate = batch[i].plate /\ batch'[i].gate = "none"
                                 /\ batch'[i].outcome = batch[i].outcome
  BY <1>1, <1>2 DEF Rows
<1>4. Framed'
  BY <1>1, <1>2, <1>3 DEF IInv, Framed, Places
<1>5. TypeOK'
  <2>0. Stored
    BY Parts DEF IInv
  <2>1. Stored'
    BY <1>1, <2>0 DEF Stored, Storable
  <2>2. Shape'
    BY <1>1, <1>3 DEF Shape
  <2>3. (Framed => (TypeOK <=> Stored /\ Shape))'
    BY Parts, PTL
  <2> QED BY <1>4, <2>1, <2>2, <2>3
<1>6. Evidence'
  BY <1>1, <1>3 DEF IInv, Evidence, Passable
<1>7. OneGoes'
  BY <1>1, <1>2, <1>3 DEF IInv, OneGoes
<1>8. Justified' /\ Audited'
  BY <1>1, <1>2 DEF Justified, Audited
<1> QED BY <1>4, <1>5, <1>6, <1>7, <1>8 DEF IInv
-----------------------------------------------------------------------------
(* What the recorder writes.                                                 *)

LEMMA RecordAudits == IInv /\ Record => Audited'
<1> SUFFICES ASSUME IInv, Record PROVE Audited'
  OBVIOUS
<1> DEFINE results == {batch[i] : i \in {j \in DOMAIN batch : batch[j].gate # "none"}}
           opened  == {d \in results : d.gate \in {"GATE_OPEN_SUCCESS", "GATE_OPEN_FAILED"}}
           denied  == {batch[i] : i \in {j \in DOMAIN batch :
                          /\ \A d \in results : d.plate # batch[j].plate
                          /\ batch[j].outcome # "AUTHORIZED_PENDING_GATE"}}
           GrantedOf(plate) == \E j \in DOMAIN batch : batch[j].plate = plate /\
                                  batch[j].gate \in {"GATE_OPEN_SUCCESS", "SIMULATED_GATE_OPEN"}
<1>1. /\ events' = {<<"PLATE_RECOGNIZED", batch[i].plate>> : i \in DOMAIN batch} \cup
                   {<<"ACCESS_DENIED", d.plate>> : d \in denied} \cup
                   {<<"GATE_OPEN_REQUESTED", d.plate>> : d \in opened} \cup
                   {<<IF Granted(d) THEN "ACCESS_GRANTED" ELSE "ACCESS_DENIED", d.plate>> : d \in results}
      /\ UNCHANGED <<batch, raised, moved>> /\ pc = "record"
  BY DEF Record
<1>2. \A d, e \in results : d = e
  <2>1. \A i, j \in DOMAIN batch : batch[i].gate # "none" /\ batch[j].gate # "none" => i = j
    BY Parts DEF IInv, Shape, OneGoes
  <2> QED BY <2>1
<1>3. \A d \in results : d.gate # "none" /\ \E j \in DOMAIN batch : d = batch[j]
  OBVIOUS
<1>4. ~raised => \A i \in DOMAIN batch : batch[i].outcome = APG => batch[i] \in results
  BY <1>1 DEF IInv, OneGoes, Pending, APG
<1>5. \A plate : GrantedOf(plate) <=> \E d \in results : d.plate = plate /\ Granted(d)
  BY DEF Granted
<1>6. \A d \in denied : \A e \in results : e.plate # d.plate
  OBVIOUS
<1>7. \A i \in DOMAIN batch : (\A d \in results : d.plate # batch[i].plate) /\ batch[i].outcome # APG
                                 => batch[i] \in denied
  BY DEF APG
<1>8. \A c \in moved : batch[c.index] \in opened
  BY DEF IInv, OneGoes, Sent
<1> HIDE DEF results, opened, denied, GrantedOf
<1>9. \A plate : <<"ACCESS_GRANTED", plate>> \in events' <=> \E d \in results : d.plate = plate /\ Granted(d)
  BY <1>1
<1>10. \A plate : <<"ACCESS_DENIED", plate>> \in events' <=>
                    \/ \E d \in denied : d.plate = plate
                    \/ \E d \in results : d.plate = plate /\ ~Granted(d)
  BY <1>1
<1>11. \A d \in opened : <<"GATE_OPEN_REQUESTED", d.plate>> \in events'
  BY <1>1
<1>12. ASSUME NEW i \in DOMAIN batch
       PROVE  LET plate == batch[i].plate
              IN  /\ <<"ACCESS_GRANTED", plate>> \in events' <=> GrantedOf(plate)
                  /\ GrantedOf(plate) => <<"ACCESS_DENIED", plate>> \notin events'
                  /\ ~GrantedOf(plate) /\ ~raised => <<"ACCESS_DENIED", plate>> \in events'
  <2> DEFINE plate == batch[i].plate
  <2>1. <<"ACCESS_GRANTED", plate>> \in events' <=> GrantedOf(plate)
    BY <1>5, <1>9
  <2>2. ASSUME GrantedOf(plate) PROVE <<"ACCESS_DENIED", plate>> \notin events'
    <3>1. PICK d \in results : d.plate = plate /\ Granted(d)
      BY <1>5, <2>2
    <3>2. ~\E e \in denied : e.plate = plate
      BY <1>6, <3>1
    <3>3. ~\E e \in results : e.plate = plate /\ ~Granted(e)
      BY <1>2, <3>1
    <3> QED BY <1>10, <3>2, <3>3
  <2>3. ASSUME ~GrantedOf(plate), ~raised PROVE <<"ACCESS_DENIED", plate>> \in events'
    <3>1. CASE \E d \in results : d.plate = plate
      BY <1>5, <1>10, <2>3, <3>1
    <3>2. CASE \A d \in results : d.plate # plate
      <4>1. batch[i] \in denied
        BY <1>4, <1>7, <2>3, <3>2
      <4> QED BY <1>10, <4>1
    <3> QED BY <3>1, <3>2
  <2> QED BY <2>1, <2>2, <2>3
<1>13. \A c \in moved : <<"GATE_OPEN_REQUESTED", batch[c.index].plate>> \in events'
  BY <1>8, <1>11
<1> QED BY <1>1, <1>12, <1>13 DEF Audited, GrantedOf

\* Beside what it writes, the recorder changes nothing.
LEMMA RecordKeeps == IInv /\ Record => IInv'
<1> SUFFICES ASSUME IInv, Record PROVE IInv'
  OBVIOUS
<1>1. /\ pc = "record" /\ pc' = "done" /\ database' = database
      /\ UNCHANGED <<mode, vehicle, gates, rules, since, moment, batch, target, raised, moved>>
  BY DEF Record, Working, database
<1>2. Framed'
  BY <1>1 DEF IInv, Framed, Places
<1>3. TypeOK'
  <2>0. Stored /\ Shape
    BY Parts DEF IInv
  <2>1. Stored' /\ Shape'
    BY <1>1, <2>0 DEF Stored, Storable, Shape
  <2>2. (Framed => (TypeOK <=> Stored /\ Shape))'
    BY Parts, PTL
  <2> QED BY <1>2, <2>1, <2>2
<1>4. Evidence' /\ OneGoes'
  BY <1>1 DEF IInv, Evidence, OneGoes, Passable, Pending
<1>5. Justified'
  BY <1>1, Steady DEF IInv
<1> QED BY <1>2, <1>3, <1>4, <1>5, RecordAudits DEF IInv
-----------------------------------------------------------------------------
\* Every step of the requests and of the worker.
LEMMA StepKeeps == IInv /\ [Next]_vars => IInv'
<1> SUFFICES ASSUME IInv, [Next]_vars PROVE IInv'
  OBVIOUS
<1>1. CASE Edits
  BY <1>1, EditsKeep
<1>2. CASE Confirm
  BY <1>2, ConfirmKeeps
<1>3. CASE Raise
  BY <1>3, RaiseKeeps
<1>4. CASE Record
  BY <1>4, RecordKeeps
<1>5. ASSUME NEW i \in DOMAIN batch, Deny(i) \/ Block(i) \/ Cool(i) \/ Pend(i) PROVE IInv'
  <2>1. CASE Deny(i)
    BY <2>1, DecideKeeps DEF Deny, Outcomes, APG
  <2>2. CASE Block(i)
    BY <2>2, DecideKeeps DEF Block, Outcomes, APG
  <2>3. CASE Cool(i)
    BY <2>3, DecideKeeps DEF Cool, Outcomes, APG
  <2>4. CASE Pend(i)
    BY <2>4, DecideKeeps DEF Pend, Outcomes, APG
  <2> QED BY <1>5, <2>1, <2>2, <2>3, <2>4
<1>6. ASSUME NEW i \in DOMAIN batch, CameraUnhealthy(i) \/ Unresolved(i) \/ GateDisabled(i) \/ Simulate(i)
      PROVE  IInv'
  <2>1. /\ i \in Pending(batch) /\ pc \in {"camera", "rules", "gate", "command"} /\ moved' = moved
        /\ \E outcome \in GateOutcomes : Result(i, outcome)
    BY <1>6 DEF CameraUnhealthy, Unresolved, GateDisabled, Simulate, GateOutcomes
  <2> QED BY <2>1, ResultKeeps
<1>7. ASSUME NEW i \in DOMAIN batch, NEW accepted \in BOOLEAN, Open(i, accepted) PROVE IInv'
  <2> DEFINE outcome == IF accepted THEN "GATE_OPEN_SUCCESS" ELSE "GATE_OPEN_FAILED"
  <2>1. /\ i \in Pending(batch) /\ pc = "command" /\ Result(i, outcome)
        /\ moved' = moved \/ moved' = moved \cup {[index |-> i, gate |-> target.gate]}
    BY <1>7 DEF Open
  <2>2. outcome \in Sent /\ outcome \in GateOutcomes
    BY DEF Sent, GateOutcomes
  <2> QED BY <2>1, <2>2, ResultKeeps
<1>8. ASSUME NEW i \in DOMAIN batch, CameraConnected(i) PROVE IInv'
  <2>1. /\ i \in Pending(batch) /\ pc = "camera" /\ pc' = "rules" /\ target' = target
        /\ UNCHANGED <<mode, database, edits, since, moment, batch, events, raised, moved>>
    BY <1>8 DEF CameraConnected, Working
  <2>2. target = Nothing
    BY <2>1 DEF IInv, TypeOK
  <2> QED BY <2>1, <2>2, OnwardKeeps
<1>9. ASSUME NEW i \in DOMAIN batch, Resolved(i) PROVE IInv'
  <2>1. /\ i \in Pending(batch) /\ pc = "rules" /\ pc' = "gate"
        /\ UNCHANGED <<mode, database, edits, since, moment, batch, events, raised, moved>>
    BY <1>9 DEF Resolved, Working
  <2>2. PICK r \in Candidates : Candidates = {r} /\ target' = rules[r]
    BY <1>9 DEF Resolved
  <2>3. target' \in RuleRows /\ Leads(database, target'.gate)
    BY <2>2, CandidateLeads
  <2> QED BY <2>1, <2>3, OnwardKeeps
<1>10. ASSUME NEW i \in DOMAIN batch, GateUsable(i) PROVE IInv'
  <2>1. /\ i \in Pending(batch) /\ pc = "gate" /\ pc' = "command" /\ target' = target
        /\ mode # "simulation" /\ InUse(database, target.gate)
        /\ UNCHANGED <<mode, database, edits, since, moment, batch, events, raised, moved>>
    BY <1>10 DEF GateUsable, Working, Usable, InUse, database
  <2> QED BY <2>1, OnwardKeeps
<1>11. CASE UNCHANGED vars
  <2>1. UNCHANGED <<mode, vehicle, gates, rules, pc, since, moment, batch, target, events, raised, moved>>
        /\ database' = database
    BY <1>11 DEF vars, work, database
  <2>2. Framed' /\ Justified' /\ Audited'
    BY <2>1, Steady DEF IInv, Framed, Audited
  <2>3. TypeOK'
    BY <2>1 DEF IInv, TypeOK, Storable
  <2>4. Evidence' /\ OneGoes'
    BY <2>1 DEF IInv, Evidence, OneGoes, Passable, Pending
  <2> QED BY <2>2, <2>3, <2>4 DEF IInv
<1> QED BY <1>1, <1>2, <1>3, <1>4, <1>5, <1>6, <1>7, <1>8, <1>9, <1>10, <1>11 DEF Next, Edits

\* IInv holds in every state.
LEMMA Invariance == Spec => []IInv
BY Begins, StepKeeps, PTL DEF Spec

\* The rows, the decisions and the worker, for every installation.
THEOREM RowsAndDecisions == Spec => []TypeOK
<1>1. IInv => TypeOK
  BY DEF IInv
<1> QED BY <1>1, Invariance, PTL

\* However the database is edited meanwhile and whatever fails: a gate moves only for a
\* vehicle that could pass, along a rule that was the only one of its rank, at a gate in use.
THEOREM OnlyJustified == Spec => []Justified
<1>1. IInv => Justified
  BY DEF IInv
<1> QED BY <1>1, Invariance, PTL

\* However many plates a frame has, and whatever the gate answered: the audit tells one
\* story of each, and no gate has moved without its request in the log.
THEOREM OneStory == Spec => []Audited
<1>1. IInv => Audited
  BY DEF IInv
<1> QED BY <1>1, Invariance, PTL
-----------------------------------------------------------------------------
(* Recognition.                                                              *)

LEMMA Least == ASSUME NEW S, S \subseteq Nat, S # {} PROVE \E n \in S : \A m \in S : n <= m
<1>1. PICK n \in S : \A m \in S : ~ (<<m, n>> \in OpToRel(<, Nat))
  BY NatLessThanWellFounded, WFMin
<1>2. \A m \in S : ~ (m < n)
  BY <1>1 DEF OpToRel
<1> QED BY <1>2

\* What may be matched: tracks of the camera and detections, both finitely many.
Matchable(live, frame) ==
    /\ \E n \in Nat : DOMAIN live \subseteq 1..n
    /\ \E n \in Nat : DOMAIN frame \subseteq 1..n
    /\ \A id \in DOMAIN live : live[id].box \in Int
    /\ \A i \in DOMAIN frame : frame[i].box \in Int

\* A matching of some pairs in which every other pair has lost against a better one.
Greedy(M, S, live, frame) ==
    /\ M \subseteq S
    /\ \A p, q \in M : p[1] = q[1] \/ p[2] = q[2] => p = q
    /\ \A p \in S \ M : \E q \in M : (p[1] = q[1] \/ p[2] = q[2]) /\ Before(q, p, live, frame)

\* There is a best pair.
LEMMA Best ==
    ASSUME NEW c, NEW live, NEW frame, Matchable(live, frame),
           NEW S, S \subseteq Pairs(c, live, frame), S # {}
    PROVE  \E b \in S : \A p \in S : p = b \/ Before(b, p, live, frame)
<1>1. PICK n \in Nat, k \in Nat : DOMAIN live \subseteq 1..n /\ DOMAIN frame \subseteq 1..k
  BY DEF Matchable
<1> DEFINE d(p) == Distance(live[p[1]].box, frame[p[2]].box)
<1>2. \A p \in S : /\ p[1] \in 1..n /\ p[2] \in 1..k /\ p = <<p[1], p[2]>>
                   /\ live[p[1]].box \in Int /\ frame[p[2]].box \in Int
  BY <1>1 DEF Pairs, Matchable
<1>3. \A p \in S : d(p) \in Nat
  BY <1>2 DEF Distance
<1> HIDE DEF d
<1>4. PICK a \in S : \A p \in S : d(a) <= d(p)
  <2> DEFINE D == {d(p) : p \in S}
  <2>1. D \subseteq Nat /\ D # {}
    BY <1>3
  <2>2. PICK m \in D : \A x \in D : m <= x
    BY <2>1, Least
  <2> QED BY <2>2
<1>5. PICK y \in S : d(y) = d(a) /\ \A p \in S : d(p) = d(a) => p[1] <= y[1]
  <2> DEFINE D == {n - p[1] : p \in {q \in S : d(q) = d(a)}}
  <2>1. D \subseteq Nat /\ D # {}
    BY <1>2
  <2>2. PICK m \in D : \A x \in D : m <= x
    BY <2>1, Least
  <2>3. PICK y \in S : d(y) = d(a) /\ m = n - y[1]
    BY <2>2
  <2>4. \A p \in S : d(p) = d(a) => m <= n - p[1]
    BY <2>2
  <2> QED BY <1>2, <2>3, <2>4
<1>6. PICK b \in S : /\ d(b) = d(a) /\ b[1] = y[1]
                     /\ \A p \in S : d(p) = d(a) /\ p[1] = y[1] => p[2] <= b[2]
  <2> DEFINE D == {k - p[2] : p \in {q \in S : d(q) = d(a) /\ q[1] = y[1]}}
  <2>1. D \subseteq Nat /\ D # {}
    BY <1>2, <1>5
  <2>2. PICK m \in D : \A x \in D : m <= x
    BY <2>1, Least
  <2>3. PICK b \in S : d(b) = d(a) /\ b[1] = y[1] /\ m = k - b[2]
    BY <2>2
  <2>4. \A p \in S : d(p) = d(a) /\ p[1] = y[1] => m <= k - p[2]
    BY <2>2
  <2> QED BY <1>2, <2>3, <2>4
<1>7. ASSUME NEW p \in S, p # b PROVE Before(b, p, live, frame)
  <2>1. d(b) <= d(p) /\ d(b) \in Nat /\ d(p) \in Nat
    BY <1>3, <1>4, <1>6
  <2>2. d(b) = d(p) => p[1] <= b[1]
    BY <1>5, <1>6
  <2>3. d(b) = d(p) /\ p[1] = b[1] => p[2] <= b[2]
    BY <1>6
  <2>4. p[1] # b[1] \/ p[2] # b[2]
    BY <1>2, <1>7
  <2>5. \/ d(b) < d(p)
        \/ d(b) = d(p) /\ b[1] > p[1]
        \/ d(b) = d(p) /\ b[1] = p[1] /\ b[2] > p[2]
    BY <1>2, <2>1, <2>2, <2>3, <2>4
  <2> QED BY <2>5 DEF Before, d
<1> QED BY <1>7

\* Whatever the pairs, the greedy assignment is there: take the best pair, and go on
\* with those that do not meet it.
LEMMA GreedyExists ==
    ASSUME NEW c, NEW live, NEW frame, Matchable(live, frame)
    PROVE  \E M : Greedy(M, Pairs(c, live, frame), live, frame)
<1> DEFINE P == Pairs(c, live, frame)
           Bad == {S \in SUBSET P : ~ \E M : Greedy(M, S, live, frame)}
<1>1. IsFiniteSet(P)
  <2>1. PICK n \in Nat, k \in Nat : DOMAIN live \subseteq 1..n /\ DOMAIN frame \subseteq 1..k
    BY DEF Matchable
  <2>2. P \subseteq (1..n) \X (1..k)
    BY <2>1 DEF Pairs
  <2>3. IsFiniteSet((1..n) \X (1..k))
    <3>1. IsFiniteSet(1..n) /\ IsFiniteSet(1..k)
      BY FS_Interval
    <3> QED BY <3>1, FS_Product
  <2> QED BY <2>2, <2>3, FS_Subset
<1> HIDE DEF P
<1>2. ASSUME Bad # {} PROVE FALSE
  <2>1. FiniteSubsetsOf(P) = SUBSET P
    BY <1>1, FS_FiniteSubsetsOfFinite
  <2>2. IsWellFoundedOn(StrictSubsetOrdering(P), SUBSET P)
    BY <2>1, FS_StrictSubsetOrderingWellFounded
  <2>3. Bad \subseteq SUBSET P
    OBVIOUS
  <2>4. PICK S \in Bad : \A T \in Bad : ~ (<<T, S>> \in StrictSubsetOrdering(P))
    BY <1>2, <2>2, <2>3, WFMin
  <2>5. S \subseteq P /\ ~ \E M : Greedy(M, S, live, frame)
    OBVIOUS
  <2>6. S # {}
    <3>1. Greedy({}, {}, live, frame)
      BY DEF Greedy
    <3> QED BY <2>5, <3>1
  <2>7. PICK b \in S : \A p \in S : p = b \/ Before(b, p, live, frame)
    BY <2>5, <2>6, Best DEF P
  <2> DEFINE T == {p \in S : p[1] # b[1] /\ p[2] # b[2]}
  <2>8. T \subseteq P /\ <<T, S>> \in StrictSubsetOrdering(P)
    BY <2>5 DEF StrictSubsetOrdering
  <2>9. PICK M : Greedy(M, T, live, frame)
    BY <2>4, <2>8
  <2>10. Greedy(M \cup {b}, S, live, frame)
    <3>1. M \subseteq S /\ \A q \in M : q[1] # b[1] /\ q[2] # b[2]
      BY <2>9 DEF Greedy
    <3>2. \A p, q \in M \cup {b} : p[1] = q[1] \/ p[2] = q[2] => p = q
      BY <2>9, <3>1 DEF Greedy
    <3>3. ASSUME NEW p \in S \ (M \cup {b})
          PROVE  \E q \in M \cup {b} : (p[1] = q[1] \/ p[2] = q[2]) /\ Before(q, p, live, frame)
      <4>1. CASE p \in T
        BY <2>9, <3>3, <4>1 DEF Greedy
      <4>2. CASE p \notin T
        BY <2>7, <3>3, <4>2
      <4> QED BY <4>1, <4>2
    <3> QED BY <3>1, <3>2, <3>3 DEF Greedy
  <2> QED BY <2>5, <2>10
<1>3. P \notin Bad
  BY <1>2
<1> QED BY <1>3 DEF P

LEMMA AssignmentGreedy ==
    ASSUME NEW c, NEW live, NEW frame, Matchable(live, frame)
    PROVE  Greedy(Assignment(c, live, frame), Pairs(c, live, frame), live, frame)
<1>1. PICK M : Greedy(M, Pairs(c, live, frame), live, frame)
  BY GreedyExists
<1>2. \E N \in SUBSET Pairs(c, live, frame) :
        /\ \A p, q \in N : p[1] = q[1] \/ p[2] = q[2] => p = q
        /\ \A p \in Pairs(c, live, frame) \ N :
              \E q \in N : (p[1] = q[1] \/ p[2] = q[2]) /\ Before(q, p, live, frame)
  BY <1>1 DEF Greedy
<1> QED BY <1>2 DEF Assignment, Greedy
-----------------------------------------------------------------------------
(* The tracks after a frame.                                                 *)

\* However many tracks there were, those that have room fill the table and no more.
LEMMA RoomBound ==
    ASSUME NEW capacity \in Nat \ {0}, NEW T, NEW n \in Nat, DOMAIN T \subseteq 1..n,
           \A x \in DOMAIN T : T[x].seen \in Nat, NEW last
    PROVE  Cardinality(DOMAIN RoomMade(T, last, capacity)) <= capacity
<1> DEFINE others == DOMAIN T \ {last}
           newer(x) == {y \in others : Later(T, y, x)}
           K == {x \in others : Cardinality(newer(x)) < capacity - 1}
<1>1. DOMAIN RoomMade(T, last, capacity) = {last} \cup K
  BY DEF RoomMade, Kept
<1>2. IsFiniteSet(others) /\ IsFiniteSet(K) /\ \A x : IsFiniteSet(newer(x))
  <2>1. IsFiniteSet(1..n)
    BY FS_Interval
  <2>2. IsFiniteSet(others)
    BY <2>1, FS_Subset
  <2>3. K \in SUBSET others /\ \A x : newer(x) \in SUBSET others
    OBVIOUS
  <2> HIDE DEF others, newer, K
  <2> QED BY <2>2, <2>3, FS_Subset
<1>3. \A x \in K : x \in Nat /\ T[x].seen \in Nat
  OBVIOUS
<1>4. Cardinality(K) \in Nat /\ Cardinality(K) <= capacity - 1
  <2>1. CASE K = {}
    <3>1. Cardinality({}) = 0
      BY FS_EmptySet
    <3> HIDE DEF K
    <3> QED BY <2>1, <3>1
  <2>2. CASE K # {}
    <3>1. PICK s \in {T[x].seen : x \in K} : \A r \in {T[x].seen : x \in K} : s <= r
      <4> DEFINE S == {T[x].seen : x \in K}
      <4>1. S \subseteq Nat /\ S # {}
        BY <1>3, <2>2
      <4> HIDE DEF S
      <4>2. \E s \in S : \A r \in S : s <= r
        BY <4>1, Least
      <4> QED BY <4>2 DEF S
    <3>2. PICK x \in K : T[x].seen = s /\ \A y \in K : T[y].seen = s => x <= y
      <4> DEFINE S == {y \in K : T[y].seen = s}
      <4>1. S \subseteq Nat /\ S # {}
        BY <1>3, <3>1
      <4> HIDE DEF S
      <4>2. \E y \in S : \A z \in S : y <= z
        BY <4>1, Least
      <4> QED BY <4>2 DEF S
    <3>3. K \ {x} \subseteq newer(x)
      <4> SUFFICES ASSUME NEW y \in K, y # x PROVE Later(T, y, x)
        OBVIOUS
      <4>1. s <= T[y].seen /\ T[y].seen \in Nat /\ s \in Nat /\ y \in Nat /\ x \in Nat
        BY <1>3, <3>1, <3>2
      <4>2. T[y].seen = s => x <= y
        BY <3>2
      <4> QED BY <3>2, <4>1, <4>2 DEF Later
    <3>4. Cardinality(newer(x)) < capacity - 1 /\ Cardinality(newer(x)) \in Nat
      BY <1>2, <3>2, FS_CardinalityType
    <3>5. Cardinality(K \ {x}) <= Cardinality(newer(x)) /\ Cardinality(K \ {x}) \in Nat
      <4>1. IsFiniteSet(newer(x)) /\ K \ {x} \in SUBSET newer(x)
        BY <1>2, <3>3
      <4> HIDE DEF newer, K
      <4>2. Cardinality(K \ {x}) <= Cardinality(newer(x)) /\ IsFiniteSet(K \ {x})
        BY <4>1, FS_Subset
      <4> QED BY <4>2, FS_CardinalityType
    <3> HIDE DEF newer, K
    <3>6. Cardinality(K \ {x}) = Cardinality(K) - 1 /\ Cardinality(K) \in Nat
      BY <1>2, <3>2, FS_RemoveElement, FS_CardinalityType
    <3> QED BY <3>4, <3>5, <3>6
  <2> QED BY <2>1, <2>2
<1> HIDE DEF K
<1>5. Cardinality(K \cup {last}) <= capacity
  <2>1. IsFiniteSet(K)
    BY <1>2
  <2>2. Cardinality(K \cup {last}) = IF last \in K THEN Cardinality(K) ELSE Cardinality(K) + 1
    BY <2>1, FS_AddElement
  <2>3. Cardinality(K) \in Nat /\ Cardinality(K) <= capacity - 1 /\ capacity \in Nat
    BY <1>4
  <2> QED BY <2>2, <2>3
<1>6. {last} \cup K = K \cup {last}
  OBVIOUS
<1> HIDE DEF others
<1> QED BY <1>1, <1>5, <1>6

\* Where there is room for all nothing has to go.
LEMMA RoomForAll ==
    ASSUME NEW capacity \in Nat \ {0}, NEW T, NEW n \in Nat, DOMAIN T \subseteq 1..n,
           \A x \in DOMAIN T : T[x].seen \in Nat, NEW last \in DOMAIN T,
           Cardinality(DOMAIN T) <= capacity
    PROVE  DOMAIN RoomMade(T, last, capacity) = DOMAIN T
<1> DEFINE others == DOMAIN T \ {last}
           newer(x) == {y \in others : Later(T, y, x)}
<1>1. IsFiniteSet(DOMAIN T) /\ IsFiniteSet(others) /\ Cardinality(others) <= capacity - 1
      /\ Cardinality(others) \in Nat
  <2>1. IsFiniteSet(1..n)
    BY FS_Interval
  <2>2. IsFiniteSet(DOMAIN T)
    BY <2>1, FS_Subset
  <2>3. IsFiniteSet(others) /\ Cardinality(others) = Cardinality(DOMAIN T) - 1 /\ Cardinality(DOMAIN T) \in Nat
    BY <2>2, FS_RemoveElement, FS_CardinalityType
  <2>4. Cardinality(others) \in Nat
    BY <2>3, FS_CardinalityType
  <2> QED BY <2>2, <2>3, <2>4
<1>2. ASSUME NEW x \in others PROVE Cardinality(newer(x)) < capacity - 1
  <2>1. newer(x) \in SUBSET (others \ {x})
    <3>1. ~ Later(T, x, x)
      BY DEF Later
    <3> QED BY <3>1
  <2> HIDE DEF newer, others
  <2>2. IsFiniteSet(others \ {x}) /\ Cardinality(others \ {x}) = Cardinality(others) - 1
    BY <1>1, <1>2, FS_RemoveElement
  <2>3. IsFiniteSet(newer(x)) /\ Cardinality(newer(x)) <= Cardinality(others \ {x})
    BY <2>1, <2>2, FS_Subset
  <2>4. Cardinality(newer(x)) \in Nat
    BY <2>3, FS_CardinalityType
  <2> QED BY <1>1, <2>2, <2>3, <2>4
<1>3. DOMAIN RoomMade(T, last, capacity) = {last} \cup {x \in others : Cardinality(newer(x)) < capacity - 1}
  BY DEF RoomMade, Kept
<1> QED BY <1>2, <1>3

Track == [camera : Cameras, box : Boxes, seen : Times]

\* The tracker's table, whatever installation.
Tracked == /\ site \in Sites /\ nextId \in Nat \ {0}
           /\ DOMAIN tracks \subseteq 1..nextId - 1
           /\ Cardinality(DOMAIN tracks) <= site.capacity
           /\ \A id \in DOMAIN tracks : /\ tracks[id] \in Track
                                        /\ <<tracks[id].camera, tracks[id].box>> \in Spots

\* Calm holds, and each place of a camera has one track.
Apart == Calm /\ \A x, y \in DOMAIN tracks :
                    tracks[x].camera = tracks[y].camera /\ tracks[x].box = tracks[y].box => x = y

LEMMA Frame ==
    ASSUME NEW c \in Cameras, NEW frame \in Frames(c)
    PROVE  /\ \E n \in 0..MaxDetections : DOMAIN frame = 1..n
           /\ \A i \in DOMAIN frame : /\ frame[i].box \in Int /\ frame[i].box \in Boxes
                                      /\ <<c, frame[i].box>> \in Spots
                                      /\ frame[i].text \in Plates \cup {Unreadable}
           /\ \A i, j \in DOMAIN frame : frame[i].box = frame[j].box => i = j
<1> USE RecognitionAssumption
<1>1. PICK n \in 0..MaxDetections : frame \in [1..n -> Views[c]]
  BY DEF Frames
<1>2. \A i, j \in DOMAIN frame : i < j => frame[i].box < frame[j].box
  BY DEF Frames
<1>3. ASSUME NEW i \in 1..n
      PROVE  /\ frame[i].box \in Int /\ frame[i].box \in Boxes /\ <<c, frame[i].box>> \in Spots
             /\ frame[i].text \in Plates \cup {Unreadable}
  <2>1. frame[i] \in Views[c] /\ Views[c] \subseteq [box : Int, text : Plates \cup {Unreadable}]
    BY <1>1
  <2>2. <<c, frame[i].box>> \in Spots
    BY <2>1 DEF Spots
  <2>3. frame[i].box \in Boxes
    BY <2>2 DEF Boxes
  <2> QED BY <2>1, <2>2, <2>3
<1>4. ASSUME NEW i \in 1..n, NEW j \in 1..n, frame[i].box = frame[j].box PROVE i = j
  <2>1. frame[i].box \in Int
    BY <1>3
  <2> QED BY <1>1, <1>2, <1>4, <2>1
<1> QED BY <1>1, <1>3, <1>4

\* The numbers of the new tracks: one for each detection that has no track, in order.
LEMMA Ranks ==
    ASSUME NEW n \in Nat, NEW fresh \in SUBSET (1..n)
    PROVE  /\ IsFiniteSet(fresh) /\ Cardinality(fresh) \in Nat /\ Cardinality(fresh) <= n
           /\ \A i \in fresh : Cardinality({j \in fresh : j < i}) \in 0..Cardinality(fresh) - 1
           /\ \A i, k \in fresh :
                 Cardinality({j \in fresh : j < i}) = Cardinality({j \in fresh : j < k}) => i = k
           /\ \A r \in 0..Cardinality(fresh) - 1 : \E i \in fresh : r = Cardinality({j \in fresh : j < i})
<1> DEFINE below(i) == {j \in fresh : j < i}
           size == Cardinality(fresh)
<1>1. IsFiniteSet(fresh) /\ Cardinality(fresh) \in Nat /\ Cardinality(fresh) <= n
  <2>1. IsFiniteSet(1..n) /\ Cardinality(1..n) = n
    BY FS_Interval
  <2>2. IsFiniteSet(fresh) /\ Cardinality(fresh) <= n
    BY <2>1, FS_Subset
  <2> QED BY <2>2, FS_CardinalityType
<1>2. \A i : below(i) \in SUBSET fresh
  OBVIOUS
<1>3. \A i \in fresh : i \notin below(i)
  OBVIOUS
<1>4. \A i, k \in fresh : i < k => below(i) \subseteq below(k) /\ i \in below(k)
  <2> SUFFICES ASSUME NEW i \in fresh, NEW k \in fresh, i < k
               PROVE  below(i) \subseteq below(k) /\ i \in below(k)
    OBVIOUS
  <2>1. \A j \in fresh : j \in Int
    OBVIOUS
  <2>2. \A j \in fresh : j < i => j < k
    BY <2>1
  <2> QED BY <2>2
<1> HIDE DEF below
<1>5. \A i : IsFiniteSet(below(i)) /\ Cardinality(below(i)) \in Nat
  <2> TAKE i
  <2>1. IsFiniteSet(below(i))
    BY <1>1, <1>2, FS_Subset
  <2> QED BY <2>1, FS_CardinalityType
<1>6. ASSUME NEW i \in fresh, NEW S, IsFiniteSet(S), below(i) \subseteq S, i \in S
      PROVE  Cardinality(below(i)) < Cardinality(S)
  <2>1. below(i) \in SUBSET S /\ below(i) # S
    BY <1>3, <1>6
  <2>2. Cardinality(below(i)) <= Cardinality(S) /\ Cardinality(below(i)) # Cardinality(S)
    BY <1>6, <2>1, FS_Subset
  <2>3. Cardinality(S) \in Nat /\ Cardinality(below(i)) \in Nat
    BY <1>5, <1>6, FS_CardinalityType
  <2> QED BY <2>2, <2>3
<1>7. \A i \in fresh : Cardinality(below(i)) \in 0..size - 1
  <2> TAKE i \in fresh
  <2>1. Cardinality(below(i)) < size
    BY <1>1, <1>2, <1>6
  <2> QED BY <1>1, <1>5, <2>1
<1>8. ASSUME NEW i \in fresh, NEW k \in fresh, Cardinality(below(i)) = Cardinality(below(k)) PROVE i = k
  <2>1. ASSUME i < k PROVE FALSE
    BY <1>4, <1>5, <1>6, <1>8, <2>1
  <2>2. ASSUME k < i PROVE FALSE
    BY <1>4, <1>5, <1>6, <1>8, <2>2
  <2>3. i \in 1..n /\ k \in 1..n
    OBVIOUS
  <2> QED BY <2>1, <2>2, <2>3
<1>9. \A r \in 0..size - 1 : \E i \in fresh : r = Cardinality(below(i))
  <2> DEFINE f == [i \in fresh |-> Cardinality(below(i))]
  <2>1. f \in Injection(fresh, 0..size - 1)
    <3>1. f \in [fresh -> 0..size - 1]
      BY <1>7
    <3>2. \A i, k \in fresh : f[i] = f[k] => i = k
      BY <1>8
    <3> QED BY <3>1, <3>2 DEF Injection, IsInjective
  <2>2. IsFiniteSet(0..size - 1) /\ Cardinality(0..size - 1) = size
    <3>1. \A m \in Nat : IsFiniteSet(0..m - 1) /\ Cardinality(0..m - 1) = m
      <4> TAKE m \in Nat
      <4>1. Cardinality(0..m - 1) = IF 0 > m - 1 THEN 0 ELSE m - 1 - 0 + 1
        BY FS_Interval
      <4> QED BY <4>1, FS_Interval
    <3> QED BY <1>1, <3>1
  <2>3. f \in Surjection(fresh, 0..size - 1)
    BY <2>1, <2>2, FS_Injection
  <2>4. \A r \in 0..size - 1 : \E i \in fresh : f[i] = r
    BY <2>3 DEF Surjection
  <2> QED BY <2>4
<1> QED BY <1>1, <1>7, <1>8, <1>9 DEF below

\* What the tracker does with a frame.
Updated(c, t, frame, U) ==
    /\ U.next \in Nat /\ U.next >= nextId
    /\ \A a \in U.given : a = <<a[1], a[2]>> /\ a[1] \in 1..U.next - 1 /\ a[2] \in DOMAIN frame
    /\ \A a, b \in U.given : a[1] = b[1] \/ a[2] = b[2] => a = b
    /\ \A i \in DOMAIN frame : \E a \in U.given : a[2] = i
    /\ \A a \in U.given : a[1] \in Alive(t) => tracks[a[1]].camera = c
    /\ DOMAIN U.table \subseteq 1..U.next - 1 /\ Cardinality(DOMAIN U.table) <= site.capacity
    /\ \A id \in DOMAIN U.table :
          \/ id \in Alive(t) /\ U.table[id] = tracks[id] /\ \A a \in U.given : a[1] # id
          \/ \E a \in U.given : /\ a[1] = id
                                /\ U.table[id] = [camera |-> c, box |-> frame[a[2]].box, seen |-> t]
    /\ U.given # {} => \E a \in U.given : a[1] \in DOMAIN U.table

\* Where plates stand apart every plate keeps its track, and no track is driven out.
KeepsApart(c, t, frame, U) ==
    /\ DOMAIN U.table = Alive(t) \cup {a[1] : a \in U.given}
    /\ \A id \in Alive(t), i \in DOMAIN frame :
          tracks[id].camera = c /\ tracks[id].box = frame[i].box => <<id, i>> \in U.given
    /\ \A a \in U.given : a[1] \in Alive(t) => tracks[a[1]].box = frame[a[2]].box
    /\ \A x, y \in DOMAIN U.table :
          U.table[x].camera = U.table[y].camera /\ U.table[x].box = U.table[y].box => x = y

LEMMA UpdateFacts ==
    ASSUME Tracked, NEW c \in Cameras, NEW t \in Times, NEW frame \in Frames(c)
    PROVE  /\ Updated(c, t, frame, Update(c, t, frame))
           /\ Apart => KeepsApart(c, t, frame, Update(c, t, frame))
<1> USE RecognitionAssumption
<1> DEFINE live == Kept(tracks, Alive(t))
           found == Assignment(c, live, frame)
           fresh == {i \in DOMAIN frame : \A p \in found : p[2] # i}
           rank(i) == Cardinality({j \in fresh : j < i})
           next == nextId + Cardinality(fresh)
           given == found \cup {<<nextId + Cardinality({j \in fresh : j < i}), i>> : i \in fresh}
           all == [id \in DOMAIN live \cup nextId..next - 1 |->
                      IF \E a \in given : a[1] = id
                      THEN [camera |-> c, box |-> frame[(CHOOSE a \in given : a[1] = id)[2]].box, seen |-> t]
                      ELSE live[id]]
           U == [table |-> IF fresh = {} THEN all ELSE RoomMade(all, next - 1, site.capacity),
                 given |-> given, next |-> next]
<1>1. Update(c, t, frame) = U
  BY DEF Update
<1>2. /\ DOMAIN live = Alive(t) /\ Alive(t) \subseteq DOMAIN tracks /\ Alive(t) \subseteq 1..nextId - 1
      /\ \A id \in Alive(t) : live[id] = tracks[id]
  BY DEF Kept, Alive, Tracked
<1>3. PICK n \in 0..MaxDetections : DOMAIN frame = 1..n
  BY Frame
<1>4. \A i \in DOMAIN frame : frame[i].box \in Int /\ frame[i].box \in Boxes /\ <<c, frame[i].box>> \in Spots
  BY Frame
<1>5. \A id \in DOMAIN tracks : /\ tracks[id].camera \in Cameras /\ tracks[id].box \in Boxes
                                /\ tracks[id].box \in Int /\ tracks[id].seen \in Nat
  <2>1. \A s \in Spots : s[2] \in Int
    BY DEF Spots
  <2>2. \A b \in Boxes : b \in Int
    BY <2>1 DEF Boxes
  <2>3. \A id \in DOMAIN tracks : tracks[id] \in [camera : Cameras, box : Boxes, seen : Times]
    BY DEF Tracked, Track
  <2> QED BY <2>2, <2>3 DEF Times
<1>6. nextId \in Nat \ {0} /\ site.capacity \in Nat \ {0} /\ site.reach \in Nat
  BY DEF Tracked
<1>7. Greedy(found, Pairs(c, live, frame), live, frame)
  <2>1. Matchable(live, frame)
    <3>1. nextId - 1 \in Nat /\ n \in Nat
      BY <1>6
    <3>2. \A id \in DOMAIN live : live[id].box \in Int
      BY <1>2, <1>5
    <3> HIDE DEF live
    <3> QED BY <1>2, <1>3, <1>4, <3>1, <3>2 DEF Matchable
  <2> QED BY <2>1, AssignmentGreedy
<1>8. /\ \A p \in found : /\ p = <<p[1], p[2]>> /\ p[1] \in Alive(t) /\ p[2] \in 1..n
                          /\ tracks[p[1]].camera = c
                          /\ Distance(tracks[p[1]].box, frame[p[2]].box) <= site.reach
      /\ \A p, q \in found : p[1] = q[1] \/ p[2] = q[2] => p = q
  BY <1>2, <1>3, <1>7 DEF Greedy, Pairs
<1> HIDE DEF live
<1>9. fresh \in SUBSET (1..n)
  BY <1>3
<1>10. \A i \in (1..n) \ fresh : \E p \in found : p[2] = i
  BY <1>3
<1>11. \A i \in fresh, p \in found : p[2] # i
  OBVIOUS
<1> HIDE DEF found, fresh
<1>12. /\ IsFiniteSet(fresh) /\ Cardinality(fresh) \in Nat
       /\ \A i \in fresh : rank(i) \in 0..Cardinality(fresh) - 1
       /\ \A i, k \in fresh : rank(i) = rank(k) => i = k
       /\ \A r \in 0..Cardinality(fresh) - 1 : \E i \in fresh : r = rank(i)
  <2>1. n \in Nat
    OBVIOUS
  <2> QED BY <1>9, <2>1, Ranks
<1>13. /\ next = nextId + Cardinality(fresh) /\ next \in Nat /\ next >= nextId
       /\ given = found \cup {<<nextId + rank(i), i>> : i \in fresh}
  BY <1>6, <1>12
<1> HIDE DEF rank, next
<1>14. \A i \in fresh : nextId + rank(i) \in nextId..next - 1
  BY <1>6, <1>12, <1>13
<1>15. \A i, k \in fresh : nextId + rank(i) = nextId + rank(k) => i = k
  BY <1>6, <1>12
<1>16. \A id \in nextId..next - 1 : \E i \in fresh : id = nextId + rank(i)
  <2> TAKE id \in nextId..next - 1
  <2>1. id - nextId \in 0..Cardinality(fresh) - 1
    BY <1>6, <1>12, <1>13
  <2>2. PICK i \in fresh : id - nextId = rank(i)
    BY <1>12, <2>1
  <2>3. rank(i) \in Int
    BY <1>12
  <2> QED BY <1>6, <2>2, <2>3
<1>17. /\ \A a \in given : a = <<a[1], a[2]>> /\ a[1] \in 1..next - 1 /\ a[2] \in 1..n
       /\ \A a \in given : a \in found \/ (a[2] \in fresh /\ a[1] \in nextId..next - 1 /\ a[1] = nextId + rank(a[2]))
  <2> SUFFICES ASSUME NEW a \in given
               PROVE  /\ a = <<a[1], a[2]>> /\ a[1] \in 1..next - 1 /\ a[2] \in 1..n
                      /\ a \in found \/ (a[2] \in fresh /\ a[1] \in nextId..next - 1 /\ a[1] = nextId + rank(a[2]))
    OBVIOUS
  <2>1. CASE a \in found
    BY <1>2, <1>6, <1>8, <1>13, <2>1
  <2>2. CASE a \notin found
    <3>1. PICK i \in fresh : a = <<nextId + rank(i), i>>
      BY <1>13, <2>2
    <3>2. nextId + rank(i) \in 1..next - 1
      BY <1>6, <1>13, <1>14
    <3> QED BY <1>9, <1>14, <3>1, <3>2
  <2> QED BY <2>1, <2>2
<1>18. \A a, b \in given : a[1] = b[1] \/ a[2] = b[2] => a = b
  <2> SUFFICES ASSUME NEW a \in given, NEW b \in given, a[1] = b[1] \/ a[2] = b[2] PROVE a = b
    OBVIOUS
  <2>1. \A p \in found : p[1] \in 1..nextId - 1 /\ p[2] \notin fresh
    BY <1>2, <1>8, <1>11
  <2>2. \A id \in nextId..next - 1 : id \notin 1..nextId - 1
    BY <1>6, <1>13
  <2>3. CASE a \in found
    <3>1. b \in found
      BY <1>17, <2>1, <2>2, <2>3
    <3> QED BY <1>8, <2>3, <3>1
  <2>4. CASE a \notin found
    <3>1. b \notin found
      BY <1>17, <2>1, <2>2, <2>4
    <3>2. a[2] = b[2]
      BY <1>15, <1>17, <2>4, <3>1
    <3> QED BY <1>17, <2>4, <3>1, <3>2
  <2> QED BY <2>3, <2>4
<1>19. \A i \in 1..n : \E a \in given : a[2] = i
  <2> TAKE i \in 1..n
  <2>1. CASE i \in fresh
    <3>1. <<nextId + rank(i), i>> \in given
      BY <1>13, <2>1
    <3> QED BY <3>1
  <2>2. CASE i \notin fresh
    BY <1>10, <1>13, <2>2
  <2> QED BY <2>1, <2>2
<1>20. \A id \in nextId..next - 1 : \E a \in given : a[1] = id
  <2> TAKE id \in nextId..next - 1
  <2>1. PICK i \in fresh : id = nextId + rank(i)
    BY <1>16
  <2>2. <<id, i>> \in given
    BY <1>13, <2>1
  <2> QED BY <2>2
<1> HIDE DEF given
<1>21. DOMAIN all = Alive(t) \cup nextId..next - 1 /\ DOMAIN all \subseteq 1..next - 1
  <2>1. DOMAIN all = Alive(t) \cup nextId..next - 1
    BY <1>2
  <2> HIDE DEF all
  <2> QED BY <1>2, <1>6, <1>13, <2>1
<1>22. \A id \in DOMAIN all :
         \/ id \in Alive(t) /\ all[id] = tracks[id] /\ \A a \in given : a[1] # id
         \/ \E a \in given : a[1] = id /\ all[id] = [camera |-> c, box |-> frame[a[2]].box, seen |-> t]
  <2> TAKE id \in DOMAIN all
  <2>1. CASE \E a \in given : a[1] = id
    <3>1. PICK a \in given : a[1] = id
      BY <2>1
    <3>2. (CHOOSE b \in given : b[1] = id) = a
      BY <1>18, <3>1
    <3> QED BY <2>1, <3>1, <3>2
  <2>2. CASE ~ \E a \in given : a[1] = id
    BY <1>2, <1>20, <1>21, <2>2
  <2> QED BY <2>1, <2>2
<1>23. \A a \in given : a[1] \in DOMAIN all
  BY <1>2, <1>8, <1>17, <1>21
<1>24. \A a \in given : a[1] \in Alive(t) => a \in found
  <2>1. \A id \in nextId..next - 1 : id \notin 1..nextId - 1
    BY <1>6, <1>13
  <2> QED BY <1>2, <1>17, <2>1
<1> HIDE DEF all
<1>25. \A id \in DOMAIN all : /\ all[id] \in [camera : Cameras, box : Boxes, seen : Nat]
                              /\ all[id].seen \in Nat
                              /\ <<all[id].camera, all[id].box>> \in Spots
  <2> TAKE id \in DOMAIN all
  <2>1. t \in Nat
    BY DEF Times
  <2>2. CASE id \in Alive(t) /\ all[id] = tracks[id]
    BY <1>2, <2>2 DEF Tracked, Track, Times
  <2>3. ASSUME NEW a \in given, all[id] = [camera |-> c, box |-> frame[a[2]].box, seen |-> t]
        PROVE  /\ all[id] \in [camera : Cameras, box : Boxes, seen : Nat]
               /\ all[id].seen \in Nat
               /\ <<all[id].camera, all[id].box>> \in Spots
    BY <1>3, <1>4, <1>17, <2>1, <2>3
  <2> QED BY <1>22, <2>2, <2>3
<1>26. fresh # {} => next - 1 \in nextId..next - 1 /\ next - 1 \in DOMAIN all
  <2>1. fresh # {} => Cardinality(fresh) # 0
    BY <1>12, FS_EmptySet
  <2> QED BY <1>6, <1>12, <1>21, <1>13, <2>1
<1>27. fresh = {} => next = nextId /\ DOMAIN all = Alive(t)
  <2>1. fresh = {} => Cardinality(fresh) = 0
    BY FS_EmptySet
  <2>2. fresh = {} => next = nextId
    BY <1>6, <1>13, <2>1
  <2> QED BY <1>6, <1>21, <2>2
<1> DEFINE T == IF fresh = {} THEN all ELSE RoomMade(all, next - 1, site.capacity)
<1>28. /\ DOMAIN T \subseteq DOMAIN all /\ \A id \in DOMAIN T : T[id] = all[id]
       /\ fresh # {} => next - 1 \in DOMAIN T
  BY <1>26 DEF RoomMade, Kept
<1>29. Cardinality(DOMAIN T) <= site.capacity
  <2>1. CASE fresh = {}
    <3>1. IsFiniteSet(DOMAIN tracks) /\ Cardinality(DOMAIN tracks) \in Nat
      <4>1. IsFiniteSet(1..nextId - 1)
        BY <1>6, FS_Interval
      <4>2. IsFiniteSet(DOMAIN tracks)
        BY <4>1, FS_Subset DEF Tracked
      <4> QED BY <4>2, FS_CardinalityType
    <3>2. IsFiniteSet(Alive(t)) /\ Cardinality(Alive(t)) <= Cardinality(DOMAIN tracks)
      BY <1>2, <3>1, FS_Subset
    <3>3. Cardinality(Alive(t)) \in Nat
      BY <3>2, FS_CardinalityType
    <3>4. Cardinality(DOMAIN tracks) <= site.capacity
      BY DEF Tracked
    <3>5. T = all
      BY <2>1
    <3> QED BY <1>6, <1>27, <2>1, <3>1, <3>2, <3>3, <3>4, <3>5
  <2>2. CASE fresh # {}
    <3>1. next - 1 \in Nat /\ T = RoomMade(all, next - 1, site.capacity)
      BY <1>6, <1>13, <1>26, <2>2
    <3>2. Cardinality(DOMAIN RoomMade(all, next - 1, site.capacity)) <= site.capacity
      BY <1>6, <1>21, <1>25, <3>1, RoomBound
    <3> QED BY <3>1, <3>2
  <2> QED BY <2>1, <2>2
<1> HIDE DEF T
<1>30. given # {} => \E a \in given : a[1] \in DOMAIN T
  <2>1. CASE fresh = {}
    BY <1>23, <2>1 DEF T
  <2>2. CASE fresh # {}
    BY <1>20, <1>26, <1>28, <2>2
  <2> QED BY <2>1, <2>2
<1>31. U = [table |-> T, given |-> given, next |-> next]
  BY DEF T
<1> HIDE DEF U
<1>32. U.table = T /\ U.given = given /\ U.next = next
  BY <1>31
<1>33. Updated(c, t, frame, U)
  <2>1. \A a \in given : a[1] \in Alive(t) => tracks[a[1]].camera = c
    BY <1>8, <1>24
  <2>2. DOMAIN T \subseteq 1..next - 1
    BY <1>21, <1>28
  <2>3. \A id \in DOMAIN T :
          \/ id \in Alive(t) /\ T[id] = tracks[id] /\ \A a \in given : a[1] # id
          \/ \E a \in given : a[1] = id /\ T[id] = [camera |-> c, box |-> frame[a[2]].box, seen |-> t]
    BY <1>22, <1>28
  <2> QED BY <1>3, <1>13, <1>17, <1>18, <1>19, <1>29, <1>30, <1>32, <2>1, <2>2, <2>3 DEF Updated
<1>34. ASSUME Apart PROVE KeepsApart(c, t, frame, U)
  <2>1. /\ \A a, b \in Boxes : a # b => Distance(a, b) > site.reach
        /\ Cardinality(Spots) <= site.capacity
        /\ \A x, y \in DOMAIN tracks :
              tracks[x].camera = tracks[y].camera /\ tracks[x].box = tracks[y].box => x = y
    BY <1>6, <1>34, FS_CardinalityType DEF Apart, Calm
  <2>2. \A p \in found : tracks[p[1]].box = frame[p[2]].box
    <3> SUFFICES ASSUME NEW p \in found, tracks[p[1]].box # frame[p[2]].box PROVE FALSE
      OBVIOUS
    <3>1. tracks[p[1]].box \in Boxes /\ frame[p[2]].box \in Boxes
      BY <1>2, <1>3, <1>4, <1>5, <1>8
    <3>2. tracks[p[1]].box \in Int /\ frame[p[2]].box \in Int
      BY <1>2, <1>3, <1>4, <1>5, <1>8
    <3>3. Distance(tracks[p[1]].box, frame[p[2]].box) \in Nat
      BY <3>2 DEF Distance
    <3> QED BY <1>6, <1>8, <2>1, <3>1, <3>3
  <2>3. ASSUME NEW id \in Alive(t), NEW i \in DOMAIN frame,
               tracks[id].camera = c, tracks[id].box = frame[i].box
        PROVE  <<id, i>> \in found
    <3>1. <<id, i>> \in Pairs(c, live, frame)
      <4>1. Distance(tracks[id].box, frame[i].box) = 0
        <5>1. \A x \in Int : Distance(x, x) = 0
          BY DEF Distance
        <5> QED BY <1>4, <2>3, <5>1
      <4> QED BY <1>2, <1>6, <2>3, <4>1 DEF Pairs
    <3>2. CASE <<id, i>> \notin found
      <4>1. PICK q \in found : id = q[1] \/ i = q[2]
        BY <1>7, <3>1, <3>2 DEF Greedy
      <4>2. q[1] \in Alive(t) /\ q[2] \in DOMAIN frame /\ tracks[q[1]].camera = c
            /\ tracks[q[1]].box = frame[q[2]].box /\ q = <<q[1], q[2]>>
        BY <1>3, <1>8, <2>2
      <4>3. CASE id = q[1]
        <5>1. frame[q[2]].box = frame[i].box
          BY <2>3, <4>2, <4>3
        <5>2. q[2] = i
          BY <4>2, <5>1, Frame
        <5> QED BY <3>2, <4>2, <4>3, <5>2
      <4>4. CASE i = q[2]
        <5>1. q[1] = id
          BY <1>2, <2>1, <2>3, <4>2, <4>4
        <5> QED BY <3>2, <4>2, <4>4, <5>1
      <4> QED BY <4>1, <4>3, <4>4
    <3> QED BY <3>2
  <2>4. \A id \in Alive(t), i \in DOMAIN frame :
          tracks[id].camera = c /\ tracks[id].box = frame[i].box => <<id, i>> \in given
    BY <1>13, <2>3 DEF given
  <2>5. ASSUME NEW x \in DOMAIN all, NEW y \in DOMAIN all,
               all[x].camera = all[y].camera, all[x].box = all[y].box
        PROVE  x = y
    <3>1. ASSUME NEW u \in Alive(t), all[u] = tracks[u], \A a \in given : a[1] # u, NEW a \in given,
                 all[u].camera = c, all[u].box = frame[a[2]].box
          PROVE  FALSE
      <4>1. a[2] \in DOMAIN frame
        BY <1>3, <1>17
      <4>2. <<u, a[2]>> \in given
        BY <2>4, <3>1, <4>1
      <4> QED BY <3>1, <4>2
    <3>2. CASE /\ x \in Alive(t) /\ all[x] = tracks[x] /\ \A a \in given : a[1] # x
               /\ y \in Alive(t) /\ all[y] = tracks[y] /\ \A a \in given : a[1] # y
      BY <1>2, <2>1, <2>5, <3>2
    <3>3. ASSUME NEW a \in given, a[1] = x, all[x] = [camera |-> c, box |-> frame[a[2]].box, seen |-> t],
                 NEW b \in given, b[1] = y, all[y] = [camera |-> c, box |-> frame[b[2]].box, seen |-> t]
          PROVE  x = y
      <4>1. frame[a[2]].box = frame[b[2]].box /\ a[2] \in DOMAIN frame /\ b[2] \in DOMAIN frame
        BY <1>3, <1>17, <2>5, <3>3
      <4>2. a[2] = b[2]
        BY <4>1, Frame
      <4> QED BY <1>18, <3>3, <4>2
    <3>4. ASSUME NEW u \in Alive(t), all[u] = tracks[u], \A a \in given : a[1] # u,
                 NEW v \in DOMAIN all, NEW b \in given, all[v] = [camera |-> c, box |-> frame[b[2]].box, seen |-> t],
                 all[u].camera = all[v].camera, all[u].box = all[v].box
          PROVE  FALSE
      BY <3>1, <3>4
    <3> QED BY <1>22, <2>5, <3>2, <3>3, <3>4
  <2>6. IsFiniteSet(DOMAIN all) /\ Cardinality(DOMAIN all) <= site.capacity
    <3> DEFINE f == [x \in DOMAIN all |-> <<all[x].camera, all[x].box>>]
    <3>1. f \in Injection(DOMAIN all, Spots)
      <4>1. f \in [DOMAIN all -> Spots]
        BY <1>25
      <4>2. \A x, y \in DOMAIN all : f[x] = f[y] => x = y
        BY <2>5
      <4> QED BY <4>1, <4>2 DEF Injection, IsInjective
    <3> HIDE DEF f
    <3>2. IsFiniteSet(DOMAIN all) /\ Cardinality(DOMAIN all) <= Cardinality(Spots)
      BY <3>1, FS_Injection
    <3>3. Cardinality(DOMAIN all) \in Nat /\ Cardinality(Spots) \in Nat
      BY <3>2, FS_CardinalityType
    <3> QED BY <1>6, <2>1, <3>2, <3>3
  <2>7. DOMAIN T = DOMAIN all
    <3>1. CASE fresh = {}
      BY <3>1 DEF T
    <3>2. CASE fresh # {}
      <4>1. next - 1 \in Nat /\ next - 1 \in DOMAIN all /\ T = RoomMade(all, next - 1, site.capacity)
        BY <1>6, <1>13, <1>26, <3>2 DEF T
      <4>2. DOMAIN RoomMade(all, next - 1, site.capacity) = DOMAIN all
        BY <1>6, <1>21, <1>25, <2>6, <4>1, RoomForAll
      <4> QED BY <4>1, <4>2
    <3> QED BY <3>1, <3>2
  <2>8. DOMAIN all = Alive(t) \cup {a[1] : a \in given}
    <3>1. \A id \in DOMAIN all : id \in Alive(t) \/ \E a \in given : a[1] = id
      BY <1>22
    <3>2. Alive(t) \subseteq DOMAIN all
      BY <1>21
    <3> QED BY <1>23, <3>1, <3>2
  <2>9. \A a \in given : a[1] \in Alive(t) => tracks[a[1]].box = frame[a[2]].box
    BY <1>24, <2>2
  <2>10. \A x, y \in DOMAIN T : T[x].camera = T[y].camera /\ T[x].box = T[y].box => x = y
    BY <1>28, <2>5, <2>7
  <2> QED BY <1>32, <2>4, <2>7, <2>8, <2>9, <2>10 DEF KeepsApart
<1> QED BY <1>1, <1>33, <1>34
-----------------------------------------------------------------------------
(* The observations of a track.                                              *)

Observation == [plate : Plates, at : Times]

LEMMA ObservationTimes == \A o \in Observation : o.at \in Nat /\ o.at \in Int
BY RecognitionAssumption DEF Observation, Times

\* One after the other, as frames come.
InOrder(s) == \A i, j \in DOMAIN s : i < j => s[i].at < s[j].at

LEMMA RecentFacts ==
    ASSUME NEW s \in Seq(Observation), InOrder(s), NEW t \in Times
    PROVE  /\ Recent(s, t) \in Seq(Observation) /\ Len(Recent(s, t)) <= Len(s) /\ InOrder(Recent(s, t))
           /\ \A i \in DOMAIN Recent(s, t) : /\ Recent(s, t)[i].at >= t - Window
                                             /\ \E j \in DOMAIN s : Recent(s, t)[i] = s[j]
<1> USE RecognitionAssumption
<1> DEFINE n == Len(s)
           gone == {i \in DOMAIN s : s[i].at < t - Window}
<1>1. n \in Nat /\ DOMAIN s = 1..n /\ \A i \in 1..n : s[i] \in Observation /\ s[i].at \in Nat
  <2>1. \A i \in 1..Len(s) : s[i] \in Observation
    OBVIOUS
  <2> QED BY <2>1, ObservationTimes
<1>2. PICK g \in 0..n : gone = 1..g
  <2> DEFINE S == (1..n + 1) \ gone
  <2>1. S \subseteq Nat /\ n + 1 \in S
    BY <1>1
  <2> HIDE DEF S
  <2>2. PICK m \in S : \A k \in S : m <= k
    BY <2>1, Least
  <2>3. m \in 1..n + 1 /\ m \notin gone /\ \A k \in 1..m - 1 : k \in gone
    BY <1>1, <2>2 DEF S
  <2>4. ASSUME NEW k \in gone, m <= k PROVE FALSE
    <3>1. m \in 1..n /\ k \in 1..n /\ m # k
      BY <1>1, <2>3, <2>4
    <3>2. s[m].at < s[k].at /\ s[k].at < t - Window /\ s[m].at \in Nat /\ s[k].at \in Nat /\ t \in Nat /\ Window \in Nat
      BY <1>1, <2>4, <3>1 DEF InOrder, Times
    <3>3. s[m].at < t - Window
      BY <3>2
    <3> QED BY <1>1, <2>3, <3>1, <3>3
  <2>5. \A k \in gone : k \in 1..m - 1
    BY <1>1, <2>3, <2>4
  <2>6. gone = 1..m - 1 /\ m - 1 \in 0..n
    BY <1>1, <2>3, <2>5
  <2> QED BY <2>6
<1>3. Cardinality(gone) = g
  <2>1. Cardinality(1..g) = IF 1 > g THEN 0 ELSE g - 1 + 1
    BY FS_Interval
  <2>2. g \in Nat
    BY <1>1
  <2>3. Cardinality(1..g) = g
    BY <2>1, <2>2
  <2> HIDE DEF gone
  <2> QED BY <1>2, <2>3
<1>4. Recent(s, t) = SubSeq(s, g + 1, n)
  BY <1>3 DEF Recent
<1>5. \A i \in 1..n : i > g => s[i].at >= t - Window
  <2> SUFFICES ASSUME NEW i \in 1..n, i > g PROVE s[i].at >= t - Window
    OBVIOUS
  <2>1. i \notin gone
    BY <1>2
  <2>2. ~ (s[i].at < t - Window)
    BY <1>1, <2>1
  <2> QED BY <1>1, <2>2 DEF Times
<1> HIDE DEF gone
<1>6. /\ Recent(s, t) \in Seq(Observation) /\ Len(Recent(s, t)) = n - g
      /\ \A i \in 1..n - g : Recent(s, t)[i] = s[i + g]
  <2> HIDE DEF n
  <2>1. n \in Int /\ g \in Int /\ g + 1 \in Int /\ g <= n /\ \A i \in g + 1..n : s[i] \in Observation
    BY <1>1
  <2>2. /\ SubSeq(s, g + 1, n) \in Seq(Observation)
        /\ Len(SubSeq(s, g + 1, n)) = IF g + 1 <= n THEN n - (g + 1) + 1 ELSE 0
        /\ \A i \in 1..n - (g + 1) + 1 : SubSeq(s, g + 1, n)[i] = s[g + 1 + i - 1]
    BY <2>1, SubSeqProperties
  <2>3. Len(SubSeq(s, g + 1, n)) = n - g
    BY <2>1, <2>2
  <2>4. \A i \in 1..n - g : SubSeq(s, g + 1, n)[i] = s[i + g]
    <3> TAKE i \in 1..n - g
    <3>1. i \in 1..n - (g + 1) + 1 /\ g + 1 + i - 1 = i + g
      BY <2>1
    <3> QED BY <2>2, <3>1
  <2> QED BY <1>4, <2>2, <2>3, <2>4
<1>7. DOMAIN Recent(s, t) = 1..n - g /\ n - g \in Nat /\ \A i \in 1..n - g : i + g \in 1..n /\ i + g > g
  BY <1>1, <1>6
<1>8. InOrder(Recent(s, t))
  <2> SUFFICES ASSUME NEW i \in 1..n - g, NEW j \in 1..n - g, i < j PROVE s[i + g].at < s[j + g].at
    BY <1>6, <1>7 DEF InOrder
  <2>1. i + g < j + g /\ i + g \in 1..n /\ j + g \in 1..n
    BY <1>7
  <2> QED BY <1>1, <2>1 DEF InOrder
<1>9. Len(Recent(s, t)) <= Len(s)
  BY <1>1, <1>6
<1>10. \A i \in 1..n - g : Recent(s, t)[i].at >= t - Window /\ \E j \in 1..n : Recent(s, t)[i] = s[j]
  <2> TAKE i \in 1..n - g
  <2>1. Recent(s, t)[i] = s[i + g] /\ i + g \in 1..n /\ i + g > g
    BY <1>6, <1>7
  <2>2. s[i + g].at >= t - Window
    BY <1>5, <2>1
  <2> QED BY <2>1, <2>2
<1> QED BY <1>1, <1>6, <1>7, <1>8, <1>9, <1>10

\* What is counted after a reading is this reading and older ones within the window.
LEMMA ObservedFacts ==
    ASSUME NEW s \in Seq(Observation), InOrder(s), Len(s) <= MaxObservations,
           NEW t \in Times, \A i \in DOMAIN s : s[i].at < t, NEW p \in Plates
    PROVE  /\ Observed(s, p, t) \in Seq(Observation) /\ InOrder(Observed(s, p, t))
           /\ Len(Observed(s, p, t)) \in 1..MaxObservations
           /\ \A i \in DOMAIN Observed(s, p, t) :
                 \/ Observed(s, p, t)[i] = [plate |-> p, at |-> t]
                 \/ /\ Observed(s, p, t)[i].at >= t - Window
                    /\ \E j \in DOMAIN s : Observed(s, p, t)[i] = s[j]
<1> USE RecognitionAssumption
<1>1. PICK r \in Seq(Observation) : /\ r = Recent(s, t) /\ Len(r) <= Len(s) /\ InOrder(r)
                                    /\ \A i \in DOMAIN r : /\ r[i].at >= t - Window
                                                           /\ \E j \in DOMAIN s : r[i] = s[j]
  BY RecentFacts
<1> DEFINE o == [plate |-> p, at |-> t]
           all == Append(r, o)
<1>2. /\ o \in Observation /\ all \in Seq(Observation) /\ Len(all) = Len(r) + 1 /\ Len(r) \in Nat
      /\ DOMAIN r = 1..Len(r) /\ DOMAIN all = 1..Len(r) + 1 /\ all[Len(r) + 1] = o
      /\ \A i \in 1..Len(r) : all[i] = r[i]
  BY DEF Observation
<1>3. \A i \in 1..Len(r) : r[i].at < t
  BY <1>1, <1>2
<1>4. InOrder(all)
  <2> SUFFICES ASSUME NEW i \in 1..Len(r) + 1, NEW j \in 1..Len(r) + 1, i < j PROVE all[i].at < all[j].at
    BY <1>2 DEF InOrder
  <2>1. i \in 1..Len(r)
    BY <1>2
  <2>2. CASE j = Len(r) + 1
    BY <1>2, <1>3, <2>1, <2>2
  <2>3. CASE j # Len(r) + 1
    BY <1>1, <1>2, <2>1, <2>3 DEF InOrder
  <2> QED BY <2>2, <2>3
<1>5. \A i \in DOMAIN all : all[i] = o \/ (all[i].at >= t - Window /\ \E j \in DOMAIN s : all[i] = s[j])
  BY <1>1, <1>2
<1>6. Observed(s, p, t) = IF Len(all) > MaxObservations THEN Tail(all) ELSE all
  BY <1>1 DEF Observed
<1> HIDE DEF all, o
<1>7. CASE Len(all) > MaxObservations
  <2>1. /\ Tail(all) \in Seq(Observation) /\ Len(Tail(all)) = Len(r) /\ DOMAIN Tail(all) = 1..Len(r)
        /\ \A i \in 1..Len(r) : Tail(all)[i] = all[i + 1] /\ i + 1 \in DOMAIN all
    BY <1>2
  <2>2. InOrder(Tail(all))
    <3> SUFFICES ASSUME NEW i \in 1..Len(r), NEW j \in 1..Len(r), i < j
                 PROVE  Tail(all)[i].at < Tail(all)[j].at
      BY <2>1 DEF InOrder
    <3>1. i + 1 < j + 1 /\ i + 1 \in DOMAIN all /\ j + 1 \in DOMAIN all
      BY <1>2
    <3> QED BY <1>4, <2>1, <3>1 DEF InOrder
  <2>3. Len(Tail(all)) \in 1..MaxObservations
    BY <1>1, <1>2, <1>7, <2>1
  <2>4. Observed(s, p, t) = Tail(all)
    BY <1>6, <1>7
  <2>5. \A i \in DOMAIN Tail(all) : \/ Tail(all)[i] = o
                                    \/ Tail(all)[i].at >= t - Window /\ \E j \in DOMAIN s : Tail(all)[i] = s[j]
    BY <1>5, <2>1
  <2> QED BY <2>1, <2>2, <2>3, <2>4, <2>5 DEF o
<1>8. CASE ~ (Len(all) > MaxObservations)
  BY <1>2, <1>4, <1>5, <1>6, <1>8 DEF o
<1> QED BY <1>7, <1>8

ReadingsOf(R, c, p) == {r \in R : r.camera = c /\ r.plate = p}

\* Observations at different times are different readings.
LEMMA CountedReadings ==
    ASSUME NEW s \in Seq(Observation), InOrder(s), NEW c, NEW R, IsFiniteSet(R), NEW p,
           \A i \in DOMAIN s : \E r \in R : r.camera = c /\ r.plate = s[i].plate /\ r.at = s[i].at
    PROVE  /\ Count(s, p) \in Nat
           /\ Count(s, p) <= Cardinality(ReadingsOf(R, c, p))
           /\ Cardinality(ReadingsOf(R, c, p)) \in Nat
<1> DEFINE D == {i \in DOMAIN s : s[i].plate = p}
           T == ReadingsOf(R, c, p)
           f == [i \in D |-> CHOOSE r \in R : r.camera = c /\ r.plate = s[i].plate /\ r.at = s[i].at]
<1>1. \A i \in D : f[i] \in R /\ f[i].camera = c /\ f[i].plate = s[i].plate /\ f[i].at = s[i].at
  OBVIOUS
<1>2. \A i, j \in D : f[i] = f[j] => i = j
  <2> SUFFICES ASSUME NEW i \in D, NEW j \in D, f[i] = f[j] PROVE i = j
    OBVIOUS
  <2>1. s[i].at = s[j].at
    BY <1>1
  <2>2. s[i].at \in Nat /\ s[j].at \in Nat /\ i \in Nat /\ j \in Nat
    BY ObservationTimes
  <2>3. ~ (i < j) /\ ~ (j < i)
    BY <2>1, <2>2 DEF InOrder
  <2> QED BY <2>2, <2>3
<1>3. f \in [D -> T]
  BY <1>1 DEF ReadingsOf
<1> HIDE DEF f
<1>4. f \in Injection(D, T)
  BY <1>2, <1>3 DEF Injection, IsInjective
<1>5. IsFiniteSet(T)
  BY FS_Subset DEF ReadingsOf
<1> HIDE DEF D, T
<1>6. IsFiniteSet(D) /\ Cardinality(D) <= Cardinality(T)
  BY <1>4, <1>5, FS_Injection
<1>7. Cardinality(D) \in Nat /\ Cardinality(T) \in Nat
  BY <1>5, <1>6, FS_CardinalityType
<1> QED BY <1>6, <1>7 DEF Count, D, T
-----------------------------------------------------------------------------
(* A frame.                                                                  *)

Active(c, U) == {id \in DOMAIN U.table : U.table[id].camera = c}

\* What process() does with the tracks U that the tracker gives to the detections: the
\* tracks that are asked, and those of them that are sure.
Judged(c, t, frame, U, asked, sure) ==
    LET kept == Remembered(c, DOMAIN votes, Active(c, U))
        done == Remembered(c, completed, Active(c, U))
    IN  /\ sure = {q \in asked : Eligible(q.observations) # {}}
        /\ \A q \in asked : \E a \in U.given :
              /\ q.key = <<c, a[1]>> /\ q.key \notin done /\ q.box = frame[a[2]].box
              /\ frame[a[2]].text # Unreadable
              /\ q.observations = Observed(IF q.key \in kept THEN votes[q.key] ELSE <<>>, frame[a[2]].text, t)
        /\ DOMAIN votes' = (kept \ {q.key : q \in sure}) \cup {q.key : q \in asked \ sure}
        /\ \A k \in DOMAIN votes' :
              IF \E q \in asked \ sure : q.key = k
              THEN \E q \in asked \ sure : q.key = k /\ votes'[k] = q.observations
              ELSE votes'[k] = votes[k]
        /\ completed' = done \cup {q.key : q \in sure}
        /\ confirmed' = {[camera |-> c, track |-> q.key[2], plate |-> Winner(q.observations)] : q \in sure}
        /\ Witness(c, t, frame, {q.box : q \in sure})

LEMMA ProcessJudged ==
    ASSUME NEW c \in Cameras, NEW t \in Times, NEW frame \in Frames(c), Process(c, t, frame)
    PROVE  /\ Captured(c, t) /\ Update(c, t, frame).next <= MaxIds + 1
           /\ tracks' = Update(c, t, frame).table /\ nextId' = Update(c, t, frame).next
           /\ UNCHANGED site
           /\ \E asked, sure : Judged(c, t, frame, Update(c, t, frame), asked, sure)
<1> DEFINE update == Update(c, t, frame)
           done   == Remembered(c, completed, Active(c, update))
           kept   == Remembered(c, DOMAIN votes, Active(c, update))
           seen   == {[key |-> <<c, a[1]>>, detection |-> frame[a[2]]] : a \in update.given}
           asked  == {[key |-> d.key, box |-> d.detection.box, observations |->
                          Observed(IF d.key \in kept THEN votes[d.key] ELSE <<>>, d.detection.text, t)] :
                         d \in {e \in seen : e.detection.text # Unreadable /\ e.key \notin done}}
           sure   == {q \in asked : Eligible(q.observations) # {}}
           unsure == asked \ sure
<1>1. /\ Captured(c, t) /\ update.next <= MaxIds + 1
      /\ tracks' = update.table /\ nextId' = update.next /\ UNCHANGED site
  BY DEF Process
<1>2. /\ votes' = [k \in (kept \ {q.key : q \in sure}) \cup {q.key : q \in unsure} |->
                      IF \E q \in unsure : q.key = k
                      THEN (CHOOSE q \in unsure : q.key = k).observations ELSE votes[k]]
  BY DEF Process, Active
<1>3. completed' = done \cup {q.key : q \in sure}
  BY DEF Process, Active, Marked
<1>4. /\ confirmed' = {[camera |-> c, track |-> q.key[2], plate |-> Winner(q.observations)] : q \in sure}
      /\ Witness(c, t, frame, {q.box : q \in sure})
  BY DEF Process, Active
<1>5. \A q \in asked : \E a \in update.given :
              /\ q.key = <<c, a[1]>> /\ q.key \notin done /\ q.box = frame[a[2]].box
              /\ frame[a[2]].text # Unreadable
              /\ q.observations = Observed(IF q.key \in kept THEN votes[q.key] ELSE <<>>, frame[a[2]].text, t)
  <2> SUFFICES ASSUME NEW q \in asked
               PROVE  \E a \in update.given :
                         /\ q.key = <<c, a[1]>> /\ q.key \notin done /\ q.box = frame[a[2]].box
                         /\ frame[a[2]].text # Unreadable
                         /\ q.observations = Observed(IF q.key \in kept THEN votes[q.key] ELSE <<>>, frame[a[2]].text, t)
    OBVIOUS
  <2> HIDE DEF update, done, kept
  <2>1. PICK d \in seen : /\ d.detection.text # Unreadable /\ d.key \notin done
                          /\ q = [key |-> d.key, box |-> d.detection.box, observations |->
                                     Observed(IF d.key \in kept THEN votes[d.key] ELSE <<>>, d.detection.text, t)]
    OBVIOUS
  <2>2. PICK a \in update.given : d = [key |-> <<c, a[1]>>, detection |-> frame[a[2]]]
    OBVIOUS
  <2> QED BY <2>1, <2>2
<1>6. sure = {q \in asked : Eligible(q.observations) # {}}
  OBVIOUS
<1> HIDE DEF update, done, kept, asked, sure
<1>7. DOMAIN votes' = (kept \ {q.key : q \in sure}) \cup {q.key : q \in asked \ sure}
  BY <1>2
<1>8. \A k \in DOMAIN votes' : IF \E q \in asked \ sure : q.key = k
                               THEN \E q \in asked \ sure : q.key = k /\ votes'[k] = q.observations
                               ELSE votes'[k] = votes[k]
  <2> TAKE k \in DOMAIN votes'
  <2>1. votes'[k] = IF \E q \in unsure : q.key = k
                    THEN (CHOOSE q \in unsure : q.key = k).observations ELSE votes[k]
    BY <1>2
  <2>2. CASE \E q \in unsure : q.key = k
    <3>1. (CHOOSE q \in unsure : q.key = k) \in unsure /\ (CHOOSE q \in unsure : q.key = k).key = k
      BY <2>2
    <3> QED BY <2>1, <2>2, <3>1
  <2>3. CASE ~ \E q \in unsure : q.key = k
    BY <2>1, <2>3
  <2> QED BY <2>2, <2>3
<1>9. Judged(c, t, frame, update, asked, sure)
  BY <1>3, <1>4, <1>5, <1>6, <1>7, <1>8 DEF Judged, kept, done
<1> QED BY <1>1, <1>9 DEF update

\* The tables of RecognitionService, whatever installation.
Voting == /\ clock \in [Cameras -> Times \cup {Never}]
          /\ DOMAIN votes \subseteq Cameras \X (1..nextId - 1)
          /\ completed \subseteq Cameras \X (1..nextId - 1)
          /\ \A k \in DOMAIN votes : /\ votes[k] \in Seq(Observation) /\ InOrder(votes[k])
                                     /\ Len(votes[k]) \in 1..MaxObservations
          /\ DOMAIN votes \cap completed = {}
          /\ \A e \in Cameras : Cardinality(Keys(e)) <= site.capacity + MaxDetections - 1

\* Every observation was read before, and is on record for as long as it may count.
WasRead(e, o) == \E r \in readings : r.camera = e /\ r.plate = o.plate /\ r.at = o.at

Dated == /\ IsFiniteSet(readings)
         /\ \A k \in DOMAIN votes : \A i \in DOMAIN votes[k] :
               /\ votes[k][i].at <= clock[k[1]]
               /\ votes[k][i].at >= clock[k[1]] - Window => WasRead(k[1], votes[k][i])

\* A frame, with what the tracker and the validators make of it.
Judgement(c, t, frame, U, asked, sure) ==
    /\ c \in Cameras /\ t \in Times /\ frame \in Frames(c) /\ Captured(c, t)
    /\ Updated(c, t, frame, U)
    /\ tracks' = U.table /\ nextId' = U.next /\ UNCHANGED site
    /\ Judged(c, t, frame, U, asked, sure)

LEMMA TrackedKeeps ==
    ASSUME Tracked, NEW c, NEW t, NEW frame, NEW U, NEW asked, NEW sure,
           Judgement(c, t, frame, U, asked, sure)
    PROVE  Tracked'
<1> USE RecognitionAssumption
<1>1. /\ c \in Cameras /\ t \in Times /\ frame \in Frames(c)
      /\ U.next \in Nat /\ U.next >= nextId
      /\ \A a \in U.given : a[2] \in DOMAIN frame
      /\ DOMAIN U.table \subseteq 1..U.next - 1 /\ Cardinality(DOMAIN U.table) <= site.capacity
      /\ \A id \in DOMAIN U.table :
            \/ id \in Alive(t) /\ U.table[id] = tracks[id]
            \/ \E a \in U.given : U.table[id] = [camera |-> c, box |-> frame[a[2]].box, seen |-> t]
      /\ tracks' = U.table /\ nextId' = U.next /\ site' = site
  BY DEF Judgement, Updated
<1>2. \A id \in DOMAIN U.table : U.table[id] \in Track /\ <<U.table[id].camera, U.table[id].box>> \in Spots
  <2> TAKE id \in DOMAIN U.table
  <2>1. CASE id \in Alive(t) /\ U.table[id] = tracks[id]
    BY <2>1 DEF Alive, Tracked
  <2>2. ASSUME NEW a \in U.given, U.table[id] = [camera |-> c, box |-> frame[a[2]].box, seen |-> t]
        PROVE  U.table[id] \in Track /\ <<U.table[id].camera, U.table[id].box>> \in Spots
    <3>1. frame[a[2]].box \in Boxes /\ <<c, frame[a[2]].box>> \in Spots
      BY <1>1, Frame
    <3> QED BY <1>1, <2>2, <3>1 DEF Track
  <2> QED BY <1>1, <2>1, <2>2
<1> QED BY <1>1, <1>2 DEF Tracked

\* The validators of the tracks that a frame asks, and the readings on record.
LEMMA AskedFacts ==
    ASSUME Tracked, Voting, Dated, NEW c, NEW t, NEW frame, NEW U, NEW asked, NEW sure,
           Judgement(c, t, frame, U, asked, sure)
    PROVE  /\ \A q \in asked : \E a \in U.given :
                 q.key = <<c, a[1]>> /\ a[1] \in 1..U.next - 1 /\ q.box = frame[a[2]].box
           /\ \A q \in asked : /\ q.observations \in Seq(Observation) /\ InOrder(q.observations)
                               /\ Len(q.observations) \in 1..MaxObservations
                               /\ \A i \in DOMAIN q.observations :
                                     q.observations[i].at <= t /\ WasRead(c, q.observations[i])'
           /\ \A p, q \in asked : p.key = q.key => p.observations = q.observations
           /\ \A e \in Cameras, o \in Observation :
                 WasRead(e, o) /\ (e = c => o.at >= t - Window) => WasRead(e, o)'
<1> USE RecognitionAssumption
<1> DEFINE kept == Remembered(c, DOMAIN votes, Active(c, U))
           prior(k) == IF k \in kept THEN votes[k] ELSE <<>>
<1>1. /\ c \in Cameras /\ t \in Times /\ frame \in Frames(c)
      /\ \A a \in U.given : a = <<a[1], a[2]>> /\ a[1] \in 1..U.next - 1 /\ a[2] \in DOMAIN frame
      /\ \A a, b \in U.given : a[1] = b[1] => a = b
      /\ t > clock[c]
  BY DEF Judgement, Updated, Captured
<1>2. \A q \in asked : \E a \in U.given :
         /\ q.key = <<c, a[1]>> /\ q.box = frame[a[2]].box /\ frame[a[2]].text # Unreadable
         /\ q.observations = Observed(prior(q.key), frame[a[2]].text, t)
  BY DEF Judgement, Judged
<1>3. readings' = {r \in readings : r.camera # c \/ r.at >= t - Window} \cup
                  {[camera |-> c, at |-> t, box |-> frame[i].box, plate |-> frame[i].text] :
                       i \in {j \in DOMAIN frame : frame[j].text # Unreadable}}
  BY DEF Judgement, Judged, Witness
<1>4. t \in Nat /\ clock[c] \in Int /\ Window \in Nat
  BY <1>1 DEF Voting, Times, Never
<1>5. \A e \in Cameras, o \in Observation :
         WasRead(e, o) /\ (e = c => o.at >= t - Window) => WasRead(e, o)'
  <2> SUFFICES ASSUME NEW e \in Cameras, NEW o \in Observation, WasRead(e, o), e = c => o.at >= t - Window
               PROVE  \E r \in readings' : r.camera = e /\ r.plate = o.plate /\ r.at = o.at
    BY DEF WasRead
  <2>1. PICK r \in readings : r.camera = e /\ r.plate = o.plate /\ r.at = o.at
    BY DEF WasRead
  <2>2. r \in readings'
    BY <1>3, <2>1
  <2> QED BY <2>1, <2>2
<1>6. \A k : k[1] = c => /\ prior(k) \in Seq(Observation) /\ InOrder(prior(k)) /\ Len(prior(k)) <= MaxObservations
                         /\ \A j \in DOMAIN prior(k) :
                               /\ prior(k)[j].at < t
                               /\ prior(k)[j].at >= t - Window => WasRead(c, prior(k)[j])
  <2> TAKE k
  <2> HAVE k[1] = c
  <2>1. CASE k \in kept
    <3>1. k \in DOMAIN votes /\ prior(k) = votes[k]
      BY <2>1 DEF Remembered
    <3>2. votes[k] \in Seq(Observation) /\ InOrder(votes[k]) /\ Len(votes[k]) \in 1..MaxObservations
      BY <3>1 DEF Voting
    <3>3. ASSUME NEW j \in DOMAIN votes[k]
          PROVE  votes[k][j].at < t /\ (votes[k][j].at >= t - Window => WasRead(c, votes[k][j]))
      <4>1. /\ votes[k][j].at <= clock[c]
            /\ votes[k][j].at >= clock[c] - Window => WasRead(c, votes[k][j])
        BY <3>1 DEF Dated
      <4>2. votes[k][j] \in Observation
        BY <3>2
      <4>3. votes[k][j].at \in Nat
        BY <4>2, ObservationTimes
      <4> QED BY <1>1, <1>4, <4>1, <4>3
    <3> QED BY <3>1, <3>2, <3>3
  <2>2. CASE k \notin kept
    <3>1. prior(k) = <<>>
      BY <2>2
    <3>2. <<>> \in Seq(Observation) /\ Len(<<>>) = 0 /\ DOMAIN <<>> = {}
      OBVIOUS
    <3> HIDE DEF prior
    <3> QED BY <3>1, <3>2 DEF InOrder
  <2> QED BY <2>1, <2>2
<1> HIDE DEF prior
<1>7. ASSUME NEW q \in asked
      PROVE  /\ q.observations \in Seq(Observation) /\ InOrder(q.observations)
             /\ Len(q.observations) \in 1..MaxObservations
             /\ \A i \in DOMAIN q.observations :
                   q.observations[i].at <= t /\ WasRead(c, q.observations[i])'
  <2>1. PICK a \in U.given : /\ q.key = <<c, a[1]>> /\ frame[a[2]].text # Unreadable
                             /\ q.observations = Observed(prior(q.key), frame[a[2]].text, t)
    BY <1>2
  <2>2. q.key[1] = c
    BY <2>1
  <2>3. PICK s \in Seq(Observation) :
          /\ s = prior(q.key) /\ InOrder(s) /\ Len(s) <= MaxObservations
          /\ \A j \in DOMAIN s : s[j].at < t /\ (s[j].at >= t - Window => WasRead(c, s[j]))
    BY <1>6, <2>2
  <2>4. PICK p \in Plates : p = frame[a[2]].text
    BY <1>1, <2>1, Frame
  <2>5. PICK o : o = q.observations
    OBVIOUS
  <2>6. o = Observed(s, p, t)
    BY <2>1, <2>3, <2>4, <2>5
  <2>7. /\ o \in Seq(Observation) /\ InOrder(o) /\ Len(o) \in 1..MaxObservations
        /\ \A i \in DOMAIN o : \/ o[i] = [plate |-> p, at |-> t]
                               \/ o[i].at >= t - Window /\ \E j \in DOMAIN s : o[i] = s[j]
    <3>1. \A i \in DOMAIN s : s[i].at < t
      BY <2>3
    <3>2. t \in Times
      BY <1>1
    <3> QED BY <2>3, <2>6, <3>1, <3>2, ObservedFacts
  <2>8. ASSUME NEW i \in DOMAIN o PROVE o[i].at <= t /\ WasRead(c, o[i])'
    <3>1. CASE o[i] = [plate |-> p, at |-> t]
      <4> DEFINE r == [camera |-> c, at |-> t, box |-> frame[a[2]].box, plate |-> frame[a[2]].text]
      <4>1. r \in readings'
        BY <1>1, <1>3, <2>1
      <4>2. r.camera = c /\ r.plate = o[i].plate /\ r.at = o[i].at
        BY <2>4, <3>1
      <4> HIDE DEF r
      <4> QED BY <1>4, <3>1, <4>1, <4>2 DEF WasRead
    <3>2. ASSUME o[i].at >= t - Window, NEW j \in DOMAIN s, o[i] = s[j] PROVE o[i].at <= t /\ WasRead(c, o[i])'
      <4>1. WasRead(c, o[i]) /\ o[i].at < t
        BY <2>3, <3>2
      <4>2. o[i] \in Observation /\ o[i].at \in Nat
        BY <2>7, ObservationTimes
      <4> QED BY <1>1, <1>4, <1>5, <3>2, <4>1, <4>2
    <3> QED BY <2>7, <3>1, <3>2
  <2> QED BY <2>5, <2>7, <2>8
<1>8. \A p, q \in asked : p.key = q.key => p.observations = q.observations
  <2> SUFFICES ASSUME NEW p \in asked, NEW q \in asked, p.key = q.key PROVE p.observations = q.observations
    OBVIOUS
  <2>1. PICK a \in U.given : p.key = <<c, a[1]>> /\ p.observations = Observed(prior(p.key), frame[a[2]].text, t)
    BY <1>2
  <2>2. PICK b \in U.given : q.key = <<c, b[1]>> /\ q.observations = Observed(prior(q.key), frame[b[2]].text, t)
    BY <1>2
  <2>3. <<c, a[1]>> = <<c, b[1]>>
    BY <2>1, <2>2
  <2>4. a[1] = b[1]
    BY <2>3
  <2>5. a = b
    BY <1>1, <2>4
  <2> QED BY <2>1, <2>2, <2>5
<1>9. \A q \in asked : \E a \in U.given : q.key = <<c, a[1]>> /\ a[1] \in 1..U.next - 1 /\ q.box = frame[a[2]].box
  BY <1>1, <1>2
<1> QED BY <1>5, <1>7, <1>8, <1>9

\* What the tables may hold of a camera: its tracks, and those of the frame it has just
\* processed, of which one at least is still there.
LEMMA KeysBound ==
    ASSUME Tracked, NEW c \in Cameras, NEW t \in Times, NEW frame \in Frames(c), NEW U,
           Updated(c, t, frame, U)
    PROVE  /\ IsFiniteSet(Active(c, U) \cup {a[1] : a \in U.given})
           /\ Cardinality(Active(c, U) \cup {a[1] : a \in U.given}) <= site.capacity + MaxDetections - 1
<1> USE RecognitionAssumption
<1> DEFINE A == Active(c, U)
           G == {a[1] : a \in U.given}
<1>1. /\ U.next \in Nat
      /\ \A a \in U.given : a = <<a[1], a[2]>> /\ a[2] \in DOMAIN frame
      /\ \A a, b \in U.given : a[2] = b[2] => a = b
      /\ DOMAIN U.table \subseteq 1..U.next - 1 /\ Cardinality(DOMAIN U.table) <= site.capacity
      /\ \A id \in DOMAIN U.table :
            \/ \A a \in U.given : a[1] # id
            \/ U.table[id].camera = c
      /\ U.given # {} => \E a \in U.given : a[1] \in DOMAIN U.table
  <2>1. \A id \in DOMAIN U.table : (\A a \in U.given : a[1] # id) \/ U.table[id].camera = c
    <3> TAKE id \in DOMAIN U.table
    <3>1. \/ \A a \in U.given : a[1] # id
          \/ \E a \in U.given : U.table[id] = [camera |-> c, box |-> frame[a[2]].box, seen |-> t]
      BY DEF Updated
    <3>2. ASSUME NEW a \in U.given, U.table[id] = [camera |-> c, box |-> frame[a[2]].box, seen |-> t]
          PROVE  U.table[id].camera = c
      BY <3>2
    <3> QED BY <3>1, <3>2
  <2> QED BY <2>1 DEF Updated
<1>2. PICK n \in 0..MaxDetections : DOMAIN frame = 1..n
  BY Frame
<1>3. site.capacity \in Nat \ {0} /\ n \in Nat /\ MaxDetections \in Nat \ {0}
  BY DEF Tracked
<1>4. IsFiniteSet(A) /\ Cardinality(A) \in Nat /\ Cardinality(A) <= site.capacity
  <2>1. IsFiniteSet(1..U.next - 1)
    <3>1. 1 \in Int /\ U.next - 1 \in Int
      BY <1>1
    <3> QED BY <3>1, FS_Interval
  <2>2. IsFiniteSet(DOMAIN U.table)
    BY <1>1, <2>1, FS_Subset
  <2>3. A \subseteq DOMAIN U.table
    BY DEF Active
  <2> HIDE DEF A
  <2>4. IsFiniteSet(A) /\ Cardinality(A) <= Cardinality(DOMAIN U.table)
    BY <2>2, <2>3, FS_Subset
  <2>5. Cardinality(A) \in Nat /\ Cardinality(DOMAIN U.table) \in Nat
    BY <2>2, <2>4, FS_CardinalityType
  <2> QED BY <1>1, <1>3, <2>4, <2>5
<1>5. IsFiniteSet(G) /\ Cardinality(G) \in Nat /\ Cardinality(G) <= MaxDetections
  <2> DEFINE f == [g \in G |-> CHOOSE i \in 1..n : <<g, i>> \in U.given]
  <2>1. \A g \in G : f[g] \in 1..n /\ <<g, f[g]>> \in U.given
    <3> TAKE g \in G
    <3>1. PICK a \in U.given : a[1] = g
      OBVIOUS
    <3>2. a[2] \in 1..n /\ <<g, a[2]>> \in U.given
      BY <1>1, <1>2, <3>1
    <3> QED BY <3>2
  <2>2. f \in [G -> 1..n]
    BY <2>1
  <2> HIDE DEF f
  <2>3. \A g, h \in G : f[g] = f[h] => g = h
    <3> SUFFICES ASSUME NEW g \in G, NEW h \in G, f[g] = f[h] PROVE g = h
      OBVIOUS
    <3>1. <<g, f[g]>> = <<h, f[h]>>
      BY <1>1, <2>1
    <3> QED BY <3>1
  <2> HIDE DEF G
  <2>4. f \in Injection(G, 1..n)
    BY <2>2, <2>3 DEF Injection, IsInjective
  <2>5. IsFiniteSet(1..n) /\ Cardinality(1..n) = n
    BY <1>3, FS_Interval
  <2>6. IsFiniteSet(G) /\ Cardinality(G) <= n
    BY <2>4, <2>5, FS_Injection
  <2>7. Cardinality(G) \in Nat
    BY <2>6, FS_CardinalityType
  <2> QED BY <1>2, <1>3, <2>6, <2>7
<1>6. CASE G = {}
  <2>1. A \cup G = A
    BY <1>6
  <2> HIDE DEF A, G
  <2>2. IsFiniteSet(A \cup G) /\ Cardinality(A \cup G) = Cardinality(A)
    BY <1>4, <2>1
  <2>3. Cardinality(A) <= site.capacity + MaxDetections - 1
    BY <1>3, <1>4
  <2> QED BY <2>2, <2>3 DEF A, G
<1>7. CASE G # {}
  <2>1. PICK a \in U.given : a[1] \in DOMAIN U.table
    BY <1>1, <1>7
  <2>2. a[1] \in A \cap G
    BY <1>1, <2>1 DEF Active
  <2> HIDE DEF A, G
  <2>3. /\ IsFiniteSet(A \cup G) /\ IsFiniteSet(A \cap G)
        /\ Cardinality(A \cup G) = Cardinality(A) + Cardinality(G) - Cardinality(A \cap G)
    BY <1>4, <1>5, FS_Union, FS_Intersection
  <2>4. Cardinality(A \cap G) \in Nat /\ Cardinality(A \cap G) # 0
    BY <2>2, <2>3, FS_CardinalityType, FS_EmptySet
  <2>5. Cardinality(A \cup G) <= site.capacity + MaxDetections - 1
    BY <1>3, <1>4, <1>5, <2>3, <2>4
  <2> QED BY <2>3, <2>5 DEF A, G
<1> QED BY <1>6, <1>7

LEMMA VotingKeeps ==
    ASSUME Tracked, Voting, Dated, NEW c, NEW t, NEW frame, NEW U, NEW asked, NEW sure,
           Judgement(c, t, frame, U, asked, sure)
    PROVE  Voting'
<1> USE RecognitionAssumption
<1> DEFINE kept == Remembered(c, DOMAIN votes, Active(c, U))
           done == Remembered(c, completed, Active(c, U))
           S == {q.key : q \in sure}
           N == {q.key : q \in asked \ sure}
           G == {a[1] : a \in U.given}
<1>1. /\ c \in Cameras /\ t \in Times /\ frame \in Frames(c) /\ Updated(c, t, frame, U)
      /\ U.next \in Nat /\ U.next >= nextId
      /\ nextId' = U.next /\ site' = site /\ clock' = [clock EXCEPT ![c] = t]
  BY DEF Judgement, Updated, Captured
<1>2. /\ DOMAIN votes' = (kept \ S) \cup N /\ completed' = done \cup S
      /\ sure = {q \in asked : Eligible(q.observations) # {}}
      /\ \A q \in asked : q.key \notin done
      /\ \A k \in DOMAIN votes' : IF \E q \in asked \ sure : q.key = k
                                  THEN \E q \in asked \ sure : q.key = k /\ votes'[k] = q.observations
                                  ELSE votes'[k] = votes[k]
  BY DEF Judgement, Judged
<1>3. /\ kept \subseteq DOMAIN votes /\ done \subseteq completed
      /\ \A k \in kept \cup done : k[1] # c \/ k[2] \in Active(c, U)
      /\ \A k \in DOMAIN votes : k[1] # c => k \in kept
      /\ \A k \in completed : k[1] # c => k \in done
  BY DEF Remembered
<1>4. \A q \in asked : \E a \in U.given : q.key = <<c, a[1]>> /\ a[1] \in 1..U.next - 1
  BY AskedFacts
<1>5. \A q \in asked : /\ q.observations \in Seq(Observation) /\ InOrder(q.observations)
                       /\ Len(q.observations) \in 1..MaxObservations
  BY AskedFacts
<1>6. \A p, q \in asked : p.key = q.key => p.observations = q.observations
  BY AskedFacts
<1>7. \A k \in S \cup N : /\ k = <<c, k[2]>> /\ k[1] = c /\ k[2] \in G
                          /\ k \in Cameras \X (1..U.next - 1) /\ k \notin done
  <2> TAKE k \in S \cup N
  <2>1. PICK q \in asked : k = q.key
    BY <1>2
  <2>2. PICK a \in U.given : k = <<c, a[1]>> /\ a[1] \in 1..U.next - 1
    BY <1>4, <2>1
  <2>3. k \notin done
    BY <1>2, <2>1
  <2> HIDE DEF done
  <2> QED BY <1>1, <2>2, <2>3
<1>8. S \cap N = {}
  <2> SUFFICES ASSUME NEW p \in sure, NEW q \in asked \ sure, p.key = q.key PROVE FALSE
    OBVIOUS
  <2>1. p \in asked /\ Eligible(p.observations) # {} /\ Eligible(q.observations) = {}
    BY <1>2
  <2> QED BY <1>6, <2>1
<1> HIDE DEF S, kept, done
<1>9. Cameras \X (1..nextId - 1) \subseteq Cameras \X (1..U.next - 1)
  <2>1. nextId \in Nat /\ U.next \in Nat /\ nextId <= U.next
    BY <1>1 DEF Tracked
  <2>2. 1..nextId - 1 \subseteq 1..U.next - 1
    BY <2>1
  <2> QED BY <2>2
<1>10. /\ DOMAIN votes' \subseteq Cameras \X (1..U.next - 1)
       /\ completed' \subseteq Cameras \X (1..U.next - 1)
  <2>1. DOMAIN votes \subseteq Cameras \X (1..U.next - 1) /\ completed \subseteq Cameras \X (1..U.next - 1)
    BY <1>9 DEF Voting
  <2> HIDE DEF N, G
  <2> QED BY <1>2, <1>3, <1>7, <2>1
<1>11. ASSUME NEW k \in DOMAIN votes'
       PROVE  votes'[k] \in Seq(Observation) /\ InOrder(votes'[k]) /\ Len(votes'[k]) \in 1..MaxObservations
  <2>1. PICK v : v = votes'[k]
    OBVIOUS
  <2>2. v \in Seq(Observation) /\ InOrder(v) /\ Len(v) \in 1..MaxObservations
    <3>1. CASE k \in N
      <4>1. PICK q \in asked : v = q.observations
        BY <1>2, <2>1, <3>1
      <4> QED BY <1>5, <4>1
    <3>2. CASE k \notin N
      <4>1. ~ \E q \in asked \ sure : q.key = k
        BY <3>2
      <4>2. votes'[k] = votes[k]
        BY <1>2, <4>1
      <4>3. k \in DOMAIN votes
        BY <1>2, <1>3, <3>2
      <4>4. v = votes[k]
        BY <2>1, <4>2
      <4> QED BY <4>3, <4>4 DEF Voting
    <3> QED BY <3>1, <3>2
  <2> QED BY <2>1, <2>2
<1>12. DOMAIN votes' \cap completed' = {}
  <2>1. DOMAIN votes \cap completed = {}
    BY DEF Voting
  <2> HIDE DEF N, G
  <2> QED BY <1>2, <1>3, <1>7, <1>8, <2>1
<1>13. clock' \in [Cameras -> Times \cup {Never}]
  BY <1>1 DEF Voting
<1>14. ASSUME NEW e \in Cameras,
              NEW K, K = {k \in (DOMAIN votes') \cup completed' : k[1] = e}
       PROVE  Cardinality(K) <= site.capacity + MaxDetections - 1
  <2>1. CASE e # c
    <3>1. K = Keys(e)
      <4> HIDE DEF N, G
      <4>1. \A k \in K : k \in Keys(e)
        BY <1>2, <1>3, <1>7, <1>14, <2>1 DEF Keys
      <4>2. \A k \in Keys(e) : k \in K
        BY <1>2, <1>3, <1>7, <1>14, <2>1 DEF Keys
      <4> QED BY <4>1, <4>2, <1>14 DEF Keys
    <3> QED BY <3>1 DEF Voting
  <2>2. CASE e = c
    <3> DEFINE B == Active(c, U) \cup G
               f == [k \in K |-> k[2]]
    <3>1. \A k \in K : k = <<c, k[2]>> /\ k[2] \in B
      <4> TAKE k \in K
      <4>1. k[1] = c /\ k \in (DOMAIN votes') \cup completed'
        BY <1>14, <2>2
      <4>2. k = <<c, k[2]>>
        BY <1>10, <4>1
      <4> HIDE DEF N, G
      <4> QED BY <1>2, <1>3, <1>7, <4>1, <4>2
    <3>2. /\ IsFiniteSet(B) /\ Cardinality(B) <= site.capacity + MaxDetections - 1
      BY <1>1, KeysBound
    <3> HIDE DEF B
    <3>3. f \in [K -> B]
      BY <3>1
    <3>4. \A k, l \in K : f[k] = f[l] => k = l
      BY <3>1
    <3> HIDE DEF f
    <3>5. f \in Injection(K, B)
      BY <3>3, <3>4 DEF Injection, IsInjective
    <3>6. IsFiniteSet(K) /\ Cardinality(K) <= Cardinality(B)
      BY <3>2, <3>5, FS_Injection
    <3>7. Cardinality(K) \in Nat /\ Cardinality(B) \in Nat /\ site.capacity + MaxDetections - 1 \in Int
      BY <3>2, <3>6, FS_CardinalityType DEF Tracked
    <3> QED BY <3>2, <3>6, <3>7
  <2> QED BY <2>1, <2>2
<1>15. \A e \in Cameras : Cardinality(Keys(e)') <= site'.capacity + MaxDetections - 1
  <2> TAKE e \in Cameras
  <2>1. PICK K : K = {k \in (DOMAIN votes') \cup completed' : k[1] = e}
    OBVIOUS
  <2>2. Cardinality(K) <= site.capacity + MaxDetections - 1
    BY <1>14, <2>1
  <2> QED BY <1>1, <2>1, <2>2 DEF Keys
<1> QED BY <1>1, <1>10, <1>11, <1>12, <1>13, <1>15 DEF Voting

LEMMA DatedKeeps ==
    ASSUME Tracked, Voting, Dated, NEW c, NEW t, NEW frame, NEW U, NEW asked, NEW sure,
           Judgement(c, t, frame, U, asked, sure)
    PROVE  Dated'
<1> USE RecognitionAssumption
<1>1. /\ c \in Cameras /\ t \in Times /\ frame \in Frames(c) /\ t > clock[c]
      /\ clock' = [clock EXCEPT ![c] = t]
      /\ readings' = {r \in readings : r.camera # c \/ r.at >= t - Window} \cup
                     {[camera |-> c, at |-> t, box |-> frame[i].box, plate |-> frame[i].text] :
                          i \in {j \in DOMAIN frame : frame[j].text # Unreadable}}
  BY DEF Judgement, Judged, Witness, Captured
<1>2. DOMAIN votes' \subseteq DOMAIN votes \cup {q.key : q \in asked \ sure}
  BY DEF Judgement, Judged, Remembered
<1>3. \A k \in DOMAIN votes' : IF \E q \in asked \ sure : q.key = k
                               THEN \E q \in asked \ sure : q.key = k /\ votes'[k] = q.observations
                               ELSE votes'[k] = votes[k]
  BY DEF Judgement, Judged
<1>4. \A q \in asked : \E a \in U.given : q.key = <<c, a[1]>>
  BY AskedFacts
<1>5. \A q \in asked : \A i \in DOMAIN q.observations :
         q.observations[i].at <= t /\ WasRead(c, q.observations[i])'
  BY AskedFacts
<1>6. \A e \in Cameras, o \in Observation :
         WasRead(e, o) /\ (e = c => o.at >= t - Window) => WasRead(e, o)'
  BY AskedFacts
<1>7. /\ t \in Nat /\ Window \in Nat /\ clock'[c] = t
      /\ \A e \in Cameras : clock[e] \in Int /\ (e # c => clock'[e] = clock[e])
  BY <1>1 DEF Voting, Times, Never
<1>8. IsFiniteSet(readings')
  <2> DEFINE R == {r \in readings : r.camera # c \/ r.at >= t - Window}
             D == {j \in DOMAIN frame : frame[j].text # Unreadable}
             f == [i \in D |-> [camera |-> c, at |-> t, box |-> frame[i].box, plate |-> frame[i].text]]
             F == {f[i] : i \in D}
  <2>1. readings' = R \cup F
    BY <1>1
  <2>2. IsFiniteSet(R)
    BY FS_Subset DEF Dated
  <2>3. PICK n \in 0..MaxDetections : DOMAIN frame = 1..n
    BY <1>1, Frame
  <2>4. IsFiniteSet(1..n)
    BY <2>3, FS_Interval
  <2>5. D \in SUBSET (1..n)
    BY <2>3
  <2> HIDE DEF R, D
  <2>6. IsFiniteSet(D)
    BY <2>4, <2>5, FS_Subset
  <2>7. f \in Surjection(D, F)
    BY DEF Surjection
  <2> HIDE DEF f, F
  <2>8. IsFiniteSet(F)
    BY <2>6, <2>7, FS_Surjection
  <2> QED BY <2>1, <2>2, <2>8, FS_Union
<1>9. ASSUME NEW k \in DOMAIN votes', NEW v, v = votes'[k], NEW i \in DOMAIN v, NEW o, o = v[i]
      PROVE  o.at <= clock'[k[1]] /\ (o.at >= clock'[k[1]] - Window => WasRead(k[1], o)')
  <2>1. CASE \E q \in asked \ sure : q.key = k
    <3>1. PICK q \in asked : k = q.key /\ v = q.observations
      BY <1>3, <1>9, <2>1
    <3>2. k[1] = c
      BY <1>4, <3>1
    <3>3. o.at <= t /\ WasRead(c, o)'
      BY <1>5, <1>9, <3>1
    <3> QED BY <1>7, <3>2, <3>3
  <2>2. CASE ~ \E q \in asked \ sure : q.key = k
    <3>1. v = votes[k] /\ k \in DOMAIN votes
      <4>1. v = votes[k]
        BY <1>3, <1>9, <2>2
      <4>2. k \in DOMAIN votes
        BY <1>2, <2>2
      <4> QED BY <4>1, <4>2
    <3>2. PICK e \in Cameras : e = k[1]
      BY <3>1 DEF Voting
    <3>3. v \in Seq(Observation)
      BY <3>1 DEF Voting
    <3>4. o \in Observation
      BY <1>9, <3>3
    <3>5. o.at \in Int
      BY <3>4, ObservationTimes
    <3>6. o.at <= clock[e] /\ (o.at >= clock[e] - Window => WasRead(e, o))
      BY <1>9, <3>1, <3>2 DEF Dated
    <3>7. CASE e = c
      <4>1. o.at <= t /\ (o.at >= t - Window => o.at >= clock[c] - Window)
        BY <1>1, <1>7, <3>5, <3>6, <3>7
      <4>2. o.at >= t - Window => WasRead(e, o)'
        BY <1>6, <3>4, <3>6, <3>7, <4>1
      <4> QED BY <1>7, <3>2, <3>7, <4>1, <4>2
    <3>8. CASE e # c
      <4>1. clock'[e] = clock[e]
        BY <1>7, <3>8
      <4>2. o.at >= clock[e] - Window => WasRead(e, o)'
        BY <1>6, <3>4, <3>6, <3>8
      <4> QED BY <3>2, <3>6, <4>1, <4>2
    <3> QED BY <3>7, <3>8
  <2> QED BY <2>1, <2>2
<1>10. \A k \in DOMAIN votes' : \A i \in DOMAIN votes'[k] :
          /\ votes'[k][i].at <= clock'[k[1]]
          /\ votes'[k][i].at >= clock'[k[1]] - Window => WasRead(k[1], votes[k][i])'
  <2> TAKE k \in DOMAIN votes'
  <2> TAKE i \in DOMAIN votes'[k]
  <2>1. PICK v : v = votes'[k]
    OBVIOUS
  <2>2. PICK o : o = v[i]
    OBVIOUS
  <2>3. o.at <= clock'[k[1]] /\ (o.at >= clock'[k[1]] - Window => WasRead(k[1], o)')
    BY <1>9, <2>1, <2>2
  <2> QED BY <2>1, <2>2, <2>3 DEF WasRead
<1> QED BY <1>8, <1>10 DEF Dated

\* Among plates with enough readings there is one with the most.
LEMMA WinnerEligible ==
    ASSUME NEW s \in Seq(Observation), Eligible(s) # {}
    PROVE  Winner(s) \in Eligible(s)
<1> USE RecognitionAssumption
<1>1. ASSUME NEW p PROVE Count(s, p) \in 0..Len(s)
  <2> DEFINE D == {i \in DOMAIN s : s[i].plate = p}
  <2>1. IsFiniteSet(1..Len(s)) /\ Cardinality(1..Len(s)) = Len(s) /\ DOMAIN s = 1..Len(s) /\ Len(s) \in Nat
    <3>1. Len(s) \in Nat /\ DOMAIN s = 1..Len(s)
      OBVIOUS
    <3>2. IsFiniteSet(1..Len(s)) /\ Cardinality(1..Len(s)) = IF 1 > Len(s) THEN 0 ELSE Len(s) - 1 + 1
      BY <3>1, FS_Interval
    <3> QED BY <3>1, <3>2
  <2>2. D \in SUBSET (1..Len(s))
    BY <2>1
  <2> HIDE DEF D
  <2>3. IsFiniteSet(D) /\ Cardinality(D) <= Len(s)
    <3>1. IsFiniteSet(1..Len(s))
      BY <2>1
    <3>2. IsFiniteSet(D) /\ Cardinality(D) <= Cardinality(1..Len(s))
      BY <2>2, <3>1, FS_Subset
    <3> QED BY <2>1, <3>2
  <2>4. Cardinality(D) \in Nat
    BY <2>3, FS_CardinalityType
  <2> QED BY <2>1, <2>3, <2>4 DEF D, Count
<1> DEFINE left(p) == Len(s) - Count(s, p)
           L == {left(p) : p \in Eligible(s)}
<1>2. \A p \in Eligible(s) : left(p) \in Nat /\ Count(s, p) \in Nat /\ Len(s) \in Nat
  BY <1>1
<1>3. L \subseteq Nat /\ L # {}
  BY <1>2
<1> HIDE DEF L
<1>4. PICK n \in L : \A m \in L : n <= m
  BY <1>3, Least
<1>5. PICK p \in Eligible(s) : n = left(p)
  BY DEF L
<1>6. \A q \in Eligible(s) : Count(s, q) <= Count(s, p)
  <2> TAKE q \in Eligible(s)
  <2>1. n <= left(q)
    BY <1>4 DEF L
  <2> QED BY <1>2, <1>5, <2>1
<1> QED BY <1>6 DEF Winner

\* What is decided on a frame has been read as often as required.
LEMMA VotedNext ==
    ASSUME Tracked, Voting, Dated, NEW c, NEW t, NEW frame, NEW U, NEW asked, NEW sure,
           Judgement(c, t, frame, U, asked, sure)
    PROVE  Voted'
<1> USE RecognitionAssumption
<1>1. PICK R : R = readings'
  OBVIOUS
<1>2. IsFiniteSet(R)
  BY <1>1, DatedKeeps DEF Dated
<1>3. confirmed' = {[camera |-> c, track |-> q.key[2], plate |-> Winner(q.observations)] : q \in sure}
  BY DEF Judgement, Judged
<1>4. \A q \in sure : /\ q.observations \in Seq(Observation) /\ InOrder(q.observations)
                      /\ Eligible(q.observations) # {}
                      /\ \A i \in DOMAIN q.observations : WasRead(c, q.observations[i])'
  <2>1. \A q \in sure : q \in asked /\ Eligible(q.observations) # {}
    BY DEF Judgement, Judged
  <2> QED BY <2>1, AskedFacts
<1>5. ASSUME NEW d \in confirmed'
      PROVE  Cardinality({r \in R : r.camera = d.camera /\ r.plate = d.plate}) >= Required
  <2>1. PICK q \in sure : d.camera = c /\ d.plate = Winner(q.observations)
    BY <1>3
  <2>2. PICK s \in Seq(Observation) : s = q.observations /\ InOrder(s) /\ Eligible(s) # {}
                                      /\ \A i \in DOMAIN s : WasRead(c, s[i])'
    BY <1>4
  <2>3. Winner(s) \in Eligible(s)
    BY <2>2, WinnerEligible
  <2>4. PICK p : p = d.plate /\ Count(s, p) >= Required
    BY <2>1, <2>2, <2>3 DEF Eligible
  <2>5. \A i \in DOMAIN s : \E r \in R : r.camera = c /\ r.plate = s[i].plate /\ r.at = s[i].at
    BY <1>1, <2>2 DEF WasRead
  <2>6. /\ Count(s, p) \in Nat
        /\ Count(s, p) <= Cardinality(ReadingsOf(R, c, p))
        /\ Cardinality(ReadingsOf(R, c, p)) \in Nat
    <3>1. InOrder(s)
      BY <2>2
    <3> QED BY <1>2, <2>5, <3>1, CountedReadings
  <2>7. ReadingsOf(R, c, p) = {r \in R : r.camera = d.camera /\ r.plate = d.plate}
    BY <2>1, <2>4 DEF ReadingsOf
  <2>8. Required \in Nat
    OBVIOUS
  <2>9. Cardinality(ReadingsOf(R, c, p)) >= Required
    BY <2>4, <2>6, <2>8
  <2> QED BY <2>7, <2>9
<1> QED BY <1>1, <1>5 DEF Voted

\* Where plates stand apart, who is decided upon at a place and has not gone still has his
\* track there, and the track is marked.
Decided(s) == \E id \in DOMAIN tracks : /\ tracks[id].camera = s[1] /\ tracks[id].box = s[2]
                                        /\ tracks[id].seen = stays[s].seen /\ <<s[1], id>> \in completed

Gone(s) == \E e \in Cameras : clock[e] - stays[s].seen > MaxIdle

Stays == /\ stays \in [Spots -> [seen : Int, decisions : Nat]]
         /\ \A s \in Spots : stays[s].decisions <= 1 /\ (stays[s].decisions = 0 \/ Decided(s) \/ Gone(s))

LEMMA StaysKeep ==
    ASSUME Tracked, Voting, Apart, Stays, NEW c, NEW t, NEW frame, NEW U, NEW asked, NEW sure,
           Judgement(c, t, frame, U, asked, sure), KeepsApart(c, t, frame, U)
    PROVE  Apart' /\ Stays'
<1> USE RecognitionAssumption
<1>1. /\ c \in Cameras /\ t \in Times /\ frame \in Frames(c) /\ t > clock[c]
      /\ \A e \in Cameras : t + site.skew >= clock[e]
      /\ clock' = [clock EXCEPT ![c] = t]
      /\ tracks' = U.table /\ site' = site
  BY DEF Judgement, Captured
<1>2. /\ \A a \in U.given : a = <<a[1], a[2]>> /\ a[2] \in DOMAIN frame
      /\ \A a, b \in U.given : a[1] = b[1] \/ a[2] = b[2] => a = b
      /\ \A a \in U.given : a[1] \in Alive(t) => tracks[a[1]].camera = c
      /\ \A id \in DOMAIN U.table :
            \/ id \in Alive(t) /\ U.table[id] = tracks[id] /\ \A a \in U.given : a[1] # id
            \/ \E a \in U.given : /\ a[1] = id
                                  /\ U.table[id] = [camera |-> c, box |-> frame[a[2]].box, seen |-> t]
  BY DEF Judgement, Updated
<1>3. /\ \A q \in sure : \E a \in U.given :
            q.key = <<c, a[1]>> /\ q.key \notin Remembered(c, completed, Active(c, U)) /\ q.box = frame[a[2]].box
      /\ completed' = Remembered(c, completed, Active(c, U)) \cup {q.key : q \in sure}
  <2>1. /\ sure \subseteq asked
        /\ \A q \in asked : \E a \in U.given :
              q.key = <<c, a[1]>> /\ q.key \notin Remembered(c, completed, Active(c, U)) /\ q.box = frame[a[2]].box
        /\ completed' = Remembered(c, completed, Active(c, U)) \cup {q.key : q \in sure}
    BY DEF Judgement, Judged
  <2> QED BY <2>1
<1>4. stays' = [s \in Spots |->
          IF \E i \in DOMAIN frame : s = <<c, frame[i].box>>
          THEN [seen |-> t,
                decisions |-> (IF t - stays[s].seen <= MaxIdle THEN stays[s].decisions ELSE 0) +
                              (IF s[2] \in {q.box : q \in sure} THEN 1 ELSE 0)]
          ELSE stays[s]]
  BY DEF Judgement, Judged, Witness
<1>5. /\ DOMAIN U.table = Alive(t) \cup {a[1] : a \in U.given}
      /\ \A id \in Alive(t), i \in DOMAIN frame :
            tracks[id].camera = c /\ tracks[id].box = frame[i].box => <<id, i>> \in U.given
      /\ \A a \in U.given : a[1] \in Alive(t) => tracks[a[1]].box = frame[a[2]].box
      /\ \A x, y \in DOMAIN U.table :
            U.table[x].camera = U.table[y].camera /\ U.table[x].box = U.table[y].box => x = y
  BY DEF KeepsApart
<1>6. Apart'
  BY <1>1, <1>5 DEF Apart, Calm
<1>7. t \in Nat /\ MaxIdle \in Nat /\ \A e \in Cameras : clock[e] \in Int /\ clock'[e] >= clock[e] /\ t >= clock[e]
  <2>1. t \in Nat /\ MaxIdle \in Nat /\ \A e \in Cameras : clock[e] \in Int
    BY <1>1 DEF Voting, Times, Never
  <2>2. site.skew = 0
    BY DEF Apart, Calm
  <2>3. \A e \in Cameras : clock'[e] = IF e = c THEN t ELSE clock[e]
    BY <1>1 DEF Voting
  <2> QED BY <1>1, <2>1, <2>2, <2>3
<1>8. clock'[c] = t
  BY <1>1 DEF Voting
<1>9. \A s \in Spots : s[1] \in Cameras /\ s = <<s[1], s[2]>>
  BY DEF Spots
<1>10. \A a \in U.given : a[1] \in DOMAIN U.table
                          /\ U.table[a[1]] = [camera |-> c, box |-> frame[a[2]].box, seen |-> t]
  <2> TAKE a \in U.given
  <2>1. a[1] \in DOMAIN U.table
    BY <1>5
  <2>2. PICK b \in U.given : b[1] = a[1] /\ U.table[a[1]] = [camera |-> c, box |-> frame[b[2]].box, seen |-> t]
    BY <1>2, <2>1
  <2>3. b = a
    BY <1>2, <2>2
  <2> QED BY <2>1, <2>2, <2>3
<1>11. ASSUME NEW k \in completed, k[1] # c \/ k[2] \in Active(c, U) PROVE k \in completed'
  BY <1>3, <1>11 DEF Remembered
\* A place that the frame shows.
<1>12. ASSUME NEW s \in Spots, NEW i \in DOMAIN frame, s = <<c, frame[i].box>>, NEW S, S = stays'[s]
       PROVE  /\ S \in [seen : Int, decisions : Nat] /\ S.decisions <= 1
              /\ S.decisions = 0 \/ \E id \in DOMAIN tracks' :
                     /\ tracks'[id].camera = s[1] /\ tracks'[id].box = s[2]
                     /\ tracks'[id].seen = S.seen /\ <<s[1], id>> \in completed'
  <2> DEFINE near == t - stays[s].seen <= MaxIdle
             now == s[2] \in {q.box : q \in sure}
  <2>1. S = [seen |-> t, decisions |-> (IF near THEN stays[s].decisions ELSE 0) + (IF now THEN 1 ELSE 0)]
    BY <1>4, <1>12
  <2>2. stays[s].decisions \in {0, 1} /\ stays[s].seen \in Int
    BY DEF Stays
  <2>3. s[1] = c /\ s[2] = frame[i].box
    BY <1>12
  <2>4. ASSUME now
        PROVE  \E a \in U.given : a[2] = i /\ <<c, a[1]>> \in completed'
                                  /\ <<c, a[1]>> \notin Remembered(c, completed, Active(c, U))
    <3>1. PICK q \in sure : q.box = frame[i].box
      BY <2>3, <2>4
    <3>2. PICK a \in U.given : q.key = <<c, a[1]>> /\ q.box = frame[a[2]].box
                               /\ q.key \notin Remembered(c, completed, Active(c, U))
      BY <1>3
    <3>3. a[2] = i
      <4>1. frame[a[2]].box = frame[i].box /\ a[2] \in DOMAIN frame
        BY <1>2, <3>1, <3>2
      <4> QED BY <1>1, <4>1, Frame
    <3>4. q.key \in completed'
      BY <1>3
    <3> QED BY <3>2, <3>3, <3>4
  <2>5. ASSUME NEW a \in U.given, a[2] = i, <<c, a[1]>> \in completed'
        PROVE  \E id \in DOMAIN tracks' : /\ tracks'[id].camera = s[1] /\ tracks'[id].box = s[2]
                                          /\ tracks'[id].seen = t /\ <<s[1], id>> \in completed'
    <3>1. PICK id : id = a[1]
      OBVIOUS
    <3>2. id \in DOMAIN U.table /\ U.table[id] = [camera |-> c, box |-> frame[i].box, seen |-> t]
      BY <1>10, <2>5, <3>1
    <3>3. U.table[id].camera = c /\ U.table[id].box = frame[i].box /\ U.table[id].seen = t
      BY <3>2
    <3> QED BY <1>1, <2>3, <2>5, <3>1, <3>2, <3>3
  <2> HIDE DEF near, now
  <2>6. CASE near /\ stays[s].decisions = 1
    <3>1. ~ Gone(s)
      BY <1>7, <2>2, <2>6 DEF Gone, near
    <3>2. PICK id \in DOMAIN tracks : /\ tracks[id].camera = c /\ tracks[id].box = frame[i].box
                                      /\ tracks[id].seen = stays[s].seen /\ <<c, id>> \in completed
      <4>1. Decided(s)
        BY <2>6, <3>1 DEF Stays
      <4> QED BY <2>3, <4>1 DEF Decided
    <3>3. id \in Alive(t)
      BY <2>6, <3>2 DEF Alive, near
    <3>4. <<id, i>> \in U.given
      BY <1>5, <3>2, <3>3
    <3>5. id \in Active(c, U)
      <4>1. PICK a \in U.given : a = <<id, i>>
        BY <3>4
      <4>2. a[1] = id
        BY <4>1
      <4>3. id \in DOMAIN U.table /\ U.table[id] = [camera |-> c, box |-> frame[a[2]].box, seen |-> t]
        BY <1>10, <4>2
      <4>4. U.table[id].camera = c
        BY <4>3
      <4> QED BY <4>3, <4>4 DEF Active
    <3>6. <<c, id>> \in Remembered(c, completed, Active(c, U))
      BY <3>2, <3>5 DEF Remembered
    <3>7. ~ now
      <4> SUFFICES ASSUME now PROVE FALSE
        OBVIOUS
      <4>1. PICK a \in U.given : a[2] = i /\ <<c, a[1]>> \notin Remembered(c, completed, Active(c, U))
        BY <2>4
      <4>2. PICK b \in U.given : b = <<id, i>>
        BY <3>4
      <4>3. a = b
        BY <1>2, <4>1, <4>2
      <4>4. a[1] = id
        BY <4>2, <4>3
      <4> QED BY <3>6, <4>1, <4>4
    <3>8. S = [seen |-> t, decisions |-> 1]
      BY <2>1, <2>6, <3>7
    <3>9. <<c, id>> \in completed'
      BY <1>3, <3>6
    <3>10. PICK a \in U.given : a = <<id, i>>
      BY <3>4
    <3>11. a[2] = i /\ a[1] = id
      BY <3>10
    <3> QED BY <1>7, <2>5, <3>8, <3>9, <3>11
  <2>7. CASE ~ (near /\ stays[s].decisions = 1)
    <3>1. (IF near THEN stays[s].decisions ELSE 0) = 0
      BY <2>2, <2>7
    <3>2. CASE now
      <4>1. S = [seen |-> t, decisions |-> 1]
        BY <2>1, <3>1, <3>2
      <4>2. PICK a \in U.given : a[2] = i /\ <<c, a[1]>> \in completed'
        BY <2>4, <3>2
      <4> QED BY <1>7, <2>5, <4>1, <4>2
    <3>3. CASE ~ now
      <4>1. S = [seen |-> t, decisions |-> 0]
        BY <2>1, <3>1, <3>3
      <4> QED BY <1>7, <4>1
    <3> QED BY <3>2, <3>3
  <2> QED BY <2>6, <2>7
\* Any other place.
<1>13. ASSUME NEW s \in Spots, \A i \in DOMAIN frame : s # <<c, frame[i].box>>, NEW S, S = stays'[s]
       PROVE  /\ S \in [seen : Int, decisions : Nat] /\ S.decisions <= 1
              /\ \/ S.decisions = 0
                 \/ \E id \in DOMAIN tracks' :
                        /\ tracks'[id].camera = s[1] /\ tracks'[id].box = s[2]
                        /\ tracks'[id].seen = S.seen /\ <<s[1], id>> \in completed'
                 \/ \E e \in Cameras : clock'[e] - S.seen > MaxIdle
  <2>1. S = stays[s]
    BY <1>4, <1>13
  <2>2. /\ S \in [seen : Int, decisions : Nat] /\ S.decisions <= 1 /\ S.seen \in Int
        /\ S.decisions = 0 \/ Decided(s) \/ Gone(s)
    BY <2>1 DEF Stays
  <2>3. CASE Gone(s)
    <3>1. PICK e \in Cameras : clock[e] - S.seen > MaxIdle
      BY <2>1, <2>3 DEF Gone
    <3>2. clock'[e] - S.seen > MaxIdle
      <4>1. PICK n : n = clock'[e]
        OBVIOUS
      <4>2. n \in Int
        BY <1>1, <1>7, <4>1 DEF Voting
      <4> QED BY <1>7, <2>2, <3>1, <4>1, <4>2
    <3> QED BY <2>2, <3>2
  <2>4. CASE Decided(s)
    <3>1. PICK id \in DOMAIN tracks : /\ tracks[id].camera = s[1] /\ tracks[id].box = s[2]
                                      /\ tracks[id].seen = S.seen /\ <<s[1], id>> \in completed
      BY <2>1, <2>4 DEF Decided
    <3>2. CASE id \notin Alive(t)
      <4>1. ~ (t - S.seen <= MaxIdle)
        BY <3>1, <3>2 DEF Alive
      <4>2. clock'[c] - S.seen > MaxIdle
        BY <1>7, <1>8, <2>2, <4>1
      <4> QED BY <1>1, <2>2, <4>2
    <3>3. CASE id \in Alive(t)
      <4>1. \A a \in U.given : a[1] # id
        <5> SUFFICES ASSUME NEW a \in U.given, a[1] = id PROVE FALSE
          OBVIOUS
        <5>1. tracks[id].camera = c /\ tracks[id].box = frame[a[2]].box /\ a[2] \in DOMAIN frame
          BY <1>2, <1>5, <3>3
        <5>2. s = <<c, frame[a[2]].box>>
          BY <1>9, <3>1, <5>1
        <5> QED BY <1>13, <5>1, <5>2
      <4>2. id \in DOMAIN U.table /\ U.table[id] = tracks[id]
        BY <1>2, <1>5, <3>3, <4>1
      <4>3. PICK k \in completed : k = <<s[1], id>>
        BY <3>1
      <4>4. k[1] # c \/ k[2] \in Active(c, U)
        BY <3>1, <4>2, <4>3 DEF Active
      <4>5. <<s[1], id>> \in completed'
        BY <1>11, <4>3, <4>4
      <4> QED BY <1>1, <2>2, <3>1, <4>2, <4>5
    <3> QED BY <3>2, <3>3
  <2> QED BY <2>2, <2>3, <2>4
<1>14. ASSUME NEW s \in Spots
       PROVE  /\ stays'[s] \in [seen : Int, decisions : Nat] /\ stays'[s].decisions <= 1
              /\ \/ stays'[s].decisions = 0
                 \/ \E id \in DOMAIN tracks' :
                        /\ tracks'[id].camera = s[1] /\ tracks'[id].box = s[2]
                        /\ tracks'[id].seen = stays'[s].seen /\ <<s[1], id>> \in completed'
                 \/ \E e \in Cameras : clock'[e] - stays'[s].seen > MaxIdle
  <2>1. PICK S : S = stays'[s]
    OBVIOUS
  <2>2. CASE \E i \in DOMAIN frame : s = <<c, frame[i].box>>
    <3>1. PICK i \in DOMAIN frame : s = <<c, frame[i].box>>
      BY <2>2
    <3> QED BY <1>12, <2>1, <3>1
  <2>3. CASE \A i \in DOMAIN frame : s # <<c, frame[i].box>>
    BY <1>13, <2>1, <2>3
  <2> QED BY <2>2, <2>3
<1>15. stays' \in [Spots -> [seen : Int, decisions : Nat]]
  <2>1. \A s \in Spots : stays'[s] \in [seen : Int, decisions : Nat]
    BY <1>14
  <2>2. PICK S : S = stays'
    OBVIOUS
  <2>3. S = [s \in Spots |-> S[s]]
    BY <1>4, <2>2
  <2> QED BY <2>1, <2>2, <2>3
<1>16. Stays'
  BY <1>14, <1>15 DEF Stays, Decided, Gone
<1> QED BY <1>6, <1>16
-----------------------------------------------------------------------------
(* The service.                                                              *)

RecognitionInv == /\ Tracked /\ Voting /\ Dated
                  /\ nextId \in 1..MaxIds + 1
                  /\ Voted
                  /\ Calm => Apart /\ Stays

LEMMA RecognitionStarts == RecognitionInit => RecognitionInv
<1> USE RecognitionAssumption
<1> SUFFICES ASSUME RecognitionInit PROVE RecognitionInv
  OBVIOUS
<1>1. /\ site \in Sites /\ tracks = <<>> /\ nextId = 1 /\ votes = <<>> /\ completed = {}
      /\ confirmed = {} /\ clock = [e \in Cameras |-> Never] /\ readings = {}
      /\ stays = [s \in Spots |-> [seen |-> Never, decisions |-> 0]]
  BY DEF RecognitionInit
<1>2. DOMAIN tracks = {} /\ DOMAIN votes = {}
  BY <1>1
<1>3. site.capacity \in Nat \ {0} /\ Never \in Int
  BY <1>1 DEF Never
<1>4. Tracked
  <2>1. Cardinality(DOMAIN tracks) = 0
    BY <1>2, FS_EmptySet
  <2> QED BY <1>1, <1>2, <1>3, <2>1 DEF Tracked
<1>5. Voting
  <2>1. ASSUME NEW e \in Cameras PROVE Cardinality(Keys(e)) <= site.capacity + MaxDetections - 1
    <3>1. Keys(e) = {}
      BY <1>1, <1>2 DEF Keys
    <3>2. Cardinality(Keys(e)) = 0
      BY <3>1, FS_EmptySet
    <3> QED BY <1>3, <3>2
  <2> QED BY <1>1, <1>2, <2>1 DEF Voting
<1>6. Dated
  BY <1>1, <1>2, FS_EmptySet DEF Dated
<1>7. nextId \in 1..MaxIds + 1
  BY <1>1
<1>8. Voted
  BY <1>1 DEF Voted
<1>9. Calm => Apart /\ Stays
  BY <1>1, <1>2, <1>3 DEF Apart, Stays
<1> QED BY <1>4, <1>5, <1>6, <1>7, <1>8, <1>9 DEF RecognitionInv

LEMMA RecognitionKeeps == RecognitionInv /\ [RecognitionNext]_recognitionVars => RecognitionInv'
<1> USE RecognitionAssumption
<1> SUFFICES ASSUME RecognitionInv, [RecognitionNext]_recognitionVars PROVE RecognitionInv'
  OBVIOUS
<1>1. /\ Tracked /\ Voting /\ Dated /\ nextId \in 1..MaxIds + 1 /\ Voted
      /\ Calm => Apart /\ Stays
  BY DEF RecognitionInv
<1>2. CASE UNCHANGED recognitionVars
  <2>1. /\ site' = site /\ tracks' = tracks /\ nextId' = nextId /\ votes' = votes
        /\ completed' = completed /\ confirmed' = confirmed /\ clock' = clock
        /\ readings' = readings /\ stays' = stays
    BY <1>2 DEF recognitionVars
  <2>2. Tracked'
    BY <1>1, <2>1 DEF Tracked
  <2>3. Voting'
    BY <1>1, <2>1 DEF Voting, Keys
  <2>4. Dated'
    BY <1>1, <2>1 DEF Dated, WasRead
  <2>5. Voted'
    BY <1>1, <2>1 DEF Voted
  <2>6. Calm' => Calm
    BY <2>1 DEF Calm
  <2>7. Apart => Apart'
    BY <2>1 DEF Apart, Calm
  <2>8. Stays => Stays'
    BY <2>1 DEF Stays, Decided, Gone
  <2> QED BY <1>1, <2>1, <2>2, <2>3, <2>4, <2>5, <2>6, <2>7, <2>8 DEF RecognitionInv
<1>3. ASSUME NEW c \in Cameras, NEW t \in Times, NEW frame \in Frames(c), Process(c, t, frame)
      PROVE  RecognitionInv'
  <2>1. PICK U : U = Update(c, t, frame)
    OBVIOUS
  <2>2. /\ Updated(c, t, frame, U)
        /\ Apart => KeepsApart(c, t, frame, U)
    BY <1>1, <2>1, UpdateFacts
  <2>3. /\ Captured(c, t) /\ U.next <= MaxIds + 1
        /\ tracks' = U.table /\ nextId' = U.next /\ UNCHANGED site
        /\ \E asked, sure : Judged(c, t, frame, U, asked, sure)
    BY <1>3, <2>1, ProcessJudged
  <2>4. PICK asked, sure : Judged(c, t, frame, U, asked, sure)
    BY <2>3
  <2>5. Judgement(c, t, frame, U, asked, sure)
    BY <2>2, <2>3, <2>4 DEF Judgement
  <2>6. Tracked'
    BY <1>1, <2>5, TrackedKeeps
  <2>7. Voting'
    BY <1>1, <2>5, VotingKeeps
  <2>8. Dated'
    BY <1>1, <2>5, DatedKeeps
  <2>9. nextId' \in 1..MaxIds + 1
    <3>1. U.next \in Nat /\ U.next >= nextId
      BY <2>2 DEF Updated
    <3> QED BY <1>1, <2>3, <3>1
  <2>10. Voted'
    BY <1>1, <2>5, VotedNext
  <2>11. ASSUME Calm' PROVE Apart' /\ Stays'
    <3>1. Calm
      BY <2>3, <2>11 DEF Calm
    <3>2. Apart /\ Stays /\ KeepsApart(c, t, frame, U)
      BY <1>1, <2>2, <3>1
    <3> QED BY <1>1, <2>5, <3>2, StaysKeep
  <2> QED BY <2>6, <2>7, <2>8, <2>9, <2>10, <2>11 DEF RecognitionInv
<1> QED BY <1>2, <1>3 DEF RecognitionNext

\* The service's state is well formed, and bounded, at any time: recognition/service.py
\* forgets what the tracker has forgotten.
THEOREM RecognitionTypes == RecognitionSpec => []RecognitionTypeOK
<1>1. RecognitionInv => RecognitionTypeOK
  <2> SUFFICES ASSUME RecognitionInv PROVE RecognitionTypeOK
    OBVIOUS
  <2>1. \A id \in DOMAIN tracks : tracks[id] \in [camera : Cameras, box : Boxes, seen : Times]
    BY DEF RecognitionInv, Tracked, Track
  <2>2. /\ site \in Sites /\ nextId \in 1..MaxIds + 1 /\ DOMAIN tracks \subseteq 1..nextId - 1
        /\ Cardinality(DOMAIN tracks) <= site.capacity
    BY DEF RecognitionInv, Tracked
  <2>3. /\ DOMAIN votes \cap completed = {}
        /\ \A k \in DOMAIN votes : Len(votes[k]) \in 1..MaxObservations
        /\ \A c \in Cameras : Cardinality(Keys(c)) <= site.capacity + MaxDetections - 1
        /\ clock \in [Cameras -> Times \cup {Never}]
    BY DEF RecognitionInv, Voting
  <2> QED BY <2>1, <2>2, <2>3 DEF RecognitionTypeOK
<1> QED BY <1>1, RecognitionStarts, RecognitionKeeps, PTL DEF RecognitionSpec

\* No decision is made on fewer readings than required_confirmations within the window.
THEOREM OnEnoughReadings == RecognitionSpec => []Voted
<1>1. RecognitionInv => Voted
  BY DEF RecognitionInv
<1> QED BY <1>1, RecognitionStarts, RecognitionKeeps, PTL DEF RecognitionSpec

\* A vehicle that stands in view is decided upon once, whatever the number of frames.
THEOREM DecidedOnce == RecognitionSpec => []OncePerStay
<1>1. RecognitionInv => OncePerStay
  BY DEF RecognitionInv, Stays, OncePerStay
<1> QED BY <1>1, RecognitionStarts, RecognitionKeeps, PTL DEF RecognitionSpec
=============================================================================
