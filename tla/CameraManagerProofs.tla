-------------------------- MODULE CameraManagerProofs --------------------------
(* CameraManager for any cameras, requests and bounds: what holds of a camera    *)
(* whose requests come one at a time, whatever the requests for other cameras,   *)
(* the workers and the lifespan do meanwhile.                                    *)
EXTENDS CameraManager, FiniteSetTheorems, TLAPS

Holders == {k \in Cameras : table[k] # None}

\* What a request has in its hand.
Hand(r) ==
    /\ pc[r] = "idle" <=> op[r] = "none"
    /\ pc[r] # "idle" => cam[r] \in Cameras
    /\ pc[r] \in {"signalling", "joining", "giving up", "starting"} =>
         handle[r] # None /\ of[handle[r]] = cam[r]
    /\ pc[r] \in {"installing", "starting", "marking"} => op[r] # "stop"
    /\ pc[r] = "giving up" => cam[r] \in overdue

\* Workers belong to cameras, and the worker of a camera to that one.
Belongs == /\ \A w \in Workers : w <= created => of[w] \in Cameras
           /\ \A k \in Cameras : table[k] # None => of[table[k]] = k
Warned == \A w \in Workers : loop[w] = "leaving" => w \in stopSet

Typed == /\ TypeOK /\ IsFiniteSet(Holders)
         /\ \A r \in Requests : Hand(r)
         /\ Belongs /\ Warned

\* Where the request for camera k stands with the worker in the table.
Stage(r, k) ==
    /\ pc[r] \in {"signalling", "joining", "giving up"} => handle[r] = table[k]
    /\ pc[r] = "removing" => table[k] \notin Alive
    /\ pc[r] \in {"installing", "marking"} => table[k] = None
    /\ pc[r] = "starting" => /\ handle[r] = table[k] /\ table[k] \notin stopSet
                             /\ k \in actives /\ snap[k] # "CONNECTED"
                             /\ loop[table[k]] = "new"

\* What the last answer for camera k says.
Answered(k) == /\ last[k] = "applied" => table[k] \in Alive \ stopSet /\ k \in actives
               /\ last[k] = "stopped" => AliveOf(k) = {}

\* A live worker is the one in the table, and its camera is active; what it has written
\* is its own, and what it is about to write has been announced.
Calm(k) ==
    /\ AliveOf(k) \subseteq {table[k]}
    /\ AliveOf(k) # {} => k \in actives
    /\ snap[k] = "CONNECTED" => table[k] \in Alive
    /\ table[k] # None => source[k] \in {None, table[k]}
    /\ k \notin overdue =>
         /\ told[k] <=> snap[k] = "CONNECTED"
         /\ \A w \in AliveOf(k) : loop[w] = "recording" => snap[k] = "CONNECTED"

InTurn(k) == /\ \A r, s \in Busy(k) : r = s
             /\ \A r \in Busy(k) : Stage(r, k)
             /\ Busy(k) = {} => Answered(k)
             /\ Calm(k)

IInv == Typed /\ \A k \in Cameras \ crowded : InTurn(k)
-----------------------------------------------------------------------------
(* Types.                                                                    *)

\* The numbers of the workers.
LEMMA Numbers ==
    ASSUME created \in 0..MaxWorkers
    PROVE  /\ created \in Nat /\ None \notin Workers /\ None \notin 1..created
           /\ 1..created = {w \in Workers : w <= created}
           /\ 1..created \subseteq Workers
BY CameraAssumption DEF Workers, None

\* A change of state is announced when it enters or leaves CONNECTED, and only then.
LEMMA Shown ==
    ASSUME TypeOK, NEW k \in Cameras, NEW state \in States, Shows(k, state)
    PROVE  /\ snap' \in [Cameras -> States] /\ told' \in [Cameras -> BOOLEAN]
           /\ snap'[k] = state
           /\ (told[k] <=> snap[k] = "CONNECTED") => (told'[k] <=> state = "CONNECTED")
           /\ \A j \in Cameras \ {k} : snap'[j] = snap[j] /\ told'[j] = told[j]
<1> DEFINE new == CASE state = "CONNECTED" /\ snap[k] # "CONNECTED" -> TRUE
                    [] state # "CONNECTED" /\ snap[k] = "CONNECTED" -> FALSE
                    [] OTHER -> told[k]
<1>1. told \in [Cameras -> BOOLEAN] /\ snap \in [Cameras -> States]
  BY DEF TypeOK, ManagerTyped
<1>2. snap' = [snap EXCEPT ![k] = state] /\ told' = [told EXCEPT ![k] = new]
  BY DEF Shows
<1>3. CASE state = "CONNECTED" /\ snap[k] # "CONNECTED"
  <2>1. new = TRUE
    BY <1>3
  <2> HIDE DEF new
  <2> QED BY <1>1, <1>2, <1>3, <2>1
<1>4. CASE state # "CONNECTED" /\ snap[k] = "CONNECTED"
  <2>1. new = FALSE
    BY <1>4
  <2> HIDE DEF new
  <2> QED BY <1>1, <1>2, <1>4, <2>1
<1>5. CASE state = "CONNECTED" <=> snap[k] = "CONNECTED"
  <2>1. new = told[k]
    BY <1>5
  <2> HIDE DEF new
  <2>2. told' = told
    BY <1>1, <1>2, <2>1
  <2> QED BY <1>1, <1>2, <1>5, <2>2
<1> QED BY <1>3, <1>4, <1>5

LEMMA TypedInit == Init => Typed
<1> SUFFICES ASSUME Init PROVE Typed
  OBVIOUS
<1>1. /\ created = 0 /\ created \in 0..MaxWorkers /\ stopSet \in SUBSET (1..created)
      /\ \A w \in Workers : loop[w] = "none" /\ w > created /\ ~(w <= created)
  BY CameraAssumption DEF Init, Workers
<1>2. Holders = {} /\ IsFiniteSet(Holders) /\ Cardinality(Holders) = 0
  <2>1. Holders = {}
    BY DEF Init, Holders
  <2> QED BY <2>1, FS_EmptySet
<1>3. ManagerTyped
  <2>1. Cardinality({k \in Cameras : table[k] # None}) <= MaxActive
    BY <1>2, CameraAssumption DEF Holders
  <2> QED BY <2>1 DEF Init, ManagerTyped, States
<1>4. WorkersTyped
  BY <1>1 DEF Init, WorkersTyped, Places
<1>5. RequestsTyped
  BY DEF Init, RequestsTyped, Stages
<1>6. HistoryTyped
  BY DEF Init, HistoryTyped, Answers
<1>7. TypeOK
  BY <1>3, <1>4, <1>5, <1>6 DEF Init, TypeOK
<1>8. \A r \in Requests : Hand(r)
  BY DEF Init, Hand
<1>9. Belongs /\ Warned
  BY <1>1 DEF Init, Belongs, Warned
<1> QED BY <1>2, <1>7, <1>8, <1>9 DEF Typed

\* Cameras that lose their worker leave room for others.
LEMMA HoldersKept ==
    ASSUME Typed, Holders' \subseteq Holders
    PROVE  IsFiniteSet(Holders') /\ Cardinality({k \in Cameras : table'[k] # None}) <= MaxActive
<1>1. /\ IsFiniteSet(Holders') /\ Cardinality(Holders') <= Cardinality(Holders)
      /\ Cardinality(Holders) \in Nat /\ Cardinality(Holders') \in Nat
  BY FS_Subset, FS_CardinalityType DEF Typed
<1>2. Cardinality(Holders) <= MaxActive
  BY DEF Typed, TypeOK, ManagerTyped, Holders
<1>3. Cardinality(Holders') <= MaxActive
  BY <1>1, <1>2, CameraAssumption
<1> QED BY <1>1, <1>3 DEF Holders

\* One more camera fits where the table is not full.
LEMMA HoldersMore ==
    ASSUME Typed, ~Full, NEW j \in Cameras, Holders' \subseteq Holders \cup {j}
    PROVE  IsFiniteSet(Holders') /\ Cardinality({k \in Cameras : table'[k] # None}) <= MaxActive
<1>1. IsFiniteSet(Holders) /\ Cardinality(Holders) \in Nat
  BY FS_CardinalityType DEF Typed
<1>2. /\ IsFiniteSet(Holders \cup {j})
      /\ Cardinality(Holders \cup {j}) = IF j \in Holders THEN Cardinality(Holders)
                                        ELSE Cardinality(Holders) + 1
  BY <1>1, FS_AddElement
<1>3. /\ IsFiniteSet(Holders') /\ Cardinality(Holders') <= Cardinality(Holders \cup {j})
      /\ Cardinality(Holders') \in Nat
  BY <1>2, FS_Subset, FS_CardinalityType
<1>4. ~(Cardinality(Holders) >= MaxActive)
  BY DEF Full, Holders
<1>5. Cardinality(Holders') <= MaxActive
  BY <1>1, <1>2, <1>3, <1>4, CameraAssumption
<1> QED BY <1>3, <1>5 DEF Holders

\* Workers that nobody replaces.
LEMMA TableKept ==
    ASSUME Typed, UNCHANGED table
    PROVE  IsFiniteSet(Holders') /\ Cardinality({k \in Cameras : table'[k] # None}) <= MaxActive
BY HoldersKept DEF Holders

\* A request that does not move keeps what it has in its hand.
LEMMA HandKept ==
    ASSUME Typed, NEW s \in Requests, 
           pc'[s] = pc[s], op'[s] = op[s], cam'[s] = cam[s], handle'[s] = handle[s],
           \A w \in 1..created : of'[w] = of[w], overdue \subseteq overdue'
    PROVE  Hand(s)'
<1>1. Hand(s) /\ handle[s] \in {None} \cup 1..created
  BY DEF Typed, TypeOK, RequestsTyped
<1> QED BY <1>1 DEF Hand

\* A request goes on to its next step.
LEMMA Going ==
    ASSUME Typed, NEW r \in Requests, NEW where \in Stages, Goes(r, where), Hand(r)',
           UNCHANGED <<created, of>>, overdue \subseteq overdue'
    PROVE  RequestsTyped' /\ \A s \in Requests : Hand(s)'
<1>1. RequestsTyped
  BY DEF Typed, TypeOK
<1>2. RequestsTyped'
  BY <1>1 DEF RequestsTyped, Goes
<1>3. ASSUME NEW s \in Requests, s # r PROVE Hand(s)'
  BY <1>1, <1>3, HandKept DEF RequestsTyped, Goes
<1> QED BY <1>2, <1>3

\* A request ends with an answer.
LEMMA Ending ==
    ASSUME Typed, NEW r \in Requests, pc[r] # "idle", NEW how \in Answers, Done(r, how),
           UNCHANGED <<created, of, overdue>>
    PROVE  /\ RequestsTyped' /\ \A s \in Requests : Hand(s)'
           /\ last' \in [Cameras -> Answers] /\ cam[r] \in Cameras /\ last'[cam[r]] = how
           /\ \A k \in Cameras \ {cam[r]} : last'[k] = last[k]
           /\ pc'[r] = "idle"
           /\ \A s \in Requests \ {r} : pc'[s] = pc[s] /\ cam'[s] = cam[s] /\ handle'[s] = handle[s]
<1>1. RequestsTyped /\ HistoryTyped /\ Hand(r)
  BY DEF Typed, TypeOK
<1>2. cam[r] \in Cameras
  BY <1>1 DEF Hand
<1>3. RequestsTyped'
  BY <1>1 DEF RequestsTyped, Done, Stages
<1>4. /\ last' \in [Cameras -> Answers] /\ last'[cam[r]] = how
      /\ \A k \in Cameras \ {cam[r]} : last'[k] = last[k]
  BY <1>1, <1>2 DEF HistoryTyped, Done
<1>5. pc'[r] = "idle" /\ op'[r] = "none"
  BY <1>1 DEF RequestsTyped, Done
<1>6. \A s \in Requests \ {r} : /\ pc'[s] = pc[s] /\ op'[s] = op[s]
                                /\ cam'[s] = cam[s] /\ handle'[s] = handle[s]
  BY <1>1 DEF RequestsTyped, Done
<1>7. Hand(r)'
  BY <1>5 DEF Hand
<1>8. \A s \in Requests \ {r} : Hand(s)'
  BY <1>6, HandKept
<1> QED BY <1>2, <1>3, <1>4, <1>5, <1>6, <1>7, <1>8

\* The workers, their tables and the cameras keep their types while those that only
\* requests use change.
LEMMA Standing ==
    ASSUME Typed, UNCHANGED <<table, source, created, loop, of>>,
           actives' \in SUBSET Cameras, snap' \in [Cameras -> States],
           told' \in [Cameras -> BOOLEAN],
           stopSet' \in SUBSET (1..created), stopSet \subseteq stopSet'
    PROVE  ManagerTyped' /\ WorkersTyped' /\ IsFiniteSet(Holders') /\ Belongs' /\ Warned'
<1>1. IsFiniteSet(Holders') /\ Cardinality({k \in Cameras : table'[k] # None}) <= MaxActive
  BY TableKept
<1>2. ManagerTyped'
  BY <1>1 DEF Typed, TypeOK, ManagerTyped
<1>3. WorkersTyped'
  BY DEF Typed, TypeOK, WorkersTyped
<1>4. Belongs' /\ Warned'
  BY DEF Typed, Belongs, Warned
<1> QED BY <1>1, <1>2, <1>3, <1>4

LEMMA BeginsTyped ==
    ASSUME Typed, NEW r \in Requests, NEW k \in Cameras, NEW what \in {"boot", "apply", "stop"},
           Begins(r, k, what), todo' \in SUBSET Cameras
    PROVE  Typed'
<1> USE DEF manager, workers, history
<1>1. ManagerTyped' /\ WorkersTyped' /\ IsFiniteSet(Holders') /\ Belongs' /\ Warned'
  BY Standing DEF Begins, Typed, TypeOK, ManagerTyped, WorkersTyped
<1>2. RequestsTyped'
  BY DEF Typed, TypeOK, RequestsTyped, Begins, Stages
<1>3. HistoryTyped' /\ phase' \in {"booting", "serving", "stopping"}
  BY DEF Typed, TypeOK, HistoryTyped, Begins
<1>4. ASSUME NEW s \in Requests, s # r PROVE Hand(s)'
  <2>1. RequestsTyped /\ UNCHANGED <<of, overdue>>
    BY DEF Typed, TypeOK, Begins
  <2> QED BY <1>4, <2>1, HandKept DEF Begins, RequestsTyped
<1>5. Hand(r)'
  BY DEF Typed, TypeOK, RequestsTyped, Begins, Hand
<1> QED BY <1>1, <1>2, <1>3, <1>4, <1>5 DEF Typed, TypeOK

LEMMA StopTyped ==
    ASSUME Typed, NEW r \in Requests,
           ReadWorker(r) \/ SetStop(r) \/ JoinTooEarly(r) \/ Joined(r) \/ JoinTimesOut(r)
             \/ RaiseStopError(r)
    PROVE  Typed'
<1> USE DEF manager, workers, history
<1>0. /\ ManagerTyped /\ WorkersTyped /\ RequestsTyped /\ HistoryTyped /\ Hand(r)
      /\ phase \in {"booting", "serving", "stopping"} /\ todo \in SUBSET Cameras
  BY DEF Typed, TypeOK
<1>n. None \notin 1..created
  BY <1>0, Numbers DEF WorkersTyped
<1>1. CASE ReadWorker(r)
  <2>1. ManagerTyped' /\ WorkersTyped' /\ IsFiniteSet(Holders') /\ Belongs' /\ Warned'
    BY <1>0, <1>1, Standing DEF ReadWorker, ManagerTyped, WorkersTyped
  <2>2. RequestsTyped' /\ last' \in [Cameras -> Answers] /\ \A s \in Requests : Hand(s)'
    <3>0. cam[r] \in Cameras /\ pc[r] # "idle" /\ UNCHANGED <<created, of, overdue, table>>
      BY <1>0, <1>1 DEF ReadWorker, Hand
    <3>1. CASE table[cam[r]] # None
      <4>1. table[cam[r]] \in 1..created /\ of[table[cam[r]]] = cam[r]
        BY <1>0, <3>0, <3>1 DEF ManagerTyped, Typed, Belongs
      <4>2. /\ handle' = [handle EXCEPT ![r] = table[cam[r]]]
            /\ pc' = [pc EXCEPT ![r] = "signalling"] /\ UNCHANGED <<op, cam, last>>
        BY <1>1, <3>1 DEF ReadWorker
      <4>3. RequestsTyped' /\ last' \in [Cameras -> Answers]
        BY <1>0, <3>0, <4>1, <4>2 DEF RequestsTyped, Stages, HistoryTyped
      <4>4. Hand(r)'
        BY <1>0, <1>1, <3>0, <3>1, <4>1, <4>2 DEF Hand, RequestsTyped, ReadWorker
      <4>5. ASSUME NEW s \in Requests, s # r PROVE Hand(s)'
        BY <1>0, <3>0, <4>2, <4>5, HandKept DEF RequestsTyped
      <4> QED BY <4>3, <4>4, <4>5
    <3>2. CASE table[cam[r]] = None /\ op[r] # "stop"
      <4>1. Goes(r, "installing") /\ UNCHANGED last /\ "installing" \in Stages
        BY <1>1, <3>2 DEF ReadWorker, Stages
      <4>2. Hand(r)'
        BY <1>0, <1>1, <3>0, <3>2, <4>1 DEF Hand, RequestsTyped, Goes, ReadWorker
      <4> QED BY <1>0, <3>0, <4>1, <4>2, Going DEF HistoryTyped
    <3>3. CASE table[cam[r]] = None /\ op[r] = "stop"
      <4>1. Done(r, "stopped") /\ "stopped" \in Answers
        BY <1>1, <3>3 DEF ReadWorker, Answers
      <4> QED BY <3>0, <4>1, Ending
    <3> QED BY <3>1, <3>2, <3>3
  <2>3. HistoryTyped' /\ phase' \in {"booting", "serving", "stopping"} /\ todo' \in SUBSET Cameras
    BY <1>0, <1>1, <2>2 DEF ReadWorker, HistoryTyped
  <2> QED BY <2>1, <2>2, <2>3 DEF Typed, TypeOK
<1>2. CASE SetStop(r) \/ Joined(r) \/ JoinTimesOut(r)
  <2>0. /\ UNCHANGED <<manager, source, created, loop, of, phase, todo, told, last, crowded>>
        /\ op' = op /\ cam' = cam /\ handle' = handle
    BY <1>2 DEF SetStop, Joined, JoinTimesOut, Goes
  <2>h. /\ pc[r] \in {"signalling", "joining"} /\ pc[r] # "idle" /\ cam[r] \in Cameras
        /\ handle[r] \in 1..created /\ of[handle[r]] = cam[r]
    BY <1>0, <1>2 DEF SetStop, Joined, JoinTimesOut, Hand, RequestsTyped
  <2>1. /\ stopSet' \in SUBSET (1..created) /\ stopSet \subseteq stopSet'
        /\ overdue' \in SUBSET Cameras /\ overdue \subseteq overdue'
    BY <1>0, <1>2, <2>h DEF SetStop, Joined, JoinTimesOut, WorkersTyped, HistoryTyped
  <2>2. PICK where \in Stages : /\ Goes(r, where)
                                /\ where \in {"joining", "removing", "giving up"}
                                /\ where = "giving up" => cam[r] \in overdue'
    <3>1. CASE SetStop(r)
      <4>1. Goes(r, "joining") /\ "joining" \in Stages
        BY <3>1 DEF SetStop, Stages
      <4> QED BY <4>1
    <3>2. CASE Joined(r)
      <4>1. Goes(r, "removing") /\ "removing" \in Stages
        BY <3>2 DEF Joined, Stages
      <4> QED BY <4>1
    <3>3. CASE JoinTimesOut(r)
      <4>1. Goes(r, "giving up") /\ "giving up" \in Stages /\ cam[r] \in overdue'
        BY <3>3 DEF JoinTimesOut, Stages
      <4> QED BY <4>1
    <3> QED BY <1>2, <3>1, <3>2, <3>3
  <2>3. Hand(r)'
    <3>1. /\ pc'[r] = where /\ op'[r] = op[r] /\ cam'[r] = cam[r] /\ handle'[r] = handle[r]
          /\ of' = of
      BY <1>0, <2>0, <2>2 DEF Goes, RequestsTyped
    <3>2. op[r] # "none"
      BY <1>0, <2>h DEF Hand
    <3> QED BY <1>n, <2>2, <2>h, <3>1, <3>2 DEF Hand
  <2>4. RequestsTyped' /\ \A s \in Requests : Hand(s)'
    BY <2>0, <2>1, <2>2, <2>3, Going
  <2>5. ManagerTyped' /\ WorkersTyped' /\ IsFiniteSet(Holders') /\ Belongs' /\ Warned'
    BY <1>0, <2>0, <2>1, Standing DEF ManagerTyped
  <2>6. HistoryTyped' /\ phase' \in {"booting", "serving", "stopping"} /\ todo' \in SUBSET Cameras
    BY <1>0, <2>0, <2>1 DEF HistoryTyped
  <2> QED BY <2>4, <2>5, <2>6 DEF Typed, TypeOK
<1>3. CASE JoinTooEarly(r) \/ RaiseStopError(r)
  <2>0. /\ pc[r] # "idle" /\ Done(r, "none") /\ "none" \in Answers
        /\ UNCHANGED <<table, actives, source, workers, phase, told, overdue, crowded>>
    BY <1>3 DEF JoinTooEarly, RaiseStopError, Answers
  <2>1. snap' \in [Cameras -> States] /\ todo' \in SUBSET Cameras
    BY <1>0, <1>3 DEF JoinTooEarly, RaiseStopError, ManagerTyped, States
  <2>2. ManagerTyped' /\ WorkersTyped' /\ IsFiniteSet(Holders') /\ Belongs' /\ Warned'
    BY <1>0, <2>0, <2>1, Standing DEF ManagerTyped, WorkersTyped
  <2>3. RequestsTyped' /\ last' \in [Cameras -> Answers] /\ \A s \in Requests : Hand(s)'
    BY <2>0, Ending
  <2>4. HistoryTyped' /\ phase' \in {"booting", "serving", "stopping"}
    BY <1>0, <2>0, <2>3 DEF HistoryTyped
  <2> QED BY <2>1, <2>2, <2>3, <2>4 DEF Typed, TypeOK
<1> QED BY <1>1, <1>2, <1>3

\* A worker that starts, and a table that loses one, keep their types.
LEMMA Losing ==
    ASSUME Typed, UNCHANGED <<source, created, of, stopSet>>,
           actives' \in SUBSET Cameras, snap' \in [Cameras -> States],
           told' \in [Cameras -> BOOLEAN],
           table' \in [Cameras -> {None} \cup 1..created],
           \A k \in Cameras : table'[k] \in {table[k], None},
           NEW v, NEW place \in Places \ {"none", "leaving"},
           loop' = loop \/ (v \in 1..created /\ loop' = [loop EXCEPT ![v] = place])
    PROVE  ManagerTyped' /\ WorkersTyped' /\ IsFiniteSet(Holders') /\ Belongs' /\ Warned'
<1>0. ManagerTyped /\ WorkersTyped /\ Belongs /\ Warned
  BY DEF Typed, TypeOK
<1>n. 1..created = {w \in Workers : w <= created}
  BY <1>0, Numbers DEF WorkersTyped
<1>1. IsFiniteSet(Holders') /\ Cardinality({k \in Cameras : table'[k] # None}) <= MaxActive
  BY HoldersKept DEF Holders
<1>2. ManagerTyped'
  BY <1>0, <1>1 DEF ManagerTyped
<1>3. loop' \in [Workers -> Places]
  BY <1>0 DEF WorkersTyped
<1>4. \A w \in Workers : loop'[w] = "none" <=> w > created
  <2>1. ASSUME NEW w \in Workers PROVE (loop'[w] = "none") <=> (loop[w] = "none")
    <3>1. CASE loop' = loop
      BY <3>1
    <3>2. CASE v \in 1..created /\ loop' = [loop EXCEPT ![v] = place]
      <4>1. v \in Workers /\ v <= created /\ v \in Nat /\ created \in Nat
        BY <1>0, <1>n, <3>2, Numbers DEF WorkersTyped, Workers
      <4>2. loop[v] # "none"
        BY <1>0, <4>1 DEF WorkersTyped
      <4> QED BY <1>0, <3>2, <4>2 DEF WorkersTyped
    <3> QED BY <3>1, <3>2
  <2> QED BY <1>0, <2>1 DEF WorkersTyped
<1>5. WorkersTyped'
  BY <1>0, <1>3, <1>4 DEF WorkersTyped
<1>6. Belongs'
  BY <1>0 DEF Belongs
<1>7. Warned'
  <2>1. \A w \in Workers : loop'[w] = "leaving" => loop[w] = "leaving"
    BY <1>0 DEF WorkersTyped
  <2> QED BY <1>0, <2>1 DEF Warned
<1> QED BY <1>1, <1>2, <1>5, <1>6, <1>7

LEMMA ApplyTyped ==
    ASSUME Typed, NEW r \in Requests,
           Remove(r) \/ InstallRefused(r) \/ Start(r) \/ StartFails(r) \/ MarkUnavailable(r)
    PROVE  Typed'
<1> USE DEF manager, workers, history
<1>0. /\ ManagerTyped /\ WorkersTyped /\ RequestsTyped /\ HistoryTyped /\ Hand(r)
      /\ phase \in {"booting", "serving", "stopping"} /\ todo \in SUBSET Cameras
  BY DEF Typed, TypeOK
<1>1. /\ UNCHANGED <<source, created, of, stopSet, phase, todo, overdue, crowded>>
      /\ pc[r] # "idle"
  BY DEF Remove, InstallRefused, Start, StartFails, MarkUnavailable
<1>2. cam[r] \in Cameras
  BY <1>0, <1>1 DEF Hand
<1>3. /\ actives' \in SUBSET Cameras /\ snap' \in [Cameras -> States]
      /\ told' \in [Cameras -> BOOLEAN]
  <2>1. actives' \in SUBSET Cameras
    BY <1>0, <1>2 DEF Remove, InstallRefused, Start, StartFails, MarkUnavailable, ManagerTyped
  <2>2. CASE Remove(r) \/ MarkUnavailable(r)
    <3>1. PICK state \in States : Shows(cam[r], state)
      BY <2>2 DEF Remove, MarkUnavailable, States
    <3> QED BY <1>2, <2>1, <3>1, Shown DEF Typed
  <2>3. CASE InstallRefused(r) \/ Start(r) \/ StartFails(r)
    BY <1>0, <2>1, <2>3 DEF InstallRefused, Start, StartFails, ManagerTyped
  <2> QED BY <2>2, <2>3
<1>4. /\ table' \in [Cameras -> {None} \cup 1..created]
      /\ \A k \in Cameras : table'[k] \in {table[k], None}
  BY <1>0 DEF Remove, InstallRefused, Start, StartFails, MarkUnavailable, ManagerTyped
<1>5. \E place \in Places \ {"none", "leaving"} : \E v :
         loop' = loop \/ (v \in 1..created /\ loop' = [loop EXCEPT ![v] = place])
  <2>1. CASE Start(r) \/ StartFails(r)
    <3>1. handle[r] \in 1..created
      BY <1>0, <2>1 DEF Start, StartFails, Hand, RequestsTyped
    <3>2. \/ loop' = [loop EXCEPT ![handle[r]] = "checking"]
          \/ loop' = [loop EXCEPT ![handle[r]] = "dead"]
      BY <2>1 DEF Start, StartFails
    <3>3. {"checking", "dead"} \subseteq Places \ {"none", "leaving"}
      BY DEF Places
    <3>4. PICK place \in {"checking", "dead"} : loop' = [loop EXCEPT ![handle[r]] = place]
      BY <3>2
    <3> QED BY <3>1, <3>3, <3>4
  <2>2. CASE Remove(r) \/ InstallRefused(r) \/ MarkUnavailable(r)
    <3>1. loop' = loop
      BY <2>2 DEF Remove, InstallRefused, MarkUnavailable
    <3>2. "new" \in Places \ {"none", "leaving"}
      BY DEF Places
    <3> QED BY <3>1, <3>2
  <2> QED BY <2>1, <2>2
<1>6. ManagerTyped' /\ WorkersTyped' /\ IsFiniteSet(Holders') /\ Belongs' /\ Warned'
  <2>1. PICK place \in Places \ {"none", "leaving"} : \E v :
              loop' = loop \/ (v \in 1..created /\ loop' = [loop EXCEPT ![v] = place])
    BY <1>5
  <2>2. UNCHANGED <<source, created, of, stopSet>>
    BY <1>1
  <2> QED BY <1>3, <1>4, <2>1, <2>2, Losing
<1>7. \/ \E how \in Answers : Done(r, how)
      \/ \E where \in {"installing", "marking"} : Goes(r, where) /\ UNCHANGED last /\ op[r] # "stop"
  <2>1. CASE Remove(r)
    BY <2>1 DEF Remove, Answers
  <2>2. CASE Start(r) \/ MarkUnavailable(r)
    BY <2>2 DEF Start, MarkUnavailable, Answers
  <2>3. CASE InstallRefused(r) \/ StartFails(r)
    <3>1. op[r] # "stop" /\ Fails(r)
      BY <1>0, <2>3 DEF InstallRefused, StartFails, Hand
    <3> QED BY <3>1 DEF Fails, Answers
  <2> QED BY <2>1, <2>2, <2>3
<1>8. RequestsTyped' /\ last' \in [Cameras -> Answers] /\ \A s \in Requests : Hand(s)'
  <2>1. CASE \E how \in Answers : Done(r, how)
    BY <1>1, <2>1, Ending
  <2>2. ASSUME NEW where \in {"installing", "marking"}, Goes(r, where), UNCHANGED last, op[r] # "stop"
        PROVE  RequestsTyped' /\ last' \in [Cameras -> Answers] /\ \A s \in Requests : Hand(s)'
    <3>1. pc'[r] = where /\ op'[r] = op[r] /\ cam'[r] = cam[r] /\ where \in Stages
      BY <1>0, <2>2 DEF Goes, RequestsTyped, Stages
    <3>2. Hand(r)'
      BY <1>0, <1>1, <1>2, <2>2, <3>1 DEF Hand
    <3> QED BY <1>0, <1>1, <2>2, <3>1, <3>2, Going DEF HistoryTyped
  <2> QED BY <1>7, <2>1, <2>2
<1>9. HistoryTyped' /\ phase' \in {"booting", "serving", "stopping"} /\ todo' \in SUBSET Cameras
  BY <1>0, <1>1, <1>8 DEF HistoryTyped
<1> QED BY <1>6, <1>8, <1>9 DEF Typed, TypeOK

\* What Install does to the tables, for the new worker.
LEMMA Installed ==
    ASSUME Typed, NEW r \in Requests, Install(r)
    PROVE  /\ cam[r] \in Cameras /\ created' = created + 1 /\ created' \in 0..MaxWorkers
           /\ created' \in Workers /\ created' # None
           /\ 1..created' = 1..created \cup {created'} /\ created' \notin 1..created
           /\ loop[created'] = "none"
           /\ \A w \in Workers : w <= created' <=> w <= created \/ w = created'
<1>1. WorkersTyped /\ Hand(r) /\ pc[r] = "installing" /\ created < MaxWorkers /\ created' = created + 1
  BY DEF Typed, TypeOK, Install
<1>2. created \in Nat /\ created \in 0..MaxWorkers /\ MaxWorkers \in Nat
  BY <1>1, CameraAssumption DEF WorkersTyped
<1>3. /\ created' \in 0..MaxWorkers /\ created' \in Workers /\ created' # None
      /\ 1..created' = 1..created \cup {created'} /\ created' \notin 1..created
      /\ created' > created
      /\ \A w \in Workers : w <= created' <=> w <= created \/ w = created'
  BY <1>1, <1>2 DEF Workers, None
<1>4. loop[created'] = "none" /\ cam[r] \in Cameras
  BY <1>1, <1>3 DEF WorkersTyped, Hand
<1> QED BY <1>1, <1>3, <1>4

LEMMA InstallTyped ==
    ASSUME Typed, NEW r \in Requests, Install(r)
    PROVE  Typed'
<1> DEFINE v == created'
<1>0. /\ ManagerTyped /\ WorkersTyped /\ RequestsTyped /\ HistoryTyped /\ Hand(r)
      /\ Belongs /\ Warned
      /\ phase \in {"booting", "serving", "stopping"} /\ todo \in SUBSET Cameras
  BY DEF Typed, TypeOK
<1>1. /\ cam[r] \in Cameras /\ v \in 0..MaxWorkers /\ v \in Workers /\ v # None
      /\ 1..v = 1..created \cup {v} /\ v \notin 1..created
      /\ \A w \in Workers : w <= v <=> w <= created \/ w = v
      /\ 1..created \subseteq Workers
  BY <1>0, Installed, Numbers DEF WorkersTyped
<1>2. /\ table' = [table EXCEPT ![cam[r]] = v] /\ actives' = actives \cup {cam[r]}
      /\ snap' = [snap EXCEPT ![cam[r]] = "STOPPED"] /\ source' = [source EXCEPT ![cam[r]] = None]
      /\ loop' = [loop EXCEPT ![v] = "new"] /\ of' = [of EXCEPT ![v] = cam[r]]
      /\ handle' = [handle EXCEPT ![r] = v] /\ pc' = [pc EXCEPT ![r] = "starting"]
      /\ pc[r] = "installing" /\ ~Full
      /\ UNCHANGED <<stopSet, op, cam, phase, todo, told, history>>
  BY DEF Install, ClearFrame
<1> HIDE DEF v
<1>3. IsFiniteSet(Holders') /\ Cardinality({k \in Cameras : table'[k] # None}) <= MaxActive
  BY <1>0, <1>1, <1>2, HoldersMore DEF Holders, ManagerTyped
<1>4. ManagerTyped'
  <2>1. /\ table' \in [Cameras -> {None} \cup 1..v] /\ source' \in [Cameras -> {None} \cup 1..v]
        /\ snap' \in [Cameras -> States] /\ actives' \in SUBSET Cameras
    BY <1>0, <1>1, <1>2 DEF ManagerTyped, States
  <2> QED BY <1>0, <1>2, <1>3, <2>1 DEF ManagerTyped, v
<1>5. WorkersTyped'
  <2>1. loop' \in [Workers -> Places] /\ of' \in [Workers -> Cameras \cup {None}]
    BY <1>0, <1>1, <1>2 DEF WorkersTyped, Places
  <2>2. stopSet' \in SUBSET (1..v)
    BY <1>0, <1>1, <1>2 DEF WorkersTyped
  <2>3. \A w \in Workers : (loop'[w] = "none") <=> (loop[w] = "none" /\ w # v)
    BY <1>0, <1>2 DEF WorkersTyped
  <2>4. \A w \in Workers : w > v <=> (w > created /\ w # v)
    <3>1. v = created + 1 /\ created \in Nat
      BY <1>0, Installed, Numbers DEF v, WorkersTyped
    <3> QED BY <3>1 DEF Workers
  <2>5. \A w \in Workers : loop'[w] = "none" <=> w > v
    BY <1>0, <2>3, <2>4 DEF WorkersTyped
  <2> QED BY <1>1, <2>1, <2>2, <2>5 DEF WorkersTyped, v
<1>6. RequestsTyped'
  <2>1. handle' \in [Requests -> {None} \cup 1..v] /\ pc' \in [Requests -> Stages]
    BY <1>0, <1>1, <1>2 DEF RequestsTyped, Stages
  <2> QED BY <1>0, <1>2, <2>1 DEF RequestsTyped, v
<1>7. HistoryTyped' /\ phase' \in {"booting", "serving", "stopping"} /\ todo' \in SUBSET Cameras
  BY <1>0, <1>2 DEF HistoryTyped, history
<1>8. Belongs'
  <2>1. \A w \in Workers : w <= v => of'[w] \in Cameras
    BY <1>0, <1>1, <1>2 DEF Belongs, WorkersTyped
  <2>2. \A k \in Cameras : table'[k] # None => of'[table'[k]] = k
    <3>1. of'[v] = cam[r] /\ \A w \in 1..created : of'[w] = of[w]
      BY <1>0, <1>1, <1>2 DEF WorkersTyped
    <3>2. ASSUME NEW k \in Cameras, k # cam[r], table'[k] # None PROVE of'[table'[k]] = k
      <4>1. table'[k] = table[k] /\ table[k] \in 1..created
        BY <1>0, <1>2, <3>2 DEF ManagerTyped
      <4> QED BY <1>0, <3>1, <3>2, <4>1 DEF Belongs
    <3>3. table'[cam[r]] = v
      BY <1>0, <1>1, <1>2 DEF ManagerTyped
    <3> QED BY <3>1, <3>2, <3>3
  <2> QED BY <2>1, <2>2 DEF Belongs, v
<1>9. Warned'
  BY <1>0, <1>2 DEF Warned, WorkersTyped
<1>10. Hand(r)'
  <2>1. pc'[r] = "starting" /\ op'[r] = op[r] /\ cam'[r] = cam[r] /\ handle'[r] = v /\ of'[v] = cam[r]
    BY <1>0, <1>1, <1>2 DEF RequestsTyped, WorkersTyped
  <2> QED BY <1>0, <1>1, <1>2, <2>1 DEF Hand
<1>11. ASSUME NEW s \in Requests, s # r PROVE Hand(s)'
  <2>1. \A w \in 1..created : of'[w] = of[w]
    BY <1>0, <1>1, <1>2 DEF WorkersTyped
  <2>2. pc'[s] = pc[s] /\ op'[s] = op[s] /\ cam'[s] = cam[s] /\ handle'[s] = handle[s]
    BY <1>0, <1>2, <1>11 DEF RequestsTyped
  <2> QED BY <1>2, <2>1, <2>2, HandKept DEF history
<1> QED BY <1>3, <1>4, <1>5, <1>6, <1>7, <1>8, <1>9, <1>10, <1>11 DEF Typed, TypeOK

\* What a step of a worker changes: where it is, and what is said of its camera.
LEMMA Works ==
    ASSUME Typed, NEW w \in Workers, WorkerStep(w)
    PROVE  /\ UNCHANGED <<table, actives, created, of, stopSet, request, phase, todo, history>>
           /\ w \in 1..created /\ of[w] \in Cameras /\ w \in Alive /\ loop[w] # "new"
           /\ \E to \in Places \ {"none", "new"} : /\ loop' = [loop EXCEPT ![w] = to]
                                                   /\ to = "leaving" => w \in stopSet
           /\ snap' \in [Cameras -> States] /\ told' \in [Cameras -> BOOLEAN]
           /\ source' \in [Cameras -> {None} \cup 1..created]
           /\ \A j \in Cameras \ {of[w]} : /\ snap'[j] = snap[j] /\ told'[j] = told[j]
                                           /\ source'[j] = source[j]
           /\ source'[of[w]] \in {source[of[w]], w}
<1> DEFINE to == loop'[w]
<1>0. ManagerTyped /\ WorkersTyped /\ Belongs /\ Warned
  BY DEF Typed, TypeOK
<1>1. /\ UNCHANGED <<table, actives, created, of, stopSet, request, phase, todo, history>>
      /\ loop' = [loop EXCEPT ![w] = to] /\ to \in Places \ {"none", "new"}
      /\ loop[w] \notin {"none", "new", "dead"}
      /\ to = "leaving" => w \in stopSet
  BY <1>0 DEF WorkerStep, Round, Dial, CaptureEnds, FirstFrame, Greet, NextFrame, Store, Record,
              Closed, Retry, Leave, Moves, WorkersTyped, Places, Stopping
<1>2. w \in 1..created /\ of[w] \in Cameras /\ w \in Alive
  <2>1. created \in Nat /\ w \in Nat /\ w >= 1 /\ ~(w > created)
    BY <1>0, <1>1, CameraAssumption, Numbers DEF WorkersTyped, Workers
  <2> QED BY <1>0, <1>1, <2>1 DEF Belongs, Alive
<1>3. CASE Dial(w) \/ Greet(w) \/ Retry(w) \/ Leave(w)
  <2>1. PICK state \in States : Shows(of[w], state)
    BY <1>3 DEF Dial, Greet, Retry, Leave, Says, States
  <2>2. source' = source
    BY <1>3 DEF Dial, Greet, Retry, Leave, Says
  <2>3. /\ snap' \in [Cameras -> States] /\ told' \in [Cameras -> BOOLEAN]
        /\ \A j \in Cameras \ {of[w]} : snap'[j] = snap[j] /\ told'[j] = told[j]
    BY <1>2, <2>1, Shown DEF Typed
  <2> QED BY <1>0, <1>1, <1>2, <2>2, <2>3 DEF ManagerTyped
<1>4. CASE Store(w) \/ Record(w)
  <2>1. /\ snap' = snap \/ snap' = [snap EXCEPT ![of[w]] = "CONNECTED"]
        /\ told' = told \/ told' = [told EXCEPT ![of[w]] = TRUE]
        /\ source' = source \/ source' = [source EXCEPT ![of[w]] = w]
    BY <1>4 DEF Store, Record
  <2>2. snap' \in [Cameras -> States] /\ told' \in [Cameras -> BOOLEAN]
    BY <1>0, <1>2, <2>1 DEF ManagerTyped, States
  <2>3. source' \in [Cameras -> {None} \cup 1..created]
    BY <1>0, <1>2, <2>1 DEF ManagerTyped
  <2>4. /\ \A j \in Cameras \ {of[w]} : /\ snap'[j] = snap[j] /\ told'[j] = told[j]
                                        /\ source'[j] = source[j]
        /\ source'[of[w]] \in {source[of[w]], w}
    BY <1>0, <1>2, <2>1 DEF ManagerTyped
  <2> QED BY <1>1, <1>2, <2>2, <2>3, <2>4
<1>5. CASE Round(w) \/ CaptureEnds(w) \/ FirstFrame(w) \/ NextFrame(w) \/ Closed(w)
  <2>1. UNCHANGED <<snap, source, told>>
    BY <1>5 DEF Round, CaptureEnds, FirstFrame, NextFrame, Closed, Silently
  <2> QED BY <1>0, <1>1, <1>2, <2>1 DEF ManagerTyped
<1> QED BY <1>3, <1>4, <1>5 DEF WorkerStep

LEMMA WorkerTyped ==
    ASSUME Typed, NEW w \in Workers, WorkerStep(w)
    PROVE  Typed'
<1>0. ManagerTyped /\ WorkersTyped /\ RequestsTyped /\ HistoryTyped /\ Belongs /\ Warned
  BY DEF Typed, TypeOK
<1>1. /\ UNCHANGED <<table, actives, created, of, stopSet, pc, op, cam, handle, phase, todo,
                      last, overdue, crowded>>
      /\ w \in 1..created
      /\ snap' \in [Cameras -> States] /\ told' \in [Cameras -> BOOLEAN]
      /\ source' \in [Cameras -> {None} \cup 1..created]
  BY Works DEF request, history
<1>2. PICK to \in Places \ {"none", "new"} : /\ loop' = [loop EXCEPT ![w] = to]
                                             /\ to = "leaving" => w \in stopSet
  BY Works
<1>3. IsFiniteSet(Holders') /\ Cardinality({k \in Cameras : table'[k] # None}) <= MaxActive
  BY <1>1, TableKept
<1>4. ManagerTyped'
  BY <1>0, <1>1, <1>3 DEF ManagerTyped
<1>5. WorkersTyped'
  <2>1. loop' \in [Workers -> Places]
    BY <1>0, <1>2 DEF WorkersTyped
  <2>2. loop[w] # "none"
    BY Works DEF Alive
  <2>3. \A v \in Workers : (loop'[v] = "none") <=> (loop[v] = "none")
    BY <1>0, <1>2, <2>2 DEF WorkersTyped
  <2> QED BY <1>0, <1>1, <2>1, <2>3 DEF WorkersTyped
<1>6. Belongs' /\ Warned'
  BY <1>0, <1>1, <1>2 DEF Belongs, Warned, WorkersTyped
<1>7. RequestsTyped' /\ HistoryTyped'
  BY <1>0, <1>1 DEF RequestsTyped, HistoryTyped
<1>8. \A r \in Requests : Hand(r)'
  BY <1>1, HandKept
<1> QED BY <1>1, <1>3, <1>4, <1>5, <1>6, <1>7, <1>8 DEF Typed, TypeOK

LEMMA TypedStep == Typed /\ [Next]_vars => Typed'
<1> SUFFICES ASSUME Typed, [Next]_vars PROVE Typed'
  OBVIOUS
<1> USE DEF manager, workers, request, history
<1>0. ManagerTyped /\ WorkersTyped /\ RequestsTyped /\ HistoryTyped /\ todo \in SUBSET Cameras
  BY DEF Typed, TypeOK
<1>1. CASE Serve \/ BeginShutdown \/ UNCHANGED vars
  <2>1. UNCHANGED <<manager, source, workers, request, told, history>>
    BY <1>1 DEF Serve, BeginShutdown, vars
  <2>2. phase' \in {"booting", "serving", "stopping"} /\ todo' \in SUBSET Cameras
    BY <1>0, <1>1 DEF Serve, BeginShutdown, Typed, TypeOK, vars
  <2>3. ManagerTyped' /\ WorkersTyped' /\ IsFiniteSet(Holders') /\ Belongs' /\ Warned'
    BY <1>0, <2>1, Standing DEF ManagerTyped, WorkersTyped
  <2>4. RequestsTyped' /\ HistoryTyped'
    BY <1>0, <2>1 DEF RequestsTyped, HistoryTyped
  <2>5. \A r \in Requests : Hand(r)'
    <3>1. UNCHANGED <<pc, op, cam, handle, of, overdue>>
      BY <2>1
    <3> QED BY <3>1, HandKept
  <2> QED BY <2>2, <2>3, <2>4, <2>5 DEF Typed, TypeOK
<1>2. ASSUME NEW r \in Requests, NEW k \in Cameras,
             Boot(r, k) \/ BeginApply(r, k) \/ BeginStop(r, k) \/ StopNext(r, k)
      PROVE  Typed'
  <2>1. PICK what \in {"boot", "apply", "stop"} : Begins(r, k, what)
    <3>1. Begins(r, k, "boot") \/ Begins(r, k, "apply") \/ Begins(r, k, "stop")
      BY <1>2 DEF Boot, BeginApply, BeginStop, StopNext
    <3> QED BY <3>1
  <2>2. todo' \in SUBSET Cameras
    BY <1>0, <1>2 DEF Boot, BeginApply, BeginStop, StopNext
  <2> QED BY <2>1, <2>2, BeginsTyped
<1>3. ASSUME NEW r \in Requests, RequestStep(r) PROVE Typed'
  BY <1>3, StopTyped, ApplyTyped, InstallTyped DEF RequestStep
<1>4. ASSUME NEW w \in Workers, WorkerStep(w) PROVE Typed'
  BY <1>4, WorkerTyped
<1> QED BY <1>1, <1>2, <1>3, <1>4 DEF Next
-----------------------------------------------------------------------------
(* What happens to one camera while something happens to another.            *)

\* A camera whose worker, state and request stay as they are stays in turn.
LEMMA Frame ==
    ASSUME Typed, NEW k \in Cameras, InTurn(k),
           table'[k] = table[k], snap'[k] = snap[k], source'[k] = source[k],
           told'[k] = told[k], last'[k] = last[k], k \in actives' <=> k \in actives,
           k \in overdue => k \in overdue',
           AliveOf(k)' = AliveOf(k),
           \A w \in Workers : w = table[k] \/ w \in AliveOf(k) =>
                                loop'[w] = loop[w] /\ (w \in stopSet' <=> w \in stopSet),
           Busy(k)' = Busy(k),
           \A r \in Busy(k) : pc'[r] = pc[r] /\ handle'[r] = handle[r]
    PROVE  InTurn(k)'
<1>n. None \notin Workers /\ (table[k] = None \/ table[k] \in Workers)
  BY Numbers DEF Typed, TypeOK, ManagerTyped, WorkersTyped
<1>1. table[k] \in Alive' <=> table[k] \in Alive
  BY <1>n DEF Alive
<1>2. ASSUME NEW r \in Busy(k) PROVE Stage(r, k)'
  <2>1. Stage(r, k) /\ Hand(r) /\ r \in Requests
    BY <1>2 DEF InTurn, Typed, Busy
  <2>2. CASE pc[r] = "starting"
    <3>1. /\ handle[r] = table[k] /\ table[k] # None /\ table[k] \notin stopSet
          /\ k \in actives /\ snap[k] # "CONNECTED" /\ loop[table[k]] = "new"
      BY <2>1, <2>2 DEF Stage, Hand
    <3>2. loop'[table[k]] = "new" /\ table[k] \notin stopSet'
      BY <1>n, <3>1
    <3> QED BY <1>2, <2>2, <3>1, <3>2 DEF Stage
  <2>3. CASE pc[r] # "starting"
    BY <1>1, <1>2, <2>1, <2>3 DEF Stage
  <2> QED BY <2>2, <2>3
<1>3. Answered(k) => Answered(k)'
  <2>1. CASE last[k] = "applied"
    <3>1. Answered(k) => table[k] \in Alive /\ table[k] \notin stopSet /\ k \in actives
      BY <2>1 DEF Answered
    <3>2. Answered(k) => table[k] \in Alive' /\ table[k] \notin stopSet'
      BY <1>1, <3>1 DEF Alive
    <3> QED BY <2>1, <3>1, <3>2 DEF Answered
  <2>2. CASE last[k] # "applied"
    BY <2>2 DEF Answered
  <2> QED BY <2>1, <2>2
<1>4. \A w \in AliveOf(k) : loop'[w] = loop[w]
  BY DEF AliveOf, Alive
<1>5. Calm(k)'
  BY <1>1, <1>4 DEF InTurn, Calm
<1> QED BY <1>2, <1>3, <1>5 DEF InTurn


\* The variables that belong to the other requests.
LEMMA RequestAlone ==
    ASSUME Typed, NEW r \in Requests, RequestStep(r)
    PROVE  /\ pc[r] # "idle" /\ cam[r] \in Cameras /\ crowded' = crowded
           /\ pc'[r] = "idle" \/ cam'[r] = cam[r]
           /\ \A s \in Requests \ {r} : pc'[s] = pc[s] /\ cam'[s] = cam[s] /\ handle'[s] = handle[s]
<1>0. RequestsTyped /\ Hand(r) /\ pc[r] # "idle" /\ crowded' = crowded
  BY DEF RequestStep, ReadWorker, SetStop, JoinTooEarly, Joined, JoinTimesOut, RaiseStopError,
         Remove, InstallRefused, Install, Start, StartFails, MarkUnavailable,
         Typed, TypeOK, history
<1>1. CASE \E how : Done(r, how)
  BY <1>0, <1>1 DEF Done, RequestsTyped, Hand
<1>2. CASE \E where : Goes(r, where)
  BY <1>0, <1>2 DEF Goes, RequestsTyped, Hand
<1>3. CASE ReadWorker(r)
  <2>1. CASE table[cam[r]] # None
    BY <1>0, <1>3, <2>1 DEF ReadWorker, RequestsTyped, Hand
  <2>2. CASE table[cam[r]] = None
    BY <1>1, <1>2, <1>3, <2>2 DEF ReadWorker
  <2> QED BY <2>1, <2>2
<1>4. CASE Install(r)
  BY <1>0, <1>4 DEF Install, RequestsTyped, Hand
<1>5. CASE \/ SetStop(r) \/ JoinTooEarly(r) \/ Joined(r) \/ JoinTimesOut(r) \/ RaiseStopError(r)
           \/ Remove(r) \/ InstallRefused(r) \/ Start(r) \/ StartFails(r) \/ MarkUnavailable(r)
  BY <1>1, <1>2, <1>5 DEF SetStop, JoinTooEarly, Joined, JoinTimesOut, RaiseStopError, Remove,
                          InstallRefused, Start, StartFails, MarkUnavailable, Fails
<1> QED BY <1>3, <1>4, <1>5 DEF RequestStep

\* The tables of the other cameras.
LEMMA CameraAlone ==
    ASSUME Typed, NEW r \in Requests, RequestStep(r), NEW j \in Cameras, j # cam[r]
    PROVE  /\ table'[j] = table[j] /\ snap'[j] = snap[j] /\ source'[j] = source[j]
           /\ told'[j] = told[j] /\ last'[j] = last[j] /\ (j \in actives' <=> j \in actives)
           /\ j \in overdue => j \in overdue'
<1>0. ManagerTyped /\ RequestsTyped /\ HistoryTyped /\ cam[r] \in Cameras
  BY RequestAlone DEF Typed, TypeOK
<1>1. last'[j] = last[j]
  <2>1. last' = last \/ \E how : last' = [last EXCEPT ![cam[r]] = how]
    BY DEF RequestStep, ReadWorker, SetStop, JoinTooEarly, Joined, JoinTimesOut, RaiseStopError,
           Remove, InstallRefused, Install, Start, StartFails, MarkUnavailable, Fails, Done, history
  <2> QED BY <1>0, <2>1 DEF HistoryTyped
<1>2. snap'[j] = snap[j] /\ told'[j] = told[j]
  <2>1. CASE Remove(r) \/ MarkUnavailable(r)
    BY <1>0, <2>1, Shown DEF Remove, MarkUnavailable, States, Typed
  <2>2. CASE ~(Remove(r) \/ MarkUnavailable(r))
    BY <1>0, <2>2 DEF RequestStep, ReadWorker, SetStop, JoinTooEarly, Joined, JoinTimesOut,
           RaiseStopError, InstallRefused, Install, Start, StartFails, manager, ManagerTyped
  <2> QED BY <2>1, <2>2
<1>3. table'[j] = table[j] /\ source'[j] = source[j] /\ (j \in actives' <=> j \in actives)
  BY <1>0 DEF RequestStep, ReadWorker, SetStop, JoinTooEarly, Joined, JoinTimesOut, RaiseStopError,
         Remove, InstallRefused, Install, Start, StartFails, MarkUnavailable, manager, ManagerTyped,
         ClearFrame
<1>4. j \in overdue => j \in overdue'
  BY DEF RequestStep, ReadWorker, SetStop, JoinTooEarly, Joined, JoinTimesOut, RaiseStopError,
         Remove, InstallRefused, Install, Start, StartFails, MarkUnavailable, history
<1> QED BY <1>1, <1>2, <1>3, <1>4

\* The workers of the other cameras.
LEMMA WorkersAlone ==
    ASSUME Typed, NEW r \in Requests, RequestStep(r), NEW j \in Cameras, j # cam[r]
    PROVE  /\ AliveOf(j)' = AliveOf(j)
           /\ \A w \in Workers : w = table[j] \/ w \in AliveOf(j) =>
                                   loop'[w] = loop[w] /\ (w \in stopSet' <=> w \in stopSet)
<1>0. ManagerTyped /\ WorkersTyped /\ RequestsTyped /\ Belongs /\ Hand(r)
  BY DEF Typed, TypeOK
<1>n. None \notin Workers /\ 1..created \subseteq Workers
  BY <1>0, Numbers DEF WorkersTyped
<1>1. \A w \in Workers : w = table[j] \/ w \in AliveOf(j) => of[w] = j
  BY <1>0, <1>n DEF Belongs, AliveOf
<1>2. CASE UNCHANGED <<loop, of, stopSet>>
  BY <1>2 DEF AliveOf, Alive
<1>3. CASE SetStop(r)
  <2>1. UNCHANGED <<loop, of>> /\ stopSet' = stopSet \cup {handle[r]} /\ of[handle[r]] = cam[r]
    BY <1>0, <1>3 DEF SetStop, Hand
  <2> QED BY <1>1, <2>1 DEF AliveOf, Alive
<1>4. CASE Start(r) \/ StartFails(r)
  <2>1. /\ UNCHANGED <<of, stopSet>> /\ of[handle[r]] = cam[r]
        /\ \E place : loop' = [loop EXCEPT ![handle[r]] = place]
    BY <1>0, <1>4 DEF Start, StartFails, Hand
  <2>2. \A w \in Workers : of[w] = j => loop'[w] = loop[w]
    BY <1>0, <2>1 DEF WorkersTyped
  <2> QED BY <1>1, <2>1, <2>2 DEF AliveOf, Alive
<1>5. CASE Install(r)
  <2>1. created' \in Workers /\ loop[created'] = "none" /\ created' \notin 1..created
    BY <1>5, Installed
  <2>2. /\ loop' = [loop EXCEPT ![created'] = "new"] /\ of' = [of EXCEPT ![created'] = cam[r]]
        /\ stopSet' = stopSet
    BY <1>5 DEF Install
  <2>3. \A w \in Workers : w # created' => loop'[w] = loop[w] /\ of'[w] = of[w]
    BY <1>0, <2>2 DEF WorkersTyped
  <2>4. of'[created'] = cam[r]
    BY <1>0, <2>1, <2>2 DEF WorkersTyped
  <2>5. created' \notin AliveOf(j) /\ created' \notin AliveOf(j)' /\ created' # table[j]
    BY <1>0, <1>n, <2>1, <2>4 DEF AliveOf, Alive, ManagerTyped
  <2>6. \A w \in Workers : w \in AliveOf(j)' <=> w \in AliveOf(j)
    BY <2>3, <2>5 DEF AliveOf, Alive
  <2> QED BY <2>2, <2>3, <2>5, <2>6 DEF AliveOf, Alive
<1>6. CASE ~(SetStop(r) \/ Start(r) \/ StartFails(r) \/ Install(r))
  <2>1. UNCHANGED <<loop, of, stopSet>>
    BY <1>6 DEF RequestStep, ReadWorker, JoinTooEarly, Joined, JoinTimesOut, RaiseStopError,
                Remove, InstallRefused, MarkUnavailable, workers
  <2> QED BY <1>2, <2>1
<1> QED BY <1>3, <1>4, <1>5, <1>6

\* Hence the requests for other cameras leave a camera in turn.
LEMMA OtherRequest ==
    ASSUME Typed, NEW r \in Requests, RequestStep(r), NEW k \in Cameras, k # cam[r], InTurn(k)
    PROVE  InTurn(k)'
<1>1. Busy(k)' = Busy(k) /\ \A s \in Busy(k) : pc'[s] = pc[s] /\ handle'[s] = handle[s]
  BY RequestAlone DEF Busy
<1> QED BY <1>1, CameraAlone, WorkersAlone, Frame

\* And so do the workers of other cameras.
LEMMA OtherWorker ==
    ASSUME Typed, NEW w \in Workers, WorkerStep(w), NEW k \in Cameras, k # of[w], InTurn(k)
    PROVE  InTurn(k)'
<1>0. ManagerTyped /\ WorkersTyped /\ Belongs
  BY DEF Typed, TypeOK
<1>n. None \notin Workers
  BY <1>0, Numbers DEF WorkersTyped
<1>1. /\ UNCHANGED <<table, actives, of, stopSet, pc, cam, handle, last, overdue>>
      /\ snap'[k] = snap[k] /\ told'[k] = told[k] /\ source'[k] = source[k]
  BY Works DEF request, history
<1>2. \A v \in Workers : v # w => loop'[v] = loop[v]
  BY <1>0, Works DEF WorkersTyped
<1>3. w # table[k]
  BY <1>0, <1>n DEF Belongs
<1>4. AliveOf(k)' = AliveOf(k)
  BY <1>1, <1>2 DEF AliveOf, Alive
<1>5. Busy(k)' = Busy(k)
  BY <1>1 DEF Busy
<1>6. \A v \in Workers : v = table[k] \/ v \in AliveOf(k) => v # w
  BY <1>3 DEF AliveOf
<1>7. \A r \in Busy(k) : pc'[r] = pc[r] /\ handle'[r] = handle[r]
  BY <1>1
<1> QED BY <1>1, <1>2, <1>4, <1>5, <1>6, <1>7, Frame
-----------------------------------------------------------------------------
(* What the request for a camera does to it.                                 *)

\* The only request for a camera goes on.
LEMMA Onward ==
    ASSUME Typed, NEW r \in Requests, NEW k \in Cameras, Busy(k) = {r},
           NEW where \in Stages, where # "idle", pc' = [pc EXCEPT ![r] = where], cam' = cam,
           Stage(r, k)', Calm(k)'
    PROVE  InTurn(k)'
<1>1. pc'[r] = where /\ \A s \in Requests \ {r} : pc'[s] = pc[s]
  BY DEF Typed, TypeOK, RequestsTyped
<1>2. \A s \in Requests : s \in Busy(k)' <=> s \in Busy(k)
  BY <1>1 DEF Busy
<1>3. Busy(k)' = {r}
  BY <1>2 DEF Busy
<1> QED BY <1>3 DEF InTurn

\* The only request for a camera ends.
LEMMA Ended ==
    ASSUME Typed, NEW r \in Requests, NEW k \in Cameras, Busy(k) = {r}, NEW how \in Answers,
           Done(r, how), UNCHANGED <<created, of, overdue>>, Calm(k)',
           how = "applied" => table'[k] \in Alive' \ stopSet' /\ k \in actives',
           how = "stopped" => AliveOf(k)' = {}
    PROVE  InTurn(k)'
<1>1. pc[r] # "idle" /\ cam[r] = k
  BY DEF Busy
<1>2. /\ pc'[r] = "idle" /\ last'[k] = how
      /\ \A s \in Requests \ {r} : pc'[s] = pc[s] /\ cam'[s] = cam[s]
  BY <1>1, Ending
<1>3. Busy(k)' = {}
  BY <1>2 DEF Busy
<1>4. Answered(k)'
  BY <1>2 DEF Answered
<1> QED BY <1>3, <1>4 DEF InTurn

\* A camera stays calm while nothing of it changes.
LEMMA CalmKept ==
    ASSUME NEW k \in Cameras, Calm(k), overdue \subseteq overdue',
           UNCHANGED <<table, actives, snap, source, loop, of, told>>
    PROVE  Calm(k)' /\ AliveOf(k)' = AliveOf(k) /\ Alive' = Alive
<1>1. AliveOf(k)' = AliveOf(k) /\ Alive' = Alive
  BY DEF AliveOf, Alive
<1> QED BY <1>1 DEF Calm

\* The requests that stop, or that wait, leave the tables as they are.
LEMMA OwnStop ==
    ASSUME Typed, NEW r \in Requests, NEW k \in Cameras, Busy(k) = {r}, InTurn(k),
           ReadWorker(r) \/ SetStop(r) \/ Joined(r) \/ JoinTimesOut(r) \/ JoinTooEarly(r)
    PROVE  InTurn(k)'
<1> USE DEF manager, workers, history
<1>0. /\ ManagerTyped /\ WorkersTyped /\ RequestsTyped /\ Hand(r) /\ Stage(r, k) /\ Calm(k)
      /\ cam[r] = k /\ None \notin Workers
  BY Numbers DEF Typed, TypeOK, InTurn, Busy, WorkersTyped
<1>1. /\ UNCHANGED <<table, actives, snap, source, created, loop, of, told>>
      /\ overdue \subseteq overdue'
  BY DEF ReadWorker, SetStop, Joined, JoinTimesOut, JoinTooEarly
<1>2. Calm(k)' /\ AliveOf(k)' = AliveOf(k) /\ Alive' = Alive
  BY <1>0, <1>1, CalmKept
<1>3. CASE ReadWorker(r)
  <2>1. CASE table[k] # None
    <3>1. /\ pc' = [pc EXCEPT ![r] = "signalling"] /\ cam' = cam
          /\ handle' = [handle EXCEPT ![r] = table[k]] /\ "signalling" \in Stages
      BY <1>0, <1>3, <2>1 DEF ReadWorker, Stages
    <3>2. Stage(r, k)'
      BY <1>0, <1>1, <3>1 DEF Stage, RequestsTyped
    <3> QED BY <1>2, <3>1, <3>2, Onward
  <2>2. CASE table[k] = None /\ op[r] # "stop"
    <3>1. pc' = [pc EXCEPT ![r] = "installing"] /\ cam' = cam /\ "installing" \in Stages
      BY <1>0, <1>3, <2>2 DEF ReadWorker, Goes, Stages
    <3>2. Stage(r, k)'
      BY <1>0, <1>1, <2>2, <3>1 DEF Stage, RequestsTyped
    <3> QED BY <1>2, <3>1, <3>2, Onward
  <2>3. CASE table[k] = None /\ op[r] = "stop"
    <3>1. Done(r, "stopped") /\ UNCHANGED <<created, of, overdue>> /\ "stopped" \in Answers
      BY <1>0, <1>3, <2>3 DEF ReadWorker, Answers
    <3>2. AliveOf(k)' = {}
      BY <1>0, <1>2, <2>3 DEF Calm, AliveOf, Alive
    <3> QED BY <1>2, <3>1, <3>2, Ended
  <2> QED BY <1>0, <2>1, <2>2, <2>3
<1>4. CASE SetStop(r) \/ Joined(r) \/ JoinTimesOut(r)
  <2>1. pc[r] \in {"signalling", "joining"} /\ handle[r] = table[k] /\ handle' = handle /\ cam' = cam
    BY <1>0, <1>4 DEF SetStop, Joined, JoinTimesOut, Goes, Stage
  <2>2. \/ pc' = [pc EXCEPT ![r] = "joining"]
        \/ pc' = [pc EXCEPT ![r] = "giving up"]
        \/ pc' = [pc EXCEPT ![r] = "removing"] /\ handle[r] \notin Alive
    BY <1>4 DEF SetStop, Joined, JoinTimesOut, Goes
  <2>3. PICK where \in {"joining", "giving up", "removing"} :
              /\ pc' = [pc EXCEPT ![r] = where]
              /\ where = "removing" => handle[r] \notin Alive
    BY <2>2
  <2>4. pc'[r] = where /\ where \in Stages /\ where # "idle"
    BY <1>0, <2>3 DEF RequestsTyped, Stages
  <2>5. Stage(r, k)'
    BY <1>1, <1>2, <2>1, <2>3, <2>4 DEF Stage
  <2> QED BY <1>2, <2>1, <2>3, <2>4, <2>5, Onward
<1>5. CASE JoinTooEarly(r)
  <2>1. Done(r, "none") /\ UNCHANGED <<created, of, overdue>> /\ "none" \in Answers
    BY <1>5 DEF JoinTooEarly, Answers
  <2> QED BY <1>2, <2>1, Ended
<1> QED BY <1>3, <1>4, <1>5

\* The end of a stop: the worker has outlived the join, or is dead and is forgotten.
LEMMA OwnEnd ==
    ASSUME Typed, NEW r \in Requests, NEW k \in Cameras, Busy(k) = {r}, InTurn(k),
           RaiseStopError(r) \/ Remove(r)
    PROVE  InTurn(k)'
<1> USE DEF manager, workers, history
<1>0. /\ ManagerTyped /\ WorkersTyped /\ RequestsTyped /\ Hand(r) /\ Stage(r, k) /\ Calm(k)
      /\ cam[r] = k /\ None \notin Workers
  BY Numbers DEF Typed, TypeOK, InTurn, Busy, WorkersTyped
<1>1. UNCHANGED <<source, created, loop, of, stopSet, overdue>>
  BY DEF RaiseStopError, Remove
<1>2. AliveOf(k)' = AliveOf(k) /\ Alive' = Alive
  BY <1>1 DEF AliveOf, Alive
<1>3. CASE RaiseStopError(r)
  <2>1. /\ k \in overdue /\ snap'[k] = "UNAVAILABLE" /\ UNCHANGED <<table, actives, told>>
        /\ Done(r, "none") /\ "none" \in Answers
    BY <1>0, <1>3 DEF RaiseStopError, Hand, ManagerTyped, Answers
  <2>2. Calm(k)'
    BY <1>0, <1>1, <1>2, <2>1 DEF Calm
  <2> QED BY <1>1, <2>1, <2>2, Ended
<1>4. CASE Remove(r)
  <2>1. /\ table'[k] = None /\ table[k] \notin Alive /\ Shows(k, "STOPPED") /\ "STOPPED" \in States
    BY <1>0, <1>4 DEF Remove, ManagerTyped, Stage, States
  <2>2. AliveOf(k) = {}
    BY <1>0, <2>1 DEF Calm, AliveOf
  <2>3. /\ snap'[k] = "STOPPED"
        /\ (told[k] <=> snap[k] = "CONNECTED") => ~told'[k]
    BY <2>1, Shown DEF Typed
  <2>4. Calm(k)'
    <3>1. k \notin overdue' => (told'[k] <=> snap'[k] = "CONNECTED")
      BY <1>0, <1>1, <2>3 DEF Calm
    <3> QED BY <1>2, <2>1, <2>2, <2>3, <3>1 DEF Calm
  <2>5. CASE op[r] = "stop"
    <3>1. Done(r, "stopped") /\ "stopped" \in Answers
      BY <1>4, <2>5 DEF Remove, Answers
    <3> QED BY <1>1, <1>2, <2>2, <2>4, <3>1, Ended
  <2>6. CASE op[r] # "stop"
    <3>1. pc' = [pc EXCEPT ![r] = "installing"] /\ cam' = cam /\ "installing" \in Stages
      BY <1>4, <2>6 DEF Remove, Goes, Stages
    <3>2. Stage(r, k)'
      BY <1>0, <2>1, <3>1 DEF Stage, RequestsTyped
    <3> QED BY <2>4, <3>1, <3>2, Onward
  <2> QED BY <2>5, <2>6
<1> QED BY <1>3, <1>4

\* A failed installation ends the request, or at boot leaves the camera to be marked.
LEMMA OwnFailure ==
    ASSUME Typed, NEW r \in Requests, NEW k \in Cameras, Busy(k) = {r}, Fails(r),
           UNCHANGED <<created, of, overdue>>, table'[k] = None, Calm(k)'
    PROVE  InTurn(k)'
<1>1. CASE op[r] = "boot"
  <2>1. pc' = [pc EXCEPT ![r] = "marking"] /\ cam' = cam /\ "marking" \in Stages
    BY <1>1 DEF Fails, Goes, Stages
  <2>2. Stage(r, k)'
    BY <2>1 DEF Stage, Typed, TypeOK, RequestsTyped
  <2> QED BY <2>1, <2>2, Onward
<1>2. CASE op[r] # "boot"
  <2>1. Done(r, "none") /\ "none" \in Answers
    BY <1>2 DEF Fails, Answers
  <2> QED BY <2>1, Ended
<1> QED BY <1>1, <1>2

\* A new worker, and how its start ends.
LEMMA OwnApply ==
    ASSUME Typed, NEW r \in Requests, NEW k \in Cameras, Busy(k) = {r}, InTurn(k),
           InstallRefused(r) \/ Install(r) \/ Start(r) \/ StartFails(r) \/ MarkUnavailable(r)
    PROVE  InTurn(k)'
<1> USE DEF manager, workers, history
<1>0. /\ ManagerTyped /\ WorkersTyped /\ RequestsTyped /\ HistoryTyped /\ Hand(r) /\ Belongs
      /\ Stage(r, k) /\ Calm(k) /\ r \in Busy(k) /\ cam[r] = k /\ None \notin Workers
      /\ 1..created \subseteq Workers
  BY Numbers DEF Typed, TypeOK, InTurn, Busy, WorkersTyped
<1>1. CASE InstallRefused(r)
  <2>1. /\ Fails(r) /\ UNCHANGED <<table, actives, snap, source, created, loop, of, told, overdue>>
        /\ table[k] = None
    BY <1>0, <1>1 DEF InstallRefused, Stage
  <2> QED BY <1>0, <2>1, CalmKept, OwnFailure
<1>2. CASE Install(r)
  <2> DEFINE v == created'
  <2>1. v \in Workers /\ v # None /\ loop[v] = "none"
    BY <1>2, Installed
  <2>2. /\ table' = [table EXCEPT ![k] = v] /\ actives' = actives \cup {k}
        /\ snap' = [snap EXCEPT ![k] = "STOPPED"] /\ source' = [source EXCEPT ![k] = None]
        /\ loop' = [loop EXCEPT ![v] = "new"] /\ of' = [of EXCEPT ![v] = k]
        /\ handle' = [handle EXCEPT ![r] = v] /\ pc' = [pc EXCEPT ![r] = "starting"]
        /\ pc[r] = "installing" /\ UNCHANGED <<stopSet, op, cam, told, overdue>>
    BY <1>0, <1>2 DEF Install, ClearFrame
  <2>3. v \notin stopSet
    BY <1>0, <1>2, Installed DEF WorkersTyped
  <2> HIDE DEF v
  <2>4. table[k] = None /\ AliveOf(k) = {} /\ snap[k] # "CONNECTED"
    <3>1. table[k] = None
      BY <1>0, <2>2 DEF Stage
    <3> QED BY <1>0, <3>1 DEF Calm, AliveOf, Alive
  <2>5. /\ table'[k] = v /\ snap'[k] = "STOPPED" /\ source'[k] = None /\ loop'[v] = "new"
        /\ of'[v] = k /\ handle'[r] = v /\ pc'[r] = "starting" /\ k \in actives'
    BY <1>0, <2>1, <2>2 DEF ManagerTyped, WorkersTyped, RequestsTyped
  <2>6. AliveOf(k)' = {v}
    <3>1. \A w \in Workers : w # v => loop'[w] = loop[w] /\ of'[w] = of[w]
      BY <1>0, <2>2 DEF WorkersTyped
    <3>2. \A w \in Workers : w # v => w \notin AliveOf(k)'
      BY <2>4, <3>1 DEF AliveOf, Alive
    <3>3. v \in AliveOf(k)'
      BY <2>1, <2>5 DEF AliveOf, Alive
    <3> QED BY <3>2, <3>3 DEF AliveOf, Alive
  <2>7. Calm(k)'
    <3>1. k \notin overdue' => /\ told'[k] <=> snap'[k] = "CONNECTED"
                               /\ \A w \in AliveOf(k)' : loop'[w] # "recording"
      BY <1>0, <2>2, <2>4, <2>5, <2>6 DEF Calm
    <3>2. AliveOf(k)' \subseteq {table'[k]} /\ source'[k] \in {None, table'[k]}
      BY <2>5, <2>6
    <3> QED BY <2>5, <3>1, <3>2 DEF Calm
  <2>8. Stage(r, k)'
    <3>1. /\ handle'[r] = table'[k] /\ table'[k] \notin stopSet' /\ k \in actives'
          /\ snap'[k] # "CONNECTED" /\ loop'[table'[k]] = "new"
      BY <2>2, <2>3, <2>5
    <3> QED BY <2>5, <3>1 DEF Stage
  <2>9. "starting" \in Stages
    BY DEF Stages
  <2> QED BY <2>2, <2>7, <2>8, <2>9, Onward
<1>3. CASE Start(r) \/ StartFails(r)
  <2>0. /\ handle[r] = table[k] /\ table[k] \in Workers /\ of[table[k]] = k
        /\ table[k] \notin stopSet /\ k \in actives /\ snap[k] # "CONNECTED"
        /\ UNCHANGED <<snap, source, created, of, stopSet, told, overdue>>
    BY <1>0, <1>3 DEF Start, StartFails, Stage, Hand, ManagerTyped
  <2>1. CASE Start(r)
    <3>1. /\ Done(r, "applied") /\ "applied" \in Answers /\ UNCHANGED <<table, actives>>
          /\ loop' = [loop EXCEPT ![table[k]] = "checking"]
      BY <2>0, <2>1 DEF Start, Answers
    <3>2. loop'[table[k]] = "checking" /\ \A w \in Workers : w # table[k] => loop'[w] = loop[w]
      BY <1>0, <2>0, <3>1 DEF WorkersTyped
    <3>3. table[k] \in Alive' /\ AliveOf(k)' = {table[k]}
      BY <1>0, <2>0, <3>2 DEF AliveOf, Alive, Calm
    <3>4. Calm(k)'
      BY <1>0, <2>0, <3>1, <3>2, <3>3 DEF Calm
    <3> QED BY <2>0, <3>1, <3>3, <3>4, Ended
  <2>2. CASE StartFails(r)
    <3>1. /\ table'[k] = None /\ Fails(r) /\ loop' = [loop EXCEPT ![table[k]] = "dead"]
      BY <1>0, <2>0, <2>2 DEF StartFails, ManagerTyped
    <3>2. loop'[table[k]] = "dead" /\ \A w \in Workers : w # table[k] => loop'[w] = loop[w]
      BY <1>0, <2>0, <3>1 DEF WorkersTyped
    <3>3. AliveOf(k)' = {}
      BY <1>0, <2>0, <3>2 DEF AliveOf, Alive, Calm
    <3>4. Calm(k)'
      BY <1>0, <2>0, <3>1, <3>3 DEF Calm
    <3> QED BY <2>0, <3>1, <3>4, OwnFailure
  <2> QED BY <1>3, <2>1, <2>2
<1>4. CASE MarkUnavailable(r)
  <2>1. /\ table[k] = None /\ actives' = actives \cup {k} /\ Shows(k, "UNAVAILABLE")
        /\ "UNAVAILABLE" \in States /\ Done(r, "none") /\ "none" \in Answers
        /\ UNCHANGED <<table, source, created, loop, of, stopSet, overdue>>
    BY <1>0, <1>4 DEF MarkUnavailable, Stage, States, Answers
  <2>2. /\ snap'[k] = "UNAVAILABLE"
        /\ (told[k] <=> snap[k] = "CONNECTED") => ~told'[k]
    BY <2>1, Shown DEF Typed
  <2>3. AliveOf(k)' = AliveOf(k) /\ AliveOf(k) = {}
    BY <1>0, <2>1 DEF AliveOf, Alive, Calm
  <2>4. Calm(k)'
    BY <1>0, <2>1, <2>2, <2>3 DEF Calm
  <2> QED BY <2>1, <2>4, Ended
<1> QED BY <1>1, <1>2, <1>3, <1>4

\* The worker of a camera, which no request can be removing, installing or starting.
LEMMA OwnWorker ==
    ASSUME Typed, NEW w \in Workers, WorkerStep(w), NEW k \in Cameras, k = of[w], InTurn(k)
    PROVE  InTurn(k)'
<1>0. ManagerTyped /\ WorkersTyped /\ Calm(k)
  BY DEF Typed, TypeOK, InTurn
<1>1. /\ UNCHANGED <<table, actives, of, stopSet, pc, cam, handle, last, overdue>>
      /\ w \in Alive /\ loop[w] # "new" /\ source'[k] \in {source[k], w}
  BY Works DEF request, history
<1>2. w = table[k] /\ AliveOf(k) = {w} /\ k \in actives
  BY <1>0, <1>1 DEF Calm, AliveOf
<1>3. /\ loop' = [loop EXCEPT ![w] = loop'[w]] /\ \A v \in Workers : v # w => loop'[v] = loop[v]
  BY <1>0, Works DEF WorkersTyped
<1>4. /\ loop'[w] # "dead" => w \in Alive' /\ AliveOf(k)' = {w}
      /\ loop'[w] = "dead" => w \notin Alive' /\ AliveOf(k)' = {}
  <2>1. loop'[w] # "none"
    BY <1>0, Works DEF WorkersTyped
  <2>2. \A v \in Workers : v # w => v \notin AliveOf(k)'
    BY <1>1, <1>2, <1>3 DEF AliveOf, Alive
  <2>3. w \in Alive' <=> loop'[w] # "dead"
    BY <2>1 DEF Alive
  <2> QED BY <1>1, <2>2, <2>3 DEF AliveOf, Alive
<1>5. Busy(k)' = Busy(k)
  BY <1>1 DEF Busy
<1>6. \A r \in Busy(k) : Stage(r, k) /\ pc[r] # "removing" /\ pc[r] # "starting"
                         /\ pc[r] # "installing" /\ pc[r] # "marking"
  <2>1. \A r \in Busy(k) : Stage(r, k)
    BY DEF InTurn
  <2> QED BY <1>1, <1>2, <2>1, Numbers DEF Stage, Typed, TypeOK, WorkersTyped
<1>7. \A r \in Busy(k) : Stage(r, k)'
  BY <1>1, <1>6 DEF Stage
<1>8. /\ loop'[w] = "dead" => snap'[k] # "CONNECTED"
      /\ k \notin overdue => /\ told'[k] <=> snap'[k] = "CONNECTED"
                             /\ loop'[w] = "recording" => snap'[k] = "CONNECTED"
  <2>0. /\ loop'[w] \in Places /\ w \in AliveOf(k)
        /\ k \notin overdue => /\ told[k] <=> snap[k] = "CONNECTED"
                               /\ loop[w] = "recording" => snap[k] = "CONNECTED"
    BY <1>0, <1>2, Works DEF Calm, WorkersTyped
  <2>1. CASE Dial(w) \/ Retry(w) \/ Leave(w)
    <3>1. PICK state \in States : Shows(k, state) /\ state # "CONNECTED"
      BY <2>1 DEF Dial, Retry, Leave, Says, States
    <3>2. loop'[w] # "recording"
      BY <1>0, <2>1 DEF Dial, Retry, Leave, Moves, WorkersTyped
    <3>3. /\ snap'[k] = state
          /\ (told[k] <=> snap[k] = "CONNECTED") => (told'[k] <=> state = "CONNECTED")
      BY <3>1, Shown DEF Typed
    <3> QED BY <2>0, <3>1, <3>2, <3>3
  <2>2. CASE Greet(w)
    <3>1. Shows(k, "CONNECTED") /\ "CONNECTED" \in States /\ loop'[w] = "storing"
      BY <1>0, <2>2 DEF Greet, Says, States, Moves, WorkersTyped
    <3>2. /\ snap'[k] = "CONNECTED"
          /\ (told[k] <=> snap[k] = "CONNECTED") => told'[k]
      BY <3>1, Shown DEF Typed
    <3> QED BY <2>0, <3>1, <3>2
  <2>3. CASE Store(w)
    <3>1. /\ UNCHANGED <<snap, told>>
          /\ loop'[w] = IF snap[k] = "CONNECTED" THEN "recording" ELSE "renewing"
      BY <1>0, <2>3 DEF Store, Moves, WorkersTyped
    <3> QED BY <2>0, <3>1
  <2>4. CASE Record(w)
    <3>1. /\ snap'[k] = "CONNECTED" /\ loop'[w] = "capturing"
          /\ \/ loop[w] = "recording" /\ told' = told
             \/ told' = [told EXCEPT ![k] = TRUE]
      BY <1>0, <2>4 DEF Record, Moves, WorkersTyped, ManagerTyped
    <3>2. k \notin overdue => told'[k]
      BY <1>0, <2>0, <3>1 DEF ManagerTyped
    <3> QED BY <3>1, <3>2
  <2>5. CASE Round(w) \/ CaptureEnds(w) \/ FirstFrame(w) \/ NextFrame(w) \/ Closed(w)
    <3>1. UNCHANGED <<snap, told>> /\ loop'[w] # "recording" /\ loop'[w] # "dead"
      BY <1>0, <2>5 DEF Round, CaptureEnds, FirstFrame, NextFrame, Closed, Silently, Moves,
                        WorkersTyped
    <3> QED BY <2>0, <3>1
  <2> QED BY <2>1, <2>2, <2>3, <2>4, <2>5 DEF WorkerStep
<1>9. Calm(k)'
  BY <1>0, <1>1, <1>2, <1>4, <1>8 DEF Calm
<1>10. Busy(k) = {} => Answered(k)'
  <2>1. ASSUME Busy(k) = {} PROVE last[k] # "stopped" /\ (last[k] = "applied" => w \notin stopSet)
    BY <1>2, <2>1 DEF InTurn, Answered
  <2>2. loop'[w] = "dead" => w \in stopSet
    <3>1. loop'[w] = "dead" => loop[w] = "leaving"
      BY <1>0 DEF WorkerStep, Round, Dial, CaptureEnds, FirstFrame, Greet, NextFrame, Store, Record,
                  Closed, Retry, Leave, Moves, WorkersTyped
    <3> QED BY <3>1 DEF Typed, Warned
  <2> QED BY <1>1, <1>2, <1>4, <2>1, <2>2 DEF Answered
<1> QED BY <1>5, <1>7, <1>9, <1>10 DEF InTurn
-----------------------------------------------------------------------------
(* The invariant.                                                            *)

LEMMA InTurnInit == Init => \A k \in Cameras : InTurn(k)
<1> SUFFICES ASSUME Init, NEW k \in Cameras PROVE InTurn(k)
  OBVIOUS
<1>1. /\ table[k] = None /\ snap[k] = "STOPPED" /\ told[k] = FALSE /\ last[k] = "none"
      /\ AliveOf(k) = {} /\ Busy(k) = {}
  BY DEF Init, AliveOf, Alive, Busy
<1> QED BY <1>1 DEF InTurn, Calm, Answered

\* The first request for a camera finds nobody busy with it, or the camera is crowded.
LEMMA BeginsInTurn ==
    ASSUME Typed, NEW r \in Requests, NEW j \in Cameras, NEW what, Begins(r, j, what),
           NEW k \in Cameras, k \notin crowded', k \notin crowded => InTurn(k)
    PROVE  InTurn(k)'
<1> USE DEF manager, workers
<1>1. /\ UNCHANGED <<table, actives, snap, source, loop, of, stopSet, handle, told, last, overdue>>
      /\ k \notin crowded /\ InTurn(k)
  BY DEF Begins
<1>2. /\ pc'[r] = "reading" /\ cam'[r] = j /\ pc[r] = "idle"
      /\ \A s \in Requests \ {r} : pc'[s] = pc[s] /\ cam'[s] = cam[s]
  BY DEF Begins, Typed, TypeOK, RequestsTyped
<1>3. AliveOf(k)' = AliveOf(k) /\ Alive' = Alive
  BY <1>1 DEF AliveOf, Alive
<1>4. CASE k = j
  <2>1. Busy(k) = {}
    BY <1>1, <1>4 DEF Begins
  <2>2. Busy(k)' = {r}
    BY <1>2, <1>4, <2>1 DEF Busy
  <2>3. Stage(r, k)'
    BY <1>2 DEF Stage
  <2>4. Calm(k)'
    BY <1>1, <1>3 DEF InTurn, Calm
  <2> QED BY <2>2, <2>3, <2>4 DEF InTurn
<1>5. CASE k # j
  <2>1. Busy(k)' = Busy(k) /\ \A s \in Busy(k) : pc'[s] = pc[s]
    BY <1>2, <1>5 DEF Busy
  <2> QED BY <1>1, <1>3, <2>1, Frame
<1> QED BY <1>4, <1>5

\* IInv holds in every state.
LEMMA Invariance == Spec => []IInv
<1>1. Init => IInv
  BY TypedInit, InTurnInit DEF IInv
<1>2. IInv /\ [Next]_vars => IInv'
  <2> SUFFICES ASSUME IInv, [Next]_vars PROVE IInv'
    OBVIOUS
  <2>0. Typed /\ Typed' /\ \A k \in Cameras \ crowded : InTurn(k)
    BY TypedStep DEF IInv
  <2> SUFFICES ASSUME NEW k \in Cameras, k \notin crowded' PROVE InTurn(k)'
    BY <2>0 DEF IInv
  <2>1. CASE Serve \/ BeginShutdown \/ UNCHANGED vars
    <3>1. UNCHANGED <<table, actives, snap, source, loop, of, stopSet, pc, cam, handle, told, last,
                      overdue, crowded>>
      BY <2>1 DEF Serve, BeginShutdown, vars, manager, workers, request, history
    <3>2. AliveOf(k)' = AliveOf(k) /\ Busy(k)' = Busy(k)
      BY <3>1 DEF AliveOf, Alive, Busy
    <3> QED BY <2>0, <3>1, <3>2, Frame
  <2>2. ASSUME NEW r \in Requests, NEW j \in Cameras,
               Boot(r, j) \/ BeginApply(r, j) \/ BeginStop(r, j) \/ StopNext(r, j)
        PROVE  InTurn(k)'
    <3>1. PICK what : Begins(r, j, what)
      BY <2>2 DEF Boot, BeginApply, BeginStop, StopNext
    <3> QED BY <2>0, <3>1, BeginsInTurn
  <2>3. ASSUME NEW r \in Requests, RequestStep(r) PROVE InTurn(k)'
    <3>1. crowded' = crowded /\ pc[r] # "idle"
      BY <2>0, <2>3, RequestAlone
    <3>2. InTurn(k)
      BY <2>0, <3>1
    <3>3. CASE cam[r] = k
      <4>1. Busy(k) = {r}
        BY <3>1, <3>2, <3>3 DEF InTurn, Busy
      <4> QED BY <2>0, <2>3, <3>2, <4>1, OwnStop, OwnEnd, OwnApply DEF RequestStep
    <3> QED BY <2>0, <2>3, <3>2, <3>3, OtherRequest
  <2>4. ASSUME NEW w \in Workers, WorkerStep(w) PROVE InTurn(k)'
    <3>1. InTurn(k)
      BY <2>0, <2>4, Works DEF history
    <3> QED BY <2>0, <2>4, <3>1, OwnWorker, OtherWorker
  <2> QED BY <2>1, <2>2, <2>3, <2>4 DEF Next
<1> QED BY <1>1, <1>2, PTL DEF Spec

\* While the requests for a camera come one at a time, it has one capture worker at
\* most, the one that stop() finds, and what a request was answered is so, whatever the
\* joins do and whatever is asked of the other cameras.
THEOREM WorkersAnswer == Spec => []Inv
<1>1. IInv => Inv
  BY DEF IInv, Typed, InTurn, Calm, Answered, Inv, WorkerInTurn, OneCapture, AnswerHolds
<1> QED BY <1>1, Invariance, PTL

\* CONNECTED, the state that the gate trusts, means a live worker, and a healthy system
\* counts the cameras that have one.
THEOREM ConnectedLives == Spec => []ConnectedMeansLive
<1>1. IInv => ConnectedMeansLive
  <2> SUFFICES ASSUME IInv PROVE ConnectedMeansLive
    OBVIOUS
  <2>1. ConnectedIsLive
    BY DEF IInv, InTurn, Calm, ConnectedIsLive
  <2>2. ASSUME crowded = {}, CameraHealth = "HEALTHY"
        PROVE  actives = {k \in Cameras : AliveOf(k) # {}}
    <3>1. \A k \in Cameras : Calm(k)
      BY <2>2 DEF IInv, InTurn
    <3>2. actives # {} /\ \A k \in actives : snap[k] = "CONNECTED"
      BY <2>2 DEF CameraHealth
    <3>3. actives \subseteq Cameras
      BY DEF IInv, Typed, TypeOK, ManagerTyped
    <3>4. \A k \in actives : table[k] \in AliveOf(k)
      <4>1. \A k \in actives : table[k] \in Alive /\ table[k] # None
        BY <3>1, <3>2, <3>3, Numbers DEF Calm, Alive, IInv, Typed, TypeOK, WorkersTyped
      <4> QED BY <3>3, <4>1 DEF AliveOf, IInv, Typed, Belongs
    <3>5. \A k \in Cameras : AliveOf(k) # {} => k \in actives
      BY <3>1 DEF Calm
    <3> QED BY <3>3, <3>4, <3>5
  <2> QED BY <2>1, <2>2 DEF ConnectedMeansLive, HealthTells
<1> QED BY <1>1, Invariance, PTL

\* After a restart of a camera no frame of the worker before is left for inference.
THEOREM FramesAreFresh == Spec => []FreshFrame
<1>1. IInv => FreshFrame
  BY DEF IInv, InTurn, Calm, FreshFrame
<1> QED BY <1>1, Invariance, PTL

\* The last event in the log tells whether a camera is connected, unless a stop timed out.
THEOREM LogFollows == Spec => []AuditFollows
<1>1. IInv => AuditFollows
  BY DEF IInv, InTurn, Calm, AuditFollows
<1> QED BY <1>1, Invariance, PTL
=============================================================================
