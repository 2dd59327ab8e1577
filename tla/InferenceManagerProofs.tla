------------------------- MODULE InferenceManagerProofs -------------------------
(* InferenceManager for any pool of request threads, any cameras and any bounds: *)
(* what holds as long as the requests of the management API follow one another.  *)
EXTENDS InferenceManager, FiniteSetTheorems, TLAPS

\* The requests that may still create a worker: as many as the bound leaves room for.
Candidates == {r \in Requests : pc[r] \notin {"idle", "starting"} /\ op[r] # "shutdown"}
Planned == created + Cardinality(Candidates) <= MaxWorkers

\* What a request knows of its operation and its worker, and what is known of the
\* workers that are not created yet.
Locals == /\ \A r \in Requests :
               /\ pc[r] = "idle" <=> op[r] = "none"
               /\ pc[r] \in {"stopping", "joining", "clearing", "starting"} => handle[r] # None
               /\ pc[r] \in {"ensuring", "starting"} => op[r] # "shutdown"
          /\ \A w \in Workers : w > created => loop[w] = "new"

Typed == TypeOK /\ Locals /\ Planned

\* Where the request under way stands: from ReadHandle to Clear it has the worker that
\* the manager knows in its hand, then there is none, then there is the one it made.
Stage(r) ==
    /\ pc[r] \in {"stopping", "joining", "clearing"} => handle[r] = thread
    /\ pc[r] = "clearing" => thread \notin Running
    /\ pc[r] \in {"changing", "ensuring"} => thread = None
    /\ pc[r] = "starting" => /\ handle[r] = thread
                             /\ thread \notin stopSet /\ loop[thread] = "new"
                             /\ version[thread] = bundle /\ bundle # None
    /\ op[r] = "settings" => target[r] = saved
    /\ op[r] = "settings" /\ pc[r] \in {"ensuring", "starting"} => bundle = target[r]
    /\ pc[r] # "idle" => (down <=> op[r] = "shutdown")

\* Settings are installed and confirmed in the order in which they are saved.
Versioned == /\ confirmed <= saved
             /\ bundle # None => bundle >= confirmed
             /\ \A w \in Running : version[w] >= confirmed

AllOk == \A r \in Requests : answer[r] = "ok"

\* What the last request has left behind when every thread's last request went well.
Left == Idle /\ AllOk =>
          /\ down => thread = None
          /\ ~down /\ bundle # None /\ active # {} =>
               \/ thread \in Running /\ thread \notin stopSet
               \/ state = "error" /\ Running = {}

Solo == \A r, s \in Requests : pc[r] # "idle" /\ pc[s] # "idle" => r = s

\* What requests keep up that follow one another.
Turn == Solo /\ (\A r \in Requests : Stage(r)) /\ OneWorker /\ Versioned /\ Left

IInv == Typed /\ (~overlapped => Turn)
-----------------------------------------------------------------------------
(* Types.                                                                    *)

Outcomes == {"ok", "failed"}

LEMMA Facts == /\ None \notin Workers /\ None \in Versions /\ 0 \in 0..MaxWorkers
               /\ \A n \in Nat : n + 1 \in 1..(n + 1) /\ 0..n \subseteq 0..(n + 1)
                                /\ 1..n \subseteq 1..(n + 1)
BY BoundsAssumption DEF None, Workers, Versions

\* As many requests may create a worker after a step as before it, or fewer.
LEMMA PlannedKept ==
    ASSUME Typed, created' = created, Candidates' \subseteq Candidates
    PROVE  Planned'
<1>1. IsFiniteSet(Candidates)
  BY BoundsAssumption, FS_Subset DEF Candidates
<1>2. /\ Cardinality(Candidates) \in Nat /\ Cardinality(Candidates') \in Nat
      /\ Cardinality(Candidates') <= Cardinality(Candidates)
  BY <1>1, FS_Subset, FS_CardinalityType
<1> QED BY <1>2, BoundsAssumption DEF Typed, TypeOK, Planned

\* One more request may.
LEMMA PlannedMore ==
    ASSUME Typed, Budget, created' = created, NEW r \in Requests, pc[r] = "idle",
           Candidates' \subseteq Candidates \cup {r}
    PROVE  Planned'
<1> DEFINE busy == {s \in Requests : pc[s] # "idle"}
<1>1. IsFiniteSet(busy) /\ Cardinality(busy) \in Nat /\ r \notin busy
  BY BoundsAssumption, FS_Subset, FS_CardinalityType
<1>2. IsFiniteSet(busy \cup {r}) /\ Cardinality(busy \cup {r}) = Cardinality(busy) + 1
  BY <1>1, FS_AddElement
<1>3. Candidates' \subseteq busy \cup {r}
  BY DEF Candidates
<1>4. Cardinality(Candidates') \in Nat /\ Cardinality(Candidates') <= Cardinality(busy) + 1
  BY <1>2, <1>3, FS_Subset, FS_CardinalityType
<1>5. created + Cardinality(busy) < MaxWorkers
  BY DEF Budget
<1> QED BY <1>1, <1>4, <1>5, BoundsAssumption DEF Typed, TypeOK, Planned

\* One request has made its worker.
LEMMA PlannedLess ==
    ASSUME Typed, NEW r \in Candidates, created' = created + 1,
           Candidates' \subseteq Candidates \ {r}
    PROVE  Planned' /\ created' \in 0..MaxWorkers
<1>1. IsFiniteSet(Candidates) /\ Cardinality(Candidates) \in Nat
  BY BoundsAssumption, FS_Subset, FS_CardinalityType DEF Candidates
<1>2. IsFiniteSet(Candidates \ {r}) /\ Cardinality(Candidates \ {r}) = Cardinality(Candidates) - 1
  BY <1>1, FS_RemoveElement
<1>3. /\ Cardinality(Candidates') \in Nat
      /\ Cardinality(Candidates') <= Cardinality(Candidates) - 1
  BY <1>2, FS_Subset, FS_CardinalityType
<1> QED BY <1>1, <1>3, BoundsAssumption DEF Typed, TypeOK, Planned

LEMMA TypedInit == Init => Typed
<1> SUFFICES ASSUME Init PROVE Typed
  OBVIOUS
<1>1. TypeOK
  <2>1. overlapped \in BOOLEAN /\ down \in BOOLEAN
    BY DEF Init
  <2>2. /\ 0 \in Versions /\ 0 \in 0..MaxWorkers /\ 0 \in 0..0 /\ {} \in SUBSET (1..0)
    BY BoundsAssumption DEF Versions
  <2>3. /\ loop \in [Workers -> {"new", "checking", "working", "dead"}]
        /\ version \in [Workers -> Versions]
        /\ op \in [Requests -> {"none", "settings", "camera", "shutdown"}]
        /\ pc \in [Requests -> {"idle", "reading", "stopping", "joining", "clearing",
                                "changing", "ensuring", "starting"}]
        /\ handle \in [Requests -> 0..created] /\ target \in [Requests -> Versions]
        /\ answer \in [Requests -> {"ok", "failed"}]
    BY <2>2 DEF Init, None
  <2> QED BY <2>1, <2>2, <2>3 DEF Init, TypeOK, None
<1>2. Locals
  BY DEF Init, Locals
<1>3. Planned
  <2>1. Candidates = {}
    BY DEF Init, Candidates
  <2>2. Cardinality(Candidates) = 0
    BY <2>1, FS_EmptySet
  <2> QED BY <2>2, BoundsAssumption DEF Init, Planned
<1> QED BY <1>1, <1>2, <1>3 DEF Typed

LEMMA TypedStep == Typed /\ [Next]_vars => Typed'
<1> SUFFICES ASSUME Typed, [Next]_vars PROVE Typed'
  OBVIOUS
<1>0. TypeOK /\ Locals /\ Planned
  BY DEF Typed
<1> SUFFICES TypeOK' /\ Locals' /\ Planned'
  BY DEF Typed
<1> USE <1>0, Facts
    DEF Locals, installed, workers, request, ended, store, Candidates
<1>1. ASSUME NEW r \in Requests, BeginSettings(r) PROVE TypeOK' /\ Locals' /\ Planned'
  <2>1. TypeOK'
    BY <1>1, BoundsAssumption DEF BeginSettings, TypeOK, Versions
  <2>2. Locals'
    BY <1>1 DEF BeginSettings, TypeOK
  <2>3. Planned'
    BY <1>1, PlannedMore DEF BeginSettings, TypeOK
  <2> QED BY <2>1, <2>2, <2>3
<1>2. ASSUME NEW r \in Requests, BeginCamera(r) PROVE TypeOK' /\ Locals' /\ Planned'
  <2>1. TypeOK' /\ Locals'
    BY <1>2 DEF BeginCamera, TypeOK
  <2>2. Planned'
    BY <1>2, PlannedMore DEF BeginCamera, TypeOK
  <2> QED BY <2>1, <2>2
<1>3. ASSUME NEW r \in Requests, BeginShutdown(r) PROVE TypeOK' /\ Locals' /\ Planned'
  <2>1. TypeOK' /\ Locals'
    BY <1>3 DEF BeginShutdown, TypeOK
  <2>2. Planned'
    BY <1>3, PlannedKept DEF BeginShutdown, TypeOK
  <2> QED BY <2>1, <2>2
<1>4. ASSUME NEW r \in Requests, ReadHandle(r) \/ SetStop(r) \/ Joined(r) \/ Clear(r)
      PROVE  TypeOK' /\ Locals' /\ Planned'
  <2>a. created \in Nat
    BY BoundsAssumption DEF TypeOK
  <2>1. ASSUME ReadHandle(r) PROVE TypeOK' /\ Locals'
    BY <2>1 DEF ReadHandle, TypeOK
  <2>2. ASSUME SetStop(r) PROVE TypeOK' /\ Locals'
    <3>1. handle[r] \in 0..created /\ handle[r] # 0
      BY <2>2 DEF SetStop, TypeOK, None
    <3>2. handle[r] \in 1..created
      BY <2>a, <3>1
    <3>3. stopSet' \in SUBSET (1..created)
      BY <2>2, <3>2 DEF SetStop, TypeOK
    <3> QED BY <2>2, <3>3 DEF SetStop, TypeOK
  <2>3. ASSUME Joined(r) PROVE TypeOK' /\ Locals'
    BY <2>3 DEF Joined, TypeOK
  <2>4. ASSUME Clear(r) PROVE TypeOK' /\ Locals'
    <3>1. thread' \in 0..created
      BY <2>a, <2>4 DEF Clear, None
    <3> QED BY <2>4, <3>1 DEF Clear, TypeOK
  <2>5. TypeOK' /\ Locals'
    BY <1>4, <2>1, <2>2, <2>3, <2>4
  <2>6. Planned'
    BY <1>4, PlannedKept DEF ReadHandle, SetStop, Joined, Clear, TypeOK
  <2> QED BY <2>5, <2>6
<1>5. ASSUME NEW r \in Requests, Install(r) \/ EditCamera(r)
      PROVE  TypeOK' /\ Locals' /\ Planned'
  <2>a. active' \in SUBSET Cameras /\ bundle' \in Versions
        /\ UNCHANGED <<store, thread, stopSet, workers, op, handle, target, answer, ended>>
        /\ state' \in {"required", "ready", "running", "error", "stopped"}
        /\ op[r] # "shutdown" /\ pc[r] = "changing" /\ pc' = [pc EXCEPT ![r] = "ensuring"]
    BY <1>5 DEF Install, EditCamera, TypeOK
  <2>1. TypeOK' /\ Locals'
    BY <2>a DEF TypeOK
  <2>2. Planned'
    BY <1>5, PlannedKept DEF Install, EditCamera, TypeOK
  <2> QED BY <2>1, <2>2
<1>6. ASSUME NEW r \in Requests, NEW result \in Outcomes, pc[r] # "idle", Done(r, result),
             UNCHANGED <<saved, ended, created, version, active>>,
             bundle' \in {bundle, None}, thread' \in {thread, None}, stopSet' = stopSet,
             state' \in {"required", "ready", "running", "error", "stopped"},
             loop' \in [Workers -> {"new", "checking", "working", "dead"}],
             \A w \in Workers : w > created => loop'[w] = "new"
      PROVE  TypeOK' /\ Locals' /\ Planned'
  <2>1. TypeOK'
    BY <1>6 DEF Done, TypeOK, Outcomes, None
  <2>2. Locals'
    BY <1>6 DEF Done, TypeOK
  <2>3. Planned'
    BY <1>6, PlannedKept DEF Done, TypeOK
  <2> QED BY <2>1, <2>2, <2>3
<1>7. ASSUME NEW r \in Requests,
             \/ JoinTimesOut(r) \/ JoinTooEarly(r) \/ BuildFails(r) \/ MarkStopped(r)
             \/ EnsureNothing(r)
      PROVE  TypeOK' /\ Locals' /\ Planned'
  <2>1. PICK result \in Outcomes : Done(r, result)
    BY <1>7 DEF JoinTimesOut, JoinTooEarly, BuildFails, MarkStopped, EnsureNothing, Outcomes
  <2>2. /\ pc[r] # "idle" /\ UNCHANGED <<saved, ended, created, version, active, loop, stopSet, thread>>
        /\ bundle' \in {bundle, None}
        /\ state' \in {"required", "ready", "running", "error", "stopped"}
    BY <1>7 DEF JoinTimesOut, JoinTooEarly, BuildFails, MarkStopped, EnsureNothing, TypeOK
  <2>3. loop \in [Workers -> {"new", "checking", "working", "dead"}]
    BY DEF TypeOK
  <2> QED BY <2>1, <2>2, <2>3, <1>6
<1>8. ASSUME NEW r \in Requests, Create(r) PROVE TypeOK' /\ Locals' /\ Planned'
  <2>1. Planned' /\ created' \in 0..MaxWorkers
    BY <1>8, PlannedLess DEF Create, TypeOK
  <2>a. created \in Nat /\ created' = created + 1
    BY <1>8, BoundsAssumption DEF Create, TypeOK
  <2>b. /\ 0..created \subseteq 0..created' /\ 1..created \subseteq 1..created'
        /\ thread' \in 0..created'
    BY <1>8, <2>a DEF Create
  <2>c. /\ handle' \in [Requests -> 0..created'] /\ stopSet' \in SUBSET (1..created')
    BY <1>8, <2>a, <2>b DEF Create, TypeOK
  <2>d. /\ UNCHANGED <<store, bundle, active, loop, op, target, answer, ended>>
        /\ state' = "ready" /\ pc' = [pc EXCEPT ![r] = "starting"]
        /\ version' \in [Workers -> Versions]
    BY <1>8 DEF Create, TypeOK
  <2>2. TypeOK'
    BY <2>1, <2>b, <2>c, <2>d DEF TypeOK
  <2>3. Locals'
    BY <1>8, <2>1, BoundsAssumption DEF Create, TypeOK, None, Workers
  <2> QED BY <2>1, <2>2, <2>3
<1>9. ASSUME NEW r \in Requests, Start(r) \/ StartFails(r) PROVE TypeOK' /\ Locals' /\ Planned'
  <2>1. PICK result \in Outcomes : Done(r, result)
    BY <1>9 DEF Start, StartFails, Outcomes
  <2>2. /\ pc[r] # "idle" /\ UNCHANGED <<saved, ended, created, version, active, bundle, stopSet>>
        /\ thread' \in {thread, None}
        /\ state' \in {"required", "ready", "running", "error", "stopped"}
    BY <1>9 DEF Start, StartFails, TypeOK
  <2>3. /\ loop' \in [Workers -> {"new", "checking", "working", "dead"}]
        /\ \A w \in Workers : w > created => loop'[w] = "new"
    BY <1>9, BoundsAssumption DEF Start, StartFails, TypeOK, Workers
  <2> QED BY <2>1, <2>2, <2>3, <1>6
<1>10. ASSUME NEW w \in Workers, CheckStop(w) \/ NoFrame(w) \/ Process(w) \/ PipelineFails(w)
       PROVE  TypeOK' /\ Locals' /\ Planned'
  <2>1. /\ loop' \in [Workers -> {"new", "checking", "working", "dead"}]
        /\ \A v \in Workers : loop[v] = "new" => loop'[v] = "new"
        /\ state' \in {"required", "ready", "running", "error", "stopped"}
        /\ UNCHANGED <<store, bundle, active, thread, stopSet, created, version, request, ended>>
    BY <1>10 DEF CheckStop, NoFrame, Process, PipelineFails, TypeOK
  <2>2. TypeOK' /\ Locals'
    BY <2>1 DEF TypeOK
  <2>3. Planned'
    BY <2>1, PlannedKept
  <2> QED BY <2>2, <2>3
<1>11. CASE UNCHANGED vars
  <2>1. TypeOK' /\ Locals'
    BY <1>11 DEF vars, TypeOK
  <2>2. Planned'
    BY <1>11, PlannedKept DEF vars
  <2> QED BY <2>1, <2>2
<1> QED BY <1>1, <1>2, <1>3, <1>4, <1>5, <1>7, <1>8, <1>9, <1>10, <1>11 DEF Next, RequestStep
-----------------------------------------------------------------------------
(* Requests in turn.                                                         *)

\* While a request is under way, the others are at rest and nothing is left.
LEMMA UnderWay ==
    ASSUME NEW r \in Requests, pc'[r] # "idle",
           \A s \in Requests \ {r} : pc'[s] = "idle" /\ op'[s] = "none",
           Stage(r)', OneWorker', Versioned'
    PROVE  Turn'
<1>1. Solo' /\ ~Idle'
  BY DEF Solo, Idle
<1>2. \A s \in Requests \ {r} : Stage(s)'
  BY DEF Stage
<1> QED BY <1>1, <1>2 DEF Turn, Left

\* When it has ended, all are at rest.
LEMMA AtRest ==
    ASSUME \A s \in Requests : pc'[s] = "idle" /\ op'[s] = "none",
           OneWorker', Versioned', Left'
    PROVE  Turn'
<1>1. Solo' /\ \A s \in Requests : Stage(s)'
  BY DEF Solo, Stage
<1> QED BY <1>1 DEF Turn

LEMMA Ends ==
    ASSUME TypeOK, Locals, Solo, NEW r \in Requests, pc[r] # "idle",
           NEW result \in Outcomes, Done(r, result)
    PROVE  /\ \A s \in Requests : pc'[s] = "idle" /\ op'[s] = "none"
           /\ answer'[r] = result /\ answer' \in [Requests -> Outcomes]
           /\ confirmed' \in {confirmed, target[r]}
           /\ confirmed' # confirmed => op[r] = "settings" /\ confirmed' = target[r]
           /\ op[r] = "settings" /\ result = "ok" =>
                 confirmed' = IF target[r] > confirmed THEN target[r] ELSE confirmed
<1>1. \A s \in Requests \ {r} : pc[s] = "idle" /\ op[s] = "none"
  BY DEF Solo, Locals
<1> QED BY <1>1 DEF Done, TypeOK, Outcomes

\* No worker runs where the manager knows of none.
LEMMA NobodyRuns == ASSUME OneWorker, thread \notin Running PROVE Running = {}
BY DEF OneWorker

LEMMA NoneRuns == None \notin Running
BY Facts DEF Running

LEMMA BeginStep ==
    ASSUME IInv, Typed', ~overlapped', NEW r \in Requests,
           BeginSettings(r) \/ BeginCamera(r) \/ BeginShutdown(r)
    PROVE  Turn'
<1>0. ~overlapped /\ Idle
  <2>1. CASE BeginSettings(r)
    BY <2>1, Zenon DEF BeginSettings
  <2>2. CASE BeginCamera(r)
    BY <2>2, Zenon DEF BeginCamera
  <2>3. CASE BeginShutdown(r)
    BY <2>3 DEF BeginShutdown
  <2> QED BY <2>1, <2>2, <2>3
<1>1. ~overlapped /\ Idle /\ Turn /\ TypeOK /\ Locals /\ TypeOK'
  BY <1>0 DEF IInv, Typed
<1>2. /\ pc'[r] = "reading" /\ \A s \in Requests \ {r} : pc'[s] = "idle" /\ op'[s] = "none"
  BY <1>1 DEF BeginSettings, BeginCamera, BeginShutdown, Idle, TypeOK, Locals
<1>3. Stage(r)'
  BY <1>1 DEF BeginSettings, BeginCamera, BeginShutdown, Stage, TypeOK
<1>4. OneWorker' /\ UNCHANGED <<Running, bundle, version, confirmed>> /\ saved' >= saved
  BY <1>1 DEF BeginSettings, BeginCamera, BeginShutdown, Turn, OneWorker, Running,
              installed, workers, store, TypeOK, Versions
<1>5. Versioned'
  BY <1>1, <1>4 DEF Turn, Versioned, TypeOK, Versions
<1> QED BY <1>2, <1>3, <1>4, <1>5, UnderWay

LEMMA RequestTurn ==
    ASSUME IInv, Typed', ~overlapped', NEW r \in Requests, RequestStep(r)
    PROVE  Turn'
<1> USE DEF installed, workers, request, ended, store
<1>0. /\ ~overlapped /\ Turn /\ TypeOK /\ Locals /\ TypeOK'
      /\ overlapped' = overlapped /\ down' = down /\ saved' = saved
      /\ pc[r] # "idle"
  BY DEF IInv, Typed, RequestStep, ReadHandle, SetStop, Joined, JoinTimesOut, JoinTooEarly, Clear,
         Install, BuildFails, EditCamera, MarkStopped, EnsureNothing, Create, Start, StartFails
<1>a. /\ Solo /\ Stage(r) /\ OneWorker /\ Versioned
      /\ \A s \in Requests \ {r} : pc[s] = "idle" /\ op[s] = "none"
  BY <1>0 DEF Turn, Solo, Locals
<1>b. /\ confirmed \in Nat /\ saved \in Nat /\ bundle \in Nat /\ target[r] \in Nat
      /\ thread \in Nat /\ created \in Nat /\ op[r] \in {"settings", "camera", "shutdown"}
  BY <1>0, BoundsAssumption DEF TypeOK, Versions, Locals
<1>1. CASE ReadHandle(r)
  <2>1. /\ pc'[r] # "idle" /\ \A s \in Requests \ {r} : pc'[s] = "idle" /\ op'[s] = "none"
    BY <1>0, <1>1, <1>a DEF ReadHandle, TypeOK
  <2>2. Stage(r)'
    BY <1>0, <1>1, <1>a DEF ReadHandle, Stage, TypeOK
  <2>3. OneWorker' /\ Versioned'
    BY <1>1, <1>a DEF ReadHandle, OneWorker, Versioned, Running
  <2> QED BY <2>1, <2>2, <2>3, UnderWay
<1>2. CASE SetStop(r) \/ Joined(r)
  <2>1. /\ pc'[r] # "idle" /\ \A s \in Requests \ {r} : pc'[s] = "idle" /\ op'[s] = "none"
    BY <1>0, <1>2, <1>a DEF SetStop, Joined, TypeOK
  <2>2. Stage(r)'
    BY <1>0, <1>2, <1>a DEF SetStop, Joined, Stage, TypeOK, Running
  <2>3. OneWorker' /\ Versioned'
    BY <1>2, <1>a DEF SetStop, Joined, OneWorker, Versioned, Running
  <2> QED BY <2>1, <2>2, <2>3, UnderWay
<1>3. CASE Clear(r)
  <2>1. /\ pc'[r] # "idle" /\ \A s \in Requests \ {r} : pc'[s] = "idle" /\ op'[s] = "none"
    BY <1>0, <1>3, <1>a DEF Clear, TypeOK
  <2>2. Running = {} /\ Running' = {}
    BY <1>3, <1>a, NobodyRuns DEF Clear, Stage, Running
  <2>3. Stage(r)'
    BY <1>0, <1>3, <1>a DEF Clear, Stage, TypeOK
  <2>4. OneWorker' /\ Versioned'
    BY <1>3, <1>a, <2>2 DEF Clear, OneWorker, Versioned
  <2> QED BY <2>1, <2>3, <2>4, UnderWay
<1>4. CASE Install(r) \/ EditCamera(r)
  <2>1. /\ pc'[r] # "idle" /\ \A s \in Requests \ {r} : pc'[s] = "idle" /\ op'[s] = "none"
    BY <1>0, <1>4, <1>a DEF Install, EditCamera, TypeOK
  <2>2. Stage(r)'
    BY <1>0, <1>4, <1>a DEF Install, EditCamera, Stage, TypeOK
  <2>3. UNCHANGED <<Running, thread, version, confirmed, saved>>
        /\ bundle' \in {bundle, target[r]} /\ (bundle' # bundle => op[r] = "settings")
    BY <1>4 DEF Install, EditCamera, Running
  <2>4. OneWorker' /\ Versioned'
    BY <1>a, <1>b, <2>3 DEF OneWorker, Versioned, Stage
  <2> QED BY <2>1, <2>2, <2>4, UnderWay
<1>5. CASE JoinTimesOut(r) \/ JoinTooEarly(r)
  <2>1. Done(r, "failed") /\ "failed" \in Outcomes
    BY <1>5 DEF JoinTimesOut, JoinTooEarly, Outcomes
  <2>2. /\ \A s \in Requests : pc'[s] = "idle" /\ op'[s] = "none"
        /\ answer'[r] = "failed"
    BY <1>0, <1>a, <2>1, Ends
  <2>3. UNCHANGED <<Running, thread, version, confirmed, saved, bundle>>
    BY <1>5, <2>1 DEF JoinTimesOut, JoinTooEarly, Running, Done
  <2>4. OneWorker' /\ Versioned'
    BY <1>a, <2>3 DEF OneWorker, Versioned
  <2>5. Left'
    BY <2>2 DEF Left, AllOk
  <2> QED BY <2>2, <2>4, <2>5, AtRest
<1>6. CASE BuildFails(r) \/ MarkStopped(r) \/ EnsureNothing(r)
  <2>1. Done(r, "ok") /\ "ok" \in Outcomes
    BY <1>6 DEF BuildFails, MarkStopped, EnsureNothing, Outcomes
  <2>2. /\ \A s \in Requests : pc'[s] = "idle" /\ op'[s] = "none"
        /\ confirmed' \in {confirmed, target[r]}
        /\ confirmed' # confirmed => op[r] = "settings" /\ confirmed' = target[r]
    BY <1>0, <1>a, <2>1, Ends
  <2>3. /\ thread = None /\ thread' = None /\ Running' = Running
        /\ UNCHANGED <<version, saved, active>>
        /\ bundle' \in {bundle, None}
    BY <1>6, <1>a DEF BuildFails, MarkStopped, EnsureNothing, Stage, Running
  <2>4. Running = {}
    BY <1>a, <2>3, NobodyRuns, NoneRuns
  <2>5. OneWorker'
    BY <2>3, <2>4 DEF OneWorker
  <2>6. bundle' # None => bundle' >= confirmed'
    <3>1. CASE BuildFails(r)
      BY <3>1 DEF BuildFails
    <3>2. CASE MarkStopped(r)
      BY <3>2, <1>a, <2>2 DEF MarkStopped, Versioned
    <3>3. CASE EnsureNothing(r)
      BY <3>3, <1>a, <1>b, <2>2 DEF EnsureNothing, Versioned, Stage
    <3> QED BY <1>6, <3>1, <3>2, <3>3
  <2>7. Versioned'
    BY <1>a, <1>b, <2>2, <2>3, <2>4, <2>6 DEF Versioned, Stage
  <2>8. ~down' => bundle' = None \/ active' = {}
    BY <1>6, <1>0, <1>a, <2>3 DEF BuildFails, MarkStopped, EnsureNothing, MayStart, Stage
  <2>9. Left'
    BY <2>3, <2>8 DEF Left
  <2> QED BY <2>2, <2>5, <2>7, <2>9, AtRest
<1>7. CASE Create(r)
  <2>1. /\ pc'[r] # "idle" /\ \A s \in Requests \ {r} : pc'[s] = "idle" /\ op'[s] = "none"
    BY <1>0, <1>7, <1>a DEF Create, TypeOK
  <2>2. /\ thread = None /\ thread' = created + 1 /\ handle'[r] = thread'
        /\ thread' \in Workers /\ thread' \notin stopSet'
    BY <1>0, <1>7, <1>a, <1>b DEF Create, Stage, TypeOK, Workers
  <2>3. loop'[thread'] = "new" /\ version'[thread'] = bundle' /\ bundle' # None
    BY <1>0, <1>7, <1>b, <2>2 DEF Create, Locals, TypeOK, MayStart
  <2>4. Running = {} /\ Running' = {}
    BY <1>7, <1>a, <2>2, NobodyRuns, NoneRuns DEF Create, Running
  <2>5. Stage(r)'
    BY <1>0, <1>7, <1>a, <2>2, <2>3 DEF Create, Stage, TypeOK
  <2>6. OneWorker' /\ Versioned'
    BY <1>7, <1>a, <2>4 DEF Create, OneWorker, Versioned
  <2> QED BY <2>1, <2>5, <2>6, UnderWay
<1>8. CASE Start(r)
  <2>1. Done(r, "ok") /\ "ok" \in Outcomes
    BY <1>8 DEF Start, Outcomes
  <2>2. /\ \A s \in Requests : pc'[s] = "idle" /\ op'[s] = "none"
        /\ confirmed' \in {confirmed, target[r]}
        /\ confirmed' # confirmed => op[r] = "settings" /\ confirmed' = target[r]
    BY <1>0, <1>a, <2>1, Ends
  <2>3. /\ UNCHANGED <<thread, bundle, version, saved, stopSet>>
        /\ thread \notin stopSet /\ version[thread] = bundle /\ bundle # None
        /\ loop[thread] = "new" /\ loop' = [loop EXCEPT ![thread] = "checking"]
        /\ op[r] # "shutdown" /\ ~down
    BY <1>0, <1>8, <1>a DEF Start, Stage, Locals
  <2>4. thread \in Workers
    BY <1>0, <1>8, <1>a, <1>b, BoundsAssumption DEF Start, Stage, Locals, TypeOK, Workers, None
  <2>5. Running' = {thread}
    <3>1. Running = {}
      BY <1>a, <2>3, NobodyRuns DEF Running
    <3> QED BY <1>0, <2>3, <2>4, <3>1 DEF Running, TypeOK
  <2>6. bundle >= confirmed'
    BY <1>8, <1>a, <1>b, <2>2, <2>3 DEF Start, Versioned, Stage
  <2>7. OneWorker' /\ Versioned'
    BY <1>a, <1>b, <2>2, <2>3, <2>5, <2>6 DEF OneWorker, Versioned, Stage
  <2>8. Left'
    BY <1>0, <2>3, <2>5 DEF Left
  <2> QED BY <2>2, <2>7, <2>8, AtRest
<1>9. CASE StartFails(r)
  <2>1. Done(r, "failed") /\ "failed" \in Outcomes
    BY <1>9 DEF StartFails, Outcomes
  <2>2. /\ \A s \in Requests : pc'[s] = "idle" /\ op'[s] = "none"
        /\ answer'[r] = "failed"
    BY <1>0, <1>a, <2>1, Ends
  <2>3. /\ UNCHANGED <<bundle, version, saved, confirmed>>
        /\ loop[thread] = "new" /\ loop' = [loop EXCEPT ![thread] = "dead"]
    BY <1>0, <1>9, <1>a, <2>1 DEF StartFails, Stage, Done
  <2>4. Running' = {}
    <3>1. Running = {}
      BY <1>a, <2>3, NobodyRuns DEF Running
    <3> QED BY <1>0, <2>3, <3>1 DEF Running, TypeOK
  <2>5. OneWorker' /\ Versioned'
    BY <1>a, <2>3, <2>4 DEF OneWorker, Versioned
  <2>6. Left'
    BY <2>2 DEF Left, AllOk
  <2> QED BY <2>2, <2>5, <2>6, AtRest
<1> QED BY <1>1, <1>2, <1>3, <1>4, <1>5, <1>6, <1>7, <1>8, <1>9 DEF RequestStep

LEMMA WorkerTurn ==
    ASSUME IInv, ~overlapped', NEW w \in Workers,
           CheckStop(w) \/ NoFrame(w) \/ Process(w) \/ PipelineFails(w)
    PROVE  Turn'
<1> USE DEF installed, workers, request, ended, store
<1>0. /\ ~overlapped /\ Turn /\ TypeOK
      /\ UNCHANGED <<store, bundle, active, thread, stopSet, created, version, request, ended>>
  BY DEF IInv, Typed, CheckStop, NoFrame, Process, PipelineFails
<1>1. w \in Running /\ w = thread
  BY <1>0 DEF CheckStop, NoFrame, Process, PipelineFails, Running, Turn, OneWorker
<1>2. /\ Running' \subseteq Running
      /\ \A v \in Workers \ {w} : loop'[v] = loop[v]
  BY <1>0, <1>1 DEF CheckStop, NoFrame, Process, PipelineFails, Running, TypeOK
<1>3. OneWorker' /\ Versioned' /\ Solo'
  BY <1>0, <1>2 DEF Turn, OneWorker, Versioned, Solo
<1>4. ASSUME NEW r \in Requests PROVE Stage(r)'
  <2>1. Stage(r)
    BY <1>0 DEF Turn
  <2>2. pc[r] \notin {"clearing", "changing", "ensuring", "starting"}
    BY <1>1, <2>1, NoneRuns DEF Stage, Running
  <2> QED BY <1>0, <2>1, <2>2 DEF Stage
<1>5. Left'
  <2> SUFFICES ASSUME Idle, AllOk, down \/ (bundle # None /\ active # {})
               PROVE  ~down /\ \/ thread \in Running' /\ thread \notin stopSet
                               \/ state' = "error" /\ Running' = {}
    BY <1>0 DEF Left, Idle, AllOk
  <2>1. ~down /\ thread \notin stopSet
    BY <1>0, <1>1, NoneRuns DEF Turn, Left
  <2>2. CASE CheckStop(w)
    <3>1. loop'[w] \in {"checking", "working"}
      BY <1>0, <1>1, <2>1, <2>2 DEF CheckStop, TypeOK
    <3> QED BY <1>1, <2>1, <3>1 DEF Running
  <2>3. CASE NoFrame(w) \/ Process(w)
    <3>1. loop'[w] = "checking"
      BY <1>0, <2>3 DEF NoFrame, Process, TypeOK
    <3> QED BY <1>1, <2>1, <3>1 DEF Running
  <2>4. CASE PipelineFails(w)
    <3>1. state' = "error" /\ loop'[w] = "dead"
      BY <1>0, <2>4 DEF PipelineFails, TypeOK
    <3>2. Running' = {}
      BY <1>0, <1>1, <1>2, <3>1 DEF Turn, OneWorker, Running
    <3> QED BY <2>1, <3>1, <3>2
  <2> QED BY <2>2, <2>3, <2>4
<1> QED BY <1>3, <1>4, <1>5 DEF Turn

LEMMA IInvInit == Init => IInv
<1> SUFFICES ASSUME Init PROVE IInv
  OBVIOUS
<1>1. Solo /\ (\A r \in Requests : Stage(r))
  BY DEF Init, Solo, Stage
<1>2. Running = {} /\ confirmed <= saved
  BY DEF Init, Running
<1>3. OneWorker /\ Versioned
  BY <1>2 DEF Init, OneWorker, Versioned
<1>4. Left
  BY DEF Init, Left
<1> QED BY <1>1, <1>3, <1>4, TypedInit DEF IInv, Turn

LEMMA IInvStep == IInv /\ [Next]_vars => IInv'
<1> SUFFICES ASSUME IInv, [Next]_vars PROVE IInv'
  OBVIOUS
<1>1. Typed'
  BY TypedStep DEF IInv
<1> SUFFICES ASSUME ~overlapped' PROVE Turn'
  BY <1>1 DEF IInv
<1>2. ASSUME NEW r \in Requests, BeginSettings(r) \/ BeginCamera(r) \/ BeginShutdown(r)
      PROVE  Turn'
  BY <1>1, <1>2, BeginStep
<1>3. ASSUME NEW r \in Requests, RequestStep(r) PROVE Turn'
  BY <1>1, <1>3, RequestTurn
<1>4. ASSUME NEW w \in Workers, CheckStop(w) \/ NoFrame(w) \/ Process(w) \/ PipelineFails(w)
      PROVE  Turn'
  BY <1>4, WorkerTurn
<1>5. CASE UNCHANGED vars
  <2>1. Turn
    BY <1>5 DEF IInv, vars, ended
  <2> QED BY <1>5, <2>1
          DEF Turn, Solo, Stage, OneWorker, Versioned, Left, Idle, AllOk, Running,
              vars, store, installed, workers, request, ended
<1> QED BY <1>2, <1>3, <1>4, <1>5 DEF Next

LEMMA IInvHolds == Spec => []IInv
BY IInvInit, IInvStep, PTL DEF Spec

\* Requests that follow one another may rely on one worker, on the settings that were
\* confirmed and on a final shutdown, for any number of threads, saves and workers.
THEOREM InTurnHolds == Spec => []Inv
<1>1. IInv => Inv
  <2> SUFFICES ASSUME IInv PROVE Inv
    OBVIOUS
  <2>1. ASSUME ~overlapped PROVE OneWorker /\ SettingsInForce
    BY <2>1 DEF IInv, Turn, Versioned, SettingsInForce
  <2>2. ASSUME ~overlapped PROVE ShutdownIsFinal
    <3> SUFFICES ASSUME down, Idle, AllOk PROVE Running = {}
      BY DEF ShutdownIsFinal, AllOk
    <3>1. thread = None /\ OneWorker
      BY <2>2 DEF IInv, Turn, Left
    <3> QED BY <3>1, NobodyRuns, NoneRuns
  <2> QED BY <2>1, <2>2 DEF Inv, InTurn, IInv, Typed
<1> QED BY <1>1, IInvHolds, PTL

\* When all went well a worker looks at the frames, or the health says that it failed.
THEOREM CamerasAreServed == Spec => []CamerasServed
<1>1. IInv => CamerasServed
  BY DEF IInv, Turn, Left, AllOk, CamerasServed, InferenceHealth
<1> QED BY <1>1, IInvHolds, PTL
=============================================================================
