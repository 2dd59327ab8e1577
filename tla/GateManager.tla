------------------------------ MODULE GateManager ------------------------------
(* GateManager of gate/manager.py: the table of active controllers and the     *)
(* executor that exists while the table is not empty.  Executors come and go,  *)
(* so they are numbered in the order of their creation.  Each one is modelled  *)
(* by what GateRight promises (GateExecutor is shown to implement it): a call  *)
(* is granted the right or denied, the worker moves the gate and gives the     *)
(* right back, and a caller that gives up poisons its executor.                *)
EXTENDS Naturals, FiniteSets

CONSTANTS Gates,         \* identifiers of gate controllers
          Openers,       \* threads that call GateManager.open()
          Nobody,        \* no opener holds the right of an executor
          MaxExecutors   \* bound on the executors ever created

ASSUME ManagerAssumption == /\ Nobody \notin Openers
                            /\ MaxExecutors \in Nat

NoExecutor == 0
Executors  == 1..MaxExecutors

VARIABLES controllers,   \* the gates that have a controller
          executor,      \* the executor in use, or NoExecutor
          created,       \* the executors created so far are 1..created
          retiring,      \* executors whose shutdown() has yet to run
          unstarted,     \* no executor has started since a start failed
          holder, stage, \* per executor: the granted call and what became of it
          poisonedOnes,  \* executors poisoned by a timeout
          stoppedOnes,   \* executors that were shut down
          place,         \* place[o]: where opener o is in open()
          ref            \* ref[o]: the executor that its open() has read

table   == <<controllers, executor, created, retiring, unstarted>>
rights  == <<holder, stage, poisonedOnes, stoppedOnes>>
callers == <<place, ref>>
managerVars == <<table, rights, callers>>
-----------------------------------------------------------------------------
(* Slips, one mistake each; none is part of ManagerNext.                     *)

\* remove() drops the executor and forgets to shut it down.
RemoveLeaks(g) ==
    /\ controllers' = controllers \ {g}
    /\ executor' = IF controllers \ {g} = {} THEN NoExecutor ELSE executor
    /\ UNCHANGED <<created, retiring, unstarted, rights, callers>>

\* A caller that gives up goes on waiting for the command.
NeverAbandon(o) == FALSE

\* apply() replaces a poisoned executor although gates are in use.
ApplyHeals(g) ==
    /\ created < MaxExecutors
    /\ controllers' = controllers \cup {g}
    /\ IF executor = NoExecutor \/ executor \in poisonedOnes
       THEN /\ created' = created + 1
            /\ executor' = created + 1
            /\ retiring' = retiring \cup ({executor} \ {NoExecutor})
            /\ unstarted' = FALSE
       ELSE UNCHANGED <<executor, created, retiring, unstarted>>
    /\ UNCHANGED <<rights, callers>>

-----------------------------------------------------------------------------
ManagerInit == /\ controllers = {}
               /\ executor = NoExecutor
               /\ created = 0
               /\ retiring = {}
               /\ unstarted = FALSE
               /\ holder = [e \in Executors |-> Nobody]
               /\ stage = [e \in Executors |-> "free"]
               /\ poisonedOnes = {} /\ stoppedOnes = {}
               /\ place = [o \in Openers |-> "idle"]
               /\ ref = [o \in Openers |-> NoExecutor]

Apply(g) == /\ executor = NoExecutor => created < MaxExecutors
            /\ controllers' = controllers \cup {g}
            /\ IF executor = NoExecutor
               THEN created' = created + 1 /\ executor' = created + 1 /\ unstarted' = FALSE
               ELSE UNCHANGED <<created, executor, unstarted>>
            /\ UNCHANGED <<retiring, rights, callers>>

\* The controller is stored before the executor's thread is started: a start that
\* raises leaves it there, without an executor.
ApplyFails(g) == /\ executor = NoExecutor
                 /\ controllers' = controllers \cup {g}
                 /\ unstarted' = TRUE
                 /\ UNCHANGED <<executor, created, retiring, rights, callers>>

\* The executor leaves with the last controller; shutdown() follows outside the
\* lock, as Retire.
Remove(g) == /\ controllers' = controllers \ {g}
             /\ IF controllers' = {} /\ executor # NoExecutor
                THEN executor' = NoExecutor /\ retiring' = retiring \cup {executor}
                ELSE UNCHANGED <<executor, retiring>>
             /\ UNCHANGED <<created, unstarted, rights, callers>>

Shutdown == /\ controllers' = {}
            /\ executor' = NoExecutor
            /\ retiring' = retiring \cup ({executor} \ {NoExecutor})
            /\ UNCHANGED <<created, unstarted, rights, callers>>

Retire(e) == /\ e \in retiring
             /\ retiring' = retiring \ {e}
             /\ stoppedOnes' = stoppedOnes \cup {e}
             /\ UNCHANGED <<controllers, executor, created, unstarted, holder, stage, poisonedOnes,
                            callers>>
-----------------------------------------------------------------------------
\* open(): the lock section that reads controller and executor, the health check,
\* which asks the adapter and may fail, and the call of the executor that was read.
LookUp(o) == /\ place[o] = "idle"
             /\ \E g \in Gates : g \in controllers
             /\ executor # NoExecutor
             /\ place' = [place EXCEPT ![o] = "checking"]
             /\ ref' = [ref EXCEPT ![o] = executor]
             /\ UNCHANGED <<table, rights>>

Healthy(o) == /\ place[o] = "checking"
              /\ place' = [place EXCEPT ![o] = "asking"]
              /\ UNCHANGED <<table, rights, ref>>

\* open() returns: its local variables are gone.
Leave(o) == /\ place' = [place EXCEPT ![o] = "idle"]
            /\ ref' = [ref EXCEPT ![o] = NoExecutor]

HealthFails(o) == /\ place[o] = "checking"
                  /\ Leave(o)
                  /\ UNCHANGED <<table, rights>>

Denied(o) == LET e == ref[o] IN
             /\ place[o] = "asking"
             /\ e \in stoppedOnes \cup poisonedOnes \/ holder[e] # Nobody
             /\ Leave(o)
             /\ UNCHANGED <<table, rights>>

Granted(o) == LET e == ref[o] IN
              /\ place[o] = "asking"
              /\ e \notin stoppedOnes \cup poisonedOnes
              /\ holder[e] = Nobody
              /\ holder' = [holder EXCEPT ![e] = o]
              /\ stage' = [stage EXCEPT ![e] = "queued"]
              /\ place' = [place EXCEPT ![o] = "waiting"]
              /\ UNCHANGED <<table, poisonedOnes, stoppedOnes, ref>>

\* The answer is there once the executor has given the right back.
Return(o) == /\ place[o] = "waiting"
             /\ holder[ref[o]] # o
             /\ Leave(o)
             /\ UNCHANGED <<table, rights>>

Abandon(o) == /\ place[o] = "waiting"
              /\ poisonedOnes' = poisonedOnes \cup {ref[o]}
              /\ Leave(o)
              /\ UNCHANGED <<table, holder, stage, stoppedOnes>>

\* A stopped executor may find its queue taken by the pill.
Withdrawn(o) == LET e == ref[o] IN
                /\ place[o] = "waiting"
                /\ holder[e] = o /\ stage[e] = "queued"
                /\ e \in stoppedOnes
                /\ holder' = [holder EXCEPT ![e] = Nobody]
                /\ stage' = [stage EXCEPT ![e] = "free"]
                /\ Leave(o)
                /\ UNCHANGED <<table, poisonedOnes, stoppedOnes>>
-----------------------------------------------------------------------------
\* The worker of executor e.  A stopped worker may still execute what it was
\* given.
StartMove(e) == /\ stage[e] = "queued"
                /\ stage' = [stage EXCEPT ![e] = "moving"]
                /\ UNCHANGED <<table, holder, poisonedOnes, stoppedOnes, callers>>

EndMove(e) == /\ stage[e] = "moving"
              /\ stage' = [stage EXCEPT ![e] = "free"]
              /\ holder' = [holder EXCEPT ![e] = Nobody]
              /\ UNCHANGED <<table, poisonedOnes, stoppedOnes, callers>>

HealthCheck(o) == Healthy(o) \/ HealthFails(o)

\* What a call does once its health check has answered: the executor's open().
OpenerStep(o) == Denied(o) \/ Granted(o) \/ Return(o) \/ Abandon(o) \/ Withdrawn(o)

ManagerNext == \/ \E g \in Gates : Apply(g) \/ ApplyFails(g) \/ Remove(g)
               \/ Shutdown
               \/ \E e \in Executors : Retire(e) \/ StartMove(e) \/ EndMove(e)
               \/ \E o \in Openers : LookUp(o) \/ HealthCheck(o) \/ OpenerStep(o)

\* A thread inside the executor's open() or shutdown() goes on: it takes locks held
\* for a few assignments and waits with a timeout.  A health check and a worker are
\* in their adapter, which may never answer.
ManagerFairness == /\ \A o \in Openers : WF_managerVars(OpenerStep(o))
                   /\ \A e \in Executors : WF_managerVars(Retire(e))

ManagerSpec == ManagerInit /\ [][ManagerNext]_managerVars /\ ManagerFairness
-----------------------------------------------------------------------------
(* Properties.                                                               *)

\* The state is well formed; an executor that was never created has no state.
ManagerTypeOK == /\ controllers \in SUBSET Gates
                 /\ created \in 0..MaxExecutors
                 /\ executor \in {NoExecutor} \cup 1..created
                 /\ retiring \in SUBSET (1..created)
                 /\ unstarted \in BOOLEAN
                 /\ poisonedOnes \in SUBSET (1..created)
                 /\ stoppedOnes \in SUBSET (1..created)
                 /\ holder \in [Executors -> Openers \cup {Nobody}]
                 /\ stage \in [Executors -> {"free", "queued", "moving"}]
                 /\ place \in [Openers -> {"idle", "checking", "asking", "waiting"}]
                 /\ ref \in [Openers -> 0..created]
                 /\ \A o \in Openers : place[o] = "idle" <=> ref[o] = NoExecutor

\* The manager has an executor only while a gate is active, and an active gate is
\* without one only if no executor has started since a start failed: opening is then
\* refused until the next apply() or until the table has been emptied.
WorkerWithGates == /\ executor # NoExecutor => controllers # {} /\ ~unstarted
                   /\ controllers # {} => executor # NoExecutor \/ unstarted

\* No executor is lost: one that was created is in use, or has been shut down, or
\* the thread that took it out of use still holds it for that.  The
\* executor in use is none of those that were, or will be, shut down.
NoWorkerLost == /\ \A e \in 1..created : e = executor \/ e \in retiring \/ e \in stoppedOnes
                /\ executor \notin retiring \cup stoppedOnes

\* Executors follow the gates and none is lost: what each step of the manager preserves.
Inv == ManagerTypeOK /\ WorkerWithGates /\ NoWorkerLost

\* A timeout bars every gate until the operator has removed all of them: no other
\* step puts another executor in the place of a poisoned one.
PoisonSticks ==
    [][(executor' # executor /\ executor \in poisonedOnes) => controllers' = {}]_managerVars

\* Every call of open() whose health check has answered comes back, although its
\* executor is retired, poisoned or stuck in an adapter.  The health check has no
\* timeout: a call may stay in it for ever.
OpenReturns == \A o \in Openers : place[o] \in {"asking", "waiting"} ~> place[o] = "idle"

\* An executor taken out of use is told to stop, whatever its worker is doing.
RetiredStops == \A e \in Executors : e \in retiring ~> e \in stoppedOnes

\* Calls and retirements come to an end.
ManagerProgress == OpenReturns /\ RetiredStops

=============================================================================
