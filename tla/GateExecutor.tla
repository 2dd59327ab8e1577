----------------------------- MODULE GateExecutor -----------------------------
(* GateCommandExecutor of gate/manager.py: a queue of capacity one, one daemon *)
(* worker, and the flags busy, poisoned and stopped behind a lock.  Callers of *)
(* open(), the worker and the thread inside shutdown() interleave between any  *)
(* two lock sections, queue operations and adapter calls.                      *)
(*                                                                             *)
(* A command is named by the caller that made it: a caller has at most one     *)
(* command that the worker may still execute (CommandOwned below says so).     *)
EXTENDS Naturals, FiniteSets

CONSTANTS Callers,   \* the threads that call open()
          Empty,     \* the queue or the worker holds nothing
          Pill       \* the None that shutdown() puts into the queue

ASSUME TokensAssumption == /\ Empty \notin Callers
                           /\ Pill \notin Callers
                           /\ Empty # Pill

VARIABLES slot,      \* the queue of capacity one
          busy, poisoned, stopped,
          pc,        \* pc[c]: where caller c is in open()
          worker,    \* where the worker is in _run()
          current,   \* the command the worker has taken
          outcome,   \* outcome[c]: result or error of c's command
          completed, \* the commands whose completed event is set
          report,    \* report[c]: what open() returned to c, "silent" before it has
          closer     \* where the thread is in shutdown()

flags == <<busy, poisoned, stopped>>
calls == <<pc, report>>
work  == <<worker, current, outcome, completed>>
vars  == <<slot, flags, calls, work, closer>>

\* A result with accepted = True, and everything else open() makes a rejection of:
\* a refusal, an exception, no result at all.
Outcomes == {"accepted", "failed"}
-----------------------------------------------------------------------------
(* Slips.  Each operator is an action of this module with one mistake that a  *)
(* change of the code could make; none is part of Next.  They show that the   *)
(* properties at the end of the module depend on the line they break.         *)

\* A timeout is reported and nothing else.
TimeoutForgotten(c) == /\ pc[c] = "timedOut"
                       /\ pc' = [pc EXCEPT ![c] = "idle"]
                       /\ report' = [report EXCEPT ![c] = "timeout"]
                       /\ UNCHANGED <<slot, flags, work, closer>>

\* open() does not look at the error of the command.
ReturnUnchecked(c) == /\ pc[c] = "waiting"
                      /\ c \in completed
                      /\ pc' = [pc EXCEPT ![c] = "idle"]
                      /\ report' = [report EXCEPT ![c] = "accepted"]
                      /\ UNCHANGED <<slot, flags, work, closer>>

\* completed.wait() without a timeout.
WaitForEver(c) == FALSE

-----------------------------------------------------------------------------
Init == /\ slot = Empty
        /\ busy = FALSE /\ poisoned = FALSE /\ stopped = FALSE
        /\ pc = [c \in Callers |-> "idle"]
        /\ worker = "polling"
        /\ current = Empty
        /\ outcome = [c \in Callers |-> "none"]
        /\ completed = {}
        /\ report = [c \in Callers |-> "none"]
        /\ closer = "none"

\* The first lock section of open() turns a call away with one of three codes.
Closed == stopped \/ poisoned

Deny(c) == /\ pc[c] = "idle"
           /\ Closed \/ busy
           /\ report' = [report EXCEPT ![c] = "denied"]
           /\ UNCHANGED <<slot, flags, pc, work, closer>>

Claim(c) == /\ pc[c] = "idle"
            /\ ~Closed /\ ~busy
            /\ busy' = TRUE
            /\ pc' = [pc EXCEPT ![c] = "claimed"]
            /\ report' = [report EXCEPT ![c] = "silent"]
            /\ outcome' = [outcome EXCEPT ![c] = "none"]
            /\ completed' = completed \ {c}
            /\ UNCHANGED <<slot, poisoned, stopped, worker, current, closer>>

Enqueue(c) == /\ pc[c] = "claimed"
              /\ slot = Empty
              /\ slot' = c
              /\ pc' = [pc EXCEPT ![c] = "waiting"]
              /\ UNCHANGED <<flags, report, work, closer>>

EnqueueFails(c) == /\ pc[c] = "claimed"
                   /\ slot # Empty
                   /\ pc' = [pc EXCEPT ![c] = "full"]
                   /\ UNCHANGED <<slot, flags, report, work, closer>>

GiveUp(c) == /\ pc[c] = "full"
             /\ busy' = FALSE
             /\ pc' = [pc EXCEPT ![c] = "idle"]
             /\ report' = [report EXCEPT ![c] = "denied"]
             /\ UNCHANGED <<slot, poisoned, stopped, work, closer>>

ReturnResult(c) == /\ pc[c] = "waiting"
                   /\ c \in completed
                   /\ pc' = [pc EXCEPT ![c] = "idle"]
                   /\ report' = [report EXCEPT ![c] = outcome[c]]
                   /\ UNCHANGED <<slot, flags, work, closer>>

\* completed.wait(timeout) answers False only while the event is still clear.
TimeOut(c) == /\ pc[c] = "waiting"
              /\ c \notin completed
              /\ pc' = [pc EXCEPT ![c] = "timedOut"]
              /\ UNCHANGED <<slot, flags, report, work, closer>>

Poison(c) == /\ pc[c] = "timedOut"
             /\ poisoned' = TRUE
             /\ pc' = [pc EXCEPT ![c] = "idle"]
             /\ report' = [report EXCEPT ![c] = "timeout"]
             /\ UNCHANGED <<slot, busy, stopped, work, closer>>

CallerStep(c) == \/ Enqueue(c) \/ EnqueueFails(c) \/ GiveUp(c)
                 \/ ReturnResult(c) \/ TimeOut(c) \/ Poison(c)
-----------------------------------------------------------------------------
\* shutdown(): the lock section, the pill that a full queue swallows, and the
\* join that gives up after half a second.
SetStopped == /\ closer = "none"
              /\ stopped' = TRUE
              /\ closer' = "offering"
              /\ UNCHANGED <<slot, busy, poisoned, calls, work>>

OfferPill == /\ closer = "offering"
             /\ slot' = IF slot = Empty THEN Pill ELSE slot
             /\ closer' = "joining"
             /\ UNCHANGED <<flags, calls, work>>

JoinReturns == /\ closer = "joining"
               /\ closer' = "done"
               /\ UNCHANGED <<slot, flags, calls, work>>
-----------------------------------------------------------------------------
\* The worker.  The one-second get() raises Empty only if the queue is empty.
Take == /\ worker = "polling"
        /\ slot # Empty
        /\ slot' = Empty
        /\ IF slot = Pill
           THEN worker' = "exited" /\ UNCHANGED current
           ELSE worker' = "opening" /\ current' = slot
        /\ UNCHANGED <<flags, calls, outcome, completed, closer>>

PollTimesOut == /\ worker = "polling"
                /\ slot = Empty
                /\ worker' = "checking"
                /\ UNCHANGED <<slot, flags, calls, current, outcome, completed, closer>>

CheckStopped == /\ worker = "checking"
                /\ worker' = IF stopped THEN "exited" ELSE "polling"
                /\ UNCHANGED <<slot, flags, calls, current, outcome, completed, closer>>

\* controller.open(): the adapter moves the gate and may take for ever.
AdapterReturns == /\ worker = "opening"
                  /\ \E r \in Outcomes : outcome' = [outcome EXCEPT ![current] = r]
                  /\ worker' = "releasing"
                  /\ UNCHANGED <<slot, flags, calls, current, completed, closer>>

Release == /\ worker = "releasing"
           /\ busy' = FALSE
           /\ worker' = "signalling"
           /\ UNCHANGED <<slot, poisoned, stopped, calls, current, outcome, completed, closer>>

Signal == /\ worker = "signalling"
          /\ completed' = completed \cup {current}
          /\ worker' = "polling"
          /\ current' = Empty
          /\ UNCHANGED <<slot, flags, calls, outcome, closer>>

WorkerStep == Take \/ PollTimesOut \/ CheckStopped \/ Release \/ Signal

Next == \/ \E c \in Callers : Deny(c) \/ Claim(c) \/ CallerStep(c)
        \/ SetStopped \/ OfferPill \/ JoinReturns
        \/ WorkerStep \/ AdapterReturns

\* Threads are scheduled; nobody promises that an adapter answers, that a
\* caller calls or that shutdown() is called.
Fairness == /\ \A c \in Callers : WF_vars(CallerStep(c))
            /\ WF_vars(WorkerStep)

Spec == Init /\ [][Next]_vars /\ Fairness
-----------------------------------------------------------------------------
(* Properties.                                                               *)

\* The state is well formed, and the worker holds a command exactly while it
\* executes, releases or signals one: a pill never reaches an adapter.
TypeOK == /\ slot \in Callers \cup {Empty, Pill}
          /\ busy \in BOOLEAN /\ poisoned \in BOOLEAN /\ stopped \in BOOLEAN
          /\ pc \in [Callers -> {"idle", "claimed", "full", "waiting", "timedOut"}]
          /\ worker \in {"polling", "checking", "opening", "releasing", "signalling", "exited"}
          /\ current \in Callers \cup {Empty}
          /\ worker \in {"opening", "releasing", "signalling"} <=> current \in Callers
          /\ outcome \in [Callers -> Outcomes \cup {"none"}]
          /\ completed \in SUBSET Callers
          /\ report \in [Callers -> Outcomes \cup {"none", "silent", "denied", "timeout"}]
          /\ closer \in {"none", "offering", "joining", "done"}

\* Where a command can be between the claim of busy and its release.
Flights == {<<"caller", c>> : c \in {d \in Callers : pc[d] \in {"claimed", "full"}}}
           \cup {<<"queue", c>> : c \in {slot} \cap Callers}
           \cup {<<"worker", c>> : c \in {d \in Callers :
                    worker \in {"opening", "releasing"} /\ current = d}}

\* The boolean busy is a mutual exclusion lock that one thread takes and another
\* gives back: at most one command is between the two, in one place only, and
\* busy is set exactly while there is one.
SingleFlight == /\ \A f, g \in Flights : f = g
                /\ busy <=> Flights # {}

\* A command that the worker may still execute has its caller blocked on it, or
\* that caller's timeout has poisoned the executor or is about to.  No gate moves
\* behind the back of a caller that was given any other answer, and no caller
\* starts to wait for an event that is set already.  The same
\* command is never queued and at the worker.
CommandOwned ==
    \A c \in Callers :
        /\ ~(c = slot /\ c = current)
        /\ c \in {slot, current} =>
             \/ pc[c] = "waiting" /\ c \notin completed
             \/ pc[c] = "timedOut"
             \/ pc[c] = "idle" /\ poisoned
        /\ pc[c] = "claimed" => c \notin completed

\* What open() and the worker rely on besides: a pill, and with it a full queue,
\* only follows a stop, and a worker that ended was stopped.
StopExplains == /\ slot = Pill => stopped
                /\ \A c \in Callers : pc[c] = "full" => stopped
                /\ closer # "none" => stopped
                /\ worker = "exited" => stopped

\* All that is always true of the executor, which each of its steps preserves.
IndInv == TypeOK /\ SingleFlight /\ CommandOwned /\ StopExplains

\* The caller whose command is in flight.
Holder == IF Flights = {} THEN Empty ELSE (CHOOSE f \in Flights : TRUE)[2]

\* The executor implements the abstract right to move the gate: a claim of busy
\* is the grant, the worker's release gives it back, and the three codes that
\* turn a call away are one denial.
Right == INSTANCE GateRight WITH
            Nobody <- Empty,
            holder <- Holder,
            closed <- Closed,
            fate   <- outcome,
            told   <- report

\* Every step of the executor is a step of GateRight or none.
ImplementsGateRight == Right!Spec

\* A call of open() comes back even if the adapter never answers, the worker has
\* gone or the queue holds the pill.
EveryCallReturns == \A c \in Callers : pc[c] # "idle" ~> pc[c] = "idle"

\* The executor never answers BUSY for ever while it looks healthy: busy is given
\* back, or the timeout of the call that holds it poisons the executor.
NeverWedged == busy ~> (~busy \/ poisoned)

\* A stopped worker ends although the pill may be lost to a full queue, unless
\* the adapter never answers.
StoppedWorkerEnds == [](([]<>(worker # "opening") /\ stopped) => <>(worker = "exited"))

\* Nobody is left waiting: callers, the lock and the worker all get on.
Progress == EveryCallReturns /\ NeverWedged /\ StoppedWorkerEnds
=============================================================================
