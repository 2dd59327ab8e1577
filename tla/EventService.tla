------------------------------ MODULE EventService ------------------------------
(* EventService of events/service.py: publishers that never wait, a bounded      *)
(* queue, and one audit worker that writes each event with retries, prunes old   *)
(* rows at most once a day and hands the event to the clients.  Publishers, the  *)
(* worker, settings requests and the shutdown interleave between any two lock    *)
(* sections, queue operations and transactions.                                  *)
EXTENDS Naturals, Sequences, FiniteSets, Functions

CONSTANTS Publishers,  \* the threads that publish events
          Capacity,    \* of the queue
          MaxEvents,   \* bound on the events published
          MaxAttempts, \* len(PERSIST_RETRY_DELAYS_SECONDS) + 1
          Retentions,  \* the values of event_retention_days, in days
          MaxDays      \* bound on the days that pass

ASSUME EventAssumption == /\ Capacity \in Nat \ {0} /\ MaxEvents \in Nat
                          /\ MaxAttempts \in Nat \ {0} /\ MaxDays \in Nat
                          /\ Retentions # {} /\ Retentions \subseteq Nat \ {0}

Events == 1..MaxEvents
Days   == 0..MaxDays
None   == 0   \* no event, or no retention read

VARIABLES main,      \* where the lifespan is: start(), running, shutdown(), the exit
          handle,    \* _thread is not None
          stopped,   \* _stop
          queue,
          worker,    \* where the worker is in _run()
          current,   \* the event the worker has taken
          attempt,   \* of _persist_with_retry()
          cutoff,    \* the retention that _prune_if_due() has read
          pc,        \* pc[p]: where p is in publish()
          draft,     \* draft[p]: the event p publishes
          count,     \* how many events were created
          created,   \* created[e]: the day in the timestamp of e
          rows,      \* the events with a row in the database, or several
          retention, lastError,
          fresh,     \* _last_retention_check is set and less than a day ago
          dropped, persisted, \* the events behind _dropped and _persisted
          failed,    \* the events given up, which _failed counts
          failures,  \* _failed
          unpruned,  \* history: the prunings that failed, which _failed counts too
          shown,     \* the events handed to the broker
          ever,      \* history: the events that were ever committed
          pruned,    \* history: the check that is still fresh deleted what it should
          day

life   == <<main, handle, stopped>>
work   == <<worker, current, attempt, cutoff>>
drafts == <<pc, draft, count, created>>
policy == <<retention, fresh>>
table  == <<rows, ever>>
counts == <<dropped, persisted, failed, failures, unpruned>>
vars   == <<life, queue, work, drafts, policy, table, counts, lastError, shown, pruned, day>>
-----------------------------------------------------------------------------
(* Slips, one mistake each; none is part of Next.                            *)

\* The loop ends at the stop event, with events still in the queue.
EndUndrained == /\ worker = "polling"
                /\ stopped
                /\ worker' = "ended"
                /\ UNCHANGED <<life, queue, current, attempt, cutoff, drafts, policy, table,
                               counts, lastError, shown, pruned, day>>

\* A queue without maxsize.
PutBeyond(p) == /\ pc[p] = "accepted"
                /\ queue' = Append(queue, draft[p])
                /\ pc' = [pc EXCEPT ![p] = "idle"]
                /\ draft' = [draft EXCEPT ![p] = None]
                /\ UNCHANGED <<life, work, count, created, policy, table, counts, lastError,
                               shown, pruned, day>>

\* The last failure ends the attempts without a trace.
GiveUpSilently == /\ lastError' = "failure"
                  /\ worker' = "polling" /\ current' = None /\ attempt' = 1
                  /\ UNCHANGED <<persisted, failed, failures, unpruned>>

\* A change of the retention waits for the next day.
ConfigureLater(r) == /\ main = "up"
                     /\ retention # r
                     /\ retention' = r
                     /\ UNCHANGED <<fresh, life, queue, work, drafts, table, counts,
                                    lastError, shown, pruned, day>>

\* persist() flushes and does not commit.
FlushOnly(e) == UNCHANGED table
-----------------------------------------------------------------------------
Alive == worker \notin {"none", "ended", "died", "cut"}

Init == /\ main = "new" /\ handle = FALSE /\ stopped = FALSE
        /\ queue = <<>>
        /\ worker = "none" /\ current = None /\ attempt = 1
        /\ cutoff = None
        /\ retention \in Retentions /\ fresh = FALSE
        /\ pc = [p \in Publishers |-> "idle"]
        /\ draft = [p \in Publishers |-> None]
        /\ count = 0
        /\ created = [e \in Events |-> 0]
        /\ rows = {} /\ ever = {}
        /\ lastError = "none"
        /\ dropped = {} /\ persisted = {} /\ failed = {}
        /\ failures = 0 /\ unpruned = 0
        /\ shown = {}
        /\ pruned = FALSE
        /\ day = 0
-----------------------------------------------------------------------------
(* The lifespan: start() and shutdown().                                     *)

Start == /\ main = "new"
         /\ main' = "up" /\ handle' = TRUE
         /\ worker' = "polling"
         /\ UNCHANGED <<stopped, queue, current, attempt, cutoff, drafts, policy, table, counts,
                        lastError, shown, pruned, day>>

SetStop == /\ main = "up"
           /\ main' = "joining" /\ stopped' = TRUE
           /\ UNCHANGED <<handle, queue, work, drafts, policy, table, counts, lastError,
                          shown, pruned, day>>

\* join() returns when the worker has ended, or after its timeout.
LeaveJoin == /\ main = "joining"
             /\ main' = "joined"
             /\ UNCHANGED <<handle, stopped, queue, work, drafts, policy, table, counts,
                            lastError, shown, pruned, day>>

Release == /\ main = "joined"
           /\ main' = "down"
           /\ IF Alive THEN lastError' = "stuck" /\ UNCHANGED handle
                       ELSE handle' = FALSE /\ UNCHANGED lastError
           /\ UNCHANGED <<stopped, queue, work, drafts, policy, table, counts, shown, pruned, day>>

\* The process ends some time after the lifespan.  Its worker is a daemon thread: one
\* that outlived the join is cut off wherever it is.
Exit == /\ main = "down"
        /\ main' = "exited"
        /\ worker' = IF Alive THEN "cut" ELSE worker
        /\ UNCHANGED <<handle, stopped, queue, current, attempt, cutoff, drafts, policy, table,
                       counts, lastError, shown, pruned, day>>

MainStep == Start \/ SetStop \/ LeaveJoin \/ Release \/ Exit
-----------------------------------------------------------------------------
(* publish().                                                                *)

\* A new event, stamped with the time of day, and the first lock section.
Check(p) == /\ pc[p] = "idle" /\ main \notin {"new", "exited"}
            /\ count < MaxEvents
            /\ count' = count + 1
            /\ draft' = [draft EXCEPT ![p] = count']
            /\ created' = [created EXCEPT ![count'] = day]
            /\ pc' = [pc EXCEPT ![p] = IF handle /\ ~stopped THEN "accepted" ELSE "refused"]
            /\ UNCHANGED <<life, queue, work, policy, table, counts, lastError, shown, pruned, day>>

Put(p) == /\ pc[p] = "accepted" /\ main # "exited"
          /\ Len(queue) < Capacity
          /\ queue' = Append(queue, draft[p])
          /\ pc' = [pc EXCEPT ![p] = "idle"]
          /\ draft' = [draft EXCEPT ![p] = None]
          /\ UNCHANGED <<life, work, count, created, policy, table, counts, lastError,
                         shown, pruned, day>>

PutFails(p) == /\ pc[p] = "accepted" /\ main # "exited"
               /\ Len(queue) >= Capacity
               /\ pc' = [pc EXCEPT ![p] = "refused"]
               /\ UNCHANGED <<life, queue, work, draft, count, created, policy, table, counts,
                              lastError, shown, pruned, day>>

RecordDrop(p) == /\ pc[p] = "refused" /\ main # "exited"
                 /\ dropped' = dropped \cup {draft[p]}
                 /\ lastError' = "drop"
                 /\ pc' = [pc EXCEPT ![p] = "idle"]
                 /\ draft' = [draft EXCEPT ![p] = None]
                 /\ UNCHANGED <<life, queue, work, count, created, policy, table,
                                persisted, failed, failures, unpruned, shown, pruned, day>>

PublisherStep(p) == Check(p) \/ Put(p) \/ PutFails(p) \/ RecordDrop(p)
-----------------------------------------------------------------------------
(* The worker.                                                               *)

Take == /\ worker = "polling"
        /\ queue # <<>>
        /\ current' = Head(queue) /\ queue' = Tail(queue)
        /\ worker' = "persisting" /\ attempt' = 1
        /\ UNCHANGED <<life, cutoff, drafts, policy, table, counts, lastError, shown, pruned, day>>

End == /\ worker = "polling"
       /\ stopped /\ queue = <<>>
       /\ worker' = "ended"
       /\ UNCHANGED <<life, queue, current, attempt, cutoff, drafts, policy, table, counts,
                      lastError, shown, pruned, day>>

\* One transaction writes the row of an event, and the access row it may have.
Commit(e) == /\ rows' = rows \cup {e}
             /\ ever' = ever \cup {e}

Persist == /\ worker = "persisting"
           /\ Commit(current)
           /\ persisted' = persisted \cup {current}
           /\ lastError' = "none"
           /\ worker' = "checking" /\ attempt' = 1
           /\ UNCHANGED <<life, queue, current, cutoff, drafts, policy, dropped, failed, failures,
                          unpruned, shown, pruned, day>>

\* _record_failure(), for an event that could not be written or a failed pruning.
CountFailure == failures' = failures + 1 /\ lastError' = "failure"

GiveUp == /\ CountFailure
          /\ failed' = failed \cup {current}
          /\ worker' = "polling" /\ current' = None /\ attempt' = 1
          /\ UNCHANGED <<persisted, unpruned>>

\* A database error before the commit, or in the refresh() after it.
AttemptFails == /\ worker = "persisting"
                /\ Commit(current) \/ UNCHANGED table
                /\ IF attempt < MaxAttempts
                   THEN /\ attempt' = attempt + 1
                        /\ UNCHANGED <<worker, current, persisted, failed, failures, unpruned, lastError>>
                   ELSE GiveUp
                /\ UNCHANGED <<life, queue, cutoff, drafts, policy, dropped, shown, pruned, day>>

\* Any other exception is not retried.
Break == /\ worker = "persisting"
         /\ GiveUp
         /\ UNCHANGED <<life, queue, cutoff, drafts, policy, table, dropped, shown, pruned, day>>

\* The rollback of a failed transaction may fail itself: nobody catches that.
RollbackRaises == /\ worker \in {"persisting", "deleting"}
                  /\ worker' = "died"
                  /\ UNCHANGED <<life, queue, current, attempt, cutoff, drafts, policy, table, counts,
                                 lastError, shown, pruned, day>>

NotDue == /\ worker = "checking"
          /\ fresh
          /\ worker' = "announcing"
          /\ UNCHANGED <<life, queue, current, attempt, cutoff, drafts, policy, table, counts,
                         lastError, shown, pruned, day>>

\* The check counts as done before anything is deleted.
Due == /\ worker = "checking"
       /\ ~fresh
       /\ fresh' = TRUE /\ pruned' = FALSE
       /\ cutoff' = retention
       /\ worker' = "deleting"
       /\ UNCHANGED <<life, queue, current, attempt, drafts, retention, table, counts, lastError,
                      shown, day>>

Delete == /\ worker = "deleting"
          /\ rows' = {e \in rows : created[e] + cutoff >= day}
          /\ pruned' = TRUE
          /\ worker' = "announcing" /\ cutoff' = None
          /\ UNCHANGED <<life, queue, current, attempt, drafts, policy, ever, counts,
                         lastError, shown, day>>

\* _failed goes up although the event at hand was written.
DeleteFails == /\ worker = "deleting"
               /\ CountFailure
               /\ unpruned' = unpruned + 1
               /\ worker' = "announcing" /\ cutoff' = None
               /\ UNCHANGED <<life, queue, current, attempt, drafts, policy, table, dropped, persisted,
                              failed, shown, pruned, day>>

\* LiveEventBroker.publish() lets no exception of a client through.
Announce == /\ worker = "announcing"
            /\ shown' = shown \cup {current}
            /\ worker' = "polling" /\ current' = None
            /\ UNCHANGED <<life, queue, attempt, cutoff, drafts, policy, table, counts, lastError,
                           pruned, day>>

WorkerStep == \/ Take \/ End \/ Persist \/ AttemptFails \/ Break \/ RollbackRaises
              \/ NotDue \/ Due \/ Delete \/ DeleteFails \/ Announce
-----------------------------------------------------------------------------
Configure(r) == /\ main = "up"
                /\ retention # r
                /\ retention' = r /\ fresh' = FALSE /\ pruned' = FALSE
                /\ UNCHANGED <<life, queue, work, drafts, table, counts, lastError, shown, day>>

\* Events and shutdowns take seconds: a day passes while none is under way.
Quiet == main = "up" /\ worker = "polling" /\ queue = <<>> /\ \A p \in Publishers : pc[p] = "idle"

NextDay == /\ Quiet
           /\ day < MaxDays
           /\ day' = day + 1 /\ fresh' = FALSE /\ pruned' = FALSE
           /\ UNCHANGED <<life, queue, work, drafts, retention, table, counts, lastError, shown>>

Next == \/ MainStep \/ WorkerStep \/ NextDay
        \/ \E p \in Publishers : PublisherStep(p)
        \/ \E r \in Retentions : Configure(r)

\* While the process runs its threads go on: a transaction ends or fails after the
\* busy timeout of the database.  Neither a join that waits for the worker nor the
\* end of the process is fair.
Fairness == /\ WF_vars(WorkerStep)
            /\ \A p \in Publishers : WF_vars(Put(p) \/ PutFails(p) \/ RecordDrop(p))

Spec == Init /\ [][Next]_vars /\ Fairness
-----------------------------------------------------------------------------
\* What the health of the system says of the service.
EventHealth == CASE ~Alive -> "UNHEALTHY"
                 [] Alive /\ lastError # "none" -> "DEGRADED"
                 [] OTHER -> "HEALTHY"
-----------------------------------------------------------------------------
(* Properties.                                                               *)

\* Every variable stays in its range, the queue within its capacity.
TypeOK == /\ main \in {"new", "up", "joining", "joined", "down", "exited"}
          /\ handle \in BOOLEAN /\ stopped \in BOOLEAN /\ pruned \in BOOLEAN
          /\ queue \in Seq(Events) /\ Len(queue) <= Capacity
          /\ worker \in {"none", "polling", "persisting", "checking", "deleting", "announcing",
                         "ended", "died", "cut"}
          /\ current \in Events \cup {None}
          /\ worker \in {"persisting", "checking", "deleting", "announcing"} => current # None
          /\ attempt \in 1..MaxAttempts
          /\ cutoff \in Retentions \cup {None} /\ retention \in Retentions
          /\ fresh \in BOOLEAN /\ day \in Days
          /\ pc \in [Publishers -> {"idle", "accepted", "refused"}]
          /\ draft \in [Publishers -> Events \cup {None}]
          /\ count \in 0..MaxEvents /\ created \in [Events -> Days]
          /\ lastError \in {"none", "drop", "failure", "stuck"}
          /\ rows \subseteq Events /\ ever \subseteq Events /\ shown \subseteq Events
          /\ dropped \subseteq Events /\ persisted \subseteq Events /\ failed \subseteq Events
          /\ failures \in Nat /\ unpruned \in Nat

\* No event vanishes and none has two outcomes: each is with its publisher, in the
\* queue, in the worker's hand, or persisted, given up or dropped.  The counters say so
\* up to the failed prunings, each of which _failed counts although the event of that
\* moment was persisted.
WithPublishers == {draft[p] : p \in Publishers} \ {None}
InHand == {current} \ (persisted \cup {None})
Accounted ==
    /\ UNION {WithPublishers, Range(queue), InHand, persisted, failed, dropped} = 1..count
    /\ count + unpruned = Cardinality(WithPublishers) + Len(queue) + Cardinality(InHand)
                          + Cardinality(persisted) + failures + Cardinality(dropped)

\* After a pruning of today that went through, no row is older than the retention
\* in force, however the settings changed while the worker was at it.
RetentionHolds ==
    fresh /\ pruned =>
        \A e \in rows : created[e] + retention >= day

\* An event that was queued before the stop is written or counted as failed, the
\* shutdown included, with two exceptions.  A rollback fails: the health says so then,
\* as long as the application runs.  Or the shutdown gave up on a worker that was
\* still busy after the timeout of the join, and the process may end before it is done.
Lost == worker = "died" /\ (main = "up" => EventHealth = "UNHEALTHY")
GaveUp == main \in {"down", "exited"} /\ handle
Settled == \A e \in Events :
              (e \in Range(queue) /\ ~stopped) ~> (e \in persisted \cup failed \/ Lost \/ GaveUp)

\* A stopped service ends its worker, whether the shutdown waited for it or gave up,
\* and even while publishers that saw it running still put events into the queue.
WorkerStops == stopped ~> ~Alive

\* Events and the worker come to their end.
Progress == Settled /\ WorkerStops

\* The service is an AuditTrail: what was turned away is never written, and only
\* what was committed is shown.
Fate(e) == IF e \in shown THEN "shown"
           ELSE IF e \in ever THEN "kept"
           ELSE IF e \in dropped THEN "dropped"
           ELSE IF e \in UNION {Range(queue), failed, {current}} THEN "accepted"
           ELSE "new"
Trail == INSTANCE AuditTrail WITH fate <- [e \in Events |-> Fate(e)]
ImplementsAuditTrail == Trail!Spec
=============================================================================
