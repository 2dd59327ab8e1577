-------------------------- MODULE EventProofs --------------------------
(* The events.  EventService for any publishers, capacity, retentions and bounds: *)
(* types, the retention of rows, the refinement of AuditTrail and the accounts,   *)
(* which balance.  LiveEvents for any connections and capacities: what is lost.  *)
EXTENDS EventService, LiveEvents, FiniteSetTheorems, TLAPS

\* What a queue holds after an event was put into it, and before one was taken.
LEMMA RangeAppend == ASSUME NEW S, NEW s \in Seq(S), NEW e \in S
                     PROVE  Range(Append(s, e)) = Range(s) \cup {e}
<1>1. Len(Append(s, e)) = Len(s) + 1 /\ Append(s, e)[Len(s) + 1] = e
  OBVIOUS
<1>2. \A i \in 1..Len(s) : Append(s, e)[i] = s[i]
  OBVIOUS
<1>3. DOMAIN s = 1..Len(s) /\ DOMAIN Append(s, e) = 1..(Len(s) + 1) /\ Len(s) \in Nat
  OBVIOUS
<1>4. ASSUME NEW x \in Range(Append(s, e)) PROVE x \in Range(s) \cup {e}
  BY <1>1, <1>2, <1>3 DEF Range
<1>5. ASSUME NEW x \in Range(s) PROVE x \in Range(Append(s, e))
  BY <1>2, <1>3 DEF Range
<1>6. e \in Range(Append(s, e))
  BY <1>1, <1>3 DEF Range
<1> QED BY <1>4, <1>5, <1>6

LEMMA RangeTail == ASSUME NEW S, NEW s \in Seq(S), s # <<>>
                   PROVE  /\ Head(s) \in S /\ Tail(s) \in Seq(S)
                          /\ Range(s) = {Head(s)} \cup Range(Tail(s))
<1>1. Len(s) \in Nat \ {0} /\ Len(Tail(s)) = Len(s) - 1 /\ Head(s) = s[1] /\ Tail(s) \in Seq(S)
  OBVIOUS
<1>2. \A i \in 1..(Len(s) - 1) : Tail(s)[i] = s[i + 1]
  OBVIOUS
<1>3. DOMAIN s = 1..Len(s) /\ DOMAIN Tail(s) = 1..(Len(s) - 1)
  BY <1>1
<1>4. ASSUME NEW x \in Range(s) PROVE x \in {Head(s)} \cup Range(Tail(s))
  <2>1. PICK i \in 1..Len(s) : x = s[i]
    BY <1>3 DEF Range
  <2>2. CASE i = 1
    BY <1>1, <2>1, <2>2
  <2>3. CASE i # 1
    <3>1. i - 1 \in 1..(Len(s) - 1) /\ Tail(s)[i - 1] = x
      BY <1>1, <1>2, <2>1, <2>3
    <3> QED BY <1>3, <3>1 DEF Range
  <2> QED BY <2>2, <2>3
<1>5. ASSUME NEW x \in Range(Tail(s)) PROVE x \in Range(s)
  <2>1. PICK i \in 1..(Len(s) - 1) : x = Tail(s)[i]
    BY <1>3 DEF Range
  <2>2. i + 1 \in 1..Len(s) /\ s[i + 1] = x
    BY <1>1, <1>2, <2>1
  <2> QED BY <1>3, <2>2 DEF Range
<1>6. Head(s) \in Range(s)
  BY <1>1, <1>3 DEF Range
<1>7. Head(s) \in S
  BY <1>1
<1> QED BY <1>1, <1>4, <1>5, <1>6, <1>7
-----------------------------------------------------------------------------
\* Types, with what ties a place to the event that is there.
Places == /\ \A p \in Publishers : pc[p] = "idle" <=> draft[p] = None
          /\ worker \in {"none", "polling", "ended"} => current = None
          /\ main = "new" => worker = "none"

Typed == TypeOK /\ Places

LEMMA Facts == /\ None \notin Events /\ None \notin Retentions
               /\ Capacity \in Nat /\ 1 \in 1..MaxAttempts /\ 0 \in 0..MaxEvents /\ 0 \in Days
               /\ \A n \in 0..MaxEvents : n < MaxEvents => n + 1 \in Events /\ n + 1 \in 0..MaxEvents
               /\ \A n \in 1..MaxAttempts : n < MaxAttempts => n + 1 \in 1..MaxAttempts
               /\ \A d \in Days : d < MaxDays => d + 1 \in Days
BY EventAssumption DEF None, Events, Days

LEMMA TypedInit == Init => Typed
<1> SUFFICES ASSUME Init PROVE Typed
  OBVIOUS
<1>1. <<>> \in Seq(Events) /\ Len(<<>>) <= Capacity
  BY Facts
<1>2. TypeOK
  <2>1. created \in [Events -> Days] /\ day \in Days
    BY Facts DEF Init
  <2>2. draft \in [Publishers -> Events \cup {None}]
    BY DEF Init
  <2>3. pc \in [Publishers -> {"idle", "accepted", "refused"}]
    BY DEF Init
  <2> QED BY <1>1, <2>1, <2>2, <2>3, Facts DEF Init, TypeOK
<1>3. Places
  BY DEF Init, Places
<1> QED BY <1>2, <1>3 DEF Typed

LEMMA TypedStep == Typed /\ [Next]_vars => Typed'
<1> SUFFICES ASSUME Typed, [Next]_vars PROVE Typed'
  OBVIOUS
<1> USE Facts DEF Typed, TypeOK, Places,
        life, work, drafts, policy, table, counts
<1>1. CASE MainStep
  <2>1. CASE Start
    BY <2>1 DEF Start
  <2>2. CASE SetStop
    BY <2>2 DEF SetStop
  <2>3. CASE LeaveJoin
    BY <2>3 DEF LeaveJoin
  <2>4. CASE Release
    <3>1. handle' \in BOOLEAN /\ lastError' \in {"none", "drop", "failure", "stuck"}
      BY <2>4 DEF Release
    <3>2. main' = "down" /\ UNCHANGED <<stopped, queue, work, drafts, policy, table, counts, shown, pruned, day>>
      BY <2>4 DEF Release
    <3> QED BY <3>1, <3>2
  <2>5. CASE Exit
    <3>1. /\ main' = "exited" /\ worker' \in {worker, "cut"}
          /\ UNCHANGED <<handle, stopped, queue, current, attempt, cutoff, drafts, policy, table,
                         counts, lastError, shown, pruned, day>>
      BY <2>5 DEF Exit
    <3> QED BY <3>1
  <2> QED BY <1>1, <2>1, <2>2, <2>3, <2>4, <2>5 DEF MainStep
<1>2. ASSUME NEW p \in Publishers, Check(p) PROVE Typed'
  BY <1>2 DEF Check
<1>3. ASSUME NEW p \in Publishers, Put(p) PROVE Typed'
  BY <1>3 DEF Put
<1>4. ASSUME NEW p \in Publishers, PutFails(p) PROVE Typed'
  BY <1>4 DEF PutFails
<1>5. ASSUME NEW p \in Publishers, RecordDrop(p) PROVE Typed'
  BY <1>5 DEF RecordDrop
<1>6. CASE Take
  <2>1. Head(queue) \in Events /\ Tail(queue) \in Seq(Events) /\ Len(Tail(queue)) <= Capacity
    BY <1>6, RangeTail DEF Take
  <2> QED BY <1>6, <2>1 DEF Take
<1>7. CASE End
  BY <1>7 DEF End
<1>8. CASE Persist
  BY <1>8 DEF Persist, Commit
<1>9. CASE AttemptFails
  BY <1>9 DEF AttemptFails, Commit, GiveUp, CountFailure
<1>10. CASE Break
  BY <1>10 DEF Break, GiveUp, CountFailure
<1>11. CASE RollbackRaises
  BY <1>11 DEF RollbackRaises
<1>12. CASE NotDue \/ Due
  BY <1>12 DEF NotDue, Due
<1>13. CASE Delete \/ DeleteFails
  <2>1. CASE Delete
    BY <2>1 DEF Delete
  <2>2. CASE DeleteFails
    <3>1. /\ worker' = "announcing" /\ worker = "deleting" /\ cutoff' = None /\ lastError' = "failure"
          /\ failures' \in Nat /\ unpruned' \in Nat
          /\ UNCHANGED <<main, handle, stopped, pruned, queue, current, attempt, retention, fresh, day, pc,
                         draft, count, created, rows, ever, shown, dropped, persisted, failed>>
      BY <2>2 DEF DeleteFails, CountFailure
    <3> QED BY <3>1
  <2> QED BY <1>13, <2>1, <2>2
<1>14. CASE Announce
  BY <1>14 DEF Announce
<1>15. ASSUME NEW r \in Retentions, Configure(r) PROVE Typed'
  BY <1>15 DEF Configure
<1>16. CASE NextDay
  <2>1. /\ day' \in Days /\ fresh' \in BOOLEAN /\ pruned' \in BOOLEAN
        /\ UNCHANGED <<life, queue, work, drafts, retention, table, counts, lastError, shown>>
    BY <1>16 DEF NextDay
  <2> QED BY <2>1
<1>17. CASE UNCHANGED vars
  BY <1>17 DEF vars
<1> QED
  BY <1>1, <1>2, <1>3, <1>4, <1>5, <1>6, <1>7, <1>8, <1>9, <1>10, <1>11, <1>12, <1>13, <1>14,
     <1>15, <1>16, <1>17 DEF Next, PublisherStep, WorkerStep

\* Every variable stays in its range, the queue within its capacity.
THEOREM Typing == Spec => []TypeOK
<1>1. Typed => TypeOK
  BY DEF Typed
<1> QED BY <1>1, TypedInit, TypedStep, PTL DEF Spec
-----------------------------------------------------------------------------
(* Retention.                                                                *)

\* Events under way are of today; the worker deletes by the retention in force, or
\* else the check is no longer fresh.
Today == /\ \A p \in Publishers : draft[p] # None => created[draft[p]] = day
         /\ \A e \in Range(queue) : created[e] = day
         /\ current # None => created[current] = day

CutoffInForce == worker = "deleting" /\ fresh => cutoff = retention

RetentionInv == Typed /\ Today /\ CutoffInForce /\ RetentionHolds

LEMMA Young == \A d \in Days, r \in Retentions : d + r >= d
BY EventAssumption DEF Days

LEMMA TodayStep == RetentionInv /\ [Next]_vars => Today'
<1> SUFFICES ASSUME RetentionInv, [Next]_vars PROVE Today'
  OBVIOUS
<1>0. Typed'
  BY TypedStep DEF RetentionInv
<1> USE Facts DEF RetentionInv, Typed, TypeOK, Places, Today,
        life, work, drafts, policy, table, counts
<1>1. CASE MainStep
  <2>1. UNCHANGED <<queue, current, drafts, day>>
    BY <1>1 DEF MainStep, Start, SetStop, LeaveJoin, Release, Exit
  <2> QED BY <2>1
<1>2. ASSUME NEW p \in Publishers, Check(p) PROVE Today'
  <2>1. \A e \in Events : created[e] = day => created'[e] = day'
    BY <1>2 DEF Check
  <2>2. draft'[p] # None => created'[draft'[p]] = day'
    BY <1>2 DEF Check
  <2>3. \A q \in Publishers \ {p} : draft'[q] = draft[q]
    BY <1>2 DEF Check
  <2>4. queue' = queue /\ current' = current /\ Range(queue) \subseteq Events
    BY <1>2 DEF Check, Range
  <2>5. \A q \in Publishers : draft[q] \in Events \cup {None}
    OBVIOUS
  <2> QED BY <2>1, <2>2, <2>3, <2>4, <2>5
<1>3. ASSUME NEW p \in Publishers, Put(p) PROVE Today'
  <2>1. draft[p] \in Events /\ draft[p] # None
    BY <1>3 DEF Put
  <2>2. Range(queue') = Range(queue) \cup {draft[p]}
    BY <1>3, <2>1, RangeAppend DEF Put
  <2> QED BY <1>3, <2>1, <2>2 DEF Put
<1>4. ASSUME NEW p \in Publishers, PutFails(p) \/ RecordDrop(p) PROVE Today'
  BY <1>4 DEF PutFails, RecordDrop
<1>5. CASE Take
  <2>1. Range(queue) = {Head(queue)} \cup Range(Tail(queue))
    BY <1>5, RangeTail DEF Take
  <2> QED BY <1>5, <2>1 DEF Take
<1>6. CASE End \/ Persist \/ RollbackRaises \/ NotDue \/ Due \/ Delete \/ DeleteFails
  <2>1. UNCHANGED <<queue, current, drafts, day>>
    BY <1>6 DEF End, Persist, RollbackRaises, NotDue, Due, Delete, DeleteFails
  <2> QED BY <2>1
<1>7. CASE AttemptFails \/ Break \/ Announce
  <2>1. UNCHANGED <<queue, drafts, day>> /\ current' \in {current, None}
    BY <1>7 DEF AttemptFails, Break, Announce, GiveUp
  <2> QED BY <2>1
<1>8. ASSUME NEW r \in Retentions, Configure(r) PROVE Today'
  BY <1>8 DEF Configure
<1>9. CASE NextDay
  <2>1. Range(queue) = {} /\ current = None /\ \A p \in Publishers : draft[p] = None
    BY <1>9 DEF NextDay, Quiet, Range
  <2> QED BY <1>9, <2>1 DEF NextDay
<1>10. CASE UNCHANGED vars
  BY <1>10 DEF vars
<1> QED
  BY <1>1, <1>2, <1>3, <1>4, <1>5, <1>6, <1>7, <1>8, <1>9, <1>10 DEF Next, PublisherStep, WorkerStep

LEMMA RetentionStep == RetentionInv /\ [Next]_vars => (CutoffInForce /\ RetentionHolds)'
<1> SUFFICES ASSUME RetentionInv, [Next]_vars PROVE (CutoffInForce /\ RetentionHolds)'
  OBVIOUS
<1> USE Facts, Young DEF RetentionInv, Typed, TypeOK, CutoffInForce, RetentionHolds,
        life, work, drafts, policy, table, counts
<1>1. CASE MainStep
  <2>1. UNCHANGED <<fresh, retention, cutoff, pruned, rows, created, day>>
        /\ (worker' = worker \/ worker' \in {"polling", "cut"})
    BY <1>1 DEF MainStep, Start, SetStop, LeaveJoin, Release, Exit
  <2> QED BY <2>1
<1>2. ASSUME NEW p \in Publishers, Check(p) PROVE (CutoffInForce /\ RetentionHolds)'
  <2>1. \A e \in Events : created'[e] \in {created[e], day}
    BY <1>2 DEF Check
  <2>2. UNCHANGED <<worker, fresh, retention, cutoff, pruned, rows, day>>
    BY <1>2 DEF Check
  <2> QED BY <2>1, <2>2
<1>3. ASSUME NEW p \in Publishers, Put(p) \/ PutFails(p) \/ RecordDrop(p)
      PROVE (CutoffInForce /\ RetentionHolds)'
  <2>1. UNCHANGED <<worker, fresh, retention, cutoff, pruned, rows, created, day>>
    BY <1>3 DEF Put, PutFails, RecordDrop
  <2> QED BY <2>1
<1>4. CASE Take \/ End \/ Break \/ RollbackRaises \/ NotDue \/ DeleteFails \/ Announce
  <2>1. UNCHANGED <<fresh, retention, pruned, rows, created, day>> /\ worker' # "deleting"
    BY <1>4 DEF Take, End, Break, RollbackRaises, NotDue, DeleteFails, Announce, GiveUp
  <2> QED BY <2>1
<1>5. CASE Persist \/ AttemptFails
  <2>1. UNCHANGED <<fresh, retention, pruned, created, day>> /\ worker' # "deleting"
        /\ rows' \subseteq rows \cup {current} /\ current # None
    BY <1>5 DEF Persist, AttemptFails, Commit, GiveUp
  <2>2. created[current] = day
    BY <2>1 DEF Today
  <2> QED BY <2>1, <2>2
<1>6. CASE Due
  BY <1>6 DEF Due
<1>7. CASE Delete
  BY <1>7 DEF Delete
<1>8. ASSUME NEW r \in Retentions, Configure(r) PROVE (CutoffInForce /\ RetentionHolds)'
  BY <1>8 DEF Configure
<1>9. CASE NextDay
  BY <1>9 DEF NextDay
<1>10. CASE UNCHANGED vars
  BY <1>10 DEF vars
<1> QED
  BY <1>1, <1>2, <1>3, <1>4, <1>5, <1>6, <1>7, <1>8, <1>9, <1>10 DEF Next, PublisherStep, WorkerStep

\* After a pruning of today that went through, no row is older than the retention in
\* force, whatever the settings did while the worker was at it.
THEOREM RetentionObeyed == Spec => []RetentionHolds
<1>1. Init => RetentionInv
  <2>1. Init => Today /\ CutoffInForce /\ RetentionHolds
    BY DEF Init, Today, CutoffInForce, RetentionHolds, Range
  <2> QED BY <2>1, TypedInit DEF RetentionInv
<1>2. RetentionInv /\ [Next]_vars => RetentionInv'
  BY TypedStep, TodayStep, RetentionStep DEF RetentionInv
<1>3. RetentionInv => RetentionHolds
  BY DEF RetentionInv
<1> QED BY <1>1, <1>2, <1>3, PTL DEF Spec
-----------------------------------------------------------------------------
(* The refinement of AuditTrail.                                             *)

\* An event that is still being published is nowhere else, an event that was dropped
\* is in no place from which it could be written, and only committed events are
\* handed on.
Handled == UNION {Range(queue), {current} \ {None}, failed, ever, dropped}

Single == /\ Handled \subseteq 1..count
          /\ \A p \in Publishers : draft[p] # None => draft[p] \in (1..count) \ Handled
          /\ \A p, q \in Publishers : draft[p] = draft[q] /\ draft[p] # None => p = q

Ways == /\ dropped \cap UNION {Range(queue), {current}, failed, ever} = {}
        /\ shown \subseteq ever
        /\ worker \in {"checking", "deleting", "announcing"} => current \in ever

TrailInv == Typed /\ Single /\ Ways

LEMMA SingleStep == TrailInv /\ [Next]_vars => Single'
<1> SUFFICES ASSUME TrailInv, [Next]_vars PROVE Single'
  OBVIOUS
<1> USE Facts DEF TrailInv, Typed, TypeOK, Places, Single, Handled,
        life, work, drafts, policy, table, counts
<1>1. CASE MainStep \/ End \/ RollbackRaises \/ NotDue \/ Due \/ Delete \/ DeleteFails
  <2>1. UNCHANGED <<queue, current, draft, count, failed, ever, dropped>>
    BY <1>1 DEF MainStep, Start, SetStop, LeaveJoin, Release, Exit, End, RollbackRaises, NotDue, Due,
                Delete, DeleteFails
  <2> QED BY <2>1
<1>2. ASSUME NEW p \in Publishers, Check(p) PROVE Single'
  <2>1. UNCHANGED <<queue, current, failed, ever, dropped>> /\ count' = count + 1
        /\ draft' = [draft EXCEPT ![p] = count + 1] /\ draft[p] = None
    BY <1>2 DEF Check
  <2>2. 1..count' = (1..count) \cup {count + 1} /\ count + 1 \notin 1..count /\ count + 1 # None
    BY <2>1 DEF None
  <2>3. draft'[p] = count + 1 /\ \A q \in Publishers \ {p} : draft'[q] = draft[q]
    BY <2>1
  <2> QED BY <2>1, <2>2, <2>3
<1>3. ASSUME NEW p \in Publishers, Put(p) PROVE Single'
  <2>1. draft[p] \in Events /\ draft[p] # None
    BY <1>3 DEF Put
  <2>2. Range(queue') = Range(queue) \cup {draft[p]}
    BY <1>3, <2>1, RangeAppend DEF Put
  <2>3. Handled' = Handled \cup {draft[p]}
    BY <1>3, <2>2 DEF Put
  <2>4. draft'[p] = None /\ \A q \in Publishers \ {p} : draft'[q] = draft[q]
    BY <1>3 DEF Put
  <2> QED BY <1>3, <2>1, <2>3, <2>4 DEF Put
<1>4. ASSUME NEW p \in Publishers, RecordDrop(p) PROVE Single'
  <2>1. draft[p] \in Events /\ draft[p] # None
    BY <1>4 DEF RecordDrop
  <2>2. Handled' = Handled \cup {draft[p]}
    BY <1>4 DEF RecordDrop
  <2>3. draft'[p] = None /\ \A q \in Publishers \ {p} : draft'[q] = draft[q]
    BY <1>4 DEF RecordDrop
  <2> QED BY <1>4, <2>1, <2>2, <2>3 DEF RecordDrop
<1>5. ASSUME NEW p \in Publishers, PutFails(p) PROVE Single'
  BY <1>5 DEF PutFails
<1>6. CASE Take
  <2>1. Range(queue) = {Head(queue)} \cup Range(Tail(queue))
    BY <1>6, RangeTail DEF Take
  <2> QED BY <1>6, <2>1 DEF Take
<1>7. CASE Persist \/ AttemptFails \/ Break \/ Announce
  <2>1. UNCHANGED <<queue, draft, count, dropped>> /\ Handled' \subseteq Handled
    BY <1>7 DEF Persist, AttemptFails, Break, Announce, Commit, GiveUp
  <2> QED BY <2>1
<1>8. ASSUME NEW r \in Retentions, Configure(r) PROVE Single'
  BY <1>8 DEF Configure
<1>9. CASE NextDay
  BY <1>9 DEF NextDay
<1>10. CASE UNCHANGED vars
  BY <1>10 DEF vars
<1> QED
  BY <1>1, <1>2, <1>3, <1>4, <1>5, <1>6, <1>7, <1>8, <1>9, <1>10 DEF Next, PublisherStep, WorkerStep

LEMMA WaysStep == TrailInv /\ [Next]_vars => Ways'
<1> SUFFICES ASSUME TrailInv, [Next]_vars PROVE Ways'
  OBVIOUS
<1> USE Facts DEF TrailInv, Typed, TypeOK, Places, Ways, life, work, drafts, policy, table, counts
<1>1. CASE MainStep \/ End \/ RollbackRaises
  <2>1. UNCHANGED <<queue, current, failed, ever, dropped, shown>>
        /\ (worker' = worker \/ worker' \in {"polling", "ended", "died", "cut"})
    BY <1>1 DEF MainStep, Start, SetStop, LeaveJoin, Release, Exit, End, RollbackRaises
  <2> QED BY <2>1
<1>2. ASSUME NEW p \in Publishers, Check(p) \/ PutFails(p) PROVE Ways'
  BY <1>2 DEF Check, PutFails
<1>3. ASSUME NEW p \in Publishers, Put(p) PROVE Ways'
  <2>1. draft[p] \in Events /\ draft[p] \notin dropped
    BY <1>3 DEF Put, Single, Handled
  <2>2. Range(queue') = Range(queue) \cup {draft[p]}
    BY <1>3, <2>1, RangeAppend DEF Put
  <2> QED BY <1>3, <2>1, <2>2 DEF Put
<1>4. ASSUME NEW p \in Publishers, RecordDrop(p) PROVE Ways'
  <2>1. draft[p] \in Events /\ draft[p] \notin UNION {Range(queue), {current}, failed, ever}
    BY <1>4 DEF RecordDrop, Single, Handled
  <2> QED BY <1>4, <2>1 DEF RecordDrop
<1>5. CASE Take
  <2>1. Range(queue) = {Head(queue)} \cup Range(Tail(queue))
    BY <1>5, RangeTail DEF Take
  <2> QED BY <1>5, <2>1 DEF Take
<1>6. CASE Persist
  BY <1>6 DEF Persist, Commit
<1>7. CASE AttemptFails \/ Break
  <2>1. UNCHANGED <<queue, dropped, shown>> /\ current' \in {current, None}
        /\ failed' \subseteq failed \cup {current} /\ ever' \in {ever, ever \cup {current}}
        /\ worker' \in {"persisting", "polling"}
    BY <1>7 DEF AttemptFails, Break, Commit, GiveUp
  <2> QED BY <2>1
<1>8. CASE NotDue \/ Due \/ Delete \/ DeleteFails
  <2>1. UNCHANGED <<queue, current, failed, ever, dropped, shown>> /\ worker \in {"checking", "deleting"}
    BY <1>8 DEF NotDue, Due, Delete, DeleteFails
  <2> QED BY <2>1
<1>9. CASE Announce
  BY <1>9 DEF Announce
<1>10. ASSUME NEW r \in Retentions, Configure(r) PROVE Ways'
  BY <1>10 DEF Configure
<1>11. CASE NextDay
  BY <1>11 DEF NextDay
<1>12. CASE UNCHANGED vars
  BY <1>12 DEF vars
<1> QED
  BY <1>1, <1>2, <1>3, <1>4, <1>5, <1>6, <1>7, <1>8, <1>9, <1>10, <1>11, <1>12
     DEF Next, PublisherStep, WorkerStep

LEMMA TrailInvariance == Spec => []TrailInv
<1>1. Init => TrailInv
  <2>1. Init => Single /\ Ways
    BY DEF Init, Single, Ways, Handled, Range
  <2> QED BY <2>1, TypedInit DEF TrailInv
<1>2. TrailInv /\ [Next]_vars => TrailInv'
  BY TypedStep, SingleStep, WaysStep DEF TrailInv
<1> QED BY <1>1, <1>2, PTL DEF Spec

Fates == [e \in Events |-> Fate(e)]

LEMMA Stutter == ASSUME \A e \in Events : Fate(e)' = Fate(e) PROVE Fates' = Fates
BY DEF Fates

LEMMA OneChanges == ASSUME NEW x \in Events, NEW to, Fate(x)' = to,
                           \A e \in Events \ {x} : Fate(e)' = Fate(e)
                    PROVE  Fates' = [Fates EXCEPT ![x] = to]
BY DEF Fates

\* Every step of the service changes the fate of one event in the way AuditTrail
\* allows, or of none.
LEMMA TrailStep == TrailInv /\ [Next]_vars => [Trail!Next]_Fates
<1> SUFFICES ASSUME TrailInv, [Next]_vars PROVE [Trail!Next]_Fates
  OBVIOUS
<1> USE Facts DEF TrailInv, Typed, TypeOK, Places, Ways, life, work, drafts, policy, table, counts
<1>0. ASSUME UNCHANGED <<shown, ever, dropped, queue, failed, current>> PROVE UNCHANGED Fates
  BY <1>0, Stutter DEF Fate
<1>1. CASE MainStep \/ End \/ RollbackRaises \/ NotDue \/ Due \/ Delete \/ DeleteFails
  BY <1>0, <1>1 DEF MainStep, Start, SetStop, LeaveJoin, Release, Exit, End, RollbackRaises, NotDue, Due,
                    Delete, DeleteFails
<1>2. ASSUME NEW p \in Publishers, Check(p) \/ PutFails(p) PROVE UNCHANGED Fates
  BY <1>0, <1>2 DEF Check, PutFails
<1>3. ASSUME NEW p \in Publishers, Put(p) PROVE Trail!Next
  <2>1. PICK x \in Events : x = draft[p] /\ x \notin Handled
    BY <1>3 DEF Put, Single
  <2>2. Range(queue') = Range(queue) \cup {x}
    BY <1>3, <2>1, RangeAppend DEF Put
  <2>3. Fate(x) = "new" /\ Fate(x)' = "accepted"
    <3>1. /\ x \notin UNION {shown, ever, dropped, Range(queue), failed, {current}}
          /\ x \notin UNION {shown', ever', dropped'} /\ x \in Range(queue')
      BY <1>3, <2>1, <2>2 DEF Put, Handled
    <3>2. Fate(x) = "new"
      BY <3>1 DEF Fate
    <3>3. Fate(x)' = "accepted"
      BY <3>1 DEF Fate
    <3> QED BY <3>2, <3>3
  <2>4. \A e \in Events \ {x} : Fate(e)' = Fate(e)
    BY <1>3, <2>2 DEF Put, Fate
  <2> QED BY <2>3, <2>4, OneChanges DEF Trail!Next, Trail!Accept, Trail!Becomes, Fates
<1>4. ASSUME NEW p \in Publishers, RecordDrop(p) PROVE Trail!Next
  <2>1. PICK x \in Events : x = draft[p] /\ x \notin Handled
    BY <1>4 DEF RecordDrop, Single
  <2>2. Fate(x) = "new" /\ Fate(x)' = "dropped"
    BY <1>4, <2>1 DEF RecordDrop, Fate, Handled
  <2>3. \A e \in Events \ {x} : Fate(e)' = Fate(e)
    BY <1>4, <2>1 DEF RecordDrop, Fate
  <2> QED BY <2>2, <2>3, OneChanges DEF Trail!Next, Trail!TurnAway, Trail!Becomes, Fates
<1>5. CASE Take
  <2>1. Range(queue) = {Head(queue)} \cup Range(Tail(queue))
    BY <1>5, RangeTail DEF Take
  <2>2. \A e \in Events : Fate(e)' = Fate(e)
    BY <1>5, <2>1 DEF Take, Fate
  <2> QED BY <2>2, Stutter
<1>6. CASE Persist \/ AttemptFails \/ Break
  <2>1. PICK x \in Events : x = current /\ x \notin dropped
    BY <1>6 DEF Persist, AttemptFails, Break
  <2>2. /\ UNCHANGED <<shown, dropped, queue>>
        /\ ever' = ever \/ ever' = ever \cup {x}
        /\ \/ failed' = failed /\ current' = x
           \/ failed' = failed \cup {x} /\ current' = None
    BY <1>6, <2>1 DEF Persist, AttemptFails, Break, Commit, GiveUp
  <2>3. \A e \in Events \ {x} : Fate(e)' = Fate(e)
    BY <2>1, <2>2 DEF Fate
  <2>4. CASE x \notin ever /\ ever' = ever \cup {x}
    <3>1. /\ x \notin UNION {shown, ever, dropped} /\ x = current
          /\ x \in ever' /\ x \notin UNION {shown', dropped'}
      BY <2>1, <2>2, <2>4
    <3>2. Fate(x) = "accepted"
      BY <3>1 DEF Fate
    <3>3. Fate(x)' = "kept"
      BY <3>1 DEF Fate
    <3> QED BY <2>3, <3>2, <3>3, OneChanges DEF Trail!Next, Trail!Keep, Trail!Becomes, Fates
  <2>5. CASE ever' = ever
    <3>1. Fate(x)' = Fate(x)
      BY <2>1, <2>2, <2>5 DEF Fate
    <3>2. \A e \in Events : Fate(e)' = Fate(e)
      BY <2>3, <3>1
    <3>3. UNCHANGED Fates
      BY <3>2, Stutter
    <3> QED BY <3>3 DEF Fates
  <2>6. ever' = ever \/ (x \notin ever /\ ever' = ever \cup {x})
    <3>1. x \in ever => ever \cup {x} = ever
      OBVIOUS
    <3> QED BY <2>2, <3>1
  <2> QED BY <2>4, <2>5, <2>6
<1>7. CASE Announce
  <2>1. PICK x \in Events : x = current /\ x \in ever
    BY <1>7 DEF Announce
  <2>2. UNCHANGED <<ever, dropped, queue, failed>> /\ shown' = shown \cup {x} /\ current' = None
    BY <1>7, <2>1 DEF Announce
  <2>3. \A e \in Events \ {x} : Fate(e)' = Fate(e)
    BY <2>1, <2>2 DEF Fate
  <2>4. x \in shown' /\ x \in ever' /\ x \notin dropped /\ x \notin dropped'
    BY <2>1, <2>2
  <2>5. Fate(x)' = "shown"
    BY <2>4 DEF Fate
  <2>6. CASE x \notin shown
    <3>1. Fate(x) = "kept"
      BY <2>1, <2>4, <2>6 DEF Fate
    <3> QED BY <2>3, <2>5, <3>1, OneChanges DEF Trail!Next, Trail!Show, Trail!Becomes, Fates
  <2>7. CASE x \in shown
    <3>1. Fate(x) = "shown"
      BY <2>1, <2>4, <2>7 DEF Fate
    <3>2. \A e \in Events : Fate(e)' = Fate(e)
      BY <2>3, <2>5, <3>1
    <3>3. UNCHANGED Fates
      BY <3>2, Stutter
    <3> QED BY <3>3 DEF Fates
  <2> QED BY <2>6, <2>7
<1>8. ASSUME NEW r \in Retentions, Configure(r) PROVE UNCHANGED Fates
  BY <1>0, <1>8 DEF Configure
<1>9. CASE NextDay
  BY <1>0, <1>9 DEF NextDay
<1>10. CASE UNCHANGED vars
  BY <1>0, <1>10 DEF vars
<1> QED
  BY <1>1, <1>2, <1>3, <1>4, <1>5, <1>6, <1>7, <1>8, <1>9, <1>10 DEF Next, PublisherStep, WorkerStep

\* The service keeps what AuditTrail promises of every event: what was turned away is
\* never written, and only what was committed is shown to the clients.
THEOREM TrailKept == Spec => ImplementsAuditTrail
<1>1. Init => Trail!Init
  BY Facts DEF Init, Trail!Init, Fate, Range
<1> QED BY <1>1, TrailInvariance, TrailStep, PTL DEF Spec, ImplementsAuditTrail, Trail!Spec, Fates
-----------------------------------------------------------------------------
(* The accounts.                                                             *)

Distinct(s) == \A i, j \in 1..Len(s) : s[i] = s[j] => i = j

LEMMA DistinctAppend == ASSUME NEW S, NEW s \in Seq(S), NEW e \in S, Distinct(s), e \notin Range(s)
                        PROVE  Distinct(Append(s, e))
<1>1. Len(Append(s, e)) = Len(s) + 1 /\ Append(s, e)[Len(s) + 1] = e /\ Len(s) \in Nat
  OBVIOUS
<1>2. \A i \in 1..Len(s) : Append(s, e)[i] = s[i] /\ s[i] # e
  BY DEF Range
<1>3. SUFFICES ASSUME NEW i \in 1..(Len(s) + 1), NEW j \in 1..(Len(s) + 1),
                      Append(s, e)[i] = Append(s, e)[j]
               PROVE  i = j
  BY <1>1 DEF Distinct
<1>4. CASE i \in 1..Len(s) /\ j \in 1..Len(s)
  BY <1>2, <1>3, <1>4 DEF Distinct
<1>5. CASE i = Len(s) + 1 \/ j = Len(s) + 1
  BY <1>1, <1>2, <1>3, <1>5
<1> QED BY <1>1, <1>4, <1>5

LEMMA DistinctTail == ASSUME NEW S, NEW s \in Seq(S), s # <<>>, Distinct(s)
                      PROVE  Distinct(Tail(s)) /\ Head(s) \notin Range(Tail(s))
<1>1. /\ Len(s) \in Nat \ {0} /\ Len(Tail(s)) = Len(s) - 1 /\ Head(s) = s[1]
      /\ DOMAIN Tail(s) = 1..(Len(s) - 1)
  OBVIOUS
<1>2. \A i \in 1..(Len(s) - 1) : Tail(s)[i] = s[i + 1] /\ i + 1 \in 1..Len(s) /\ i + 1 # 1
  BY <1>1
<1>3. Distinct(Tail(s))
  <2> SUFFICES ASSUME NEW i \in 1..(Len(s) - 1), NEW j \in 1..(Len(s) - 1),
                      Tail(s)[i] = Tail(s)[j]
               PROVE  i = j
    BY <1>1 DEF Distinct
  <2>1. i + 1 = j + 1
    BY <1>2 DEF Distinct
  <2> QED BY <2>1
<1>4. Head(s) \notin Range(Tail(s))
  <2> SUFFICES ASSUME NEW i \in 1..(Len(s) - 1), Tail(s)[i] = Head(s) PROVE FALSE
    BY <1>1 DEF Range
  <2>1. s[i + 1] = s[1] /\ i + 1 \in 1..Len(s) /\ 1 \in 1..Len(s) /\ i + 1 # 1
    BY <1>1, <1>2
  <2> QED BY <2>1 DEF Distinct
<1> QED BY <1>3, <1>4

\* The sizes of the sets that the service counts.
LEMMA Sizes == ASSUME NEW S \in SUBSET Events
               PROVE  /\ Cardinality(S) \in Nat
                      /\ \A e \in Events \ S : Cardinality(S \cup {e}) = Cardinality(S) + 1
                      /\ \A e \in S : Cardinality(S \ {e}) = Cardinality(S) - 1
<1>1. IsFiniteSet(Events)
  <2>1. 1 \in Int /\ MaxEvents \in Int
    BY EventAssumption
  <2> QED BY <2>1, FS_Interval DEF Events
<1>2. IsFiniteSet(S)
  BY <1>1, FS_Subset
<1> QED BY <1>2, FS_CardinalityType, FS_AddElement, FS_RemoveElement

LEMMA SmallSizes == Cardinality({}) = 0 /\ \A e : Cardinality({e}) = 1
BY FS_EmptySet, FS_Singleton

\* The queue holds no event twice and none that is already behind a counter; what the
\* worker has in hand is counted when it is persisted, and not before.
Once == /\ persisted \subseteq ever
        /\ Distinct(queue)
        /\ Range(queue) \cap UNION {persisted, failed, {current}} = {}
        /\ current \notin failed
        /\ worker = "persisting" => current \notin persisted
        /\ worker \in {"checking", "deleting", "announcing"} => current \in persisted

Filed == UNION {WithPublishers, Range(queue), InHand, persisted, failed, dropped} = 1..count
Counted == count = Cardinality(WithPublishers) + Len(queue) + Cardinality(InHand)
                   + Cardinality(persisted) + Cardinality(failed) + Cardinality(dropped)

\* What _failed counts: the events given up and the prunings that failed.
Failures == failures = Cardinality(failed) + unpruned

AccountInv == TrailInv /\ Once /\ Filed /\ Counted /\ Failures

LEMMA OnceStep == TrailInv /\ Once /\ [Next]_vars => Once'
<1> SUFFICES ASSUME TrailInv, Once, [Next]_vars PROVE Once'
  OBVIOUS
<1> USE Facts DEF TrailInv, Typed, TypeOK, Places, Once, life, work, drafts, policy, table, counts
<1>0. \A e \in Range(queue) : e \in Events
  BY DEF Range
<1>1. CASE MainStep \/ End \/ RollbackRaises
  <2>1. UNCHANGED <<queue, current, failed, ever, persisted>>
        /\ (worker' = worker \/ worker' \in {"polling", "ended", "died", "cut"})
    BY <1>1 DEF MainStep, Start, SetStop, LeaveJoin, Release, Exit, End, RollbackRaises
  <2> QED BY <2>1
<1>2. ASSUME NEW p \in Publishers, Check(p) \/ PutFails(p) \/ RecordDrop(p) PROVE Once'
  <2>1. UNCHANGED <<queue, worker, current, failed, ever, persisted>>
    BY <1>2 DEF Check, PutFails, RecordDrop
  <2> QED BY <2>1
<1>3. ASSUME NEW p \in Publishers, Put(p) PROVE Once'
  <2>1. /\ draft[p] \in Events /\ draft[p] # None
        /\ draft[p] \notin UNION {Range(queue), {current}, failed, ever}
    BY <1>3 DEF Put, Single, Handled
  <2>2. queue' = Append(queue, draft[p])
        /\ UNCHANGED <<worker, current, failed, ever, persisted>>
    BY <1>3 DEF Put
  <2>3. Range(queue') = Range(queue) \cup {draft[p]} /\ Distinct(queue')
    BY <2>1, <2>2, RangeAppend, DistinctAppend
  <2> QED BY <2>1, <2>2, <2>3
<1>4. CASE Take
  <2>1. /\ Range(queue) = {Head(queue)} \cup Range(Tail(queue))
        /\ Distinct(Tail(queue)) /\ Head(queue) \notin Range(Tail(queue))
    BY <1>4, RangeTail, DistinctTail DEF Take
  <2>2. current' = Head(queue) /\ queue' = Tail(queue) /\ worker' = "persisting"
        /\ UNCHANGED <<failed, ever, persisted>>
    BY <1>4 DEF Take
  <2> QED BY <2>1, <2>2
<1>5. CASE Persist
  <2>1. persisted' = persisted \cup {current} /\ ever' = ever \cup {current}
        /\ worker' = "checking" /\ UNCHANGED <<queue, current, failed>>
    BY <1>5 DEF Persist, Commit
  <2> QED BY <2>1
<1>6. CASE AttemptFails \/ Break
  <2>1. /\ UNCHANGED <<queue, persisted>> /\ ever \subseteq ever'
        /\ \/ UNCHANGED <<current, failed, worker>>
           \/ worker' = "polling" /\ current' = None /\ failed' = failed \cup {current}
    BY <1>6 DEF AttemptFails, Break, Commit, GiveUp
  <2>2. failed \subseteq Events /\ current # None
    BY <1>6 DEF AttemptFails, Break
  <2> QED BY <1>0, <2>1, <2>2
<1>7. CASE NotDue \/ Due \/ Delete \/ DeleteFails
  <2>1. UNCHANGED <<queue, current, failed, ever, persisted>>
        /\ worker \in {"checking", "deleting"} /\ worker' # "persisting"
    BY <1>7 DEF NotDue, Due, Delete, DeleteFails
  <2> QED BY <2>1
<1>8. CASE Announce
  <2>1. current' = None /\ worker' = "polling" /\ UNCHANGED <<queue, failed, ever, persisted>>
    BY <1>8 DEF Announce
  <2> QED BY <1>0, <2>1
<1>9. ASSUME NEW r \in Retentions, Configure(r) PROVE Once'
  BY <1>9 DEF Configure
<1>10. CASE NextDay
  BY <1>10 DEF NextDay
<1>11. CASE UNCHANGED vars
  BY <1>11 DEF vars
<1> QED
  BY <1>1, <1>2, <1>3, <1>4, <1>5, <1>6, <1>7, <1>8, <1>9, <1>10, <1>11
     DEF Next, PublisherStep, WorkerStep

\* A publisher that starts has one event more, one that is done has one less.
LEMMA DraftIn ==
    ASSUME TrailInv, NEW p \in Publishers, draft[p] = None, NEW e, e # None,
           draft' = [draft EXCEPT ![p] = e]
    PROVE  WithPublishers' = WithPublishers \cup {e}
<1>1. draft'[p] = e /\ \A q \in Publishers \ {p} : draft'[q] = draft[q]
  BY DEF TrailInv, Typed, TypeOK
<1> QED BY <1>1 DEF WithPublishers

LEMMA DraftOut ==
    ASSUME TrailInv, NEW p \in Publishers, draft[p] # None, draft' = [draft EXCEPT ![p] = None]
    PROVE  draft[p] \in WithPublishers /\ WithPublishers' = WithPublishers \ {draft[p]}
<1>1. draft'[p] = None /\ \A q \in Publishers \ {p} : draft'[q] = draft[q]
  BY DEF TrailInv, Typed, TypeOK
<1>2. \A q \in Publishers \ {p} : draft[q] # draft[p]
  BY DEF TrailInv, Single
<1> QED BY <1>1, <1>2 DEF WithPublishers

\* What is counted are sets of events.
LEMMA CountedSets ==
    ASSUME TrailInv
    PROVE  /\ WithPublishers \subseteq Events /\ InHand \subseteq Events
           /\ persisted \subseteq Events /\ failed \subseteq Events /\ dropped \subseteq Events
           /\ Len(queue) \in Nat /\ count \in Nat
BY DEF TrailInv, Typed, TypeOK, WithPublishers, InHand

LEMMA BooksStep == AccountInv /\ [Next]_vars => Filed' /\ Counted'
<1> SUFFICES ASSUME AccountInv, [Next]_vars PROVE Filed' /\ Counted'
  OBVIOUS
<1>0. TrailInv /\ Once /\ Filed /\ Counted
  BY DEF AccountInv
<1>a. /\ WithPublishers \in SUBSET Events /\ InHand \in SUBSET Events
      /\ persisted \in SUBSET Events /\ failed \in SUBSET Events /\ dropped \in SUBSET Events
      /\ Len(queue) \in Nat /\ count \in Nat /\ queue \in Seq(Events)
      /\ current \in Events \cup {None} /\ None \notin Events
  BY <1>0, CountedSets, Facts DEF TrailInv, Typed, TypeOK
<1>b. /\ Cardinality(WithPublishers) \in Nat /\ Cardinality(InHand) \in Nat
      /\ Cardinality(persisted) \in Nat /\ Cardinality(failed) \in Nat
      /\ Cardinality(dropped) \in Nat
  BY <1>a, Sizes
<1>s. ASSUME UNCHANGED <<queue, draft, count, dropped, persisted, failed>>, InHand' = InHand
      PROVE  Filed' /\ Counted'
  BY <1>0, <1>s DEF Filed, Counted, WithPublishers
<1>1. CASE MainStep \/ End \/ RollbackRaises \/ NotDue \/ Due \/ Delete \/ DeleteFails
  <2>1. UNCHANGED <<queue, draft, count, dropped, persisted, failed, current>>
    BY <1>1 DEF MainStep, Start, SetStop, LeaveJoin, Release, Exit, End, RollbackRaises, NotDue, Due,
                Delete, DeleteFails, work, drafts, counts
  <2> QED BY <2>1, <1>s DEF InHand
<1>2. ASSUME NEW p \in Publishers, Check(p) PROVE Filed' /\ Counted'
  <2>1. /\ count' = count + 1 /\ count < MaxEvents
        /\ draft' = [draft EXCEPT ![p] = count + 1] /\ draft[p] = None
        /\ UNCHANGED <<queue, current, counts>>
    BY <1>0, <1>2 DEF Check, TrailInv, Typed, Places, work
  <2>2. count + 1 \in Events /\ count + 1 # None /\ count + 1 \notin 1..count
        /\ 1..(count + 1) = (1..count) \cup {count + 1}
    BY <1>a, <2>1, EventAssumption DEF Events, None
  <2>3. WithPublishers' = WithPublishers \cup {count + 1}
    BY <1>0, <2>1, <2>2, DraftIn
  <2>4. count + 1 \notin WithPublishers
    BY <1>0, <2>2 DEF Filed
  <2>5. Cardinality(WithPublishers') = Cardinality(WithPublishers) + 1
    BY <1>a, <2>2, <2>3, <2>4, Sizes
  <2>6. InHand' = InHand
    BY <2>1 DEF InHand, counts
  <2>7. Filed'
    BY <1>0, <2>1, <2>2, <2>3, <2>6 DEF Filed, counts
  <2>8. Counted'
    BY <1>0, <1>a, <1>b, <2>1, <2>5, <2>6 DEF Counted, counts
  <2> QED BY <2>7, <2>8
<1>3. ASSUME NEW p \in Publishers, Put(p) PROVE Filed' /\ Counted'
  <2>1. /\ draft[p] \in Events /\ draft[p] # None
        /\ draft' = [draft EXCEPT ![p] = None] /\ queue' = Append(queue, draft[p])
        /\ UNCHANGED <<count, current, counts>>
    BY <1>0, <1>3, Facts DEF Put, TrailInv, Typed, TypeOK, Places, work
  <2>2. draft[p] \in WithPublishers /\ WithPublishers' = WithPublishers \ {draft[p]}
    BY <1>0, <2>1, DraftOut
  <2>3. Range(queue') = Range(queue) \cup {draft[p]} /\ Len(queue') = Len(queue) + 1
    BY <1>a, <2>1, RangeAppend
  <2>4. Cardinality(WithPublishers') = Cardinality(WithPublishers) - 1
    BY <1>a, <2>2, Sizes
  <2>5. InHand' = InHand
    BY <2>1 DEF InHand, counts
  <2>6. Filed'
    BY <1>0, <2>1, <2>2, <2>3, <2>5 DEF Filed, counts
  <2>7. Counted'
    BY <1>0, <1>a, <1>b, <2>1, <2>3, <2>4, <2>5 DEF Counted, counts
  <2> QED BY <2>6, <2>7
<1>4. ASSUME NEW p \in Publishers, RecordDrop(p) PROVE Filed' /\ Counted'
  <2>1. /\ draft[p] \in Events /\ draft[p] # None /\ draft[p] \notin dropped
        /\ draft' = [draft EXCEPT ![p] = None] /\ dropped' = dropped \cup {draft[p]}
        /\ UNCHANGED <<count, queue, current, persisted, failed>>
    BY <1>0, <1>4, Facts DEF RecordDrop, TrailInv, Typed, TypeOK, Places, Single, Handled, work
  <2>2. draft[p] \in WithPublishers /\ WithPublishers' = WithPublishers \ {draft[p]}
    BY <1>0, <2>1, DraftOut
  <2>3. Cardinality(WithPublishers') = Cardinality(WithPublishers) - 1
        /\ Cardinality(dropped') = Cardinality(dropped) + 1
    BY <1>a, <2>1, <2>2, Sizes
  <2>4. InHand' = InHand
    BY <2>1 DEF InHand
  <2>5. Filed'
    BY <1>0, <2>1, <2>2, <2>4 DEF Filed
  <2>6. Counted'
    <3>1. count = Cardinality(WithPublishers) + Len(queue) + Cardinality(InHand) + Cardinality(persisted)
                  + Cardinality(failed) + Cardinality(dropped)
      BY <1>0 DEF Counted
    <3>2. count' = Cardinality(WithPublishers') + Len(queue') + Cardinality(InHand') + Cardinality(persisted')
                   + Cardinality(failed') + Cardinality(dropped')
      BY <1>a, <1>b, <2>1, <2>3, <2>4, <3>1
    <3> QED BY <3>2 DEF Counted
  <2> QED BY <2>5, <2>6
<1>5. ASSUME NEW p \in Publishers, PutFails(p) PROVE Filed' /\ Counted'
  BY <1>5, <1>s DEF PutFails, InHand, counts, work
<1>6. CASE Take
  <2>1. /\ queue # <<>> /\ current = None
        /\ current' = Head(queue) /\ queue' = Tail(queue)
        /\ UNCHANGED <<count, draft, counts>>
    BY <1>0, <1>6 DEF Take, TrailInv, Typed, Places, drafts
  <2>2. /\ Head(queue) \in Events /\ Range(queue) = {Head(queue)} \cup Range(queue')
        /\ Len(queue') = Len(queue) - 1
    BY <1>a, <2>1, RangeTail
  <2>3. Head(queue) \notin persisted /\ Head(queue) # None
    BY <1>0, <1>a, <2>2 DEF Once
  <2>4. InHand = {} /\ InHand' = {Head(queue)}
    BY <2>1, <2>3 DEF InHand, counts
  <2>5. WithPublishers' = WithPublishers
    BY <2>1 DEF WithPublishers
  <2>6. Filed'
    BY <1>0, <2>1, <2>2, <2>4, <2>5 DEF Filed, counts
  <2>7. Cardinality(InHand) = 0 /\ Cardinality(InHand') = 1
    BY <2>4, SmallSizes
  <2>8. Counted'
    BY <1>0, <1>a, <1>b, <2>1, <2>2, <2>5, <2>7 DEF Counted, counts
  <2> QED BY <2>6, <2>8
<1>7. CASE Persist
  <2>1. /\ current \in Events /\ current \notin persisted
        /\ persisted' = persisted \cup {current}
        /\ UNCHANGED <<count, queue, draft, current, dropped, failed>>
    BY <1>0, <1>7 DEF Persist, TrailInv, Typed, TypeOK, Once, drafts
  <2>2. InHand = {current} /\ InHand' = {}
    BY <1>a, <2>1 DEF InHand
  <2>3. Cardinality(persisted') = Cardinality(persisted) + 1
    BY <1>a, <2>1, Sizes
  <2>4. WithPublishers' = WithPublishers
    BY <2>1 DEF WithPublishers
  <2>5. Filed'
    BY <1>0, <2>1, <2>2, <2>4 DEF Filed
  <2>6. Cardinality(InHand) = 1 /\ Cardinality(InHand') = 0
    BY <2>2, SmallSizes
  <2>7. Counted'
    BY <1>0, <1>a, <1>b, <2>1, <2>3, <2>4, <2>6 DEF Counted
  <2> QED BY <2>5, <2>7
<1>8. CASE AttemptFails \/ Break
  <2>1. /\ current \in Events /\ current \notin persisted /\ current \notin failed
        /\ UNCHANGED <<count, queue, draft, persisted, dropped>>
        /\ \/ UNCHANGED <<current, failed>>
           \/ current' = None /\ failed' = failed \cup {current}
    BY <1>0, <1>8 DEF AttemptFails, Break, GiveUp, TrailInv, Typed, TypeOK, Once, drafts
  <2>2. CASE UNCHANGED <<current, failed>>
    BY <2>1, <2>2, <1>s DEF InHand, counts
  <2>3. CASE current' = None /\ failed' = failed \cup {current}
    <3>1. InHand = {current} /\ InHand' = {}
      BY <1>a, <2>1, <2>3 DEF InHand
    <3>2. Cardinality(failed') = Cardinality(failed) + 1
      BY <1>a, <2>1, <2>3, Sizes
    <3>3. WithPublishers' = WithPublishers
      BY <2>1 DEF WithPublishers
    <3>4. Filed'
      BY <1>0, <2>1, <2>3, <3>1, <3>3 DEF Filed
    <3>5. Cardinality(InHand) = 1 /\ Cardinality(InHand') = 0
      BY <3>1, SmallSizes
    <3>6. Counted'
      BY <1>0, <1>a, <1>b, <2>1, <3>2, <3>3, <3>5 DEF Counted
    <3> QED BY <3>4, <3>6
  <2> QED BY <2>1, <2>2, <2>3
<1>9. CASE Announce
  <2>1. current \in persisted /\ current' = None
        /\ UNCHANGED <<count, queue, draft, counts>>
    BY <1>0, <1>9 DEF Announce, Once, drafts
  <2>2. InHand' = InHand
    BY <2>1 DEF InHand, counts
  <2> QED BY <2>1, <2>2, <1>s DEF counts
<1>10. ASSUME NEW r \in Retentions, Configure(r) PROVE Filed' /\ Counted'
  BY <1>10, <1>s DEF Configure, InHand, counts, work, drafts
<1>11. CASE NextDay
  BY <1>11, <1>s DEF NextDay, InHand, counts, work, drafts
<1>12. CASE UNCHANGED vars
  BY <1>12, <1>s DEF vars, InHand, counts, work, drafts
<1> QED
  BY <1>1, <1>2, <1>3, <1>4, <1>5, <1>6, <1>7, <1>8, <1>9, <1>10, <1>11, <1>12
     DEF Next, PublisherStep, WorkerStep

\* Only an event given up or a pruning that failed is counted as a failure.
LEMMA FailuresStep == AccountInv /\ [Next]_vars => Failures'
<1> SUFFICES ASSUME AccountInv, [Next]_vars PROVE Failures'
  OBVIOUS
<1>0. /\ current \notin failed /\ failed \in SUBSET Events /\ Failures
      /\ failures \in Nat /\ unpruned \in Nat /\ Cardinality(failed) \in Nat
  BY Sizes DEF AccountInv, TrailInv, Typed, TypeOK, Once
<1>1. CASE UNCHANGED <<failed, failures, unpruned>>
  BY <1>0, <1>1 DEF Failures
<1>2. CASE AttemptFails \/ Break
  <2>1. /\ unpruned' = unpruned /\ current \in Events
        /\ \/ UNCHANGED <<failed, failures>>
           \/ failed' = failed \cup {current} /\ failures' = failures + 1
    BY <1>2 DEF AttemptFails, Break, GiveUp, CountFailure, AccountInv, TrailInv, Typed, TypeOK
  <2>2. CASE failed' = failed \cup {current} /\ failures' = failures + 1
    <3>1. Cardinality(failed') = Cardinality(failed) + 1
      BY <1>0, <2>1, <2>2, Sizes
    <3> QED BY <1>0, <2>1, <2>2, <3>1 DEF Failures
  <2> QED BY <1>1, <2>1, <2>2
<1>3. CASE DeleteFails
  <2>1. failed' = failed /\ failures' = failures + 1 /\ unpruned' = unpruned + 1
    BY <1>3 DEF DeleteFails, CountFailure
  <2> QED BY <1>0, <2>1 DEF Failures
<1>4. CASE \/ MainStep \/ End \/ RollbackRaises \/ NotDue \/ Due \/ Delete
           \/ Take \/ Persist \/ Announce \/ NextDay \/ UNCHANGED vars
  BY <1>1, <1>4 DEF MainStep, Start, SetStop, LeaveJoin, Release, Exit, End, RollbackRaises, NotDue,
                    Due, Delete, Take, Persist, Announce, NextDay, vars, counts
<1>5. ASSUME NEW p \in Publishers, PublisherStep(p) PROVE Failures'
  BY <1>1, <1>5 DEF PublisherStep, Check, Put, PutFails, RecordDrop, counts
<1>6. ASSUME NEW r \in Retentions, Configure(r) PROVE Failures'
  BY <1>1, <1>6 DEF Configure, counts
<1> QED BY <1>2, <1>3, <1>4, <1>5, <1>6 DEF Next, WorkerStep

\* No event vanishes and none has two outcomes, whatever the publishers, the worker
\* and the shutdown do between each other's steps; the counters count the events, and
\* _failed the failed prunings as well.
THEOREM AccountsBalance == Spec => []Accounted
<1>1. Init => AccountInv
  <2> SUFFICES ASSUME Init PROVE AccountInv
    OBVIOUS
  <2>1. TrailInv
    <3>1. Single /\ Ways
      BY DEF Init, Single, Ways, Handled, Range
    <3> QED BY <3>1, TypedInit DEF TrailInv
  <2>2. Once
    BY DEF Init, Once, Distinct, Range
  <2>3. WithPublishers = {} /\ InHand = {} /\ Range(queue) = {} /\ Len(queue) = 0
    BY DEF Init, WithPublishers, InHand, Range
  <2>4. persisted = {} /\ failed = {} /\ dropped = {} /\ count = 0
    BY DEF Init
  <2>5. Filed
    BY <2>3, <2>4 DEF Filed
  <2>6. Counted
    BY <2>3, <2>4, SmallSizes DEF Counted
  <2>7. Failures
    BY <2>4, SmallSizes DEF Init, Failures
  <2> QED BY <2>1, <2>2, <2>5, <2>6, <2>7 DEF AccountInv
<1>2. AccountInv /\ [Next]_vars => AccountInv'
  BY TypedStep, SingleStep, WaysStep, OnceStep, BooksStep, FailuresStep DEF AccountInv, TrailInv
<1>3. AccountInv => Accounted
  <2> SUFFICES ASSUME AccountInv PROVE Accounted
    OBVIOUS
  <2>1. /\ Cardinality(WithPublishers) \in Nat /\ Cardinality(InHand) \in Nat /\ count \in Nat
        /\ Cardinality(persisted) \in Nat /\ Cardinality(failed) \in Nat /\ Len(queue) \in Nat
        /\ Cardinality(dropped) \in Nat /\ failures \in Nat /\ unpruned \in Nat
    BY CountedSets, Sizes DEF AccountInv, TrailInv, Typed, TypeOK
  <2> QED BY <2>1 DEF AccountInv, Filed, Counted, Failures, Accounted
<1> QED BY <1>1, <1>2, <1>3, PTL DEF Spec
-----------------------------------------------------------------------------
(* LiveEvents for any connections, capacities and events: what a slow client loses *)
(* are the oldest events.                                                          *)

Handlers == {"new", "waiting", "sending", "refused", "over"}

\* The domains, and what a closed loop, a new connection and the publisher imply.
Wired == /\ queues \in [Connections -> Seq(Numbers)]
         /\ ready \in Seq(Connections \X Numbers)
         /\ handler \in [Connections -> Handlers]
         /\ got \in [Connections -> Nat] /\ published \in 0..MaxPublished
         /\ open \in BOOLEAN
         /\ subscribers \subseteq Connections /\ todo \subseteq Connections
         /\ stale \subseteq Connections /\ there \subseteq Connections
         /\ IsFiniteSet(subscribers) /\ Cardinality(subscribers) <= MaxSubscribers
         /\ IF open THEN subscribers = Served /\ stale = {} ELSE Served = {}
         /\ todo # {} => published # 0
         /\ \A c \in Connections : /\ Len(queues[c]) <= QueueCapacity /\ got[c] <= published
                                   /\ handler[c] = "new" => ~open \/ c \notin todo

\* A connection that is not served yet finds nothing on its way.
Fresh == \A c \in Connections : handler[c] = "new" => queues[c] = <<>> /\ Calls(c) = {}

Ascending(s) == \A i, j \in DOMAIN s : i < j => s[i] < s[j]
InTurn(c) == \A i, j \in Calls(c) : i < j => ready[i][2] < ready[j][2]

\* LatestKept for one client.
Kept(c) == /\ Ascending(queues[c]) /\ InTurn(c)
           /\ \A m \in Range(queues[c]), n \in Posted(c) \cup Unposted(c) : m < n
           /\ \A m \in Posted(c), n \in Unposted(c) : m < n
           /\ Underway(c) \subseteq (got[c] + 1)..published
           /\ \A n \in Underway(c) : n..published \subseteq Underway(c)
           /\ Underway(c) # (got[c] + 1)..published => Len(queues[c]) = QueueCapacity

LiveInv == Wired /\ Fresh /\ LatestKept

LEMMA KeptForEach == LatestKept <=> \A c \in Served : Kept(c)
BY DEF LatestKept, OneAfterAnother, Kept, Ascending, InTurn

\* A queue, when an event is put into it and when one is taken.
LEMMA AscendingAppend ==
    ASSUME NEW s \in Seq(Nat), NEW n \in Nat, Ascending(s), \A m \in Range(s) : m < n
    PROVE  Ascending(Append(s, n))
<1>1. Len(Append(s, n)) = Len(s) + 1 /\ Append(s, n)[Len(s) + 1] = n
  OBVIOUS
<1>2. \A i \in 1..Len(s) : Append(s, n)[i] = s[i] /\ s[i] \in Nat /\ s[i] \in Range(s)
  BY DEF Range
<1>3. DOMAIN s = 1..Len(s) /\ DOMAIN Append(s, n) = 1..(Len(s) + 1) /\ Len(s) \in Nat
  OBVIOUS
<1> QED BY <1>1, <1>2, <1>3 DEF Ascending

LEMMA AscendingTail ==
    ASSUME NEW s \in Seq(Nat), s # <<>>, Ascending(s)
    PROVE  Ascending(Tail(s)) /\ \A m \in Range(Tail(s)) : Head(s) < m
<1>1. /\ Len(s) \in Nat \ {0} /\ Len(Tail(s)) = Len(s) - 1 /\ Head(s) = s[1]
      /\ DOMAIN s = 1..Len(s) /\ DOMAIN Tail(s) = 1..(Len(s) - 1)
  OBVIOUS
<1>2. \A i \in 1..(Len(s) - 1) : Tail(s)[i] = s[i + 1]
  OBVIOUS
<1>3. Ascending(Tail(s))
  BY <1>1, <1>2 DEF Ascending
<1>4. ASSUME NEW m \in Range(Tail(s)) PROVE Head(s) < m
  <2>1. PICK i \in 1..(Len(s) - 1) : m = Tail(s)[i]
    BY <1>1 DEF Range
  <2>2. i + 1 \in DOMAIN s /\ 1 \in DOMAIN s /\ 1 < i + 1 /\ m = s[i + 1]
    BY <1>1, <1>2, <2>1
  <2> QED BY <1>1, <2>2 DEF Ascending
<1> QED BY <1>3, <1>4

\* A callback is posted at the end, and run at the front.
LEMMA PostsLast ==
    ASSUME ready \in Seq(Connections \X Numbers), NEW c \in Connections, NEW n \in Numbers,
           ready' = Append(ready, <<c, n>>), NEW x \in Connections
    PROVE  /\ Posted(x)' = IF x = c THEN Posted(x) \cup {n} ELSE Posted(x)
           /\ InTurn(x) /\ (x = c => \A m \in Posted(x) : m < n) => InTurn(x)'
           /\ x # c => Calls(x)' = Calls(x)
<1>1. /\ DOMAIN ready = 1..Len(ready) /\ DOMAIN ready' = 1..(Len(ready) + 1) /\ Len(ready) \in Nat
      /\ ready'[Len(ready) + 1] = <<c, n>>
  OBVIOUS
<1>2. \A i \in 1..Len(ready) : ready'[i] = ready[i]
  OBVIOUS
<1>3. Calls(x)' = IF x = c THEN Calls(x) \cup {Len(ready) + 1} ELSE Calls(x)
  BY <1>1, <1>2 DEF Calls
<1>4. \A i \in Calls(x) : i \in 1..Len(ready) /\ ready[i][2] \in Posted(x)
  BY <1>1 DEF Calls, Posted
<1>5. Posted(x)' = IF x = c THEN Posted(x) \cup {n} ELSE Posted(x)
  BY <1>1, <1>2, <1>3, <1>4 DEF Posted
<1>6. InTurn(x) /\ (x = c => \A m \in Posted(x) : m < n) => InTurn(x)'
  BY <1>1, <1>2, <1>3, <1>4 DEF InTurn
<1> QED BY <1>3, <1>5, <1>6

LEMMA RunsFirst ==
    ASSUME ready \in Seq(Connections \X Numbers), ready # <<>>, ready' = Tail(ready),
           NEW x \in Connections
    PROVE  /\ Posted(x) = IF x = Head(ready)[1] THEN {Head(ready)[2]} \cup Posted(x)' ELSE Posted(x)'
           /\ InTurn(x) => InTurn(x)' /\ (x = Head(ready)[1] => \A m \in Posted(x)' : Head(ready)[2] < m)
           /\ Calls(x) = {} => Calls(x)' = {}
<1>1. /\ Len(ready) \in Nat \ {0} /\ DOMAIN ready = 1..Len(ready) /\ Head(ready) = ready[1]
      /\ DOMAIN ready' = 1..(Len(ready) - 1)
  OBVIOUS
<1>2. \A i \in 1..(Len(ready) - 1) : ready'[i] = ready[i + 1]
  OBVIOUS
<1>3. Calls(x)' = {i \in 1..(Len(ready) - 1) : i + 1 \in Calls(x)}
  BY <1>1, <1>2 DEF Calls
<1>4. \A i \in Calls(x) : i = 1 \/ (i - 1 \in Calls(x)' /\ ready'[i - 1] = ready[i])
  BY <1>1, <1>2, <1>3 DEF Calls
<1>5. \A i \in Calls(x)' : i \in 1..(Len(ready) - 1) /\ i + 1 \in Calls(x) /\ ready'[i] = ready[i + 1]
  BY <1>2, <1>3
<1>6. 1 \in Calls(x) <=> x = Head(ready)[1]
  BY <1>1 DEF Calls
<1>7. Posted(x) = IF x = Head(ready)[1] THEN {Head(ready)[2]} \cup Posted(x)' ELSE Posted(x)'
  <2>1. ASSUME NEW m \in Posted(x)
        PROVE  m \in Posted(x)' \/ (x = Head(ready)[1] /\ m = Head(ready)[2])
    <3>1. PICK i \in Calls(x) : m = ready[i][2]
      BY DEF Posted
    <3>2. CASE i = 1
      BY <1>1, <1>6, <3>1, <3>2
    <3>3. CASE i # 1
      BY <1>4, <3>1, <3>3 DEF Posted
    <3> QED BY <3>2, <3>3
  <2>2. \A m \in Posted(x)' : m \in Posted(x)
    BY <1>5 DEF Posted
  <2>3. x = Head(ready)[1] => Head(ready)[2] \in Posted(x)
    BY <1>1, <1>6 DEF Posted
  <2> QED BY <2>1, <2>2, <2>3
<1>8. InTurn(x) => InTurn(x)' /\ (x = Head(ready)[1] => \A m \in Posted(x)' : Head(ready)[2] < m)
  <2>1. InTurn(x) => InTurn(x)'
    BY <1>5 DEF InTurn
  <2>2. ASSUME InTurn(x), x = Head(ready)[1], NEW m \in Posted(x)' PROVE Head(ready)[2] < m
    <3>1. PICK i \in Calls(x)' : m = ready'[i][2]
      BY DEF Posted
    <3>2. 1 < i + 1
      BY <1>5, <3>1
    <3> QED BY <1>1, <1>5, <1>6, <2>2, <3>1, <3>2 DEF InTurn
  <2> QED BY <2>1, <2>2
<1> QED BY <1>5, <1>7, <1>8
-----------------------------------------------------------------------------
(* The steps.                                                                *)

LEMMA KeptAfterwards == (\A x \in Served' : Kept(x)') => LatestKept'
BY DEF LatestKept, OneAfterAnother, Kept, Ascending, InTurn

LEMMA KeptStays ==
    ASSUME NEW x, Kept(x), queues'[x] = queues[x], got'[x] = got[x], published' = published,
           Posted(x)' = Posted(x), InTurn(x)', Unposted(x)' = Unposted(x)
    PROVE  Kept(x)'
BY DEF Kept, Underway

\* Nothing that is on its way is touched.
LEMMA NothingMoves ==
    ASSUME LatestKept, UNCHANGED <<queues, ready, got, published, todo>>, Served' \subseteq Served
    PROVE  LatestKept'
<1>1. ASSUME NEW x \in Served' PROVE Kept(x)'
  <2>1. Kept(x)
    BY KeptForEach
  <2>2. Posted(x)' = Posted(x) /\ Unposted(x)' = Unposted(x) /\ (InTurn(x) => InTurn(x)')
    BY DEF Posted, Unposted, Calls, InTurn
  <2> QED BY <2>1, <2>2, KeptStays DEF Kept
<1> QED BY <1>1, KeptAfterwards

LEMMA PublishKeeps == ASSUME LiveInv, Publish PROVE LiveInv'
<1> USE LiveEventsAssumption DEF LiveInv
<1>1. /\ todo = {} /\ stale = {} /\ published < MaxPublished /\ published' = published + 1
      /\ todo' = subscribers
      /\ UNCHANGED <<subscribers, stale, queues, ready, open, handler, there, got>>
  BY DEF Publish, loop
<1>2. Served' = Served
  BY <1>1 DEF Served
<1>3. Wired'
  <2>1. published \in Nat /\ published' \in 0..MaxPublished /\ published' # 0
    BY <1>1 DEF Wired
  <2>2. \A c \in Connections : got'[c] <= published'
    BY <1>1, <2>1 DEF Wired
  <2>3. \A c \in Connections : handler[c] = "new" => c \notin Served
    BY DEF Served
  <2> QED BY <1>1, <1>2, <2>1, <2>2, <2>3 DEF Wired
<1>4. Fresh'
  BY <1>1 DEF Fresh, Calls
<1>5. ASSUME NEW x \in Served' PROVE Kept(x)'
  <2>1. Kept(x) /\ x \in Connections /\ x \in subscribers
    BY <1>2, <1>5, KeptForEach DEF Wired, Served
  <2>2. /\ Posted(x)' = Posted(x) /\ (InTurn(x) => InTurn(x)')
        /\ Unposted(x) = {} /\ Unposted(x)' = {published + 1}
    BY <1>1, <2>1 DEF Posted, Unposted, Calls, InTurn
  <2>3. published \in Nat /\ got[x] \in Nat /\ got[x] <= published
    BY <2>1 DEF Wired
  <2>4. Underway(x)' = Underway(x) \cup {published + 1}
    BY <1>1, <2>2 DEF Underway
  <2>5. Underway(x) \subseteq (got[x] + 1)..published
    BY <2>1 DEF Kept
  <2>6. Range(queues[x]) \subseteq Underway(x) /\ Posted(x) \subseteq Underway(x)
    BY DEF Underway
  <2>7. \A n \in Underway(x)' : n..(published + 1) \subseteq Underway(x)'
    BY <2>1, <2>3, <2>4, <2>5 DEF Kept
  <2>8. Underway(x)' \subseteq (got[x] + 1)..(published + 1)
    BY <2>3, <2>4, <2>5
  <2>9. Underway(x)' # (got[x] + 1)..(published + 1) => Underway(x) # (got[x] + 1)..published
    BY <2>3, <2>4
  <2>10. /\ \A m \in Range(queues[x]) : m < published + 1
         /\ \A m \in Posted(x) : m < published + 1
    BY <2>3, <2>5, <2>6
  <2> QED BY <1>1, <2>1, <2>2, <2>7, <2>8, <2>9, <2>10 DEF Kept
<1> QED BY <1>3, <1>4, <1>5, KeptAfterwards

LEMMA PostKeeps == ASSUME LiveInv, NEW c \in Connections, Post(c) PROVE LiveInv'
<1> USE LiveEventsAssumption DEF LiveInv
<1>1. /\ c \in todo /\ todo' = todo \ {c}
      /\ UNCHANGED <<subscribers, published, queues, open, handler, there, got>>
      /\ Served' = Served
  BY DEF Post, Served
<1>2. CASE open
  <2>1. ready' = Append(ready, <<c, published>>) /\ stale' = stale /\ published \in Numbers
    BY <1>1, <1>2 DEF Post, Wired, Numbers
  <2>2. Wired'
    <3>1. ready' \in Seq(Connections \X Numbers)
      BY <2>1 DEF Wired
    <3> QED BY <1>1, <2>1, <3>1 DEF Wired
  <2>3. Fresh'
    <3>1. ASSUME NEW x \in Connections, handler[x] = "new" PROVE Calls(x)' = {}
      <4>1. x # c
        BY <1>1, <1>2, <3>1 DEF Wired
      <4> QED BY <2>1, <3>1, <4>1, PostsLast DEF Wired, Fresh
    <3> QED BY <1>1, <3>1 DEF Fresh
  <2>4. ASSUME NEW x \in Served' PROVE Kept(x)'
    <3>1. Kept(x) /\ x \in Connections
      BY <1>1, <2>4, KeptForEach DEF Served
    <3>2. /\ Posted(x)' = IF x = c THEN Posted(x) \cup {published} ELSE Posted(x)
          /\ InTurn(x) /\ (x = c => \A m \in Posted(x) : m < published) => InTurn(x)'
      BY <2>1, <3>1, PostsLast DEF Wired
    <3>3. CASE x # c
      BY <1>1, <3>1, <3>2, <3>3, KeptStays DEF Kept, Unposted
    <3>4. CASE x = c
      <4>1. Unposted(x) = {published} /\ Unposted(x)' = {} /\ Posted(x)' = Posted(x) \cup {published}
        BY <1>1, <3>2, <3>4 DEF Unposted
      <4>2. Underway(x)' = Underway(x)
        BY <1>1, <4>1 DEF Underway
      <4> QED BY <1>1, <3>1, <3>2, <4>1, <4>2 DEF Kept
    <3> QED BY <3>3, <3>4
  <2> QED BY <2>2, <2>3, <2>4, KeptAfterwards
<1>3. CASE ~open
  <2>1. ready' = ready /\ stale' = stale \cup {c} /\ Served = {}
    BY <1>3 DEF Post, Wired
  <2>2. Wired'
    BY <1>1, <1>3, <2>1 DEF Wired
  <2>3. Fresh' /\ LatestKept'
    BY <1>1, <2>1 DEF Fresh, Calls, LatestKept
  <2> QED BY <2>2, <2>3
<1> QED BY <1>2, <1>3

LEMMA ForgetKeeps == ASSUME LiveInv, NEW c \in Connections, Forget(c) PROVE LiveInv'
<1> USE DEF LiveInv
<1>1. /\ c \in stale /\ stale' = stale \ {c} /\ subscribers' = subscribers \ {c}
      /\ UNCHANGED <<published, todo, queues, ready, open, handler, there, got>>
      /\ Served' = Served /\ ~open
  BY DEF Forget, Served, Wired, loop
<1>2. /\ IsFiniteSet(subscribers') /\ Cardinality(subscribers') <= MaxSubscribers
  <2>1. IsFiniteSet(subscribers) /\ subscribers' \subseteq subscribers
    BY <1>1 DEF Wired
  <2>2. IsFiniteSet(subscribers') /\ Cardinality(subscribers') <= Cardinality(subscribers)
    BY <2>1, FS_Subset
  <2>3. Cardinality(subscribers') \in Nat /\ Cardinality(subscribers) \in Nat
    BY <2>1, <2>2, FS_CardinalityType
  <2> QED BY <2>2, <2>3, LiveEventsAssumption DEF Wired
<1>3. Wired'
  BY <1>1, <1>2 DEF Wired
<1>4. Fresh'
  BY <1>1 DEF Fresh, Calls
<1> QED BY <1>1, <1>3, <1>4, NothingMoves

\* An event that is put into a full queue drives out the oldest.
LEMMA OfferedKeeps ==
    ASSUME NEW q \in Seq(Numbers), Len(q) <= QueueCapacity, Ascending(q),
           NEW n \in Numbers, \A m \in Range(q) : m < n
    PROVE  /\ Offered(q, n) \in Seq(Numbers) /\ Len(Offered(q, n)) <= QueueCapacity
           /\ Ascending(Offered(q, n))
           /\ \/ Len(q) # QueueCapacity /\ Range(Offered(q, n)) = Range(q) \cup {n}
              \/ /\ Len(q) = QueueCapacity /\ Len(Offered(q, n)) = QueueCapacity
                 /\ Head(q) \in Range(q) /\ n \in Range(Offered(q, n))
                 /\ Range(q) \cup {n} = {Head(q)} \cup Range(Offered(q, n))
                 /\ \A m \in Range(Offered(q, n)) : Head(q) < m
<1> USE LiveEventsAssumption
<1>0. Numbers \subseteq Nat /\ q \in Seq(Nat) /\ n \in Nat
  BY DEF Numbers
<1>1. CASE Len(q) # QueueCapacity
  <2>1. Offered(q, n) = Append(q, n) /\ Len(Append(q, n)) = Len(q) + 1 /\ Append(q, n) \in Seq(Numbers)
    BY <1>1 DEF Offered
  <2>2. Len(Offered(q, n)) <= QueueCapacity
    BY <1>1, <2>1
  <2> QED BY <1>0, <1>1, <2>1, <2>2, RangeAppend, AscendingAppend
<1>2. CASE Len(q) = QueueCapacity
  <2>1. Offered(q, n) = Append(Tail(q), n) /\ q # <<>> /\ Len(q) # 0
    BY <1>2 DEF Offered
  <2>2. Tail(q) \in Seq(Numbers) /\ Range(q) = {Head(q)} \cup Range(Tail(q)) /\ Len(Tail(q)) = Len(q) - 1
    BY <2>1, RangeTail
  <2>3. Tail(q) \in Seq(Nat) /\ Ascending(Tail(q)) /\ \A m \in Range(Tail(q)) : Head(q) < m
    BY <1>0, <2>1, <2>2, AscendingTail
  <2>4. /\ Append(Tail(q), n) \in Seq(Numbers) /\ Len(Append(Tail(q), n)) = QueueCapacity
        /\ Range(Append(Tail(q), n)) = Range(Tail(q)) \cup {n}
    <3>1. PICK r \in Seq(Numbers) : r = Tail(q)
      BY <2>2
    <3>2. Range(Append(r, n)) = Range(r) \cup {n}
      BY RangeAppend
    <3> QED BY <1>2, <2>2, <3>1, <3>2
  <2>5. Ascending(Append(Tail(q), n))
    BY <1>0, <2>2, <2>3, AscendingAppend
  <2> QED BY <1>2, <2>1, <2>2, <2>3, <2>4, <2>5
<1> QED BY <1>1, <1>2

LEMMA CallbackKeeps == ASSUME LiveInv, Callback PROVE LiveInv'
<1> USE LiveEventsAssumption DEF LiveInv
<1>1. /\ open /\ ready # <<>> /\ ready' = Tail(ready)
      /\ UNCHANGED <<subscribers, published, todo, stale, open, handler, there, got>>
      /\ Served' = Served
  BY DEF Callback, broker, Served
<1>12. PICK c \in Connections, n \in Numbers : Head(ready) = <<c, n>>
  <2>1. Head(ready) \in Connections \X Numbers
    BY <1>1, RangeTail DEF Wired
  <2> QED BY <2>1
<1>13. Head(ready)[1] = c /\ Head(ready)[2] = n
  BY <1>12
<1>2. c \in Connections /\ n \in Numbers /\ ready' \in Seq(Connections \X Numbers)
  BY <1>1 DEF Wired
<1>3. queues' = IF c \in Served THEN [queues EXCEPT ![c] = Offered(queues[c], n)] ELSE queues
  <2>1. queues' = IF Head(ready)[1] \in Served
                  THEN [queues EXCEPT ![Head(ready)[1]] = Offered(queues[Head(ready)[1]], Head(ready)[2])]
                  ELSE queues
    BY DEF Callback
  <2> QED BY <1>13, <2>1
<1>4. \A x \in Connections :
        /\ Posted(x) = IF x = c THEN {n} \cup Posted(x)' ELSE Posted(x)'
        /\ InTurn(x) => InTurn(x)' /\ (x = c => \A m \in Posted(x)' : n < m)
        /\ Calls(x) = {} => Calls(x)' = {}
  <2> SUFFICES ASSUME NEW x \in Connections
               PROVE  /\ Posted(x) = IF x = c THEN {n} \cup Posted(x)' ELSE Posted(x)'
                      /\ InTurn(x) => InTurn(x)' /\ (x = c => \A m \in Posted(x)' : n < m)
                      /\ Calls(x) = {} => Calls(x)' = {}
    OBVIOUS
  <2>1. /\ Posted(x) = IF x = Head(ready)[1] THEN {Head(ready)[2]} \cup Posted(x)' ELSE Posted(x)'
        /\ InTurn(x) => InTurn(x)' /\ (x = Head(ready)[1] => \A m \in Posted(x)' : Head(ready)[2] < m)
        /\ Calls(x) = {} => Calls(x)' = {}
    BY <1>1, RunsFirst DEF Wired
  <2> QED BY <1>13, <2>1
<1>5. \A x \in Connections : x # c \/ c \notin Served => queues'[x] = queues[x]
  BY <1>3 DEF Wired
<1>6. CASE c \in Served
  <2>1. Kept(c) /\ queues[c] \in Seq(Numbers) /\ Len(queues[c]) <= QueueCapacity
    BY <1>2, <1>6, KeptForEach DEF Wired
  <2>2. n \in Posted(c) /\ Ascending(queues[c]) /\ \A m \in Range(queues[c]) : m < n
    BY <1>2, <1>4, <2>1 DEF Kept
  <2>q. PICK q : q = queues[c]
    OBVIOUS
  <2>3. /\ Offered(q, n) \in Seq(Numbers) /\ Len(Offered(q, n)) <= QueueCapacity
        /\ Ascending(Offered(q, n))
        /\ \/ Len(q) # QueueCapacity /\ Range(Offered(q, n)) = Range(q) \cup {n}
           \/ /\ Len(q) = QueueCapacity /\ Len(Offered(q, n)) = QueueCapacity
              /\ Head(q) \in Range(q) /\ n \in Range(Offered(q, n))
              /\ Range(q) \cup {n} = {Head(q)} \cup Range(Offered(q, n))
              /\ \A m \in Range(Offered(q, n)) : Head(q) < m
    BY <1>2, <2>1, <2>2, <2>q, OfferedKeeps
  <2>4. queues' = [queues EXCEPT ![c] = Offered(q, n)] /\ queues'[c] = Offered(q, n)
    BY <1>2, <1>3, <1>6, <2>q DEF Wired
  <2>5. queues' \in [Connections -> Seq(Numbers)] /\ \A x \in Connections : Len(queues'[x]) <= QueueCapacity
    BY <1>2, <2>3, <2>4 DEF Wired
  <2>6. Wired'
    BY <1>1, <1>2, <2>5 DEF Wired
  <2>7. Fresh'
    <3>1. ASSUME NEW x \in Connections, handler[x] = "new" PROVE queues'[x] = <<>> /\ Calls(x)' = {}
      <4>1. x # c
        BY <1>6, <3>1 DEF Served
      <4> QED BY <1>4, <1>5, <3>1, <4>1 DEF Fresh
    <3> QED BY <1>1, <3>1 DEF Fresh
  <2>8. Unposted(c)' = Unposted(c) /\ InTurn(c)' /\ Posted(c) = {n} \cup Posted(c)' /\ \A m \in Posted(c)' : n < m
    BY <1>1, <1>2, <1>4, <2>1 DEF Unposted, Kept
  <2>9. Kept(c)'
    <3>1. got[c] \in Nat /\ published \in Nat /\ n \in Nat /\ Range(q) \subseteq Nat
      BY <1>2, <2>1, <2>q DEF Wired, Numbers, Range
    <3>2. Underway(c)' = Range(Offered(q, n)) \cup Posted(c)' \cup Unposted(c)
      BY <2>4, <2>8 DEF Underway
    <3>3. Underway(c) = Range(q) \cup {n} \cup Posted(c)' \cup Unposted(c)
      BY <2>8, <2>q DEF Underway
    <3>4. Underway(c) \subseteq (got[c] + 1)..published /\ \A k \in Underway(c) : k..published \subseteq Underway(c)
      BY <2>1 DEF Kept
    <3>5. \A m \in Range(Offered(q, n)), k \in Posted(c)' \cup Unposted(c) : m < k
      <4>1. \A k \in Posted(c)' \cup Unposted(c) : n < k
        BY <2>1, <2>8 DEF Kept
      <4>2. \A m \in Range(q), k \in Posted(c)' \cup Unposted(c) : m < k
        BY <2>1, <2>8, <2>q DEF Kept
      <4>3. Range(Offered(q, n)) \subseteq Range(q) \cup {n}
        BY <2>3
      <4> QED BY <4>1, <4>2, <4>3
    <3>6. \A m \in Posted(c)', k \in Unposted(c) : m < k
      BY <2>1, <2>8 DEF Kept
    <3>7. CASE Range(Offered(q, n)) = Range(q) \cup {n} /\ Len(q) # QueueCapacity
      <4>1. Underway(c)' = Underway(c) /\ Underway(c) = (got[c] + 1)..published
        BY <2>1, <2>q, <3>2, <3>3, <3>7 DEF Kept
      <4> QED BY <1>1, <2>3, <2>4, <2>8, <3>4, <3>5, <3>6, <4>1 DEF Kept
    <3>8. CASE /\ Len(Offered(q, n)) = QueueCapacity /\ Head(q) \in Range(q)
               /\ Range(q) \cup {n} = {Head(q)} \cup Range(Offered(q, n))
               /\ \A m \in Range(Offered(q, n)) : Head(q) < m
      <4>1. Underway(c) = {Head(q)} \cup Underway(c)' /\ Head(q) \in Nat
        BY <3>1, <3>2, <3>3, <3>8
      <4>2. \A k \in Underway(c)' : Head(q) < k
        <5>1. \A k \in Posted(c)' \cup Unposted(c) : Head(q) < k
          BY <2>1, <2>8, <2>q, <3>8 DEF Kept
        <5> QED BY <3>2, <3>8, <5>1
      <4>3. \A k \in Underway(c)' : k..published \subseteq Underway(c)'
        <5> SUFFICES ASSUME NEW k \in Underway(c)', NEW j \in k..published PROVE j \in Underway(c)'
          OBVIOUS
        <5>1. k \in Underway(c) /\ k \in Nat /\ j \in Nat /\ Head(q) < k /\ k <= j
          BY <3>1, <3>4, <4>1, <4>2
        <5>2. j \in Underway(c) /\ j # Head(q)
          BY <3>4, <4>1, <5>1
        <5> QED BY <4>1, <5>2
      <4>4. Underway(c)' \subseteq (got[c] + 1)..published
        BY <3>4, <4>1
      <4> QED BY <1>1, <2>3, <2>4, <2>8, <3>5, <3>6, <3>8, <4>3, <4>4 DEF Kept
    <3> QED BY <2>3, <3>7, <3>8
  <2>10. ASSUME NEW x \in Served' PROVE Kept(x)'
    <3>1. CASE x = c
      BY <2>9, <3>1
    <3>2. CASE x # c
      <4>1. Kept(x) /\ x \in Connections
        BY <1>1, <2>10, KeptForEach DEF Served
      <4> QED BY <1>1, <1>4, <1>5, <3>2, <4>1, KeptStays DEF Kept, Unposted
    <3> QED BY <3>1, <3>2
  <2> QED BY <2>6, <2>7, <2>10, KeptAfterwards
<1>7. CASE c \notin Served
  <2>1. queues' = queues
    BY <1>3, <1>7
  <2>2. Wired'
    BY <1>1, <1>2, <2>1 DEF Wired
  <2>3. Fresh'
    BY <1>1, <1>4, <2>1 DEF Fresh
  <2>4. ASSUME NEW x \in Served' PROVE Kept(x)'
    <3>1. Kept(x) /\ x \in Connections /\ x # c
      BY <1>1, <1>7, <2>4, KeptForEach DEF Served
    <3> QED BY <1>1, <1>4, <2>1, <3>1, KeptStays DEF Kept, Unposted
  <2> QED BY <2>2, <2>3, <2>4, KeptAfterwards
<1> QED BY <1>6, <1>7

LEMMA ConnectKeeps == ASSUME LiveInv, NEW c \in Connections, Connect(c) PROVE LiveInv'
<1> USE LiveEventsAssumption DEF LiveInv
<1>1. /\ open /\ handler[c] = "new" /\ c \notin todo
      /\ UNCHANGED <<published, todo, stale, queues, ready, open, there>>
  BY DEF Connect, loop, Wired
<1>2. queues[c] = <<>> /\ Calls(c) = {} /\ c \notin Served /\ subscribers = Served
  BY <1>1 DEF Fresh, Served, Wired
<1>3. CASE Admitted
  <2>1. /\ subscribers' = subscribers \cup {c} /\ handler' = [handler EXCEPT ![c] = "waiting"]
        /\ got' = [got EXCEPT ![c] = published]
    BY <1>3 DEF Connect
  <2>2. Served' = Served \cup {c}
    BY <2>1 DEF Served, Wired
  <2>3. IsFiniteSet(subscribers') /\ Cardinality(subscribers') <= MaxSubscribers
    <3>1. IsFiniteSet(subscribers) /\ Cardinality(subscribers) \in Nat
      BY FS_CardinalityType DEF Wired
    <3>2. IsFiniteSet(subscribers') /\ Cardinality(subscribers') = Cardinality(subscribers) + 1
      BY <1>2, <2>1, <3>1, FS_AddElement
    <3> QED BY <1>3, <3>1, <3>2 DEF Admitted
  <2>4. /\ handler' \in [Connections -> Handlers] /\ got' \in [Connections -> Nat]
        /\ \A x \in Connections : got'[x] <= published /\ (handler'[x] = "new" => handler[x] = "new")
    <3>1. published \in Nat
      BY DEF Wired
    <3> QED BY <2>1, <3>1 DEF Wired, Handlers
  <2>5. Wired'
    <3>1. IF open' THEN subscribers' = Served' /\ stale' = {} ELSE Served' = {}
      BY <1>1, <1>2, <2>1, <2>2 DEF Wired
    <3>2. subscribers' \subseteq Connections
      BY <2>1 DEF Wired
    <3> QED BY <1>1, <2>3, <2>4, <3>1, <3>2 DEF Wired
  <2>6. Fresh'
    BY <1>1, <2>4 DEF Fresh, Calls
  <2>7. ASSUME NEW x \in Served' PROVE Kept(x)'
    <3>0. Posted(x)' = Posted(x) /\ Unposted(x)' = Unposted(x) /\ (InTurn(x) => InTurn(x)')
      BY <1>1 DEF Posted, Unposted, Calls, InTurn
    <3>1. CASE x = c
      <4>1. Posted(x) = {} /\ Unposted(x) = {} /\ InTurn(x) /\ queues'[x] = <<>>
        BY <1>1, <1>2, <3>1 DEF Posted, Unposted, InTurn
      <4>2. Range(<<>>) = {} /\ Ascending(<<>>)
        BY DEF Range, Ascending
      <4>3. Underway(x)' = {}
        BY <3>0, <4>1, <4>2 DEF Underway
      <4>4. got'[x] = published' /\ published' \in Nat
        BY <1>1, <2>1, <3>1 DEF Wired
      <4>5. (got'[x] + 1)..published' = {}
        <5>1. \A p \in Nat : (p + 1)..p = {}
          OBVIOUS
        <5> QED BY <4>4, <5>1
      <4> QED BY <3>0, <4>1, <4>2, <4>3, <4>5 DEF Kept
    <3>2. CASE x # c
      <4>1. Kept(x) /\ x \in Connections
        BY <2>2, <2>7, <3>2, KeptForEach DEF Served
      <4>2. got'[x] = got[x]
        BY <2>1, <3>2, <4>1 DEF Wired
      <4> QED BY <1>1, <3>0, <4>1, <4>2, KeptStays DEF Kept
    <3> QED BY <3>1, <3>2
  <2> QED BY <2>5, <2>6, <2>7, KeptAfterwards
<1>4. CASE ~Admitted
  <2>1. handler' = [handler EXCEPT ![c] = "refused"] /\ UNCHANGED <<subscribers, got>>
    BY <1>4 DEF Connect
  <2>2. Served' = Served /\ handler' \in [Connections -> Handlers]
        /\ \A x \in Connections : handler'[x] = "new" => handler[x] = "new"
    BY <1>1, <2>1 DEF Served, Wired, Handlers
  <2>3. Wired'
    BY <1>1, <2>1, <2>2 DEF Wired
  <2>4. Fresh'
    BY <1>1, <2>2 DEF Fresh, Calls
  <2> QED BY <1>1, <2>1, <2>2, <2>3, <2>4, NothingMoves
<1> QED BY <1>3, <1>4

LEMMA ReceiveKeeps == ASSUME LiveInv, NEW c \in Connections, Receive(c) PROVE LiveInv'
<1> USE LiveEventsAssumption DEF LiveInv
<1>1. /\ handler[c] = "waiting" /\ queues[c] # <<>> /\ c \in Served
      /\ queues' = [queues EXCEPT ![c] = Tail(queues[c])] /\ got' = [got EXCEPT ![c] = Head(queues[c])]
      /\ handler' = [handler EXCEPT ![c] = "sending"]
      /\ UNCHANGED <<subscribers, published, todo, stale, ready, open, there>>
  BY DEF Receive, Woken, broker, Served
<1>2. Served' = Served
  BY <1>1 DEF Served, Wired
<1>3. \A x \in Connections : Posted(x)' = Posted(x) /\ Unposted(x)' = Unposted(x) /\ (InTurn(x) => InTurn(x)')
  BY <1>1 DEF Posted, Unposted, Calls, InTurn
<1> DEFINE q == queues[c]
           h == Head(queues[c])
<1>4. Kept(c) /\ q \in Seq(Numbers) /\ q \in Seq(Nat) /\ Len(q) <= QueueCapacity
  BY <1>1, KeptForEach DEF Wired, Numbers
<1>5. h \in Numbers /\ Tail(q) \in Seq(Numbers) /\ Range(q) = {h} \cup Range(Tail(q)) /\ Len(Tail(q)) = Len(q) - 1
  BY <1>1, <1>4, RangeTail
<1>6. Ascending(Tail(q)) /\ \A m \in Range(Tail(q)) : h < m
  BY <1>1, <1>4, AscendingTail DEF Kept
<1>7. queues'[c] = Tail(q) /\ got'[c] = h
  BY <1>1 DEF Wired
<1>8. Range(q) \subseteq Underway(c) /\ Underway(c) \subseteq (got[c] + 1)..published
  BY <1>4 DEF Underway, Kept
<1>9. published \in Nat /\ got[c] \in Nat /\ h \in Nat /\ h <= published
  BY <1>5, <1>8 DEF Wired, Numbers
<1> HIDE DEF q, h
<1>10. Wired'
  <2>1. queues' \in [Connections -> Seq(Numbers)] /\ \A x \in Connections : Len(queues'[x]) <= QueueCapacity
    BY <1>1, <1>4, <1>5 DEF Wired, q
  <2>2. got' \in [Connections -> Nat] /\ \A x \in Connections : got'[x] <= published
    BY <1>1, <1>9 DEF Wired, h
  <2>3. handler' \in [Connections -> Handlers] /\ \A x \in Connections : handler'[x] = "new" => handler[x] = "new"
    BY <1>1 DEF Wired, Handlers
  <2> QED BY <1>1, <1>2, <2>1, <2>2, <2>3 DEF Wired
<1>11. Fresh'
  <2>1. \A x \in Connections : handler'[x] = "new" => x # c /\ handler[x] = "new" /\ queues'[x] = queues[x]
    BY <1>1 DEF Wired
  <2> QED BY <1>1, <2>1 DEF Fresh, Calls
<1>12. Kept(c)'
  <2>1. Underway(c)' = Range(Tail(q)) \cup Posted(c) \cup Unposted(c)
    BY <1>3, <1>7 DEF Underway
  <2>2. Underway(c) = {h} \cup Underway(c)'
    BY <1>5, <2>1 DEF Underway, q
  <2>3. \A k \in Underway(c)' : h < k
    BY <1>4, <1>5, <1>6, <2>1 DEF Kept, q
  <2>4. h..published \subseteq Underway(c)
    BY <1>4, <2>2 DEF Kept
  <2>5. Underway(c)' = (h + 1)..published
    <3>1. ASSUME NEW k \in Underway(c)' PROVE k \in (h + 1)..published
      BY <1>8, <1>9, <2>2, <2>3
    <3>2. ASSUME NEW k \in (h + 1)..published PROVE k \in Underway(c)'
      <4>1. k \in h..published /\ k # h
        BY <1>9
      <4> QED BY <2>2, <2>4, <4>1
    <3> QED BY <3>1, <3>2
  <2>6. \A k \in (h + 1)..published : k..published \subseteq (h + 1)..published
    BY <1>9
  <2>7. \A m \in Range(Tail(q)), k \in Posted(c) \cup Unposted(c) : m < k
    BY <1>4, <1>5 DEF Kept, q
  <2> QED BY <1>1, <1>3, <1>4, <1>6, <1>7, <2>5, <2>6, <2>7 DEF Kept
<1>13. ASSUME NEW x \in Served' PROVE Kept(x)'
  <2>1. CASE x = c
    BY <1>12, <2>1
  <2>2. CASE x # c
    <3>1. Kept(x) /\ x \in Connections
      BY <1>2, <1>13, KeptForEach DEF Served
    <3>2. queues'[x] = queues[x] /\ got'[x] = got[x]
      BY <1>1, <2>2, <3>1 DEF Wired
    <3> QED BY <1>1, <1>3, <3>1, <3>2, KeptStays DEF Kept
  <2> QED BY <2>1, <2>2
<1> QED BY <1>10, <1>11, <1>13, KeptAfterwards

LEMMA HandlerKeeps ==
    ASSUME LiveInv, NEW c \in Connections, Heartbeat(c) \/ Sent(c) \/ Leave(c) PROVE LiveInv'
<1> USE DEF LiveInv
<1>1. /\ UNCHANGED <<subscribers, published, todo, stale, queues, ready, open, got>>
      /\ there' \subseteq Connections /\ Served' = Served /\ handler' \in [Connections -> Handlers]
      /\ \A x \in Connections : handler'[x] = "new" => handler[x] = "new"
  BY DEF Heartbeat, Sent, Leave, broker, loop, Wired, Handlers, Served
<1>2. Wired'
  BY <1>1 DEF Wired
<1>3. Fresh'
  BY <1>1 DEF Fresh, Calls
<1> QED BY <1>1, <1>2, <1>3, NothingMoves

LEMMA DisconnectedKeeps == ASSUME LiveInv, NEW c \in Connections, Disconnected(c) PROVE LiveInv'
<1> USE LiveEventsAssumption DEF LiveInv
<1>1. /\ handler[c] = "sending" /\ c \in Served /\ handler' = [handler EXCEPT ![c] = "over"]
      /\ subscribers' = subscribers \ {c}
      /\ queues' = [queues EXCEPT ![c] = <<>>] /\ got' = [got EXCEPT ![c] = 0]
      /\ UNCHANGED <<published, todo, stale, ready, open, there>>
  BY DEF Disconnected, Ends, Served
<1>2. Served' = Served \ {c} /\ open /\ subscribers = Served /\ stale = {}
  BY <1>1 DEF Served, Wired
<1>3. IsFiniteSet(subscribers') /\ Cardinality(subscribers') <= MaxSubscribers
  <2>1. IsFiniteSet(subscribers) /\ subscribers' \subseteq subscribers
    BY <1>1 DEF Wired
  <2>2. IsFiniteSet(subscribers') /\ Cardinality(subscribers') <= Cardinality(subscribers)
    BY <2>1, FS_Subset
  <2>3. Cardinality(subscribers') \in Nat /\ Cardinality(subscribers) \in Nat
    BY <2>1, <2>2, FS_CardinalityType
  <2> QED BY <2>2, <2>3 DEF Wired
<1>4. /\ queues' \in [Connections -> Seq(Numbers)] /\ got' \in [Connections -> Nat]
      /\ handler' \in [Connections -> Handlers]
      /\ \A x \in Connections : /\ Len(queues'[x]) <= QueueCapacity /\ got'[x] <= published
                                /\ handler'[x] = "new" => x # c /\ handler[x] = "new" /\ queues'[x] = queues[x]
  BY <1>1 DEF Wired, Handlers
<1>5. Wired'
  BY <1>1, <1>2, <1>3, <1>4 DEF Wired
<1>6. Fresh'
  BY <1>1, <1>4 DEF Fresh, Calls
<1>7. ASSUME NEW x \in Served' PROVE Kept(x)'
  <2>1. Kept(x) /\ x \in Connections /\ x # c
    BY <1>2, <1>7, KeptForEach DEF Served
  <2>2. queues'[x] = queues[x] /\ got'[x] = got[x]
    BY <1>1, <2>1 DEF Wired
  <2>3. Posted(x)' = Posted(x) /\ Unposted(x)' = Unposted(x) /\ (InTurn(x) => InTurn(x)')
    BY <1>1 DEF Posted, Unposted, Calls, InTurn
  <2> QED BY <1>1, <2>1, <2>2, <2>3, KeptStays DEF Kept
<1> QED BY <1>5, <1>6, <1>7, KeptAfterwards

LEMMA CloseLoopKeeps == ASSUME LiveInv, CloseLoop PROVE LiveInv'
<1> USE LiveEventsAssumption DEF LiveInv
<1>1. /\ ~open' /\ open' \in BOOLEAN /\ ready' = <<>> /\ subscribers' \subseteq subscribers
      /\ handler' = [x \in Connections |-> "over"]
      /\ queues' = [x \in Connections |-> <<>>] /\ got' = [x \in Connections |-> 0]
      /\ there' = {} /\ UNCHANGED <<published, todo, stale>>
  BY DEF CloseLoop
<1>2. Served' = {}
  BY <1>1 DEF Served
<1>3. IsFiniteSet(subscribers') /\ Cardinality(subscribers') <= MaxSubscribers
  <2>1. IsFiniteSet(subscribers') /\ Cardinality(subscribers') <= Cardinality(subscribers)
    BY <1>1, FS_Subset DEF Wired
  <2>2. Cardinality(subscribers') \in Nat /\ Cardinality(subscribers) \in Nat
    BY <2>1, FS_CardinalityType DEF Wired
  <2> QED BY <2>1, <2>2 DEF Wired
<1>4. Wired'
  <2>1. <<>> \in Seq(Numbers) /\ <<>> \in Seq(Connections \X Numbers) /\ Len(<<>>) = 0
    OBVIOUS
  <2>2. published \in Nat
    BY DEF Wired
  <2>3. /\ queues' \in [Connections -> Seq(Numbers)] /\ ready' \in Seq(Connections \X Numbers)
        /\ handler' \in [Connections -> Handlers] /\ got' \in [Connections -> Nat]
        /\ \A x \in Connections : Len(queues'[x]) <= QueueCapacity /\ got'[x] <= published
    BY <1>1, <2>1, <2>2 DEF Handlers
  <2> QED BY <1>1, <1>2, <1>3, <2>3 DEF Wired
<1>5. Fresh'
  BY <1>1 DEF Fresh
<1>6. LatestKept'
  BY <1>2 DEF LatestKept
<1> QED BY <1>4, <1>5, <1>6

LEMMA LiveInvInit == LiveInit => LiveInv
<1> SUFFICES ASSUME LiveInit PROVE LiveInv
  OBVIOUS
<1> USE LiveEventsAssumption
<1>1. Served = {}
  BY DEF LiveInit, Served
<1>2. IsFiniteSet({}) /\ Cardinality({}) = 0
  BY FS_EmptySet
<1>3. <<>> \in Seq(Numbers) /\ <<>> \in Seq(Connections \X Numbers) /\ Len(<<>>) = 0
  OBVIOUS
<1>4. Wired
  BY <1>1, <1>2, <1>3 DEF LiveInit, Wired, Handlers
<1>5. Fresh
  BY DEF LiveInit, Fresh, Calls
<1>6. LatestKept
  BY <1>1 DEF LatestKept
<1> QED BY <1>4, <1>5, <1>6 DEF LiveInv

LEMMA LiveInvStep == LiveInv /\ [LiveNext]_liveVars => LiveInv'
<1> SUFFICES ASSUME LiveInv, [LiveNext]_liveVars PROVE LiveInv'
  OBVIOUS
<1>1. CASE UNCHANGED liveVars
  <2>1. UNCHANGED <<subscribers, published, todo, stale, queues, ready, open, handler, there, got>>
    BY <1>1 DEF liveVars, broker, loop
  <2>2. Served' = Served
    BY <2>1 DEF Served
  <2>3. Wired' /\ Fresh'
    BY <2>1, <2>2 DEF LiveInv, Wired, Fresh, Calls
  <2> QED BY <2>1, <2>2, <2>3, NothingMoves DEF LiveInv
<1>2. CASE LiveNext
  BY <1>2, PublishKeeps, CallbackKeeps, CloseLoopKeeps, PostKeeps, ForgetKeeps, ConnectKeeps,
     ReceiveKeeps, HandlerKeeps, DisconnectedKeeps DEF LiveNext
<1> QED BY <1>1, <1>2

\* Whatever the publisher, the loop, the handlers and the clients do: queues keep to their
\* capacity and subscriptions to theirs, and what a client misses while it is served are
\* the oldest events, with a full queue of later ones (events/broker.py, _offer_latest).
THEOREM OnlyOldestLost == LiveSpec => []QueuesInv
<1>1. LiveInv => QueuesInv
  <2> SUFFICES ASSUME LiveInv PROVE QueuesInv
    OBVIOUS
  <2>1. \A c \in Connections : Range(queues[c]) \subseteq Numbers
    BY DEF LiveInv, Wired, Range
  <2>2. \A i \in DOMAIN ready : ready[i] \in Connections \X Numbers
    BY DEF LiveInv, Wired
  <2>3. \A c \in Connections : got[c] \in 0..published
    BY LiveEventsAssumption DEF LiveInv, Wired
  <2>4. LiveTypeOK
    BY <2>1, <2>2, <2>3 DEF LiveInv, Wired, LiveTypeOK
  <2> QED BY <2>4 DEF QueuesInv, LiveInv
<1> QED BY <1>1, LiveInvInit, LiveInvStep, PTL DEF LiveSpec
=============================================================================
