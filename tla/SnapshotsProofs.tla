---------------------------- MODULE SnapshotsProofs ----------------------------
(* Snapshots for every number of events, all retentions and every interval: a   *)
(* published path finds its picture, no picture outlives the retention by a     *)
(* pruning interval while pictures get written, and only the settings that are  *)
(* saved decide what is deleted.                                                *)
EXTENDS Snapshots, TLAPS

Busy == {"pruning", "encoding", "replacing", "publishing"}

\* The event at hand has no picture before Replace, and has had one after it.
AtHand == /\ pc \in Busy => up /\ count \in Events
          /\ pc \in {"pruning", "encoding", "replacing"} => count \notin files
          /\ pc = "publishing" => count \in files \cup expired

\* Nothing is written before a pruning of this life of the process that is not due
\* again; what is written then is of this moment.
Timely == /\ pc \in {"encoding", "replacing", "publishing"} => ~Due
          /\ pc = "replacing" => born[count] = now

\* What the last pruning left was not old then.
Spared == lastPrune # Never => \A e \in files : lastPrune - born[e] <= used

\* What the two bounds of this module follow from, step by step.
IInv == Inv /\ AtHand /\ Timely /\ Spared

\* A pruning, complete or not, only moves pictures to the pruned ones.
LEMMA PruningMoves ==
    ASSUME NEW days, Pruned(days) \/ PruneFails(days)
    PROVE  files' \subseteq files /\ files' \cup expired' = files \cup expired
BY DEF Pruned, PruneFails, Old

\* After a pruning that went through, nothing is old and none is due.
LEMMA PruningSpares ==
    ASSUME TypeOK, NEW days \in Retentions, Pruned(days), UNCHANGED <<now, born>>
    PROVE  Spared' /\ ~Due' /\ lastPrune' \in 0..now' /\ used' \in Retentions
BY SnapshotAssumption DEF TypeOK, Pruned, Old, Spared, Due, Events, Never

\* TypeOK, with one conjunct for each kind of picture.
Typed == /\ up \in BOOLEAN /\ on \in BOOLEAN /\ failing \in BOOLEAN
         /\ retention \in Retentions /\ used \in Retentions
         /\ lastPrune = Never \/ lastPrune \in 0..now
         /\ now \in 0..MaxTime
         /\ pc \in Busy \cup {"idle"}
         /\ count \in 0..MaxEvents
         /\ files \subseteq 1..count /\ temporary \subseteq 1..count
         /\ named \subseteq 1..count /\ expired \subseteq 1..count
         /\ born \in [Events -> 0..now]

LEMMA TypedIsTypeOK == TypeOK <=> Typed
BY DEF TypeOK, Typed, Busy

LEMMA IInvInit == Init => IInv
<1> SUFFICES ASSUME Init PROVE IInv
  OBVIOUS
<1>1. born \in [Events -> 0..now]
  BY DEF Init
<1>2. Typed
  <2>1. up \in BOOLEAN /\ on \in BOOLEAN /\ failing \in BOOLEAN
    BY DEF Init
  <2>2. /\ files \subseteq 1..count /\ temporary \subseteq 1..count
        /\ named \subseteq 1..count /\ expired \subseteq 1..count
    BY DEF Init
  <2>3. /\ now \in 0..MaxTime /\ count \in 0..MaxEvents
        /\ pc = "idle" /\ lastPrune = Never
        /\ retention \in Retentions /\ used \in Retentions
    BY SnapshotAssumption DEF Init
  <2> QED BY <1>1, <2>1, <2>2, <2>3 DEF Typed
<1>3. Findable /\ AtHand /\ Timely /\ Spared
  BY DEF Init, Findable, AtHand, Timely, Spared, Busy
<1> QED BY <1>2, <1>3, TypedIsTypeOK DEF IInv, Inv

LEMMA TypeStep == IInv /\ [Next]_vars => TypeOK'
<1> SUFFICES ASSUME IInv, [Next]_vars PROVE Typed'
  <2>1. Typed' => TypeOK'
    BY TypedIsTypeOK, PTL
  <2> QED BY <2>1
<1>0. Typed /\ TypeOK /\ AtHand
  BY TypedIsTypeOK DEF IInv, Inv
<1> USE <1>0, SnapshotAssumption DEF AtHand, Typed, Busy, Events, settings, disk
<1>1. CASE Start
  BY <1>1, PruningMoves, PruningSpares DEF Start, Keep, PruneFails
<1>2. CASE Stop
  BY <1>2 DEF Stop
<1>3. CASE Tick
  BY <1>3 DEF Tick
<1>4. ASSUME NEW enabled \in BOOLEAN, NEW days \in Retentions, Configure(enabled, days)
      PROVE  Typed'
  BY <1>4, PruningMoves, PruningSpares DEF Configure, InForce, Keep, PruneFails
<1>5. CASE Record
  BY <1>5 DEF Record
<1>6. CASE Prune
  BY <1>6, PruningMoves, PruningSpares DEF Prune, Keep
<1>7. CASE PruningFails
  BY <1>7, PruningMoves DEF PruningFails, CaptureFails, PruneFails
<1>8. CASE WriteTemporary
  BY <1>8 DEF WriteTemporary
<1>9. CASE WriteFails
  <2>1. temporary' \subseteq 1..count
    BY <1>9 DEF WriteFails
  <2>2. UNCHANGED <<settings, lastPrune, count, files, born, named, now, used, expired>>
    BY <1>9 DEF WriteFails, CaptureFails, Keep
  <2>3. failing' \in BOOLEAN /\ pc' = "idle"
    BY <1>9 DEF WriteFails, CaptureFails
  <2> QED BY <2>1, <2>2, <2>3
<1>10. CASE Replace
  <2>1. files' \subseteq 1..count /\ temporary' \subseteq 1..count
    BY <1>10 DEF Replace
  <2>2. UNCHANGED <<settings, lastPrune, count, born, named, now, used, expired>>
    BY <1>10 DEF Replace
  <2>3. failing' \in BOOLEAN /\ pc' \in Busy
    BY <1>10 DEF Replace
  <2> QED BY <2>1, <2>2, <2>3
<1>11. CASE Publish
  BY <1>11 DEF Publish
<1>12. CASE UNCHANGED vars
  BY <1>12 DEF vars
<1> QED BY <1>1, <1>2, <1>3, <1>4, <1>5, <1>6, <1>7, <1>8, <1>9, <1>10, <1>11, <1>12 DEF Next

LEMMA FindableStep == IInv /\ [Next]_vars => Findable' /\ AtHand'
<1> SUFFICES ASSUME IInv, [Next]_vars PROVE Findable' /\ AtHand'
  OBVIOUS
<1> USE SnapshotAssumption
    DEF IInv, Inv, TypeOK, Findable, AtHand, Busy, Events, settings, disk
<1>1. CASE Start
  BY <1>1, PruningMoves DEF Start, Keep
<1>2. CASE Stop
  BY <1>2 DEF Stop
<1>3. CASE Tick
  BY <1>3 DEF Tick
<1>4. ASSUME NEW enabled \in BOOLEAN, NEW days \in Retentions, Configure(enabled, days)
      PROVE  Findable' /\ AtHand'
  BY <1>4, PruningMoves DEF Configure, Keep
<1>5. CASE Record
  BY <1>5 DEF Record
<1>6. CASE Prune
  BY <1>6, PruningMoves DEF Prune, Keep
<1>7. CASE PruningFails
  BY <1>7, PruningMoves DEF PruningFails, CaptureFails
<1>8. CASE WriteTemporary
  BY <1>8 DEF WriteTemporary
<1>9. CASE WriteFails
  BY <1>9 DEF WriteFails, CaptureFails, Keep
<1>10. CASE Replace
  BY <1>10 DEF Replace
<1>11. CASE Publish
  BY <1>11 DEF Publish
<1>12. CASE UNCHANGED vars
  BY <1>12 DEF vars
<1> QED BY <1>1, <1>2, <1>3, <1>4, <1>5, <1>6, <1>7, <1>8, <1>9, <1>10, <1>11, <1>12 DEF Next

LEMMA TimelyStep == IInv /\ [Next]_vars => Timely' /\ Spared'
<1> SUFFICES ASSUME IInv, [Next]_vars PROVE Timely' /\ Spared'
  OBVIOUS
<1> USE SnapshotAssumption
    DEF IInv, Inv, TypeOK, AtHand, Timely, Spared, Due, Never, Busy, Events, settings, disk
<1>1. CASE Start
  BY <1>1, PruningMoves, PruningSpares DEF Start, Keep, PruneFails
<1>2. CASE Stop
  BY <1>2 DEF Stop
<1>3. CASE Tick
  BY <1>3 DEF Tick
<1>4. ASSUME NEW enabled \in BOOLEAN, NEW days \in Retentions, Configure(enabled, days)
      PROVE  Timely' /\ Spared'
  BY <1>4, PruningMoves, PruningSpares DEF Configure, InForce, Keep, PruneFails
<1>5. CASE Record
  BY <1>5 DEF Record
<1>6. CASE Prune
  BY <1>6, PruningSpares DEF Prune, Keep
<1>7. CASE PruningFails
  BY <1>7, PruningMoves DEF PruningFails, CaptureFails, PruneFails
<1>8. CASE WriteTemporary
  BY <1>8 DEF WriteTemporary
<1>9. CASE WriteFails
  BY <1>9 DEF WriteFails, CaptureFails, Keep
<1>10. CASE Replace
  BY <1>10 DEF Replace
<1>11. CASE Publish
  BY <1>11 DEF Publish
<1>12. CASE UNCHANGED vars
  BY <1>12 DEF vars
<1> QED BY <1>1, <1>2, <1>3, <1>4, <1>5, <1>6, <1>7, <1>8, <1>9, <1>10, <1>11, <1>12 DEF Next

LEMMA IInvStep == IInv /\ [Next]_vars => IInv'
BY TypeStep, FindableStep, TimelyStep DEF IInv, Inv

LEMMA IInvHolds == Spec => []IInv
BY IInvInit, IInvStep, PTL DEF Spec

\* Wherever a write, a deletion or the process fails, a published path leads to a
\* whole picture until the picture is pruned.
THEOREM PathsFindPictures == Spec => []Inv
<1>1. IInv => Inv
  BY DEF IInv
<1> QED BY <1>1, IInvHolds, PTL

\* As long as pictures get written, the retention is kept up to one interval, also
\* across prunings that failed, changes of the settings and restarts.
THEOREM RetentionBounds == Spec => []Bounded
<1>1. IInv => Bounded
  BY SnapshotAssumption
     DEF IInv, Inv, TypeOK, Timely, Spared, Due, Bounded, Never, Events
<1> QED BY <1>1, IInvHolds, PTL

\* Only what the saved settings call old is ever deleted.
THEOREM OnlyOldIsDeleted == Spec => Kept
<1>1. [Next]_vars => [\A e \in files \ files' : now - born[e] > retention']_vars
  <2> SUFFICES ASSUME [Next]_vars, NEW e \in files, e \notin files'
               PROVE  now - born[e] > retention'
    OBVIOUS
  <2> USE DEF Pruned, PruneFails, Old, Keep, settings, disk
  <2>1. CASE Start
    BY <2>1 DEF Start
  <2>2. CASE \E enabled \in BOOLEAN, days \in Retentions : Configure(enabled, days)
    BY <2>2 DEF Configure, InForce
  <2>3. CASE Prune \/ PruningFails
    BY <2>3 DEF Prune, PruningFails, CaptureFails
  <2>4. CASE Stop \/ Tick \/ Record \/ WriteTemporary \/ WriteFails \/ Replace \/ Publish
    BY <2>4 DEF Stop, Tick, Record, WriteTemporary, WriteFails, CaptureFails, Replace, Publish
  <2>5. CASE UNCHANGED vars
    BY <2>5 DEF vars
  <2> QED BY <2>1, <2>2, <2>3, <2>4, <2>5 DEF Next
<1> QED BY <1>1, PTL DEF Spec, Kept
=============================================================================
