-------------------------------- MODULE Snapshots --------------------------------
(* SnapshotService of storage/service.py over LocalSnapshotStorage of               *)
(* storage/local.py: the inference thread captures a picture for an event and       *)
(* publishes the event with its path, requests change the settings, files are       *)
(* pruned by age at most once a day, and any write, deletion or the process itself  *)
(* may fail midway.  One lock covers a capture and one a change of the settings.    *)
EXTENDS Integers, FiniteSets

CONSTANTS MaxEvents,   \* bound on the events with a picture
          Retentions,  \* the values of snapshot_retention_days, in ticks
          Interval,    \* PRUNE_INTERVAL_SECONDS, in ticks
          MaxTime      \* bound on the clock

ASSUME SnapshotAssumption == /\ MaxEvents \in Nat /\ MaxTime \in Nat
                             /\ Interval \in Nat \ {0}
                             /\ Retentions # {} /\ Retentions \subseteq Nat \ {0}

Events == 1..MaxEvents
Never  == -1

VARIABLES up,        \* the application runs
          on, retention, \* the settings, as stored and as _enabled, _retention_days
          lastPrune, \* _last_prune_monotonic, or Never
          failing,   \* _last_error is set
          pc,        \* where the inference thread is with the event it records
          count,     \* how many events it has recorded
          files,     \* the pictures on disk, by event
          temporary, \* the .tmp files on disk
          born,      \* born[e]: the modification time of the picture of e
          named,     \* the published events with a snapshot_path
          now,
          used,      \* history: the retention of the last pruning that went through
          expired    \* history: the pictures that were ever pruned

settings == <<up, on, retention>>
disk     == <<files, temporary, born>>
vars     == <<settings, lastPrune, failing, pc, count, disk, named, now, used, expired>>

Due == lastPrune = Never \/ now - lastPrune >= Interval
Old(days) == {e \in files : now - born[e] > days}

-----------------------------------------------------------------------------
(* Slips, one mistake each; none is part of Next.                            *)

\* The pruning counts as done before anything is deleted.
DoneFirst(days) == /\ \E S \in SUBSET Old(days) : files' = files \ S /\ expired' = expired \cup S
                   /\ lastPrune' = now /\ used' = days

\* configure() prunes with what was in force before.
InForceLate(days) == retention
-----------------------------------------------------------------------------
\* prune(): all that is old goes, or a deletion raises after some of it.
Pruned(days) == /\ files' = files \ Old(days)
                /\ expired' = expired \cup Old(days)
                /\ lastPrune' = now /\ used' = days
PruneFails(days) == /\ \E S \in SUBSET Old(days) : files' = files \ S /\ expired' = expired \cup S
                    /\ UNCHANGED <<lastPrune, used>>
Keep == UNCHANGED <<files, expired, lastPrune, used>>
-----------------------------------------------------------------------------
Init == /\ up = FALSE
        /\ on = FALSE /\ retention \in Retentions
        /\ lastPrune = Never /\ failing = FALSE
        /\ pc = "idle" /\ count = 0
        /\ files = {} /\ temporary = {} /\ born = [e \in Events |-> 0]
        /\ named = {} /\ now = 0
        /\ used = retention /\ expired = {}

\* The service starts disabled and gets the stored settings then; a pruning that
\* fails ends the start of the application.
Start == /\ ~up
         /\ failing' = FALSE
         /\ \/ on /\ Pruned(retention) /\ up' = TRUE
            \/ on /\ PruneFails(retention) /\ UNCHANGED up
            \/ ~on /\ Keep /\ up' = TRUE
         /\ UNCHANGED <<on, retention, pc, count, temporary, born, named, now>>

\* A stop or a crash at any point: _last_prune_monotonic goes with the process.
Stop == /\ up
        /\ up' = FALSE
        /\ pc' = "idle" /\ lastPrune' = Never
        /\ UNCHANGED <<on, retention, failing, count, disk, named, now, used, expired>>

\* configure(), with a retention of its own for the pruning it may have to do.
InForce(days) == days

Configure(enabled, days) ==
    /\ up /\ pc \in {"idle", "publishing"}
    /\ on' = enabled /\ retention' = days
    /\ \/ enabled /\ Due /\ (Pruned(InForce(days)) \/ PruneFails(InForce(days)))
       \/ ~(enabled /\ Due) /\ Keep
    /\ UNCHANGED <<up, failing, pc, count, temporary, born, named, now>>
-----------------------------------------------------------------------------
(* capture() of the event count, and its publication.                        *)

\* Without snapshots the event is published without a path.
Record == /\ up /\ pc = "idle" /\ count < MaxEvents
          /\ count' = count + 1
          /\ pc' = IF on THEN "pruning" ELSE "idle"
          /\ UNCHANGED <<settings, lastPrune, failing, disk, named, now, used, expired>>

Prune == /\ pc = "pruning"
         /\ \/ Due /\ Pruned(retention)
            \/ ~Due /\ Keep
         /\ pc' = "encoding"
         /\ UNCHANGED <<settings, failing, count, temporary, born, named, now>>

\* Nothing is written as long as the pruning fails.
CaptureFails == /\ failing' = TRUE /\ pc' = "idle"
                /\ UNCHANGED <<settings, count, born, named, now>>

PruningFails == /\ pc = "pruning" /\ Due
                /\ PruneFails(retention)
                /\ CaptureFails
                /\ UNCHANGED temporary

WriteTemporary == /\ pc = "encoding"
                  /\ temporary' = temporary \cup {count}
                  /\ born' = [born EXCEPT ![count] = now]
                  /\ pc' = "replacing"
                  /\ UNCHANGED <<settings, lastPrune, failing, count, files, named, now, used, expired>>

\* Slip: the path is made before the file is, and kept when the file is not.
WriteFailsNamed == /\ pc \in {"encoding", "replacing"}
                   /\ temporary' \in {temporary, temporary \cup {count}}
                   /\ Keep
                   /\ failing' = TRUE /\ pc' = "publishing"
                   /\ UNCHANGED <<settings, count, born, named, now>>

\* The encoder, the write or the replacement raises; what is in the .tmp file stays.
WriteFails == /\ pc \in {"encoding", "replacing"}
              /\ temporary' \in {temporary, temporary \cup {count}}
              /\ Keep
              /\ CaptureFails

Replace == /\ pc = "replacing"
           /\ temporary' = temporary \ {count}
           /\ files' = files \cup {count}
           /\ failing' = FALSE
           /\ pc' = "publishing"
           /\ UNCHANGED <<settings, lastPrune, count, born, named, now, used, expired>>

\* replace(event, metadata=...) and publish(), without the lock.
Publish == /\ pc = "publishing"
           /\ named' = named \cup {count}
           /\ pc' = "idle"
           /\ UNCHANGED <<settings, lastPrune, failing, count, disk, now, used, expired>>
-----------------------------------------------------------------------------
\* A capture takes no time worth counting, a stop and a start may take any.
Tick == /\ pc = "idle" /\ now < MaxTime
        /\ now' = now + 1
        /\ UNCHANGED <<settings, lastPrune, failing, pc, count, disk, named, used, expired>>

Next == \/ Start \/ Stop \/ Tick
        \/ \E enabled \in BOOLEAN, days \in Retentions : Configure(enabled, days)
        \/ Record \/ Prune \/ PruningFails \/ WriteTemporary \/ WriteFails \/ Replace \/ Publish

Spec == Init /\ [][Next]_vars
-----------------------------------------------------------------------------
TypeOK == /\ up \in BOOLEAN /\ on \in BOOLEAN /\ failing \in BOOLEAN
          /\ retention \in Retentions /\ used \in Retentions
          /\ lastPrune \in {Never} \cup 0..now /\ now \in 0..MaxTime
          /\ pc \in {"idle", "pruning", "encoding", "replacing", "publishing"}
          /\ count \in 0..MaxEvents
          /\ UNION {files, temporary, named, expired} \subseteq 1..count
          /\ born \in [Events -> 0..now]

\* An event in the log that names a picture finds it, whole, until its retention has
\* ended; a picture that is not whole is never among the pictures, whatever failed or
\* whenever the process ended.
Findable == /\ named \subseteq files \cup expired
            /\ files \cap temporary = {}
Inv == TypeOK /\ Findable

\* As long as pictures get written, none is older than the retention of the last pruning
\* by a day or more: a pruning that failed is made up for before the next write.
Bounded == pc = "publishing" => \A e \in files : now - born[e] < used + Interval

\* A picture is deleted only when the settings the operator has saved last, and
\* nothing before them, say that it is old.
Kept == [][\A e \in files \ files' : now - born[e] > retention']_vars
=============================================================================
