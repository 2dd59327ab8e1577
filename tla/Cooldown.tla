-------------------------------- MODULE Cooldown --------------------------------
(* CooldownManager of access/cooldown.py as the inference worker uses it.  The   *)
(* worker goes round the cameras, so the capture times it hands in need not      *)
(* grow: a frame may be up to skew older than the newest one already processed.  *)
(* Saving the settings builds another manager, which remembers nothing.          *)
EXTENDS Integers, FiniteSets

CONSTANTS Plates,
          PlateWindow, GlobalWindow, \* the two cooldowns
          Capacities,                \* the table sizes considered
          Skews,                     \* how much older than the newest a frame may be
          MaxTime,                   \* bound on the capture times
          MaxRebuilds                \* bound on the managers built

ASSUME CooldownAssumption == /\ PlateWindow \in Nat /\ GlobalWindow \in Nat \ {0}
                             /\ Capacities \subseteq Nat \ {0} /\ Skews \subseteq Nat
                             /\ MaxTime \in Nat /\ MaxRebuilds \in Nat
                             /\ IsFiniteSet(Plates)

Times == 0..MaxTime
Never == -1

VARIABLES capacity,   \* max_entries, fixed from the start
          skew,       \* the disorder of this installation's cameras, fixed as well
          triggers,   \* _plate_triggers: when the plates in its domain were allowed
          lastGlobal, \* _last_global_trigger_ns, or Never
          clock,      \* the newest capture time processed
          epoch,      \* how often the manager was rebuilt
          verdict,    \* the last answer of check_and_reserve()
          opened      \* history: every ALLOWED answer ever given

fixed == <<capacity, skew>>
vars == <<fixed, triggers, lastGlobal, clock, epoch, verdict, opened>>
-----------------------------------------------------------------------------
(* Slips, one mistake each; none is part of Next.                            *)

\* Entries pruned one tick early.
LiveShort(t) == {p \in DOMAIN triggers : t - triggers[p] < PlateWindow - 1}

\* A window measured in either direction of time.
GlobalHoldsBothWays(t) == /\ lastGlobal # Never
                          /\ t - lastGlobal < GlobalWindow
                          /\ lastGlobal - t < GlobalWindow
-----------------------------------------------------------------------------
(* What check_and_reserve(p, t) looks at.                                    *)

\* The entries that _prune(t) keeps.
Live(t) == {p \in DOMAIN triggers : t - triggers[p] < PlateWindow}

GlobalHolds(t) == lastGlobal # Never /\ t - lastGlobal < GlobalWindow

Oldest(S) == {p \in S : \A q \in S : triggers[p] <= triggers[q]}

\* A frame of some camera, not too far behind the newest.
Observed(t) == /\ t + skew >= clock
               /\ clock' = IF t > clock THEN t ELSE clock

Answer(p, t, status) == verdict' = [plate |-> p, at |-> t, epoch |-> epoch, status |-> status]
-----------------------------------------------------------------------------
Init == /\ capacity \in Capacities
        /\ skew \in Skews
        /\ triggers = [p \in {} |-> 0]
        /\ lastGlobal = Never
        /\ clock = 0
        /\ epoch = 0
        /\ verdict = [status |-> "none"]
        /\ opened = {}

RefusePlate(p, t) == /\ Observed(t)
                     /\ p \in Live(t)
                     /\ triggers' = [q \in Live(t) |-> triggers[q]]
                     /\ Answer(p, t, "PLATE_COOLDOWN")
                     /\ UNCHANGED <<fixed, lastGlobal, epoch, opened>>

RefuseGlobal(p, t) == /\ Observed(t)
                      /\ p \notin Live(t)
                      /\ GlobalHolds(t)
                      /\ triggers' = [q \in Live(t) |-> triggers[q]]
                      /\ Answer(p, t, "GLOBAL_COOLDOWN")
                      /\ UNCHANGED <<fixed, lastGlobal, epoch, opened>>

\* Slip: a full table that grows by one more entry before it evicts.
SurvivorsLate(t) == IF Cardinality(Live(t)) > capacity
                    THEN {Live(t) \ {q} : q \in Oldest(Live(t))}
                    ELSE {Live(t)}

\* The entry of the plate itself has been pruned; a full table loses the oldest.
Survivors(t) == IF Cardinality(Live(t)) >= capacity
                THEN {Live(t) \ {q} : q \in Oldest(Live(t))}
                ELSE {Live(t)}

Allow(p, t) == /\ Observed(t)
               /\ p \notin Live(t)
               /\ ~GlobalHolds(t)
               /\ \E S \in Survivors(t) :
                     triggers' = [q \in S \cup {p} |-> IF q = p THEN t ELSE triggers[q]]
               /\ lastGlobal' = t
               /\ Answer(p, t, "ALLOWED")
               /\ opened' = opened \cup {[plate |-> p, at |-> t, epoch |-> epoch]}
               /\ UNCHANGED <<fixed, epoch>>

\* InferenceManager.configure() builds a recognition service with a new manager.
Rebuild == /\ epoch < MaxRebuilds
           /\ epoch' = epoch + 1
           /\ triggers' = [p \in {} |-> 0]
           /\ lastGlobal' = Never
           /\ UNCHANGED <<fixed, clock, verdict, opened>>

Next == \/ \E p \in Plates, t \in Times : RefusePlate(p, t) \/ RefuseGlobal(p, t) \/ Allow(p, t)
        \/ Rebuild

Spec == Init /\ [][Next]_vars
-----------------------------------------------------------------------------
(* Properties.                                                               *)

\* The state is well formed and the table within its capacity.
TypeOK == /\ capacity \in Capacities /\ skew \in Skews
          /\ DOMAIN triggers \in SUBSET Plates
          /\ triggers \in [DOMAIN triggers -> Times]
          /\ Cardinality(DOMAIN triggers) <= capacity
          /\ lastGlobal \in Times \cup {Never}
          /\ clock \in Times
          /\ epoch \in 0..MaxRebuilds
          /\ opened \in SUBSET [plate : Plates, at : Times, epoch : 0..MaxRebuilds]

Gap(a, b, window) == a.at <= b.at => b.at - a.at >= window

\* Between any two triggers of one manager lies the global window, whatever the
\* order in which the frames of several cameras were captured.
GlobalGap == \A a, b \in opened :
                a # b /\ a.epoch = b.epoch => Gap(a, b, GlobalWindow)

\* Between two triggers of one plate by one manager lies the plate window.
PlateGap == \A a, b \in opened :
               a # b /\ a.plate = b.plate /\ a.epoch = b.epoch => Gap(a, b, PlateWindow)

\* Frames come in order, and the table holds as many plates as the global window
\* lets in during one plate window.
InOrder == skew = 0 /\ capacity * GlobalWindow >= PlateWindow

\* Such an installation never evicts a plate whose window still runs: the plate
\* window holds.
PlateGapInOrder == InOrder => PlateGap
=============================================================================
