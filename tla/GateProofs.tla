------------------------------- MODULE GateProofs -------------------------------
(* gate/manager.py for any number of callers, gates and executors: the safety of  *)
(* GateExecutor, that it implements GateRight, and the bookkeeping of GateManager *)
(* (at the end).  IndInv, the conjunction that TLC checks on three callers, is    *)
(* inductive as it stands.                                                        *)
EXTENDS GateExecutor, GateManager, TLAPS

\* SingleFlight without the set of flights: the form in which a step is checked.
Held(c) == pc[c] \in {"claimed", "full"}
AtWorker == worker \in {"opening", "releasing"}
OneFlight == /\ \A c, d \in Callers : Held(c) /\ Held(d) => c = d
             /\ \A c \in Callers : Held(c) => slot \notin Callers /\ ~AtWorker
             /\ slot \in Callers => ~AtWorker
             /\ busy <=> \/ \E c \in Callers : Held(c)
                         \/ slot \in Callers
                         \/ AtWorker

\* The two forms say the same of a well-formed state, before and after a step.
LEMMA SameFlights == TypeOK => (SingleFlight <=> OneFlight)
<1> SUFFICES ASSUME TypeOK PROVE SingleFlight <=> OneFlight
  OBVIOUS
<1>1. ASSUME SingleFlight PROVE OneFlight
  <2>1. \A c \in Callers : Held(c) => <<"caller", c>> \in Flights
    BY DEF Flights, Held
  <2>2. slot \in Callers => <<"queue", slot>> \in Flights
    BY DEF Flights
  <2>3. AtWorker => <<"worker", current>> \in Flights
    BY DEF Flights, AtWorker, TypeOK
  <2>4. Flights # {} => \/ \E c \in Callers : Held(c)
                        \/ slot \in Callers
                        \/ AtWorker
    BY DEF Flights, Held, AtWorker
  <2>5. \A c, d : <<"caller", c>> # <<"queue", d>> /\ <<"caller", c>> # <<"worker", d>>
                  /\ <<"queue", c>> # <<"worker", d>>
    OBVIOUS
  <2>6. \A c, d : <<"caller", c>> = <<"caller", d>> => c = d
    OBVIOUS
  <2> QED BY <1>1, <2>1, <2>2, <2>3, <2>4, <2>5, <2>6 DEF SingleFlight, OneFlight
<1>2. ASSUME OneFlight PROVE SingleFlight
  <2>1. ASSUME NEW f \in Flights, NEW g \in Flights PROVE f = g
    BY <1>2, <2>1 DEF OneFlight, Flights, Held, AtWorker
  <2>2. ASSUME NEW c \in Callers, Held(c) PROVE <<"caller", c>> \in Flights
    BY <2>2 DEF Flights, Held
  <2>3. ASSUME slot \in Callers PROVE <<"queue", slot>> \in Flights
    BY <2>3 DEF Flights
  <2>4. ASSUME AtWorker PROVE <<"worker", current>> \in Flights
    BY <2>4 DEF Flights, AtWorker, TypeOK
  <2>5. busy => Flights # {}
    BY <1>2, <2>2, <2>3, <2>4 DEF OneFlight
  <2>6. Flights # {} => busy
    BY <1>2 DEF OneFlight, Flights, Held, AtWorker
  <2> QED BY <2>1, <2>5, <2>6 DEF SingleFlight
<1> QED BY <1>1, <1>2

\* The first state satisfies the inductive invariant.
THEOREM InitInv == Init => IndInv
<1> SUFFICES ASSUME Init PROVE IndInv
  OBVIOUS
<1> USE TokensAssumption DEF Init
<1>1. TypeOK
  BY DEF TypeOK, Outcomes
<1>2. SingleFlight
  BY DEF SingleFlight, Flights
<1>3. CommandOwned
  BY DEF CommandOwned
<1>4. StopExplains
  BY DEF StopExplains
<1> QED BY <1>1, <1>2, <1>3, <1>4 DEF IndInv

\* Types, and the worker's hold on its command, survive every step.
LEMMA TypeStep == TypeOK /\ [Next]_vars => TypeOK'
<1> SUFFICES ASSUME TypeOK, [Next]_vars PROVE TypeOK'
  OBVIOUS
<1> USE TokensAssumption DEF TypeOK, Outcomes, flags, calls, work
<1>1. ASSUME NEW c \in Callers, Deny(c) PROVE TypeOK'
  BY <1>1 DEF Deny
<1>2. ASSUME NEW c \in Callers, Claim(c) PROVE TypeOK'
  BY <1>2 DEF Claim
<1>3. ASSUME NEW c \in Callers, Enqueue(c) PROVE TypeOK'
  BY <1>3 DEF Enqueue
<1>4. ASSUME NEW c \in Callers, EnqueueFails(c) PROVE TypeOK'
  BY <1>4 DEF EnqueueFails
<1>5. ASSUME NEW c \in Callers, GiveUp(c) PROVE TypeOK'
  BY <1>5 DEF GiveUp
<1>6. ASSUME NEW c \in Callers, ReturnResult(c) PROVE TypeOK'
  BY <1>6 DEF ReturnResult
<1>7. ASSUME NEW c \in Callers, TimeOut(c) PROVE TypeOK'
  BY <1>7 DEF TimeOut
<1>8. ASSUME NEW c \in Callers, Poison(c) PROVE TypeOK'
  BY <1>8 DEF Poison
<1>9. CASE SetStopped
  BY <1>9 DEF SetStopped
<1>10. CASE OfferPill
  BY <1>10 DEF OfferPill
<1>11. CASE JoinReturns
  BY <1>11 DEF JoinReturns
<1>12. CASE Take
  BY <1>12 DEF Take
<1>13. CASE PollTimesOut
  BY <1>13 DEF PollTimesOut
<1>14. CASE CheckStopped
  BY <1>14 DEF CheckStopped
<1>15. CASE Release
  BY <1>15 DEF Release
<1>16. CASE Signal
  BY <1>16 DEF Signal
<1>17. CASE AdapterReturns
  BY <1>17 DEF AdapterReturns
<1>18. CASE UNCHANGED vars
  BY <1>18 DEF vars
<1> QED
  BY <1>1, <1>2, <1>3, <1>4, <1>5, <1>6, <1>7, <1>8, <1>9, <1>10, <1>11, <1>12,
     <1>13, <1>14, <1>15, <1>16, <1>17, <1>18 DEF Next, CallerStep, WorkerStep

\* Of the steps that touch busy, the queue or a claim, none makes a second flight.
LEMMA FlightStep == IndInv /\ [Next]_vars => OneFlight'
<1> SUFFICES ASSUME IndInv, [Next]_vars PROVE OneFlight'
  OBVIOUS
<1>0. TypeOK /\ OneFlight /\ CommandOwned /\ StopExplains
  BY SameFlights DEF IndInv
<1> USE <1>0, TokensAssumption DEF TypeOK, OneFlight, Held, AtWorker, flags, calls, work
<1>1. ASSUME NEW c \in Callers, Deny(c) PROVE OneFlight'
  BY <1>1 DEF Deny
<1>2. ASSUME NEW c \in Callers, Claim(c) PROVE OneFlight'
  BY <1>2 DEF Claim
<1>3. ASSUME NEW c \in Callers, Enqueue(c) PROVE OneFlight'
  BY <1>3 DEF Enqueue
<1>4. ASSUME NEW c \in Callers, EnqueueFails(c) PROVE OneFlight'
  BY <1>4 DEF EnqueueFails
<1>5. ASSUME NEW c \in Callers, GiveUp(c) PROVE OneFlight'
  BY <1>5 DEF GiveUp
<1>6. ASSUME NEW c \in Callers, ReturnResult(c) PROVE OneFlight'
  BY <1>6 DEF ReturnResult
<1>7. ASSUME NEW c \in Callers, TimeOut(c) PROVE OneFlight'
  BY <1>7 DEF TimeOut
<1>8. ASSUME NEW c \in Callers, Poison(c) PROVE OneFlight'
  BY <1>8 DEF Poison
<1>9. CASE SetStopped
  BY <1>9 DEF SetStopped
<1>10. CASE OfferPill
  BY <1>10 DEF OfferPill
<1>11. CASE JoinReturns
  BY <1>11 DEF JoinReturns
<1>12. CASE Take
  BY <1>12 DEF Take
<1>13. CASE PollTimesOut
  BY <1>13 DEF PollTimesOut
<1>14. CASE CheckStopped
  BY <1>14 DEF CheckStopped
<1>15. CASE Release
  BY <1>15 DEF Release
<1>16. CASE Signal
  BY <1>16 DEF Signal
<1>17. CASE AdapterReturns
  BY <1>17 DEF AdapterReturns
<1>18. CASE UNCHANGED vars
  BY <1>18 DEF vars
<1> QED
  BY <1>1, <1>2, <1>3, <1>4, <1>5, <1>6, <1>7, <1>8, <1>9, <1>10, <1>11, <1>12,
     <1>13, <1>14, <1>15, <1>16, <1>17, <1>18 DEF Next, CallerStep, WorkerStep

\* A command leaves its caller's wait only by the completed event or a timeout.
LEMMA OwnerStep == IndInv /\ [Next]_vars => CommandOwned'
<1> SUFFICES ASSUME IndInv, [Next]_vars PROVE CommandOwned'
  OBVIOUS
<1>0. TypeOK /\ OneFlight /\ CommandOwned
  BY SameFlights DEF IndInv
<1> USE <1>0, TokensAssumption DEF TypeOK, CommandOwned, flags, calls, work
<1>1. ASSUME NEW c \in Callers, Deny(c) PROVE CommandOwned'
  BY <1>1 DEF Deny
<1>2. ASSUME NEW c \in Callers, Claim(c) PROVE CommandOwned'
  BY <1>2 DEF Claim, Closed
<1>3. ASSUME NEW c \in Callers, Enqueue(c) PROVE CommandOwned'
  BY <1>3 DEF Enqueue
<1>4. ASSUME NEW c \in Callers, EnqueueFails(c) PROVE CommandOwned'
  BY <1>4 DEF EnqueueFails
<1>5. ASSUME NEW c \in Callers, GiveUp(c) PROVE CommandOwned'
  BY <1>5 DEF GiveUp
<1>6. ASSUME NEW c \in Callers, ReturnResult(c) PROVE CommandOwned'
  BY <1>6 DEF ReturnResult
<1>7. ASSUME NEW c \in Callers, TimeOut(c) PROVE CommandOwned'
  BY <1>7 DEF TimeOut
<1>8. ASSUME NEW c \in Callers, Poison(c) PROVE CommandOwned'
  BY <1>8 DEF Poison
<1>9. CASE SetStopped
  BY <1>9 DEF SetStopped
<1>10. CASE OfferPill
  BY <1>10 DEF OfferPill
<1>11. CASE JoinReturns
  BY <1>11 DEF JoinReturns
<1>12. CASE Take
  BY <1>12 DEF Take
<1>13. CASE PollTimesOut
  BY <1>13 DEF PollTimesOut
<1>14. CASE CheckStopped
  BY <1>14 DEF CheckStopped
<1>15. CASE Release
  BY <1>15 DEF Release
<1>16. CASE Signal
  BY <1>16 DEF Signal
<1>17. CASE AdapterReturns
  BY <1>17 DEF AdapterReturns
<1>18. CASE UNCHANGED vars
  BY <1>18 DEF vars
<1> QED
  BY <1>1, <1>2, <1>3, <1>4, <1>5, <1>6, <1>7, <1>8, <1>9, <1>10, <1>11, <1>12,
     <1>13, <1>14, <1>15, <1>16, <1>17, <1>18 DEF Next, CallerStep, WorkerStep

\* Once a pill or a full queue has been seen, stopped stays set.
LEMMA StopStep == IndInv /\ [Next]_vars => StopExplains'
<1> SUFFICES ASSUME IndInv, [Next]_vars PROVE StopExplains'
  OBVIOUS
<1>0. TypeOK /\ OneFlight /\ StopExplains
  BY SameFlights DEF IndInv
<1> USE <1>0, TokensAssumption DEF TypeOK, StopExplains, flags, calls, work
<1>1. ASSUME NEW c \in Callers, Deny(c) PROVE StopExplains'
  BY <1>1 DEF Deny
<1>2. ASSUME NEW c \in Callers, Claim(c) PROVE StopExplains'
  BY <1>2 DEF Claim
<1>3. ASSUME NEW c \in Callers, Enqueue(c) PROVE StopExplains'
  BY <1>3 DEF Enqueue
<1>4. ASSUME NEW c \in Callers, EnqueueFails(c) PROVE StopExplains'
  <2>1. slot = Pill
    BY <1>4 DEF EnqueueFails, OneFlight, Held
  <2> QED BY <1>4, <2>1 DEF EnqueueFails
<1>5. ASSUME NEW c \in Callers, GiveUp(c) PROVE StopExplains'
  BY <1>5 DEF GiveUp
<1>6. ASSUME NEW c \in Callers, ReturnResult(c) PROVE StopExplains'
  BY <1>6 DEF ReturnResult
<1>7. ASSUME NEW c \in Callers, TimeOut(c) PROVE StopExplains'
  BY <1>7 DEF TimeOut
<1>8. ASSUME NEW c \in Callers, Poison(c) PROVE StopExplains'
  BY <1>8 DEF Poison
<1>9. CASE SetStopped
  BY <1>9 DEF SetStopped
<1>10. CASE OfferPill
  BY <1>10 DEF OfferPill
<1>11. CASE JoinReturns
  BY <1>11 DEF JoinReturns
<1>12. CASE WorkerStep \/ AdapterReturns
  BY <1>12 DEF WorkerStep, Take, PollTimesOut, CheckStopped, Release, Signal, AdapterReturns
<1>13. CASE UNCHANGED vars
  BY <1>13 DEF vars
<1> QED
  BY <1>1, <1>2, <1>3, <1>4, <1>5, <1>6, <1>7, <1>8, <1>9, <1>10, <1>11, <1>12,
     <1>13 DEF Next, CallerStep

\* IndInv is inductive.
THEOREM StepInv == IndInv /\ [Next]_vars => IndInv'
<1> SUFFICES ASSUME IndInv, [Next]_vars PROVE IndInv'
  OBVIOUS
<1>1. TypeOK'
  BY TypeStep DEF IndInv
<1>2. SingleFlight'
  <2>1. (SingleFlight <=> OneFlight)'
    BY <1>1, SameFlights, PTL
  <2> QED BY <2>1, FlightStep
<1> QED BY <1>1, <1>2, OwnerStep, StopStep DEF IndInv

\* Every reachable state satisfies IndInv, whatever the callers.
THEOREM Invariance == Spec => []IndInv
BY InitInv, StepInv, PTL DEF Spec

\* Types: no pill ever reaches an adapter.
THEOREM Typing == Spec => []TypeOK
<1>1. IndInv => TypeOK
  BY DEF IndInv
<1> QED BY <1>1, Invariance, PTL

\* At most one command is between claim and release, and busy tells so exactly.
THEOREM MutualExclusion == Spec => []SingleFlight
<1>1. IndInv => SingleFlight
  BY DEF IndInv
<1> QED BY <1>1, Invariance, PTL

\* No command is executed for a caller that was not told of a timeout.
THEOREM NoGhostCommand == Spec => []CommandOwned
<1>1. IndInv => CommandOwned
  BY DEF IndInv
<1> QED BY <1>1, Invariance, PTL
-----------------------------------------------------------------------------
(* The refinement of GateRight.                                              *)

\* What the refinement needs besides: open() is silent while it is under way, and
\* the outcome of a command is there from the adapter's answer on, not before.
Agreement == \A c \in Callers :
    /\ pc[c] = "idle" <=> report[c] # "silent"
    /\ Held(c) \/ c = slot \/ (worker = "opening" /\ c = current) => outcome[c] = "none"
    /\ c \in completed \/ (worker \in {"releasing", "signalling"} /\ c = current)
          => outcome[c] # "none"

AgreedInv == IndInv /\ Agreement

LEMMA AgreementStep == AgreedInv /\ [Next]_vars => Agreement'
<1> SUFFICES ASSUME AgreedInv, [Next]_vars PROVE Agreement'
  OBVIOUS
<1>0. TypeOK /\ OneFlight /\ CommandOwned /\ Agreement
  BY SameFlights DEF IndInv, AgreedInv
<1> USE <1>0, TokensAssumption DEF TypeOK, Agreement, Held, Outcomes, flags, calls, work
<1>1. ASSUME NEW c \in Callers, Deny(c) PROVE Agreement'
  BY <1>1 DEF Deny
<1>2. ASSUME NEW c \in Callers, Claim(c) PROVE Agreement'
  BY <1>2 DEF Claim, Closed, CommandOwned, OneFlight
<1>3. ASSUME NEW c \in Callers, Enqueue(c) PROVE Agreement'
  BY <1>3 DEF Enqueue
<1>4. ASSUME NEW c \in Callers, EnqueueFails(c) PROVE Agreement'
  BY <1>4 DEF EnqueueFails
<1>5. ASSUME NEW c \in Callers, GiveUp(c) PROVE Agreement'
  BY <1>5 DEF GiveUp
<1>6. ASSUME NEW c \in Callers, ReturnResult(c) PROVE Agreement'
  BY <1>6 DEF ReturnResult
<1>7. ASSUME NEW c \in Callers, TimeOut(c) PROVE Agreement'
  BY <1>7 DEF TimeOut
<1>8. ASSUME NEW c \in Callers, Poison(c) PROVE Agreement'
  BY <1>8 DEF Poison
<1>9. CASE SetStopped \/ JoinReturns
  BY <1>9 DEF SetStopped, JoinReturns
<1>10. CASE OfferPill
  BY <1>10 DEF OfferPill
<1>11. CASE Take
  BY <1>11 DEF Take
<1>12. CASE PollTimesOut \/ CheckStopped
  BY <1>12 DEF PollTimesOut, CheckStopped
<1>13. CASE Release \/ Signal
  BY <1>13 DEF Release, Signal
<1>14. CASE AdapterReturns
  BY <1>14 DEF AdapterReturns, CommandOwned, OneFlight, AtWorker
<1>15. CASE UNCHANGED vars
  BY <1>15 DEF vars
<1> QED
  BY <1>1, <1>2, <1>3, <1>4, <1>5, <1>6, <1>7, <1>8, <1>9, <1>10, <1>11, <1>12,
     <1>13, <1>14, <1>15 DEF Next, CallerStep, WorkerStep

LEMMA AgreedInvariance == Spec => []AgreedInv
<1>1. Init => AgreedInv
  <2>1. Init => Agreement
    BY TokensAssumption DEF Init, Agreement, Held
  <2> QED BY <2>1, InitInv DEF AgreedInv
<1>2. AgreedInv /\ [Next]_vars => AgreedInv'
  BY StepInv, AgreementStep DEF AgreedInv
<1> QED BY <1>1, <1>2, PTL DEF Spec

\* Flights holds one command at most, so Holder is its caller.
LEMMA HolderIs == TypeOK /\ SingleFlight =>
                    /\ \A c \in Callers : Held(c) => Holder = c
                    /\ slot \in Callers => Holder = slot
                    /\ AtWorker => Holder = current
                    /\ ~busy => Holder = Empty
                    /\ busy => Holder \in Callers
<1> SUFFICES ASSUME TypeOK, SingleFlight
             PROVE  /\ \A c \in Callers : Held(c) => Holder = c
                    /\ slot \in Callers => Holder = slot
                    /\ AtWorker => Holder = current
                    /\ ~busy => Holder = Empty
                    /\ busy => Holder \in Callers
  OBVIOUS
<1>1. ASSUME NEW f \in Flights PROVE Holder = f[2]
  <2>1. (CHOOSE g \in Flights : TRUE) = f
    BY DEF SingleFlight
  <2> QED BY <2>1 DEF Holder
<1>2. ASSUME NEW c \in Callers, Held(c) PROVE Holder = c
  <2>1. <<"caller", c>> \in Flights
    BY <1>2 DEF Flights, Held
  <2> QED BY <1>1, <2>1
<1>3. ASSUME slot \in Callers PROVE Holder = slot
  <2>1. <<"queue", slot>> \in Flights
    BY <1>3 DEF Flights
  <2> QED BY <1>1, <2>1
<1>4. ASSUME AtWorker PROVE Holder = current
  <2>1. <<"worker", current>> \in Flights
    BY <1>4 DEF Flights, AtWorker, TypeOK
  <2> QED BY <1>1, <2>1
<1>5. ~busy => Holder = Empty
  BY DEF SingleFlight, Holder
<1>6. ASSUME busy PROVE Holder \in Callers
  <2>1. PICK f \in Flights : TRUE
    BY <1>6 DEF SingleFlight
  <2>2. f[2] \in Callers
    BY DEF Flights
  <2> QED BY <1>1, <2>1, <2>2
<1> QED BY <1>2, <1>3, <1>4, <1>5, <1>6

\* Where a command is after a step, and so who holds the right then.
LEMMA HolderIsNext == AgreedInv /\ [Next]_vars =>
                        /\ TypeOK /\ SingleFlight /\ OneFlight /\ CommandOwned /\ StopExplains /\ Agreement
                        /\ TypeOK' /\ OneFlight'
                        /\ \A c \in Callers : Held(c)' => Holder' = c
                        /\ (slot \in Callers)' => Holder' = slot'
                        /\ AtWorker' => Holder' = current'
                        /\ ~busy' => Holder' = Empty
<1> SUFFICES ASSUME AgreedInv, [Next]_vars
             PROVE  /\ TypeOK /\ SingleFlight /\ OneFlight /\ CommandOwned /\ StopExplains /\ Agreement
                    /\ TypeOK' /\ OneFlight'
                    /\ \A c \in Callers : Held(c)' => Holder' = c
                    /\ (slot \in Callers)' => Holder' = slot'
                    /\ AtWorker' => Holder' = current'
                    /\ ~busy' => Holder' = Empty
  OBVIOUS
<1>1. TypeOK /\ SingleFlight /\ OneFlight /\ CommandOwned /\ StopExplains /\ Agreement
  BY SameFlights DEF IndInv, AgreedInv
<1>2. TypeOK' /\ SingleFlight' /\ OneFlight'
  BY StepInv, FlightStep DEF IndInv, AgreedInv
<1>3. (TypeOK /\ SingleFlight =>
         /\ \A c \in Callers : Held(c) => Holder = c
         /\ slot \in Callers => Holder = slot
         /\ AtWorker => Holder = current
         /\ ~busy => Holder = Empty)'
  BY HolderIs, PTL
<1> QED BY <1>1, <1>2, <1>3

\* A step that moves no command leaves the right where it is.
LEMMA HolderStays == ASSUME AgreedInv, [Next]_vars, busy' = busy,
                            \A c \in Callers : Held(c) => Held(c)' \/ (slot' = c),
                            slot \in Callers => slot' = slot \/ (AtWorker' /\ current' = slot),
                            AtWorker => AtWorker' /\ current' = current
                     PROVE  Holder' = Holder
<1>1. CASE busy
  <2> USE HolderIs, HolderIsNext
  <2>1. CASE \E c \in Callers : Held(c)
    BY <2>1 DEF TypeOK
  <2>2. CASE slot \in Callers
    BY <2>2
  <2>3. CASE AtWorker
    BY <2>3
  <2> QED BY <1>1, <2>1, <2>2, <2>3 DEF OneFlight
<1>2. CASE ~busy
  BY <1>2, HolderIs, HolderIsNext
<1> QED BY <1>1, <1>2

\* Every step of the executor is a step of the abstract right, or none.
LEMMA RightStep == AgreedInv /\ [Next]_vars => [Right!Next]_(Right!vars)
<1> SUFFICES ASSUME AgreedInv, [Next]_vars PROVE [Right!Next]_(Right!vars)
  OBVIOUS
<1>0. /\ TypeOK /\ SingleFlight /\ OneFlight /\ CommandOwned /\ StopExplains /\ Agreement
  BY HolderIsNext
<1> USE TokensAssumption DEF Right!Next, Right!vars, flags, calls, work
<1>1. ASSUME NEW c \in Callers, Deny(c) PROVE Right!Deny(c)
  <2>1. Holder' = Holder
    BY <1>1, HolderStays DEF Deny, Held, AtWorker
  <2>2. busy => Holder # Empty
    BY <1>0, HolderIs
  <2> QED BY <1>0, <1>1, <2>1, <2>2 DEF Deny, Right!Deny, Agreement, TypeOK, Closed
<1>2. ASSUME NEW c \in Callers, Claim(c) PROVE Right!Grant(c)
  <2>1. Held(c)'
    BY <1>0, <1>2 DEF Claim, Held, TypeOK
  <2>2. Holder' = c /\ Holder = Empty
    BY <1>0, <1>2, <2>1, HolderIs, HolderIsNext DEF Claim
  <2> QED BY <1>0, <1>2, <2>2 DEF Claim, Right!Grant, Agreement, TypeOK, Closed
<1>3. ASSUME NEW c \in Callers, Enqueue(c) \/ EnqueueFails(c) \/ TimeOut(c) PROVE UNCHANGED Right!vars
  <2>1. Holder' = Holder
    BY <1>0, <1>3, HolderStays DEF Enqueue, EnqueueFails, TimeOut, Held, AtWorker, TypeOK
  <2> QED BY <1>3, <2>1 DEF Enqueue, EnqueueFails, TimeOut, Closed
<1>4. ASSUME NEW c \in Callers, GiveUp(c) PROVE Right!Withdraw(c)
  <2>1. Holder = c /\ Holder' = Empty
    BY <1>0, <1>4, HolderIs, HolderIsNext DEF GiveUp, Held, TypeOK
  <2> QED BY <1>0, <1>4, <2>1 DEF GiveUp, Right!Withdraw, Agreement, Held, StopExplains, Closed
<1>5. ASSUME NEW c \in Callers, ReturnResult(c) PROVE Right!Answer(c)
  <2>1. Holder' = Holder
    BY <1>0, <1>5, HolderStays DEF ReturnResult, Held, AtWorker, TypeOK
  <2>2. Holder # c
    <3>1. ~Held(c) /\ c # slot /\ c # current
      BY <1>0, <1>5 DEF ReturnResult, Held, CommandOwned
    <3>2. \A f \in Flights : f[2] # c
      BY <3>1, <1>0 DEF Flights, Held
    <3> QED BY <3>2, TokensAssumption DEF Holder
  <2> QED BY <1>0, <1>5, <2>1, <2>2 DEF ReturnResult, Right!Answer, Agreement, Closed
<1>6. ASSUME NEW c \in Callers, Poison(c) PROVE Right!Abandon(c)
  <2>1. Holder' = Holder
    BY <1>0, <1>6, HolderStays DEF Poison, Held, AtWorker, TypeOK
  <2> QED BY <1>0, <1>6, <2>1 DEF Poison, Right!Abandon, Agreement, Closed
<1>7. CASE SetStopped
  <2>1. Holder' = Holder
    BY <1>0, <1>7, HolderStays DEF SetStopped, Held, AtWorker
  <2> QED BY <1>7, <2>1 DEF SetStopped, Right!Close, Closed
<1>8. CASE OfferPill \/ JoinReturns \/ Take \/ PollTimesOut \/ CheckStopped \/ Signal
  <2>1. Holder' = Holder
    BY <1>0, <1>8, HolderStays
       DEF OfferPill, JoinReturns, Take, PollTimesOut, CheckStopped, Signal, Held, AtWorker, TypeOK
  <2> QED BY <1>8, <2>1 DEF OfferPill, JoinReturns, Take, PollTimesOut, CheckStopped, Signal, Closed
<1>9. CASE AdapterReturns
  <2>1. Holder' = Holder
    BY <1>0, <1>9, HolderStays DEF AdapterReturns, Held, AtWorker
  <2>2. current \in Callers /\ Holder = current
    BY <1>0, <1>9, HolderIs DEF AdapterReturns, AtWorker, TypeOK
  <2>3. Right!Move(current)
    BY <1>0, <1>9, <2>1, <2>2 DEF AdapterReturns, Right!Move, Right!Fates, Outcomes, Agreement, Closed
  <2> QED BY <2>2, <2>3
<1>10. CASE Release
  <2>1. current \in Callers /\ Holder = current /\ Holder' = Empty
    BY <1>0, <1>10, HolderIs, HolderIsNext DEF Release, AtWorker, TypeOK
  <2>2. Right!Yield(current)
    BY <1>0, <1>10, <2>1 DEF Release, Right!Yield, Agreement, Closed
  <2> QED BY <2>1, <2>2
<1>11. CASE UNCHANGED vars
  <2>1. Holder' = Holder
    BY <1>11 DEF vars, Holder, Flights
  <2> QED BY <1>11, <2>1 DEF vars, Closed
<1> QED
  BY <1>1, <1>2, <1>3, <1>4, <1>5, <1>6, <1>7, <1>8, <1>9, <1>10, <1>11 DEF Next, CallerStep, WorkerStep

\* The executor, with its queue, its worker and its flags, keeps what GateRight
\* promises its callers: one call at a time owns the right to move the gate, a
\* closed executor grants it no more, and answers agree with the adapter's.
THEOREM Refinement == Spec => ImplementsGateRight
<1>1. Init => Right!Init
  BY TokensAssumption DEF Init, Right!Init, Holder, Flights, Closed
<1> QED BY <1>1, AgreedInvariance, RightStep, PTL DEF Spec, ImplementsGateRight, Right!Spec
-----------------------------------------------------------------------------
(* The manager: any number of gates, openers and executors.                     *)

\* ManagerTypeOK, WorkerWithGates and NoWorkerLost hold at first, and are inductive together.
LEMMA ManagerInitInv == ManagerInit => Inv
<1> SUFFICES ASSUME ManagerInit PROVE Inv
  OBVIOUS
<1> USE ManagerAssumption DEF ManagerInit, Executors, NoExecutor
<1>1. \A o \in Openers : place[o] = "idle" /\ ref[o] = NoExecutor
  OBVIOUS
<1>2. ManagerTypeOK
  <2>1. /\ holder \in [1..MaxExecutors -> Openers \cup {Nobody}]
        /\ stage \in [1..MaxExecutors -> {"free", "queued", "moving"}]
    OBVIOUS
  <2>2. /\ place \in [Openers -> {"idle", "checking", "asking", "waiting"}]
        /\ ref \in [Openers -> 0..created]
    OBVIOUS
  <2>3. unstarted \in BOOLEAN
    OBVIOUS
  <2> QED BY <1>1, <2>1, <2>2, <2>3 DEF ManagerTypeOK
<1>3. WorkerWithGates /\ NoWorkerLost
  BY DEF WorkerWithGates, NoWorkerLost
<1> QED BY <1>2, <1>3 DEF Inv

\* The four operations on the table of controllers.
LEMMA ManagerTableStepInv ==
    ASSUME Inv,
           \/ \E g \in Gates : Apply(g) \/ ApplyFails(g) \/ Remove(g)
           \/ Shutdown
           \/ \E e \in Executors : Retire(e)
    PROVE  Inv'
<1> USE ManagerAssumption DEF Inv, Executors, NoExecutor, rights, callers
<1>1. ASSUME NEW g \in Gates, Apply(g) PROVE Inv'
  <2>1. CASE executor = 0
    <3>0. /\ created' = created + 1 /\ executor' = created + 1 /\ created < MaxExecutors
      BY <1>1, <2>1 DEF Apply
    <3>1. created \in Nat /\ created + 1 \in 1..MaxExecutors
      BY <3>0 DEF ManagerTypeOK
    <3>2. ManagerTypeOK'
      <4>1. /\ controllers' \in SUBSET Gates /\ (unstarted \in BOOLEAN)'
            /\ UNCHANGED <<retiring, holder, stage, poisonedOnes, stoppedOnes, place, ref>>
        BY <1>1, <2>1 DEF Apply, ManagerTypeOK
      <4>2. 1..created \subseteq 1..created' /\ 0..created \subseteq 0..created'
        BY <3>0, <3>1
      <4> QED BY <3>0, <3>1, <4>1, <4>2 DEF ManagerTypeOK
    <3>3. WorkerWithGates' /\ NoWorkerLost'
      BY <1>1, <2>1, <3>0, <3>1 DEF Apply, ManagerTypeOK, WorkerWithGates,
                              NoWorkerLost
    <3> QED BY <3>2, <3>3
  <2>2. CASE executor # 0
    BY <1>1, <2>2 DEF Apply, ManagerTypeOK, WorkerWithGates, NoWorkerLost
  <2> QED BY <2>1, <2>2
<1>2. ASSUME NEW g \in Gates, Remove(g) PROVE Inv'
  <2>1. ManagerTypeOK'
    BY <1>2 DEF Remove, ManagerTypeOK
  <2>2. WorkerWithGates' /\ NoWorkerLost'
    BY <1>2 DEF Remove, ManagerTypeOK, WorkerWithGates, NoWorkerLost
  <2> QED BY <2>1, <2>2
<1>3. CASE Shutdown
  <2>1. ManagerTypeOK'
    BY <1>3 DEF Shutdown, ManagerTypeOK
  <2>2. WorkerWithGates' /\ NoWorkerLost'
    BY <1>3 DEF Shutdown, ManagerTypeOK, WorkerWithGates, NoWorkerLost
  <2> QED BY <2>1, <2>2
<1>4. ASSUME NEW e \in Executors, Retire(e) PROVE Inv'
  BY <1>4 DEF Retire, ManagerTypeOK, WorkerWithGates, NoWorkerLost
<1>5. ASSUME NEW g \in Gates, ApplyFails(g) PROVE Inv'
  BY <1>5 DEF ApplyFails, ManagerTypeOK, WorkerWithGates, NoWorkerLost
<1> QED BY <1>1, <1>2, <1>3, <1>4, <1>5

\* The openers and the workers leave the table alone.
LEMMA ManagerCallStepInv ==
    ASSUME Inv,
           \/ \E o \in Openers : LookUp(o) \/ HealthCheck(o) \/ OpenerStep(o)
           \/ \E e \in Executors : StartMove(e) \/ EndMove(e)
    PROVE  Inv'
<1>0. UNCHANGED <<controllers, executor, created, retiring, unstarted, stoppedOnes>>
  BY DEF LookUp, HealthCheck, Healthy, OpenerStep, HealthFails, Denied, Granted,
         Return, Abandon, Withdrawn,
         StartMove, EndMove, table, rights
<1>1. WorkerWithGates' /\ NoWorkerLost'
  BY <1>0 DEF Inv, WorkerWithGates, NoWorkerLost
<1> USE ManagerAssumption DEF Inv, ManagerTypeOK, Executors, NoExecutor, table,
            rights, Leave
<1>2. ASSUME NEW o \in Openers, LookUp(o) PROVE ManagerTypeOK'
  BY <1>0, <1>2 DEF LookUp
<1>3. ASSUME NEW o \in Openers, HealthFails(o) \/ Denied(o) \/ Return(o)
      PROVE  ManagerTypeOK'
  <2>1. /\ place' = [place EXCEPT ![o] = "idle"] /\ ref' = [ref EXCEPT ![o] = 0]
        /\ UNCHANGED <<holder, stage, poisonedOnes>>
    BY <1>3 DEF HealthFails, Denied, Return
  <2> QED BY <1>0, <2>1
<1>4. ASSUME NEW o \in Openers, Granted(o) PROVE ManagerTypeOK'
  BY <1>0, <1>4 DEF Granted
<1>5. ASSUME NEW o \in Openers, Abandon(o) PROVE ManagerTypeOK'
  <2>1. ref[o] \in 1..created
    BY <1>5 DEF Abandon
  <2>2. poisonedOnes' \in SUBSET (1..created')
    BY <1>0, <1>5, <2>1 DEF Abandon
  <2> QED BY <1>0, <1>5, <2>2 DEF Abandon
<1>6. ASSUME NEW o \in Openers, Withdrawn(o) PROVE ManagerTypeOK'
  BY <1>0, <1>6 DEF Withdrawn
<1>7. ASSUME NEW e \in Executors, StartMove(e) \/ EndMove(e)
      PROVE  ManagerTypeOK'
  BY <1>0, <1>7 DEF StartMove, EndMove, callers
<1>8. ASSUME NEW o \in Openers, Healthy(o) PROVE ManagerTypeOK'
  BY <1>0, <1>8 DEF Healthy
<1> QED
  BY <1>1, <1>2, <1>3, <1>4, <1>5, <1>6, <1>7, <1>8 DEF HealthCheck, OpenerStep

LEMMA ManagerStepInv == Inv /\ [ManagerNext]_managerVars => Inv'
<1> SUFFICES ASSUME Inv, [ManagerNext]_managerVars PROVE Inv'
  OBVIOUS
<1>1. CASE UNCHANGED managerVars
  BY <1>1 DEF managerVars, table, rights, callers, Inv,
              ManagerTypeOK, WorkerWithGates, NoWorkerLost
<1>2. CASE ManagerNext
  BY <1>2, ManagerTableStepInv, ManagerCallStepInv DEF ManagerNext
<1> QED BY <1>1, <1>2

\* Type correctness, executors that follow the gates and none that is lost.
THEOREM ManagerInvariance == ManagerSpec => []Inv
BY ManagerInitInv, ManagerStepInv, PTL DEF ManagerSpec

\* The manager refers to an executor only while a gate is active, and to none while
\* one is active only after a start that failed.
THEOREM WorkersFollowGates == ManagerSpec => []WorkerWithGates
<1>1. Inv => WorkerWithGates
  BY DEF Inv
<1> QED BY <1>1, ManagerInvariance, PTL

\* Every executor ever created is in use, shut down, or about to be.
THEOREM WorkersAccounted == ManagerSpec => []NoWorkerLost
<1>1. Inv => NoWorkerLost
  BY DEF Inv
<1> QED BY <1>1, ManagerInvariance, PTL

\* A poisoned executor is replaced only by way of a table without controllers.
THEOREM PoisonedUntilEmpty == ManagerSpec => PoisonSticks
<1>1. Inv /\ [ManagerNext]_managerVars =>
        [(executor' # executor /\ executor \in poisonedOnes) => controllers' = {}]_managerVars
  <2> SUFFICES ASSUME Inv, ManagerNext, executor' # executor, executor \in poisonedOnes
               PROVE  controllers' = {}
    OBVIOUS
  <2>1. executor # NoExecutor
    BY DEF Inv, ManagerTypeOK, NoExecutor
  <2>2. CASE \E g \in Gates : Apply(g)
    BY <2>1, <2>2 DEF Apply
  <2>7. CASE \E g \in Gates : ApplyFails(g)
    BY <2>1, <2>7 DEF ApplyFails
  <2>3. CASE \E g \in Gates : Remove(g)
    BY <2>3 DEF Remove
  <2>4. CASE Shutdown
    BY <2>4 DEF Shutdown
  <2>5. CASE \E e \in Executors : Retire(e) \/ StartMove(e) \/ EndMove(e)
    BY <2>5 DEF Retire, StartMove, EndMove, table
  <2>6. CASE \E o \in Openers : LookUp(o) \/ HealthCheck(o) \/ OpenerStep(o)
    BY <2>6 DEF LookUp, HealthCheck, Healthy, OpenerStep, HealthFails, Denied,
                Granted, Return, Abandon,
                Withdrawn, table
  <2> QED BY <2>2, <2>3, <2>4, <2>5, <2>6, <2>7 DEF ManagerNext
<1> QED BY <1>1, ManagerInvariance, PTL DEF ManagerSpec, PoisonSticks
=============================================================================
