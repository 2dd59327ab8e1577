----------------------------- MODULE CooldownProofs -----------------------------
(* The two windows of Cooldown for every number of plates, every length of the   *)
(* windows and every table size.  The global window needs nothing; the plate     *)
(* window needs capture times that never go back and a table too large to evict. *)
EXTENDS Cooldown, FiniteSetTheorems, FunctionTheorems, TLAPS

\* The part of the types that the proofs use.
Typed == /\ capacity \in Nat \ {0} /\ skew \in Nat
         /\ DOMAIN triggers \in SUBSET Plates
         /\ triggers \in [DOMAIN triggers -> Int]
         /\ lastGlobal \in Int
         /\ clock \in Int
         /\ epoch \in Nat
         /\ opened \in SUBSET [plate : Plates, at : Nat, epoch : Nat]

\* _last_global_trigger_ns is the newest trigger of this manager, and managers
\* are numbered in the order of their lives.
LastIsNewest == \A o \in opened : /\ o.epoch <= epoch
                                  /\ o.epoch = epoch => /\ lastGlobal # Never
                                                        /\ o.at <= lastGlobal

GlobalInv == Typed /\ LastIsNewest /\ GlobalGap

LEMMA TypedInit == Init => Typed
BY CooldownAssumption DEF Init, Typed, Never

LEMMA TypedStep == Typed /\ [Next]_vars => Typed'
<1> SUFFICES ASSUME Typed, [Next]_vars PROVE Typed'
  OBVIOUS
<1> USE DEF Typed
<1>1. ASSUME NEW p \in Plates, NEW t \in Times, RefusePlate(p, t) PROVE Typed'
  BY <1>1, CooldownAssumption DEF RefusePlate, Live, Observed, Times, fixed
<1>2. ASSUME NEW p \in Plates, NEW t \in Times, RefuseGlobal(p, t) PROVE Typed'
  BY <1>2, CooldownAssumption DEF RefuseGlobal, Live, Observed, Times, fixed
<1>3. ASSUME NEW p \in Plates, NEW t \in Times, Allow(p, t) PROVE Typed'
  <2>1. PICK S \in Survivors(t) :
           triggers' = [q \in S \cup {p} |-> IF q = p THEN t ELSE triggers[q]]
    BY <1>3 DEF Allow
  <2>2. S \subseteq DOMAIN triggers
    BY <2>1 DEF Survivors, Live
  <2>3. t \in Nat
    BY CooldownAssumption DEF Times
  <2>4. /\ DOMAIN triggers' \in SUBSET Plates
        /\ triggers' \in [DOMAIN triggers' -> Int]
    BY <2>1, <2>2, <2>3
  <2>5. lastGlobal' \in Int /\ clock' \in Int /\ epoch' \in Nat /\ UNCHANGED fixed
    BY <1>3, <2>3 DEF Allow, Observed
  <2>6. opened' \in SUBSET [plate : Plates, at : Nat, epoch : Nat]
    BY <1>3, <2>3 DEF Allow
  <2> QED BY <2>4, <2>5, <2>6 DEF fixed
<1>4. CASE Rebuild
  BY <1>4, CooldownAssumption DEF Rebuild, Never, fixed
<1>5. CASE UNCHANGED vars
  BY <1>5 DEF vars, fixed
<1> QED BY <1>1, <1>2, <1>3, <1>4, <1>5 DEF Next

\* A trigger is newer by the window than the newest one of its manager, and so
\* than all of them.
LEMMA GlobalStep == GlobalInv /\ [Next]_vars => GlobalInv'
<1> SUFFICES ASSUME GlobalInv, [Next]_vars PROVE GlobalInv'
  OBVIOUS
<1>0. Typed /\ LastIsNewest /\ GlobalGap /\ Typed'
  BY TypedStep DEF GlobalInv
<1> SUFFICES LastIsNewest' /\ GlobalGap'
  BY <1>0 DEF GlobalInv
<1>1. ASSUME NEW p \in Plates, NEW t \in Times, RefusePlate(p, t) \/ RefuseGlobal(p, t)
      PROVE  LastIsNewest' /\ GlobalGap'
  BY <1>0, <1>1 DEF RefusePlate, RefuseGlobal, LastIsNewest, GlobalGap, Gap
<1>2. ASSUME NEW p \in Plates, NEW t \in Times, Allow(p, t)
      PROVE  LastIsNewest' /\ GlobalGap'
  <2> DEFINE new == [plate |-> p, at |-> t, epoch |-> epoch]
  <2>1. /\ opened' = opened \cup {new}
        /\ lastGlobal' = t /\ epoch' = epoch
        /\ ~GlobalHolds(t)
        /\ t \in Nat
    BY <1>2, CooldownAssumption DEF Allow, Times
  <2>2. ASSUME NEW o \in opened, o.epoch = epoch
        PROVE  o.at \in Nat /\ t - o.at >= GlobalWindow /\ o.at < t
    BY <1>0, <2>1, <2>2, CooldownAssumption DEF LastIsNewest, GlobalHolds, Typed, Never
  <2>3. LastIsNewest'
    <3> SUFFICES ASSUME NEW o \in opened'
                 PROVE  /\ o.epoch <= epoch'
                        /\ o.epoch = epoch' => lastGlobal' # Never /\ o.at <= lastGlobal'
      BY DEF LastIsNewest
    <3>1. CASE o = new
      BY <3>1, <2>1, <1>0 DEF Typed, Never
    <3>2. CASE o \in opened
      BY <3>2, <2>1, <2>2, <1>0 DEF Typed, Never, LastIsNewest
    <3> QED BY <3>1, <3>2, <2>1
  <2>4. GlobalGap'
    <3> SUFFICES ASSUME NEW a \in opened', NEW b \in opened',
                        a # b, a.epoch = b.epoch, a.at <= b.at
                 PROVE  b.at - a.at >= GlobalWindow
      BY DEF GlobalGap, Gap
    <3>1. CASE a \in opened /\ b \in opened
      BY <3>1, <1>0 DEF GlobalGap, Gap
    <3>2. CASE a \in opened /\ b = new
      BY <3>2, <2>2
    <3>3. CASE a = new /\ b \in opened
      BY <3>3, <2>1, <2>2
    <3> QED BY <3>1, <3>2, <3>3, <2>1
  <2> QED BY <2>3, <2>4
<1>3. CASE Rebuild
  BY <1>0, <1>3 DEF Rebuild, LastIsNewest, GlobalGap, Gap, Typed
<1>4. CASE UNCHANGED vars
  BY <1>0, <1>4 DEF vars, LastIsNewest, GlobalGap, Gap
<1> QED BY <1>1, <1>2, <1>3, <1>4 DEF Next

\* The global window separates any two triggers of a manager, in whatever order
\* the frames were captured and however small the table.
THEOREM GlobalWindowHolds == Spec => []GlobalGap
<1>1. Init => GlobalInv
  BY TypedInit DEF Init, GlobalInv, LastIsNewest, GlobalGap
<1>2. GlobalInv => GlobalGap
  BY DEF GlobalInv
<1> QED BY <1>1, <1>2, GlobalStep, PTL DEF Spec
-----------------------------------------------------------------------------
\* Every trigger of this manager is in the table, or older than its window.
Remembered ==
    \A o \in opened : o.epoch = epoch =>
        \/ o.plate \in DOMAIN triggers /\ triggers[o.plate] >= o.at
        \/ clock - o.at >= PlateWindow

\* Every entry of the table is a trigger of this manager.
Entry(q) == [plate |-> q, at |-> triggers[q], epoch |-> epoch]
Founded == \A q \in DOMAIN triggers : Entry(q) \in opened

PlateInv == GlobalInv /\ Founded /\ (InOrder => Remembered /\ PlateGap)

\* Times at least a window apart lie in different windows.
LEMMA Apart ==
    ASSUME NEW a \in Nat, NEW b \in Nat, NEW G \in Nat \ {0}, a >= b + G
    PROVE  a \div G # b \div G
<1> DEFINE x == a \div G
           y == b \div G
<1>1. a = G * x + (a % G) /\ a % G \in 0..(G - 1) /\ x \in Int
  OBVIOUS
<1>2. b = G * y + (b % G) /\ b % G \in 0..(G - 1) /\ y \in Int
  OBVIOUS
<1> HIDE DEF x, y
<1>3. SUFFICES ASSUME x = y PROVE FALSE
  BY DEF x, y
<1> QED BY <1>1, <1>2, <1>3

\* A time from one window to short of k windows ago lies in one of k - 1 windows.
LEMMA Window ==
    ASSUME NEW a \in Nat, NEW k \in Nat, NEW G \in Nat \ {0}, G <= a, a < k * G
    PROVE  a \div G \in 1..(k - 1)
<1> DEFINE x == a \div G
<1>1. a = G * x + (a % G) /\ a % G \in 0..(G - 1) /\ x \in Int
  OBVIOUS
<1> HIDE DEF x
<1>2. x >= 1
  <2> SUFFICES ASSUME x <= 0 PROVE FALSE
    BY <1>1
  <2>1. G * x <= 0
    BY <1>1
  <2> QED BY <1>1, <2>1
<1>3. x < k
  <2> SUFFICES ASSUME x >= k PROVE FALSE
    BY <1>1
  <2>1. G * x >= k * G
    BY <1>1
  <2> QED BY <1>1, <2>1
<1> QED BY <1>1, <1>2, <1>3 DEF x

\* When a trigger is allowed, the live entries are spread over the global windows
\* of one plate window, the latest excepted: they are fewer than the capacity.
LEMMA NoEviction ==
    ASSUME GlobalInv, Founded, InOrder, NEW t \in Nat, ~GlobalHolds(t)
    PROVE  Survivors(t) = {Live(t)}
<1> DEFINE ago(q) == t - triggers[q]
           f == [q \in Live(t) |-> ago(q) \div GlobalWindow]
<1>0. /\ Typed /\ LastIsNewest /\ GlobalGap
      /\ GlobalWindow \in Nat \ {0} /\ PlateWindow \in Nat
      /\ capacity \in Nat \ {0} /\ capacity * GlobalWindow >= PlateWindow
  BY CooldownAssumption DEF GlobalInv, Typed, InOrder
<1>1. ASSUME NEW q \in Live(t)
      PROVE  /\ q \in DOMAIN triggers /\ triggers[q] \in Int
             /\ ago(q) \in Nat /\ GlobalWindow <= ago(q) /\ ago(q) < capacity * GlobalWindow
  <2>1. q \in DOMAIN triggers /\ triggers[q] \in Int /\ ago(q) < PlateWindow
    BY <1>0, <1>1 DEF Live, Typed
  <2>2. lastGlobal \in Int /\ lastGlobal # Never /\ triggers[q] <= lastGlobal
    BY <1>0, <2>1 DEF Founded, Entry, LastIsNewest, Typed
  <2>3. t - lastGlobal >= GlobalWindow
    BY <1>0, <2>2 DEF GlobalHolds
  <2>4. capacity * GlobalWindow \in Nat
    BY <1>0
  <2> HIDE DEF ago
  <2> QED BY <1>0, <2>1, <2>2, <2>3, <2>4 DEF ago
<1>2. f \in [Live(t) -> 1..(capacity - 1)]
  <2> SUFFICES ASSUME NEW q \in Live(t)
               PROVE  ago(q) \div GlobalWindow \in 1..(capacity - 1)
    OBVIOUS
  <2> HIDE DEF ago
  <2> QED BY <1>0, <1>1, Window
<1>3. ASSUME NEW q \in Live(t), NEW r \in Live(t), q # r
      PROVE  f[q] # f[r]
  <2>1. /\ Entry(q) \in opened /\ Entry(r) \in opened
        /\ Entry(q) # Entry(r)
    BY <1>1, <1>3 DEF Founded, Entry
  <2>2. /\ triggers[q] <= triggers[r] => triggers[r] - triggers[q] >= GlobalWindow
        /\ triggers[r] <= triggers[q] => triggers[q] - triggers[r] >= GlobalWindow
    BY <2>1, <1>0 DEF GlobalGap, Gap, Entry
  <2>3. \/ ago(q) >= ago(r) + GlobalWindow
        \/ ago(r) >= ago(q) + GlobalWindow
    BY <2>2, <1>0, <1>1
  <2>4. ago(q) \div GlobalWindow # ago(r) \div GlobalWindow
    <3>1. ago(q) \in Nat /\ ago(r) \in Nat
      BY <1>1
    <3> HIDE DEF ago
    <3> QED BY <1>0, <2>3, <3>1, Apart
  <2> QED BY <2>4
<1>4. IsFiniteSet(1..(capacity - 1)) /\ Cardinality(1..(capacity - 1)) = capacity - 1
  BY <1>0, FS_Interval
<1>5. f \in Injection(Live(t), 1..(capacity - 1))
  <2> HIDE DEF f
  <2> QED BY <1>2, <1>3, Fun_IsInj
<1>6. IsFiniteSet(Live(t)) /\ Cardinality(Live(t)) <= capacity - 1
  BY <1>4, <1>5, FS_Injection
<1>7. Cardinality(Live(t)) \in Nat
  BY <1>6, FS_CardinalityType
<1>8. ~(Cardinality(Live(t)) >= capacity)
  BY <1>0, <1>6, <1>7
<1> QED BY <1>8 DEF Survivors

\* What a prune at a time that is not in the past leaves is remembered.
LEMMA PruneRemembers ==
    ASSUME Typed, Remembered, NEW t \in Nat, t >= clock,
           NEW o \in opened, o.epoch = epoch
    PROVE  \/ o.plate \in Live(t) /\ triggers[o.plate] >= o.at
           \/ t - o.at >= PlateWindow
<1>1. o.at \in Nat /\ clock \in Int /\ PlateWindow \in Nat
  BY CooldownAssumption DEF Typed
<1>2. CASE o.plate \in DOMAIN triggers /\ triggers[o.plate] >= o.at
  <2>1. triggers[o.plate] \in Int
    BY <1>2 DEF Typed
  <2> QED BY <1>1, <1>2, <2>1 DEF Live
<1>3. CASE clock - o.at >= PlateWindow
  BY <1>1, <1>3
<1> QED BY <1>2, <1>3 DEF Remembered

\* Entries come from triggers, and go when the manager does.
LEMMA FoundedStep == GlobalInv /\ Founded /\ [Next]_vars => Founded'
<1> SUFFICES ASSUME Typed, Founded, [Next]_vars PROVE Founded'
  BY DEF GlobalInv
<1>1. ASSUME NEW p \in Plates, NEW t \in Times, RefusePlate(p, t) \/ RefuseGlobal(p, t)
      PROVE  Founded'
  BY <1>1 DEF RefusePlate, RefuseGlobal, Founded, Entry, Live
<1>2. ASSUME NEW p \in Plates, NEW t \in Times, Allow(p, t) PROVE Founded'
  <2>1. PICK S \in Survivors(t) :
           triggers' = [q \in S \cup {p} |-> IF q = p THEN t ELSE triggers[q]]
    BY <1>2 DEF Allow
  <2>2. S \subseteq DOMAIN triggers
    BY <2>1 DEF Survivors, Live
  <2>3. epoch' = epoch /\ opened' = opened \cup {[plate |-> p, at |-> t, epoch |-> epoch]}
    BY <1>2 DEF Allow
  <2> QED BY <2>1, <2>2, <2>3 DEF Founded, Entry
<1>3. CASE Rebuild
  BY <1>3 DEF Rebuild, Founded
<1>4. CASE UNCHANGED vars
  BY <1>4 DEF vars, Founded, Entry
<1> QED BY <1>1, <1>2, <1>3, <1>4 DEF Next

LEMMA PlateStep == PlateInv /\ [Next]_vars => PlateInv'
<1> SUFFICES ASSUME PlateInv, [Next]_vars PROVE PlateInv'
  OBVIOUS
<1>b. GlobalInv /\ Founded /\ GlobalInv' /\ Founded' /\ UNCHANGED fixed
  <2>1. UNCHANGED fixed
    BY DEF Next, vars, RefusePlate, RefuseGlobal, Allow, Rebuild
  <2> QED BY <2>1, GlobalStep, FoundedStep DEF PlateInv
<1> SUFFICES ASSUME InOrder PROVE Remembered' /\ PlateGap'
  BY <1>b DEF PlateInv, InOrder, fixed
<1>0. Typed /\ LastIsNewest /\ Remembered /\ PlateGap
  BY DEF PlateInv, GlobalInv
<1>a. ASSUME NEW t \in Times, Observed(t)
      PROVE  t \in Nat /\ t >= clock /\ clock' = t
  BY <1>0, <1>a, CooldownAssumption DEF Observed, Times, Typed, InOrder
<1>1. ASSUME NEW p \in Plates, NEW t \in Times, RefusePlate(p, t) \/ RefuseGlobal(p, t)
      PROVE  Remembered' /\ PlateGap'
  <2>1. /\ UNCHANGED <<lastGlobal, epoch, opened>>
        /\ triggers' = [q \in Live(t) |-> triggers[q]]
        /\ t \in Nat /\ t >= clock /\ clock' = t
    BY <1>1, <1>a DEF RefusePlate, RefuseGlobal
  <2>2. Remembered'
    <3> SUFFICES ASSUME NEW o \in opened, o.epoch = epoch
                 PROVE  \/ o.plate \in DOMAIN triggers' /\ triggers'[o.plate] >= o.at
                        \/ clock' - o.at >= PlateWindow
      BY <2>1 DEF Remembered
    <3> QED BY <2>1, <1>0, PruneRemembers
  <2> QED BY <1>0, <2>1, <2>2 DEF PlateGap, Gap
<1>2. ASSUME NEW p \in Plates, NEW t \in Times, Allow(p, t)
      PROVE  Remembered' /\ PlateGap'
  <2> DEFINE new == [plate |-> p, at |-> t, epoch |-> epoch]
  <2>1. /\ opened' = opened \cup {new}
        /\ lastGlobal' = t /\ epoch' = epoch
        /\ ~GlobalHolds(t) /\ p \notin Live(t)
        /\ t \in Nat /\ t >= clock /\ clock' = t
    BY <1>2, <1>a DEF Allow
  <2>2. triggers' = [q \in Live(t) \cup {p} |-> IF q = p THEN t ELSE triggers[q]]
    BY <1>2, <2>1, <1>b, NoEviction DEF Allow
  <2>3. ASSUME NEW o \in opened, o.epoch = epoch
        PROVE  o.at \in Nat /\ o.at < t
    BY <1>0, <2>1, <2>3, CooldownAssumption DEF LastIsNewest, GlobalHolds, Typed, Never
  <2>4. ASSUME NEW o \in opened, o.epoch = epoch, o.plate = p
        PROVE  t - o.at >= PlateWindow
    BY <1>0, <2>1, <2>4, PruneRemembers
  <2>6. Remembered'
    <3> SUFFICES ASSUME NEW o \in opened', o.epoch = epoch'
                 PROVE  \/ o.plate \in DOMAIN triggers' /\ triggers'[o.plate] >= o.at
                        \/ clock' - o.at >= PlateWindow
      BY DEF Remembered
    <3>1. CASE o = new
      BY <3>1, <2>1, <2>2
    <3>2. CASE o \in opened
      <4>1. CASE o.plate = p
        BY <4>1, <3>2, <2>1, <2>4
      <4>2. CASE o.plate # p
        <5>1. \/ o.plate \in Live(t) /\ triggers[o.plate] >= o.at
              \/ t - o.at >= PlateWindow
          BY <3>2, <2>1, <1>0, PruneRemembers
        <5> QED BY <5>1, <4>2, <2>1, <2>2
      <4> QED BY <4>1, <4>2
    <3> QED BY <3>1, <3>2, <2>1
  <2>7. PlateGap'
    <3> SUFFICES ASSUME NEW a \in opened', NEW b \in opened',
                        a # b, a.plate = b.plate, a.epoch = b.epoch, a.at <= b.at
                 PROVE  b.at - a.at >= PlateWindow
      BY DEF PlateGap, Gap
    <3>1. CASE a \in opened /\ b \in opened
      BY <3>1, <1>0 DEF PlateGap, Gap
    <3>2. CASE a \in opened /\ b = new
      BY <3>2, <2>4
    <3>3. CASE a = new /\ b \in opened
      BY <3>3, <2>1, <2>3
    <3> QED BY <3>1, <3>2, <3>3, <2>1
  <2> QED BY <2>6, <2>7
<1>3. CASE Rebuild
  <2>1. epoch' = epoch + 1 /\ opened' = opened
    BY <1>3 DEF Rebuild
  <2>2. epoch \in Nat /\ \A o \in opened : o.epoch <= epoch /\ o.epoch \in Nat
    BY <1>0 DEF LastIsNewest, Typed
  <2> QED BY <1>0, <2>1, <2>2 DEF Remembered, PlateGap, Gap
<1>4. CASE UNCHANGED vars
  BY <1>0, <1>4 DEF vars, Remembered, PlateGap, Gap
<1> QED BY <1>1, <1>2, <1>3, <1>4 DEF Next

\* The plate window separates any two triggers of a plate by one manager, when
\* capture times do not go back and the table is no smaller than the number of
\* global windows in a plate window.
THEOREM PlateWindowHolds == Spec => []PlateGapInOrder
<1>1. Init => PlateInv
  BY TypedInit DEF Init, PlateInv, GlobalInv, LastIsNewest, GlobalGap, Founded, Remembered, PlateGap
<1>2. PlateInv => PlateGapInOrder
  BY DEF PlateInv, PlateGapInOrder
<1> QED BY <1>1, <1>2, PlateStep, PTL DEF Spec
-----------------------------------------------------------------------------
\* A table of plates, and a part of it, are finite sets with a size.
LEMMA Tables ==
    ASSUME NEW S \in SUBSET Plates, NEW T \in SUBSET S
    PROVE  /\ IsFiniteSet(S) /\ Cardinality(S) \in Nat
           /\ IsFiniteSet(T) /\ Cardinality(T) \in Nat
           /\ Cardinality(T) <= Cardinality(S)
<1>1. IsFiniteSet(S)
  BY CooldownAssumption, FS_Subset
<1> QED BY <1>1, FS_Subset, FS_CardinalityType

\* The table has room for one more plate when the survivors have been chosen.
LEMMA RoomForOne ==
    ASSUME TypeOK, NEW t, NEW S \in Survivors(t), NEW p \in Plates
    PROVE  S \subseteq DOMAIN triggers /\ Cardinality(S \cup {p}) <= capacity
<1>1. Live(t) \subseteq DOMAIN triggers /\ DOMAIN triggers \in SUBSET Plates
  BY DEF Live, TypeOK
<1>2. /\ IsFiniteSet(Live(t)) /\ Cardinality(Live(t)) \in Nat
      /\ Cardinality(Live(t)) <= Cardinality(DOMAIN triggers)
      /\ Cardinality(DOMAIN triggers) \in Nat
  BY <1>1, Tables
<1>3. capacity \in Nat \ {0} /\ Cardinality(Live(t)) <= capacity
  BY <1>2, CooldownAssumption DEF TypeOK
<1>4. IsFiniteSet(S) /\ Cardinality(S) \in Nat /\ Cardinality(S) + 1 <= capacity
  <2>1. CASE Cardinality(Live(t)) >= capacity
    <3>1. PICK q \in Oldest(Live(t)) : S = Live(t) \ {q}
      BY <2>1 DEF Survivors
    <3>2. q \in Live(t)
      BY DEF Oldest
    <3>3. IsFiniteSet(S) /\ Cardinality(S) = Cardinality(Live(t)) - 1
      BY <1>2, <3>1, <3>2, FS_RemoveElement
    <3>4. Cardinality(S) \in Nat
      BY <3>3, FS_CardinalityType
    <3> QED BY <1>2, <1>3, <3>3, <3>4
  <2>2. CASE ~(Cardinality(Live(t)) >= capacity)
    <3>1. S = Live(t)
      BY <2>2 DEF Survivors
    <3> QED BY <1>2, <1>3, <2>2, <3>1
  <2> QED BY <2>1, <2>2
<1>5. /\ IsFiniteSet(S \cup {p})
      /\ Cardinality(S \cup {p}) = IF p \in S THEN Cardinality(S) ELSE Cardinality(S) + 1
  BY <1>4, FS_AddElement
<1>6. Cardinality(S \cup {p}) \in Nat
  BY <1>5, FS_CardinalityType
<1>7. S \subseteq Live(t)
  BY DEF Survivors
<1> QED BY <1>1, <1>3, <1>4, <1>5, <1>6, <1>7

LEMMA TypeOKStep == TypeOK /\ [Next]_vars => TypeOK'
<1> SUFFICES ASSUME TypeOK, [Next]_vars PROVE TypeOK'
  OBVIOUS
<1>1. ASSUME NEW p \in Plates, NEW t \in Times, RefusePlate(p, t) \/ RefuseGlobal(p, t)
      PROVE  TypeOK'
  <2>1. triggers' = [q \in Live(t) |-> triggers[q]] /\ Live(t) \subseteq DOMAIN triggers
    BY <1>1 DEF RefusePlate, RefuseGlobal, Live
  <2>2. /\ DOMAIN triggers' \in SUBSET Plates
        /\ triggers' \in [DOMAIN triggers' -> Times]
    BY <2>1 DEF TypeOK
  <2>3. Cardinality(DOMAIN triggers') <= capacity
    <3>1. DOMAIN triggers' = Live(t) /\ DOMAIN triggers \in SUBSET Plates
      BY <2>1 DEF TypeOK
    <3>2. /\ Cardinality(DOMAIN triggers') <= Cardinality(DOMAIN triggers)
          /\ Cardinality(DOMAIN triggers') \in Nat /\ Cardinality(DOMAIN triggers) \in Nat
      BY <2>1, <3>1, Tables
    <3> QED BY <3>2, CooldownAssumption DEF TypeOK
  <2>4. UNCHANGED <<fixed, lastGlobal, epoch, opened>> /\ clock' \in Times
    BY <1>1 DEF RefusePlate, RefuseGlobal, Observed, TypeOK
  <2> QED BY <2>2, <2>3, <2>4 DEF TypeOK, fixed
<1>2. ASSUME NEW p \in Plates, NEW t \in Times, Allow(p, t) PROVE TypeOK'
  <2>1. PICK S \in Survivors(t) :
           triggers' = [q \in S \cup {p} |-> IF q = p THEN t ELSE triggers[q]]
    BY <1>2 DEF Allow
  <2>2. S \subseteq DOMAIN triggers /\ Cardinality(S \cup {p}) <= capacity
    BY RoomForOne
  <2>3. /\ DOMAIN triggers' = S \cup {p} /\ DOMAIN triggers' \in SUBSET Plates
        /\ triggers' \in [DOMAIN triggers' -> Times]
    BY <2>1, <2>2 DEF TypeOK
  <2>4. UNCHANGED <<fixed, epoch>> /\ lastGlobal' \in Times /\ clock' \in Times
    BY <1>2 DEF Allow, Observed, TypeOK
  <2>5. opened' \in SUBSET [plate : Plates, at : Times, epoch : 0..MaxRebuilds]
    BY <1>2 DEF Allow, TypeOK
  <2> QED BY <2>2, <2>3, <2>4, <2>5 DEF TypeOK, fixed
<1>3. CASE Rebuild
  <2>1. DOMAIN triggers' = {} /\ triggers' \in [DOMAIN triggers' -> Times]
    BY <1>3 DEF Rebuild
  <2>2. Cardinality(DOMAIN triggers') <= capacity
    BY <2>1, FS_EmptySet, CooldownAssumption DEF TypeOK
  <2>3. UNCHANGED <<fixed, clock, opened>> /\ lastGlobal' = Never /\ epoch' \in 0..MaxRebuilds
    BY <1>3, CooldownAssumption DEF Rebuild, TypeOK
  <2> QED BY <1>3, <2>1, <2>2, <2>3 DEF TypeOK, fixed, Rebuild
<1>4. CASE UNCHANGED vars
  BY <1>4 DEF vars, fixed, TypeOK
<1> QED BY <1>1, <1>2, <1>3, <1>4 DEF Next

\* The table of plates never outgrows max_entries, and all it holds are times that
\* frames were captured at.
THEOREM TableBounded == Spec => []TypeOK
<1>1. Init => TypeOK
  <2> SUFFICES ASSUME Init PROVE TypeOK
    OBVIOUS
  <2>1. DOMAIN triggers = {} /\ triggers \in [DOMAIN triggers -> Times]
    BY DEF Init
  <2>2. Cardinality(DOMAIN triggers) <= capacity
    BY <2>1, FS_EmptySet, CooldownAssumption DEF Init
  <2> QED BY <2>1, <2>2, CooldownAssumption DEF Init, TypeOK, Times
<1> QED BY <1>1, TypeOKStep, PTL DEF Spec
=============================================================================
