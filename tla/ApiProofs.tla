-------------------------------- MODULE ApiProofs --------------------------------
(* The requests of api/routes/: Authentication for any pool of threads, any keys *)
(* and any limits (one administrator, sessions that end for a reason, locks that *)
(* hold and a bound on the failures between them), and after it Administration   *)
(* for any requests, rows and settings (what runs is what is stored).            *)
EXTENDS Authentication, Administration, FiniteSetTheorems, SequenceTheorems, TLAPS

Row == [key : Keys, failures : 0..MaxAttempts, until : Nat]
Table == {states[i] : i \in DOMAIN states}
OneEach == \A i, j \in DOMAIN states : states[i].key = states[j].key => i = j

\* The limiter's table, and what is remembered of its keys.
Listed == /\ states \in Seq(Row) /\ Len(states) <= MaxKeys /\ OneEach
          /\ promised \in [Keys -> Nat] /\ guesses \in [Keys -> Nat]
          /\ others \in [Keys -> SUBSET Keys] /\ \A k \in Keys : IsFiniteSet(others[k])

\* The keys behind a key in the table have been used since.
InOrder == \A i, j \in DOMAIN states : i < j => states[j].key \in others[states[i].key]

\* A row waits until the time its key was told; the row of a key that has to wait is
\* there until enough others have been used.
Told == \A s \in Table : promised[s.key] = s.until
Present == \A k \in Keys : promised[k] > now /\ Cardinality(others[k]) < MaxKeys => Entry(k) # {}

\* The logins of a key that are past the check.
Past(k) == {r \in Requests : request[r].at = "verify" /\ request[r].key = k}

\* All the threads but one may be past the check when a key is locked; what they fail
\* counts before the next attempts do.
Counting ==
    /\ \A s \in Table :
         /\ s.failures < MaxAttempts
         /\ guesses[s.key] <= s.failures + Cardinality(Requests) - 1
         /\ s.until # 0 => guesses[s.key] + Cardinality(Past(s.key)) <= Cardinality(Requests) - 1
    /\ \A k \in Keys : Entry(k) = {} => guesses[k] <= Cardinality(Requests) - 1

Limiting == Listed /\ InOrder /\ Told /\ Present

\* The set-up has one request in it, and creates the first administrator.
SettingUp == \A r \in Requests :
                /\ request[r].at \in {"count", "create"} => setupLock = <<r>>
                /\ request[r].at = "create" => users = 0

Places == [at : {"idle", "count", "create"}] \cup [at : {"verify", "reset"}, key : Keys]
          \cup [at : {"logout"}, token : 1..issued]

\* The rows of the database, and where the requests are.
Filed == /\ now \in 1..MaxTime /\ users \in 0..1 /\ issued \in Nat
         /\ sessions \subseteq [token : 1..issued, user : 1..users, expires : Nat]
         /\ \A s, t \in sessions : s = t
         /\ setupLock \in {Free} \cup {<<r>> : r \in Requests}
         /\ request \in [Requests -> Places]
         /\ SessionsAccounted /\ dismissed \subseteq 1..issued

IInv == Filed /\ SettingUp /\ Limiting /\ Counting
-----------------------------------------------------------------------------
(* The table.                                                                *)

LEMMA Lookup ==
    ASSUME Listed, NEW k \in Keys
    PROVE  /\ Entry(k) # {} => /\ Place(k) \in DOMAIN states /\ State(k) = states[Place(k)]
                              /\ State(k) \in Table /\ State(k) \in Row /\ State(k).key = k
           /\ \A s \in Table : s \in Row /\ (s.key = k => Entry(k) # {} /\ State(k) = s)
           /\ (Entry(k) = {}) <=> \A s \in Table : s.key # k
<1>1. \A i \in DOMAIN states : states[i] \in Row
  BY DEF Listed
<1>2. Entry(k) # {} => Place(k) \in Entry(k)
  BY DEF Place
<1>3. Entry(k) # {} => Place(k) \in DOMAIN states /\ states[Place(k)].key = k
  BY <1>2 DEF Entry
<1>4. \A i \in DOMAIN states : states[i].key = k => Entry(k) # {} /\ Place(k) = i
  BY <1>3 DEF Entry, Listed, OneEach
<1> QED BY <1>1, <1>3, <1>4 DEF State, Table, Entry

\* A sequence without its place p.
LEMMA Cut ==
    ASSUME NEW S, NEW s \in Seq(S), NEW p \in 1..Len(s), NEW w, 
           w = SubSeq(s, 1, p - 1) \o SubSeq(s, p + 1, Len(s))
    PROVE  /\ w \in Seq(S) /\ Len(w) = Len(s) - 1
           /\ \A i \in 1..Len(s) - 1 : w[i] = IF i < p THEN s[i] ELSE s[i + 1]
<1> DEFINE a == SubSeq(s, 1, p - 1)
           b == SubSeq(s, p + 1, Len(s))
<1>1. a \in Seq(S) /\ Len(a) = p - 1 /\ \A i \in 1..p - 1 : a[i] = s[i]
  OBVIOUS
<1>2. b \in Seq(S)
  OBVIOUS
<1>3. Len(b) = Len(s) - p
  OBVIOUS
<1>4. \A i \in 1..Len(s) - p : b[i] = s[i + p]
  OBVIOUS
<1> HIDE DEF a, b
<1>5. w = a \o b
  BY DEF a, b
<1>6. /\ a \o b \in Seq(S) /\ Len(a \o b) = Len(a) + Len(b)
      /\ \A i \in 1..Len(a) + Len(b) : (a \o b)[i] = IF i <= Len(a) THEN a[i] ELSE b[i - Len(a)]
  BY <1>1, <1>2, ConcatProperties
<1>7. Len(a) + Len(b) = Len(s) - 1
  BY <1>1, <1>3
<1>8. ASSUME NEW i \in 1..Len(s) - 1 PROVE w[i] = IF i < p THEN s[i] ELSE s[i + 1]
  <2>0. i \in 1..Len(s) - 1 /\ p \in 1..Len(s) /\ (i < p <=> i <= p - 1)
    OBVIOUS
  <2>1. w[i] = IF i <= p - 1 THEN a[i] ELSE b[i - (p - 1)]
    BY <1>1, <1>5, <1>6, <1>7, <1>8
  <2>2. CASE i < p
    <3>1. i \in 1..p - 1
      BY <2>0, <2>2
    <3>2. a[i] = s[i]
      BY <1>1, <3>1
    <3>3. w[i] = a[i]
      BY <2>0, <2>1, <2>2
    <3> QED BY <2>2, <3>2, <3>3
  <2>3. CASE ~(i < p)
    <3>1. i - (p - 1) \in 1..Len(s) - p /\ i - (p - 1) + p = i + 1
      BY <2>3
    <3>2. b[i - (p - 1)] = s[i + 1]
      BY <1>4, <3>1
    <3>3. w[i] = b[i - (p - 1)]
      BY <2>0, <2>1, <2>3
    <3> QED BY <2>3, <3>2, <3>3
  <2> QED BY <2>2, <2>3
<1> QED BY <1>5, <1>6, <1>7, <1>8

\* The table without a key: the others, in their order.
LEMMA Removed ==
    ASSUME Listed, NEW k \in Keys
    PROVE  /\ Without(k) \in Seq(Row)
           /\ Len(Without(k)) = IF Entry(k) = {} THEN Len(states) ELSE Len(states) - 1
           /\ \A i \in DOMAIN Without(k) : Without(k)[i].key # k
           /\ \A i, j \in DOMAIN Without(k) : i < j =>
                 \E a, b \in DOMAIN states : a < b /\ states[a] = Without(k)[i] /\ states[b] = Without(k)[j]
           /\ {Without(k)[i] : i \in DOMAIN Without(k)} = {s \in Table : s.key # k}
<1>0. states \in Seq(Row) /\ Len(states) \in Nat /\ DOMAIN states = 1..Len(states) /\ OneEach
  BY DEF Listed
<1>1. CASE Entry(k) = {}
  <2>1. Without(k) = states /\ \A i \in DOMAIN states : states[i].key # k
    BY <1>1 DEF Without, Entry
  <2>2. \A s \in Table : s.key # k
    BY <2>1 DEF Table
  <2>3. {states[i] : i \in DOMAIN states} = {s \in Table : s.key # k}
    BY <2>2 DEF Table
  <2> QED BY <1>0, <1>1, <2>1, <2>3
<1>2. CASE Entry(k) # {}
  <2> DEFINE w == Without(k)
             p == Place(k)
  <2>1. p \in 1..Len(states) /\ states[p].key = k
    BY <1>0, <1>2, Lookup
  <2>2. w = SubSeq(states, 1, p - 1) \o SubSeq(states, p + 1, Len(states))
    BY <1>2 DEF Without
  <2> HIDE DEF p, w
  <2>3. /\ w \in Seq(Row) /\ Len(w) = Len(states) - 1
        /\ \A i \in 1..Len(states) - 1 : w[i] = IF i < p THEN states[i] ELSE states[i + 1]
    BY <1>0, <2>1, <2>2, Cut
  <2>n. DOMAIN w = 1..Len(states) - 1
    BY <2>3
  <2> DEFINE Was(i) == IF i < p THEN i ELSE i + 1
  <2>4. ASSUME NEW i \in DOMAIN w
        PROVE  Was(i) \in DOMAIN states /\ Was(i) # p /\ w[i] = states[Was(i)]
    <3>1. CASE i < p
      BY <1>0, <2>1, <2>3, <2>n, <3>1
    <3>2. CASE ~(i < p)
      BY <1>0, <2>1, <2>3, <2>n, <3>2
    <3> QED BY <3>1, <3>2
  <2>5. \A i \in DOMAIN w : w[i].key # k
    BY <1>0, <2>1, <2>4 DEF OneEach
  <2>6. ASSUME NEW i \in DOMAIN w, NEW j \in DOMAIN w, i < j
        PROVE  \E a, b \in DOMAIN states : a < b /\ states[a] = w[i] /\ states[b] = w[j]
    <3>1. Was(i) < Was(j)
      BY <2>1, <2>n, <2>6
    <3> HIDE DEF Was
    <3> QED BY <2>4, <3>1
  <2>7. {w[i] : i \in DOMAIN w} = {s \in Table : s.key # k}
    <3>1. ASSUME NEW i \in DOMAIN w PROVE w[i] \in Table /\ w[i].key # k
      <4> HIDE DEF Was
      <4> QED BY <2>4, <2>5 DEF Table
    <3>2. ASSUME NEW a \in DOMAIN states, states[a].key # k PROVE \E i \in DOMAIN w : w[i] = states[a]
      <4>1. CASE a < p
        <5>1. a \in DOMAIN w /\ w[a] = states[a]
          BY <1>0, <2>1, <2>3, <2>n, <4>1
        <5> QED BY <5>1
      <4>2. CASE a > p
        <5>1. a - 1 \in 1..Len(states) - 1 /\ ~(a - 1 < p) /\ a - 1 + 1 = a
          BY <1>0, <2>1, <4>2
        <5>2. a - 1 \in DOMAIN w /\ w[a - 1] = states[a]
          BY <2>3, <2>n, <5>1
        <5> QED BY <5>2
      <4> QED BY <1>0, <2>1, <3>2, <4>1, <4>2
    <3> QED BY <3>1, <3>2 DEF Table
  <2> QED BY <1>2, <2>3, <2>5, <2>6, <2>7 DEF w
<1> QED BY <1>1, <1>2

\* A key is used: its row goes to the end.
LEMMA Renewed ==
    ASSUME Listed, NEW s \in Row, states' = Latest(s), Entry(s.key) = {} => Len(states) < MaxKeys
    PROVE  /\ states' \in Seq(Row) /\ Len(states') <= MaxKeys /\ OneEach'
           /\ Table' = {t \in Table : t.key # s.key} \cup {s}
           /\ \A i, j \in DOMAIN states' : i < j =>
                 /\ states'[i].key # s.key
                 /\ \/ states'[j] = s
                    \/ \E a, b \in DOMAIN states : a < b /\ states[a] = states'[i] /\ states[b] = states'[j]
<1> DEFINE k == s.key
           w == Without(k)
<1>0. k \in Keys /\ states' = Append(w, s) /\ Len(states) \in Nat /\ MaxKeys \in Nat
  BY AuthenticationAssumption DEF Row, Latest, Listed
<1>1. /\ w \in Seq(Row)
      /\ Len(w) = IF Entry(k) = {} THEN Len(states) ELSE Len(states) - 1
      /\ \A i \in DOMAIN w : w[i].key # k
      /\ \A i, j \in DOMAIN w : i < j => \E a, b \in DOMAIN states : a < b /\ states[a] = w[i] /\ states[b] = w[j]
      /\ {w[i] : i \in DOMAIN w} = {t \in Table : t.key # k}
  BY <1>0, Removed
<1>2. Len(states) <= MaxKeys /\ OneEach
  BY DEF Listed
<1> HIDE DEF w
<1>3. /\ states' \in Seq(Row) /\ Len(states') = Len(w) + 1 /\ DOMAIN states' = 1..Len(w) + 1
      /\ DOMAIN w = 1..Len(w) /\ Len(w) \in Nat
      /\ states'[Len(w) + 1] = s /\ \A i \in 1..Len(w) : states'[i] = w[i]
  BY <1>0, <1>1
<1>4. Len(states') <= MaxKeys
  BY <1>0, <1>1, <1>2, <1>3
<1>5. ASSUME NEW i \in DOMAIN states', NEW j \in DOMAIN states', i < j
      PROVE  /\ states'[i].key # k
             /\ \/ states'[j] = s
                \/ \E a, b \in DOMAIN states : a < b /\ states[a] = states'[i] /\ states[b] = states'[j]
  <2>1. i \in DOMAIN w /\ states'[i] = w[i]
    BY <1>3, <1>5
  <2>2. CASE j = Len(w) + 1
    BY <1>1, <1>3, <2>1, <2>2
  <2>3. CASE j # Len(w) + 1
    <3>1. j \in DOMAIN w /\ states'[j] = w[j]
      BY <1>3, <2>3
    <3> QED BY <1>1, <1>5, <2>1, <3>1
  <2> QED BY <2>2, <2>3
<1>6. OneEach'
  <2>1. ASSUME NEW i \in DOMAIN states', NEW j \in DOMAIN states', i < j PROVE states'[i].key # states'[j].key
    <3>1. CASE states'[j] = s
      BY <1>5, <2>1, <3>1
    <3>2. CASE \E a, b \in DOMAIN states : a < b /\ states[a] = states'[i] /\ states[b] = states'[j]
      <4>1. PICK a \in DOMAIN states, b \in DOMAIN states :
              a < b /\ states[a] = states'[i] /\ states[b] = states'[j]
        BY <3>2
      <4>2. a # b
        BY <1>0, <4>1 DEF Listed
      <4> QED BY <1>2, <4>1, <4>2 DEF OneEach
    <3> QED BY <1>5, <2>1, <3>1, <3>2
  <2>2. \A i, j \in DOMAIN states' : i < j \/ j < i \/ i = j
    BY <1>3
  <2> QED BY <2>1, <2>2 DEF OneEach
<1>7. Table' = {t \in Table : t.key # k} \cup {s}
  <2>1. Table' = {states'[i] : i \in DOMAIN states'}
    BY DEF Table
  <2>2. {states'[i] : i \in DOMAIN states'} = {w[i] : i \in DOMAIN w} \cup {s}
    BY <1>3
  <2> QED BY <1>1, <2>1, <2>2
<1> QED BY <1>3, <1>4, <1>5, <1>6, <1>7

\* A key is forgotten.
LEMMA Popped ==
    ASSUME Listed, NEW k \in Keys, states' = Without(k)
    PROVE  /\ states' \in Seq(Row) /\ Len(states') <= MaxKeys /\ OneEach'
           /\ Table' = {t \in Table : t.key # k}
           /\ \A i, j \in DOMAIN states' : i < j =>
                 \E a, b \in DOMAIN states : a < b /\ states[a] = states'[i] /\ states[b] = states'[j]
<1>0. Len(states) \in Nat /\ MaxKeys \in Nat /\ Len(states) <= MaxKeys /\ OneEach /\ DOMAIN states = 1..Len(states)
  BY AuthenticationAssumption DEF Listed
<1>1. /\ states' \in Seq(Row)
      /\ Len(states') = IF Entry(k) = {} THEN Len(states) ELSE Len(states) - 1
      /\ \A i, j \in DOMAIN states' : i < j =>
            \E a, b \in DOMAIN states : a < b /\ states[a] = states'[i] /\ states[b] = states'[j]
      /\ {states'[i] : i \in DOMAIN states'} = {t \in Table : t.key # k}
  BY Removed
<1>2. OneEach'
  <2>1. ASSUME NEW i \in DOMAIN states', NEW j \in DOMAIN states', i < j PROVE states'[i].key # states'[j].key
    <3>1. PICK a \in DOMAIN states, b \in DOMAIN states :
            a < b /\ states[a] = states'[i] /\ states[b] = states'[j]
      BY <1>1, <2>1
    <3>2. a # b
      BY <1>0, <3>1
    <3> QED BY <1>0, <3>1, <3>2 DEF OneEach
  <2>2. \A i, j \in DOMAIN states' : i < j \/ j < i \/ i = j
    BY <1>1
  <2> QED BY <2>1, <2>2 DEF OneEach
<1>3. Table' = {t \in Table : t.key # k}
  <2>1. Table' = {states'[i] : i \in DOMAIN states'}
    BY DEF Table
  <2> QED BY <1>1, <2>1
<1>4. Len(states') <= MaxKeys
  <2>1. Len(states') = Len(states) \/ Len(states') = Len(states) - 1
    BY <1>1
  <2>2. Len(states) - 1 <= MaxKeys /\ Len(states) <= MaxKeys
    BY <1>0
  <2> QED BY <2>1, <2>2
<1> QED BY <1>1, <1>2, <1>3, <1>4

\* The least recently used key makes room for a new one.
LEMMA Evicted ==
    ASSUME Listed, NEW s \in Row, states # <<>>, states' = Append(Tail(states), s), Entry(s.key) = {}
    PROVE  /\ states' \in Seq(Row) /\ Len(states') <= MaxKeys /\ OneEach'
           /\ Table' = {t \in Table : t.key # states[1].key} \cup {s}
           /\ \A i, j \in DOMAIN states' : i < j =>
                 /\ states'[i].key # s.key
                 /\ \/ states'[j] = s
                    \/ \E a, b \in DOMAIN states : a < b /\ states[a] = states'[i] /\ states[b] = states'[j]
<1>0. /\ states \in Seq(Row) /\ Len(states) \in Nat \ {0} /\ DOMAIN states = 1..Len(states)
      /\ MaxKeys \in Nat /\ Len(states) <= MaxKeys /\ OneEach
  BY AuthenticationAssumption DEF Listed
<1>1. /\ Tail(states) \in Seq(Row) /\ Len(Tail(states)) = Len(states) - 1
      /\ \A i \in 1..Len(states) - 1 : Tail(states)[i] = states[i + 1]
  BY <1>0
<1>2. /\ states' \in Seq(Row) /\ Len(states') = Len(states) /\ DOMAIN states' = 1..Len(states)
      /\ states'[Len(states)] = s /\ \A i \in 1..Len(states) - 1 : states'[i] = states[i + 1]
  BY <1>0, <1>1
<1>n. \A a \in DOMAIN states : states[a].key # s.key
  BY DEF Entry
<1>3. ASSUME NEW i \in DOMAIN states', NEW j \in DOMAIN states', i < j
      PROVE  /\ states'[i].key # s.key
             /\ \/ states'[j] = s
                \/ \E a, b \in DOMAIN states : a < b /\ states[a] = states'[i] /\ states[b] = states'[j]
  <2>1. i \in 1..Len(states) - 1 /\ i + 1 \in DOMAIN states
    BY <1>0, <1>2, <1>3
  <2>2. CASE j = Len(states)
    BY <1>2, <1>n, <2>1, <2>2
  <2>3. CASE j # Len(states)
    <3>1. j \in 1..Len(states) - 1 /\ j + 1 \in DOMAIN states /\ i + 1 < j + 1
      BY <1>0, <1>2, <1>3, <2>1, <2>3
    <3> QED BY <1>2, <1>n, <2>1, <3>1
  <2> QED BY <2>2, <2>3
<1>4. OneEach'
  <2>1. ASSUME NEW i \in DOMAIN states', NEW j \in DOMAIN states', i < j PROVE states'[i].key # states'[j].key
    <3>1. CASE states'[j] = s
      BY <1>3, <2>1, <3>1
    <3>2. CASE \E a, b \in DOMAIN states : a < b /\ states[a] = states'[i] /\ states[b] = states'[j]
      <4>1. PICK a \in DOMAIN states, b \in DOMAIN states :
              a < b /\ states[a] = states'[i] /\ states[b] = states'[j]
        BY <3>2
      <4>2. a # b
        BY <1>0, <4>1
      <4> QED BY <1>0, <4>1, <4>2 DEF OneEach
    <3> QED BY <1>3, <2>1, <3>1, <3>2
  <2>2. \A i, j \in DOMAIN states' : i < j \/ j < i \/ i = j
    BY <1>2
  <2> QED BY <2>1, <2>2 DEF OneEach
<1>5. Table' = {t \in Table : t.key # states[1].key} \cup {s}
  <2>1. ASSUME NEW i \in DOMAIN states' PROVE states'[i] = s \/ (states'[i] \in Table /\ states'[i].key # states[1].key)
    <3>1. CASE i = Len(states)
      BY <1>2, <3>1
    <3>2. CASE i # Len(states)
      <4>1. i \in 1..Len(states) - 1 /\ i + 1 \in DOMAIN states /\ i + 1 # 1 /\ 1 \in DOMAIN states
        BY <1>0, <1>2, <3>2
      <4> QED BY <1>0, <1>2, <4>1 DEF Table, OneEach
    <3> QED BY <3>1, <3>2
  <2>2. ASSUME NEW a \in DOMAIN states, states[a].key # states[1].key PROVE \E i \in DOMAIN states' : states'[i] = states[a]
    <3>1. a - 1 \in 1..Len(states) - 1 /\ a - 1 + 1 = a
      BY <1>0, <2>2
    <3>2. a - 1 \in DOMAIN states' /\ states'[a - 1] = states[a]
      BY <1>0, <1>2, <3>1
    <3> QED BY <3>2
  <2>3. \E i \in DOMAIN states' : states'[i] = s
    BY <1>0, <1>2
  <2>4. Table' = {states'[i] : i \in DOMAIN states'} /\ \A t \in Table : \E a \in DOMAIN states : t = states[a]
    BY DEF Table
  <2>5. Table' \subseteq {t \in Table : t.key # states[1].key} \cup {s}
    BY <2>1, <2>4
  <2>6. {t \in Table : t.key # states[1].key} \cup {s} \subseteq Table'
    BY <2>2, <2>3, <2>4
  <2> QED BY <2>5, <2>6
<1> QED BY <1>0, <1>2, <1>3, <1>4, <1>5
-----------------------------------------------------------------------------
(* The limiter.                                                              *)

LEMMA EntryTable == \A o : Entry(o) = {} <=> \A s \in Table : s.key # o
BY DEF Entry, Table

LEMMA TableRows == Listed => \A s \in Table : s \in Row /\ s.key \in Keys /\ s.until \in Nat /\ s.failures \in Nat
<1>1. Listed => \A i \in DOMAIN states : states[i] \in Row
  BY DEF Listed
<1>2. \A s \in Row : s.key \in Keys /\ s.until \in Nat /\ s.failures \in Nat
  BY AuthenticationAssumption DEF Row
<1> QED BY <1>1, <1>2 DEF Table

\* Another key has been used.
LEMMA UseCounts ==
    ASSUME Listed, NEW k \in Keys, Used(k)
    PROVE  /\ others' \in [Keys -> SUBSET Keys] /\ \A o \in Keys : IsFiniteSet(others'[o])
           /\ others'[k] = {}
           /\ \A o \in Keys \ {k} : /\ others'[o] = others[o] \cup {k}
                                    /\ Cardinality(others[o]) <= Cardinality(others'[o])
<1>1. /\ others \in [Keys -> SUBSET Keys] /\ \A o \in Keys : IsFiniteSet(others[o])
      /\ others' = [o \in Keys |-> IF o = k THEN {} ELSE others[o] \cup {k}]
  BY DEF Listed, Used
<1>2. ASSUME NEW o \in Keys \ {k}
      PROVE  IsFiniteSet(others[o] \cup {k}) /\ Cardinality(others[o]) <= Cardinality(others[o] \cup {k})
  <2>1. IsFiniteSet(others[o] \cup {k})
    BY <1>1, FS_AddElement
  <2> QED BY <2>1, FS_Subset
<1>3. IsFiniteSet({})
  BY FS_EmptySet
<1> QED BY <1>1, <1>2, <1>3

\* What holds when the table keeps its order, with key k at the end or gone.
LEMMA OrderKept ==
    ASSUME Listed, InOrder, NEW k \in Keys,
           \A o \in Keys \ {k} : others[o] \subseteq others'[o],
           \A i, j \in DOMAIN states' : i < j =>
               /\ states'[i] \in Row /\ states'[i].key # k
               /\ \/ states'[j].key = k /\ k \in others'[states'[i].key]
                  \/ \E a, b \in DOMAIN states : a < b /\ states[a] = states'[i] /\ states[b] = states'[j]
    PROVE  InOrder'
<1>1. ASSUME NEW i \in DOMAIN states', NEW j \in DOMAIN states', i < j
      PROVE  states'[j].key \in others'[states'[i].key]
  <2>1. states'[i].key \in Keys \ {k}
    BY <1>1 DEF Row
  <2>2. CASE \E a, b \in DOMAIN states : a < b /\ states[a] = states'[i] /\ states[b] = states'[j]
    BY <2>1, <2>2 DEF InOrder
  <2> QED BY <1>1, <2>2
<1> QED BY <1>1 DEF InOrder

\* A key is used and its row is the last, whether or not another had to make room.
LEMMA Touched ==
    ASSUME Listed, InOrder, NEW s \in Row, Used(s.key),
           \/ states' = Latest(s) /\ (Entry(s.key) = {} => Len(states) < MaxKeys)
           \/ states # <<>> /\ states' = Append(Tail(states), s) /\ Entry(s.key) = {},
           promised' \in [Keys -> Nat], guesses' \in [Keys -> Nat]
    PROVE  Listed' /\ InOrder'
<1> DEFINE k == s.key
<1>1. k \in Keys
  BY DEF Row
<1>2. /\ states' \in Seq(Row) /\ Len(states') <= MaxKeys /\ OneEach'
      /\ \A i, j \in DOMAIN states' : i < j =>
            /\ states'[i].key # k
            /\ \/ states'[j] = s
               \/ \E a, b \in DOMAIN states : a < b /\ states[a] = states'[i] /\ states[b] = states'[j]
  BY Renewed, Evicted
<1> HIDE DEF k
<1>3. /\ others' \in [Keys -> SUBSET Keys] /\ \A o \in Keys : IsFiniteSet(others'[o])
      /\ \A o \in Keys \ {k} : others'[o] = others[o] \cup {k}
  BY <1>1, UseCounts DEF k
<1>4. Listed'
  BY <1>2, <1>3 DEF Listed
<1>5. \A r \in Row : r.key # k => k \in others'[r.key]
  BY <1>3 DEF Row
<1>6. ASSUME NEW i \in DOMAIN states', NEW j \in DOMAIN states', i < j
      PROVE  /\ states'[i] \in Row /\ states'[i].key # k
             /\ \/ states'[j].key = k /\ k \in others'[states'[i].key]
                \/ \E a, b \in DOMAIN states : a < b /\ states[a] = states'[i] /\ states[b] = states'[j]
  <2>1. states'[i] \in Row
    BY <1>2
  <2> QED BY <1>2, <1>5, <1>6, <2>1 DEF k
<1>7. \A o \in Keys \ {k} : others[o] \subseteq others'[o]
  BY <1>3
<1> QED BY <1>1, <1>4, <1>6, <1>7, OrderKept

\* A key that had to wait, and has been passed by few others, had so before.
LEMMA StillWaits ==
    ASSUME Listed, NEW k \in Keys, Used(k), NEW o \in Keys \ {k}, Cardinality(others'[o]) < MaxKeys
    PROVE  Cardinality(others[o]) < MaxKeys
<1>1. /\ IsFiniteSet(others[o]) /\ IsFiniteSet(others'[o]) /\ MaxKeys \in Nat
      /\ Cardinality(others[o]) <= Cardinality(others'[o])
  BY UseCounts, AuthenticationAssumption DEF Listed
<1>2. Cardinality(others[o]) \in Nat /\ Cardinality(others'[o]) \in Nat
  BY <1>1, FS_CardinalityType
<1> QED BY <1>1, <1>2

\* retry_after(): a key goes on, and has no lock left.
LEMMA PassKeeps ==
    ASSUME Limiting, now \in Nat, NEW k \in Keys, Pass(k), now' = now
    PROVE  /\ Limiting' /\ guesses' = guesses
           /\ Table' \subseteq Table /\ \A s \in Table' : s.key = k => s.until = 0
           /\ \A s \in Table : s \in Table' \/ (s.key = k /\ s.until # 0)
<1>1. /\ Listed /\ InOrder /\ Told /\ Present /\ ~Locked(k)
      /\ promised' = [promised EXCEPT ![k] = 0] /\ guesses' = guesses
      /\ promised \in [Keys -> Nat] /\ guesses \in [Keys -> Nat]
  BY DEF Limiting, Pass, Listed
<1>2. promised' \in [Keys -> Nat] /\ promised'[k] = 0 /\ \A o \in Keys \ {k} : promised'[o] = promised[o]
  BY <1>1
<1>3. \A o \in Keys : (Entry(o) = {} <=> \A s \in Table : s.key # o) /\ (Entry(o)' = {} <=> \A s \in Table' : s.key # o)
  <2>1. \A o : Entry(o)' = {} <=> \A s \in Table' : s.key # o
    BY DEF Entry, Table
  <2> QED BY <2>1, EntryTable
<1>4. CASE Entry(k) = {} /\ UNCHANGED <<states, others>>
  <2>0. Table' = Table
    BY <1>4 DEF Table
  <2>1. Table' = Table /\ \A s \in Table : s.key # k /\ s.key \in Keys
    BY <1>1, <1>3, <1>4, <2>0, TableRows
  <2>2. Listed' /\ InOrder'
    BY <1>1, <1>2, <1>4 DEF Listed, OneEach, InOrder
  <2>3. Told' /\ Present'
    BY <1>1, <1>2, <1>4, <2>1 DEF Told, Present, Entry
  <2> QED BY <1>1, <2>1, <2>2, <2>3 DEF Limiting
<1>5. CASE Entry(k) # {} /\ State(k).until # 0 /\ states' = Without(k) /\ Used(k)
  <2>1. /\ states' \in Seq(Row) /\ Len(states') <= MaxKeys /\ OneEach'
        /\ Table' = {t \in Table : t.key # k}
        /\ \A i, j \in DOMAIN states' : i < j =>
              \E a, b \in DOMAIN states : a < b /\ states[a] = states'[i] /\ states[b] = states'[j]
    BY <1>1, <1>5, Popped
  <2>2. /\ others' \in [Keys -> SUBSET Keys] /\ \A o \in Keys : IsFiniteSet(others'[o])
        /\ \A o \in Keys \ {k} : others'[o] = others[o] \cup {k} /\ Cardinality(others[o]) <= Cardinality(others'[o])
    BY <1>1, <1>5, UseCounts
  <2>3. Listed'
    BY <1>1, <1>2, <2>1, <2>2 DEF Listed
  <2>4. \A i \in DOMAIN states' : states'[i] \in Row /\ states'[i].key # k
    BY <2>1 DEF Table
  <2>5. InOrder'
    BY <1>1, <2>1, <2>2, <2>4, OrderKept
  <2>6. \A s \in Table : s.key \in Keys /\ (s.key = k => s.until # 0)
    BY <1>1, <1>5, Lookup DEF Row
  <2>7. Told'
    BY <1>1, <1>2, <2>1, <2>6 DEF Told
  <2>8. ASSUME NEW o \in Keys, promised'[o] > now', Cardinality(others'[o]) < MaxKeys PROVE Entry(o)' # {}
    <3>1. o # k
      BY <1>2, <2>8
    <3>2. promised[o] > now /\ Cardinality(others[o]) < MaxKeys
      BY <1>1, <1>2, <1>5, <2>8, <3>1, StillWaits
    <3> QED BY <1>1, <1>3, <2>1, <3>1, <3>2 DEF Present
  <2> QED BY <1>1, <2>1, <2>3, <2>5, <2>6, <2>7, <2>8 DEF Limiting, Present
<1>6. CASE Entry(k) # {} /\ State(k).until = 0 /\ states' = Latest(State(k)) /\ Used(k)
  <2> DEFINE s == State(k)
  <2>0. s \in Row /\ s \in Table /\ s.key = k /\ \A t \in Table : t \in Row /\ (t.key = k => t = s)
    BY <1>1, <1>6, Lookup
  <2>u. s.until = 0
    BY <1>6
  <2> HIDE DEF s
  <2>1. states' = Latest(s) /\ Entry(s.key) # {} /\ Used(s.key)
    BY <1>6, <2>0 DEF s
  <2>t. Table' = Table
    <3>1. Table' = {t \in Table : t.key # s.key} \cup {s}
      BY <1>1, <2>0, <2>1, Renewed
    <3> QED BY <2>0, <3>1
  <2>3. Listed' /\ InOrder'
    BY <1>1, <1>2, <2>0, <2>1, Touched
  <2>7. Told'
    BY <1>1, <1>2, <2>0, <2>t, <2>u, TableRows DEF Told
  <2>8. ASSUME NEW o \in Keys, promised'[o] > now', Cardinality(others'[o]) < MaxKeys PROVE Entry(o)' # {}
    <3>1. CASE o = k
      BY <1>3, <2>0, <2>t, <3>1
    <3>2. CASE o # k
      <4>2. promised[o] > now /\ Cardinality(others[o]) < MaxKeys
        BY <1>1, <1>2, <1>6, <2>8, <3>2, StillWaits
      <4> QED BY <1>1, <1>3, <2>t, <4>2 DEF Present
    <3> QED BY <3>1, <3>2
  <2> QED BY <1>1, <2>0, <2>t, <2>u, <2>3, <2>7, <2>8 DEF Limiting, Present
<1> QED BY <1>4, <1>5, <1>6 DEF Pass

\* retry_after(): a key is told to wait.
LEMMA WaitKeeps ==
    ASSUME Limiting, now \in Nat, NEW k \in Keys, Wait(k), now' = now
    PROVE  Limiting' /\ Table' = Table /\ guesses' = guesses
<1> DEFINE s == State(k)
<1>1. /\ Listed /\ InOrder /\ Told /\ Present /\ Entry(k) # {} /\ Used(k)
      /\ states' = Latest(s) /\ promised' = promised /\ guesses' = guesses
      /\ promised \in [Keys -> Nat] /\ guesses \in [Keys -> Nat]
  BY DEF Limiting, Wait, Locked, Listed
<1>2. s \in Row /\ s \in Table /\ s.key = k /\ \A t \in Table : t \in Row /\ (t.key = k => t = s)
  BY <1>1, Lookup
<1> HIDE DEF s
<1>3. Table' = Table
  <2>1. Table' = {t \in Table : t.key # s.key} \cup {s}
    BY <1>1, <1>2, Renewed
  <2> QED BY <1>2, <2>1
<1>4. Listed' /\ InOrder'
  BY <1>1, <1>2, Touched
<1>5. Told'
  BY <1>1, <1>3 DEF Told
<1>6. ASSUME NEW o \in Keys, promised'[o] > now', Cardinality(others'[o]) < MaxKeys PROVE Entry(o)' # {}
  <2>1. \A p : (Entry(p) = {} <=> \A t \in Table : t.key # p) /\ (Entry(p)' = {} <=> \A t \in Table' : t.key # p)
    BY DEF Entry, Table
  <2>2. CASE o = k
    BY <1>2, <1>3, <2>1, <2>2
  <2>3. CASE o # k
    <3>1. promised[o] > now /\ Cardinality(others[o]) < MaxKeys
      BY <1>1, <1>6, <2>3, StillWaits
    <3> QED BY <1>1, <1>3, <2>1, <3>1 DEF Present
  <2> QED BY <2>2, <2>3
<1> QED BY <1>1, <1>3, <1>4, <1>5, <1>6 DEF Limiting, Present

\* reset(): a key is forgotten.
LEMMA ForgetKeeps ==
    ASSUME Limiting, now \in Nat, NEW k \in Keys, Forget(k), now' = now
    PROVE  /\ Limiting' /\ Table' = {s \in Table : s.key # k}
           /\ guesses'[k] = 0 /\ \A o \in Keys \ {k} : guesses'[o] = guesses[o]
<1>1. /\ Listed /\ InOrder /\ Told /\ Present /\ states' = Without(k) /\ others' = others
      /\ promised' = [promised EXCEPT ![k] = 0] /\ guesses' = [guesses EXCEPT ![k] = 0]
      /\ promised \in [Keys -> Nat] /\ guesses \in [Keys -> Nat]
  BY DEF Limiting, Forget, Listed
<1>2. /\ promised' \in [Keys -> Nat] /\ promised'[k] = 0 /\ \A o \in Keys \ {k} : promised'[o] = promised[o]
      /\ guesses' \in [Keys -> Nat] /\ guesses'[k] = 0 /\ \A o \in Keys \ {k} : guesses'[o] = guesses[o]
  BY <1>1
<1>3. /\ states' \in Seq(Row) /\ Len(states') <= MaxKeys /\ OneEach'
      /\ Table' = {t \in Table : t.key # k}
      /\ \A i, j \in DOMAIN states' : i < j =>
            \E a, b \in DOMAIN states : a < b /\ states[a] = states'[i] /\ states[b] = states'[j]
  BY <1>1, Popped
<1>4. Listed' /\ InOrder'
  BY <1>1, <1>2, <1>3 DEF Listed, InOrder
<1>5. Told'
  BY <1>1, <1>2, <1>3, TableRows DEF Told
<1>6. Present'
  <2>1. \A p : (Entry(p) = {} <=> \A t \in Table : t.key # p) /\ (Entry(p)' = {} <=> \A t \in Table' : t.key # p)
    BY DEF Entry, Table
  <2> QED BY <1>1, <1>2, <1>3, <2>1 DEF Present
<1> QED BY <1>2, <1>3, <1>4, <1>5, <1>6 DEF Limiting

\* The keys used since the first of a full table was are as many as the table holds.
LEMMA FullTable ==
    ASSUME Listed, InOrder, states # <<>>, NEW k \in Keys, Entry(k) = {}, Used(k), Len(states) >= MaxKeys
    PROVE  states[1].key \in Keys \ {k} /\ ~(Cardinality(others'[states[1].key]) < MaxKeys)
<1> DEFINE v == states[1].key
           f == [i \in 1..Len(states) |-> IF i = 1 THEN k ELSE states[i].key]
<1>1. /\ states \in Seq(Row) /\ Len(states) \in Nat \ {0} /\ DOMAIN states = 1..Len(states) /\ OneEach
      /\ MaxKeys \in Nat
  BY AuthenticationAssumption DEF Listed
<1>2. \A i \in 1..Len(states) : states[i].key \in Keys \ {k}
  <2>1. \A i \in 1..Len(states) : states[i] \in Row /\ states[i].key # k
    BY <1>1 DEF Entry
  <2> QED BY <2>1 DEF Row
<1>3. v \in Keys \ {k} /\ others'[v] = others[v] \cup {k} /\ IsFiniteSet(others'[v])
  BY <1>1, <1>2, UseCounts
<1>4. f \in Injection(1..Len(states), others'[v])
  <2>1. \A i \in 1..Len(states) : f[i] \in others'[v]
    BY <1>1, <1>3 DEF InOrder
  <2>2. \A i, j \in 1..Len(states) : f[i] = f[j] => i = j
    BY <1>1, <1>2 DEF OneEach
  <2> QED BY <2>1, <2>2 DEF Injection, IsInjective
<1>5. IsFiniteSet(1..Len(states)) /\ Cardinality(1..Len(states)) = Len(states)
  BY <1>1, FS_Interval
<1>6. Len(states) <= Cardinality(others'[v]) /\ Cardinality(others'[v]) \in Nat
  BY <1>3, <1>4, <1>5, FS_Injection, FS_CardinalityType
<1> QED BY <1>1, <1>3, <1>6

\* record_failure(): the row of the key is the last, and locked when it has enough.
LEMMA FailureKeeps ==
    ASSUME Limiting, Counting, now \in Nat, NEW k \in Keys, Failure(k), now' = now
    PROVE  /\ Limiting'
           /\ \A s \in Table' : s.key # k => s \in Table /\ guesses'[s.key] = guesses[s.key]
           /\ \A s \in Table' : s.key = k =>
                 /\ s.failures < MaxAttempts
                 /\ \/ guesses'[k] = 0
                    \/ /\ guesses'[k] = guesses[k] + 1
                       /\ \/ Entry(k) = {} /\ s.failures = 1 /\ s.until = 0
                          \/ \E t \in Table : t.key = k /\ s.failures = t.failures + 1 /\ s.until = t.until
           /\ \A o \in Keys : Entry(o)' = {} => guesses'[o] = 0 \/ (Entry(o) = {} /\ guesses'[o] = guesses[o])
<1> DEFINE new    == Entry(k) = {}
           before == IF new THEN [key |-> k, failures |-> 0, until |-> 0] ELSE State(k)
           locks  == Enough(before.failures + 1)
           after  == IF locks THEN [before EXCEPT !.failures = 0, !.until = now + LockTicks]
                     ELSE [before EXCEPT !.failures = @ + 1]
           full   == new /\ Len(states) >= MaxKeys
           gone   == {o \in Keys : new /\ Len(states) >= MaxKeys /\ o = states[1].key}
<1>1. /\ Listed /\ InOrder /\ Told /\ Present
      /\ promised \in [Keys -> Nat] /\ guesses \in [Keys -> Nat]
      /\ states \in Seq(Row) /\ DOMAIN states = 1..Len(states) /\ Len(states) \in Nat
      /\ MaxKeys \in Nat \ {0} /\ MaxAttempts \in Nat \ {0} /\ LockTicks \in Nat \ {0}
  BY AuthenticationAssumption DEF Limiting, Listed
<1>2. /\ states' = IF gone # {} THEN Append(Tail(states), after) ELSE Latest(after)
      /\ promised' = [o \in Keys |-> IF o # k THEN promised[o] ELSE IF locks THEN after.until
                                     ELSE IF new THEN 0 ELSE promised[k]]
      /\ guesses' = [o \in Keys |-> IF o = k THEN (IF locks THEN 0 ELSE guesses[k] + 1)
                                    ELSE IF o \in gone THEN 0 ELSE guesses[o]]
      /\ Used(k)
  BY DEF Failure
<1>3. ~new => State(k) \in Table /\ State(k) \in Row /\ State(k).key = k
  BY <1>1, Lookup
<1>4. /\ before \in Row /\ before.key = k /\ before.failures < MaxAttempts
      /\ new => before.failures = 0 /\ before.until = 0
      /\ ~new => before \in Table /\ promised[k] = before.until
  <2>1. CASE new
    <3>1. before = [key |-> k, failures |-> 0, until |-> 0]
      BY <2>1
    <3> HIDE DEF before
    <3> QED BY <1>1, <2>1, <3>1 DEF Row
  <2>2. CASE ~new
    <3>1. before = State(k)
      BY <2>2
    <3> HIDE DEF before, new
    <3> QED BY <1>1, <1>3, <2>2, <3>1 DEF Told, Counting
  <2> QED BY <2>1, <2>2
<1> HIDE DEF before
<1>5. /\ after \in Row /\ after.key = k /\ after.failures < MaxAttempts
      /\ locks => after.until = now + LockTicks
      /\ ~locks => after.failures = before.failures + 1 /\ after.until = before.until
  <2>1. before = [key |-> before.key, failures |-> before.failures, until |-> before.until]
        /\ before.key \in Keys /\ before.failures \in 0..MaxAttempts /\ before.until \in Nat
    BY <1>4 DEF Row
  <2>2. CASE locks
    <3>1. after = [key |-> k, failures |-> 0, until |-> now + LockTicks]
      BY <1>4, <2>1, <2>2
    <3> HIDE DEF after, locks
    <3> QED BY <1>1, <2>2, <3>1 DEF Row
  <2>3. CASE ~locks
    <3>1. after = [key |-> k, failures |-> before.failures + 1, until |-> before.until]
      BY <1>4, <2>1, <2>3
    <3>2. before.failures + 1 < MaxAttempts
      BY <1>1, <2>1, <2>3 DEF Enough
    <3> HIDE DEF after, locks
    <3> QED BY <1>1, <2>1, <2>3, <3>1, <3>2 DEF Row
  <2> QED BY <2>2, <2>3
<1> HIDE DEF after, locks
<1>6. /\ promised' \in [Keys -> Nat] /\ guesses' \in [Keys -> Nat]
      /\ promised'[k] = after.until /\ \A o \in Keys \ {k} : promised'[o] = promised[o]
      /\ guesses'[k] = (IF locks THEN 0 ELSE guesses[k] + 1)
      /\ \A o \in Keys \ {k} : guesses'[o] = IF o \in gone THEN 0 ELSE guesses[o]
  <2>1. after.until \in Nat
    BY <1>5 DEF Row
  <2> HIDE DEF gone
  <2>2. promised'[k] = after.until
    BY <1>2, <1>4, <1>5
  <2>3. promised' \in [Keys -> Nat] /\ \A o \in Keys \ {k} : promised'[o] = promised[o]
    BY <1>1, <1>2, <2>1
  <2> QED BY <1>1, <1>2, <2>2, <2>3
<1>7. \A o : (Entry(o) = {} <=> \A s \in Table : s.key # o) /\ (Entry(o)' = {} <=> \A s \in Table' : s.key # o)
  BY DEF Entry, Table
<1>8. /\ gone # {} <=> full
      /\ full => gone = {states[1].key} /\ states # <<>> /\ states[1].key \in Keys \ {k}
  <2>1. full => states # <<>> /\ states[1] \in Row /\ states[1].key # k
    <3>1. full => 1 \in DOMAIN states
      BY <1>1
    <3> QED BY <1>1, <3>1 DEF Entry
  <2> QED BY <2>1 DEF Row
<1>9. /\ Listed' /\ InOrder'
      /\ Table' = {t \in Table : t.key # k /\ t.key \notin gone} \cup {after}
  <2>1. CASE full
    <3>1. states' = Append(Tail(states), after) /\ states # <<>> /\ Entry(after.key) = {}
      BY <1>2, <1>5, <1>8, <2>1
    <3>2. Table' = {t \in Table : t.key # states[1].key} \cup {after}
      BY <1>1, <1>5, <3>1, Evicted
    <3>3. \A t \in Table : t.key # k
      BY <1>7, <2>1
    <3>4. Listed' /\ InOrder'
      BY <1>1, <1>2, <1>5, <1>6, <3>1, Touched
    <3> HIDE DEF gone
    <3> QED BY <1>8, <2>1, <3>2, <3>3, <3>4
  <2>2. CASE ~full
    <3>1. gone = {} /\ states' = Latest(after) /\ (Entry(after.key) = {} => Len(states) < MaxKeys)
      BY <1>1, <1>2, <1>5, <1>8, <2>2
    <3> HIDE DEF gone, full, new
    <3>2. Table' = {t \in Table : t.key # k} \cup {after}
      BY <1>1, <1>5, <3>1, Renewed
    <3>4. Listed' /\ InOrder'
      BY <1>1, <1>2, <1>5, <1>6, <3>1, Touched
    <3> QED BY <3>1, <3>2, <3>4
  <2> QED BY <2>1, <2>2
<1>10. Told'
  BY <1>1, <1>5, <1>6, <1>9, TableRows DEF Told
<1>11. ASSUME NEW o \in Keys, promised'[o] > now', Cardinality(others'[o]) < MaxKeys PROVE Entry(o)' # {}
  <2>1. CASE o = k
    BY <1>5, <1>7, <1>9, <2>1
  <2>2. CASE o # k
    <3>1. o \notin gone
      BY <1>1, <1>2, <1>8, <1>11, FullTable
    <3>2. promised[o] > now /\ Cardinality(others[o]) < MaxKeys
      BY <1>1, <1>2, <1>6, <1>11, <2>2, StillWaits
    <3> HIDE DEF gone
    <3>3. Entry(o) # {}
      BY <1>1, <3>2 DEF Present
    <3>4. PICK s \in Table : s.key = o
      BY <1>7, <3>3
    <3>5. s \in Table'
      BY <1>9, <2>2, <3>1, <3>4
    <3> QED BY <1>7, <3>4, <3>5
  <2> QED BY <2>1, <2>2
<1>12. Limiting'
  BY <1>1, <1>9, <1>10, <1>11 DEF Limiting, Present
<1>13. \A s \in Table' : s.key # k => s \in Table /\ guesses'[s.key] = guesses[s.key]
  <2> HIDE DEF gone
  <2> QED BY <1>1, <1>5, <1>6, <1>9, TableRows
<1>14. ASSUME NEW s \in Table', s.key = k
       PROVE  /\ s.failures < MaxAttempts
              /\ \/ guesses'[k] = 0
                 \/ /\ guesses'[k] = guesses[k] + 1
                    /\ \/ Entry(k) = {} /\ s.failures = 1 /\ s.until = 0
                       \/ \E t \in Table : t.key = k /\ s.failures = t.failures + 1 /\ s.until = t.until
  <2>1. s = after
    BY <1>9, <1>14
  <2>2. CASE locks
    BY <1>5, <1>6, <2>1, <2>2
  <2>3. CASE ~locks
    BY <1>4, <1>5, <1>6, <2>1, <2>3
  <2> QED BY <2>2, <2>3
<1>15. ASSUME NEW o \in Keys, Entry(o)' = {}
       PROVE  guesses'[o] = 0 \/ (Entry(o) = {} /\ guesses'[o] = guesses[o])
  <2>1. o # k
    BY <1>5, <1>7, <1>9, <1>15
  <2> HIDE DEF gone
  <2>2. CASE o \in gone
    BY <1>6, <2>1, <2>2
  <2>3. CASE o \notin gone
    BY <1>6, <1>7, <1>9, <1>15, <2>1, <2>3
  <2> QED BY <2>2, <2>3
<1> QED BY <1>12, <1>13, <1>14, <1>15
-----------------------------------------------------------------------------
(* The requests.                                                             *)

LEMMA Pool == /\ Cardinality(Requests) \in Nat \ {0}
              /\ \A k : IsFiniteSet(Past(k)) /\ Cardinality(Past(k)) \in 0..Cardinality(Requests)
<1>1. Requests # {} /\ IsFiniteSet(Requests)
  BY AuthenticationAssumption
<1>2. ASSUME NEW k PROVE IsFiniteSet(Past(k)) /\ Cardinality(Past(k)) \in 0..Cardinality(Requests)
  <2>1. Past(k) \subseteq Requests
    BY DEF Past
  <2>2. IsFiniteSet(Past(k)) /\ Cardinality(Past(k)) <= Cardinality(Requests)
    BY <1>1, <2>1, FS_Subset
  <2> QED BY <1>1, <2>2, FS_CardinalityType
<1> QED BY <1>1, <1>2, FS_CardinalityType, FS_EmptySet

\* A request goes on: it leaves the logins that are past the check, or joins them.
LEMMA Moves ==
    ASSUME request \in [Requests -> Places], issued \in Nat, issued' \in Nat, issued' >= issued,
           NEW r \in Requests, NEW there \in Places', Goes(r, there)
    PROVE  /\ request' \in [Requests -> Places']
           /\ request'[r] = there /\ \A q \in Requests \ {r} : request'[q] = request[q]
           /\ \A k : there.at # "verify" \/ there.key # k => Past(k)' = Past(k) \ {r}
<1>1. request' = [request EXCEPT ![r] = there]
  BY DEF Goes
<1>2. Places \subseteq Places'
  BY DEF Places
<1>3. /\ request' \in [Requests -> Places']
      /\ request'[r] = there /\ \A q \in Requests \ {r} : request'[q] = request[q]
  BY <1>1, <1>2
<1>4. \A k : Past(k)' = {q \in Requests : request'[q].at = "verify" /\ request'[q].key = k}
  BY DEF Past
<1> QED BY <1>3, <1>4 DEF Past

\* Nothing is counted while the table has the same rows.
LEMMA CountStays ==
    ASSUME Listed, Counting, Table' = Table, guesses' = guesses, \A k : Past(k)' \subseteq Past(k)
    PROVE  Counting'
<1>1. \A k : Cardinality(Past(k)') <= Cardinality(Past(k)) /\ Cardinality(Past(k)') \in Nat
  <2>1. \A k : IsFiniteSet(Past(k)) /\ IsFiniteSet(Past(k)')
    BY Pool, FS_Subset
  <2> QED BY <2>1, FS_Subset, FS_CardinalityType
<1>2. \A o : Entry(o)' = {} => Entry(o) = {}
  BY DEF Entry, Table
<1>3. \A o \in Keys : guesses[o] \in Nat
  BY DEF Listed
<1>4. ASSUME NEW s \in Table
      PROVE  /\ s.failures < MaxAttempts
             /\ guesses[s.key] <= s.failures + Cardinality(Requests) - 1
             /\ s.until # 0 => guesses[s.key] + Cardinality(Past(s.key)') <= Cardinality(Requests) - 1
  <2>1. s.key \in Keys
    BY TableRows
  <2>2. s.until # 0 => guesses[s.key] + Cardinality(Past(s.key)) <= Cardinality(Requests) - 1
    BY DEF Counting
  <2>3. s.until # 0 => guesses[s.key] + Cardinality(Past(s.key)') <= Cardinality(Requests) - 1
    BY <1>1, <1>3, <2>1, <2>2, Pool
  <2> QED BY <2>3 DEF Counting
<1> QED BY <1>2, <1>4 DEF Counting

\* A login is past the check: its key has no lock left.
LEMMA CountChecked ==
    ASSUME Limiting, Counting, now \in Nat, now' = now, NEW k \in Keys, Pass(k),
           \A o \in Keys \ {k} : Past(o)' \subseteq Past(o)
    PROVE  Counting'
<1>0. Listed
  BY DEF Limiting
<1>1. /\ guesses' = guesses
      /\ Table' \subseteq Table /\ \A s \in Table' : s.key = k => s.until = 0
      /\ \A s \in Table : s \in Table' \/ (s.key = k /\ s.until # 0)
  BY PassKeeps
<1>2. /\ Cardinality(Requests) \in Nat \ {0}
      /\ \A o \in Keys : guesses[o] \in Nat /\ Cardinality(Past(o)) \in Nat
  BY <1>0, Pool DEF Listed
<1>3. ASSUME NEW s \in Table'
      PROVE  /\ s.failures < MaxAttempts
             /\ guesses'[s.key] <= s.failures + Cardinality(Requests) - 1
             /\ s.until # 0 => guesses'[s.key] + Cardinality(Past(s.key)') <= Cardinality(Requests) - 1
  <2>1. s \in Table /\ s.key \in Keys
    BY <1>0, <1>1, TableRows
  <2>2. CASE s.key = k
    BY <1>1, <2>1, <2>2 DEF Counting
  <2>3. CASE s.key # k
    <3>1. Cardinality(Past(s.key)') <= Cardinality(Past(s.key)) /\ Cardinality(Past(s.key)') \in Nat
      BY <2>1, <2>3, Pool, FS_Subset, FS_CardinalityType
    <3>2. s.until # 0 => guesses[s.key] + Cardinality(Past(s.key)) <= Cardinality(Requests) - 1
      BY <2>1 DEF Counting
    <3>3. s.until # 0 => guesses[s.key] + Cardinality(Past(s.key)') <= Cardinality(Requests) - 1
      BY <1>2, <2>1, <3>1, <3>2
    <3> QED BY <1>1, <2>1, <3>3 DEF Counting
  <2> QED BY <2>2, <2>3
<1>4. ASSUME NEW o \in Keys, Entry(o)' = {} PROVE guesses'[o] <= Cardinality(Requests) - 1
  <2>1. \A s \in Table' : s.key # o
    BY <1>4 DEF Entry, Table
  <2>2. CASE Entry(o) = {}
    BY <1>1, <2>2 DEF Counting
  <2>3. CASE Entry(o) # {}
    <3>1. PICK s \in Table : s.key = o
      BY <2>3, EntryTable
    <3>2. s.until # 0
      BY <1>1, <2>1, <3>1
    <3>3. guesses[o] + Cardinality(Past(o)) <= Cardinality(Requests) - 1
      BY <3>1, <3>2 DEF Counting
    <3> QED BY <1>1, <1>2, <3>3
  <2> QED BY <2>2, <2>3
<1> QED BY <1>3, <1>4 DEF Counting

\* A login that was past the check failed, and is counted.
LEMMA CountFailed ==
    ASSUME Limiting, Counting, now \in Nat, now' = now, NEW k \in Keys, Failure(k),
           NEW r \in Past(k), \A o : Past(o)' = Past(o) \ {r}
    PROVE  Counting'
<1> DEFINE N == Cardinality(Requests)
<1>0. Listed
  BY DEF Limiting
<1>1. /\ Limiting'
      /\ \A s \in Table' : s.key # k => s \in Table /\ guesses'[s.key] = guesses[s.key]
      /\ \A s \in Table' : s.key = k =>
            /\ s.failures < MaxAttempts
            /\ \/ guesses'[k] = 0
               \/ /\ guesses'[k] = guesses[k] + 1
                  /\ \/ Entry(k) = {} /\ s.failures = 1 /\ s.until = 0
                     \/ \E t \in Table : t.key = k /\ s.failures = t.failures + 1 /\ s.until = t.until
      /\ \A o \in Keys : Entry(o)' = {} => guesses'[o] = 0 \/ (Entry(o) = {} /\ guesses'[o] = guesses[o])
  BY FailureKeeps
<1>2. N \in Nat \ {0} /\ \A o \in Keys : guesses[o] \in Nat
  BY <1>0, Pool DEF Listed
<1>3. \A o : /\ Cardinality(Past(o)) \in 0..N /\ Cardinality(Past(o)') \in Nat
             /\ Cardinality(Past(o)') <= Cardinality(Past(o))
  <2>1. \A o : IsFiniteSet(Past(o)) /\ Past(o)' \subseteq Past(o) /\ Cardinality(Past(o)) \in 0..N
    BY Pool
  <2> QED BY <2>1, FS_Subset, FS_CardinalityType
<1>4. Cardinality(Past(k)') = Cardinality(Past(k)) - 1
  BY Pool, FS_RemoveElement
<1> HIDE DEF N
<1>5. ASSUME NEW s \in Table'
      PROVE  /\ s.failures < MaxAttempts
             /\ guesses'[s.key] <= s.failures + N - 1
             /\ s.until # 0 => guesses'[s.key] + Cardinality(Past(s.key)') <= N - 1
  <2>0. s.key \in Keys /\ s.failures \in Nat
    <3>1. Listed'
      BY <1>1 DEF Limiting
    <3>2. states' \in Seq(Row)
      BY <3>1 DEF Listed, Row
    <3>3. s \in Row
      BY <3>2 DEF Table
    <3> QED BY <3>3, AuthenticationAssumption DEF Row
  <2>1. CASE s.key # k
    <3>1. /\ s \in Table /\ guesses'[s.key] = guesses[s.key]
          /\ s.until # 0 => guesses[s.key] + Cardinality(Past(s.key)) <= N - 1
      BY <1>1, <2>1 DEF Counting, N
    <3>2. s.until # 0 => guesses[s.key] + Cardinality(Past(s.key)') <= N - 1
      BY <1>2, <1>3, <2>0, <3>1
    <3> QED BY <3>1, <3>2 DEF Counting, N
  <2>2. CASE s.key = k /\ guesses'[k] = 0
    <3>1. Cardinality(Past(k)') <= N - 1 /\ Cardinality(Past(k)') \in Nat
      BY <1>2, <1>3, <1>4
    <3> QED BY <1>1, <1>2, <2>0, <2>2, <3>1
  <2>3. CASE s.key = k /\ guesses'[k] = guesses[k] + 1 /\ Entry(k) = {} /\ s.failures = 1 /\ s.until = 0
    <3>1. guesses[k] <= N - 1
      BY <2>3 DEF Counting, N
    <3> QED BY <1>1, <1>2, <2>3, <3>1
  <2>4. CASE s.key = k /\ guesses'[k] = guesses[k] + 1
             /\ \E t \in Table : t.key = k /\ s.failures = t.failures + 1 /\ s.until = t.until
    <3>1. PICK t \in Table : t.key = k /\ s.failures = t.failures + 1 /\ s.until = t.until
      BY <2>4
    <3>2. /\ guesses[k] <= t.failures + N - 1 /\ t.failures \in Nat
          /\ t.until # 0 => guesses[k] + Cardinality(Past(k)) <= N - 1
      BY <1>0, <3>1, TableRows DEF Counting, N
    <3>3. guesses'[k] <= s.failures + N - 1
      BY <1>2, <2>4, <3>1, <3>2
    <3>4. s.until # 0 => guesses'[k] + Cardinality(Past(k)') <= N - 1
      BY <1>2, <1>3, <1>4, <2>4, <3>1, <3>2
    <3> QED BY <1>1, <2>4, <3>3, <3>4
  <2> QED BY <1>1, <2>1, <2>2, <2>3, <2>4
<1>6. ASSUME NEW o \in Keys, Entry(o)' = {} PROVE guesses'[o] <= N - 1
  <2>1. CASE guesses'[o] = 0
    BY <1>2, <2>1
  <2>2. CASE Entry(o) = {} /\ guesses'[o] = guesses[o]
    BY <2>2 DEF Counting, N
  <2> QED BY <1>1, <1>6, <2>1, <2>2
<1> QED BY <1>5, <1>6 DEF Counting, N

\* The right password: the failures of the key no longer count.
LEMMA CountForgotten ==
    ASSUME Limiting, Counting, now \in Nat, now' = now, NEW k \in Keys, Forget(k),
           \A o : Past(o)' \subseteq Past(o)
    PROVE  Counting'
<1>0. Listed
  BY DEF Limiting
<1>1. /\ Table' = {s \in Table : s.key # k}
      /\ guesses'[k] = 0 /\ \A o \in Keys \ {k} : guesses'[o] = guesses[o]
  BY ForgetKeeps
<1>2. /\ Cardinality(Requests) \in Nat \ {0}
      /\ \A o \in Keys : guesses[o] \in Nat
      /\ \A o : /\ Cardinality(Past(o)) \in Nat /\ Cardinality(Past(o)') \in Nat
                /\ Cardinality(Past(o)') <= Cardinality(Past(o))
  BY <1>0, Pool, FS_Subset, FS_CardinalityType DEF Listed
<1>3. ASSUME NEW s \in Table'
      PROVE  /\ s.failures < MaxAttempts
             /\ guesses'[s.key] <= s.failures + Cardinality(Requests) - 1
             /\ s.until # 0 => guesses'[s.key] + Cardinality(Past(s.key)') <= Cardinality(Requests) - 1
  <2>1. s \in Table /\ s.key \in Keys \ {k} /\ guesses'[s.key] = guesses[s.key]
    BY <1>0, <1>1, TableRows
  <2>2. s.until # 0 => guesses[s.key] + Cardinality(Past(s.key)) <= Cardinality(Requests) - 1
    BY <2>1 DEF Counting
  <2>3. s.until # 0 => guesses[s.key] + Cardinality(Past(s.key)') <= Cardinality(Requests) - 1
    BY <1>2, <2>1, <2>2
  <2> QED BY <2>1, <2>3 DEF Counting
<1>4. ASSUME NEW o \in Keys, Entry(o)' = {} PROVE guesses'[o] <= Cardinality(Requests) - 1
  <2>1. CASE o = k
    BY <1>1, <1>2, <2>1
  <2>2. CASE o # k
    <3>1. \A s \in Table' : s.key # o
      BY <1>4 DEF Entry, Table
    <3>2. Entry(o) = {}
      BY <1>1, <2>2, <3>1, EntryTable
    <3> QED BY <1>1, <2>2, <3>2 DEF Counting
  <2> QED BY <2>1, <2>2
<1> QED BY <1>3, <1>4 DEF Counting
-----------------------------------------------------------------------------
(* The invariant, step by step.                                              *)

LEMMA Reached == Filed => /\ now \in Nat \ {0} /\ users \in {0, 1} /\ issued \in Nat
                          /\ \A s \in sessions : s.user = users /\ users = 1 /\ s.token \in 1..issued
                          /\ \A r \in Requests : request[r] \in Places
<1>1. Filed => now \in Nat \ {0} /\ users \in {0, 1} /\ issued \in Nat
  BY AuthenticationAssumption DEF Filed
<1>2. ASSUME Filed, NEW s \in sessions PROVE s.user = users /\ users = 1 /\ s.token \in 1..issued
  <2>1. s.token \in 1..issued /\ s.user \in 1..users
    BY <1>2 DEF Filed
  <2> QED BY <1>1, <1>2, <2>1
<1> QED BY <1>1, <1>2 DEF Filed

\* A step that leaves the database, the clock and the limiter alone.
LEMMA Walks ==
    ASSUME IInv, UNCHANGED <<now, database, limiter, dismissed>>,
           NEW r \in Requests, NEW there \in Places, Goes(r, there), there.at # "verify",
           setupLock' \in {Free} \cup {<<q>> : q \in Requests}, SettingUp'
    PROVE  IInv'
<1>1. /\ now' = now /\ users' = users /\ sessions' = sessions /\ issued' = issued /\ dismissed' = dismissed
      /\ states' = states /\ promised' = promised /\ others' = others /\ guesses' = guesses
      /\ issued \in Nat
  BY DEF database, limiter, IInv, Filed
<1>2. Places' = Places
  BY <1>1 DEF Places
<1>3. request' \in [Requests -> Places'] /\ \A k : Past(k)' = Past(k) \ {r}
  BY <1>1, <1>2, Moves DEF IInv, Filed
<1>4. Filed'
  BY <1>1, <1>3 DEF IInv, Filed, SessionsAccounted
<1>5. Table' = Table /\ \A k : Entry(k)' = Entry(k)
  BY <1>1 DEF Table, Entry
<1>6. Listed' /\ InOrder'
  BY <1>1 DEF IInv, Limiting, Listed, Row, OneEach, InOrder
<1>7. Told' /\ Present'
  BY <1>1, <1>5 DEF IInv, Limiting, Told, Present
<1>8. Counting'
  <2>1. Listed /\ Counting
    BY DEF IInv, Limiting
  <2>2. \A k : Past(k)' \subseteq Past(k)
    BY <1>3
  <2> QED BY <1>1, <1>5, <2>1, <2>2, CountStays
<1> QED BY <1>4, <1>6, <1>7, <1>8 DEF IInv, Limiting

LEMMA Locks == ASSUME NEW q, NEW r PROVE <<q>> # Free /\ (<<q>> = <<r>> => q = r)
BY DEF Free

LEMMA SetupKeeps ==
    ASSUME IInv, NEW r \in Requests, SetupLock(r) \/ SetupRefused(r) \/ SetupCount(r) \/ SetupFails(r)
    PROVE  IInv'
<1>1. /\ request \in [Requests -> Places] /\ SettingUp
      /\ setupLock \in {Free} \cup {<<q>> : q \in Requests}
  BY DEF IInv, Filed
<1>2. CASE SetupLock(r)
  <2> DEFINE there == [at |-> "count"]
  <2>1. /\ UNCHANGED <<now, database, limiter, dismissed>> /\ Goes(r, there) /\ setupLock = Free /\ setupLock' = <<r>>
        /\ users' = users /\ there \in Places /\ there.at = "count"
    BY <1>2 DEF SetupLock, Unclaimed, Places, database
  <2> HIDE DEF there
  <2>2. request' = [request EXCEPT ![r] = there]
    BY <2>1 DEF Goes
  <2>3. SettingUp'
    BY <1>1, <2>1, <2>2, Locks DEF SettingUp
  <2> QED BY <2>1, <2>3, Walks
<1>3. CASE SetupCount(r)
  <2> DEFINE there == [at |-> "create"]
  <2>1. /\ UNCHANGED <<now, database, limiter, dismissed>> /\ Goes(r, there) /\ setupLock' = setupLock
        /\ request[r].at = "count" /\ users = 0 /\ users' = users /\ there \in Places /\ there.at = "create"
    BY <1>3 DEF SetupCount, At, Places, database
  <2> HIDE DEF there
  <2>2. request' = [request EXCEPT ![r] = there]
    BY <2>1 DEF Goes
  <2>3. SettingUp'
    BY <1>1, <2>1, <2>2 DEF SettingUp
  <2> QED BY <1>1, <2>1, <2>3, Walks
<1>4. CASE SetupRefused(r) \/ SetupFails(r)
  <2>1. /\ UNCHANGED <<now, database, limiter, dismissed>> /\ Goes(r, Idle) /\ setupLock' = Free
        /\ request[r].at \in {"count", "create"} /\ users' = users /\ Idle \in Places /\ Idle.at = "idle"
    BY <1>4 DEF SetupRefused, SetupFails, At, Idle, Places, database
  <2>2. request' = [request EXCEPT ![r] = Idle]
    BY <2>1 DEF Goes
  <2>3. SettingUp'
    BY <1>1, <2>1, <2>2, Locks DEF SettingUp
  <2> QED BY <2>1, <2>3, Walks
<1> QED BY <1>2, <1>3, <1>4

\* A session for the only user takes the place of every other.
LEMMA OneSession ==
    ASSUME Filed, users' = 1, Issue(1)
    PROVE  /\ issued' = issued + 1 /\ issued' \in Nat
           /\ sessions' \subseteq [token : 1..issued', user : 1..users', expires : Nat]
           /\ \A s, t \in sessions' : s = t
           /\ SessionsAccounted' /\ dismissed' \subseteq 1..issued'
<1> DEFINE over == {s \in sessions : s.expires <= now \/ s.user = 1}
           session == [token |-> issued + 1, user |-> 1, expires |-> now + SessionTicks]
<1>1. /\ issued' = issued + 1
      /\ sessions' = (sessions \ over) \cup {session}
      /\ dismissed' = dismissed \cup {s.token : s \in over}
  BY DEF Issue
<1>2. over = sessions
  BY Reached
<1> HIDE DEF over
<1>3. issued \in Nat /\ session.token = issued + 1 /\ session \in [token : 1..issued + 1, user : 1..1, expires : Nat]
  BY Reached, AuthenticationAssumption
<1> HIDE DEF session
<1>4. sessions' = {session} /\ dismissed' = dismissed \cup {s.token : s \in sessions}
  BY <1>1, <1>2
<1>5. /\ dismissed \subseteq 1..issued
      /\ {s.token : s \in sessions} = (1..issued) \ dismissed
  BY DEF Filed, SessionsAccounted
<1>6. dismissed' = 1..issued
  BY <1>4, <1>5
<1>7. {s.token : s \in sessions'} = {issued + 1}
  BY <1>3, <1>4
<1>8. (1..issued + 1) \ (1..issued) = {issued + 1} /\ 1..issued \subseteq 1..issued + 1
  BY <1>3
<1>9. SessionsAccounted'
  BY <1>1, <1>6, <1>7, <1>8 DEF SessionsAccounted
<1> QED BY <1>1, <1>3, <1>4, <1>6, <1>8, <1>9

\* A step of the database.
LEMMA Writes ==
    ASSUME IInv, UNCHANGED <<now, limiter>>, NEW r \in Requests, NEW there \in Places', Goes(r, there),
           there.at # "verify", issued' \in Nat, issued' >= issued, users' \in 0..1,
           sessions' \subseteq [token : 1..issued', user : 1..users', expires : Nat],
           \A s, t \in sessions' : s = t, SessionsAccounted', dismissed' \subseteq 1..issued',
           setupLock' \in {Free} \cup {<<q>> : q \in Requests}, SettingUp'
    PROVE  IInv'
<1>1. /\ now' = now /\ issued \in Nat
      /\ states' = states /\ promised' = promised /\ others' = others /\ guesses' = guesses
  BY DEF limiter, IInv, Filed
<1>3. request' \in [Requests -> Places'] /\ \A k : Past(k)' = Past(k) \ {r}
  BY <1>1, Moves DEF IInv, Filed
<1>4. Filed'
  BY <1>1, <1>3 DEF IInv, Filed
<1>5. Table' = Table /\ \A k : Entry(k)' = Entry(k)
  BY <1>1 DEF Table, Entry
<1>6. Listed' /\ InOrder'
  BY <1>1 DEF IInv, Limiting, Listed, Row, OneEach, InOrder
<1>7. Told' /\ Present'
  BY <1>1, <1>5 DEF IInv, Limiting, Told, Present
<1>8. Counting'
  <2>1. Listed /\ Counting
    BY DEF IInv, Limiting
  <2>2. \A k : Past(k)' \subseteq Past(k)
    BY <1>3
  <2> QED BY <1>1, <1>5, <2>1, <2>2, CountStays
<1> QED BY <1>4, <1>6, <1>7, <1>8 DEF IInv, Limiting

LEMMA SetupCommitKeeps == ASSUME IInv, NEW r \in Requests, SetupCommit(r) PROVE IInv'
<1>1. /\ request \in [Requests -> Places] /\ SettingUp /\ Filed
      /\ request[r].at = "create" /\ Goes(r, Idle) /\ users' = users + 1 /\ Issue(users + 1)
      /\ setupLock' = Free /\ UNCHANGED <<now, limiter>> /\ Idle \in Places' /\ Idle.at = "idle"
  BY DEF IInv, Filed, SetupCommit, At, Idle, Places
<1>2. users = 0 /\ users' = 1 /\ Issue(1)
  <2>1. users = 0
    BY <1>1 DEF SettingUp
  <2> QED BY <1>1, <2>1
<1>3. /\ issued' = issued + 1 /\ issued' \in Nat
      /\ sessions' \subseteq [token : 1..issued', user : 1..users', expires : Nat]
      /\ \A s, t \in sessions' : s = t
      /\ SessionsAccounted' /\ dismissed' \subseteq 1..issued'
  BY <1>1, <1>2, OneSession
<1>4. issued' >= issued
  BY <1>1, <1>3, Reached
<1>5. request' = [request EXCEPT ![r] = Idle]
  BY <1>1 DEF Goes
<1>6. SettingUp'
  <2>1. \A q \in Requests \ {r} : setupLock = <<r>> /\ request'[q] = request[q]
    BY <1>1, <1>5 DEF SettingUp
  <2> QED BY <1>1, <1>5, <2>1, Locks DEF SettingUp
<1> QED BY <1>1, <1>2, <1>3, <1>4, <1>6, Writes

LEMMA LoginCommitKeeps == ASSUME IInv, NEW r \in Requests, LoginCommit(r) PROVE IInv'
<1> DEFINE there == [request[r] EXCEPT !.at = "reset"]
<1>1. /\ request \in [Requests -> Places] /\ SettingUp /\ Filed
      /\ request[r].at = "verify" /\ Goes(r, there) /\ users' = users /\ setupLock' = setupLock
      /\ UNCHANGED <<now, limiter>> /\ setupLock' \in {Free} \cup {<<q>> : q \in Requests}
      /\ \E u \in 1..users : Issue(u)
  BY DEF IInv, Filed, LoginCommit, At
<1>2. users = 1 /\ users' = 1 /\ Issue(1)
  <2>1. PICK u \in 1..users : Issue(u)
    BY <1>1
  <2>2. u = 1 /\ users = 1
    BY <1>1, Reached
  <2> QED BY <1>1, <2>1, <2>2
<1>3. /\ issued' = issued + 1 /\ issued' \in Nat
      /\ sessions' \subseteq [token : 1..issued', user : 1..users', expires : Nat]
      /\ \A s, t \in sessions' : s = t
      /\ SessionsAccounted' /\ dismissed' \subseteq 1..issued'
  BY <1>1, <1>2, OneSession
<1>4. issued' >= issued
  BY <1>1, <1>3, Reached
<1>5. there \in Places' /\ there.at = "reset"
  <2>1. request[r] \in [at : {"verify", "reset"}, key : Keys]
    BY <1>1 DEF Places
  <2>2. there \in [at : {"verify", "reset"}, key : Keys] /\ there.at = "reset"
    BY <2>1
  <2> HIDE DEF there
  <2> QED BY <2>2 DEF Places
<1> HIDE DEF there
<1>6. request' = [request EXCEPT ![r] = there]
  BY <1>1 DEF Goes
<1>7. SettingUp'
  BY <1>1, <1>5, <1>6 DEF SettingUp
<1> QED BY <1>1, <1>2, <1>3, <1>4, <1>5, <1>7, Writes

\* A session ends, and no other.
LEMMA Ended ==
    ASSUME Filed, UNCHANGED <<users, issued>>, NEW t \in 1..issued,
           sessions' = sessions \ {s \in sessions : s.token = t}, dismissed' = dismissed \cup {t}
    PROVE  /\ sessions' \subseteq [token : 1..issued', user : 1..users', expires : Nat]
           /\ \A s, q \in sessions' : s = q
           /\ SessionsAccounted' /\ dismissed' \subseteq 1..issued'
<1>1. /\ sessions \subseteq [token : 1..issued, user : 1..users, expires : Nat]
      /\ \A s, q \in sessions : s = q
      /\ dismissed \subseteq 1..issued /\ {s.token : s \in sessions} = (1..issued) \ dismissed
  BY DEF Filed, SessionsAccounted
<1>2. {s.token : s \in sessions'} = (1..issued) \ dismissed'
  <2>1. {s.token : s \in sessions'} = {s.token : s \in sessions} \ {t}
    OBVIOUS
  <2> QED BY <1>1, <2>1
<1> QED BY <1>1, <1>2 DEF SessionsAccounted

LEMMA LogoutKeeps == ASSUME IInv, NEW r \in Requests, Logout(r) PROVE IInv'
<1>1. /\ request \in [Requests -> Places] /\ SettingUp /\ Filed
      /\ request[r].at = "logout" /\ Goes(r, Idle) /\ UNCHANGED <<users, issued>> /\ setupLock' = setupLock
      /\ UNCHANGED <<now, limiter>> /\ setupLock' \in {Free} \cup {<<q>> : q \in Requests}
      /\ sessions' = sessions \ {s \in sessions : s.token = request[r].token}
      /\ dismissed' = dismissed \cup {request[r].token}
      /\ Idle \in Places' /\ Idle.at = "idle"
  BY DEF IInv, Filed, Logout, At, Ends, Idle, Places
<1>2. request[r].token \in 1..issued
  <2>1. request[r] \in [at : {"logout"}, token : 1..issued]
    BY <1>1 DEF Places
  <2> QED BY <2>1
<1>3. /\ sessions' \subseteq [token : 1..issued', user : 1..users', expires : Nat]
      /\ \A s, q \in sessions' : s = q
      /\ SessionsAccounted' /\ dismissed' \subseteq 1..issued'
  BY <1>1, <1>2, Ended
<1>4. issued' \in Nat /\ issued' >= issued /\ users' \in 0..1
  BY <1>1, Reached
<1>5. request' = [request EXCEPT ![r] = Idle]
  BY <1>1 DEF Goes
<1>6. SettingUp'
  BY <1>1, <1>5 DEF SettingUp
<1> QED BY <1>1, <1>3, <1>4, <1>6, Writes

LEMMA ExpireKeeps == ASSUME IInv, NEW r \in Requests, NEW s \in sessions, Expire(r, s) PROVE IInv'
<1>1. /\ request \in [Requests -> Places] /\ SettingUp /\ Filed
      /\ request[r].at = "idle" /\ request' = request /\ UNCHANGED <<users, issued>> /\ setupLock' = setupLock
      /\ UNCHANGED <<now, limiter>> /\ setupLock' \in {Free} \cup {<<q>> : q \in Requests}
      /\ sessions' = sessions \ {s} /\ dismissed' = dismissed \cup {s.token}
  BY DEF IInv, Filed, Expire, At
<1>2. s.token \in 1..issued /\ sessions' = sessions \ {q \in sessions : q.token = s.token}
  <2>1. \A q \in sessions : q = s
    BY <1>1 DEF Filed
  <2> QED BY <1>1, <2>1, Reached
<1>3. /\ sessions' \subseteq [token : 1..issued', user : 1..users', expires : Nat]
      /\ \A p, q \in sessions' : p = q
      /\ SessionsAccounted' /\ dismissed' \subseteq 1..issued'
  BY <1>1, <1>2, Ended
<1>4. issued' \in Nat /\ issued' >= issued /\ users' \in 0..1
  BY <1>1, Reached
<1>5. Goes(r, request[r]) /\ request[r] \in Places' /\ request[r].at # "verify"
  <2>1. Places' = Places
    BY <1>1 DEF Places
  <2> QED BY <1>1, <2>1 DEF Goes
<1>6. SettingUp'
  BY <1>1 DEF SettingUp
<1> QED BY <1>1, <1>3, <1>4, <1>5, <1>6, Writes

LEMMA TickKeeps == ASSUME IInv, Tick PROVE IInv'
<1>1. /\ now' = now + 1 /\ now < MaxTime /\ now \in Nat \ {0} /\ MaxTime \in Nat
      /\ users' = users /\ sessions' = sessions /\ issued' = issued /\ dismissed' = dismissed
      /\ states' = states /\ promised' = promised /\ others' = others /\ guesses' = guesses
      /\ setupLock' = setupLock /\ request' = request
  BY Reached, AuthenticationAssumption DEF Tick, database, limiter, IInv, Filed
<1>2. Filed'
  BY <1>1 DEF IInv, Filed, Places, SessionsAccounted
<1>3. SettingUp'
  BY <1>1 DEF IInv, SettingUp
<1>5. Table' = Table /\ (\A k : Entry(k)' = Entry(k)) /\ (\A k : Past(k)' = Past(k))
  BY <1>1 DEF Table, Entry, Past
<1>6. Listed' /\ InOrder'
  BY <1>1 DEF IInv, Limiting, Listed, Row, OneEach, InOrder
<1>7. Told'
  BY <1>1, <1>5 DEF IInv, Limiting, Told
<1>8. ASSUME NEW k \in Keys, promised'[k] > now', Cardinality(others'[k]) < MaxKeys PROVE Entry(k)' # {}
  <2>1. promised[k] \in Nat /\ promised[k] > now
    BY <1>1, <1>8 DEF IInv, Limiting, Listed
  <2> QED BY <1>1, <1>5, <1>8, <2>1 DEF IInv, Limiting, Present
<1>9. Counting'
  <2>1. Listed /\ Counting
    BY DEF IInv, Limiting
  <2> QED BY <1>1, <1>5, <2>1, CountStays
<1> QED BY <1>2, <1>3, <1>6, <1>7, <1>8, <1>9 DEF IInv, Limiting, Present

\* A step of a login that the limiter and the request take.
LEMMA Attempts ==
    ASSUME IInv, UNCHANGED <<now, database, setupLock, dismissed>>, Limiting', Counting',
           NEW r \in Requests, NEW there \in Places, Goes(r, there), there.at \notin {"count", "create"}
    PROVE  IInv'
<1>1. /\ now' = now /\ users' = users /\ sessions' = sessions /\ issued' = issued /\ dismissed' = dismissed
      /\ setupLock' = setupLock /\ issued \in Nat /\ request \in [Requests -> Places]
  BY DEF database, IInv, Filed
<1>2. Places' = Places
  BY <1>1 DEF Places
<1>3. /\ request' \in [Requests -> Places']
      /\ request'[r] = there /\ \A q \in Requests \ {r} : request'[q] = request[q]
  BY <1>1, <1>2, Moves
<1>4. Filed'
  BY <1>1, <1>3 DEF IInv, Filed, SessionsAccounted
<1>5. SettingUp'
  BY <1>1, <1>3 DEF IInv, SettingUp
<1> QED BY <1>4, <1>5 DEF IInv

LEMMA LoginRefusedKeeps == ASSUME IInv, NEW r \in Requests, NEW k \in Keys, LoginRefused(r, k) PROVE IInv'
<1>1. /\ UNCHANGED <<now, database, setupLock, dismissed>> /\ request' = request /\ Wait(k) /\ request[r].at = "idle"
      /\ Limiting /\ Counting /\ Listed /\ request \in [Requests -> Places] /\ now \in Nat
  BY Reached DEF LoginRefused, At, IInv, Limiting, Filed
<1>2. Limiting' /\ Table' = Table /\ guesses' = guesses
  BY <1>1, WaitKeeps
<1>3. \A o : Past(o)' = Past(o)
  BY <1>1 DEF Past
<1>4. Counting'
  BY <1>1, <1>2, <1>3, CountStays
<1>5. Goes(r, request[r]) /\ request[r] \in Places
  BY <1>1 DEF Goes
<1> QED BY <1>1, <1>2, <1>4, <1>5, Attempts

LEMMA LoginCheckKeeps == ASSUME IInv, NEW r \in Requests, NEW k \in Keys, LoginCheck(r, k) PROVE IInv'
<1> DEFINE there == [at |-> "verify", key |-> k]
<1>1. /\ UNCHANGED <<now, database, setupLock, dismissed>> /\ Goes(r, there) /\ Pass(k)
      /\ Limiting /\ Counting /\ request \in [Requests -> Places] /\ now \in Nat /\ issued \in Nat
      /\ there \in Places /\ there.at = "verify" /\ there.key = k
  BY Reached DEF LoginCheck, IInv, Filed, Places
<1> HIDE DEF there
<1>2. issued' = issued /\ there \in Places'
  BY <1>1 DEF database, Places
<1>3. \A o : o # k => Past(o)' = Past(o) \ {r}
  BY <1>1, <1>2, Moves
<1>4. Counting'
  BY <1>1, <1>3, CountChecked
<1>5. Limiting'
  BY <1>1, PassKeeps
<1> QED BY <1>1, <1>4, <1>5, Attempts

\* The key of a login that is past the check or was right, and the request after it.
LEMMA Attempted ==
    ASSUME IInv, NEW r \in Requests, request[r].at \in {"verify", "reset"}, Goes(r, Idle), UNCHANGED database
    PROVE  /\ request[r].key \in Keys /\ Idle \in Places /\ Idle.at = "idle"
           /\ \A o : Past(o)' = Past(o) \ {r}
<1>1. request \in [Requests -> Places] /\ issued \in Nat /\ issued' = issued
  BY DEF IInv, Filed, database
<1>2. request[r] \in [at : {"verify", "reset"}, key : Keys]
  BY <1>1 DEF Places
<1>3. Idle \in Places /\ Idle \in Places' /\ Idle.at = "idle"
  BY DEF Idle, Places
<1> QED BY <1>1, <1>2, <1>3, Moves

LEMMA LoginWrongKeeps == ASSUME IInv, NEW r \in Requests, LoginWrong(r) PROVE IInv'
<1> DEFINE k == request[r].key
<1>1. /\ UNCHANGED <<now, database, setupLock, dismissed>> /\ Goes(r, Idle) /\ Failure(k) /\ request[r].at = "verify"
      /\ Limiting /\ Counting /\ now \in Nat
  BY Reached DEF LoginWrong, At, IInv
<1>2. k \in Keys /\ Idle \in Places /\ Idle.at = "idle" /\ \A o : Past(o)' = Past(o) \ {r}
  BY <1>1, Attempted
<1>3. r \in Past(k)
  BY <1>1 DEF Past
<1> HIDE DEF k
<1>4. Limiting'
  BY <1>1, <1>2, FailureKeeps
<1>5. Counting'
  BY <1>1, <1>2, <1>3, CountFailed
<1> QED BY <1>1, <1>2, <1>4, <1>5, Attempts

LEMMA LoginResetKeeps == ASSUME IInv, NEW r \in Requests, LoginReset(r) PROVE IInv'
<1> DEFINE k == request[r].key
<1>1. /\ UNCHANGED <<now, database, setupLock, dismissed>> /\ Goes(r, Idle) /\ Forget(k) /\ request[r].at = "reset"
      /\ Limiting /\ Counting /\ now \in Nat
  BY Reached DEF LoginReset, At, IInv
<1>2. k \in Keys /\ Idle \in Places /\ Idle.at = "idle" /\ \A o : Past(o)' = Past(o) \ {r}
  BY <1>1, Attempted
<1> HIDE DEF k
<1>4. Limiting'
  BY <1>1, <1>2, ForgetKeeps
<1>5. Counting'
  BY <1>1, <1>2, CountForgotten
<1> QED BY <1>1, <1>2, <1>4, <1>5, Attempts

\* A login that the database fails, and a logout that finds its session.
LEMMA OthersKeep ==
    ASSUME IInv, NEW r \in Requests, LoginFails(r) \/ \E s \in sessions : Authenticate(r, s)
    PROVE  IInv'
<1>1. /\ UNCHANGED <<now, database, setupLock, dismissed, limiter>> /\ Filed /\ SettingUp
      /\ request \in [Requests -> Places]
      /\ setupLock' \in {Free} \cup {<<q>> : q \in Requests} /\ users' = users /\ setupLock' = setupLock
  BY DEF IInv, Filed, LoginFails, Authenticate, database
<1>2. ASSUME NEW there \in Places, Goes(r, there), there.at \notin {"verify", "count", "create"} PROVE IInv'
  <2>1. request' = [request EXCEPT ![r] = there]
    BY <1>2 DEF Goes
  <2>2. SettingUp'
    BY <1>1, <1>2, <2>1 DEF SettingUp
  <2> QED BY <1>1, <1>2, <2>2, Walks
<1>3. CASE LoginFails(r)
  <2>1. Goes(r, Idle) /\ Idle \in Places /\ Idle.at = "idle"
    BY <1>3 DEF LoginFails, Idle, Places
  <2> QED BY <1>2, <2>1
<1>4. ASSUME NEW s \in sessions, Authenticate(r, s) PROVE IInv'
  <2> DEFINE there == [at |-> "logout", token |-> s.token]
  <2>1. Goes(r, there) /\ s.token \in 1..issued
    BY <1>1, <1>4, Reached DEF Authenticate
  <2>2. there \in Places /\ there.at = "logout"
    BY <2>1 DEF Places
  <2> HIDE DEF there
  <2> QED BY <1>2, <2>1, <2>2
<1> QED BY <1>3, <1>4

LEMMA Holds == Spec => []IInv
<1>1. Init => IInv
  <2> SUFFICES ASSUME Init PROVE IInv
    OBVIOUS
  <2>1. /\ now = 1 /\ users = 0 /\ sessions = {} /\ issued = 0 /\ setupLock = Free /\ states = <<>>
        /\ request = [r \in Requests |-> Idle] /\ promised = [k \in Keys |-> 0]
        /\ others = [k \in Keys |-> {}] /\ guesses = [k \in Keys |-> 0] /\ dismissed = {}
        /\ MaxTime \in Nat \ {0} /\ MaxKeys \in Nat
    BY AuthenticationAssumption DEF Init
  <2>2. Idle \in Places /\ Idle.at = "idle"
    BY DEF Idle, Places
  <2>3. Filed
    BY <2>1, <2>2 DEF Filed, SessionsAccounted
  <2>4. SettingUp
    BY <2>1, <2>2 DEF SettingUp
  <2>5. Table = {} /\ \A k : Entry(k) = {}
    BY <2>1 DEF Table, Entry
  <2>6. Listed /\ InOrder
    <3>1. states \in Seq(Row) /\ Len(states) = 0 /\ DOMAIN states = {} /\ IsFiniteSet({})
      BY <2>1, FS_EmptySet
    <3> QED BY <2>1, <3>1 DEF Listed, OneEach, InOrder
  <2>7. Told /\ Present
    BY <2>1, <2>5 DEF Told, Present
  <2>8. Counting
    BY <2>1, <2>5, Pool DEF Counting
  <2> QED BY <2>3, <2>4, <2>6, <2>7, <2>8 DEF IInv, Limiting
<1>2. IInv /\ [Next]_vars => IInv'
  <2> SUFFICES ASSUME IInv, [Next]_vars PROVE IInv'
    OBVIOUS
  <2>1. ASSUME NEW r \in Requests, SetupLock(r) \/ SetupRefused(r) \/ SetupCount(r) \/ SetupFails(r) PROVE IInv'
    BY <2>1, SetupKeeps
  <2>2. ASSUME NEW r \in Requests, SetupCommit(r) \/ LoginCommit(r) \/ Logout(r) PROVE IInv'
    BY <2>2, SetupCommitKeeps, LoginCommitKeeps, LogoutKeeps
  <2>3. ASSUME NEW r \in Requests, NEW k \in Keys, LoginRefused(r, k) \/ LoginCheck(r, k) PROVE IInv'
    BY <2>3, LoginRefusedKeeps, LoginCheckKeeps
  <2>4. ASSUME NEW r \in Requests, LoginWrong(r) \/ LoginReset(r) PROVE IInv'
    BY <2>4, LoginWrongKeeps, LoginResetKeeps
  <2>5. ASSUME NEW r \in Requests, LoginFails(r) \/ \E s \in sessions : Authenticate(r, s) PROVE IInv'
    BY <2>5, OthersKeep
  <2>6. ASSUME NEW r \in Requests, NEW s \in sessions, Expire(r, s) PROVE IInv'
    BY <2>6, ExpireKeeps
  <2>7. CASE Tick
    BY <2>7, TickKeeps
  <2>8. CASE UNCHANGED vars
    <3>1. /\ now' = now /\ users' = users /\ sessions' = sessions /\ issued' = issued /\ dismissed' = dismissed
          /\ states' = states /\ promised' = promised /\ others' = others /\ guesses' = guesses
          /\ setupLock' = setupLock /\ request' = request
      BY <2>8 DEF vars, database, limiter
    <3>2. Table' = Table /\ (\A k : Entry(k)' = Entry(k)) /\ (\A k : Past(k)' = Past(k))
      BY <3>1 DEF Table, Entry, Past
    <3>3. Filed' /\ SettingUp'
      BY <3>1 DEF IInv, Filed, Places, SessionsAccounted, SettingUp
    <3>4. Listed' /\ InOrder'
      BY <3>1 DEF IInv, Limiting, Listed, Row, OneEach, InOrder
    <3>5. Told' /\ Present'
      BY <3>1, <3>2 DEF IInv, Limiting, Told, Present
    <3>6. Counting'
      BY <3>1, <3>2, CountStays DEF IInv, Limiting
    <3> QED BY <3>3, <3>4, <3>5, <3>6 DEF IInv, Limiting
  <2> QED BY <2>1, <2>2, <2>3, <2>4, <2>5, <2>6, <2>7, <2>8 DEF Next
<1> QED BY <1>1, <1>2, PTL DEF Spec
-----------------------------------------------------------------------------
(* The theorems.                                                             *)

\* However many requests ask for the set-up at once, one administrator is created
\* and has one session at most; the limiter's table keeps to its size, one row for a
\* key, whatever keys fail (AuthService.setup, LoginAttemptLimiter.record_failure).
THEOREM OneAdministrator == Spec => []TypeOK
<1>1. IInv => TypeOK
  <2> SUFFICES ASSUME IInv PROVE TypeOK
    OBVIOUS
  <2>1. Filed /\ Listed
    BY DEF IInv, Limiting
  <2>2. Cardinality(sessions) <= users
    <3>1. CASE sessions = {}
      BY <2>1, <3>1, Reached, FS_EmptySet
    <3>2. ASSUME NEW s \in sessions PROVE Cardinality(sessions) <= users
      <4>1. sessions = {s} /\ users = 1
        BY <2>1, Reached DEF Filed
      <4>2. Cardinality({s}) = 1
        BY FS_Singleton
      <4> QED BY <4>1, <4>2
    <3> QED BY <3>1, <3>2
  <2>3. \A i \in DOMAIN states : states[i] \in [key : Keys, failures : 0..MaxAttempts, until : Nat]
    <3>1. \A i \in DOMAIN states : states[i] \in Row
      BY <2>1 DEF Listed
    <3> QED BY <3>1 DEF Row
  <2> QED BY <2>1, <2>2, <2>3 DEF TypeOK, Filed, Listed, OneEach, Places
<1> QED BY <1>1, Holds, PTL

\* A session is in the database from its login until it is logged out, replaced by the
\* next or over: a late logout or an expiry ends no other (AuthService.logout, _issue).
THEOREM SessionsEndForAReason == Spec => []SessionsAccounted
<1>1. IInv => SessionsAccounted
  BY DEF IInv, Filed
<1> QED BY <1>1, Holds, PTL

\* A key that was told to wait has to, until its time or until as many others as the
\* table holds were used: no login under way when it was locked, no new key and no
\* check forgets a lock (LoginAttemptLimiter.retry_after, record_failure).
THEOREM LocksHold == Spec => []LockHolds
<1>1. IInv => LockHolds
  <2> SUFFICES ASSUME IInv, NEW k \in Keys, promised[k] > now, Cardinality(others[k]) < MaxKeys
               PROVE  Locked(k) /\ State(k).until = promised[k]
    BY DEF LockHolds
  <2>1. Listed /\ Told /\ Entry(k) # {}
    BY DEF IInv, Limiting, Present
  <2>2. State(k) \in Table /\ State(k).key = k
    BY <2>1, Lookup
  <2>3. promised[k] = State(k).until
    BY <2>1, <2>2 DEF Told
  <2> QED BY <2>1, <2>3 DEF Locked
<1> QED BY <1>1, Holds, PTL

\* Between two locks a key fails fewer times than are allowed and the threads, less
\* one, together: only those past the check when it was locked (AuthService.login).
THEOREM FailuresAreFew == Spec => []GuessesBounded
<1>1. IInv => GuessesBounded
  <2> SUFFICES ASSUME IInv, NEW k \in Keys PROVE guesses[k] < MaxAttempts + Cardinality(Requests) - 1
    BY DEF GuessesBounded
  <2>1. Listed /\ Counting
    BY DEF IInv, Limiting
  <2>2. guesses[k] \in Nat /\ Cardinality(Requests) \in Nat /\ MaxAttempts \in Nat \ {0}
    BY <2>1, Pool, AuthenticationAssumption DEF Listed
  <2>3. CASE Entry(k) = {}
    <3>1. guesses[k] <= Cardinality(Requests) - 1
      BY <2>1, <2>3 DEF Counting
    <3> QED BY <2>2, <3>1
  <2>4. CASE Entry(k) # {}
    <3>1. PICK s \in Table : s.key = k
      BY <2>4, EntryTable
    <3>2. /\ s.failures < MaxAttempts /\ s.failures \in Nat
          /\ guesses[k] <= s.failures + Cardinality(Requests) - 1
      BY <2>1, <3>1, TableRows DEF Counting
    <3> QED BY <2>2, <3>2
  <2> QED BY <2>3, <2>4
<1> QED BY <1>1, Holds, PTL
-----------------------------------------------------------------------------
(* Administration for any number of requests, rows and settings: what runs is what *)
(* is stored, and what is checked before a write holds, unless requests overlap.   *)

Contents == {"off", "on", "exact", "fallback", Absent} \cup Values

\* The rows, the runtime, and the history of the rows.
Stored == /\ scope \in Kinds /\ mixed \in BOOLEAN /\ loose \subseteq Rows
          /\ row \in [Rows -> Contents] /\ \A d \in Rows : row[d] \in Says(d) \cup {Absent}
          /\ \A x, y \in Rules : row[x] = "exact" /\ row[y] = "exact" => x = y
          /\ running \subseteq Cameras \cup Gates
          /\ inferred \in [Cameras -> {"off", "on", Absent}]
          /\ applied \in [Parts -> Values \cup {Absent}]

\* What a request may be doing at each place of its handler, and with what values.
Placed(r) ==
    /\ on[r] \in scope \cup {Nowhere}
    /\ on[r] = Nowhere <=>
          pc[r] = "idle" \/ (op[r] = "create" /\ pc[r] \in {"checking", "saving"})
    /\ op[r] \in {"create", "update"} => \A d \in scope : wants[r] \in Says(d)
    /\ op[r] \in {"create", "delete"} => scope # {Settings}
    /\ pc[r] = "loading" => op[r] \in {"update", "delete"}
    /\ pc[r] \in {"checking", "saving", "refreshing", "applying"} => op[r] \in {"create", "update"}
    /\ pc[r] \in {"refreshing", "removing"} => on[r] # Settings
    /\ pc[r] = "applying" => on[r] \in Cameras \cup Gates /\ seen[r] \in Says(on[r])
    /\ pc[r] = "inferring" => on[r] \in Cameras /\ (op[r] # "delete" => seen[r] \in Says(on[r]))
    /\ pc[r] = "stopping" => on[r] \in Cameras \cup Gates /\ op[r] = "delete"
    /\ pc[r] = "removing" => op[r] = "delete"
    /\ pc[r] \in {"retention", "snapshots", "inference"} =>
          on[r] = Settings /\ op[r] = "update"

Asked == /\ pc \in [AdminRequests -> Wheres]
         /\ op \in [AdminRequests -> {"none", "create", "update", "delete"}]
         /\ on \in [AdminRequests -> Rows \cup {Nowhere}]
         /\ wants \in [AdminRequests -> Contents \cup {"none"}]
         /\ seen \in [AdminRequests -> Contents \cup {"none"}]
         /\ \A r \in AdminRequests : Placed(r)
         /\ alone \subseteq Busy /\ up \in BOOLEAN /\ (~up => Busy = {})

\* What AgreeInTurn says of one row.
Agrees(d) == /\ d \in Cameras \cup Gates => (d \in running <=> row[d] = "on")
             /\ d \in Cameras => inferred[d] = row[d]
             /\ d = Settings => \A p \in Parts : applied[p] = row[d]

\* A request that is alone has its row to itself; the row of one that is not is loose.
Apart == /\ \A r \in alone : on[r] # Nowhere => \A s \in Busy : on[s] = on[r] => s = r
         /\ \A r \in Busy \ alone : on[r] # Nowhere => on[r] \in loose

\* How far a request that is alone with row d has brought it.
Reaches(r, d) ==
    /\ pc[r] \in {"loading", "checking", "saving"} => (d \notin loose => Agrees(d))
    /\ pc[r] \in {"checking", "saving", "applying"} => seen[r] = row[d]
    /\ pc[r] = "refreshing" => row[d] # Absent
    /\ pc[r] \in {"refreshing", "applying"} /\ op[r] = "create" =>
          (d \notin loose => d \notin running)
    /\ pc[r] = "inferring" =>
          IF op[r] = "delete" THEN d \notin running
          ELSE /\ seen[r] = row[d]
               /\ Tells(r) \/ d \notin loose => (d \in running <=> row[d] = "on")
    /\ pc[r] = "removing" => d \notin running /\ (d \in Cameras => inferred[d] = Absent)
    /\ pc[r] \in {"retention", "snapshots", "inference"} => row[d] = wants[r]
    /\ pc[r] \in {"snapshots", "inference"} => applied["retention"] = wants[r]
    /\ pc[r] = "inference" => applied["snapshots"] = wants[r]

Undisturbed == \A r \in alone : on[r] # Nowhere => Reaches(r, on[r])

Settled == Apart /\ Undisturbed /\ AgreeInTurn

\* While writes come one after the other, what a request has checked still holds.
Serial == ~mixed => /\ InLine
                    /\ \A r, s \in Busy : r = s
                    /\ \A r \in Busy : pc[r] = "saving" => Admissible(r)

AdminInv == Stored /\ Asked /\ Settled /\ Serial
-----------------------------------------------------------------------------
(* A step of request s, and what it leaves to the others.                    *)

Others(s) == /\ scope' = scope /\ up' = up
             /\ \A r \in AdminRequests \ {s} :
                   /\ pc'[r] = pc[r] /\ op'[r] = op[r] /\ on'[r] = on[r]
                   /\ wants'[r] = wants[r] /\ seen'[r] = seen[r]

\* Of the rows, it touches d at most.
RowsBut(d) == \A x \in Rows \ {d} :
                 /\ row'[x] = row[x] /\ (x \in running' <=> x \in running)
                 /\ x \in Cameras => inferred'[x] = inferred[x]
                 /\ x = Settings => applied' = applied
                 /\ x \in loose' <=> x \in loose

\* What is true of another row stays so.
LEMMA RowStays ==
    ASSUME NEW d, NEW x \in Rows \ {d}, RowsBut(d), Agrees(x)
    PROVE  Agrees(x)'
BY DEF RowsBut, Agrees

\* A request at work on its row d, or on none yet: the others do not notice.
LEMMA Within ==
    ASSUME Asked, Settled, NEW s \in AdminRequests, s \in Busy, Others(s),
           NEW d, d = on[s], RowsBut(d),
           \/ alone' = alone /\ on'[s] = d /\ pc'[s] # "idle"
           \/ alone' = alone \ {s} /\ on'[s] = Nowhere /\ pc'[s] = "idle",
           s \notin alone => loose \subseteq loose',
           d # Nowhere /\ s \in alone =>
              IF pc'[s] = "idle" THEN d \notin loose' => Agrees(d)' ELSE Reaches(s, d)'
    PROVE  Settled'
<1>1. \A r \in AdminRequests \ {s} : r \in Busy' <=> r \in Busy
  BY DEF Others, Busy
<1>2. s \in Busy' <=> pc'[s] # "idle"
  BY DEF Busy
<1>3. Busy \subseteq AdminRequests /\ Busy' \subseteq AdminRequests /\ alone \subseteq Busy
  BY DEF Busy, Asked
<1>4. \A r \in AdminRequests : on[r] \in Rows \cup {Nowhere}
  BY DEF Asked
<1>5. Apart'
  BY <1>1, <1>2, <1>3, <1>4 DEF Settled, Apart, Others, RowsBut
<1>6. Undisturbed'
  <2> SUFFICES ASSUME NEW r \in alone', NEW x, x = on'[r], x # Nowhere
               PROVE  Reaches(r, x)'
    BY DEF Undisturbed
  <2>1. CASE r = s
    BY <2>1, <1>1, <1>2, <1>3
  <2>2. CASE r # s
    <3>1. r \in alone /\ r \in AdminRequests /\ on[r] = x /\ x \in Rows \ {d}
      BY <2>2, <1>3, <1>4 DEF Settled, Apart, Others
    <3>2. Reaches(r, x)
      BY <3>1 DEF Settled, Undisturbed
    <3>3. Agrees(x) => Agrees(x)'
      BY <3>1, RowStays
    <3>4. pc[r] \in {"retention", "snapshots", "inference"} => x = Settings
      BY <3>1 DEF Asked, Placed
    <3> QED BY <2>2, <3>1, <3>2, <3>3, <3>4 DEF Reaches, Tells, Runs, Others, RowsBut
  <2> QED BY <2>1, <2>2
<1>7. AgreeInTurn'
  <2> SUFFICES ASSUME up', NEW x \in Rows \ loose', \A r \in Busy' : on'[r] # x
               PROVE  Agrees(x)'
    BY DEF AgreeInTurn, Agrees
  <2>1. CASE x = d
    <3>1. pc'[s] = "idle" /\ d # Nowhere
      BY <2>1, <1>2, AdministrationAssumption
    <3>2. s \in alone
      BY <2>1, <3>1 DEF Settled, Apart
    <3> QED BY <2>1, <3>1, <3>2
  <2>2. CASE x # d
    <3>1. x \in Rows \ loose /\ \A r \in Busy : on[r] # x
      BY <2>2, <1>1, <1>3 DEF Others, RowsBut
    <3>2. Agrees(x)
      BY <3>1 DEF Settled, AgreeInTurn, Agrees, Others
    <3> QED BY <2>2, <3>2, RowStays
  <2> QED BY <2>1, <2>2
<1> QED BY <1>5, <1>6, <1>7 DEF Settled

\* A request that comes to a row d, or begins without one.
LEMMA Enters ==
    ASSUME Asked, Settled, NEW s \in AdminRequests, up, on[s] = Nowhere, Others(s),
           NEW d \in Rows \cup {Nowhere}, on'[s] = d, pc'[s] # "idle", Overlaps(s, d),
           UNCHANGED runtime, \A x \in Rows \ {d} : row'[x] = row[x],
           d # Nowhere /\ (\A r \in Busy \ {s} : on[r] # d) => Reaches(s, d)'
    PROVE  Settled'
<1> DEFINE rivals == {r \in Busy \ {s} : on[r] = d /\ d # Nowhere}
<1>1. /\ \A r \in AdminRequests \ {s} : r \in Busy' <=> r \in Busy
      /\ s \in Busy' /\ Busy' \subseteq AdminRequests
      /\ alone \subseteq Busy /\ Busy \subseteq AdminRequests
  BY DEF Others, Busy, Asked
<1>2. /\ alone' = IF rivals = {} THEN alone \cup {s} ELSE alone \ (rivals \cup {s})
      /\ loose' = IF rivals = {} THEN loose ELSE loose \cup {d}
  BY DEF Overlaps
<1>3. \A r \in AdminRequests : on[r] \in Rows \cup {Nowhere}
  BY DEF Asked
<1>4. Apart'
  BY <1>1, <1>2, <1>3 DEF Settled, Apart, Others
<1>5. \A x \in Rows \ {d} : Agrees(x) => Agrees(x)'
  BY DEF Agrees, runtime
<1>6. Undisturbed'
  <2> SUFFICES ASSUME NEW r \in alone', NEW x, x = on'[r], x # Nowhere
               PROVE  Reaches(r, x)'
    BY DEF Undisturbed
  <2>1. CASE r = s
    BY <2>1, <1>2
  <2>2. CASE r # s
    <3>1. r \in alone /\ r \in AdminRequests /\ on[r] = x /\ x \in Rows \ {d}
      BY <2>2, <1>1, <1>2, <1>3 DEF Others
    <3>2. Reaches(r, x)
      BY <3>1 DEF Settled, Undisturbed
    <3> QED BY <2>2, <3>1, <3>2, <1>2, <1>5 DEF Reaches, Tells, Runs, Others, runtime
  <2> QED BY <2>1, <2>2
<1>7. AgreeInTurn'
  <2> SUFFICES ASSUME NEW x \in Rows \ loose', \A r \in Busy' : on'[r] # x
               PROVE  Agrees(x)'
    BY DEF AgreeInTurn, Agrees
  <2>1. x # d /\ x # Nowhere
    BY <1>1, AdministrationAssumption
  <2>2. x \notin loose /\ \A r \in Busy : on[r] # x
    BY <2>1, <1>1, <1>2 DEF Others
  <2> QED BY <2>1, <2>2, <1>5 DEF Settled, AgreeInTurn, Agrees
<1> QED BY <1>4, <1>6, <1>7 DEF Settled

\* Of the requests that come one after the other, only s is there.
LEMMA SerialKeeps ==
    ASSUME Serial, NEW s \in AdminRequests, s \in Busy, Others(s), mixed' = mixed,
           ~mixed /\ InLine => InLine',
           pc'[s] = "saving" => Admissible(s)'
    PROVE  Serial'
<1> SUFFICES ASSUME ~mixed PROVE Serial'
  BY DEF Serial
<1>1. \A r \in Busy' : r = s
  BY DEF Serial, Busy, Others
<1>2. ASSUME NEW r \in Busy', pc'[r] = "saving" PROVE Admissible(r)'
  <2>1. r = s
    BY <1>1
  <2> QED BY <2>1, <1>2
<1> QED BY <1>1, <1>2 DEF Serial
-----------------------------------------------------------------------------
(* The ways a handler goes on, and ends.                                     *)

LEMMA KindsOfRows ==
    ASSUME scope \in Kinds, NEW d \in scope
    PROVE  /\ d \in Rows /\ d # Nowhere
           /\ d \in Cameras => scope = Cameras
           /\ d \in Gates => scope = Gates
           /\ d \in Rules => scope = Rules
           /\ d = Settings => scope = {Settings}
BY AdministrationAssumption DEF Kinds, Rows

LEMMA Sayings ==
    /\ \A d \in Cameras \cup Gates : Says(d) = {"off", "on"}
    /\ \A d \in Rules : Says(d) = {"exact", "fallback"}
    /\ Says(Settings) = Values
    /\ \A d \in Rows : Says(d) \subseteq Contents
    /\ \A d \in Rows \ {Settings} : Absent \notin Says(d)
BY AdministrationAssumption DEF Says, Rows, Contents, Absent

\* The others are as they were.
LEMMA AskedKeeps ==
    ASSUME Asked, NEW s \in AdminRequests, Others(s), up,
           pc' \in [AdminRequests -> Wheres],
           op' \in [AdminRequests -> {"none", "create", "update", "delete"}],
           on' \in [AdminRequests -> Rows \cup {Nowhere}],
           wants' \in [AdminRequests -> Contents \cup {"none"}],
           seen' \in [AdminRequests -> Contents \cup {"none"}],
           Placed(s)', alone' \subseteq Busy'
    PROVE  Asked'
<1>1. ASSUME NEW r \in AdminRequests PROVE Placed(r)'
  <2>1. CASE r # s
    BY <2>1 DEF Asked, Others, Placed
  <2> QED BY <2>1
<1> QED BY <1>1 DEF Asked, Others

\* A request that is done with.
LEMMA DoneWith ==
    ASSUME Asked, NEW s \in AdminRequests, s \in Busy, Forgets(s), UNCHANGED <<scope, up>>
    PROVE  /\ Asked' /\ Others(s) /\ pc'[s] = "idle" /\ on'[s] = Nowhere
           /\ alone' = alone \ {s}
<1>1. Others(s) /\ pc'[s] = "idle" /\ on'[s] = Nowhere /\ op'[s] = "none"
  BY DEF Forgets, Others, Asked
<1>2. alone' \subseteq Busy'
  BY <1>1 DEF Forgets, Others, Asked, Busy
<1>3. Placed(s)'
  BY <1>1 DEF Placed
<1>4. /\ pc' \in [AdminRequests -> Wheres] /\ on' \in [AdminRequests -> Rows \cup {Nowhere}]
      /\ op' \in [AdminRequests -> {"none", "create", "update", "delete"}]
      /\ wants' \in [AdminRequests -> Contents \cup {"none"}]
      /\ seen' \in [AdminRequests -> Contents \cup {"none"}]
  BY DEF Forgets, Asked, Wheres
<1>5. up
  BY DEF Asked
<1> QED BY <1>1, <1>2, <1>3, <1>4, <1>5, AskedKeeps DEF Forgets

LEMMA SucceedsKeeps ==
    ASSUME AdminInv, NEW s \in AdminRequests, s \in Busy, NEW d, d = on[s], d # Nowhere,
           Succeeds(s), UNCHANGED <<scope, up>>, Stored', ~mixed /\ InLine => InLine',
           \A x \in Rows \ {d} : /\ row'[x] = row[x] /\ (x \in running' <=> x \in running)
                                 /\ x \in Cameras => inferred'[x] = inferred[x]
                                 /\ x = Settings => applied' = applied,
           s \in alone /\ (Tells(s) \/ d \notin loose) => Agrees(d)'
    PROVE  AdminInv'
<1> USE DEF AdminInv
<1>1. /\ Asked' /\ Others(s) /\ pc'[s] = "idle" /\ on'[s] = Nowhere
      /\ alone' = alone \ {s}
  BY DoneWith DEF Succeeds
<1>2. /\ RowsBut(d) /\ (s \notin alone => loose \subseteq loose')
      /\ s \in alone => (d \notin loose' => Tells(s) \/ d \notin loose)
  BY DEF Succeeds, RowsBut
<1>3. Settled'
  BY <1>1, <1>2, Within
<1>4. Serial'
  BY <1>1, SerialKeeps DEF Succeeds
<1> QED BY <1>1, <1>3, <1>4

\* The row of a request that fails midway is loose.
LEMMA FailsKeeps ==
    ASSUME AdminInv, NEW s \in AdminRequests, s \in Busy, NEW d, d = on[s], d # Nowhere,
           Fails(s), UNCHANGED <<scope, up, row>>, Stored',
           \A x \in Rows \ {d} : /\ x \in running' <=> x \in running
                                 /\ x \in Cameras => inferred'[x] = inferred[x]
                                 /\ x = Settings => applied' = applied
    PROVE  AdminInv'
<1> USE DEF AdminInv
<1>1. /\ Asked' /\ Others(s) /\ pc'[s] = "idle" /\ on'[s] = Nowhere
      /\ alone' = alone \ {s}
  BY DoneWith DEF Fails
<1>2. RowsBut(d) /\ loose \subseteq loose' /\ d \in loose'
  BY DEF Fails, RowsBut
<1>3. Settled'
  BY <1>1, <1>2, Within
<1>4. Serial'
  BY <1>1, SerialKeeps DEF Fails, InLine, Active
<1> QED BY <1>1, <1>3, <1>4

\* A request that is refused has written nothing.
LEMMA RefusedKeeps ==
    ASSUME AdminInv, NEW s \in AdminRequests, Refused(s), UNCHANGED <<scope, row, runtime, up>>,
           pc[s] \in {"loading", "checking", "saving"}
    PROVE  AdminInv'
<1> USE DEF AdminInv
<1>0. s \in Busy
  BY DEF Busy
<1>1. /\ Asked' /\ Others(s) /\ pc'[s] = "idle" /\ on'[s] = Nowhere
      /\ alone' = alone \ {s}
  BY <1>0, DoneWith DEF Refused
<1>2. Stored'
  BY DEF Stored, Refused, runtime
<1> PICK d : d = on[s]
  OBVIOUS
<1>3. RowsBut(d) /\ loose' = loose
  BY DEF Refused, RowsBut, runtime
<1>4. ASSUME d # Nowhere, s \in alone, d \notin loose PROVE Agrees(d)'
  <2>1. Reaches(s, d)
    BY <1>4 DEF Settled, Undisturbed
  <2>2. Agrees(d)
    BY <2>1, <1>4 DEF Reaches
  <2> QED BY <2>2 DEF Agrees, runtime
<1>5. Settled'
  BY <1>0, <1>1, <1>3, <1>4, Within
<1>6. Serial'
  BY <1>0, <1>1, SerialKeeps DEF Refused, InLine, Active
<1> QED BY <1>1, <1>2, <1>5, <1>6

\* A request that goes on with the row it has.
LEMMA GoesOn ==
    ASSUME AdminInv, NEW s \in AdminRequests, s \in Busy, NEW d, d = on[s],
           NEW w \in Wheres \ {"idle"}, pc' = [pc EXCEPT ![s] = w],
           UNCHANGED <<scope, up, op, on, wants, history>>,
           seen' \in [AdminRequests -> Contents \cup {"none"}],
           \A r \in AdminRequests \ {s} : seen'[r] = seen[r],
           Stored', Placed(s)', ~mixed /\ InLine => InLine',
           w = "saving" => Admissible(s)',
           \A x \in Rows \ {d} : /\ row'[x] = row[x] /\ (x \in running' <=> x \in running)
                                 /\ x \in Cameras => inferred'[x] = inferred[x]
                                 /\ x = Settings => applied' = applied,
           d # Nowhere /\ s \in alone => Reaches(s, d)'
    PROVE  AdminInv'
<1> USE DEF AdminInv
<1>1. Others(s) /\ pc'[s] = w /\ on'[s] = d /\ alone' = alone /\ mixed' = mixed
  BY DEF Others, Asked, history
<1>2. alone' \subseteq Busy'
  BY <1>1 DEF Asked, Busy, Others
<1>3. pc' \in [AdminRequests -> Wheres] /\ up
  BY DEF Asked
<1>4. Asked'
  <2>1. /\ on' \in [AdminRequests -> Rows \cup {Nowhere}]
        /\ op' \in [AdminRequests -> {"none", "create", "update", "delete"}]
        /\ wants' \in [AdminRequests -> Contents \cup {"none"}]
    BY DEF Asked
  <2> QED BY <1>1, <1>2, <1>3, <2>1, AskedKeeps
<1>5. RowsBut(d) /\ loose' = loose
  BY DEF RowsBut, history
<1>6. Settled'
  BY <1>1, <1>5, Within
<1>7. Serial'
  BY <1>1, SerialKeeps
<1> QED BY <1>4, <1>6, <1>7
-----------------------------------------------------------------------------
(* The steps of the handlers.                                                *)

LEMMA LoadKeeps == ASSUME AdminInv, NEW r \in AdminRequests, Load(r) PROVE AdminInv'
<1> PICK d : d = on[r]
  OBVIOUS
<1>1. /\ r \in Busy /\ Placed(r) /\ d \in scope /\ d \in Rows /\ d # Nowhere
      /\ pc[r] = "loading" /\ op[r] \in {"update", "delete"}
  BY KindsOfRows DEF Load, Busy, AdminInv, Asked, Placed, Stored
<1>2. CASE Refused(r)
  BY <1>2, RefusedKeeps DEF Load
<1>3. CASE ~Refused(r)
  <2> DEFINE w == IF d = Settings THEN "saving"
                  ELSE IF op[r] = "update" THEN "checking"
                  ELSE IF d \in Rules THEN "removing" ELSE "stopping"
  <2>1. /\ row[d] # Absent \/ d = Settings
        /\ seen' = [seen EXCEPT ![r] = row[d]] /\ pc' = [pc EXCEPT ![r] = w]
        /\ UNCHANGED <<op, on, wants, history, scope, row, runtime, up>>
    BY <1>3 DEF Load
  <2>2. d = Settings => scope = {Settings} /\ op[r] = "update"
    BY <1>1, KindsOfRows DEF AdminInv, Stored, Placed
  <2>3. Stored'
    BY <2>1 DEF AdminInv, Stored, runtime, history
  <2>4. /\ pc'[r] = w /\ seen'[r] = row[d] /\ row[d] \in Contents
        /\ seen' \in [AdminRequests -> Contents \cup {"none"}]
        /\ \A s \in AdminRequests \ {r} : seen'[s] = seen[s]
    BY <1>1, <2>1 DEF AdminInv, Asked, Stored
  <2>5. Placed(r)'
    BY <1>1, <2>1, <2>2, <2>4 DEF Placed, Rows
  <2>6. w = "saving" => Admissible(r)'
    BY <2>1, <2>2, AdministrationAssumption DEF Admissible
  <2>7. ASSUME r \in alone PROVE Reaches(r, d)'
    <3>1. d \notin loose => Agrees(d)
      BY <1>1, <2>7 DEF AdminInv, Settled, Undisturbed, Reaches
    <3>2. d \notin loose' => Agrees(d)'
      BY <3>1, <2>1 DEF Agrees, history, runtime
    <3>3. w = "removing" => d \notin Cameras \cup Gates
      BY AdministrationAssumption
    <3>4. d \in running' => d \in Cameras \cup Gates
      BY <2>3 DEF Stored
    <3> QED BY <2>1, <2>4, <3>2, <3>3, <3>4 DEF Reaches
  <2>8. InLine' <=> InLine
    BY <2>1 DEF InLine, Active
  <2>9. w \in Wheres \ {"idle"}
    BY DEF Wheres
  <2> HIDE DEF w
  <2> QED BY <1>1, <2>1, <2>3, <2>4, <2>5, <2>6, <2>7, <2>8, <2>9, GoesOn DEF runtime
<1> QED BY <1>2, <1>3

LEMMA CheckKeeps == ASSUME AdminInv, NEW r \in AdminRequests, Check(r) PROVE AdminInv'
<1> PICK d : d = on[r]
  OBVIOUS
<1>1. r \in Busy /\ Placed(r) /\ pc[r] = "checking"
  BY DEF Check, Busy, AdminInv, Asked
<1>2. CASE Refused(r)
  BY <1>1, <1>2, RefusedKeeps DEF Check
<1>3. CASE ~Refused(r)
  <2>1. /\ Admissible(r) /\ pc' = [pc EXCEPT ![r] = "saving"]
        /\ UNCHANGED <<op, on, wants, seen, history, scope, row, runtime, up>>
    BY <1>3 DEF Check, Proceeds
  <2>2. Stored'
    BY <2>1 DEF AdminInv, Stored, runtime, history
  <2>3. pc'[r] = "saving" /\ seen' \in [AdminRequests -> Contents \cup {"none"}]
    BY <2>1 DEF AdminInv, Asked
  <2>4. Placed(r)'
    BY <1>1, <2>1, <2>3 DEF Placed
  <2>5. Admissible(r)'
    BY <2>1 DEF Admissible, Fits, Taken, Active
  <2>6. ASSUME d # Nowhere, r \in alone PROVE Reaches(r, d)'
    <3>1. Reaches(r, d)
      BY <2>6 DEF AdminInv, Settled, Undisturbed
    <3> QED BY <1>1, <2>1, <2>3, <3>1 DEF Reaches, Agrees, history, runtime
  <2>7. InLine' <=> InLine
    BY <2>1 DEF InLine, Active
  <2>8. "saving" \in Wheres \ {"idle"}
    BY DEF Wheres
  <2> QED BY <1>1, <2>1, <2>2, <2>3, <2>4, <2>5, <2>6, <2>7, <2>8, GoesOn DEF runtime
<1> QED BY <1>2, <1>3

LEMMA RefreshKeeps == ASSUME AdminInv, NEW r \in AdminRequests, Refresh(r) PROVE AdminInv'
<1> PICK d : d = on[r]
  OBVIOUS
<1>1. /\ r \in Busy /\ Placed(r) /\ d \in scope /\ d \in Rows \ {Settings} /\ d # Nowhere
      /\ pc[r] = "refreshing" /\ op[r] \in {"create", "update"}
  BY KindsOfRows DEF Refresh, Busy, AdminInv, Asked, Placed, Stored
<1>2. UNCHANGED <<scope, row, runtime, up>>
  BY DEF Refresh
<1>3. InLine' <=> InLine
  BY <1>2 DEF InLine, Active
<1>4. CASE Fails(r)
  <2>1. Stored'
    BY <1>1, <1>2, <1>4 DEF AdminInv, Stored, Fails, runtime
  <2> QED BY <1>1, <1>2, <1>4, <2>1, FailsKeeps DEF runtime
<1>5. CASE d \in Rules /\ Succeeds(r)
  <2>1. Agrees(d)'
    BY <1>5, AdministrationAssumption DEF Agrees
  <2>2. Stored'
    BY <1>2, <1>5 DEF AdminInv, Stored, Succeeds, runtime
  <2> QED BY <1>1, <1>2, <1>3, <1>5, <2>1, <2>2, SucceedsKeeps DEF runtime
<1>6. CASE /\ row[d] # Absent /\ d \notin Rules
           /\ seen' = [seen EXCEPT ![r] = row[d]] /\ pc' = [pc EXCEPT ![r] = "applying"]
           /\ UNCHANGED <<op, on, wants, history>>
  <2>1. Stored'
    BY <1>2, <1>6 DEF AdminInv, Stored, runtime, history
  <2>2. /\ pc'[r] = "applying" /\ seen'[r] = row[d] /\ row[d] \in Contents
        /\ seen' \in [AdminRequests -> Contents \cup {"none"}]
        /\ \A s \in AdminRequests \ {r} : seen'[s] = seen[s]
    BY <1>1, <1>6 DEF AdminInv, Asked, Stored
  <2>3. Placed(r)'
    <3>1. d \in Cameras \cup Gates /\ row[d] \in Says(d)
      BY <1>1, <1>6 DEF Rows, AdminInv, Stored
    <3> QED BY <1>1, <1>2, <1>6, <2>2, <3>1 DEF Placed
  <2>4. ASSUME r \in alone PROVE Reaches(r, d)'
    <3>1. op[r] = "create" => (d \notin loose => d \notin running)
      BY <1>1, <2>4 DEF AdminInv, Settled, Undisturbed, Reaches
    <3> QED BY <1>2, <1>6, <2>2, <3>1 DEF Reaches, runtime, history
  <2>5. "applying" \in Wheres \ {"idle"}
    BY DEF Wheres
  <2> QED BY <1>1, <1>2, <1>3, <1>6, <2>1, <2>2, <2>3, <2>4, <2>5, GoesOn DEF runtime
<1> QED BY <1>4, <1>5, <1>6 DEF Refresh

\* A write that was admissible keeps the rows in line.
LEMMA WriteInLine ==
    ASSUME Stored, InLine, NEW r \in AdminRequests, NEW d \in scope, Admissible(r),
           on[r] = d \/ (on[r] = Nowhere /\ row[d] = Absent),
           row' = [row EXCEPT ![d] = wants[r]]
    PROVE  InLine'
<1>1. d \in Rows /\ (d \in Cameras => Fits(r)) /\ (d \in Rules => ~Taken(r))
  BY KindsOfRows DEF Stored, Admissible
<1>2. IsFiniteSet(Active) /\ Active \subseteq Cameras
  BY AdministrationAssumption, FS_Subset DEF Active
<1>3. Active \ {on[r]} = Active \ {d}
  BY AdministrationAssumption DEF Active, Rows, Absent
<1>4. Active' = IF d \in Cameras /\ wants[r] = "on" THEN (Active \ {d}) \cup {d} ELSE Active \ {d}
  BY <1>1 DEF Active, Stored
<1>5. /\ IsFiniteSet(Active \ {d})
      /\ Cardinality(Active \ {d}) \in Nat /\ Cardinality(Active) \in Nat
      /\ Cardinality(Active \ {d}) <= Cardinality(Active)
      /\ Cardinality((Active \ {d}) \cup {d}) = Cardinality(Active \ {d}) + 1
  <2>1. IsFiniteSet(Active \ {d}) /\ Cardinality(Active \ {d}) <= Cardinality(Active)
    BY <1>2, FS_Subset
  <2> QED BY <1>2, <2>1, FS_AddElement, FS_CardinalityType
<1>6. Cardinality(Active') <= MaxActive
  <2>1. CASE d \in Cameras /\ wants[r] = "on"
    <3>1. Cardinality(Active \ {d}) < MaxActive
      BY <1>1, <1>3, <2>1 DEF Fits
    <3> QED BY <2>1, <3>1, <1>4, <1>5, AdministrationAssumption
  <2>2. CASE ~(d \in Cameras /\ wants[r] = "on")
    BY <2>2, <1>4, <1>5, AdministrationAssumption DEF InLine
  <2> QED BY <2>1, <2>2
<1>7. \A x, y \in Rules : row'[x] = "fallback" /\ row'[y] = "fallback" => x = y
  BY <1>1, AdministrationAssumption DEF Stored, InLine, Taken, Rows
<1> QED BY <1>6, <1>7 DEF InLine

\* What a write leaves of the rows.
LEMMA WriteStored ==
    ASSUME Stored, NEW r \in AdminRequests, NEW d \in scope, ~Conflict(r, d),
           wants[r] \in Says(d), row' = [row EXCEPT ![d] = wants[r]]
    PROVE  /\ row' \in [Rows -> Contents] /\ \A x \in Rows : row'[x] \in Says(x) \cup {Absent}
           /\ \A x, y \in Rules : row'[x] = "exact" /\ row'[y] = "exact" => x = y
           /\ \A x \in Rows \ {d} : row'[x] = row[x]
           /\ row'[d] = wants[r]
<1>1. d \in Rows /\ Rules \subseteq Rows /\ Says(d) \subseteq Contents
  BY KindsOfRows, Sayings DEF Stored, Rows
<1> QED BY <1>1 DEF Stored, Conflict

LEMMA InsertKeeps == ASSUME AdminInv, NEW r \in AdminRequests, Insert(r) PROVE AdminInv'
<1> USE DEF AdminInv
<1>1. PICK d \in scope : /\ row[d] = Absent
                         /\ \/ Refused(r) /\ UNCHANGED row
                            \/ /\ ~Conflict(r, d)
                               /\ row' = [row EXCEPT ![d] = wants[r]]
                               /\ on' = [on EXCEPT ![r] = d]
                               /\ Saved(r, d) /\ Overlaps(r, d)
                               /\ UNCHANGED <<op, wants, seen, mixed>>
  BY DEF Insert
<1>2. /\ r \in Busy /\ up /\ Placed(r) /\ pc[r] = "saving" /\ op[r] = "create" /\ on[r] = Nowhere
      /\ d \in Rows \ {Settings} /\ d # Nowhere /\ wants[r] \in Says(d) /\ wants[r] # Absent
      /\ UNCHANGED <<scope, runtime, up>>
  <2>1. r \in Busy /\ up /\ Placed(r) /\ UNCHANGED <<scope, runtime, up>>
    BY DEF Insert, Busy, Asked
  <2>2. d \in Rows \ {Settings} /\ d # Nowhere /\ wants[r] \in Says(d)
    BY <2>1, KindsOfRows DEF Insert, Placed, Stored
  <2> QED BY <2>1, <2>2, Sayings DEF Insert, Placed
<1>3. CASE Refused(r) /\ UNCHANGED row
  BY <1>2, <1>3, RefusedKeeps
<1>4. CASE ~(Refused(r) /\ UNCHANGED row)
  <2>1. /\ ~Conflict(r, d) /\ row' = [row EXCEPT ![d] = wants[r]] /\ on' = [on EXCEPT ![r] = d]
        /\ pc' = [pc EXCEPT ![r] = "refreshing"] /\ Overlaps(r, d)
        /\ UNCHANGED <<op, wants, seen, mixed>>
    BY <1>1, <1>2, <1>4 DEF Saved
  <2>2. /\ \A x \in Rows \ {d} : row'[x] = row[x]
        /\ row'[d] = wants[r] /\ Stored'
    BY <1>2, <2>1, WriteStored DEF Stored, Overlaps, runtime
  <2>3. /\ Others(r) /\ pc'[r] = "refreshing" /\ on'[r] = d
        /\ pc' \in [AdminRequests -> Wheres] /\ on' \in [AdminRequests -> Rows \cup {Nowhere}]
    BY <1>2, <2>1 DEF Asked, Others, Wheres
  <2>4. Placed(r)'
    BY <1>2, <2>1, <2>3 DEF Placed
  <2>5. alone' \subseteq Busy'
    BY <2>1, <2>3 DEF Overlaps, Busy, Others, Asked
  <2>6. Asked'
    <3>1. /\ op' \in [AdminRequests -> {"none", "create", "update", "delete"}]
          /\ wants' \in [AdminRequests -> Contents \cup {"none"}]
          /\ seen' \in [AdminRequests -> Contents \cup {"none"}]
      BY <2>1 DEF Asked
    <3> QED BY <1>2, <2>3, <2>4, <2>5, <3>1, AskedKeeps
  <2>7. ASSUME \A s \in Busy \ {r} : on[s] # d PROVE Reaches(r, d)'
    <3>1. loose' = loose
      BY <2>1, <2>7 DEF Overlaps
    <3>2. \A s \in Busy : on[s] # d
      BY <1>2, <2>7
    <3>3. d \notin loose => d \notin running
      BY <1>1, <1>2, <3>2 DEF Settled, AgreeInTurn, Stored, Absent
    <3> QED BY <1>2, <2>2, <2>3, <3>1, <3>3 DEF Reaches, runtime
  <2>8. Settled'
    BY <1>2, <2>1, <2>2, <2>3, <2>7, Enters
  <2>9. ~mixed /\ InLine => InLine'
    BY <1>1, <1>2, <2>1, WriteInLine DEF Serial
  <2> QED BY <1>2, <2>1, <2>2, <2>3, <2>6, <2>8, <2>9, SerialKeeps
<1> QED BY <1>3, <1>4

LEMMA SaveKeeps == ASSUME AdminInv, NEW r \in AdminRequests, Save(r) PROVE AdminInv'
<1> USE DEF AdminInv
<1> PICK d : d = on[r]
  OBVIOUS
<1>1. /\ r \in Busy /\ Placed(r) /\ pc[r] = "saving" /\ op[r] = "update"
      /\ d \in scope /\ d \in Rows /\ d # Nowhere /\ wants[r] \in Says(d)
      /\ UNCHANGED <<scope, runtime, up>>
  BY KindsOfRows DEF Save, Busy, Asked, Placed, Stored
<1>2. CASE Refused(r) /\ UNCHANGED row
  BY <1>1, <1>2, RefusedKeeps
<1>3. CASE ~(Refused(r) /\ UNCHANGED row)
  <2> DEFINE w == IF d = Settings THEN "retention" ELSE "refreshing"
  <2>1. /\ row[d] # Absent \/ d = Settings
        /\ ~Conflict(r, d)
        /\ row' = IF wants[r] = seen[r] THEN row ELSE [row EXCEPT ![d] = wants[r]]
        /\ pc' = [pc EXCEPT ![r] = w]
        /\ UNCHANGED <<op, on, wants, seen, history>>
    BY <1>3 DEF Save, Saved
  <2>2. Stored' /\ \A x \in Rows \ {d} : row'[x] = row[x]
    <3>1. CASE wants[r] = seen[r]
      BY <1>1, <2>1, <3>1 DEF Stored, runtime, history
    <3>2. CASE wants[r] # seen[r]
      BY <1>1, <2>1, <3>2, WriteStored DEF Stored, runtime, history
    <3> QED BY <3>1, <3>2
  <2>3. pc'[r] = w /\ seen' \in [AdminRequests -> Contents \cup {"none"}] /\ w \in Wheres \ {"idle"}
    BY <2>1 DEF Asked, Wheres
  <2>4. Placed(r)'
    BY <1>1, <2>1, <2>3 DEF Placed
  <2>5. ASSUME r \in alone PROVE Reaches(r, d)'
    <3>1. seen[r] = row[d]
      BY <1>1, <2>5 DEF Settled, Undisturbed, Reaches
    <3>2. row'[d] = wants[r]
      BY <1>1, <2>1, <3>1 DEF Stored
    <3>3. d # Settings => wants[r] # Absent
      BY <1>1, Sayings
    <3> QED BY <1>1, <2>1, <2>3, <3>2, <3>3 DEF Reaches
  <2>6. ~mixed /\ InLine => InLine'
    <3>1. CASE wants[r] = seen[r]
      BY <2>1, <3>1 DEF InLine, Active
    <3>2. CASE wants[r] # seen[r]
      BY <1>1, <2>1, <3>2, WriteInLine DEF Serial
    <3> QED BY <3>1, <3>2
  <2>7. w # "saving"
    OBVIOUS
  <2> HIDE DEF w
  <2> QED BY <1>1, <2>1, <2>2, <2>3, <2>4, <2>5, <2>6, <2>7, GoesOn DEF runtime
<1> QED BY <1>2, <1>3

LEMMA ApplyKeeps == ASSUME AdminInv, NEW r \in AdminRequests, Apply(r) PROVE AdminInv'
<1> USE DEF AdminInv
<1> PICK d : d = on[r]
  OBVIOUS
<1>1. /\ r \in Busy /\ Placed(r) /\ pc[r] = "applying" /\ op[r] \in {"create", "update"}
      /\ d \in Cameras \cup Gates /\ d # Nowhere /\ seen[r] \in {"off", "on"}
      /\ UNCHANGED <<scope, row, inferred, applied, up>>
  BY Sayings, AdministrationAssumption DEF Apply, Busy, Asked, Placed, Rows
<1>2. /\ d # Settings /\ running' \in {running, running \cup {d}, running \ {d}}
      /\ running' \subseteq Cameras \cup Gates
      /\ \A x \in Rows \ {d} : x \in running' <=> x \in running
  BY <1>1, AdministrationAssumption DEF Apply, Stored, Rows
<1>3. InLine' <=> InLine
  BY <1>1 DEF InLine, Active
<1>4. CASE Fails(r)
  <2>1. Stored'
    BY <1>1, <1>2, <1>4 DEF Stored, Fails, Rows
  <2> QED BY <1>1, <1>2, <1>4, <2>1, FailsKeeps
<1>5. CASE /\ Continues(r)
           /\ IF Tells(r) THEN d \in running' <=> Runs(r) ELSE running' = running
  <2>1. Stored'
    BY <1>1, <1>2, <1>5 DEF Stored, Continues, Succeeds, history
  <2>2. ASSUME r \in alone PROVE seen[r] = row[d]
    BY <1>1, <2>2 DEF Settled, Undisturbed, Reaches
  <2>3. ASSUME r \in alone
        PROVE  /\ seen[r] = row'[d]
               /\ Tells(r) \/ d \notin loose => (d \in running' <=> row'[d] = "on")
    <3>1. CASE Tells(r)
      BY <1>1, <1>5, <2>2, <2>3, <3>1 DEF Runs
    <3>2. CASE ~Tells(r)
      <4>1. op[r] = "create" /\ seen[r] # "on" /\ running' = running
        BY <1>5, <3>2 DEF Tells, Runs
      <4>2. d \notin loose => d \notin running
        BY <1>1, <2>3, <4>1 DEF Settled, Undisturbed, Reaches
      <4> QED BY <1>1, <2>2, <2>3, <3>2, <4>1, <4>2
    <3> QED BY <3>1, <3>2
  <2>4. CASE d \in Cameras
    <3>1. pc' = [pc EXCEPT ![r] = "inferring"] /\ UNCHANGED <<op, on, wants, seen, history>>
      BY <1>5, <2>4 DEF Continues, Proceeds
    <3>2. pc'[r] = "inferring" /\ seen' \in [AdminRequests -> Contents \cup {"none"}]
      BY <3>1 DEF Asked
    <3>3. Placed(r)'
      BY <1>1, <2>4, <3>1, <3>2, Sayings DEF Placed
    <3>4. "inferring" \in Wheres \ {"idle"}
      BY DEF Wheres
    <3>5. r \in alone => Reaches(r, d)'
      BY <1>1, <2>3, <3>1, <3>2 DEF Reaches, Tells, Runs, history
    <3> QED BY <1>1, <1>2, <1>3, <2>1, <3>1, <3>2, <3>3, <3>4, <3>5, GoesOn
  <2>5. CASE d \notin Cameras
    <3>1. Succeeds(r)
      BY <1>5, <2>5 DEF Continues
    <3>2. r \in alone /\ (Tells(r) \/ d \notin loose) => Agrees(d)'
      BY <1>2, <2>3, <2>5 DEF Agrees
    <3> QED BY <1>1, <1>2, <1>3, <2>1, <3>1, <3>2, SucceedsKeeps
  <2> QED BY <2>4, <2>5
<1> QED BY <1>1, <1>4, <1>5, AdministrationAssumption DEF Apply, Tells

LEMMA InferKeeps == ASSUME AdminInv, NEW r \in AdminRequests, Infer(r) PROVE AdminInv'
<1> USE DEF AdminInv
<1> PICK d : d = on[r]
  OBVIOUS
<1>1. /\ r \in Busy /\ Placed(r) /\ pc[r] = "inferring"
      /\ d \in Cameras /\ d \in Rows /\ d # Nowhere /\ d # Settings /\ d \in scope
      /\ op[r] # "delete" => seen[r] \in {"off", "on"}
      /\ UNCHANGED <<scope, row, running, applied, up>>
  BY Sayings, AdministrationAssumption DEF Infer, Busy, Asked, Placed, Rows
<1>2. InLine' <=> InLine
  BY <1>1 DEF InLine, Active
<1>3. ASSUME r \in alone
      PROVE IF op[r] = "delete" THEN d \notin running
            ELSE /\ seen[r] = row[d]
                 /\ Tells(r) \/ d \notin loose => (d \in running <=> row[d] = "on")
  BY <1>1, <1>3 DEF Settled, Undisturbed, Reaches
<1> DEFINE told == [inferred EXCEPT ![d] = IF op[r] = "delete" THEN Absent ELSE seen[r]]
<1>4. CASE inferred' \in {inferred, told} /\ Fails(r)
  <2>1. /\ inferred' \in [Cameras -> {"off", "on", Absent}]
        /\ \A x \in Cameras \ {d} : inferred'[x] = inferred[x]
    BY <1>1, <1>4 DEF Stored
  <2>2. Stored'
    BY <1>1, <1>4, <2>1 DEF Stored, Fails
  <2> QED BY <1>1, <1>4, <2>1, <2>2, FailsKeeps
<1>5. CASE /\ op[r] = "delete" /\ inferred' = [inferred EXCEPT ![d] = Absent]
           /\ Proceeds(r, "removing") /\ UNCHANGED history
  <2>1. Stored' /\ inferred'[d] = Absent /\ \A x \in Cameras \ {d} : inferred'[x] = inferred[x]
    BY <1>1, <1>5 DEF Stored, history
  <2>2. /\ pc' = [pc EXCEPT ![r] = "removing"] /\ pc'[r] = "removing"
        /\ UNCHANGED <<op, on, wants, seen, history>>
        /\ seen' \in [AdminRequests -> Contents \cup {"none"}]
    BY <1>5 DEF Proceeds, Asked
  <2>3. Placed(r)'
    BY <1>1, <1>5, <2>2 DEF Placed
  <2>4. "removing" \in Wheres \ {"idle"}
    BY DEF Wheres
  <2>5. r \in alone => Reaches(r, d)'
    BY <1>1, <1>3, <1>5, <2>1, <2>2 DEF Reaches
  <2> QED BY <1>1, <1>2, <2>1, <2>2, <2>3, <2>4, <2>5, GoesOn
<1>6. CASE /\ op[r] # "delete" /\ inferred' = [inferred EXCEPT ![d] = seen[r]] /\ Succeeds(r)
  <2>1. Stored' /\ inferred'[d] = seen[r] /\ \A x \in Cameras \ {d} : inferred'[x] = inferred[x]
    BY <1>1, <1>6 DEF Stored, Succeeds
  <2>2. r \in alone /\ (Tells(r) \/ d \notin loose) => Agrees(d)'
    BY <1>1, <1>3, <1>6, <2>1 DEF Agrees
  <2> QED BY <1>1, <1>2, <1>6, <2>1, <2>2, SucceedsKeeps
<1> QED BY <1>4, <1>5, <1>6 DEF Infer

LEMMA StopKeeps == ASSUME AdminInv, NEW r \in AdminRequests, Stop(r) PROVE AdminInv'
<1> USE DEF AdminInv
<1> PICK d : d = on[r]
  OBVIOUS
<1>1. /\ r \in Busy /\ Placed(r) /\ pc[r] = "stopping" /\ op[r] = "delete"
      /\ d \in Cameras \cup Gates /\ d \in Rows /\ d # Nowhere /\ d # Settings
      /\ UNCHANGED <<scope, row, inferred, applied, up>>
  BY AdministrationAssumption DEF Stop, Busy, Asked, Placed, Rows
<1>2. InLine' <=> InLine
  BY <1>1 DEF InLine, Active
<1>3. CASE UNCHANGED running /\ Fails(r)
  <2>1. Stored'
    BY <1>1, <1>3 DEF Stored, Fails
  <2> QED BY <1>1, <1>3, <2>1, FailsKeeps
<1>4. CASE ~(UNCHANGED running /\ Fails(r))
  <2> DEFINE w == IF d \in Cameras THEN "inferring" ELSE "removing"
  <2>1. /\ running' = running \ {d} /\ pc' = [pc EXCEPT ![r] = w]
        /\ UNCHANGED <<op, on, wants, seen, history>>
    BY <1>4 DEF Stop, Proceeds
  <2>2. Stored'
    BY <1>1, <2>1 DEF Stored, history
  <2>3. pc'[r] = w /\ w \in Wheres \ {"idle"} /\ seen' \in [AdminRequests -> Contents \cup {"none"}]
    BY <2>1 DEF Asked, Wheres
  <2>4. Placed(r)'
    BY <1>1, <2>1, <2>3 DEF Placed
  <2>5. Reaches(r, d)'
    BY <1>1, <2>1, <2>3 DEF Reaches
  <2>6. w # "saving"
    OBVIOUS
  <2> HIDE DEF w
  <2> QED BY <1>1, <1>2, <2>1, <2>2, <2>3, <2>4, <2>5, <2>6, GoesOn
<1> QED BY <1>3, <1>4

LEMMA RemoveKeeps == ASSUME AdminInv, NEW r \in AdminRequests, Remove(r) PROVE AdminInv'
<1> USE DEF AdminInv
<1> PICK d : d = on[r]
  OBVIOUS
<1>1. /\ r \in Busy /\ Placed(r) /\ pc[r] = "removing" /\ op[r] = "delete"
      /\ d \in scope /\ d \in Rows \ {Settings} /\ d # Nowhere
      /\ UNCHANGED <<scope, runtime, up>>
  BY KindsOfRows DEF Remove, Busy, Asked, Placed, Stored
<1>2. CASE UNCHANGED row /\ Fails(r)
  <2>1. Stored'
    BY <1>1, <1>2 DEF Stored, Fails, runtime
  <2> QED BY <1>1, <1>2, <2>1, FailsKeeps DEF runtime
<1>3. CASE row' = [row EXCEPT ![d] = Absent] /\ Succeeds(r)
  <2>1. /\ row' \in [Rows -> Contents] /\ row'[d] = Absent
        /\ \A x \in Rows \ {d} : row'[x] = row[x]
    BY <1>1, <1>3 DEF Stored, Contents
  <2>2. Stored'
    BY <1>1, <1>3, <2>1 DEF Stored, Succeeds, runtime, Rows, Absent
  <2>3. ASSUME InLine PROVE InLine'
    <3>1. Active' \subseteq Active
      BY <2>1 DEF Active, Rows, Absent
    <3>2. IsFiniteSet(Active)
      BY AdministrationAssumption, FS_Subset DEF Active
    <3>3. Cardinality(Active') <= Cardinality(Active)
      BY <3>1, <3>2, FS_Subset
    <3>4. Cardinality(Active') \in Nat /\ Cardinality(Active) \in Nat
      BY <3>1, <3>2, FS_Subset, FS_CardinalityType
    <3>5. \A x, y \in Rules : row'[x] = "fallback" /\ row'[y] = "fallback" => x = y
      BY <2>1, <2>3 DEF InLine, Rows, Absent
    <3> QED BY <2>3, <3>3, <3>4, <3>5, AdministrationAssumption DEF InLine
  <2>4. ASSUME r \in alone PROVE Agrees(d)'
    <3>1. d \notin running /\ (d \in Cameras => inferred[d] = Absent)
      BY <1>1, <1>3, <2>4 DEF Settled, Undisturbed, Reaches
    <3> QED BY <1>1, <1>3, <2>1, <3>1 DEF Agrees, runtime, Absent
  <2> QED BY <1>1, <1>3, <2>1, <2>2, <2>3, <2>4, SucceedsKeeps DEF runtime
<1> QED BY <1>2, <1>3 DEF Remove

\* The settings go to three components, one after the other.
LEMMA SettingsKeep ==
    ASSUME AdminInv, NEW r \in AdminRequests, Retain(r) \/ Snapshots(r) \/ Configure(r)
    PROVE  AdminInv'
<1> USE DEF AdminInv
<1> PICK d : d = on[r]
  OBVIOUS
<1>1. /\ r \in Busy /\ Placed(r) /\ op[r] = "update" /\ wants[r] \in Values
      /\ pc[r] \in {"retention", "snapshots", "inference"}
      /\ d = Settings /\ d \in Rows /\ d # Nowhere
      /\ UNCHANGED <<scope, row, running, inferred, up>>
  BY Sayings, AdministrationAssumption
     DEF Retain, Snapshots, Configure, Busy, Asked, Placed, Rows, Stored
<1>2. InLine' <=> InLine
  BY <1>1 DEF InLine, Active
<1>3. ASSUME r \in alone
      PROVE  /\ row[d] = wants[r]
             /\ pc[r] \in {"snapshots", "inference"} => applied["retention"] = wants[r]
             /\ pc[r] = "inference" => applied["snapshots"] = wants[r]
  BY <1>1, <1>3 DEF Settled, Undisturbed, Reaches
<1>4. applied' \in [Parts -> Values \cup {Absent}]
  BY <1>1 DEF Retain, Snapshots, Configure, Stored
<1>5. ASSUME Fails(r) PROVE AdminInv'
  <2>1. Stored'
    BY <1>1, <1>4, <1>5 DEF Stored, Fails
  <2> QED BY <1>1, <1>5, <2>1, FailsKeeps
<1>6. ASSUME Proceeds(r, IF pc[r] = "retention" THEN "snapshots" ELSE "inference"),
             UNCHANGED history, pc[r] # "inference",
             applied' = [applied EXCEPT ![pc[r]] = wants[r]]
      PROVE  AdminInv'
  <2>1. Stored' /\ applied'[pc[r]] = wants[r] /\ \A p \in Parts \ {pc[r]} : applied'[p] = applied[p]
    BY <1>1, <1>4, <1>6 DEF Stored, history, Parts
  <2> DEFINE w == IF pc[r] = "retention" THEN "snapshots" ELSE "inference"
  <2>2. /\ pc' = [pc EXCEPT ![r] = w] /\ pc'[r] = w /\ w \in Wheres \ {"idle"} /\ w # "saving"
        /\ UNCHANGED <<op, on, wants, seen, history>>
        /\ seen' \in [AdminRequests -> Contents \cup {"none"}]
    BY <1>6 DEF Proceeds, Asked, Wheres
  <2>3. Placed(r)'
    <3>1. pc'[r] \in {"snapshots", "inference"}
      BY <2>2
    <3> HIDE DEF w
    <3> QED BY <1>1, <2>2, <3>1 DEF Placed
  <2>4. r \in alone => Reaches(r, d)'
    BY <1>1, <1>3, <1>6, <2>1, <2>2 DEF Reaches, Parts
  <2> HIDE DEF w
  <2> QED BY <1>1, <1>2, <2>1, <2>2, <2>3, <2>4, GoesOn
<1>7. ASSUME Succeeds(r), pc[r] = "inference",
             \/ applied' = [applied EXCEPT !["inference"] = wants[r]]
             \/ applied' = [p \in Parts |-> wants[r]]
      PROVE  AdminInv'
  <2>1. Stored'
    BY <1>1, <1>4, <1>7 DEF Stored, Succeeds
  <2>2. ASSUME r \in alone PROVE Agrees(d)'
    <3>1. \A p \in Parts : applied'[p] = wants[r]
      BY <1>3, <1>7, <2>2 DEF Parts, Stored
    <3> QED BY <1>1, <1>3, <2>2, <3>1, AdministrationAssumption DEF Agrees
  <2> QED BY <1>1, <1>2, <1>7, <2>1, <2>2, SucceedsKeeps
<1> QED BY <1>5, <1>6, <1>7 DEF Retain, Snapshots, Configure

\* A request begins: to create a row, or about one that may be there.
LEMMA BeginKeeps ==
    ASSUME AdminInv, NEW r \in AdminRequests, Create(r) \/ Update(r) \/ Delete(r)
    PROVE  AdminInv'
<1> USE DEF AdminInv
<1>1. PICK what \in {"create", "update", "delete"}, d \in scope \cup {Nowhere},
           v \in Contents \cup {"none"} :
        /\ Begin(r, what, d, v)
        /\ what = "create" <=> d = Nowhere
        /\ what \in {"create", "delete"} => scope # {Settings}
        /\ what # "delete" => \A x \in scope : v \in Says(x)
  <2>0. /\ scope \in Kinds /\ \A x \in scope : Says(x) \subseteq Contents /\ x # Nowhere
        /\ \A x, y \in scope : Says(x) = Says(y)
    <3>1. \A x \in scope : Says(x) \subseteq Contents /\ x # Nowhere
      BY KindsOfRows, Sayings DEF Stored
    <3>2. \A x, y \in scope : Says(x) = Says(y)
      BY Sayings DEF Stored, Kinds
    <3> QED BY <3>1, <3>2 DEF Stored
  <2>1. CASE Create(r)
    BY <2>0, <2>1 DEF Create
  <2>2. CASE Update(r)
    <3>1. PICK d \in scope : \E v \in Says(d) : Begin(r, "update", d, v)
      BY <2>2 DEF Update
    <3>2. PICK v \in Says(d) : Begin(r, "update", d, v)
      BY <3>1
    <3> QED BY <2>0, <3>2
  <2>3. CASE Delete(r)
    BY <2>0, <2>3 DEF Delete
  <2> QED BY <2>1, <2>2, <2>3
<1> DEFINE w == IF what = "create" THEN "checking" ELSE "loading"
<1>2. /\ up /\ pc[r] = "idle" /\ on[r] = Nowhere /\ r \notin Busy /\ r \notin alone
      /\ op' = [op EXCEPT ![r] = what] /\ on' = [on EXCEPT ![r] = d]
      /\ wants' = [wants EXCEPT ![r] = v] /\ pc' = [pc EXCEPT ![r] = w]
      /\ Overlaps(r, d) /\ mixed' = IF Busy = {} THEN mixed /\ ~InLine ELSE TRUE
      /\ UNCHANGED <<scope, row, runtime, up, seen>>
  BY <1>1 DEF Begin, Asked, Placed, Busy
<1>3. d \in Rows \cup {Nowhere} /\ (d # Nowhere => d \in Rows /\ d \in scope)
  BY KindsOfRows DEF Stored
<1>4. w \in Wheres \ {"idle", "saving"}
  BY DEF Wheres
<1>5. /\ Others(r) /\ pc'[r] = w /\ op'[r] = what /\ on'[r] = d /\ wants'[r] = v
      /\ pc' \in [AdminRequests -> Wheres] /\ on' \in [AdminRequests -> Rows \cup {Nowhere}]
      /\ op' \in [AdminRequests -> {"none", "create", "update", "delete"}]
      /\ wants' \in [AdminRequests -> Contents \cup {"none"}]
      /\ seen' \in [AdminRequests -> Contents \cup {"none"}]
  <2> HIDE DEF w
  <2> QED BY <1>2, <1>3, <1>4 DEF Asked, Others
<1>6. Stored'
  BY <1>2, <1>3 DEF Stored, Overlaps, runtime
<1>7. Asked'
  <2>1. Placed(r)'
    BY <1>1, <1>2, <1>3, <1>5 DEF Placed
  <2>2. alone' \subseteq Busy'
    BY <1>2, <1>4, <1>5 DEF Overlaps, Busy, Others, Asked
  <2> QED BY <1>2, <1>5, <2>1, <2>2, AskedKeeps
<1>8. ASSUME d # Nowhere, \A s \in Busy \ {r} : on[s] # d PROVE Reaches(r, d)'
  <2>1. loose' = loose
    BY <1>2, <1>8 DEF Overlaps
  <2>2. d \notin loose => Agrees(d)
    BY <1>2, <1>3, <1>8 DEF Settled, AgreeInTurn, Agrees
  <2>3. d \notin loose' => Agrees(d)'
    BY <1>2, <2>1, <2>2 DEF Agrees, runtime
  <2> QED BY <1>1, <1>5, <1>8, <2>3 DEF Reaches
<1>9. Settled'
  <2> HIDE DEF w
  <2> QED BY <1>2, <1>3, <1>4, <1>5, <1>8, Enters
<1>10. Serial'
  <2> SUFFICES ASSUME ~mixed' PROVE Serial'
    BY DEF Serial
  <2>1. Busy = {} /\ InLine
    BY <1>2 DEF Serial
  <2>2. \A s \in Busy' : s = r
    BY <2>1, <1>5 DEF Busy, Others
  <2>3. InLine'
    BY <1>2, <2>1 DEF InLine, Active
  <2> QED BY <1>4, <1>5, <2>2, <2>3 DEF Serial
<1> QED BY <1>6, <1>7, <1>9, <1>10

LEMMA BootKeeps == ASSUME AdminInv, Boot PROVE AdminInv'
<1> USE DEF AdminInv
<1>1. /\ ~up /\ up' /\ Busy = {} /\ alone = {}
      /\ UNCHANGED <<scope, row, requests, alone, mixed>>
      /\ inferred' = [c \in Cameras |-> row[c]] /\ applied' = [p \in Parts |-> row[Settings]]
  BY DEF Boot, Asked
<1>2. /\ running' \subseteq {d \in Cameras \cup Gates : row[d] = "on"}
      /\ loose' = {d \in Cameras \cup Gates : row[d] = "on"} \ running'
  BY DEF Boot
<1>3. Cameras \subseteq Rows /\ Gates \subseteq Rows /\ Settings \in Rows
  BY DEF Rows
<1>4. Stored'
  <2>1. \A c \in Cameras : row[c] \in {"off", "on", Absent}
    BY <1>3, Sayings DEF Stored
  <2>2. row[Settings] \in Values \cup {Absent}
    BY <1>3, Sayings DEF Stored
  <2> QED BY <1>1, <1>2, <1>3, <2>1, <2>2 DEF Stored
<1>5. Busy' = {} /\ alone' = {}
  BY <1>1 DEF Busy, requests
<1>6. Asked'
  <2>1. ASSUME NEW r \in AdminRequests PROVE Placed(r)'
    BY <1>1 DEF Asked, Placed, requests
  <2> QED BY <1>1, <1>5, <2>1, Zenon DEF Asked, requests, Boot
<1>7. Settled'
  <2>1. \A d \in Rows \ loose' : Agrees(d)'
    BY <1>1, <1>2, <1>3, AdministrationAssumption DEF Agrees, Rows
  <2> QED BY <1>5, <2>1 DEF Settled, Apart, Undisturbed, AgreeInTurn, Agrees
<1>8. Serial'
  BY <1>1, <1>5 DEF Serial, InLine, Active
<1> QED BY <1>4, <1>6, <1>7, <1>8

LEMMA CrashKeeps == ASSUME AdminInv, Crash PROVE AdminInv'
<1> USE DEF AdminInv
<1>1. Busy' = {} /\ alone' = {} /\ ~up'
  BY DEF Crash, Busy
<1>2. Stored'
  BY DEF Crash, Stored
<1>3. Asked'
  <2>1. ASSUME NEW r \in AdminRequests PROVE Placed(r)'
    BY DEF Crash, Placed
  <2>2. "idle" \in Wheres
    BY DEF Wheres
  <2> QED BY <1>1, <2>1, <2>2 DEF Crash, Asked
<1>4. Settled'
  BY <1>1 DEF Settled, Apart, Undisturbed, AgreeInTurn
<1>5. Serial'
  BY <1>1 DEF Crash, Serial, InLine, Active
<1> QED BY <1>2, <1>3, <1>4, <1>5

\* What rows, runtime and requests hold, how far each request has brought its row, and
\* what it has checked, hold at first and are preserved by every step.
LEMMA AdminHolds == AdminSpec => []AdminInv
<1>1. AdminInit => AdminInv
  <2> SUFFICES ASSUME AdminInit PROVE AdminInv
    OBVIOUS
  <2>1. Busy = {} /\ alone = {} /\ ~up /\ Active = {}
    BY DEF AdminInit, Busy, Active, Rows, Absent
  <2>2. Stored
    BY DEF AdminInit, Stored, Contents, Absent, Rows
  <2>3. Asked
    BY <2>1 DEF AdminInit, Asked, Placed, Wheres
  <2>4. InLine
    BY <2>1, FS_EmptySet, AdministrationAssumption DEF InLine, AdminInit, Rows, Absent
  <2>5. Settled /\ Serial
    BY <2>1, <2>4 DEF Settled, Apart, Undisturbed, AgreeInTurn, Serial
  <2> QED BY <2>2, <2>3, <2>5 DEF AdminInv
<1>2. AdminInv /\ [AdminNext]_adminVars => AdminInv'
  <2> SUFFICES ASSUME AdminInv, [AdminNext]_adminVars PROVE AdminInv'
    OBVIOUS
  <2>1. CASE UNCHANGED adminVars
    <3>1. UNCHANGED <<scope, row, running, inferred, applied, up, pc, op, on, wants, seen,
                      alone, loose, mixed>>
      BY <2>1 DEF adminVars, runtime, requests, history
    <3>2. Stored' /\ Asked'
      BY <3>1 DEF AdminInv, Stored, Asked, Placed, Busy
    <3>3. Settled'
      BY <3>1 DEF AdminInv, Settled, Apart, Undisturbed, Reaches, Tells, Runs, Agrees, AgreeInTurn, Busy
    <3>4. Serial'
      BY <3>1 DEF AdminInv, Serial, InLine, Active, Busy, Admissible, Fits, Taken
    <3> QED BY <3>2, <3>3, <3>4 DEF AdminInv
  <2>2. CASE AdminNext
    BY <2>2, BootKeeps, CrashKeeps, BeginKeeps, LoadKeeps, CheckKeeps, InsertKeeps, SaveKeeps,
       RefreshKeeps, ApplyKeeps, InferKeeps, StopKeeps, RemoveKeeps, SettingsKeep DEF AdminNext
  <2> QED BY <2>1, <2>2
<1> QED BY <1>1, <1>2, PTL DEF AdminSpec

\* The rows and the runtime hold what they may, a request is where its kind and its row
\* allow, and two rules for one camera are never stored.
THEOREM RequestsInPlace == AdminSpec => []AdminTypeOK
<1>1. AdminInv => AdminTypeOK
  <2> SUFFICES ASSUME AdminInv PROVE AdminTypeOK
    OBVIOUS
  <2> USE DEF AdminInv
  <2>1. \A c \in Cameras : inferred[c] \in Says(c) \cup {Absent}
    BY Sayings DEF Stored
  <2>2. /\ \A d \in Rows : row[d] \in Says(d) \cup {Absent}
        /\ \A x, y \in Rules : row[x] = "exact" /\ row[y] = "exact" => x = y
        /\ running \subseteq Cameras \cup Gates /\ loose \subseteq Rows
        /\ \A p \in Parts : applied[p] \in Values \cup {Absent}
    BY DEF Stored
  <2>3. ASSUME NEW r \in AdminRequests
        PROVE  /\ pc[r] \in Wheres /\ on[r] \in scope \cup {Nowhere}
               /\ on[r] = Nowhere <=>
                     pc[r] = "idle" \/ (op[r] = "create" /\ pc[r] \in {"checking", "saving"})
    BY DEF Asked, Placed
  <2>4. alone \subseteq Busy /\ up \in BOOLEAN /\ (~up => Busy = {})
    BY DEF Asked
  <2> QED BY <2>1, <2>2, <2>3, <2>4 DEF AdminTypeOK
<1> QED BY <1>1, AdminHolds, PTL

\* Where no request is at work and the last one neither failed midway nor overlapped with
\* another, what runs, what the inference knows and what each component was given is what
\* is stored: for any number of requests, after any of them, crashes and restarts.
THEOREM RuntimeAgrees == AdminSpec => []AgreeInTurn
<1>1. AdminInv => AgreeInTurn
  BY DEF AdminInv, Settled
<1> QED BY <1>1, AdminHolds, PTL

\* As long as writes come one after the other, no more cameras are active than allowed and
\* a vehicle has one fallback rule for a gate.
THEOREM ChecksHold == AdminSpec => []CheckedInTurn
<1>1. AdminInv => CheckedInTurn
  BY DEF AdminInv, Serial, CheckedInTurn
<1> QED BY <1>1, AdminHolds, PTL
=============================================================================
