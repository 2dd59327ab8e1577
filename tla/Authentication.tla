----------------------------- MODULE Authentication -----------------------------
(* auth/service.py, auth/limiter.py and the routes that use them.  Every request *)
(* runs on a thread of its own; the set-up has a lock, the limiter another, and  *)
(* a password is checked between two sections of the limiter.  A transaction of *)
(* SQLite holds the write lock from its first change on, so it is one step.     *)
(* A session and its CSRF token have one number.                                *)
EXTENDS Integers, Sequences, FiniteSets

CONSTANTS Requests,
          Keys,         \* client and user name, as the limiter tells them apart
          MaxAttempts, LockTicks, MaxKeys, \* of the limiter
          SessionTicks, \* session_ttl_hours
          MaxTime,      \* bound on the time
          MaxTokens     \* bound on the sessions issued

ASSUME AuthenticationAssumption ==
    /\ MaxAttempts \in Nat \ {0} /\ LockTicks \in Nat \ {0} /\ MaxKeys \in Nat \ {0}
    /\ SessionTicks \in Nat \ {0} /\ MaxTime \in Nat \ {0} /\ MaxTokens \in Nat
    /\ Requests # {} /\ IsFiniteSet(Requests) \* the thread pool of the server

Free == <<>>
Idle == [at |-> "idle"]

VARIABLES now,
          users,     \* the administrators in the database
          sessions,  \* rows of user_sessions
          issued,    \* the number of the last session
          setupLock, \* who holds _setup_lock, or Free
          states,    \* _states of the limiter, least recently used first
          request,   \* where each request is, with the key or session it is about
          promised,  \* history: until when a key was told to wait, or 0
          others,    \* history: the keys used since this one was
          guesses,   \* history: the failures of a key since it was locked or forgotten
          dismissed  \* history: the sessions logged out, replaced or expired

database == <<users, sessions, issued>>
limiter == <<states, promised, others, guesses>>
vars == <<now, database, setupLock, limiter, request, dismissed>>

Entry(k) == {i \in DOMAIN states : states[i].key = k}
Place(k) == CHOOSE i \in Entry(k) : TRUE
State(k) == states[Place(k)]
Without(k) == IF Entry(k) = {} THEN states
              ELSE SubSeq(states, 1, Place(k) - 1) \o SubSeq(states, Place(k) + 1, Len(states))
-----------------------------------------------------------------------------
(* Slips, one mistake each; none is part of Next.                            *)

\* The set-up goes ahead whoever else is in it.
Unlocked == TRUE

\* A key keeps its place when it is used.
InPlace(state) == IF Entry(state.key) = {} THEN Append(states, state)
                  ELSE [i \in DOMAIN states |-> IF i \in Entry(state.key) THEN state ELSE states[i]]

\* One failure more than allowed.
Beyond(failures) == failures > MaxAttempts

\* A logout that ends whatever session there is.
EndsAll(t) == sessions
-----------------------------------------------------------------------------
(* LoginAttemptLimiter                                                       *)

\* The table with the key's state as the most recently used.
Latest(state) == Append(Without(state.key), state)

Used(k) == others' = [o \in Keys |-> IF o = k THEN {} ELSE others[o] \cup {k}]

Locked(k) == Entry(k) # {} /\ State(k).until > now

\* retry_after() of a key that may go on: a lock that is over is forgotten.
Pass(k) == /\ ~Locked(k)
           /\ \/ Entry(k) = {} /\ UNCHANGED <<states, others>>
              \/ /\ Entry(k) # {}
                 /\ states' = IF State(k).until # 0 THEN Without(k) ELSE Latest(State(k))
                 /\ Used(k)
           /\ promised' = [promised EXCEPT ![k] = 0]
           /\ UNCHANGED guesses

\* retry_after() of a key that is locked.
Wait(k) == /\ Locked(k)
           /\ states' = Latest(State(k))
           /\ Used(k)
           /\ UNCHANGED <<promised, guesses>>

Enough(failures) == failures >= MaxAttempts

\* record_failure(): a new key takes the place of the least recently used.
Failure(k) ==
    LET new    == Entry(k) = {}
        before == IF new THEN [key |-> k, failures |-> 0, until |-> 0] ELSE State(k)
        locks  == Enough(before.failures + 1)
        after  == IF locks THEN [before EXCEPT !.failures = 0, !.until = now + LockTicks]
                  ELSE [before EXCEPT !.failures = @ + 1]
        gone   == {o \in Keys : new /\ Len(states) >= MaxKeys /\ o = states[1].key}
    IN  /\ states' = IF gone # {} THEN Append(Tail(states), after) ELSE Latest(after)
        /\ promised' = [o \in Keys |-> IF o # k THEN promised[o] ELSE IF locks THEN after.until
                                       ELSE IF new THEN 0 ELSE promised[k]]
        /\ guesses' = [o \in Keys |-> IF o = k THEN (IF locks THEN 0 ELSE guesses[k] + 1)
                                      ELSE IF o \in gone THEN 0 ELSE guesses[o]]
        /\ Used(k)

\* reset()
Forget(k) == /\ states' = Without(k)
             /\ promised' = [promised EXCEPT ![k] = 0]
             /\ guesses' = [guesses EXCEPT ![k] = 0]
             /\ UNCHANGED others
-----------------------------------------------------------------------------
Init == /\ now = 1
        /\ users = 0
        /\ sessions = {}
        /\ issued = 0
        /\ setupLock = Free
        /\ states = <<>>
        /\ request = [r \in Requests |-> Idle]
        /\ promised = [k \in Keys |-> 0]
        /\ others = [k \in Keys |-> {}]
        /\ guesses = [k \in Keys |-> 0]
        /\ dismissed = {}

At(r, location) == request[r].at = location
Goes(r, there) == request' = [request EXCEPT ![r] = there]

\* _issue() and the commit: the user has one session, the new one.
Issue(user) ==
    LET over == {s \in sessions : s.expires <= now \/ s.user = user}
    IN  /\ issued < MaxTokens
        /\ issued' = issued + 1
        /\ sessions' = (sessions \ over) \cup
                       {[token |-> issued + 1, user |-> user, expires |-> now + SessionTicks]}
        /\ dismissed' = dismissed \cup {s.token : s \in over}

Unclaimed == setupLock = Free

SetupLock(r) == /\ At(r, "idle") /\ Goes(r, [at |-> "count"])
                /\ Unclaimed
                /\ setupLock' = <<r>>
                /\ UNCHANGED <<now, database, limiter, dismissed>>

SetupRefused(r) == /\ At(r, "count") /\ Goes(r, Idle)
                   /\ users # 0
                   /\ setupLock' = Free
                   /\ UNCHANGED <<now, database, limiter, dismissed>>

SetupCount(r) == /\ At(r, "count") /\ Goes(r, [at |-> "create"])
                 /\ users = 0
                 /\ UNCHANGED <<now, database, setupLock, limiter, dismissed>>

SetupCommit(r) == /\ At(r, "create") /\ Goes(r, Idle)
                  /\ users' = users + 1
                  /\ Issue(users + 1)
                  /\ setupLock' = Free
                  /\ UNCHANGED <<now, limiter>>

\* The database refuses: the transaction is rolled back, the lock let go.
SetupFails(r) == /\ At(r, "create") /\ Goes(r, Idle)
                 /\ setupLock' = Free
                 /\ UNCHANGED <<now, database, limiter, dismissed>>

LoginRefused(r, k) == /\ At(r, "idle")
                      /\ Wait(k)
                      /\ UNCHANGED <<now, database, setupLock, request, dismissed>>

LoginCheck(r, k) == /\ At(r, "idle") /\ Goes(r, [at |-> "verify", key |-> k])
                    /\ Pass(k)
                    /\ UNCHANGED <<now, database, setupLock, dismissed>>

\* No such user, or a wrong password.
LoginWrong(r) == /\ At(r, "verify") /\ Goes(r, Idle)
                 /\ Failure(request[r].key)
                 /\ UNCHANGED <<now, database, setupLock, dismissed>>

LoginCommit(r) == /\ At(r, "verify") /\ Goes(r, [request[r] EXCEPT !.at = "reset"])
                  /\ \E u \in 1..users : Issue(u)
                  /\ UNCHANGED <<now, users, setupLock, limiter>>

LoginFails(r) == /\ At(r, "verify") /\ Goes(r, Idle)
                 /\ users # 0
                 /\ UNCHANGED <<now, database, setupLock, limiter, dismissed>>

LoginReset(r) == /\ At(r, "reset") /\ Goes(r, Idle)
                 /\ Forget(request[r].key)
                 /\ UNCHANGED <<now, database, setupLock, dismissed>>

\* authenticate() and verify_csrf() of a logout.
Authenticate(r, s) == /\ At(r, "idle") /\ Goes(r, [at |-> "logout", token |-> s.token])
                      /\ s.expires > now
                      /\ UNCHANGED <<now, database, setupLock, limiter, dismissed>>

\* authenticate() of any request whose session is over.
Expire(r, s) == /\ At(r, "idle")
                /\ s.expires <= now
                /\ sessions' = sessions \ {s}
                /\ dismissed' = dismissed \cup {s.token}
                /\ UNCHANGED <<now, users, issued, setupLock, limiter, request>>

Ends(t) == {s \in sessions : s.token = t}

Logout(r) == /\ At(r, "logout") /\ Goes(r, Idle)
             /\ sessions' = sessions \ Ends(request[r].token)
             /\ dismissed' = dismissed \cup {request[r].token}
             /\ UNCHANGED <<now, users, issued, setupLock, limiter>>

Tick == /\ now < MaxTime
        /\ now' = now + 1
        /\ UNCHANGED <<database, setupLock, limiter, request, dismissed>>

Next == \/ \E r \in Requests :
              \/ SetupLock(r) \/ SetupRefused(r) \/ SetupCount(r) \/ SetupCommit(r) \/ SetupFails(r)
              \/ \E k \in Keys : LoginRefused(r, k) \/ LoginCheck(r, k)
              \/ LoginWrong(r) \/ LoginCommit(r) \/ LoginFails(r) \/ LoginReset(r)
              \/ \E s \in sessions : Authenticate(r, s) \/ Expire(r, s)
              \/ Logout(r)
        \/ Tick

Spec == Init /\ [][Next]_vars
-----------------------------------------------------------------------------
(* Properties.                                                               *)

\* The state is well formed: one administrator at most, however many requests ask
\* for the set-up at once, one session each, and a limiter within its table.
TypeOK == /\ now \in 1..MaxTime
          /\ users \in 0..1
          /\ sessions \subseteq [token : 1..issued, user : 1..users, expires : Nat]
          /\ Cardinality(sessions) <= users
          /\ setupLock \in {Free} \cup {<<r>> : r \in Requests}
          /\ Len(states) <= MaxKeys
          /\ \A i \in DOMAIN states :
                states[i] \in [key : Keys, failures : 0..MaxAttempts, until : Nat]
          /\ \A i, j \in DOMAIN states : states[i].key = states[j].key => i = j
          /\ request \in [Requests -> [at : {"idle", "count", "create"}] \cup
                                      [at : {"verify", "reset"}, key : Keys] \cup
                                      [at : {"logout"}, token : 1..issued]]

\* A session is in the database from its login until it is logged out, replaced by
\* the next or found to be over: a late logout ends no other, and none comes back.
SessionsAccounted == {s.token : s \in sessions} = (1..issued) \ dismissed

\* A key that was told to wait has to, however many logins were under way when it was
\* locked, unless as many other keys as the table holds were used since.
LockHolds == \A k \in Keys : /\ promised[k] > now
                             /\ Cardinality(others[k]) < MaxKeys
                             => Locked(k) /\ State(k).until = promised[k]

\* Between two locks a key has no more failures than are allowed, and those that were
\* past the check already.
GuessesBounded == \A k \in Keys : guesses[k] < MaxAttempts + Cardinality(Requests) - 1
=============================================================================
