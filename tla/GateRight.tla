------------------------------ MODULE GateRight ------------------------------
(* What the gate command executor promises its callers, with no queue, no     *)
(* worker thread and no locks: at any time at most one call owns the right to *)
(* move the gate, an executor that has been closed (poisoned by a timeout or  *)
(* stopped by a shutdown) grants that right to nobody any more, and what a    *)
(* caller is told agrees with what the adapter did on its behalf.             *)
CONSTANTS Callers,  \* the threads that call open()
          Nobody    \* the right is free; not a caller

Fates == {"accepted", "failed"}

VARIABLES holder,   \* the call that may move the gate
          closed,   \* no further call is granted the right
          fate,     \* what the adapter answered to the granted call
          told      \* what open() returned, "silent" while it has not

vars == <<holder, closed, fate, told>>

Init == /\ holder = Nobody
        /\ closed = FALSE
        /\ fate = [c \in Callers |-> "none"]
        /\ told = [c \in Callers |-> "none"]

Grant(c) == /\ ~closed
            /\ holder = Nobody
            /\ told[c] # "silent"
            /\ holder' = c
            /\ fate' = [fate EXCEPT ![c] = "none"]
            /\ told' = [told EXCEPT ![c] = "silent"]
            /\ UNCHANGED closed

\* A denial needs a reason: the executor is closed, or another call owns the
\* right at this very moment.
Deny(c) == /\ closed \/ holder # Nobody
           /\ told[c] # "silent"
           /\ told' = [told EXCEPT ![c] = "denied"]
           /\ UNCHANGED <<holder, closed, fate>>

\* A granted call is turned away without having moved the gate; only a closed
\* executor does that.
Withdraw(c) == /\ closed
               /\ holder = c
               /\ fate[c] = "none"
               /\ holder' = Nobody
               /\ told' = [told EXCEPT ![c] = "denied"]
               /\ UNCHANGED <<closed, fate>>

Move(c) == /\ holder = c
           /\ fate[c] = "none"
           /\ \E f \in Fates : fate' = [fate EXCEPT ![c] = f]
           /\ UNCHANGED <<holder, closed, told>>

Yield(c) == /\ holder = c
            /\ fate[c] # "none"
            /\ holder' = Nobody
            /\ UNCHANGED <<closed, fate, told>>

\* The answer reaches the caller once the right has been given back.
Answer(c) == /\ told[c] = "silent"
             /\ holder # c
             /\ fate[c] # "none"
             /\ told' = [told EXCEPT ![c] = fate[c]]
             /\ UNCHANGED <<holder, closed, fate>>

\* A caller may give up waiting; that closes the executor for good.
Abandon(c) == /\ told[c] = "silent"
              /\ closed' = TRUE
              /\ told' = [told EXCEPT ![c] = "timeout"]
              /\ UNCHANGED <<holder, fate>>

Close == /\ closed' = TRUE
         /\ UNCHANGED <<holder, fate, told>>

Next == \/ Close
        \/ \E c \in Callers : \/ Grant(c) \/ Deny(c) \/ Withdraw(c)
                              \/ Move(c) \/ Yield(c)
                              \/ Answer(c) \/ Abandon(c)

Spec == Init /\ [][Next]_vars
=============================================================================
