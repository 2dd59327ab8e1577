------------------------------- MODULE AuditTrail -------------------------------
(* What the event service promises of an operational event: it is turned away or *)
(* accepted; an accepted event may reach the database; only an event that did is *)
(* shown to the clients.  Nothing else ever happens to it.                       *)
CONSTANT Events

VARIABLE fate

Fates == {"new", "dropped", "accepted", "kept", "shown"}

Init == fate = [e \in Events |-> "new"]

Becomes(e, from, to) == fate[e] = from /\ fate' = [fate EXCEPT ![e] = to]

TurnAway(e) == Becomes(e, "new", "dropped")
Accept(e)   == Becomes(e, "new", "accepted")
Keep(e)     == Becomes(e, "accepted", "kept")
Show(e)     == Becomes(e, "kept", "shown")

Next == \E e \in Events : TurnAway(e) \/ Accept(e) \/ Keep(e) \/ Show(e)

Spec == Init /\ [][Next]_fate
=============================================================================
