------------------------------ MODULE MCDecision ------------------------------
(* An instance of Decision for TLC: days of three minutes, a week of three days.   *)
EXTENDS Decision, TLC

CONSTANTS g1, g2, r1, r2

\* A window over midnight on Mondays, for a vehicle valid from the first Tuesday on.
Overnight == {[days |-> {0}, start |-> 2, end |-> 0]}
FromTuesday == {[from |-> 1, until |-> None]}

\* The evening of Monday and the small hours of Tuesday.
Evening == {2, 3}
Interchangeable == Permutations({g1, g2}) \cup Permutations({r1, r2})
=============================================================================
