------------------------------- MODULE Schedule -------------------------------
(* The times a vehicle may pass, of access/authorization.py: its weekly window   *)
(* and the dates it is valid on.  Moments count minutes from a Monday on.        *)
EXTENDS Integers

CONSTANTS Week,  \* days in a week
          Day,   \* minutes in a day
          None   \* a time of day that is not set

ASSUME ScheduleAssumption == /\ Week \in Nat \ {0} /\ Day \in Nat \ {0}
                             /\ None \notin Nat

Minutes == (0..Day - 1) \cup {None}
Timetables == [days : SUBSET (0..Week - 1), start : Minutes, end : Minutes]
Validities == [from : Nat \cup {None}, until : Nat \cup {None}]

WeekDay(at) == (at \div Day) % Week
Minute(at) == at % Day
Valid(v, at) == /\ v.from # None => at \div Day >= v.from
                /\ v.until # None => at \div Day <= v.until

\* Slip: the early hours of a window over midnight judged by their own day.
InsideByDate(t, at) == /\ WeekDay(at) \in t.days
                       /\ \/ t.start = None \/ t.end = None
                          \/ t.start <= Minute(at) /\ Minute(at) <= t.end
                          \/ t.start > t.end /\ (Minute(at) >= t.start \/ Minute(at) <= t.end)

Inside(t, at) ==
    IF t.start = None \/ t.end = None THEN WeekDay(at) \in t.days
    ELSE IF t.start <= t.end
    THEN WeekDay(at) \in t.days /\ t.start <= Minute(at) /\ Minute(at) <= t.end
    ELSE \/ Minute(at) >= t.start /\ WeekDay(at) \in t.days
         \/ Minute(at) < t.start /\ Minute(at) <= t.end /\ (WeekDay(at) - 1) % Week \in t.days

\* What the window that begins on a day (counted from the first Monday) covers.
Covers(t, day, at) ==
    LET whole == t.start = None \/ t.end = None
        from  == day * Day + IF whole THEN 0 ELSE t.start
        until == day * Day + IF whole THEN Day - 1 ELSE IF t.start <= t.end THEN t.end ELSE t.end + Day
    IN  from <= at /\ at <= until

\* The meaning of a timetable: some window that began today or yesterday, on a day
\* that is allowed, covers the moment.
Allowed(t, at) == \E day \in {at \div Day, (at \div Day) - 1} :
                     day % Week \in t.days /\ Covers(t, day, at)
=============================================================================
