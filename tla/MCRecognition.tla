----------------------------- MODULE MCRecognition -----------------------------
(* Instances of Recognition for TLC, and the room in the table made track by track. *)
EXTENDS Recognition, SequencesExt

CONSTANTS c1, c2, p1, p2

\* The first camera sees two places next to each other and may misread the plate at
\* one of them; the second camera sees one plate.
TwoViews == c1 :> {[box |-> 1, text |-> p1], [box |-> 1, text |-> p2],
                   [box |-> 1, text |-> Unreadable], [box |-> 2, text |-> p1]} @@
            c2 :> {[box |-> 1, text |-> p1]}

\* One where everything is as it should be, and one where nothing is.
TwoSites == {[capacity |-> 3, reach |-> 0, skew |-> 0], [capacity |-> 1, reach |-> 1, skew |-> 1]}
-----------------------------------------------------------------------------
\* The oldest track, the first created among equals, makes room in a full table.
MakeRoom(table, capacity) ==
    IF Cardinality(DOMAIN table) < capacity THEN table
    ELSE LET oldest == CHOOSE id \in DOMAIN table :
                          \A other \in DOMAIN table \ {id} : Later(table, other, id)
         IN  Kept(table, DOMAIN table \ {oldest})

\* The tracks of a frame that are new, created one after the other.
OneByOne(all, first, last, capacity) ==
    FoldLeft(LAMBDA table, id : MakeRoom(table, capacity) @@ (id :> all[id]),
             Kept(all, DOMAIN all \ (first..last)), [k \in 1..last + 1 - first |-> first + k - 1])

\* RoomMade() leaves what is left when the tracks are created one after the other
\* (tracker.py, the second loop of update()): any table of up to three tracks, older
\* and younger than the frame, and up to three detections without a track.
ASSUME RoomForEach ==
    \A capacity \in 1..3, n \in 1..3, now \in Times :
        \A old \in {S \in SUBSET (1..4) : Cardinality(S) <= capacity} : \A seen \in [old -> Times] :
            LET new == 5..4 + n
                all == [id \in old \cup new |-> [seen |-> IF id \in new THEN now ELSE seen[id]]]
            IN  RoomMade(all, 4 + n, capacity) = OneByOne(all, 5, 4 + n, capacity)
=============================================================================
