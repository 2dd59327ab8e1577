------------------------------ MODULE Recognition ------------------------------
(* recognition/: the inference worker hands the detections of one frame after   *)
(* another to RecognitionService.process().  IoUTracker says which detections   *)
(* of a camera belong together, TemporalPlateValidator counts equal readings of *)
(* a track, and a track whose plate is confirmed gets one decision.             *)
(* A box is a place on a line; the overlap of two boxes falls with distance.    *)
EXTENDS Integers, Sequences, FiniteSets

CONSTANTS Cameras, Plates,
          Unreadable,       \* a text of invalid format or low confidence
          MaxIdle,          \* tracking_max_idle_ms
          Views,            \* the detections considered, by camera
          Sites,            \* the installations considered: the size of the tracker's table,
                            \* the distance up to which two boxes overlap enough, and how
                            \* much older than the newest frame another may be
          Required,         \* required_confirmations
          Window,           \* confirmation_window_ms
          MaxObservations,  \* what a validator keeps
          MaxDetections,    \* bound on the detections of a frame
          MaxTime,          \* bound on the capture times
          MaxIds            \* bound on the tracks created

Times == 0..MaxTime
Never == -(MaxIdle + 1)  \* longer ago than any gap
Spots == UNION {{<<c, d.box>> : d \in Views[c]} : c \in Cameras}
Boxes == {s[2] : s \in Spots}

ASSUME RecognitionAssumption ==
    /\ Unreadable \notin Plates
    /\ Views \in [Cameras -> SUBSET [box : Int, text : Plates \cup {Unreadable}]]
    /\ IsFiniteSet(Spots)
    /\ Sites \subseteq [capacity : Nat \ {0}, reach : Nat, skew : Nat]
    /\ MaxIdle \in Nat \ {0} /\ Window \in Nat \ {0}
    /\ Required \in Nat \ {0, 1} /\ MaxObservations \in Nat /\ MaxObservations >= Required
    /\ MaxDetections \in Nat \ {0} /\ MaxTime \in Nat /\ MaxIds \in Nat

VARIABLES site,      \* this installation, fixed from the start
          tracks,    \* _tracks: camera, box and last_seen_ns by track id
          nextId,    \* _next_track_id
          votes,     \* _validators: the observations by camera and track id
          completed, \* _completed_tracks
          confirmed, \* the decisions on the last frame
          clock,     \* the capture time of the last frame by camera
          readings,  \* history: what was read on a camera within the window
          stays      \* history: by place, when a plate was last seen there, and the
                     \* decisions since it was first seen without a longer gap than MaxIdle

recognitionVars == <<site, tracks, nextId, votes, completed, confirmed, clock, readings, stays>>

Frames(c) == {f \in UNION {[1..n -> Views[c]] : n \in 0..MaxDetections} :
                 \A i, j \in DOMAIN f : i < j => f[i].box < f[j].box}

Kept(f, S) == [x \in S |-> f[x]]
Distance(a, b) == IF a < b THEN b - a ELSE a - b
-----------------------------------------------------------------------------
(* Slips, one mistake each; none is part of RecognitionNext.                 *)

\* Observations kept one tick too long.
RecentLong(observations, t) ==
    LET gone == {i \in DOMAIN observations : observations[i].at < t - Window - 1}
    IN  SubSeq(observations, Cardinality(gone) + 1, Len(observations))

\* The state of tracks that are gone is never forgotten.
RememberedForever(c, S, active) == S
-----------------------------------------------------------------------------
(* IoUTracker.update()                                                       *)

\* The tracks that _prune() leaves, whichever camera they belong to.
Alive(t) == {id \in DOMAIN tracks : t - tracks[id].seen <= MaxIdle}

Pairs(c, live, frame) ==
    {p \in (DOMAIN live) \X (DOMAIN frame) :
        live[p[1]].camera = c /\ Distance(live[p[1]].box, frame[p[2]].box) <= site.reach}

\* Best overlap first, then the younger track, then the later detection.
Before(p, q, live, frame) ==
    LET d(r) == Distance(live[r[1]].box, frame[r[2]].box)
    IN  \/ d(p) < d(q)
        \/ d(p) = d(q) /\ p[1] > q[1]
        \/ d(p) = d(q) /\ p[1] = q[1] /\ p[2] > q[2]

\* The greedy assignment: a pair is passed over only for a better one.
Assignment(c, live, frame) ==
    CHOOSE M \in SUBSET Pairs(c, live, frame) :
        /\ \A p, q \in M : p[1] = q[1] \/ p[2] = q[2] => p = q
        /\ \A p \in Pairs(c, live, frame) \ M :
              \E q \in M : (p[1] = q[1] \/ p[2] = q[2]) /\ Before(q, p, live, frame)

Later(table, x, y) == \/ table[x].seen > table[y].seen
                      \/ table[x].seen = table[y].seen /\ x > y

\* Each new track takes the place of the oldest in a full table, the first created among
\* equals: the last one stays, and of the others the latest.
RoomMade(table, last, capacity) ==
    LET others == DOMAIN table \ {last}
    IN  Kept(table, {last} \cup {x \in others :
            Cardinality({y \in others : Later(table, y, x)}) < capacity - 1})

\* The table after the frame, and the track of each detection as pairs of both.
Update(c, t, frame) ==
    LET live   == Kept(tracks, Alive(t))
        found  == Assignment(c, live, frame)
        fresh  == {i \in DOMAIN frame : \A p \in found : p[2] # i}
        next   == nextId + Cardinality(fresh)
        given  == found \cup {<<nextId + Cardinality({j \in fresh : j < i}), i>> : i \in fresh}
        all    == [id \in DOMAIN live \cup nextId..next - 1 |->
                      IF \E a \in given : a[1] = id
                      THEN [camera |-> c, box |-> frame[(CHOOSE a \in given : a[1] = id)[2]].box, seen |-> t]
                      ELSE live[id]]
    IN  [table |-> IF fresh = {} THEN all ELSE RoomMade(all, next - 1, site.capacity),
         given |-> given, next |-> next]
-----------------------------------------------------------------------------
(* TemporalPlateValidator.observe() and RecognitionService.process()         *)

\* Observations come in the order of time.
Recent(observations, t) ==
    LET gone == {i \in DOMAIN observations : observations[i].at < t - Window}
    IN  SubSeq(observations, Cardinality(gone) + 1, Len(observations))

\* The observations after one more reading.
Observed(observations, plate, t) ==
    LET all == Append(Recent(observations, t), [plate |-> plate, at |-> t])
    IN  IF Len(all) > MaxObservations THEN Tail(all) ELSE all

Count(observations, plate) == Cardinality({i \in DOMAIN observations : observations[i].plate = plate})

\* The plates with enough readings, and the one of them with the most.  Every
\* reading before the last has left each plate short, so there is one at most.
Eligible(observations) == {p \in Plates : Count(observations, p) >= Required}

Winner(observations) ==
    CHOOSE p \in Eligible(observations) :
        \A q \in Eligible(observations) : Count(observations, q) <= Count(observations, p)

\* What _prune_camera_state() leaves of a table of keys.
Remembered(c, S, active) == {k \in S : k[1] # c \/ k[2] \in active}

\* Slip: a decided track that is not marked.
MarkedNot(done, keys) == done

Marked(done, keys) == done \cup keys

RecognitionInit ==
    /\ site \in Sites
    /\ tracks = <<>>
    /\ nextId = 1
    /\ votes = <<>>
    /\ completed = {}
    /\ confirmed = {}
    /\ clock = [c \in Cameras |-> Never]
    /\ readings = {}
    /\ stays = [s \in Spots |-> [seen |-> Never, decisions |-> 0]]

\* The frame is newer than the camera's last and not too far behind the others.
Captured(c, t) == /\ t > clock[c]
                  /\ \A other \in Cameras : t + site.skew >= clock[other]
                  /\ clock' = [clock EXCEPT ![c] = t]

\* What was seen where and when, and how often it was decided upon.
Witness(c, t, frame, decided) ==
    /\ readings' = {r \in readings : r.camera # c \/ r.at >= t - Window} \cup
                   {[camera |-> c, at |-> t, box |-> frame[i].box, plate |-> frame[i].text] :
                        i \in {j \in DOMAIN frame : frame[j].text # Unreadable}}
    /\ stays' = [s \in Spots |->
          IF \E i \in DOMAIN frame : s = <<c, frame[i].box>>
          THEN [seen |-> t,
                decisions |-> (IF t - stays[s].seen <= MaxIdle THEN stays[s].decisions ELSE 0) +
                              (IF s[2] \in decided THEN 1 ELSE 0)]
          ELSE stays[s]]

Process(c, t, frame) ==
    /\ Captured(c, t)
    /\ LET update == Update(c, t, frame)
           active == {id \in DOMAIN update.table : update.table[id].camera = c}
           done   == Remembered(c, completed, active)
           kept   == Remembered(c, DOMAIN votes, active)
           seen   == {[key |-> <<c, a[1]>>, detection |-> frame[a[2]]] : a \in update.given}
           asked  == {[key |-> d.key, box |-> d.detection.box, observations |->
                          Observed(IF d.key \in kept THEN votes[d.key] ELSE <<>>, d.detection.text, t)] :
                         d \in {e \in seen : e.detection.text # Unreadable /\ e.key \notin done}}
           sure   == {q \in asked : Eligible(q.observations) # {}}
           unsure == asked \ sure
       IN  /\ update.next <= MaxIds + 1
           /\ tracks' = update.table
           /\ nextId' = update.next
           /\ votes' = [k \in (kept \ {q.key : q \in sure}) \cup {q.key : q \in unsure} |->
                           IF \E q \in unsure : q.key = k
                           THEN (CHOOSE q \in unsure : q.key = k).observations ELSE votes[k]]
           /\ completed' = Marked(done, {q.key : q \in sure})
           /\ confirmed' = {[camera |-> c, track |-> q.key[2], plate |-> Winner(q.observations)] : q \in sure}
           /\ Witness(c, t, frame, {q.box : q \in sure})
           /\ UNCHANGED site

RecognitionNext ==
    \E c \in Cameras, t \in Times : \E frame \in Frames(c) : Process(c, t, frame)

RecognitionSpec == RecognitionInit /\ [][RecognitionNext]_recognitionVars
-----------------------------------------------------------------------------
(* Properties.                                                               *)

Keys(c) == {k \in (DOMAIN votes) \cup completed : k[1] = c}

\* The state is well formed.  No track is both decided and asking, and what is
\* remembered stays within bounds however long the installation runs.
RecognitionTypeOK ==
    /\ site \in Sites
    /\ nextId \in 1..MaxIds + 1
    /\ DOMAIN tracks \subseteq 1..nextId - 1
    /\ \A id \in DOMAIN tracks : tracks[id] \in [camera : Cameras, box : Boxes, seen : Times]
    /\ Cardinality(DOMAIN tracks) <= site.capacity
    /\ DOMAIN votes \cap completed = {}
    /\ \A k \in DOMAIN votes : Len(votes[k]) \in 1..MaxObservations
    /\ \A c \in Cameras : Cardinality(Keys(c)) <= site.capacity + MaxDetections - 1
    /\ clock \in [Cameras -> Times \cup {Never}]

\* A decision is never made on less than the readings it needs: this camera has
\* read the plate as often as required, within the window.
Voted == \A d \in confirmed :
            Cardinality({r \in readings : r.camera = d.camera /\ r.plate = d.plate}) >= Required

\* Plates stand apart, frames come in order, and there is a track for each.
Calm == /\ \A a, b \in Boxes : a # b => Distance(a, b) > site.reach
        /\ site.skew = 0
        /\ site.capacity >= Cardinality(Spots)

\* A vehicle that waits in view of a camera is decided upon once, however often
\* its plate is read: nothing forgets the decision before the vehicle has gone.
OncePerStay == Calm => \A s \in Spots : stays[s].decisions <= 1
=============================================================================
