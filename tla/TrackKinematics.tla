--------------------------- MODULE TrackKinematics ---------------------------
(***************************************************************************)
(* AnalyzeTrack of the track analyzer, a point at a time.  Its points come *)
(* from a Redis list, newest first, in the order in which they happened to *)
(* be pushed.                                                              *)
(*                                                                         *)
(* Distance stands for calculateDistance, the haversine formula.  Nothing  *)
(* is assumed of it but that it gives no less than zero, or NaN: of places *)
(* on opposite sides of the Earth, rounding may leave it the root of a     *)
(* number below zero.  What the code computes as a double is here a whole  *)
(* number of parts: the exact value or, between two, either of them.       *)
(***************************************************************************)
EXTENDS Integers, Sequences

CONSTANTS
    Places,         \* latitudes and longitudes
    Distance(_, _), \* of two places
    PerKilometre,   \* the parts that distances and speeds are counted in
    Times,          \* in seconds
    MaxPoints,
    NaN

MaxReasonableSpeed == 200 * PerKilometre  \* in an hour
Hour == 3600

VARIABLES
    points,      \* what AnalyzeTrack is given
    upTo,        \* how many points it has gone through
    speeds,      \* Speed of each, 0 where none was set
    anomalies,   \* the points flagged
    estimated,   \* EstimatedLocation of those
    totalSpeed, maxSpeed

kinematicsVars == <<points, upTo, speeds, anomalies, estimated, totalSpeed, maxSpeed>>

Tracks == UNION {[1..n -> [place : Places, time : Times]] : n \in 1..MaxPoints}

Init ==
    /\ points \in Tracks
    /\ upTo = 1
    /\ speeds = [p \in DOMAIN points |-> 0]
    /\ anomalies = {}
    /\ estimated = [p \in DOMAIN points |-> points[p].place]
    /\ totalSpeed = 0 /\ maxSpeed = 0

-----------------------------------------------------------------------------
(* Doubles. *)

\* What a / b may be rounded to, for a positive b.
Rounded(a, b) == {a \div b, -((-a) \div b)}

Plus(a, b) == IF NaN \in {a, b} THEN NaN ELSE a + b

\* A comparison with NaN is false.
Exceeds(a, b) == NaN \notin {a, b} /\ a > b

-----------------------------------------------------------------------------

\* Fault: as if the list were oldest first.
TimeDiffBackwards(n) == points[n].time - points[n - 1].time

\* From the point to the one before it, which was pushed later.
TimeDiff(n) == points[n - 1].time - points[n].time

Jump(n) == Distance(points[n - 1].place, points[n].place)

Speeds(n) ==
    LET t == TimeDiff(n)
    IN  IF Jump(n) = NaN THEN {NaN}
        ELSE IF t > 0 THEN Rounded(Jump(n) * Hour, t) ELSE Rounded(-(Jump(n) * Hour), -t)

\* Fault: twice the limit is still reasonable.
IsAnomalyLate(speed) == Exceeds(speed, 2 * MaxReasonableSpeed)

IsAnomaly(speed) == Exceeds(speed, MaxReasonableSpeed)

\* interpolateLocation, on one coordinate, at the ratio of a to b.
Between(start, end, a, b) == {start + part : part \in Rounded((end - start) * a, b)}

\* Fault: the ratio is upside down.
EstimatesUpsideDown(n) ==
    LET from == points[n - 1].place  to == points[n].place
        ratio(start, end) == Between(start, end, Jump(n) * Hour, MaxReasonableSpeed * TimeDiff(n))
    IN  [lat : ratio(from.lat, to.lat), lon : ratio(from.lon, to.lon)]

\* At the ratio of maxDistance to the distance of the jump, on the straight
\* line from coordinates to coordinates, also across the 180th meridian.
Estimates(n) ==
    LET from == points[n - 1].place  to == points[n].place
        ratio(start, end) == Between(start, end, MaxReasonableSpeed * TimeDiff(n), Jump(n) * Hour)
    IN  [lat : ratio(from.lat, to.lat), lon : ratio(from.lon, to.lon)]

\* Two points of one time are skipped.
SkipPoint ==
    /\ upTo < Len(points) /\ TimeDiff(upTo + 1) = 0
    /\ upTo' = upTo + 1
    /\ UNCHANGED <<points, speeds, anomalies, estimated, totalSpeed, maxSpeed>>

AnalyzePoint ==
    /\ upTo < Len(points) /\ TimeDiff(upTo + 1) # 0
    /\ upTo' = upTo + 1
    /\ \E speed \in Speeds(upTo') :
           /\ speeds' = [speeds EXCEPT ![upTo'] = speed]
           /\ totalSpeed' = Plus(totalSpeed, speed)
           /\ IF IsAnomaly(speed)
              THEN /\ anomalies' = anomalies \cup {upTo'}
                   /\ \E place \in Estimates(upTo') : estimated' = [estimated EXCEPT ![upTo'] = place]
                   /\ UNCHANGED maxSpeed
              ELSE /\ maxSpeed' = IF Exceeds(speed, maxSpeed) THEN speed ELSE maxSpeed
                   /\ UNCHANGED <<anomalies, estimated>>
    /\ UNCHANGED points

Done == upTo = Len(points) /\ UNCHANGED kinematicsVars

Next == SkipPoint \/ AnalyzePoint \/ Done

Spec == Init /\ [][Next]_kinematicsVars

-----------------------------------------------------------------------------
(* Properties. *)

InOrder(n) == points[n - 1].time > points[n].time

(***************************************************************************)
(* A jump that no driver could have made, by more than rounding, goes      *)
(* unflagged (track_service.go, line 72) only between points that were not *)
(* pushed in the order of their times -- the speed is then negative, or is *)
(* not computed at all -- or between opposite sides of the Earth.          *)
(***************************************************************************)
MissedJumpNeedsDisorder ==
    \A n \in 2..upTo :
        LET t == IF TimeDiff(n) < 0 THEN -TimeDiff(n) ELSE TimeDiff(n)
        IN  Jump(n) # NaN /\ Jump(n) * Hour >= (MaxReasonableSpeed + 1) * t /\ n \notin anomalies
                => ~InOrder(n)

\* What is flagged is a jump too far for its time (line 72): rounding flags
\* no driver who kept to the limit.
FlaggedIsJump ==
    \A n \in anomalies :
        InOrder(n) /\ Jump(n) # NaN /\ Jump(n) * Hour > MaxReasonableSpeed * TimeDiff(n)

(***************************************************************************)
(* The average is not below zero, nor above the largest speed where there  *)
(* is no anomaly, unless points are out of order (lines 90-96): it adds    *)
(* the negative speeds that the maximum leaves out.  One jump to the       *)
(* opposite side leaves it no number at all.                               *)
(***************************************************************************)
AverageNeedsOrder ==
    upTo = Len(points) /\ upTo > 1 /\ (\A n \in 2..upTo : InOrder(n) /\ Jump(n) # NaN) =>
        /\ totalSpeed # NaN /\ totalSpeed >= 0
        /\ anomalies = {} => totalSpeed <= maxSpeed * (upTo - 1)

Amid(start, at, end) == (start <= at /\ at <= end) \/ (end <= at /\ at <= start)

\* Where an anomaly is put (lines 77-81), latitude and longitude are between
\* those of the two points: the ratio never passes 1.  On the globe the place
\* may be anywhere: between longitudes 179 and -179 it is on the other side.
EstimateIsBetween ==
    \A n \in anomalies :
        LET from == points[n - 1].place  to == points[n].place  at == estimated[n]
        IN  Amid(from.lat, at.lat, to.lat) /\ Amid(from.lon, at.lon, to.lon)

(***************************************************************************)
(* What AnalyzeTrack says of jumps, averages and estimates can be relied   *)
(* upon, but for points out of order or on opposite sides of the Earth,    *)
(* whatever places and times are reported (track_service.go, lines         *)
(* 53-144).                                                                *)
(***************************************************************************)
AnalysisSound == MissedJumpNeedsDisorder /\ FlaggedIsJump /\ AverageNeedsOrder /\ EstimateIsBetween

=============================================================================
