--------------------------- MODULE MCTrackAnalyzer ---------------------------
(***************************************************************************)
(* TLC instances of the track analyzer: a behaviour is one of              *)
(* TrackAnalyzer, one analysis of TrackKinematics or one of FeatureFlags.  *)
(***************************************************************************)
EXTENDS TrackAnalyzer, Integers, TLC

CONSTANTS
    Places, Distance(_, _), PerKilometre, Times, MaxPoints, NaN,
    Points, Numbers, MaxInt, Milli, NotInt, MaxSets

VARIABLES
    program,
    points, upTo, speeds, anomalies, estimated, totalSpeed, maxSpeed,
    flags, at, min, max, slept, overlapped, panicked, sets, ranges, changes

K == INSTANCE TrackKinematics

F == INSTANCE FeatureFlags WITH inForce <- ranges

\* What the haversine formula gives of two places is no less than zero.
ASSUME KinematicsAssumption ==
    /\ Places \subseteq [lat : Int, lon : Int] /\ Times \subseteq Int /\ MaxPoints \in Nat
    /\ PerKilometre \in Nat \ {0} /\ NaN \notin Int
    /\ \A a, b \in Places : Distance(a, b) \in Nat \cup {NaN}

\* What the flags are set to, and the units of a Duration.
ASSUME FlagAssumption == Numbers \subseteq Int /\ MaxInt \in Nat /\ Milli \in Nat

kinematicsVars == <<points, upTo, speeds, anomalies, estimated, totalSpeed, maxSpeed>>
flagVars == <<flags, at, min, max, slept, overlapped, panicked, sets, ranges, changes>>

MCInit ==
    /\ program \in {"analyzer", "kinematics", "flags"}
    /\ Init /\ K!Init /\ F!Init
    /\ program # "kinematics" => points = <<[place |-> CHOOSE p \in Places : TRUE, time |-> 0]>>

MCNext ==
    /\ \/ program = "analyzer" /\ Next /\ UNCHANGED <<kinematicsVars, flagVars>>
       \/ program = "kinematics" /\ K!Next /\ UNCHANGED <<vars, flagVars>>
       \/ program = "flags" /\ F!Next /\ UNCHANGED <<vars, kinematicsVars>>
    /\ UNCHANGED program

MCSpec == MCInit /\ [][MCNext]_<<vars, kinematicsVars, flagVars, program>>

AnalysisSound == K!AnalysisSound

DelaysSound == F!DelaysSound

Place(lat, lon) == [lat |-> lat, lon |-> lon]

\* Two places on both sides of the 180th meridian, and two opposite ones.
MCPlaces == {Place(0, 179), Place(0, -179), Place(8, 0), Place(-8, 180)}
MCDistance(a, b) ==
    IF a = b THEN 0
    ELSE IF {a.lat, b.lat} = {0} THEN 222
    ELSE IF {a.lat, b.lat} = {8, -8} THEN NaN
    ELSE IF 8 \in {a.lat, b.lat} THEN 19119 ELSE 896

Symmetry == Permutations(Saves) \cup Permutations(Drivers) \cup Permutations(Points)
=============================================================================
