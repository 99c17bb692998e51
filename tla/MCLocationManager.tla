-------------------------- MODULE MCLocationManager --------------------------
(***************************************************************************)
(* TLC instances of what a process keeps in memory and others look at: a   *)
(* behaviour is one of LocationManager, with two places in the bucket      *)
(* searched and one just outside it, which is nearer than the second, one  *)
(* of SpanProcessor, one of RecordingSpan, or a trace of ConsistentSampler.*)
(***************************************************************************)
EXTENDS LocationManager, Integers, Sequences, TLC

CONSTANTS
    close, far, across,
    Spans, Names, Latencies, Capacity, SamplePeriod, MaxSpanTime,
    Limits, AttributeLists, StartLinks, Empty,
    PZero, Depth, Fractions, TraceStates, Malformed, SizeLimit, MaxSpans

SampleBuckets ==
    [nextTime : Nat, buffer : [0..Capacity - 1 -> Spans \cup {None}],
     nextIndex : 0..Capacity - 1, overflow : BOOLEAN]

Attributes == UNION {{attrs[i] : i \in DOMAIN attrs} : attrs \in AttributeLists}
Items == Spans \cup {StartLinks[i] : i \in DOMAIN StartLinks}
KeptItems == [kept : Seq(Items), dropped : Nat]
SpanRecords ==
    [name : {"start"} \cup Spans, attrs : Seq(Attributes), droppedAttrs : Nat,
     events : KeptItems, links : KeptItems]

ASSUME SpanAssumption ==
    /\ Limits \subseteq Int
    /\ AttributeLists \subseteq Seq(Attributes)
    /\ StartLinks \in Seq(Items)
    /\ None \notin Spans \cup SpanRecords

ASSUME PagesAssumption ==
    /\ Capacity \in Nat \ {0} /\ SamplePeriod \in Nat \ {0}
    /\ None \notin Spans
    /\ None \notin [{"errors"} \cup Latencies -> SampleBuckets]

Keys == {"p", "r"} \cup UNION {{entry[i].key : i \in DOMAIN entry} : entry \in TraceStates \ {Malformed}}
Fields == [key : Keys, value : Int]

\* A count is a byte, as the digits of a probability are few; and the p and the r
\* of an entry find room.
ASSUME SamplerAssumption ==
    /\ PZero \in Nat \ {0} /\ Depth \in 0..256 /\ SizeLimit \in Nat \ {0, 1}
    /\ Fractions \subseteq Int
    /\ Malformed \notin Seq(Fields)
    /\ \A entry \in TraceStates : entry = Malformed \/ entry \in Seq(Fields)

VARIABLES
    program,
    zNow, at, name, ended, active, stores, pageAt, listed, expected,
    limit, recording, record, callAt, callOp, exports, offers, added, atSwap, late,
    hasParent, sampled, ts, decisions, spanCount, cameWith

Z == INSTANCE SpanProcessor WITH now <- zNow, MaxTime <- MaxSpanTime

R == INSTANCE RecordingSpan
     WITH Calls <- Spans, sampled <- recording

\* Entries a trace comes with: consistent and not, of values that are missing,
\* no numbers or too great, with fields of others, and too long.
MCTraceStates ==
    LET p(v) == [key |-> "p", value |-> v]
        r(v) == [key |-> "r", value |-> v]
        other(k) == [key |-> k, value |-> 0]
        blank == -2
        notNumber == -1
    IN  {<<>>, Malformed, <<r(2), p(1)>>, <<r(1), p(3)>>, <<r(1), p(4)>>, <<p(2)>>, <<r(4), p(1)>>,
         <<r(2), p(notNumber), other("a")>>, <<p(1), p(blank), r(2)>>, <<other("a"), other("b")>>,
         <<other("a"), other("b"), r(1), p(1)>>}

C == INSTANCE ConsistentSampler WITH spans <- spanCount

zpagesVars == <<zNow, at, name, ended, active, stores, pageAt, listed, expected>>
recordingVars == <<limit, recording, record, callAt, callOp, exports, offers, added, atSwap, late>>
samplerVars == <<hasParent, sampled, ts, decisions, spanCount, cameWith>>

MCLimits == {-1, 0, 1, 2}
MCAttributes ==
    LET attribute(key, value) == [key |-> key, value |-> value]
    IN  {<<>>, <<attribute("a", 1), attribute("a", 2)>>,
         <<attribute("b", Empty), attribute("c", 1), attribute("b", 1)>>}
MCStartLinks == <<"first", "second">>
MCFractions == {-1, 1, 3, 5, 8, 20, 48, 70}

MCPlaces == {close, far, across}
MCInBucket == {close, far}
MCDistance == close :> 1 @@ across :> 2 @@ far :> 3

MCInit ==
    /\ program \in {"locations", "zpages", "recording", "sampler"}
    /\ Init /\ Z!Init /\ R!Init /\ C!Init
    /\ program # "zpages" => Cardinality({name[s] : s \in Spans}) = 1
    /\ program # "recording" => limit = 0 /\ ~recording
    /\ program # "sampler" => ts = <<>> /\ ~hasParent /\ ~sampled

MCNext ==
    /\ \/ program = "locations" /\ Next /\ UNCHANGED <<zpagesVars, recordingVars, samplerVars>>
       \/ program = "zpages" /\ Z!Next /\ UNCHANGED <<vars, recordingVars, samplerVars>>
       \/ program = "recording" /\ R!Next /\ UNCHANGED <<vars, zpagesVars, samplerVars>>
       \/ program = "sampler" /\ C!Next /\ UNCHANGED <<vars, zpagesVars, recordingVars>>
    /\ UNCHANGED program

MCSpec == MCInit /\ [][MCNext]_<<vars, zpagesVars, recordingVars, samplerVars, program>>

PagesSound == Z!PagesSound
SpanSound == R!SpanSound
SamplingSound == C!SamplingSound
RoundedDown == C!RoundedDown

Symmetry == Permutations(Drivers) \cup Permutations(Spans) \cup Permutations(Names)
=============================================================================
