-------------------------- MODULE ConsistentSampler --------------------------
(***************************************************************************)
(* opentelemetry-go-contrib/samplers/probability/consistent: the spans of  *)
(* a trace, each of a service with a sampler of its own, decide by one     *)
(* random number that the tracestate carries: a sampler samples if its     *)
(* log-adjusted count p (lac) is at most r, the leading zeros of that      *)
(* number.                                                                 *)
(*                                                                         *)
(* The "ot" entry of a tracestate is the sequence of its fields, each of   *)
(* size one, or Malformed.  A fraction is in units of 2^-Depth; in the     *)
(* code Depth is 205, and zero stands for all fractions below 2e-62.       *)
(***************************************************************************)
EXTENDS Integers, SequencesExt

CONSTANTS
    PZero,       \* pZeroValue, 63 in the code: also the random bits of r
    Depth,
    Fractions,   \* given to ProbabilityBased
    TraceStates, \* what a trace may come with
    Malformed,
    SizeLimit,   \* traceStateSizeLimit
    MaxSpans     \* bound: spans of the trace

Invalid == PZero + 1
Blank == -2       \* the value of a field that has none,
NotNumber == -1   \* and of one that is no number

VARIABLES
    hasParent,   \* the span context is valid,
    sampled,     \* its flag,
    ts,          \* and the entry of its tracestate
    decisions,   \* history: what ProbabilityBased decided, and from what
    spans,       \* history: how many spans there were
    cameWith     \* history: the r the trace came with

samplerVars == <<hasParent, sampled, ts, decisions, spans, cameWith>>

-----------------------------------------------------------------------------
(* tracestate.go                                                           *)

Has(value, maximum) == value <= maximum

\* parseNumber: a value that is missing is invalid and no error.
Number(value, maximum) == IF value \in 0..maximum THEN value ELSE maximum + 1
IsError(value, maximum) == value # Blank /\ value \notin 0..maximum

LastValue(fields, key) ==
    LET places == {i \in DOMAIN fields : fields[i].key = key}
    IN  IF places = {} THEN Blank ELSE fields[Max(places)].value

\* The fields of others, in their order: the n-th is the one that is n-th so far.
Others(fields) ==
    LET places == {i \in DOMAIN fields : fields[i].key \notin {"p", "r"}}
        upTo(i) == {j \in places : j <= i}
    IN  [n \in 1..Cardinality(places) |-> fields[CHOOSE i \in places : Cardinality(upTo(i)) = n]]

Unread(err) == [p |-> Invalid, r |-> Invalid, unknown |-> <<>>, err |-> err]

\* Fault: a p-value that does not fit r and flag is kept.
ParseTrusting(entry, isSampled) ==
    IF entry = <<>> THEN Unread(FALSE)
    ELSE IF entry = Malformed \/ Len(entry) > SizeLimit THEN Unread(TRUE)
    ELSE LET r == LastValue(entry, "r")
             p == LastValue(entry, "p")
             rest == [Unread(TRUE) EXCEPT !.unknown = Others(entry)]
         IN  IF IsError(r, PZero - 1) THEN rest
             ELSE IF IsError(p, PZero) THEN [rest EXCEPT !.r = Number(r, PZero - 1)]
             ELSE [rest EXCEPT !.r = Number(r, PZero - 1), !.p = Number(p, PZero), !.err = FALSE]

\* parseOTelTraceState: of fields with one key the last counts; p is dropped
\* with an r in error, or if it does not fit r and the flag.
Parse(entry, isSampled) ==
    IF entry = <<>> THEN Unread(FALSE)
    ELSE IF entry = Malformed \/ Len(entry) > SizeLimit THEN Unread(TRUE)
    ELSE LET r == LastValue(entry, "r")
             p == LastValue(entry, "p")
             rest == [Unread(TRUE) EXCEPT !.unknown = Others(entry)]
             withR == [rest EXCEPT !.r = Number(r, PZero - 1)]
             bothRead == Has(withR.r, PZero - 1) /\ Has(Number(p, PZero), PZero)
             implied == p <= r \/ p = PZero
         IN  IF IsError(r, PZero - 1) THEN rest
             ELSE IF IsError(p, PZero) \/ (bothRead /\ ~(isSampled /\ implied)) THEN withR
             ELSE [withR EXCEPT !.p = Number(p, PZero), !.err = FALSE]

Field(key, value) == [key |-> key, value |-> value]
Known(key, value, maximum) == IF Has(value, maximum) THEN <<Field(key, value)>> ELSE <<>>

\* Fault: fields of others come first.
SerializeOthersFirst(o) ==
    LET all == o.unknown \o Known("p", o.p, PZero) \o Known("r", o.r, PZero - 1)
    IN  SubSeq(all, 1, Min({Len(all), SizeLimit}))

\* Fields of others that find no room are left out.
Serialize(o) ==
    LET all == Known("p", o.p, PZero) \o Known("r", o.r, PZero - 1) \o o.unknown
    IN  SubSeq(all, 1, Min({Len(all), SizeLimit}))

-----------------------------------------------------------------------------
(* base2.go and sampler.go                                                 *)

Clamp(fraction) == Max({0, Min({fraction, 2^Depth})})

\* Fault: the two counts are swapped.
SplitSwapped(n) ==
    IF n < 1 THEN [low |-> PZero, high |-> PZero, lowParts |-> 1, parts |-> 1]
    ELSE LET low == CHOOSE l \in 0..Depth : 2^(Depth - l) <= n /\ n < 2^(Depth - l + 1)
             parts == 2^(Depth - low)
         IN  [low |-> low, high |-> (low - 1) % 256, lowParts |-> n - parts, parts |-> parts]

\* splitProb, where lowProb is lowParts / parts.
Split(n) ==
    IF n < 1 THEN [low |-> PZero, high |-> PZero, lowParts |-> 1, parts |-> 1]
    ELSE LET low == CHOOSE l \in 0..Depth : 2^(Depth - l) <= n /\ n < 2^(Depth - l + 1)
             parts == 2^(Depth - low)
         IN  [low |-> low, high |-> (low - 1) % 256, lowParts |-> 2 * parts - n, parts |-> parts]

Draws == 0..2^PZero - 1

\* newR: the leading zeros of PZero random bits.
NewR(draw) == Cardinality({i \in 0..PZero - 1 : draw < 2^i})

\* The counts lowChoice may choose from.
LacChoices(n) ==
    LET s == Split(n) IN IF s.lowParts = s.parts THEN {s.low} ELSE {s.low, s.high}

\* Fault: a count equal to r is not sampled.
SamplesBelow(lac, r) == lac < r

Samples(lac, r) == lac <= r

\* The r of the trace, or any that may be drawn for it.
Rs(read) == IF Has(read.r, PZero - 1) THEN {read.r} ELSE {NewR(draw) : draw \in Draws}

\* What ProbabilityBased makes of an entry; Insert refuses an empty one.
Decided(entry, n, lac, r) ==
    LET read == Parse(entry, sampled)
        yes == Samples(lac, r)
        written == Serialize([read EXCEPT !.r = r, !.p = IF yes THEN lac ELSE Invalid])
    IN  /\ sampled' = yes
        /\ ts' = IF written = <<>> THEN entry ELSE written
        /\ decisions' = Append(decisions, [fraction |-> n, lac |-> lac, r |-> r, sampled |-> yes])

-----------------------------------------------------------------------------

Init ==
    /\ hasParent \in BOOLEAN /\ sampled \in BOOLEAN
    /\ ts \in TraceStates
    /\ decisions = <<>> /\ spans = 0
    /\ cameWith = Parse(ts, sampled).r

NextSpan ==
    /\ spans < MaxSpans
    /\ spans' = spans + 1
    /\ hasParent' = TRUE
    /\ UNCHANGED cameWith

ProbabilityBased(fraction) ==
    LET n == Clamp(fraction) IN
    /\ NextSpan
    /\ \E lac \in LacChoices(n), r \in Rs(Parse(ts, sampled)) : Decided(ts, n, lac, r)

\* Fault: an entry that is repaired loses its r.
RepairedEmpty(entry) ==
    IF Parse(entry, sampled).err THEN <<>> ELSE entry

Repaired(entry) ==
    LET read == Parse(entry, sampled) IN IF read.err THEN Serialize(read) ELSE entry

\* The delegate ParentBased follows the flag of a parent and leaves the
\* others to its root.
ParentProbabilityBased(fraction) ==
    LET n == Clamp(fraction) IN
    /\ NextSpan
    /\ IF hasParent
       THEN ts' = Repaired(ts) /\ UNCHANGED <<sampled, decisions>>
       ELSE \E lac \in LacChoices(n), r \in Rs(Parse(Repaired(ts), sampled)) :
                Decided(Repaired(ts), n, lac, r)

Next == \E f \in Fractions : ProbabilityBased(f) \/ ParentProbabilityBased(f)

Spec == Init /\ [][Next]_samplerVars
-----------------------------------------------------------------------------
(* Properties. *)

\* All random bits were zero: r is one beyond what the tracestate can carry.
ZeroDrawn == \E i \in DOMAIN decisions : decisions[i].r = PZero

(***************************************************************************)
(* Decisions in a trace are nested: whoever has the greater probability    *)
(* samples what another does, whatever entry the trace came with and       *)
(* however many of its services follow their parents, unless all random    *)
(* bits were zero (sampler.go, lines 133-163).                             *)
(***************************************************************************)
Consistent ==
    ~ZeroDrawn => \A i, j \in DOMAIN decisions :
        (decisions[i].lac <= decisions[j].lac /\ decisions[j].sampled) => decisions[i].sampled

(***************************************************************************)
(* What a sampler hands on can be read without an error, and tells the     *)
(* last decision: its r, and its p if and only if it sampled, however      *)
(* full the entry was.  An r the trace came with is kept, and a p beside   *)
(* it is that of a sampled trace and fits it (sampler.go, lines 155-168;   *)
(* tracestate.go, lines 59-88 and 187-199; parent.go, lines 46-66).        *)
(***************************************************************************)
HandedOnReadable ==
    LET read == Parse(ts, sampled)
        both == {LastValue(ts, "p"), LastValue(ts, "r")} \subseteq 0..PZero
    IN  /\ Has(cameWith, PZero - 1) => read.r = cameWith
        /\ spans > 0 /\ ~ZeroDrawn =>
               /\ ~read.err
               /\ both => sampled /\ LastValue(ts, "p") \in 0..LastValue(ts, "r") \cup {PZero}
        /\ decisions # <<>> /\ ~ZeroDrawn =>
               LET d == Last(decisions)
               IN  /\ sampled = d.sampled /\ read.r = d.r
                   /\ read.p = IF d.sampled THEN d.lac ELSE Invalid

\* Over all draws and choices: how often a sampler samples, and the sum of
\* the counts it gives, each times parts.
Often(n, weight(_)) ==
    LET s == Split(n)
        yes(lac) == Cardinality({draw \in Draws : Samples(lac, NewR(draw))}) * weight(lac)
    IN  s.lowParts * yes(s.low)
            + (IF s.lowParts = s.parts THEN 0 ELSE (s.parts - s.lowParts) * yes(s.high))

(***************************************************************************)
(* A sampler samples exactly the fraction it was given, and its adjusted   *)
(* counts add up to the number of spans, for every fraction of at least    *)
(* 2^-63; below that, at most the one draw of zeros is sampled             *)
(* (base2.go, lines 43-68; sampler.go, lines 115-125).  The comment of the *)
(* constructor says otherwise: see RoundedDown.                            *)
(***************************************************************************)
FractionKept ==
    decisions # <<>> =>
        LET n == Last(decisions).fraction
            s == Split(n)
        IN  IF n * 2^PZero >= 2^Depth
            THEN /\ Often(n, LAMBDA lac : 1) * 2^Depth = n * 2^PZero * s.parts
                 /\ Often(n, LAMBDA lac : 2^lac) = 2^PZero * s.parts
            ELSE Often(n, LAMBDA lac : 1) <= s.parts

(***************************************************************************)
(* The samplers of a trace are consistent, unbiased and readable           *)
(* (sampler.go, lines 87-168).                                             *)
(***************************************************************************)
SamplingSound == Consistent /\ HandedOnReadable /\ FractionKept

(***************************************************************************)
(* "When the input fraction is not a power of two, it will be rounded      *)
(* down" and "fractions < 2^-62 are treated as zero" (sampler.go, lines    *)
(* 78-81): whatever is sampled, but for the draw of zeros, which a zero    *)
(* samples as well, is of a fraction no smaller than that, and one of at   *)
(* most that fraction.  The code chooses between the powers on both sides  *)
(* of a fraction, compares with 2e-62, and breaks this.                    *)
(***************************************************************************)
RoundedDown ==
    \A i \in DOMAIN decisions :
        LET d == decisions[i]
        IN  d.sampled /\ d.r # PZero =>
                2^Depth <= d.fraction * 2^(PZero - 1) /\ 2^Depth <= d.fraction * 2^d.lac

=============================================================================
