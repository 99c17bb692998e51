---------------------------- MODULE RecordingSpan ----------------------------
(***************************************************************************)
(* The span of the OpenTelemetry auto SDK, used by several goroutines: a   *)
(* call looks at `sampled` before it takes the lock, and End swaps it away *)
(* before it takes the lock to marshal the span.  Attributes, events and   *)
(* links have limits of which one number stands for all, since their lists *)
(* do not meet; a negative one is none.                                    *)
(*                                                                         *)
(* An event or a link is the call that adds it; their attributes, cut as   *)
(* those of Start are, and times are left out.                             *)
(***************************************************************************)
EXTENDS Integers, SequencesExt

CONSTANTS
    Calls,        \* one call each
    Limits,
    AttributeLists,  \* what Start and SetAttributes are given
    StartLinks,   \* the links Start is given
    Empty,        \* a value of a type the SDK does not know
    None

Additions == {"events", "links"}

Operations ==
    [op : {"SetAttributes"}, attrs : AttributeLists]
        \cup [op : {"Add"}, to : Additions]
        \cup [op : {"SetName", "End"}]

VARIABLES
    limit,
    sampled,
    record,      \* the telemetry.Span, None where Start was told not to sample
    callAt,      \* a call: "new", "locking", "done"
    callOp,      \* and what it does
    exports,     \* what was handed to ended
    offers,      \* history: attributes Start and SetAttributes were given under the lock
    added,       \* history: events and links
    atSwap,      \* history: calls past their check when End swapped, {None} before
    late         \* history: calls whose change came after the export

spanVars == <<limit, sampled, record, callAt, callOp, exports, offers, added, atSwap, late>>

-----------------------------------------------------------------------------
(* Limits.                                                                 *)

\* Fault: attributes without a value make room for others.
CappedLast(attrs) ==
    LET valued == SelectSeq(attrs, LAMBDA a : a.value # Empty)
        n == IF limit < 0 THEN Len(valued) ELSE Min({limit, Len(valued)})
    IN  [kept |-> SubSeq(valued, 1, n), dropped |-> Len(valued) - n]

KeptIfValued(kept, a) == IF a.value = Empty THEN kept ELSE Append(kept, a)

\* convCappedAttrs: what is beyond the limit is cut first, then what has no
\* value is lost without being counted.
Capped(attrs) ==
    LET n == IF limit < 0 THEN Len(attrs) ELSE Min({limit, Len(attrs)})
    IN  [kept |-> FoldLeft(KeptIfValued, <<>>, SubSeq(attrs, 1, n)),
         dropped |-> Len(attrs) - n]

\* Fault: a key is always appended.
SetOneAppended(r, a) ==
    IF a.value = Empty \/ (limit >= 0 /\ Len(r.attrs) >= limit)
    THEN [r EXCEPT !.droppedAttrs = @ + 1]
    ELSE [r EXCEPT !.attrs = Append(@, a)]

\* One turn of the loop of SetAttributes; the map m has the last place of a key.
SetOne(r, a) ==
    LET places == {i \in DOMAIN r.attrs : r.attrs[i].key = a.key}
    IN  IF a.value = Empty THEN [r EXCEPT !.droppedAttrs = @ + 1]
        ELSE IF places # {} THEN [r EXCEPT !.attrs[Max(places)] = a]
        ELSE IF limit < 0 \/ Len(r.attrs) < limit THEN [r EXCEPT !.attrs = Append(@, a)]
        ELSE [r EXCEPT !.droppedAttrs = @ + 1]

\* Fault: an attribute beyond the limit ends the loop.
SetAllUntilFull(r, attrs) ==
    IF limit = 0 THEN [r EXCEPT !.droppedAttrs = @ + Len(attrs)]
    ELSE FoldLeft(LAMBDA s, a : IF s.droppedAttrs > r.droppedAttrs THEN s ELSE SetOne(s, a), r, attrs)

SetAll(r, attrs) ==
    IF limit = 0 THEN [r EXCEPT !.droppedAttrs = @ + Len(attrs)]
                 ELSE FoldLeft(SetOne, r, attrs)

\* Fault: a full list keeps its head.
PushedFirst(list, item) ==
    IF limit >= 0 /\ Len(list.kept) >= limit THEN [list EXCEPT !.dropped = @ + 1]
    ELSE [list EXCEPT !.kept = Append(@, item)]

\* addEvent, AddLink: a full list loses its head.
Pushed(list, item) ==
    IF limit = 0 THEN [list EXCEPT !.dropped = @ + 1]
    ELSE IF Len(list.kept) = limit
         THEN [kept |-> Append(Tail(list.kept), item), dropped |-> list.dropped + 1]
         ELSE [list EXCEPT !.kept = Append(@, item)]

-----------------------------------------------------------------------------
(* Calls.                                                                  *)

Newest(items) ==
    LET n == IF limit < 0 THEN Len(items) ELSE Min({limit, Len(items)})
    IN  [kept |-> SubSeq(items, Len(items) - n + 1, Len(items)), dropped |-> Len(items) - n]

\* tracer.traces, with the attributes and links of the options.
Started(attrs) ==
    [name |-> "start",
     attrs |-> Capped(attrs).kept, droppedAttrs |-> Capped(attrs).dropped,
     events |-> [kept |-> <<>>, dropped |-> 0],
     links |-> Newest(StartLinks)]

Init ==
    /\ limit \in Limits
    /\ sampled \in BOOLEAN
    /\ \E attrs \in IF sampled THEN AttributeLists ELSE {<<>>} :
           /\ record = IF sampled THEN Started(attrs) ELSE None
           /\ offers = <<attrs>>
    /\ callAt = [c \in Calls |-> "new"]
    /\ callOp = [c \in Calls |-> None]
    /\ exports = <<>>
    /\ added = [events |-> <<>>, links |-> IF sampled THEN StartLinks ELSE <<>>]
    /\ atSwap = {None}
    /\ late = {}

Underway == {c \in Calls : callAt[c] = "locking"}

\* Fault: `sampled` is not looked at.
BeginUnchecked(c, o) ==
    /\ callAt[c] = "new" /\ o.op # "End"
    /\ callOp' = [callOp EXCEPT ![c] = o]
    /\ callAt' = [callAt EXCEPT ![c] = IF record = None THEN "done" ELSE "locking"]
    /\ UNCHANGED <<limit, sampled, record, exports, offers, added, atSwap, late>>

Begin(c, o) ==
    /\ callAt[c] = "new" /\ o.op # "End"
    /\ callOp' = [callOp EXCEPT ![c] = o]
    /\ callAt' = [callAt EXCEPT ![c] = IF sampled THEN "locking" ELSE "done"]
    /\ UNCHANGED <<limit, sampled, record, exports, offers, added, atSwap, late>>

\* Fault: `sampled` is loaded here and reset under the lock.
BeginEndLoading(c, o) ==
    /\ callAt[c] = "new" /\ o.op = "End"
    /\ callOp' = [callOp EXCEPT ![c] = o]
    /\ callAt' = [callAt EXCEPT ![c] = IF sampled THEN "locking" ELSE "done"]
    /\ atSwap' = IF sampled THEN Underway ELSE atSwap
    /\ UNCHANGED <<limit, sampled, record, exports, offers, added, late>>

\* sampled.Swap(false)
BeginEnd(c, o) ==
    /\ callAt[c] = "new" /\ o.op = "End"
    /\ callOp' = [callOp EXCEPT ![c] = o]
    /\ callAt' = [callAt EXCEPT ![c] = IF sampled THEN "locking" ELSE "done"]
    /\ sampled' = FALSE
    /\ atSwap' = IF sampled THEN Underway ELSE atSwap
    /\ UNCHANGED <<limit, record, exports, offers, added, late>>

\* What a call does under the lock.
Change(c) ==
    LET o == callOp[c] IN
    /\ late' = IF exports = <<>> THEN late ELSE late \cup {c}
    /\ CASE o.op = "SetAttributes" ->
                /\ record' = SetAll(record, o.attrs)
                /\ offers' = Append(offers, o.attrs)
                /\ UNCHANGED added
         [] o.op = "Add" ->
                /\ record' = [record EXCEPT ![o.to] = Pushed(@, c)]
                /\ added' = [added EXCEPT ![o.to] = Append(@, c)]
                /\ UNCHANGED offers
         [] o.op = "SetName" ->
                /\ record' = [record EXCEPT !.name = c]
                /\ UNCHANGED <<offers, added>>

Apply(c) ==
    /\ callAt[c] = "locking" /\ callOp[c].op # "End"
    /\ callAt' = [callAt EXCEPT ![c] = "done"]
    /\ Change(c)
    /\ UNCHANGED <<limit, sampled, callOp, exports, atSwap>>

\* end marshals the span under the lock and hands it on.
Export(c) ==
    /\ callAt[c] = "locking" /\ callOp[c].op = "End"
    /\ callAt' = [callAt EXCEPT ![c] = "done"]
    /\ exports' = Append(exports, record)
    /\ UNCHANGED <<limit, sampled, record, callOp, offers, added, atSwap, late>>

Next ==
    \E c \in Calls : \/ \E o \in Operations : Begin(c, o) \/ BeginEnd(c, o)
                     \/ Apply(c) \/ Export(c)

Spec == Init /\ [][Next]_spanVars
-----------------------------------------------------------------------------
(* Properties. *)

KeysOf(attrs) == {attrs[i].key : i \in DOMAIN attrs}

(***************************************************************************)
(* Whatever the order of the calls, each attribute given to Start beyond   *)
(* the limit, and each later one without a value or whose key found no     *)
(* room, is counted as dropped, and no other; a key has room unless the    *)
(* list is full of others, and its place has the newest value it was given *)
(* (span.go, lines 84-158).                                                *)
(***************************************************************************)
AttributesAccounted ==
    record # None =>
        LET given == FlattenSeq(Tail(offers))
            keys == KeysOf(record.attrs)
            refused == {i \in DOMAIN given : given[i].value = Empty \/ given[i].key \notin keys}
            cut == IF limit < 0 THEN 0 ELSE Max({0, Len(offers[1]) - limit})
        IN  /\ record.droppedAttrs = cut + Cardinality(refused)
            /\ limit >= 0 => Len(record.attrs) <= limit
            /\ \A i \in DOMAIN given \ refused :
                   (\A j \in DOMAIN given \ refused : j > i => given[j].key # given[i].key)
                       => \E p \in DOMAIN record.attrs : record.attrs[p] = given[i]
            /\ (\E i \in refused : given[i].value # Empty) => Len(record.attrs) = limit

(***************************************************************************)
(* Events and links that are kept are the newest, in their order, and the  *)
(* rest is counted (span.go, lines 369-441; tracer.go, lines 85-97).       *)
(***************************************************************************)
NewestKept ==
    record # None => \A k \in Additions :
        /\ IsSuffix(record[k].kept, added[k])
        /\ Len(record[k].kept) = IF limit < 0 THEN Len(added[k]) ELSE Min({limit, Len(added[k])})
        /\ record[k].dropped = Len(added[k]) - Len(record[k].kept)

(***************************************************************************)
(* A span that is sampled and ended is exported once, however many calls   *)
(* of End meet; what comes too late for it was past its check when End     *)
(* came to its own (span.go, lines 290-315).                               *)
(***************************************************************************)
ExportedOnce ==
    /\ Len(exports) <= 1
    /\ late \subseteq atSwap
    /\ (atSwap # {None} /\ Underway = {}) => Len(exports) = 1

(***************************************************************************)
(* What becomes of a span that goroutines share: nothing is lost but what  *)
(* is counted, or raced with the end (span.go, lines 54-158 and 290-441).  *)
(***************************************************************************)
SpanSound == AttributesAccounted /\ NewestKept /\ ExportedOnce

=============================================================================
