---------------------------- MODULE AsyncProducer ----------------------------
(***************************************************************************)
(* WrapAsyncProducer of otelsarama: a producer that puts itself in front   *)
(* of sarama's.  One goroutine passes messages on, two pass on what        *)
(* becomes of them, and a last one ends the spans that are left.  What a   *)
(* message has to keep is kept in a map under the ID of its span.          *)
(***************************************************************************)
EXTENDS Naturals, FiniteSets

CONSTANTS
    Messages,
    None,     \* no message
    NoSpan,   \* the ID that all spans have if nothing records them
    Pending   \* bound: what sarama has room for

Outcomes == {"succeeded", "failed"}

VARIABLES
    successes,   \* Producer.Return.Successes
    recording,   \* a TracerProvider is there, and spans have IDs of their own
    at,          \* where a message is
    metadata,    \* msg.Metadata: what the user put there, the message, or a key
    contexts,    \* producerMessageContexts: the messages whose span and metadata are in it, by key
    endings,     \* how often the span of a message was ended
    held,        \* what each of the two goroutines holds out to the user
    gone,        \* the two goroutines that have ended
    closing,     \* what the user called: "close" or "async"
    inner,       \* and what was then called on sarama's producer
    closed,      \* Close has returned
    reading,     \* the user reads Successes and Errors
    cleaned      \* the last goroutine has ended

producerVars == <<successes, recording, at, metadata, contexts, endings, held, gone,
                  closing, inner, closed, reading, cleaned>>

Init ==
    /\ successes \in BOOLEAN /\ recording \in BOOLEAN
    /\ at = [m \in Messages |-> "user"]
    /\ metadata = [m \in Messages |-> m]
    /\ contexts = {}
    /\ endings = [m \in Messages |-> 0]
    /\ held = [o \in Outcomes |-> None]
    /\ gone = {}
    /\ closing = "no" /\ inner = "no"
    /\ closed = FALSE /\ reading = TRUE /\ cleaned = FALSE

settings == <<successes, recording>>
ending == <<closing, inner, closed, reading, cleaned>>

At(place) == {m \in Messages : at[m] = place}
Idle == At("input") = {}

\* The key of a span, and what a store under it leaves of the map.
Key(m) == IF recording THEN <<m>> ELSE <<NoSpan>>
Stored(m) == {c \in contexts : c.key # Key(m)} \cup {[key |-> Key(m), message |-> m]}

-----------------------------------------------------------------------------
(* Messages.                                                               *)

\* The first goroutine receives a message from the user.
Take(m) ==
    /\ at[m] = "user" /\ Idle /\ closing = "no"
    /\ at' = [at EXCEPT ![m] = "input"]
    /\ metadata' = [metadata EXCEPT ![m] = Key(m)]
    /\ IF successes
       THEN contexts' = Stored(m) /\ UNCHANGED endings
       ELSE endings' = [endings EXCEPT ![m] = @ + 1] /\ UNCHANGED contexts
    /\ UNCHANGED <<settings, held, gone, ending>>

\* It blocks while sarama has no room.
HandOver(m) ==
    /\ at[m] = "input"
    /\ Cardinality(UNION {At(place) : place \in {"flight"} \cup Outcomes}) < Pending
    /\ at' = [at EXCEPT ![m] = "flight"]
    /\ UNCHANGED <<settings, metadata, contexts, endings, held, gone, ending>>

Settle(m) ==
    /\ at[m] = "flight"
    /\ \/ at' = [at EXCEPT ![m] = "failed"]
       \/ at' = [at EXCEPT ![m] = IF successes THEN "succeeded" ELSE "unreported"]
    /\ UNCHANGED <<settings, metadata, contexts, endings, held, gone, ending>>

Found(m) == {c \in contexts : c.key = metadata[m]}

\* Fault: the metadata of failures is not restored.
RestoredIfSent(m) ==
    IF at[m] = "failed" \/ Found(m) = {} THEN metadata[m] ELSE (CHOOSE c \in Found(m) : TRUE).message

Restored(m) ==
    IF Found(m) = {} THEN metadata[m] ELSE (CHOOSE c \in Found(m) : TRUE).message

Ended(entries) ==
    [m \in Messages |-> IF \E c \in entries : c.message = m THEN endings[m] + 1 ELSE endings[m]]

\* Fault: the entry stays in the map.
Kept(m) == contexts

Remaining(m) == contexts \ Found(m)

\* One of the two receives an outcome, ends the span found under the key
\* and restores the metadata found with it.
Receive(o, m) ==
    /\ at[m] = o /\ held[o] = None /\ o \notin gone
    /\ at' = [at EXCEPT ![m] = "held"]
    /\ held' = [held EXCEPT ![o] = m]
    /\ endings' = Ended(Found(m))
    /\ metadata' = [metadata EXCEPT ![m] = Restored(m)]
    /\ contexts' = Remaining(m)
    /\ UNCHANGED <<settings, gone, ending>>

Return(o) ==
    /\ held[o] # None /\ reading
    /\ at' = [at EXCEPT ![held[o]] = "returned"]
    /\ held' = [held EXCEPT ![o] = None]
    /\ UNCHANGED <<settings, metadata, contexts, endings, gone, ending>>

-----------------------------------------------------------------------------
(* The end.                                                                *)

StopReading ==
    /\ reading
    /\ reading' = FALSE
    /\ UNCHANGED <<settings, at, metadata, contexts, endings, held, gone, closing, inner, closed, cleaned>>

\* Close and AsyncClose; a second call of either panics, and is not made.
BeginClose ==
    /\ closing = "no"
    /\ closing' \in {"close", "async"}
    /\ UNCHANGED <<settings, at, metadata, contexts, endings, held, gone, inner, closed, reading, cleaned>>

\* Fault: the first goroutine returns when it finds its input closed.
CloseInnerNever ==
    /\ closing # "no" /\ inner = "no" /\ Idle
    /\ inner' = "never"
    /\ UNCHANGED <<settings, at, metadata, contexts, endings, held, gone, closing, closed, reading, cleaned>>

\* The first goroutine comes to its select: the input is closed, too, and
\* chosen any number of times before the signal.
CloseInner ==
    /\ closing # "no" /\ inner = "no" /\ Idle
    /\ inner' = closing
    /\ UNCHANGED <<settings, at, metadata, contexts, endings, held, gone, closing, closed, reading, cleaned>>

\* sarama's Close reads its own two channels while the others do, too.
Drain(m) ==
    /\ inner = "close" /\ at[m] \in Outcomes
    /\ at' = [at EXCEPT ![m] = "drained"]
    /\ UNCHANGED <<settings, metadata, contexts, endings, held, gone, ending>>

Flushed == inner \in {"close", "async"} /\ At("flight") = {}

Closed ==
    /\ inner = "close" /\ Flushed /\ At("failed") = {} /\ ~closed
    /\ closed' = TRUE
    /\ UNCHANGED <<settings, at, metadata, contexts, endings, held, gone, closing, inner, reading, cleaned>>

\* sarama has closed a channel, and nothing is left in it.
Leave(o) ==
    /\ Flushed /\ At(o) = {} /\ held[o] = None /\ o \notin gone
    /\ gone' = gone \cup {o}
    /\ UNCHANGED <<settings, at, metadata, contexts, endings, held, ending>>

\* Fault: what is left in the map is dropped.
CleanUpNothing ==
    /\ gone = Outcomes /\ ~cleaned
    /\ cleaned' = TRUE
    /\ UNCHANGED <<settings, at, metadata, contexts, endings, held, gone, closing, inner, closed, reading>>

CleanUp ==
    /\ gone = Outcomes /\ ~cleaned
    /\ cleaned' = TRUE
    /\ endings' = Ended(contexts)
    /\ UNCHANGED <<settings, at, metadata, contexts, held, gone, closing, inner, closed, reading>>

\* What goroutines and the broker do; a user who reads does so.
Progress ==
    \/ \E m \in Messages : HandOver(m) \/ Settle(m) \/ Drain(m) \/ \E o \in Outcomes : Receive(o, m)
    \/ \E o \in Outcomes : Return(o) \/ Leave(o)
    \/ CloseInner \/ Closed \/ CleanUp

Next == Progress \/ StopReading \/ BeginClose \/ \E m \in Messages : Take(m)

Fairness == WF_producerVars(Progress)

Spec == Init /\ [][Next]_producerVars /\ Fairness

-----------------------------------------------------------------------------
(* Properties. *)

\* The map has what is on its way, and of what shares a key the last alone.
ProducerTypeOK ==
    LET onTheirWay == UNION {At(place) : place \in {"input", "flight", "drained"} \cup Outcomes}
        kept == {c.message : c \in contexts}
    IN  /\ metadata \in [Messages -> Messages \cup {<<m>> : m \in Messages \cup {NoSpan}}]
        /\ kept \subseteq onTheirWay \/ ~recording
        /\ successes /\ recording => onTheirWay \subseteq kept
        /\ \A c, d \in contexts : c.key = d.key => c = d
        /\ \A o \in Outcomes : held[o] \in At("held") \cup {None}

(***************************************************************************)
(* A message comes back with the metadata that its user gave it (lines     *)
(* 208 and 228), unless successes are not returned, when nothing is kept   *)
(* that could be restored, or spans are not recorded: then all messages    *)
(* share a key, and may return with each other's metadata.                 *)
(***************************************************************************)
WrongMetadataNeedsCause ==
    \A m \in At("returned") : metadata[m] # m => ~successes \/ ~recording

\* No span is ended twice, by a goroutine and by the cleanup (lines 206, 226
\* and 241).
SpanEndsOnce == \A m \in Messages : endings[m] <= 1

(***************************************************************************)
(* When the producer is closed every span ends, though sarama takes        *)
(* outcomes for itself, if the user reads on (lines 191-245).              *)
(***************************************************************************)
EverySpanEnds ==
    closing # "no" /\ recording ~> ~reading \/ \A m \in Messages : at[m] # "user" => endings[m] = 1

\* Close returns to a user whose other goroutine reads on (line 116).
ProducerCloses == closing = "close" ~> ~reading \/ closed

(***************************************************************************)
(* Each message gets its metadata back, and its span is ended once, in     *)
(* whatever order sarama answers (producer.go, lines 130-248).             *)
(***************************************************************************)
ProducerSound == ProducerTypeOK /\ WrongMetadataNeedsCause /\ SpanEndsOnce

\* Spans end and Close returns (producer.go, lines 102-117 and 191-245).
ProducerEnds == EverySpanEnds /\ ProducerCloses

=============================================================================
