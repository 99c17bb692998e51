----------------------------- MODULE MCTelemetry -----------------------------
(***************************************************************************)
(* TLC instances of programs that pass telemetry on.  A behaviour is one   *)
(* of AsyncProducer or of ClientStream, or runs the three programs of      *)
(* lesson_08, which share nothing, one after the other.                    *)
(***************************************************************************)
EXTENDS BatchLog

CONSTANTS
    K, Processes, MaxValues,
    Messages, None, NoSpan, Pending,
    MaxMessages

ASSUME AggregateAssumption == K \in Nat \ {0} /\ MaxValues \in Nat

VARIABLES
    program,
    aMainAt, aSent, aChannel, aClosed, aWorkerAt, aIndex, seenLogs, reported,
    at, inMap, values, exported, scrape, over, collected, touched,
    successes, recording, place, metadata, contexts, endings, held, gone, closing, inner,
    producerClosed, reading, cleaned,
    serverStreams, streamed, received, final, canceled, callerAt, event, watcher, heard, span,
    told, lost

A == INSTANCE AggregateLog
     WITH mainAt <- aMainAt, sent <- aSent, channel <- aChannel, closed <- aClosed,
          workerAt <- aWorkerAt, index <- aIndex
M == INSTANCE MetricAggregation
P == INSTANCE AsyncProducer WITH at <- place, closed <- producerClosed
C == INSTANCE ClientStream WITH at <- callerAt, sent <- streamed

aggregateLogVars == <<aMainAt, aSent, aChannel, aClosed, aWorkerAt, aIndex, seenLogs, reported>>
metricVars == <<at, inMap, values, exported, scrape, over, collected, touched>>
lessonVars == <<vars, aggregateLogVars, metricVars>>
producerVars == <<successes, recording, place, metadata, contexts, endings, held, gone,
                  closing, inner, producerClosed, reading, cleaned>>
streamVars == <<serverStreams, streamed, received, final, canceled, callerAt, event, watcher,
                heard, span, told, lost>>

MCInit ==
    /\ program \in {"lesson_08", "producer", "stream"}
    /\ Init /\ A!Init /\ M!Init /\ P!Init /\ C!Init
    /\ program # "producer" => successes /\ recording
    /\ program # "stream" => serverStreams

LessonNext ==
    /\ program = "lesson_08"
    /\ \/ Next /\ UNCHANGED <<aggregateLogVars, metricVars>>
       \/ mainAt = "exited" /\ A!Next /\ UNCHANGED <<vars, metricVars>>
       \/ aMainAt = "exited" /\ M!Next /\ UNCHANGED <<vars, aggregateLogVars>>

MCNext ==
    /\ \/ LessonNext /\ UNCHANGED <<producerVars, streamVars>>
       \/ program = "producer" /\ P!Next /\ UNCHANGED <<lessonVars, streamVars>>
       \/ program = "stream" /\ C!Next /\ UNCHANGED <<lessonVars, producerVars>>
    /\ UNCHANGED program

\* Where the producer and the stream rest, nothing of theirs is due.
MCFairness == WF_lessonVars(LessonNext) /\ P!Fairness /\ C!Fairness

MCSpec == MCInit /\ [][MCNext]_<<lessonVars, producerVars, streamVars, program>> /\ MCFairness

\* What is aggregated is reported, and once: the counts of the log, and the
\* values of the averages (aggregate_log_example/main.go, lines 31-61;
\* aggregate_metric_example/main.go, lines 46-87).
AggregatesSound == A!CountsSound /\ M!ValuesSound
ProducerSound == P!ProducerSound
StreamSound == C!StreamSound

\* Main comes to its exit though the channel is bounded (async_logging_batch/main.go,
\* lines 71-84); the wrapped producer ends its spans and returns from Close
\* (producer.go, lines 102-245); the span of a stream ends, and keeps nobody
\* waiting (interceptor.go, lines 200-240).
EveryProgramEnds ==
    /\ program = "lesson_08" => EveryRunEnds
    /\ P!ProducerEnds
    /\ C!StreamEnds
=============================================================================
