----------------------------- MODULE AggregateLog -----------------------------
(***************************************************************************)
(* lesson_08/aggregate_log_example: the worker counts equal messages and   *)
(* reports the counts a batch at a time, and once more at the end.  The    *)
(* mutex of the counts is only ever taken by the worker and left out.      *)
(***************************************************************************)
EXTENDS LogChannel, FiniteSets

CONSTANTS
    Batch,    \* BATCH_SIZE, 1000 in the code
    K         \* how many different messages there are: 5 in the code

Texts == 0..(K - 1)

VARIABLES
    index,      \* messages counted since the last report
    seenLogs,   \* the counts since the last report
    reported    \* the sum of the counts reported of each message

vars == <<channelVars, index, seenLogs, reported>>

Init ==
    /\ ChannelInit
    /\ index = 0
    /\ seenLogs = [t \in Texts |-> 0]
    /\ reported = [t \in Texts |-> 0]

\* generateLogMessage: i % 5.
Text(i) == i % K

Receive ==
    /\ Take(IF index + 1 >= Batch THEN "flush" ELSE "receive")
    /\ index' = index + 1
    /\ seenLogs' = [seenLogs EXCEPT ![Text(Head(channel))] = @ + 1]
    /\ UNCHANGED reported

\* Fault: the counts are not deleted.
FlushLogsKeeping ==
    /\ reported' = [t \in Texts |-> reported[t] + seenLogs[t]]
    /\ UNCHANGED <<channel, seenLogs>>

FlushLogs ==
    /\ reported' = [t \in Texts |-> reported[t] + seenLogs[t]]
    /\ seenLogs' = [t \in Texts |-> 0]
    /\ UNCHANGED channel

\* Fault: the count is not reset after a report.
FlushUncounted ==
    /\ WorkerGoto("flush", "receive")
    /\ FlushLogs
    /\ UNCHANGED index

Flush ==
    /\ WorkerGoto("flush", "receive")
    /\ FlushLogs
    /\ index' = 0

\* Fault: nothing is reported after the loop.
EndLoopUnreported ==
    /\ Drained("done")
    /\ UNCHANGED <<index, seenLogs, reported>>

EndLoop ==
    /\ Drained("finish")
    /\ UNCHANGED <<index, seenLogs, reported>>

\* flushLogs once more, after the loop.
Finish ==
    /\ WorkerGoto("finish", "done")
    /\ FlushLogs
    /\ UNCHANGED index

Worker == Receive \/ Flush \/ EndLoop \/ Finish

Next ==
    \/ Main /\ UNCHANGED <<index, seenLogs, reported>>
    \/ Worker

Spec == Init /\ [][Next]_vars

-----------------------------------------------------------------------------
(* Properties. *)

AggregateTypeOK ==
    /\ ChannelTypeOK
    /\ index \in 0..Batch
    /\ seenLogs \in [Texts -> Nat]
    /\ reported \in [Texts -> Nat]

(***************************************************************************)
(* No message is lost from the counts or counted twice, across any number  *)
(* of reports: of each message, what was reported and what waits for the   *)
(* next report add up to what the worker has received.                     *)
(***************************************************************************)
OfText(t, n) == Cardinality({i \in 0..(n - 1) : Text(i) = t})

CountsAddUp ==
    \A t \in Texts : reported[t] + seenLogs[t] = OfText(t, sent - Len(channel))

(***************************************************************************)
(* When main returns, every message it sent has been reported, also those  *)
(* of an unfinished batch (main.go, lines 33-45).                          *)
(***************************************************************************)
ExitReportsAll ==
    mainAt = "exited" => \A t \in Texts : reported[t] = OfText(t, N)

(***************************************************************************)
(* The counts are right at any moment, and complete in the end (main.go,   *)
(* lines 28-57).                                                           *)
(***************************************************************************)
CountsSound == AggregateTypeOK /\ CountsAddUp /\ ExitReportsAll

=============================================================================
