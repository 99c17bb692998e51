------------------------------- MODULE BatchLog -------------------------------
(***************************************************************************)
(* lesson_08/async_logging_batch: the worker collects messages and writes  *)
(* them out a batch at a time.  lesson_08/async_logging is the same with   *)
(* batches of one: its worker writes every message it receives.            *)
(***************************************************************************)
EXTENDS LogChannel

CONSTANT Batch    \* BATCH_SIZE, 1000 in the code; 1 without batches

ASSUME BatchAssumption == Batch \in Nat \ {0}

VARIABLES
    index,      \* messages counted since the last write
    builder,    \* messages collected since the last write
    out         \* the messages on standard output

vars == <<channelVars, index, builder, out>>

Init ==
    /\ ChannelInit
    /\ index = 0
    /\ builder = <<>>
    /\ out = <<>>

\* Fault: a batch is written when it has grown beyond its size.
ReceiveOneMore ==
    /\ Take(IF index + 1 > Batch THEN "flush" ELSE "receive")
    /\ index' = index + 1
    /\ builder' = Append(builder, Head(channel))
    /\ UNCHANGED out

Receive ==
    /\ Take(IF index + 1 >= Batch THEN "flush" ELSE "receive")
    /\ index' = index + 1
    /\ builder' = Append(builder, Head(channel))
    /\ UNCHANGED out

\* Fault: the builder is not reset.
WriteUnreset ==
    /\ WorkerGoto("flush", "receive")
    /\ out' = out \o builder
    /\ index' = 0
    /\ UNCHANGED <<channel, builder>>

\* Fault: the count is not reset.
WriteUncounted ==
    /\ WorkerGoto("flush", "receive")
    /\ out' = out \o builder
    /\ builder' = <<>>
    /\ UNCHANGED <<channel, index>>

Write ==
    /\ WorkerGoto("flush", "receive")
    /\ out' = out \o builder
    /\ index' = 0
    /\ builder' = <<>>
    /\ UNCHANGED channel

\* The loop ends, and what is in the builder is dropped.
Done ==
    /\ Drained("done")
    /\ UNCHANGED <<index, builder, out>>

Worker == Receive \/ Write \/ Done

Next ==
    \/ Main /\ UNCHANGED <<index, builder, out>>
    \/ Worker

(***************************************************************************)
(* Both goroutines are scheduled for as long as they can run.              *)
(***************************************************************************)
Spec == Init /\ [][Next]_vars /\ WF_vars(Next)

-----------------------------------------------------------------------------
(* Properties. *)

TypeOK ==
    /\ ChannelTypeOK
    /\ index \in 0..Batch
    /\ builder \in Seq(Nat)
    /\ out \in Seq(Nat)

(***************************************************************************)
(* Whatever the pace of the two goroutines, the output is the messages in  *)
(* the order they were produced, without a gap and without a repetition.   *)
(***************************************************************************)
LinesInOrder == \A i \in 1..Len(out) : out[i] = i - 1

(***************************************************************************)
(* A process killed at any moment loses no more of the messages it has     *)
(* produced than a full channel and a full batch (main.go, lines 14, 29).  *)
(***************************************************************************)
LossBounded == sent - Len(out) <= Capacity + Batch

(***************************************************************************)
(* When main returns, every full batch has been written; what remains of   *)
(* an unfinished one is lost, since nothing is written after the loop      *)
(* (main.go, lines 32-41).  With N a multiple of Batch, as in the code,    *)
(* nothing is lost.                                                        *)
(***************************************************************************)
ExitLosesOnlyTail ==
    mainAt = "exited" => Len(out) = N - (N % Batch)

(***************************************************************************)
(* The bounded channel never leaves main and worker waiting for each       *)
(* other: the program comes to its end.                                    *)
(***************************************************************************)
EveryRunEnds == <>(mainAt = "exited")

(***************************************************************************)
(* Of the lines produced, those written are the first, in order, and the   *)
(* others are few and known (main.go, lines 27-42).                        *)
(***************************************************************************)
LinesSafe == TypeOK /\ LinesInOrder /\ LossBounded /\ ExitLosesOnlyTail

=============================================================================
