------------------------------ MODULE LogChannel ------------------------------
(***************************************************************************)
(* What the asynchronous loggers of lesson_08 share: main sends N messages *)
(* into a buffered channel, closes it and waits for one worker, which      *)
(* receives until the channel is closed and empty.  What the worker does   *)
(* with a message is left to the module that extends this one.  A message  *)
(* is its number.                                                          *)
(***************************************************************************)
EXTENDS Integers, Sequences

CONSTANTS
    N,          \* messages: 5 000 000 in the code
    Capacity    \* of the channel: 100 000

ASSUME ChannelAssumption ==
    /\ N \in Nat
    /\ Capacity \in Nat \ {0}

VARIABLES
    mainAt,     \* where main is
    sent,       \* main's i: messages it has sent
    channel,    \* logChannel
    closed,     \* close(logChannel) was called
    workerAt    \* where the worker is

channelVars == <<mainAt, sent, channel, closed, workerAt>>

ChannelInit ==
    /\ mainAt = "send"
    /\ sent = 0
    /\ channel = <<>>
    /\ closed = FALSE
    /\ workerAt = "receive"

\* A send blocks while the channel is full.
Send ==
    /\ mainAt = "send" /\ sent < N
    /\ Len(channel) < Capacity
    /\ channel' = Append(channel, sent)
    /\ sent' = sent + 1
    /\ UNCHANGED <<mainAt, closed, workerAt>>

\* Fault: the channel is not closed before main waits.
CloseNot ==
    /\ mainAt = "send" /\ sent = N
    /\ mainAt' = "wait"
    /\ UNCHANGED <<sent, channel, closed, workerAt>>

Close ==
    /\ mainAt = "send" /\ sent = N
    /\ mainAt' = "wait"
    /\ closed' = TRUE
    /\ UNCHANGED <<sent, channel, workerAt>>

\* Fault: main does not wait for the worker.
ExitAtOnce ==
    /\ mainAt = "wait"
    /\ mainAt' = "exited"
    /\ UNCHANGED <<sent, channel, closed, workerAt>>

\* wg.Wait returns, and the process ends.
Exit ==
    /\ mainAt = "wait" /\ workerAt = "done"
    /\ mainAt' = "exited"
    /\ UNCHANGED <<sent, channel, closed, workerAt>>

Main == Send \/ Close \/ Exit

\* The worker works on while the process lives.
WorkerGoto(from, to) ==
    /\ mainAt # "exited"
    /\ workerAt = from
    /\ workerAt' = to
    /\ UNCHANGED <<mainAt, sent, closed>>

\* The range loop takes the oldest message.
Take(to) ==
    /\ WorkerGoto("receive", to)
    /\ channel # <<>>
    /\ channel' = Tail(channel)

\* The range loop ends: nothing is left and nothing will come.
Drained(to) ==
    /\ WorkerGoto("receive", to)
    /\ closed /\ channel = <<>>
    /\ UNCHANGED channel

ChannelTypeOK ==
    /\ mainAt \in {"send", "wait", "exited"}
    /\ sent \in 0..N
    /\ channel \in Seq(Nat)
    /\ Len(channel) <= Capacity
    /\ closed \in BOOLEAN
    /\ workerAt \in {"receive", "flush", "finish", "done"}

=============================================================================
