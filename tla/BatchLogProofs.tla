---------------------------- MODULE BatchLogProofs ----------------------------
(***************************************************************************)
(* Proofs about BatchLog, for any number of messages, channel and batch:   *)
(* the output is in order, and what can be missing from it is bounded.     *)
(* And about the programs that aggregate instead of writing, AggregateLog  *)
(* and MetricAggregation: what they report, and that they report it once.  *)
(* And about the spans of a ClientStream and of an AsyncProducer.          *)
(***************************************************************************)
EXTENDS MCTelemetry, SequenceTheorems, FiniteSetTheorems, TLAPS

(***************************************************************************)
(* The messages sent are, one after the other, those written, those in the *)
(* builder and those in the channel.                                       *)
(***************************************************************************)
Queued ==
    /\ sent = Len(out) + Len(builder) + Len(channel)
    /\ LinesInOrder
    /\ \A i \in 1..Len(builder) : builder[i] = Len(out) + i - 1
    /\ \A i \in 1..Len(channel) : channel[i] = Len(out) + Len(builder) + i - 1

\* Whole batches are written, and the worker does not outgrow one.
Batched ==
    /\ index = Len(builder)
    /\ \E k \in Nat : Len(out) = k * Batch
    /\ workerAt # "flush" => index < Batch
    /\ workerAt = "flush" => index = Batch

\* Main and the worker end in this order.
Ended ==
    /\ closed <=> mainAt # "send"
    /\ mainAt # "send" => sent = N
    /\ workerAt = "done" => closed /\ channel = <<>>
    /\ mainAt = "exited" => workerAt = "done"

IInv == TypeOK /\ Queued /\ Batched /\ Ended

-----------------------------------------------------------------------------
LEMMA InitIInv == Init => IInv
<1> SUFFICES ASSUME Init PROVE IInv
  OBVIOUS
<1> USE ChannelAssumption, BatchAssumption
<1>1. TypeOK
  <2>1. builder \in Seq(Nat) /\ out \in Seq(Nat) /\ channel \in Seq(Nat) /\ Len(channel) = 0
    BY EmptySeq DEF Init, ChannelInit
  <2>2. closed \in BOOLEAN
    BY Zenon DEF Init, ChannelInit
  <2>3. mainAt \in {"send", "wait", "exited"} /\ workerAt \in {"receive", "flush", "done"}
    BY DEF Init, ChannelInit
  <2>4. sent \in 0..N /\ index \in 0..Batch /\ Len(channel) <= Capacity
    BY <2>1 DEF Init, ChannelInit
  <2>5. QED
    BY <2>1, <2>2, <2>3, <2>4 DEF TypeOK, ChannelTypeOK
<1>2. Queued
  BY DEF Init, ChannelInit, Queued, LinesInOrder
<1>3. Batched
  <2>1. Len(out) = 0 * Batch
    BY DEF Init
  <2>2. QED
    BY <2>1 DEF Init, ChannelInit, Batched
<1>4. Ended
  BY DEF Init, ChannelInit, Ended
<1>5. QED
  BY <1>1, <1>2, <1>3, <1>4 DEF IInv

\* A step of main lengthens the channel by the next message, or nothing.
LEMMA MainIInv ==
    ASSUME IInv, Main, UNCHANGED <<index, builder, out>>
    PROVE  IInv'
<1> USE ChannelAssumption, BatchAssumption
<1>1. CASE Send
  <2>1. TypeOK'
    BY <1>1 DEF IInv, TypeOK, ChannelTypeOK, Send
  <2>2. Queued'
    BY <1>1 DEF IInv, TypeOK, ChannelTypeOK, Queued, LinesInOrder, Send
  <2>3. Batched'
    BY <1>1 DEF IInv, Batched, Send
  <2>4. Ended'
    BY <1>1 DEF IInv, Ended, Send
  <2>5. QED
    BY <2>1, <2>2, <2>3, <2>4 DEF IInv
<1>2. CASE Close
  BY <1>2 DEF IInv, TypeOK, ChannelTypeOK, Queued, LinesInOrder, Batched, Ended, Close
<1>3. CASE Exit
  BY <1>3 DEF IInv, TypeOK, ChannelTypeOK, Queued, LinesInOrder, Batched, Ended, Exit
<1>4. QED
  BY <1>1, <1>2, <1>3 DEF Main

\* A message moves from the head of the channel to the end of the builder.
LEMMA ReceiveIInv ==
    ASSUME IInv, Receive
    PROVE  IInv'
<1> USE ChannelAssumption, BatchAssumption
<1>1. /\ channel \in Seq(Nat) /\ channel # <<>> /\ Len(channel) \in Nat \ {0}
      /\ builder \in Seq(Nat) /\ Len(builder) \in Nat /\ Len(out) \in Nat
      /\ index \in Nat /\ index + 1 <= Batch
      /\ workerAt = "receive" /\ mainAt # "exited"
  BY DEF IInv, TypeOK, ChannelTypeOK, Batched, Receive, Take, WorkerGoto
<1>2. /\ channel' = Tail(channel) /\ channel' \in Seq(Nat)
      /\ Len(channel') = Len(channel) - 1
      /\ \A i \in 1..Len(channel') : channel'[i] = channel[i + 1]
  BY <1>1 DEF Receive, Take
<1>3. Head(channel) = channel[1] /\ Head(channel) \in Nat
  BY <1>1
<1>4. /\ builder' = Append(builder, channel[1]) /\ builder' \in Seq(Nat)
      /\ Len(builder') = Len(builder) + 1
      /\ \A i \in 1..Len(builder) : builder'[i] = builder[i]
      /\ builder'[Len(builder) + 1] = channel[1]
  BY <1>1, <1>3 DEF Receive
<1>5. UNCHANGED <<mainAt, sent, closed, out>> /\ index' = index + 1
  BY DEF Receive, Take, WorkerGoto
<1>6. /\ workerAt' \in {"receive", "flush"}
      /\ workerAt' = "flush" <=> index' = Batch
  BY <1>1, <1>5 DEF Receive, Take, WorkerGoto
<1>7. TypeOK'
  BY <1>1, <1>2, <1>4, <1>5, <1>6 DEF IInv, TypeOK, ChannelTypeOK
<1>8. Queued'
  <2>1. channel[1] = Len(out) + Len(builder)
    BY <1>1 DEF IInv, Queued
  <2>2. \A i \in 1..Len(builder') : builder'[i] = Len(out') + i - 1
    <3> SUFFICES ASSUME NEW i \in 1..Len(builder')
                 PROVE  builder'[i] = Len(out) + i - 1
      BY <1>5
    <3>1. CASE i = Len(builder) + 1
      BY <1>1, <1>4, <2>1, <3>1
    <3>2. CASE i \in 1..Len(builder)
      BY <1>4, <3>2 DEF IInv, Queued
    <3>3. QED
      BY <1>1, <1>4, <3>1, <3>2
  <2>3. \A i \in 1..Len(channel') : channel'[i] = Len(out') + Len(builder') + i - 1
    BY <1>1, <1>2, <1>4, <1>5 DEF IInv, Queued
  <2>4. QED
    BY <1>1, <1>2, <1>4, <1>5, <2>2, <2>3 DEF IInv, Queued, LinesInOrder
<1>9. Batched'
  <2>1. index' = Len(builder')
    BY <1>4, <1>5 DEF IInv, Batched
  <2>2. \E k \in Nat : Len(out') = k * Batch
    BY <1>5 DEF IInv, Batched
  <2>3. /\ workerAt' # "flush" => index' < Batch
        /\ workerAt' = "flush" => index' = Batch
    BY <1>1, <1>5, <1>6
  <2>4. QED
    BY <2>1, <2>2, <2>3 DEF Batched
<1>10. Ended'
  BY <1>1, <1>5, <1>6 DEF IInv, Ended
<1>11. QED
  BY <1>7, <1>8, <1>9, <1>10 DEF IInv

\* A full builder moves to the end of the output.
LEMMA WriteIInv ==
    ASSUME IInv, Write
    PROVE  IInv'
<1> USE ChannelAssumption, BatchAssumption
<1>1. /\ builder \in Seq(Nat) /\ out \in Seq(Nat)
      /\ Len(builder) \in Nat /\ Len(out) \in Nat /\ Len(channel) \in Nat
      /\ Len(builder) = Batch
  BY DEF IInv, TypeOK, ChannelTypeOK, Batched, Write, WorkerGoto
<1>2. /\ out' = out \o builder /\ out' \in Seq(Nat)
      /\ Len(out') = Len(out) + Len(builder)
      /\ \A i \in 1..Len(out) : out'[i] = out[i]
      /\ \A i \in (Len(out) + 1)..Len(out') : out'[i] = builder[i - Len(out)]
  <2>1. out' = out \o builder
    BY DEF Write
  <2>2. /\ out \o builder \in Seq(Nat)
        /\ Len(out \o builder) = Len(out) + Len(builder)
        /\ \A i \in 1..Len(out) + Len(builder) :
              (out \o builder)[i] = IF i <= Len(out) THEN out[i] ELSE builder[i - Len(out)]
    BY <1>1, ConcatProperties
  <2>3. \A i \in 1..Len(out) : out'[i] = out[i]
    BY <1>1, <2>1, <2>2
  <2>4. \A i \in (Len(out) + 1)..Len(out') : out'[i] = builder[i - Len(out)]
    <3> SUFFICES ASSUME NEW i \in (Len(out) + 1)..Len(out')
                 PROVE  out'[i] = builder[i - Len(out)]
      OBVIOUS
    <3>1. i \in 1..Len(out) + Len(builder) /\ ~(i <= Len(out))
      BY <1>1, <2>1, <2>2
    <3>2. QED
      BY <2>1, <2>2, <3>1
  <2>5. QED
    BY <2>1, <2>2, <2>3, <2>4
<1>3. /\ builder' = <<>> /\ Len(builder') = 0 /\ builder' \in Seq(Nat) /\ index' = 0
      /\ UNCHANGED <<mainAt, sent, closed, channel>>
      /\ workerAt' = "receive"
  BY DEF Write, WorkerGoto
<1>4. TypeOK'
  BY <1>2, <1>3 DEF IInv, TypeOK, ChannelTypeOK
<1>5. Queued'
  <2>1. \A i \in (Len(out) + 1)..Len(out') : out'[i] = i - 1
    <3> SUFFICES ASSUME NEW i \in (Len(out) + 1)..Len(out')
                 PROVE  out'[i] = i - 1
      OBVIOUS
    <3>1. i - Len(out) \in 1..Len(builder)
      BY <1>1, <1>2
    <3>2. QED
      BY <1>1, <1>2, <3>1 DEF IInv, Queued
  <2>2. \A i \in 1..Len(out') : out'[i] = i - 1
    BY <1>1, <1>2, <2>1 DEF IInv, Queued, LinesInOrder
  <2>3. sent' = Len(out') + Len(builder') + Len(channel')
    <3>1. sent = Len(out) + Len(builder) + Len(channel)
      BY DEF IInv, Queued
    <3>2. sent' = sent /\ Len(channel') = Len(channel)
      BY <1>3
    <3>3. QED
      BY <1>1, <1>2, <1>3, <3>1, <3>2
  <2>4. \A i \in 1..Len(channel') : channel'[i] = Len(out') + Len(builder') + i - 1
    BY <1>1, <1>2, <1>3 DEF IInv, Queued
  <2>5. QED
    BY <1>3, <2>2, <2>3, <2>4 DEF Queued, LinesInOrder
<1>6. Batched'
  <2>1. PICK k \in Nat : Len(out) = k * Batch
    BY DEF IInv, Batched
  <2>2. Len(out') = (k + 1) * Batch /\ k + 1 \in Nat
    BY <1>1, <1>2, <2>1
  <2>3. QED
    BY <1>3, <2>2 DEF Batched
<1>7. Ended'
  BY <1>3 DEF IInv, Ended, Write, WorkerGoto
<1>8. QED
  BY <1>4, <1>5, <1>6, <1>7 DEF IInv

LEMMA NextIInv ==
    ASSUME IInv, [Next]_vars
    PROVE  IInv'
<1>1. CASE Main /\ UNCHANGED <<index, builder, out>>
  BY <1>1, MainIInv
<1>2. CASE Receive
  BY <1>2, ReceiveIInv
<1>3. CASE Write
  BY <1>3, WriteIInv
<1>4. CASE Done
  BY <1>4 DEF IInv, TypeOK, ChannelTypeOK, Queued, LinesInOrder, Batched, Ended,
              Done, Drained, WorkerGoto
<1>5. CASE UNCHANGED vars
  BY <1>5 DEF IInv, TypeOK, ChannelTypeOK, Queued, LinesInOrder, Batched, Ended,
              vars, channelVars
<1>6. QED
  BY <1>1, <1>2, <1>3, <1>4, <1>5 DEF Next, Worker

LEMMA Invariant == Spec => []IInv
<1>1. Init => IInv
  BY InitIInv
<1>2. IInv /\ [Next]_vars => IInv'
  BY NextIInv
<1>3. QED
  BY <1>1, <1>2, PTL DEF Spec

-----------------------------------------------------------------------------
\* What is left over of whole batches is the remainder.
LEMMA Remainder ==
    ASSUME NEW k \in Nat, NEW b \in Nat \ {0}, NEW r \in 0..(b - 1)
    PROVE  (k * b + r) % b = r
<1> DEFINE n == k * b + r
           q == n \div b
           m == n % b
<1>1. n \in Nat /\ q \in Int /\ m \in 0..(b - 1) /\ n = b * q + m
  OBVIOUS
<1> HIDE DEF q, m
<1>2. b * (k - q) = m - r /\ k - q \in Int
  BY <1>1
<1>3. -b < b * (k - q) /\ b * (k - q) < b
  BY <1>1, <1>2
<1>4. k - q = 0
  <2>1. CASE k - q >= 1
    <3>1. b * (k - q) >= b
      BY <1>2, <2>1
    <3>2. QED
      BY <1>2, <1>3, <3>1
  <2>2. CASE k - q <= -1
    <3>1. b * (k - q) <= -b
      BY <1>2, <2>2
    <3>2. QED
      BY <1>2, <1>3, <3>1
  <2>3. QED
    BY <1>2, <2>1, <2>2
<1>5. m = r
  BY <1>1, <1>2, <1>4
<1>6. QED
  BY <1>5 DEF m

\* Every variable keeps its type; the channel never holds more than it can.
THEOREM TypeCorrect == Spec => []TypeOK
<1>1. IInv => TypeOK
  BY DEF IInv
<1>2. QED
  BY <1>1, Invariant, PTL

\* The output is the messages as they were produced, from the first on.
THEOREM InOrder == Spec => []LinesInOrder
<1>1. IInv => LinesInOrder
  BY DEF IInv, Queued
<1>2. QED
  BY <1>1, Invariant, PTL

\* At no moment are more than a channel and a batch of messages at risk.
THEOREM Bounded == Spec => []LossBounded
<1>1. IInv => LossBounded
  BY ChannelAssumption, BatchAssumption
     DEF IInv, TypeOK, ChannelTypeOK, Queued, Batched, LossBounded
<1>2. QED
  BY <1>1, Invariant, PTL

\* A run that ends has written every message but an unfinished batch.
THEOREM TailLost == Spec => []ExitLosesOnlyTail
<1>1. ASSUME IInv, mainAt = "exited"
      PROVE  Len(out) = N - (N % Batch)
  <2>1. /\ N = Len(out) + index /\ index \in Nat /\ index < Batch
        /\ N \in Nat /\ Batch \in Nat \ {0}
    BY <1>1, ChannelAssumption, BatchAssumption
       DEF IInv, TypeOK, ChannelTypeOK, Queued, Batched, Ended
  <2>2. PICK k \in Nat : Len(out) = k * Batch
    BY <1>1 DEF IInv, Batched
  <2>3. N = k * Batch + index /\ index \in 0..(Batch - 1)
    BY <2>1, <2>2
  <2>4. (k * Batch + index) % Batch = index
    BY <2>1, <2>3, Remainder
  <2>5. QED
    BY <2>1, <2>3, <2>4
<1>2. IInv => ExitLosesOnlyTail
  BY <1>1 DEF ExitLosesOnlyTail
<1>3. QED
  BY <1>2, Invariant, PTL

(***************************************************************************)
(* No line is lost, repeated or overtaken but for an unfinished batch (async_ *)
(* batch_log_example/main.go): the four parts of LinesSafe together.       *)
(***************************************************************************)
THEOREM Lines == Spec => []LinesSafe
BY TypeCorrect, InOrder, Bounded, TailLost, PTL DEF LinesSafe

-----------------------------------------------------------------------------
(* The counts of AggregateLog.                                             *)

(***************************************************************************)
(* The messages in the channel are the last ones sent, in their order, so  *)
(* the worker has received all those before them; it reports when it has   *)
(* counted a batch, and has counted nothing it did not report when done.   *)
(***************************************************************************)
CountsInv ==
    /\ A!AggregateTypeOK
    /\ Len(aChannel) <= aSent
    /\ \A i \in 1..Len(aChannel) : aChannel[i] = aSent - Len(aChannel) + i - 1
    /\ A!CountsAddUp
    /\ aWorkerAt = "receive" => aIndex < Batch
    /\ aMainAt # "send" => aSent = N
    /\ aClosed => aMainAt # "send"
    /\ aWorkerAt \in {"finish", "done"} => aClosed /\ aChannel = <<>>
    /\ aWorkerAt = "done" => \A t \in A!Texts : seenLogs[t] = 0
    /\ aMainAt = "exited" => aWorkerAt = "done"

LEMMA TextsOfNone ==
    ASSUME NEW t
    PROVE  A!OfText(t, 0) = 0
<1>1. {i \in 0..(0 - 1) : A!Text(i) = t} = {}
  OBVIOUS
<1>2. A!Cardinality({}) = Cardinality({})
  BY DEF A!Cardinality, Cardinality
<1>3. Cardinality({}) = 0
  BY FS_EmptySet
<1>4. QED BY <1>1, <1>2, <1>3 DEF A!OfText

\* The next message adds one to the count of its text, and to no other.
LEMMA TextsOfOneMore ==
    ASSUME NEW t, NEW n \in Nat
    PROVE  /\ A!OfText(t, n) \in Nat
           /\ A!Text(n) = t => A!OfText(t, n + 1) = A!OfText(t, n) + 1
           /\ A!Text(n) # t => A!OfText(t, n + 1) = A!OfText(t, n)
<1> DEFINE S == {i \in 0..(n - 1) : A!Text(i) = t}
           T == {i \in 0..((n + 1) - 1) : A!Text(i) = t}
<1>1. IsFiniteSet(S)
  <2>1. IsFiniteSet(0..(n - 1))
    BY FS_Interval
  <2>2. S \subseteq 0..(n - 1)
    OBVIOUS
  <2>3. QED BY <2>1, <2>2, FS_Subset
<1>2. A!Text(n) = t => T = S \cup {n}
  OBVIOUS
<1>3. A!Text(n) # t => T = S
  OBVIOUS
<1>4. n \notin S
  OBVIOUS
<1>5. A!OfText(t, n) = Cardinality(S) /\ A!OfText(t, n + 1) = Cardinality(T)
  BY DEF A!OfText, A!Cardinality, Cardinality
<1> HIDE DEF S, T
<1>6. Cardinality(S \cup {n}) = Cardinality(S) + 1
  BY <1>1, <1>4, FS_AddElement
<1>7. Cardinality(S) \in Nat
  BY <1>1, FS_CardinalityType
<1>8. QED BY <1>2, <1>3, <1>5, <1>6, <1>7

LEMMA InitCounts == A!Init => CountsInv
<1> SUFFICES ASSUME A!Init PROVE CountsInv
  OBVIOUS
<1> USE ChannelAssumption, BatchAssumption, AggregateAssumption
<1>1. /\ aMainAt = "send" /\ aSent = 0 /\ aChannel = <<>> /\ aWorkerAt = "receive" /\ aIndex = 0
      /\ seenLogs = [t \in A!Texts |-> 0] /\ reported = [t \in A!Texts |-> 0]
  BY DEF A!Init, A!ChannelInit
<1>2. aClosed = FALSE
  BY DEF A!Init, A!ChannelInit
<1>3. aChannel \in Seq(Nat) /\ Len(aChannel) = 0
  BY <1>1, EmptySeq
<1>4. A!AggregateTypeOK
  <2>1. aClosed \in BOOLEAN
    BY <1>2, Zenon
  <2>2. QED BY <1>1, <1>3, <2>1 DEF A!AggregateTypeOK, A!ChannelTypeOK
<1>5. A!CountsAddUp
  <2> SUFFICES ASSUME NEW t \in A!Texts PROVE reported[t] + seenLogs[t] = A!OfText(t, aSent - Len(aChannel))
    BY DEF A!CountsAddUp
  <2>1. reported[t] = 0 /\ seenLogs[t] = 0
    BY <1>1
  <2>2. aSent - Len(aChannel) = 0
    <3>1. aSent = 0 /\ Len(aChannel) = 0
      BY <1>1, <1>3, Zenon
    <3>2. QED BY <3>1
  <2>3. reported[t] + seenLogs[t] = 0
    BY <2>1
  <2>4. QED BY <2>2, <2>3, TextsOfNone
<1>6. QED BY <1>1, <1>2, <1>3, <1>4, <1>5 DEF CountsInv

LEMMA SendKeepsCounts ==
    ASSUME CountsInv, A!Send, UNCHANGED <<aIndex, seenLogs, reported>>
    PROVE  CountsInv'
<1> USE ChannelAssumption
<1>1. /\ aMainAt = "send" /\ aMainAt' = aMainAt /\ aClosed' = aClosed /\ aWorkerAt' = aWorkerAt
      /\ aSent < N /\ aSent' = aSent + 1 /\ aSent \in Nat
      /\ aChannel \in Seq(Nat) /\ Len(aChannel) \in Nat /\ Len(aChannel) < Capacity
      /\ aChannel' = Append(aChannel, aSent)
      /\ UNCHANGED <<aIndex, seenLogs, reported>>
  BY DEF CountsInv, A!AggregateTypeOK, A!ChannelTypeOK, A!Send
<1>2. /\ aChannel' \in Seq(Nat) /\ Len(aChannel') = Len(aChannel) + 1
      /\ \A i \in 1..Len(aChannel) : aChannel'[i] = aChannel[i]
      /\ aChannel'[Len(aChannel) + 1] = aSent
  BY <1>1
<1>3. A!AggregateTypeOK'
  <2>1. aSent' \in 0..N /\ Len(aChannel') <= Capacity
    BY <1>1, <1>2 DEF CountsInv, A!AggregateTypeOK, A!ChannelTypeOK
  <2>2. QED BY <1>1, <1>2, <2>1 DEF CountsInv, A!AggregateTypeOK, A!ChannelTypeOK
<1>4. /\ Len(aChannel') <= aSent'
      /\ \A i \in 1..Len(aChannel') : aChannel'[i] = aSent' - Len(aChannel') + i - 1
  BY <1>1, <1>2 DEF CountsInv
<1>5. A!CountsAddUp'
  <2>1. aSent' - Len(aChannel') = aSent - Len(aChannel)
    BY <1>1, <1>2
  <2>2. QED BY <1>1, <2>1 DEF CountsInv, A!CountsAddUp
<1>6. aWorkerAt \notin {"finish", "done"}
  BY <1>1 DEF CountsInv
<1>7. QED BY <1>1, <1>3, <1>4, <1>5, <1>6 DEF CountsInv

\* The message at the head of the channel is the first not yet counted.
LEMMA ReceiveKeepsCounts ==
    ASSUME CountsInv, A!Receive
    PROVE  CountsInv'
<1> USE ChannelAssumption, BatchAssumption, AggregateAssumption
<1>1. /\ aMainAt # "exited" /\ aWorkerAt = "receive" /\ aIndex \in Nat /\ aIndex < Batch /\ aIndex' = aIndex + 1
      /\ aWorkerAt' = (IF aIndex + 1 >= Batch THEN "flush" ELSE "receive")
      /\ aMainAt' = aMainAt /\ aClosed' = aClosed /\ aSent' = aSent /\ aSent \in Nat
      /\ aChannel \in Seq(Nat) /\ aChannel # <<>> /\ Len(aChannel) \in Nat
      /\ aChannel' = Tail(aChannel)
      /\ seenLogs' = [seenLogs EXCEPT ![A!Text(Head(aChannel))] = @ + 1]
      /\ reported' = reported
  BY DEF CountsInv, A!AggregateTypeOK, A!ChannelTypeOK, A!Receive, A!Take, A!WorkerGoto
<1>2. /\ aChannel' \in Seq(Nat) /\ Len(aChannel') = Len(aChannel) - 1 /\ Len(aChannel) >= 1
      /\ \A i \in 1..Len(aChannel') : aChannel'[i] = aChannel[i + 1]
      /\ Head(aChannel) = aChannel[1]
  BY <1>1
<1>3. PICK n \in Nat : n = aSent - Len(aChannel)
  <2>1. Len(aChannel) <= aSent
    BY DEF CountsInv
  <2>2. aSent - Len(aChannel) \in Nat
    BY <1>1, <2>1
  <2>3. QED BY <2>2
<1>4. Head(aChannel) = n /\ aSent' - Len(aChannel') = n + 1
  BY <1>1, <1>2, <1>3 DEF CountsInv
<1>5. seenLogs \in [A!Texts -> Nat] /\ reported \in [A!Texts -> Nat]
  BY DEF CountsInv, A!AggregateTypeOK
<1>6. A!Text(n) \in A!Texts
  BY DEF A!Text, A!Texts
<1>7. PICK m \in A!Texts : m = A!Text(n)
  BY <1>6
<1>8. /\ seenLogs' \in [A!Texts -> Nat]
      /\ seenLogs'[m] = seenLogs[m] + 1
      /\ \A t \in A!Texts : t # m => seenLogs'[t] = seenLogs[t]
  BY <1>1, <1>4, <1>5, <1>7
<1>9. A!CountsAddUp'
  <2> SUFFICES ASSUME NEW t \in A!Texts PROVE reported'[t] + seenLogs'[t] = A!OfText(t, n + 1)
    BY <1>4 DEF A!CountsAddUp
  <2>1. reported[t] + seenLogs[t] = A!OfText(t, n)
    BY <1>3 DEF CountsInv, A!CountsAddUp
  <2>2. reported[t] \in Nat /\ seenLogs[t] \in Nat /\ reported'[t] = reported[t]
    BY <1>1, <1>5
  <2>3. CASE t = m
    <3>1. A!OfText(t, n + 1) = A!OfText(t, n) + 1
      BY <1>7, <2>3, TextsOfOneMore
    <3>2. seenLogs'[t] = seenLogs[t] + 1
      BY <1>8, <2>3
    <3>3. QED BY <2>1, <2>2, <3>1, <3>2
  <2>4. CASE t # m
    <3>1. A!OfText(t, n + 1) = A!OfText(t, n)
      BY <1>7, <2>4, TextsOfOneMore
    <3>2. seenLogs'[t] = seenLogs[t]
      BY <1>8, <2>4
    <3>3. QED BY <2>1, <2>2, <3>1, <3>2
  <2>5. QED BY <2>3, <2>4
<1>10. aIndex' \in 0..Batch /\ aWorkerAt' \in {"receive", "flush"} /\ (aWorkerAt' = "receive" => aIndex' < Batch)
  BY <1>1
<1>11. A!AggregateTypeOK'
  BY <1>1, <1>2, <1>8, <1>10 DEF CountsInv, A!AggregateTypeOK, A!ChannelTypeOK
<1>12. /\ Len(aChannel') <= aSent'
       /\ \A i \in 1..Len(aChannel') : aChannel'[i] = aSent' - Len(aChannel') + i - 1
  BY <1>1, <1>2 DEF CountsInv
<1>13. QED BY <1>1, <1>9, <1>10, <1>11, <1>12 DEF CountsInv

\* A report moves the counts to what was reported, and leaves zeros behind.
LEMMA ReportKeepsCounts ==
    ASSUME CountsInv, A!FlushLogs
    PROVE  /\ seenLogs' \in [A!Texts -> Nat] /\ reported' \in [A!Texts -> Nat]
           /\ \A t \in A!Texts : seenLogs'[t] = 0 /\ reported'[t] + seenLogs'[t] = reported[t] + seenLogs[t]
           /\ aChannel' = aChannel
BY DEF CountsInv, A!AggregateTypeOK, A!FlushLogs

LEMMA FlushKeepsCounts ==
    ASSUME CountsInv, A!Flush \/ A!Finish
    PROVE  CountsInv'
<1> USE ChannelAssumption, BatchAssumption
<1>1. A!FlushLogs /\ aMainAt # "exited" /\ aMainAt' = aMainAt /\ aClosed' = aClosed /\ aSent' = aSent
  BY DEF A!Flush, A!Finish, A!WorkerGoto
<1>2. /\ seenLogs' \in [A!Texts -> Nat] /\ reported' \in [A!Texts -> Nat]
      /\ \A t \in A!Texts : seenLogs'[t] = 0 /\ reported'[t] + seenLogs'[t] = reported[t] + seenLogs[t]
      /\ aChannel' = aChannel
  BY <1>1, ReportKeepsCounts
<1>3. /\ aIndex' \in 0..Batch
      /\ \/ aWorkerAt = "flush" /\ aWorkerAt' = "receive" /\ aIndex' = 0
         \/ aWorkerAt = "finish" /\ aWorkerAt' = "done"
  BY DEF CountsInv, A!AggregateTypeOK, A!Flush, A!Finish, A!WorkerGoto
<1>4. A!AggregateTypeOK'
  BY <1>1, <1>2, <1>3 DEF CountsInv, A!AggregateTypeOK, A!ChannelTypeOK
<1>5. A!CountsAddUp'
  BY <1>1, <1>2 DEF CountsInv, A!CountsAddUp
<1>6. QED BY <1>1, <1>2, <1>3, <1>4, <1>5 DEF CountsInv

LEMMA NextCounts ==
    ASSUME CountsInv, A!Next \/ UNCHANGED aggregateLogVars
    PROVE  CountsInv'
<1>1. CASE A!Main /\ UNCHANGED <<aIndex, seenLogs, reported>>
  <2>1. CASE A!Send
    BY <1>1, <2>1, SendKeepsCounts
  <2>2. CASE A!Close
    BY <1>1, <2>2 DEF CountsInv, A!AggregateTypeOK, A!ChannelTypeOK, A!CountsAddUp, A!Close
  <2>3. CASE A!Exit
    BY <1>1, <2>3 DEF CountsInv, A!AggregateTypeOK, A!ChannelTypeOK, A!CountsAddUp, A!Exit
  <2>4. QED BY <1>1, <2>1, <2>2, <2>3 DEF A!Main
<1>2. CASE A!Receive
  BY <1>2, ReceiveKeepsCounts
<1>3. CASE A!Flush \/ A!Finish
  BY <1>3, FlushKeepsCounts
<1>4. CASE A!EndLoop
  BY <1>4 DEF CountsInv, A!AggregateTypeOK, A!ChannelTypeOK, A!CountsAddUp, A!EndLoop, A!Drained, A!WorkerGoto
<1>5. CASE UNCHANGED aggregateLogVars
  BY <1>5 DEF CountsInv, A!AggregateTypeOK, A!ChannelTypeOK, A!CountsAddUp, aggregateLogVars
<1>6. QED BY <1>1, <1>2, <1>3, <1>4, <1>5 DEF A!Next, A!Worker

LEMMA CountsAreSound ==
    ASSUME CountsInv
    PROVE  A!CountsSound
<1> USE ChannelAssumption
<1>1. ASSUME aMainAt = "exited", NEW t \in A!Texts PROVE reported[t] = A!OfText(t, N)
  <2>1. aSent = N /\ aChannel = <<>> /\ seenLogs[t] = 0
    BY <1>1 DEF CountsInv
  <2>2. aSent - Len(aChannel) = N
    BY <2>1
  <2>3. reported[t] + seenLogs[t] = A!OfText(t, aSent - Len(aChannel)) /\ reported[t] \in Nat
    BY DEF CountsInv, A!CountsAddUp, A!AggregateTypeOK
  <2>4. QED BY <2>1, <2>2, <2>3
<1>2. QED BY <1>1 DEF A!CountsSound, A!ExitReportsAll, CountsInv

-----------------------------------------------------------------------------
(* The averages of MetricAggregation.                                      *)

(***************************************************************************)
(* A list is missing from the map only when its insertion met another      *)
(* access; the bound on the values collected bounds lists and averages.    *)
(***************************************************************************)
ValuesInv ==
    /\ at \in [Processes -> {"start", "insert", "run", "nil"}]
    /\ inMap \subseteq Processes /\ scrape \subseteq Processes /\ touched \subseteq Processes
    /\ values \in [Processes -> Nat] /\ exported \in [Processes -> Nat]
    /\ collected \in [Processes -> 0..MaxValues]
    /\ over \in {"no", "died", "stopped"}
    /\ M!ValuesCountOnce

LEMMA InitValues == M!Init => ValuesInv
BY AggregateAssumption DEF M!Init, ValuesInv, M!ValuesCountOnce

LEMMA NextValues ==
    ASSUME ValuesInv, M!Next \/ UNCHANGED metricVars
    PROVE  ValuesInv'
<1>1. ASSUME NEW p \in Processes, M!Begin(p) PROVE ValuesInv'
  BY <1>1 DEF M!Begin, M!Inserting, ValuesInv, M!ValuesCountOnce
<1>2. ASSUME NEW p \in Processes, M!Insert(p) PROVE ValuesInv'
  <2>1. UNCHANGED <<values, exported, scrape, over, collected, touched>>
    BY <1>2 DEF M!Insert
  <2>2. /\ inMap' \subseteq Processes /\ inMap \ touched \subseteq inMap'
        /\ \/ at' = [at EXCEPT ![p] = "run"] /\ (p \in inMap' \/ p \in touched)
           \/ at' = [at EXCEPT ![p] = "nil"]
    BY <1>2 DEF M!Insert, ValuesInv
  <2>3. QED BY <2>1, <2>2 DEF ValuesInv, M!ValuesCountOnce
<1>3. ASSUME NEW p \in Processes, M!Collect(p) PROVE ValuesInv'
  BY <1>3, AggregateAssumption DEF M!Collect, ValuesInv, M!ValuesCountOnce
<1>4. ASSUME NEW p \in Processes, M!Export(p) PROVE ValuesInv'
  BY <1>4, AggregateAssumption DEF M!Export, ValuesInv, M!ValuesCountOnce
<1>5. CASE M!Scrape
  BY <1>5 DEF M!Scrape, M!Inserting, ValuesInv, M!ValuesCountOnce
<1>6. CASE M!Stop \/ M!Die
  BY <1>6 DEF M!Stop, M!Die, ValuesInv, M!ValuesCountOnce
<1>7. CASE UNCHANGED metricVars
  BY <1>7 DEF metricVars, ValuesInv, M!ValuesCountOnce
<1>8. QED BY <1>1, <1>2, <1>3, <1>4, <1>5, <1>6, <1>7 DEF M!Next

LEMMA ValuesAreSound ==
    ASSUME ValuesInv
    PROVE  M!ValuesSound
<1>1. \A p \in Processes : values[p] \in 0..MaxValues /\ exported[p] \in 0..MaxValues
  BY AggregateAssumption DEF ValuesInv, M!ValuesCountOnce
<1>2. QED BY <1>1 DEF M!ValuesSound, M!AggregationTypeOK, ValuesInv

-----------------------------------------------------------------------------
(***************************************************************************)
(* What is aggregated is reported, and once, for any number of messages,   *)
(* texts, processes and values, and any channel and batch: the counts of   *)
(* the log, and the values of the averages                                 *)
(* (aggregate_log_example/main.go, lines 31-61;                            *)
(* aggregate_metric_example/main.go, lines 46-87).                         *)
(***************************************************************************)
THEOREM Aggregates == MCSpec => []AggregatesSound
<1>1. MCInit => CountsInv /\ ValuesInv
  BY InitCounts, InitValues DEF MCInit
<1>2. ASSUME CountsInv, ValuesInv,
             [MCNext]_<<lessonVars, producerVars, streamVars, program>>
      PROVE  CountsInv' /\ ValuesInv'
  <2>1. \/ A!Next \/ UNCHANGED aggregateLogVars
    BY <1>2 DEF MCNext, LessonNext, lessonVars
  <2>2. \/ M!Next \/ UNCHANGED metricVars
    BY <1>2 DEF MCNext, LessonNext, lessonVars
  <2>3. QED BY <1>2, <2>1, <2>2, NextCounts, NextValues
<1>3. CountsInv /\ ValuesInv => AggregatesSound
  BY CountsAreSound, ValuesAreSound DEF AggregatesSound
<1>4. QED BY <1>1, <1>2, <1>3, PTL DEF MCSpec

-----------------------------------------------------------------------------
(* The span of ClientStream.                                               *)

\* The receiver has all that was sent, and records no more.
AllReceived ==
    /\ final # "none" /\ callerAt["receiver"] # "record"
    /\ serverStreams => received = streamed

(***************************************************************************)
(* What a caller has to tell, what the watcher heard and what the span     *)
(* ended with are an end of the RPC; only a receiver that has everything   *)
(* tells how it ended.                                                     *)
(***************************************************************************)
Tells(what) ==
    \/ what \in {"ok", "error"} /\ what = final /\ AllReceived
    \/ what = "eof" /\ (final # "none" \/ canceled)
    \/ what = "sendError" /\ final = "error"
    \/ what = "canceled" /\ canceled

StreamInv ==
    /\ streamed \in Nat /\ received \in 0..streamed /\ lost \in Nat
    /\ final \in {"none", "ok", "error"}
    /\ callerAt \in [C!Callers -> {"user", "record", "notify"}]
    /\ event \in [C!Callers -> {"none", "ok", "error", "eof", "sendError", "canceled"}]
    /\ \A c \in C!Callers : callerAt[c] = "notify" => Tells(event[c])
    /\ watcher \in {"select", "finish", "gone"}
    /\ watcher = "finish" => Tells(heard)
    /\ IF watcher = "gone" THEN Tells(span) ELSE span = "open"
    /\ lost > 0 => span \in {"eof", "sendError", "canceled"}

LEMMA InitStream == C!Init => StreamInv
BY DEF C!Init, StreamInv, C!Callers

\* What has been told stays true.
LEMMA TellsOn ==
    ASSUME NEW what, Tells(what), callerAt'["receiver"] = "record" => callerAt["receiver"] = "record",
           final # "none" => final' = final /\ streamed' = streamed /\ received' = received,
           canceled => canceled', serverStreams' = serverStreams
    PROVE  Tells(what)'
BY DEF Tells, AllReceived

LEMMA NextStream ==
    ASSUME StreamInv, C!Next \/ UNCHANGED streamVars
    PROVE  StreamInv'
<1> USE DEF StreamInv, C!Callers
<1>1. CASE C!ServerSends
  <2>1. UNCHANGED <<serverStreams, received, final, canceled, callerAt, event, watcher, heard, span, told, lost>>
        /\ final = "none" /\ streamed' = streamed + 1
    BY <1>1 DEF C!ServerSends, C!tracing
  <2>2. ASSUME NEW what, Tells(what) PROVE Tells(what)'
    BY <2>1, <2>2 DEF Tells, AllReceived
  <2>3. QED BY <2>1, <2>2
<1>2. CASE C!ServerEnds
  <2>1. UNCHANGED <<serverStreams, streamed, received, canceled, callerAt, event, watcher, heard, span, told, lost>>
        /\ final = "none" /\ final' \in {"ok", "error"}
    BY <1>2 DEF C!ServerEnds, C!tracing
  <2>2. ASSUME NEW what, Tells(what) PROVE Tells(what)'
    BY <2>1, <2>2 DEF Tells, AllReceived
  <2>3. QED BY <2>1, <2>2
<1>3. CASE C!Cancel
  <2>1. UNCHANGED <<serverStreams, streamed, received, final, callerAt, event, watcher, heard, span, told, lost>>
        /\ canceled'
    BY <1>3 DEF C!Cancel, C!tracing
  <2>2. ASSUME NEW what, Tells(what) PROVE Tells(what)'
    BY <2>1, <2>2 DEF Tells, AllReceived
  <2>3. QED BY <2>1, <2>2
<1>4. CASE C!RecvMessage
  <2>1. UNCHANGED <<serverStreams, streamed, final, canceled, event, watcher, heard, span, told, lost>>
        /\ serverStreams /\ received < streamed /\ received' = received + 1
        /\ callerAt["receiver"] = "user" /\ callerAt' = [callerAt EXCEPT !["receiver"] = "record"]
    BY <1>4 DEF C!RecvMessage, C!tracing
  <2>2. ASSUME NEW what, Tells(what) PROVE Tells(what)'
    BY <2>1, <2>2 DEF Tells, AllReceived
  <2>3. QED BY <2>1, <2>2
<1>5. CASE C!Record
  <2>1. UNCHANGED <<serverStreams, streamed, received, final, canceled, event, watcher, heard, span>>
        /\ callerAt["receiver"] = "record" /\ callerAt' = [callerAt EXCEPT !["receiver"] = "user"]
        /\ lost' = IF span = "open" THEN lost ELSE lost + 1
    BY <1>5 DEF C!Record, C!tracing, C!rpc
  <2>2. ASSUME NEW what, Tells(what) PROVE Tells(what)'
    BY <2>1, <2>2 DEF Tells, AllReceived
  <2>3. lost' > 0 => span \in {"eof", "sendError", "canceled"}
    BY <2>1 DEF Tells, AllReceived
  <2>4. QED BY <2>1, <2>2, <2>3
\* Who meets the end comes to the watcher with what Tells allows.
<1>6. ASSUME NEW c \in C!Callers, NEW what, C!Tell(c, what),
             what \in {"ok", "error", "eof", "sendError", "canceled"},
             UNCHANGED <<serverStreams, streamed, received, canceled>>,
             final' \in {"none", "ok", "error"}, final # "none" => final' = final,
             Tells(what)'
      PROVE  StreamInv'
  <2>1. UNCHANGED <<watcher, heard, span, lost>> /\ callerAt[c] = "user"
        /\ callerAt' = [callerAt EXCEPT ![c] = "notify"] /\ event' = [event EXCEPT ![c] = what]
    BY <1>6 DEF C!Tell, C!tracing
  <2>2. ASSUME NEW w, Tells(w) PROVE Tells(w)'
    <3>1. callerAt'["receiver"] = "record" => callerAt["receiver"] = "record"
      BY <2>1
    <3>2. QED BY <1>6, <2>2, <3>1, TellsOn
  <2>3. QED BY <1>6, <2>1, <2>2
<1>7. CASE C!RecvEnd
  <2>1. C!Tell("receiver", C!EndMet) /\ UNCHANGED <<serverStreams, streamed, received, final, canceled>>
        /\ \/ final # "none" /\ (serverStreams => received = streamed)
           \/ canceled /\ final = "none"
    BY <1>7 DEF C!RecvEnd, C!rpc
  <2>2. C!EndMet \in {"ok", "error", "canceled"} /\ callerAt' = [callerAt EXCEPT !["receiver"] = "notify"]
    BY <2>1 DEF C!EndMet, C!Tell
  <2>3. PICK what \in {"ok", "error", "canceled"} : what = C!EndMet
    BY <2>2
  <2>4. Tells(what)'
    BY <2>1, <2>2, <2>3 DEF Tells, AllReceived, C!EndMet
  <2>5. QED BY <1>6, <2>1, <2>3, <2>4
<1>8. CASE C!Header
  <2>1. C!Tell("receiver", "error") /\ UNCHANGED <<serverStreams, streamed, received, final, canceled>>
        /\ final = "error" /\ streamed = 0
    BY <1>8 DEF C!Header, C!rpc
  <2>2. Tells("error")'
    BY <2>1 DEF Tells, AllReceived, C!Tell
  <2>3. QED BY <1>6, <2>1, <2>2
<1>9. CASE C!SendFindsEnd
  <2>1. C!Tell("sender", "eof") /\ UNCHANGED <<serverStreams, streamed, received, final, canceled>>
        /\ (final # "none" \/ canceled)
    BY <1>9 DEF C!SendFindsEnd, C!rpc
  <2>2. Tells("eof")'
    BY <2>1 DEF Tells
  <2>3. QED BY <1>6, <2>1, <2>2
<1>10. CASE C!SendFails
  <2>1. C!Tell("sender", "sendError") /\ UNCHANGED <<serverStreams, streamed, received, canceled>>
        /\ final = "none" /\ final' = "error"
    BY <1>10 DEF C!SendFails
  <2>2. Tells("sendError")'
    BY <2>1 DEF Tells
  <2>3. QED BY <1>6, <2>1, <2>2
<1>11. ASSUME NEW c \in C!Callers, C!Notify(c) \/ C!Skip(c) PROVE StreamInv'
  <2>1. UNCHANGED <<serverStreams, streamed, received, final, canceled, event, span, lost>>
        /\ callerAt[c] = "notify" /\ callerAt' = [callerAt EXCEPT ![c] = "user"]
        /\ \/ watcher = "select" /\ watcher' = "finish" /\ heard' = event[c]
           \/ UNCHANGED <<watcher, heard>>
    BY <1>11 DEF C!Notify, C!Skip, C!tracing, C!rpc
  <2>2. ASSUME NEW what, Tells(what) PROVE Tells(what)'
    <3>1. callerAt'["receiver"] = "record" => callerAt["receiver"] = "record"
      BY <2>1
    <3>2. QED BY <2>1, <2>2, <3>1, TellsOn
  <2>3. QED BY <2>1, <2>2
<1>12. CASE C!WatchCancel
  <2>1. UNCHANGED <<serverStreams, streamed, received, final, canceled, callerAt, event, span, lost>>
        /\ watcher = "select" /\ canceled /\ watcher' = "finish" /\ heard' = "canceled"
    BY <1>12 DEF C!WatchCancel, C!rpc
  <2>2. ASSUME NEW what, Tells(what) PROVE Tells(what)'
    BY <2>1, <2>2 DEF Tells, AllReceived
  <2>3. Tells("canceled")'
    BY <2>1 DEF Tells
  <2>4. QED BY <2>1, <2>2, <2>3
<1>13. CASE C!Finish
  <2>1. UNCHANGED <<serverStreams, streamed, received, final, canceled, callerAt, event, heard, lost>>
        /\ watcher = "finish" /\ watcher' = "gone" /\ span' = heard
    BY <1>13 DEF C!Finish, C!rpc
  <2>2. ASSUME NEW what, Tells(what) PROVE Tells(what)'
    BY <2>1, <2>2 DEF Tells, AllReceived
  <2>3. QED BY <2>1, <2>2
<1>14. CASE UNCHANGED streamVars
  BY <1>14 DEF streamVars, Tells, AllReceived
<1>15. QED
  BY <1>1, <1>2, <1>3, <1>4, <1>5, <1>7, <1>8, <1>9, <1>10, <1>11, <1>12, <1>13, <1>14
     DEF C!Next, C!Progress

LEMMA StreamIsSound ==
    ASSUME StreamInv
    PROVE  C!StreamSound
<1>1. C!SpanTellsEnd
  BY DEF StreamInv, C!SpanTellsEnd, Tells
<1>2. C!LostNeedsOther
  BY DEF StreamInv, C!LostNeedsOther
<1>3. QED BY <1>1, <1>2 DEF C!StreamSound

(***************************************************************************)
(* The span of a stream has the status of the RPC, and misses no message   *)
(* that was received, unless the sender or the context ended it, however   *)
(* many messages there are (interceptor.go, lines 150-300).                *)
(***************************************************************************)
THEOREM StreamTold == MCSpec => []StreamSound
<1>1. MCInit => StreamInv
  BY InitStream DEF MCInit
<1>2. ASSUME StreamInv, [MCNext]_<<lessonVars, producerVars, streamVars, program>>
      PROVE  StreamInv'
  <2>1. C!Next \/ UNCHANGED streamVars
    BY <1>2 DEF MCNext
  <2>2. QED BY <1>2, <2>1, NextStream
<1>3. StreamInv => StreamSound
  BY StreamIsSound DEF StreamSound
<1>4. QED BY <1>1, <1>2, <1>3, PTL DEF MCSpec

-----------------------------------------------------------------------------
(* Spans and metadata of AsyncProducer.                                    *)

Entry(m) == [key |-> P!Key(m), message |-> m]

OnTheirWay == {"input", "flight", "drained"} \cup P!Outcomes

(***************************************************************************)
(* A message with the user is as it was given.  An entry of the map stands *)
(* for a span that has not been ended, until the cleanup ends all; with    *)
(* keys of their own, the entries are those of the messages on their way,  *)
(* which can be found by their metadata, and all others have theirs back.  *)
(***************************************************************************)
ProducerInv ==
    /\ successes \in BOOLEAN /\ recording \in BOOLEAN
    /\ place \in [Messages -> {"user", "held", "returned", "unreported"} \cup OnTheirWay]
    /\ metadata \in [Messages -> Messages \cup {<<m>> : m \in Messages \cup {NoSpan}}]
    /\ contexts \subseteq {Entry(m) : m \in Messages}
    /\ \A c, d \in contexts : c.key = d.key => c = d
    /\ ~successes => contexts = {}
    /\ endings \in [Messages -> {0, 1}]
    /\ \A m \in Messages : place[m] = "user" => endings[m] = 0 /\ Entry(m) \notin contexts /\ metadata[m] = m
    /\ ~cleaned => \A m \in Messages : Entry(m) \in contexts => endings[m] = 0
    /\ recording => \A m \in Messages : Entry(m) \in contexts => place[m] \in OnTheirWay
    /\ recording /\ successes => \A m \in Messages :
           IF place[m] \in OnTheirWay THEN Entry(m) \in contexts /\ metadata[m] = P!Key(m)
                                      ELSE metadata[m] = m
    /\ successes => \A m \in Messages : place[m] # "unreported"
    /\ held \in [P!Outcomes -> P!At("held") \cup {None}]
    /\ \A o, s \in P!Outcomes : held[o] # None /\ held[o] = held[s] => o = s
    /\ gone \subseteq P!Outcomes
    /\ cleaned => gone = P!Outcomes
    /\ gone # {} => inner # "no"
    /\ inner # "no" => closing # "no"

LEMMA InitProducer == P!Init => ProducerInv
BY DEF P!Init, ProducerInv, P!Outcomes, P!At, OnTheirWay

LEMMA NextProducer ==
    ASSUME ProducerInv, P!Next \/ UNCHANGED producerVars
    PROVE  ProducerInv'
<1> USE DEF ProducerInv, P!Outcomes, OnTheirWay, P!settings, P!ending
<1>1. ASSUME UNCHANGED <<successes, recording, metadata, contexts, endings, held, gone, closing, inner, cleaned>>,
             NEW m \in Messages, NEW to \in {"flight", "drained", "unreported"} \cup P!Outcomes,
             place[m] \in OnTheirWay, place' = [place EXCEPT ![m] = to],
             to = "unreported" => ~successes
      PROVE  ProducerInv'
  <2>1. \A n \in Messages : Entry(n)' = Entry(n)
    BY <1>1 DEF Entry, P!Key
  <2>2. P!At("held") \subseteq P!At("held")'
    BY <1>1 DEF P!At
  <2>3. QED BY <1>1, <2>1, <2>2 DEF Entry, P!Key
<1>2. ASSUME NEW m \in Messages, P!Take(m) PROVE ProducerInv'
  <2>1. /\ UNCHANGED <<successes, recording, held, gone, closing, inner, cleaned>>
        /\ place[m] = "user" /\ closing = "no"
        /\ place' = [place EXCEPT ![m] = "input"] /\ metadata' = [metadata EXCEPT ![m] = P!Key(m)]
        /\ IF successes THEN contexts' = P!Stored(m) /\ UNCHANGED endings
                        ELSE endings' = [endings EXCEPT ![m] = @ + 1] /\ UNCHANGED contexts
    BY <1>2 DEF P!Take
  <2>2. \A n \in Messages : Entry(n)' = Entry(n) /\ P!Key(n)' = P!Key(n)
    BY <2>1 DEF Entry, P!Key
  <2>3. P!At("held") \subseteq P!At("held")'
    BY <2>1 DEF P!At
  <2>4. P!Stored(m) = {c \in contexts : c.key # P!Key(m)} \cup {Entry(m)}
    BY DEF P!Stored, Entry
  <2>5. ~cleaned
    BY <2>1
  <2>6. P!Key(m) \in {<<n>> : n \in Messages \cup {NoSpan}}
    BY DEF P!Key
  <2>7. CASE successes
    <3>1. \A n \in Messages : n # m /\ Entry(n) \in contexts' => Entry(n) \in contexts
      BY <2>1, <2>4, <2>7 DEF Entry
    <3>2. recording => \A n \in Messages : n # m /\ Entry(n) \in contexts => Entry(n) \in contexts'
      BY <2>1, <2>4, <2>7 DEF Entry, P!Key
    <3>3. Entry(m) \in contexts'
      BY <2>1, <2>4, <2>7
    <3>4. \A c, d \in contexts' : c.key = d.key => c = d
      BY <2>1, <2>4, <2>7 DEF Entry
    <3>5. contexts' \subseteq {Entry(n) : n \in Messages}
      BY <2>1, <2>4, <2>7
    <3>6. QED BY <2>1, <2>2, <2>3, <2>5, <2>6, <2>7, <3>1, <3>2, <3>3, <3>4, <3>5
  <2>8. CASE ~successes
    BY <2>1, <2>2, <2>3, <2>5, <2>6, <2>8
  <2>9. QED BY <2>7, <2>8
<1>3. ASSUME NEW m \in Messages, P!HandOver(m) PROVE ProducerInv'
  BY <1>1, <1>3 DEF P!HandOver
<1>4. ASSUME NEW m \in Messages, P!Settle(m) PROVE ProducerInv'
  <2>1. PICK to \in {"unreported"} \cup P!Outcomes :
            place' = [place EXCEPT ![m] = to] /\ (to = "unreported" => ~successes)
    BY <1>4 DEF P!Settle
  <2>2. place[m] = "flight" /\ UNCHANGED <<successes, recording, metadata, contexts, endings, held, gone, closing, inner, cleaned>>
    BY <1>4 DEF P!Settle
  <2>3. QED BY <1>1, <2>1, <2>2
<1>5. ASSUME NEW m \in Messages, P!Drain(m) PROVE ProducerInv'
  BY <1>1, <1>5 DEF P!Drain
<1>6. ASSUME NEW o \in P!Outcomes, NEW m \in Messages, P!Receive(o, m) PROVE ProducerInv'
  <2>1. /\ UNCHANGED <<successes, recording, gone, closing, inner, cleaned>>
        /\ place[m] = o /\ held[o] = None /\ o \notin gone
        /\ place' = [place EXCEPT ![m] = "held"] /\ held' = [held EXCEPT ![o] = m]
        /\ endings' = P!Ended(P!Found(m)) /\ metadata' = [metadata EXCEPT ![m] = P!Restored(m)]
        /\ contexts' = contexts \ P!Found(m)
    BY <1>6 DEF P!Receive, P!Remaining
  <2>2. \A n \in Messages : Entry(n)' = Entry(n) /\ P!Key(n)' = P!Key(n)
    BY <2>1 DEF Entry, P!Key
  <2>3. P!At("held")' = P!At("held") \cup {m} /\ m \notin P!At("held")
    BY <2>1 DEF P!At
  <2>4. held' \in [P!Outcomes -> P!At("held")' \cup {None}]
        /\ \A p, s \in P!Outcomes : held'[p] # None /\ held'[p] = held'[s] => p = s
    BY <2>1, <2>3
  <2>5. ~cleaned
    BY <2>1
  <2>6. P!Found(m) \subseteq contexts /\ \A c \in P!Found(m) : \E n \in Messages : c = Entry(n)
    BY DEF P!Found
  <2>7. P!Restored(m) = metadata[m] \/ P!Restored(m) \in Messages
    BY <2>6 DEF P!Restored, Entry
  <2>8. \A n \in Messages : (\E c \in P!Found(m) : c.message = n) <=> Entry(n) \in P!Found(m)
    BY <2>6 DEF Entry
  <2>9. \A n \in Messages : endings'[n] = IF Entry(n) \in P!Found(m) THEN endings[n] + 1 ELSE endings[n]
    BY <2>1, <2>8 DEF P!Ended
  <2>10. endings' \in [Messages -> {0, 1}]
    <3>1. endings' = [n \in Messages |-> endings'[n]]
      BY <2>1 DEF P!Ended
    <3>2. \A n \in Messages : endings'[n] \in {0, 1}
      BY <2>5, <2>6, <2>9
    <3>3. QED BY <3>1, <3>2
  <2>11. ASSUME recording, successes
         PROVE  P!Found(m) = {Entry(m)} /\ P!Restored(m) = m
    <3>1. metadata[m] = P!Key(m) /\ Entry(m) \in contexts
      BY <2>1, <2>11
    <3>2. P!Found(m) = {Entry(m)}
      BY <3>1 DEF P!Found, Entry
    <3>3. (CHOOSE c \in P!Found(m) : TRUE) = Entry(m)
      BY <3>2
    <3>4. QED BY <3>2, <3>3 DEF P!Restored, Entry
  <2>12. ASSUME recording, NEW n \in Messages, Entry(n) \in contexts'
         PROVE  place'[n] \in OnTheirWay
    <3>1. n # m
      BY <2>1, <2>11, <2>12
    <3>2. QED BY <2>1, <2>12, <3>1
  <2>13. ASSUME recording, successes, NEW n \in Messages, n # m, place[n] \in OnTheirWay
         PROVE  Entry(n) \in contexts'
    BY <2>1, <2>11, <2>13 DEF Entry
  <2>14. metadata' \in [Messages -> Messages \cup {<<n>> : n \in Messages \cup {NoSpan}}]
    BY <2>1, <2>7
  <2>15. contexts' \subseteq contexts
    BY <2>1
  <2>16. \A n \in Messages : place'[n] = "user" => n # m /\ place[n] = "user" /\ metadata'[n] = metadata[n]
    BY <2>1
  <2>17. \A n \in Messages : Entry(n) \in contexts' => Entry(n) \notin P!Found(m) /\ Entry(n) \in contexts
    BY <2>1
  <2>18. recording /\ successes => \A n \in Messages :
             IF place'[n] \in OnTheirWay THEN Entry(n) \in contexts' /\ metadata'[n] = P!Key(n)
                                         ELSE metadata'[n] = n
    BY <2>1, <2>11, <2>13
  <2>19. /\ \A n \in Messages : place'[n] = "user" => endings'[n] = 0 /\ Entry(n) \notin contexts'
         /\ \A n \in Messages : Entry(n) \in contexts' => endings'[n] = 0
    BY <2>5, <2>6, <2>9, <2>15, <2>16, <2>17
  <2>20. QED
    BY <2>1, <2>2, <2>4, <2>5, <2>10, <2>12, <2>14, <2>15, <2>16, <2>18, <2>19
<1>7. ASSUME NEW o \in P!Outcomes, P!Return(o) PROVE ProducerInv'
  <2>1. /\ UNCHANGED <<successes, recording, metadata, contexts, endings, gone, closing, inner, cleaned>>
        /\ held[o] # None /\ held[o] \in Messages /\ place[held[o]] = "held"
        /\ place' = [place EXCEPT ![held[o]] = "returned"] /\ held' = [held EXCEPT ![o] = None]
    BY <1>7 DEF P!Return, P!At
  <2>2. \A n \in Messages : Entry(n)' = Entry(n) /\ P!Key(n)' = P!Key(n)
    BY <2>1 DEF Entry, P!Key
  <2>3. \A s \in P!Outcomes \ {o} : held[s] = None \/ (held[s] # held[o] /\ held[s] \in P!At("held"))
    BY <2>1
  <2>4. P!At("held") \ {held[o]} \subseteq P!At("held")'
    BY <2>1 DEF P!At
  <2>5. held' \in [P!Outcomes -> P!At("held")' \cup {None}]
    BY <2>1, <2>3, <2>4
  <2>6. QED BY <2>1, <2>2, <2>5
<1>8. CASE P!StopReading \/ P!BeginClose \/ P!CloseInner \/ P!Closed
  <2>1. /\ UNCHANGED <<successes, recording, place, metadata, contexts, endings, held, gone, cleaned>>
        /\ closing # "no" => closing' # "no"
        /\ \/ inner' = inner
           \/ closing # "no" /\ inner = "no" /\ inner' = closing
    BY <1>8 DEF P!StopReading, P!BeginClose, P!CloseInner, P!Closed
  <2>2. \A n \in Messages : Entry(n)' = Entry(n) /\ P!Key(n)' = P!Key(n)
    BY <2>1 DEF Entry, P!Key
  <2>3. P!At("held")' = P!At("held")
    BY <2>1 DEF P!At
  <2>4. inner # "no" => inner' # "no"
    BY <2>1
  <2>5. inner' # "no" => closing' # "no"
    BY <2>1
  <2>6. QED BY <2>1, <2>2, <2>3, <2>4, <2>5
<1>9. ASSUME NEW o \in P!Outcomes, P!Leave(o) PROVE ProducerInv'
  <2>1. /\ UNCHANGED <<successes, recording, place, metadata, contexts, endings, held, closing, inner, cleaned>>
        /\ inner \in {"close", "async"} /\ gone' = gone \cup {o}
    BY <1>9 DEF P!Leave, P!Flushed
  <2>2. \A n \in Messages : Entry(n)' = Entry(n) /\ P!Key(n)' = P!Key(n)
    BY <2>1 DEF Entry, P!Key
  <2>3. P!At("held")' = P!At("held")
    BY <2>1 DEF P!At
  <2>4. QED BY <2>1, <2>2, <2>3
<1>10. CASE P!CleanUp
  <2>1. /\ UNCHANGED <<successes, recording, place, metadata, contexts, held, gone, closing, inner>>
        /\ gone = P!Outcomes /\ ~cleaned /\ cleaned' = TRUE /\ endings' = P!Ended(contexts)
    BY <1>10 DEF P!CleanUp
  <2>2. \A n \in Messages : Entry(n)' = Entry(n) /\ P!Key(n)' = P!Key(n)
    BY <2>1 DEF Entry, P!Key
  <2>3. P!At("held")' = P!At("held")
    BY <2>1 DEF P!At
  <2>4. \A n \in Messages : (\E c \in contexts : c.message = n) => Entry(n) \in contexts
    BY DEF Entry
  <2>5. endings' \in [Messages -> {0, 1}] /\ \A n \in Messages : Entry(n) \notin contexts => endings'[n] = endings[n]
    BY <2>1, <2>4 DEF P!Ended
  <2>6. QED BY <2>1, <2>2, <2>3, <2>5
<1>11. CASE UNCHANGED producerVars
  BY <1>11 DEF producerVars, Entry, P!Key, P!At
<1>12. QED
  BY <1>2, <1>3, <1>4, <1>5, <1>6, <1>7, <1>8, <1>9, <1>10, <1>11 DEF P!Next, P!Progress

LEMMA ProducerIsSound ==
    ASSUME ProducerInv
    PROVE  P!ProducerSound
<1> USE DEF ProducerInv, OnTheirWay
<1>1. \A m \in UNION {P!At(p) : p \in {"input", "flight", "drained"} \cup P!Outcomes} :
          m \in Messages /\ place[m] \in OnTheirWay
  BY DEF P!At, P!Outcomes
<1>2. \A m \in Messages : place[m] \in OnTheirWay =>
          m \in UNION {P!At(p) : p \in {"input", "flight", "drained"} \cup P!Outcomes}
  BY DEF P!At, P!Outcomes
<1>3. \A c \in contexts : c.message \in Messages /\ c = Entry(c.message)
  BY DEF Entry
<1>4. P!ProducerTypeOK
  <2> DEFINE way == UNION {P!At(p) : p \in {"input", "flight", "drained"} \cup P!Outcomes}
             kept == {c.message : c \in contexts}
  <2>1. kept \subseteq way \/ ~recording
    BY <1>2, <1>3
  <2>2. successes /\ recording => way \subseteq kept
    <3>1. \A m \in Messages : Entry(m) \in contexts => m \in kept
      BY DEF Entry
    <3>2. QED BY <1>1, <3>1
  <2>3. QED BY <2>1, <2>2 DEF P!ProducerTypeOK
<1>5. P!WrongMetadataNeedsCause
  BY DEF P!WrongMetadataNeedsCause, P!At, P!Outcomes
<1>6. P!SpanEndsOnce
  BY DEF P!SpanEndsOnce
<1>7. QED BY <1>4, <1>5, <1>6 DEF P!ProducerSound

(***************************************************************************)
(* Each message gets its metadata back, and its span is ended once, for    *)
(* any number of messages in any order, however much sarama has room for   *)
(* (producer.go, lines 130-248).                                           *)
(***************************************************************************)
THEOREM Produced == MCSpec => []ProducerSound
<1>1. MCInit => ProducerInv
  BY InitProducer DEF MCInit
<1>2. ASSUME ProducerInv, [MCNext]_<<lessonVars, producerVars, streamVars, program>>
      PROVE  ProducerInv'
  <2>1. P!Next \/ UNCHANGED producerVars
    BY <1>2 DEF MCNext
  <2>2. QED BY <1>2, <2>1, NextProducer
<1>3. ProducerInv => ProducerSound
  BY ProducerIsSound DEF ProducerSound
<1>4. QED BY <1>1, <1>2, <1>3, PTL DEF MCSpec
===============================================================================
