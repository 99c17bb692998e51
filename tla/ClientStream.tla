---------------------------- MODULE ClientStream ----------------------------
(***************************************************************************)
(* StreamClientInterceptor of otelgrpc: a stream that is received from in  *)
(* one goroutine and sent to in another.  What they learn of its end they  *)
(* tell a watcher over the unbuffered `events`; the watcher tells the      *)
(* first it hears to the goroutine that ends the span, and leaves.         *)
(***************************************************************************)
EXTENDS Naturals

CONSTANT MaxMessages   \* bound: messages of the server

Callers == {"receiver", "sender"}

VARIABLES
    serverStreams,  \* desc.ServerStreams
    sent, received, \* messages of the server
    final,          \* how the RPC has ended: "none", "ok", "error"
    canceled,       \* ctx.Done() is closed
    at,             \* where the two callers are: "user", "record", "notify"
    event,          \* and what they have to tell
    watcher,        \* "select", "finish", "gone"
    heard,          \* what the watcher heard
    span,           \* "open" or the status it ended with
    told,           \* history: a caller has met the end
    lost            \* history: messages recorded after the span had ended

streamVars == <<serverStreams, sent, received, final, canceled, at, event, watcher, heard,
                span, told, lost>>

Init ==
    /\ serverStreams \in BOOLEAN
    /\ sent = 0 /\ received = 0 /\ final = "none" /\ canceled = FALSE
    /\ at = [c \in Callers |-> "user"]
    /\ event = [c \in Callers |-> "none"]
    /\ watcher = "select" /\ heard = "none" /\ span = "open"
    /\ told = FALSE /\ lost = 0

tracing == <<watcher, heard, span>>
rpc == <<serverStreams, sent, received, final, canceled>>

-----------------------------------------------------------------------------
(* The stream that is wrapped.                                             *)

ServerSends ==
    /\ final = "none" /\ sent < MaxMessages /\ (serverStreams \/ sent = 0)
    /\ sent' = sent + 1
    /\ UNCHANGED <<serverStreams, received, final, canceled, at, event, tracing, told, lost>>

\* A server that does not stream succeeds with its one message.
ServerEnds ==
    /\ final = "none"
    /\ \/ final' = "ok" /\ (serverStreams \/ sent = 1)
       \/ final' = "error"
    /\ UNCHANGED <<serverStreams, sent, received, canceled, at, event, tracing, told, lost>>

Cancel ==
    /\ ~canceled
    /\ canceled' = TRUE
    /\ UNCHANGED <<serverStreams, sent, received, final, at, event, tracing, told, lost>>

-----------------------------------------------------------------------------
(* The callers.                                                            *)

Tell(c, what) ==
    /\ at[c] = "user"
    /\ at' = [at EXCEPT ![c] = "notify"]
    /\ event' = [event EXCEPT ![c] = what]
    /\ told' = TRUE
    /\ UNCHANGED <<tracing, lost>>

\* Fault: each message is told as the end, stream or not.
RecvMessageEnds ==
    /\ serverStreams /\ received < sent /\ at["receiver"] = "user"
    /\ received' = received + 1
    /\ at' = [at EXCEPT !["receiver"] = "record"]
    /\ watcher' = "finish" /\ heard' = "ok"
    /\ UNCHANGED <<serverStreams, sent, final, canceled, event, span, told, lost>>

\* RecvMsg returns a message of a stream, which is recorded next.
RecvMessage ==
    /\ serverStreams /\ received < sent /\ at["receiver"] = "user"
    /\ received' = received + 1
    /\ at' = [at EXCEPT !["receiver"] = "record"]
    /\ UNCHANGED <<serverStreams, sent, final, canceled, event, tracing, told, lost>>

Record ==
    /\ at["receiver"] = "record"
    /\ at' = [at EXCEPT !["receiver"] = "user"]
    /\ lost' = IF span = "open" THEN lost ELSE lost + 1
    /\ UNCHANGED <<rpc, event, tracing, told>>

\* Fault: any error of RecvMsg is taken for io.EOF.
EndTold == IF final = "none" THEN "canceled" ELSE "ok"

\* What the end is told as: io.EOF and nil as the end, an error as itself.
EndMet == IF final = "none" THEN "canceled" ELSE final

\* RecvMsg returns io.EOF, or nil and the only message, or an error.
RecvEnd ==
    /\ \/ final # "none" /\ (serverStreams => received = sent)
       \/ canceled /\ final = "none"
    /\ Tell("receiver", EndMet)
    /\ UNCHANGED rpc

\* Header returns the error of a stream that failed before it had a header.
Header ==
    /\ final = "error" /\ sent = 0
    /\ Tell("receiver", "error")
    /\ UNCHANGED rpc

\* SendMsg finds the stream over: it returns io.EOF, whatever the end was.
SendFindsEnd ==
    /\ final # "none" \/ canceled
    /\ Tell("sender", "eof")
    /\ UNCHANGED rpc

\* SendMsg fails by itself, and the RPC with it.
SendFails ==
    /\ final = "none" /\ ~canceled
    /\ final' = "error"
    /\ Tell("sender", "sendError")
    /\ UNCHANGED <<serverStreams, sent, received, canceled>>

\* sendStreamEvent: the watcher takes the event...
Notify(c) ==
    /\ at[c] = "notify" /\ watcher = "select"
    /\ at' = [at EXCEPT ![c] = "user"]
    /\ watcher' = "finish"
    /\ heard' = event[c]
    /\ UNCHANGED <<rpc, event, span, told, lost>>

\* Fault: a caller does not look at eventsDone.
SkipNever(c) == FALSE /\ UNCHANGED streamVars

\* ...or has left.
Skip(c) ==
    /\ at[c] = "notify" /\ watcher = "gone"
    /\ at' = [at EXCEPT ![c] = "user"]
    /\ UNCHANGED <<rpc, event, tracing, told, lost>>

-----------------------------------------------------------------------------
(* The two goroutines.                                                     *)

\* Fault: the watcher waits for an event alone.
WatchCancelNever == FALSE /\ UNCHANGED streamVars

WatchCancel ==
    /\ watcher = "select" /\ canceled
    /\ watcher' = "finish"
    /\ heard' = "canceled"
    /\ UNCHANGED <<rpc, at, event, span, told, lost>>

Finish ==
    /\ watcher = "finish"
    /\ watcher' = "gone"
    /\ span' = heard
    /\ UNCHANGED <<rpc, at, event, heard, told, lost>>

Progress ==
    Record \/ WatchCancel \/ Finish \/ \E c \in Callers : Notify(c) \/ Skip(c)

Next ==
    \/ ServerSends \/ ServerEnds \/ Cancel
    \/ RecvMessage \/ RecvEnd \/ Header \/ SendFindsEnd \/ SendFails
    \/ Progress

Fairness ==
    /\ WF_streamVars(Record) /\ WF_streamVars(WatchCancel) /\ WF_streamVars(Finish)
    /\ \A c \in Callers : WF_streamVars(Notify(c)) /\ WF_streamVars(Skip(c))

Spec == Init /\ [][Next]_streamVars /\ Fairness

-----------------------------------------------------------------------------
(* Properties. *)

(***************************************************************************)
(* The span has the status of the RPC (interceptor.go, lines 288-300),     *)
(* unless the sender was the first to meet the end, as an io.EOF that      *)
(* status.FromError makes Unknown, or the context was canceled.            *)
(***************************************************************************)
SpanTellsEnd ==
    \/ span \in {"open", final}
    \/ span = "eof" /\ (final # "none" \/ canceled)
    \/ span = "sendError" /\ final = "error"
    \/ span = "canceled" /\ canceled

\* A message is recorded on a span that has ended (line 161) only if it was
\* not the receiver who ended it.
LostNeedsOther == lost > 0 => span \in {"eof", "sendError", "canceled"}

\* Whoever meets the end, or if the context is canceled: the span ends.
SpanEnds == told \/ canceled ~> span # "open"

\* A call of the stream is never kept waiting by its span (lines 235-240).
CallsReturn == \A c \in Callers : at[c] = "notify" ~> at[c] = "user"

\* The span of a stream tells how the RPC ended, and misses a message only
\* where somebody else ended it (interceptor.go, lines 150-300).
StreamSound == SpanTellsEnd /\ LostNeedsOther

\* It ends, and holds nobody up (interceptor.go, lines 200-240).
StreamEnds == SpanEnds /\ CallsReturn

=============================================================================
