-------------------------- MODULE TimeoutMiddleware --------------------------
(***************************************************************************)
(* One HTTP request inside either service of lesson_09/project: the        *)
(* goroutine of net/http runs MetricsMiddleware and, inside it,            *)
(* TimeoutMiddleware, which starts the routed handler in a goroutine of    *)
(* its own and selects between that goroutine's `done` channel and the     *)
(* context of the request.  Both goroutines write to the same              *)
(* ResponseWriter and share timeoutWriter.headerWritten without any lock.  *)
(*                                                                         *)
(* Status codes are the only response data kept.  Reads and writes of the  *)
(* two racing fields (headerWritten, responseWriter.status) are steps of   *)
(* their own; each is one machine word, so a racing read returns a value   *)
(* that some order of these steps yields.                                  *)
(***************************************************************************)
EXTENDS Naturals

CONSTANTS
    Requests,   \* the requests being served
    Failures,   \* the error statuses the routed handlers answer with
    NoStatus    \* no header has been sent to the client yet

OK == 200
GatewayTimeout == 504

(***************************************************************************)
(* What a routed handler does with its ResponseWriter once its work is     *)
(* over.  It answers an error with http.Error (header, then body), a write *)
(* with a bare WriteHeader(200), a query with a body alone.                *)
(***************************************************************************)
Answers == [status : Failures, header : {TRUE}, body : {TRUE}]
           \cup {[status |-> OK, header |-> TRUE, body |-> FALSE],
                 [status |-> OK, header |-> FALSE, body |-> TRUE]}

ASSUME StatusAssumption ==
    /\ Failures \subseteq Nat \ {OK, GatewayTimeout}
    /\ NoStatus \notin Nat

VARIABLES
    serverAt,       \* where the net/http goroutine is
    handlerAt,      \* where the handler goroutine is
    answer,         \* the answer the handler has decided on
    expired,        \* ctx.Done() is closed
    headerWritten,  \* timeoutWriter.headerWritten
    status,         \* responseWriter.status of MetricsMiddleware
    wire,           \* the status line the client receives
    body,           \* who wrote into the response body
    branch,         \* the case the select took
    recorded        \* the status label of http_requests_total

vars == <<serverAt, handlerAt, answer, expired, headerWritten, status, wire,
          body, branch, recorded>>

ServerPlaces  == {"select", "check", "status504", "header504", "body504",
                  "record", "finish", "served"}
HandlerPlaces == {"work", "flag", "status", "header", "bodyFlag", "body",
                  "close", "closed"}
Statuses      == Failures \cup {OK, GatewayTimeout}

Init ==
    /\ serverAt = [r \in Requests |-> "select"]
    /\ handlerAt = [r \in Requests |-> "work"]
    /\ answer \in [Requests -> Answers]
    /\ expired = [r \in Requests |-> FALSE]
    /\ headerWritten = [r \in Requests |-> FALSE]
    /\ status = [r \in Requests |-> OK]
    /\ wire = [r \in Requests |-> NoStatus]
    /\ body = [r \in Requests |-> {}]
    /\ branch = [r \in Requests |-> "none"]
    /\ recorded = [r \in Requests |-> NoStatus]

Server(r, from, to) ==
    /\ serverAt[r] = from
    /\ serverAt' = [serverAt EXCEPT ![r] = to]

Handler(r, from, to) ==
    /\ handlerAt[r] = from
    /\ handlerAt' = [handlerAt EXCEPT ![r] = to]

(***************************************************************************)
(* net/http's writer: the first status wins, a later WriteHeader is only   *)
(* logged, a Write before any WriteHeader sends 200.  Once the server      *)
(* goroutine has finished the request nothing reaches the client.          *)
(***************************************************************************)
SendStatus(r, code) ==
    wire' = [wire EXCEPT ![r] = IF @ = NoStatus THEN code ELSE @]

SendBody(r, who) ==
    /\ SendStatus(r, OK)
    /\ body' = [body EXCEPT ![r] = IF serverAt[r] = "served" THEN @
                                   ELSE @ \cup {who}]

-----------------------------------------------------------------------------
(* The handler goroutine. *)

\* The routed handler finishes its work and calls its first writing method.
Decide(r) ==
    /\ Handler(r, "work", IF answer[r].header THEN "flag" ELSE "bodyFlag")
    /\ UNCHANGED <<serverAt, answer, expired, headerWritten, status, wire,
                   body, branch, recorded>>

\* timeoutWriter.WriteHeader, first line.
SetFlag(r) ==
    /\ Handler(r, "flag", "status")
    /\ headerWritten' = [headerWritten EXCEPT ![r] = TRUE]
    /\ UNCHANGED <<serverAt, answer, expired, status, wire, body, branch,
                   recorded>>

\* responseWriter.WriteHeader, first line.
SetStatus(r) ==
    /\ Handler(r, "status", "header")
    /\ status' = [status EXCEPT ![r] = answer[r].status]
    /\ UNCHANGED <<serverAt, answer, expired, headerWritten, wire, body,
                   branch, recorded>>

SendHeader(r) ==
    /\ Handler(r, "header", IF answer[r].body THEN "bodyFlag" ELSE "close")
    /\ SendStatus(r, answer[r].status)
    /\ UNCHANGED <<serverAt, answer, expired, headerWritten, status, body,
                   branch, recorded>>

\* timeoutWriter.Write, first line.
SetFlagForBody(r) ==
    /\ Handler(r, "bodyFlag", "body")
    /\ headerWritten' = [headerWritten EXCEPT ![r] = TRUE]
    /\ UNCHANGED <<serverAt, answer, expired, status, wire, body, branch,
                   recorded>>

WriteBody(r) ==
    /\ Handler(r, "body", "close")
    /\ SendBody(r, "handler")
    /\ UNCHANGED <<serverAt, answer, expired, headerWritten, status, branch,
                   recorded>>

CloseDone(r) ==
    /\ Handler(r, "close", "closed")
    /\ UNCHANGED <<serverAt, answer, expired, headerWritten, status, wire,
                   body, branch, recorded>>

-----------------------------------------------------------------------------
(* The context and the server goroutine. *)

\* One second has passed, or the client has gone away.
Expire(r) ==
    /\ ~expired[r]
    /\ expired' = [expired EXCEPT ![r] = TRUE]
    /\ UNCHANGED <<serverAt, handlerAt, answer, headerWritten, status, wire,
                   body, branch, recorded>>

\* Fault: the goroutine closes `done` before its last write.
CompletedEarly(r) ==
    /\ handlerAt[r] \in {"body", "close", "closed"}
    /\ Server(r, "select", "record")
    /\ branch' = [branch EXCEPT ![r] = "done"]
    /\ expired' = [expired EXCEPT ![r] = TRUE]
    /\ UNCHANGED <<handlerAt, answer, headerWritten, status, wire, body,
                   recorded>>

\* case <-done: the deferred cancel() closes the context as well.
Completed(r) ==
    /\ handlerAt[r] = "closed"
    /\ Server(r, "select", "record")
    /\ branch' = [branch EXCEPT ![r] = "done"]
    /\ expired' = [expired EXCEPT ![r] = TRUE]
    /\ UNCHANGED <<handlerAt, answer, headerWritten, status, wire, body,
                   recorded>>

\* Fault: the middleware waits for the handler whatever the deadline.
TimedOutNever(r) ==
    /\ expired[r] /\ handlerAt[r] = "closed"
    /\ Server(r, "select", "check")
    /\ branch' = [branch EXCEPT ![r] = "timeout"]
    /\ UNCHANGED <<handlerAt, answer, expired, headerWritten, status, wire,
                   body, recorded>>

\* case <-ctx.Done(): chosen at random when both cases are ready.
TimedOut(r) ==
    /\ expired[r]
    /\ Server(r, "select", "check")
    /\ branch' = [branch EXCEPT ![r] = "timeout"]
    /\ UNCHANGED <<handlerAt, answer, expired, headerWritten, status, wire,
                   body, recorded>>

\* Fault: the deadline is noticed and nothing is written.
CheckFlagSilent(r) ==
    /\ Server(r, "check", "record")
    /\ UNCHANGED <<handlerAt, answer, expired, headerWritten, status, wire,
                   body, branch, recorded>>

\* Fault: the flag is read the wrong way round.
CheckFlagInverted(r) ==
    /\ Server(r, "check", IF headerWritten[r] THEN "status504" ELSE "record")
    /\ UNCHANGED <<handlerAt, answer, expired, headerWritten, status, wire,
                   body, branch, recorded>>

\* if !tw.headerWritten
CheckFlag(r) ==
    /\ Server(r, "check", IF headerWritten[r] THEN "record" ELSE "status504")
    /\ UNCHANGED <<handlerAt, answer, expired, headerWritten, status, wire,
                   body, branch, recorded>>

SetStatus504(r) ==
    /\ Server(r, "status504", "header504")
    /\ status' = [status EXCEPT ![r] = GatewayTimeout]
    /\ UNCHANGED <<handlerAt, answer, expired, headerWritten, wire, body,
                   branch, recorded>>

SendHeader504(r) ==
    /\ Server(r, "header504", "body504")
    /\ SendStatus(r, GatewayTimeout)
    /\ UNCHANGED <<handlerAt, answer, expired, headerWritten, status, body,
                   branch, recorded>>

WriteBody504(r) ==
    /\ Server(r, "body504", "record")
    /\ SendBody(r, "middleware")
    /\ UNCHANGED <<handlerAt, answer, expired, headerWritten, status, branch,
                   recorded>>

\* Fault: the label is set to a status no handler answers with.
RecordNothing(r) ==
    /\ Server(r, "record", "finish")
    /\ recorded' = [recorded EXCEPT ![r] = 0]
    /\ UNCHANGED <<handlerAt, answer, expired, headerWritten, status, wire,
                   body, branch>>

\* MetricsMiddleware reads ww.Status() after next.ServeHTTP has returned.
Record(r) ==
    /\ Server(r, "record", "finish")
    /\ recorded' = [recorded EXCEPT ![r] = status[r]]
    /\ UNCHANGED <<handlerAt, answer, expired, headerWritten, status, wire,
                   body, branch>>

\* net/http ends the response: no header so far means 200.
Finish(r) ==
    /\ Server(r, "finish", "served")
    /\ SendStatus(r, OK)
    /\ UNCHANGED <<handlerAt, answer, expired, headerWritten, status, body,
                   branch, recorded>>

HandlerStep(r) ==
    \/ Decide(r) \/ SetFlag(r) \/ SetStatus(r) \/ SendHeader(r)
    \/ SetFlagForBody(r) \/ WriteBody(r) \/ CloseDone(r)

ServerStep(r) ==
    \/ Completed(r) \/ TimedOut(r) \/ CheckFlag(r) \/ SetStatus504(r)
    \/ SendHeader504(r) \/ WriteBody504(r) \/ Record(r) \/ Finish(r)

\* Every request is served and no handler runs any more.
Terminated ==
    /\ \A r \in Requests : serverAt[r] = "served" /\ handlerAt[r] = "closed"
    /\ \A r \in Requests : expired[r]
    /\ UNCHANGED vars

Next ==
    \/ \E r \in Requests : HandlerStep(r) \/ Expire(r) \/ ServerStep(r)
    \/ Terminated

(***************************************************************************)
(* The runtime schedules the server goroutine and fires the timer.         *)
(* Nothing is assumed of the handler: it may block for ever.               *)
(***************************************************************************)
Fairness == \A r \in Requests : WF_vars(ServerStep(r)) /\ WF_vars(Expire(r))

Spec == Init /\ [][Next]_vars /\ Fairness

-----------------------------------------------------------------------------
(* Properties. *)

TypeOK ==
    /\ serverAt \in [Requests -> ServerPlaces]
    /\ handlerAt \in [Requests -> HandlerPlaces]
    /\ answer \in [Requests -> Answers]
    /\ expired \in [Requests -> BOOLEAN]
    /\ headerWritten \in [Requests -> BOOLEAN]
    /\ status \in [Requests -> Statuses]
    /\ wire \in [Requests -> Statuses \cup {NoStatus}]
    /\ body \in [Requests -> SUBSET {"handler", "middleware"}]
    /\ branch \in [Requests -> {"none", "done", "timeout"}]
    /\ recorded \in [Requests -> Statuses \cup {NoStatus}]

(***************************************************************************)
(* When the select takes `case <-done` (timeout.go, line 35) the client    *)
(* receives exactly what the handler answered, and http_requests_total     *)
(* counts that same status: close(done) comes after every write of the     *)
(* handler, so the two goroutines never write together on this path.       *)
(***************************************************************************)
CompletedIsFaithful ==
    \A r \in Requests :
        serverAt[r] = "served" /\ branch[r] = "done" =>
            /\ wire[r] = answer[r].status
            /\ recorded[r] = answer[r].status
            /\ body[r] = IF answer[r].body THEN {"handler"} ELSE {}

(***************************************************************************)
(* A handler still at work when the response ends never shows: the client  *)
(* receives 504 with the body of the middleware alone, and the metric      *)
(* counts a 504 (timeout.go, lines 38-44).                                 *)
(***************************************************************************)
SlowHandlerGets504 ==
    \A r \in Requests :
        serverAt[r] = "served" /\ handlerAt[r] = "work" =>
            /\ wire[r] = GatewayTimeout
            /\ recorded[r] = GatewayTimeout
            /\ body[r] = {"middleware"}

(***************************************************************************)
(* A client receives the success of a handler that failed in one case      *)
(* only: the deadline passed while that handler was writing its error, the *)
(* flag already set, and the middleware therefore kept silent.             *)
(***************************************************************************)
WrongSuccessNeedsRace ==
    \A r \in Requests :
        serverAt[r] = "served" /\ wire[r] = OK /\ answer[r].status # OK =>
            /\ branch[r] = "timeout"
            /\ headerWritten[r]
            /\ "middleware" \notin body[r]

(***************************************************************************)
(* Every request is answered although its handler may block for ever: the  *)
(* middleware "enforces a timeout for all requests" (timeout.go, line 11). *)
(***************************************************************************)
EveryRequestServed == \A r \in Requests : <>(serverAt[r] = "served")

(***************************************************************************)
(* What the comments at lines 22 and 50 of timeout.go promise: the flag    *)
(* tells whether headers were written, so when the middleware trusts it    *)
(* and keeps silent the client has the header of the handler.  The code    *)
(* sets the flag before it writes, and breaks this.                        *)
(***************************************************************************)
SilenceMeansAnswered ==
    \A r \in Requests :
        /\ serverAt[r] = "served"
        /\ branch[r] = "timeout"
        /\ "middleware" \notin body[r]
        => wire[r] = answer[r].status

(***************************************************************************)
(* What the client of a request is told, for every way in which handler    *)
(* and deadline meet (timeout.go, lines 27-45): the three together.        *)
(***************************************************************************)
AnswersTrue == TypeOK /\ CompletedIsFaithful /\ SlowHandlerGets504 /\ WrongSuccessNeedsRace

=============================================================================
