----------------------- MODULE TimeoutMiddlewareProofs -----------------------
(***************************************************************************)
(* Proofs about TimeoutMiddleware, for any set of requests and any error   *)
(* statuses; and about ServiceLifecycle, for any set of requests: what a   *)
(* shutdown can lose.                                                      *)
(***************************************************************************)
EXTENDS MCTimeoutMiddleware, Sequences, TLAPS

\* Typing: no step of either goroutine leaves the domains of the variables.
THEOREM TypeCorrect == Spec => []TypeOK
<1> USE DEF ServerPlaces, HandlerPlaces, Statuses, OK, GatewayTimeout
<1>1. Init => TypeOK
  BY DEF Init, TypeOK
<1>2. TypeOK /\ [Next]_vars => TypeOK'
  <2> SUFFICES ASSUME TypeOK, [Next]_vars PROVE TypeOK'
    OBVIOUS
  <2> USE DEF TypeOK
  <2>1. ASSUME NEW r \in Requests, HandlerStep(r) PROVE TypeOK'
    <3>a. answer[r] \in Answers
      OBVIOUS
    <3>0. answer[r].status \in Statuses
      <4>1. CASE answer[r] \in [status : Failures, header : {TRUE}, body : {TRUE}]
        BY <4>1
      <4>2. CASE answer[r] \in {[status |-> OK, header |-> TRUE, body |-> FALSE],
                               [status |-> OK, header |-> FALSE, body |-> TRUE]}
        BY <4>2
      <4>3. \/ answer[r] \in [status : Failures, header : {TRUE}, body : {TRUE}]
            \/ answer[r] \in {[status |-> OK, header |-> TRUE, body |-> FALSE],
                              [status |-> OK, header |-> FALSE, body |-> TRUE]}
        BY Zenon, <3>a DEF Answers
      <4>4. QED BY <4>1, <4>2, <4>3
    <3>1. CASE Decide(r) BY <3>1 DEF Decide, Handler
    <3>2. CASE SetFlag(r) BY <3>2 DEF SetFlag, Handler
    <3>3. CASE SetStatus(r) BY <3>0, <3>3 DEF SetStatus, Handler
    <3>4. CASE SendHeader(r) BY <3>0, <3>4 DEF SendHeader, Handler, SendStatus
    <3>5. CASE SetFlagForBody(r) BY <3>5 DEF SetFlagForBody, Handler
    <3>6. CASE WriteBody(r)
      BY <3>6 DEF WriteBody, Handler, SendBody, SendStatus
    <3>7. CASE CloseDone(r) BY <3>7 DEF CloseDone, Handler
    <3>8. QED
      BY <2>1, <3>1, <3>2, <3>3, <3>4, <3>5, <3>6, <3>7 DEF HandlerStep
  <2>2. ASSUME NEW r \in Requests, Expire(r) PROVE TypeOK'
    BY <2>2 DEF Expire
  <2>3. ASSUME NEW r \in Requests, ServerStep(r) PROVE TypeOK'
    <3>1. CASE Completed(r) BY <3>1 DEF Completed, Server
    <3>2. CASE TimedOut(r) BY <3>2 DEF TimedOut, Server
    <3>3. CASE CheckFlag(r) BY <3>3 DEF CheckFlag, Server
    <3>4. CASE SetStatus504(r) BY <3>4 DEF SetStatus504, Server
    <3>5. CASE SendHeader504(r) BY <3>5 DEF SendHeader504, Server, SendStatus
    <3>6. CASE WriteBody504(r)
      BY <3>6 DEF WriteBody504, Server, SendBody, SendStatus
    <3>7. CASE Record(r) BY <3>7 DEF Record, Server
    <3>8. CASE Finish(r) BY <3>8 DEF Finish, Server, SendStatus
    <3>9. QED
      BY <2>3, <3>1, <3>2, <3>3, <3>4, <3>5, <3>6, <3>7, <3>8 DEF ServerStep
  <2>4. CASE UNCHANGED vars
    BY <2>4 DEF vars
  <2>5. QED
    BY <2>1, <2>2, <2>3, <2>4 DEF Next, Terminated
<1>3. QED
  BY <1>1, <1>2, PTL DEF Spec

-----------------------------------------------------------------------------
(***************************************************************************)
(* The inductive invariant.  While only the handler has written, the       *)
(* response is determined by how far the handler has come.                 *)
(***************************************************************************)
AfterHeader == {"bodyFlag", "body", "close", "closed"}
AfterBody   == {"close", "closed"}

Path(r) ==
    /\ handlerAt[r] \in {"flag", "status", "header"} => answer[r].header
    /\ handlerAt[r] \in {"bodyFlag", "body"} => answer[r].body

HandlerView(r) ==
    /\ status[r] = IF answer[r].header /\ handlerAt[r] \in AfterHeader \cup {"header"}
                   THEN answer[r].status ELSE OK
    /\ wire[r] = IF \/ answer[r].header /\ handlerAt[r] \in AfterHeader
                    \/ handlerAt[r] \in AfterBody
                 THEN answer[r].status ELSE NoStatus
    /\ body[r] = IF answer[r].body /\ handlerAt[r] \in AfterBody
                 THEN {"handler"} ELSE {}

\* The server goroutine has not touched the response.
Untouched(r) == serverAt[r] \in {"select", "check"} \/ branch[r] = "done"

Done(r) ==
    branch[r] = "done" =>
        /\ handlerAt[r] = "closed"
        /\ serverAt[r] \in {"record", "finish", "served"}
        /\ serverAt[r] \in {"finish", "served"} => recorded[r] = status[r]

\* What the server goroutine alone has written while the handler works.
ServerView(r) ==
    handlerAt[r] = "work" =>
        /\ ~headerWritten[r]
        /\ serverAt[r] \in {"status504", "header504"} =>
              wire[r] = NoStatus /\ body[r] = {}
        /\ serverAt[r] = "body504" => wire[r] = GatewayTimeout /\ body[r] = {}
        /\ serverAt[r] \in {"record", "finish", "served"} =>
              wire[r] = GatewayTimeout /\ body[r] = {"middleware"}
        /\ serverAt[r] \in {"header504", "body504", "record", "finish", "served"} =>
              status[r] = GatewayTimeout
        /\ serverAt[r] \in {"finish", "served"} => recorded[r] = GatewayTimeout

\* When nobody has sent a header the middleware kept silent on purpose.
Silent(r) ==
    branch[r] = "timeout" /\ headerWritten[r] /\ "middleware" \notin body[r]

Header(r) ==
    /\ answer[r].header /\ handlerAt[r] \in AfterHeader => wire[r] # NoStatus
    /\ serverAt[r] \in {"body504", "served"} => wire[r] # NoStatus
    /\ serverAt[r] \in {"record", "finish"} /\ wire[r] = NoStatus => Silent(r)
    /\ "middleware" \in body[r] =>
          serverAt[r] \in {"record", "finish", "served"} /\ wire[r] # NoStatus
    /\ wire[r] = OK /\ answer[r].status # OK => serverAt[r] = "served" /\ Silent(r)

Branch(r) ==
    /\ branch[r] = "none" <=> serverAt[r] = "select"

RequestInv(r) ==
    /\ Path(r)
    /\ Untouched(r) => HandlerView(r)
    /\ Done(r)
    /\ ServerView(r)
    /\ Header(r)
    /\ Branch(r)

IInv == \A r \in Requests : RequestInv(r)

LEMMA AnswerShape ==
    ASSUME TypeOK, NEW r \in Requests
    PROVE  /\ answer[r].header \in BOOLEAN /\ answer[r].body \in BOOLEAN
           /\ answer[r].header \/ answer[r].body
           /\ ~answer[r].header => answer[r].status = OK
           /\ answer[r].status \in Failures \cup {OK}
<1>1. answer[r] \in Answers
  BY DEF TypeOK
<1>2. CASE answer[r] \in [status : Failures, header : {TRUE}, body : {TRUE}]
  BY <1>2
<1>3. CASE answer[r] = [status |-> OK, header |-> TRUE, body |-> FALSE]
  BY <1>3
<1>4. CASE answer[r] = [status |-> OK, header |-> FALSE, body |-> TRUE]
  BY <1>4
<1>5. QED
  BY <1>1, <1>2, <1>3, <1>4 DEF Answers

\* The statuses a handler answers with are neither absent nor the middleware's.
LEMMA AnswerFacts ==
    ASSUME TypeOK, NEW r \in Requests
    PROVE  /\ answer[r].status # NoStatus /\ NoStatus \notin {OK, GatewayTimeout}
           /\ answer[r].status # GatewayTimeout /\ OK # GatewayTimeout
           /\ answer[r].header \in BOOLEAN /\ answer[r].body \in BOOLEAN
           /\ answer[r].header \/ answer[r].body
           /\ ~answer[r].header => answer[r].status = OK
<1>1. /\ OK \in Nat /\ GatewayTimeout \in Nat /\ OK # GatewayTimeout
  BY SMT DEF OK, GatewayTimeout
<1>2. \A s \in Failures \cup {OK} : s \in Nat /\ s # GatewayTimeout
  BY <1>1, StatusAssumption
<1>3. NoStatus \notin Nat
  BY StatusAssumption
<1>4. answer[r].status \in Failures \cup {OK}
  BY AnswerShape
<1>5. answer[r].status \in Nat /\ answer[r].status # GatewayTimeout
  BY <1>2, <1>4
<1>6. answer[r].status # NoStatus /\ NoStatus \notin {OK, GatewayTimeout}
  BY <1>1, <1>3, <1>5
<1>7. QED
  BY <1>1, <1>5, <1>6, AnswerShape

\* A step of one request leaves what is known of the others alone.
LEMMA OtherRequests ==
    ASSUME TypeOK, NEW r \in Requests, NEW q \in Requests, q # r,
           HandlerStep(q) \/ Expire(q) \/ ServerStep(q), RequestInv(r)
    PROVE  RequestInv(r)'
<1>1. /\ serverAt'[r] = serverAt[r] /\ handlerAt'[r] = handlerAt[r]
      /\ answer'[r] = answer[r] /\ headerWritten'[r] = headerWritten[r]
      /\ status'[r] = status[r] /\ wire'[r] = wire[r] /\ body'[r] = body[r]
      /\ branch'[r] = branch[r] /\ recorded'[r] = recorded[r]
  BY DEF TypeOK, HandlerStep, ServerStep, Handler, Server, SendStatus, SendBody,
         Expire, Decide, SetFlag, SetStatus, SendHeader,
         SetFlagForBody, WriteBody, CloseDone, Completed, TimedOut, CheckFlag,
         SetStatus504, SendHeader504, WriteBody504, Record, Finish
<1>2. QED
  BY <1>1 DEF RequestInv, Path, Untouched, HandlerView, Done, ServerView,
              Header, Silent, Branch

LEMMA HandlerKeeps ==
    ASSUME TypeOK, NEW r \in Requests, RequestInv(r), HandlerStep(r)
    PROVE  RequestInv(r)'
<1>0. /\ answer[r].status # NoStatus /\ NoStatus \notin {OK, GatewayTimeout}
      /\ answer[r].status # GatewayTimeout /\ OK # GatewayTimeout
      /\ answer[r].header \in BOOLEAN /\ answer[r].body \in BOOLEAN
      /\ answer[r].header \/ answer[r].body
      /\ ~answer[r].header => answer[r].status = OK
  BY AnswerFacts
<1> USE <1>0
    DEF TypeOK, AfterHeader, AfterBody, Statuses,
        RequestInv, Path, Untouched, HandlerView, Done, ServerView, Header,
        Silent, Branch
<1>1. CASE Decide(r)
  BY <1>1 DEF Decide, Handler
<1>2. CASE SetFlag(r)
  BY <1>2 DEF SetFlag, Handler
<1>3. CASE SetStatus(r)
  BY <1>3 DEF SetStatus, Handler
<1>4. CASE SendHeader(r)
  BY <1>4 DEF SendHeader, Handler, SendStatus
<1>5. CASE SetFlagForBody(r)
  BY <1>5 DEF SetFlagForBody, Handler
<1>6. CASE WriteBody(r)
  BY <1>6 DEF WriteBody, Handler, SendBody, SendStatus
<1>7. CASE CloseDone(r)
  BY <1>7 DEF CloseDone, Handler
<1>8. QED
  BY <1>1, <1>2, <1>3, <1>4, <1>5, <1>6, <1>7 DEF HandlerStep

LEMMA ServerKeeps ==
    ASSUME TypeOK, NEW r \in Requests, RequestInv(r), ServerStep(r)
    PROVE  RequestInv(r)'
<1>0. /\ answer[r].status # NoStatus /\ NoStatus \notin {OK, GatewayTimeout}
      /\ answer[r].status # GatewayTimeout /\ OK # GatewayTimeout
      /\ answer[r].header \in BOOLEAN /\ answer[r].body \in BOOLEAN
      /\ answer[r].header \/ answer[r].body
      /\ ~answer[r].header => answer[r].status = OK
  BY AnswerFacts
<1> USE <1>0
    DEF TypeOK, AfterHeader, AfterBody, Statuses,
        RequestInv, Path, Untouched, HandlerView, Done, ServerView, Header,
        Silent, Branch
<1>1. CASE Completed(r)
  BY <1>1 DEF Completed, Server
<1>2. CASE TimedOut(r)
  BY <1>2 DEF TimedOut, Server
<1>3. CASE CheckFlag(r)
  BY <1>3 DEF CheckFlag, Server
<1>4. CASE SetStatus504(r)
  BY <1>4 DEF SetStatus504, Server
<1>5. CASE SendHeader504(r)
  BY <1>5 DEF SendHeader504, Server, SendStatus
<1>6. CASE WriteBody504(r)
  BY <1>6 DEF WriteBody504, Server, SendBody, SendStatus
<1>7. CASE Record(r)
  BY <1>7 DEF Record, Server
<1>8. CASE Finish(r)
  BY <1>8 DEF Finish, Server, SendStatus
<1>9. QED
  BY <1>1, <1>2, <1>3, <1>4, <1>5, <1>6, <1>7, <1>8 DEF ServerStep

THEOREM InductiveInvariant == Spec => []IInv
<1>1. Init => IInv
  <2> SUFFICES ASSUME Init, NEW r \in Requests PROVE RequestInv(r)
    BY DEF IInv
  <2>1. /\ serverAt[r] = "select" /\ handlerAt[r] = "work"
        /\ ~headerWritten[r] /\ status[r] = OK /\ wire[r] = NoStatus
        /\ body[r] = {} /\ branch[r] = "none"
    BY DEF Init
  <2>2. NoStatus # OK
    BY StatusAssumption DEF OK
  <2>3. QED
    BY <2>1, <2>2 DEF RequestInv, Path, Untouched, HandlerView, Done, ServerView,
                      Header, Silent, Branch, AfterHeader, AfterBody
<1>2. TypeOK /\ IInv /\ [Next]_vars => IInv'
  <2> SUFFICES ASSUME TypeOK, IInv, [Next]_vars, NEW r \in Requests
               PROVE  RequestInv(r)'
    BY DEF IInv
  <2>0. RequestInv(r)
    BY DEF IInv
  <2>1. ASSUME NEW q \in Requests,
               HandlerStep(q) \/ Expire(q) \/ ServerStep(q)
        PROVE  RequestInv(r)'
    <3>1. CASE q # r
      BY <2>0, <2>1, <3>1, OtherRequests
    <3>2. CASE q = r /\ HandlerStep(r)
      BY <2>0, <3>2, HandlerKeeps
    <3>3. CASE q = r /\ ServerStep(r)
      BY <2>0, <3>3, ServerKeeps
    <3>4. CASE q = r /\ Expire(r)
      BY <2>0, <3>4 DEF Expire, RequestInv, Path, Untouched, HandlerView, Done,
                        ServerView, Header, Silent, Branch
    <3>5. QED
      BY <2>1, <3>1, <3>2, <3>3, <3>4
  <2>2. CASE UNCHANGED vars
    BY <2>0, <2>2 DEF vars, RequestInv, Path, Untouched, HandlerView, Done,
                      ServerView, Header, Silent, Branch
  <2>3. QED
    BY <2>1, <2>2 DEF Next, Terminated
<1>3. QED
  BY <1>1, <1>2, TypeCorrect, PTL DEF Spec

-----------------------------------------------------------------------------
(***************************************************************************)
(* A request whose handler finished in time: the client and the metric     *)
(* both get the handler's own answer, whatever the interleaving of the two *)
(* goroutines of every other request.                                      *)
(***************************************************************************)
THEOREM CompletedFaithful == Spec => []CompletedIsFaithful
<1>1. TypeOK /\ IInv => CompletedIsFaithful
  BY AnswerShape DEF IInv, RequestInv, Untouched, HandlerView, Done, AfterHeader,
         AfterBody, CompletedIsFaithful
<1>2. QED
  BY <1>1, InductiveInvariant, TypeCorrect, PTL

\* A request whose handler never wrote: 504 on the wire and in the metric.
THEOREM SlowHandler == Spec => []SlowHandlerGets504
<1>1. IInv => SlowHandlerGets504
  BY DEF IInv, RequestInv, ServerView, SlowHandlerGets504
<1>2. QED
  BY <1>1, InductiveInvariant, PTL

(***************************************************************************)
(* The one way in which a failed handler is reported to the client as a    *)
(* success: the flag was set before the header was sent.                   *)
(***************************************************************************)
THEOREM WrongSuccess == Spec => []WrongSuccessNeedsRace
<1>1. IInv => WrongSuccessNeedsRace
  BY DEF IInv, RequestInv, Header, Silent, WrongSuccessNeedsRace
<1>2. QED
  BY <1>1, InductiveInvariant, PTL

(***************************************************************************)
(* The answers of the service are true (middleware/timeout.go, lines       *)
(* 15-51): the four parts of AnswersTrue together.                         *)
(***************************************************************************)
THEOREM AllAnswersTrue == Spec => []AnswersTrue
BY TypeCorrect, CompletedFaithful, SlowHandler, WrongSuccess, PTL DEF AnswersTrue

-----------------------------------------------------------------------------
(* A service that is told to stop (ServiceLifecycle, instance S).          *)

ServingStill == {"select", "shutdown"}

LifeTyped ==
    /\ mainAt \in ServingStill \cup {"logs", "redis", "metrics", "traces", "draining", "exited"}
    /\ server \in {"up", "failed", "closing", "closed"}
    /\ gaveUp \in BOOLEAN
    /\ request \in [Requests -> {"none", "active", "answered", "late"}]
    /\ handler \in [Requests -> {"none", "index", "record", "answer", "done"}]
    /\ report \in [Requests -> {"none", "sending", "done"}]

\* Until main is past Shutdown nothing is closed, so nothing is lost.
NothingLostYet == mainAt \in ServingStill => closed = {} /\ failed = {} /\ lostSpans = {}

\* Where the server is when main gets to the defers, and what Shutdown left.
ServerStopped ==
    /\ server = "up" => mainAt = "select"
    /\ mainAt \notin ServingStill => server \in {"failed", "closed"}
    /\ server = "closed" => gaveUp \/ \A r \in Requests : request[r] # "active"

\* A handler that runs has a request that waits or has its 504.
HandlerHasRequest ==
    \A r \in Requests :
        /\ request[r] = "none" <=> handler[r] = "none"
        /\ handler[r] \in {"index", "record", "answer"} => request[r] \in {"active", "late"}
        /\ handler[r] \in {"none", "index"} => report[r] = "none"

LossInv ==
    /\ LifeTyped /\ NothingLostYet /\ ServerStopped /\ HandlerHasRequest
    /\ \A r \in failed : S!Orphan(r)
    /\ S!SpanLostNeedsCause
    /\ failed \subseteq Requests /\ lostSpans \subseteq Requests

\* The place that follows a place in Closing.
LEMMA FollowingPlace ==
    /\ S!Following("logs") = "redis"
    /\ S!Following("redis") = "metrics"
    /\ S!Following("metrics") = "traces"
    /\ S!Following("traces") = "draining"
<1> DEFINE C == S!Closing
<1>1. /\ DOMAIN C = 1..4 /\ Len(C) = 4
      /\ C[1] = "logs" /\ C[2] = "redis" /\ C[3] = "metrics" /\ C[4] = "traces"
  BY DEF S!Closing
<1>2. ASSUME NEW i \in 1..4
      PROVE  (CHOOSE j \in 1..4 : C[j] = C[i]) = i
  <2>1. \A j \in 1..4 : C[j] = C[i] => j = i
    BY <1>1
  <2> HIDE DEF C
  <2>2. QED BY <2>1
<1> HIDE DEF C
<1>3. ASSUME NEW i \in 1..4
      PROVE  S!Following(C[i]) = IF i = 4 THEN "draining" ELSE C[i + 1]
  <2>1. S!Following(C[i]) = LET k == CHOOSE j \in 1..4 : C[j] = C[i]
                            IN  IF k = 4 THEN "draining" ELSE C[k + 1]
    BY <1>1 DEF S!Following, C
  <2>2. QED BY <1>2, <2>1
<1>4. QED BY <1>1, <1>3

LEMMA LossInvHolds == S!Spec => []LossInv
<1> USE DEF LossInv, LifeTyped, ServingStill
<1>1. S!Init => LossInv
  BY DEF S!Init, NothingLostYet, ServerStopped, HandlerHasRequest, S!Orphan, S!SpanLostNeedsCause
<1>2. LossInv /\ [S!Next]_(S!lifecycleVars) => LossInv'
  <2> SUFFICES ASSUME LossInv, [S!Next]_(S!lifecycleVars) PROVE LossInv'
    OBVIOUS
  <2> USE DEF NothingLostYet, ServerStopped, HandlerHasRequest, S!Orphan, S!SpanLostNeedsCause,
              S!requestVars, S!mainOnly, S!Running
  <2>1. ASSUME NEW r \in Requests, S!Accept(r) PROVE LossInv'
    BY <2>1 DEF S!Accept
  <2>2. ASSUME NEW r \in Requests, S!WriteIndex(r) PROVE LossInv'
    BY <2>2 DEF S!WriteIndex, S!Command
  <2>3. ASSUME NEW r \in Requests, S!WriteRecord(r) PROVE LossInv'
    BY <2>3 DEF S!WriteRecord, S!Command
  <2>4. ASSUME NEW r \in Requests, S!Answer(r) PROVE LossInv'
    BY <2>4 DEF S!Answer, S!Ended
  <2>5. ASSUME NEW r \in Requests, S!TimeOut(r) PROVE LossInv'
    BY <2>5 DEF S!TimeOut
  <2>6. ASSUME NEW r \in Requests, S!Report(r) PROVE LossInv'
    BY <2>6 DEF S!Report, S!Ended
  <2>7. CASE S!Signal
    BY <2>7 DEF S!Signal
  <2>8. CASE S!ServerFails
    BY <2>8 DEF S!ServerFails
  <2>9. CASE S!SelectError
    BY <2>9 DEF S!SelectError
  <2>10. CASE S!SelectSignal
    BY <2>10 DEF S!SelectSignal
  <2>11. CASE S!ShutDown
    BY <2>11 DEF S!ShutDown, S!Active
  <2>12. CASE S!GiveUp
    BY <2>12 DEF S!GiveUp
  <2>13. CASE S!Close
    <3>1. mainAt \in {"logs", "redis", "metrics", "traces"}
      BY <2>13 DEF S!Close, S!Closing
    <3>2. mainAt' \in {"redis", "metrics", "traces", "draining"}
      BY <2>13, <3>1, FollowingPlace DEF S!Close
    <3>3. QED BY <2>13, <3>1, <3>2 DEF S!Close
  <2>14. CASE S!Drained
    BY <2>14 DEF S!Drained
  <2>15. CASE UNCHANGED S!lifecycleVars
    BY <2>15 DEF S!lifecycleVars
  <2>16. QED
    BY <2>1, <2>2, <2>3, <2>4, <2>5, <2>6, <2>7, <2>8, <2>9, <2>10, <2>11, <2>12, <2>13,
       <2>14, <2>15 DEF S!Next, S!Main
<1>3. QED BY <1>1, <1>2, PTL DEF S!Spec

\* What a shutdown loses, of requests and of spans, was lost to a deadline, to
\* the end of the 30 seconds, to a failed server or to a report (main.go,
\* lines 168-186).
THEOREM LossHasCause == S!Spec => []LossNeedsCause
<1>1. LossInv => LossNeedsCause
  BY DEF LossInv, LifeTyped, ServingStill, ServerStopped, LossNeedsCause, S!LossNeedsCause,
         S!CutOffNeedsCause, S!Orphan
<1>2. QED BY <1>1, LossInvHolds, PTL

=============================================================================
