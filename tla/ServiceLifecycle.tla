-------------------------- MODULE ServiceLifecycle --------------------------
(***************************************************************************)
(* driver-location-service, from its first request to its exit: main waits *)
(* for a signal or a server error, shuts the server down, and then closes  *)
(* what its handlers use, in the reverse order of the defers.  Handlers    *)
(* run in goroutines of their own (TimeoutMiddleware), and UpdateLocation  *)
(* leaves one more that reports to the analyzer: nobody waits for those.   *)
(***************************************************************************)
EXTENDS Naturals, Sequences

CONSTANT Requests

\* What main closes, in order: each of them has a defer.
Closing == <<"logs", "redis", "metrics", "traces">>

VARIABLES
    mainAt,      \* "select", "shutdown", a place in Closing, "draining", "exited"
    server,      \* "up", "failed", "closing" to new connections, "closed"
    signalled,   \* a signal waits in the channel
    gaveUp,      \* the 30 seconds of Shutdown have passed
    request,     \* what the server does with each request
    handler,     \* what its handler goroutine does
    report,      \* and the goroutine that reports a location
    closed,      \* what main has closed
    failed,      \* history: commands that found Redis closed
    lostSpans    \* history: requests a span of which ended after the exporter

lifecycleVars == <<mainAt, server, signalled, gaveUp, request, handler, report, closed,
                   failed, lostSpans>>

Init ==
    /\ mainAt = "select"
    /\ server = "up"
    /\ signalled = FALSE
    /\ gaveUp = FALSE
    /\ request = [r \in Requests |-> "none"]
    /\ handler = [r \in Requests |-> "none"]
    /\ report = [r \in Requests |-> "none"]
    /\ closed = {}
    /\ failed = {}
    /\ lostSpans = {}

Running == mainAt # "exited"

-----------------------------------------------------------------------------
(* Requests.                                                               *)

requestVars == <<mainAt, server, signalled, gaveUp, closed>>

Ended(r) == lostSpans' = IF "traces" \in closed THEN lostSpans \cup {r} ELSE lostSpans

Accept(r) ==
    /\ Running /\ server = "up" /\ request[r] = "none"
    /\ request' = [request EXCEPT ![r] = "active"]
    /\ handler' = [handler EXCEPT ![r] = "index"]
    /\ UNCHANGED <<requestVars, report, failed, lostSpans>>

Command(r) ==
    failed' = IF "redis" \in closed THEN failed \cup {r} ELSE failed

\* UpdateLocation starts the report between its two commands; FindNearby
\* may have more commands than one.
WriteIndex(r) ==
    /\ Running /\ handler[r] = "index"
    /\ Command(r)
    /\ \/ handler' = [handler EXCEPT ![r] = "record"] /\ report' = [report EXCEPT ![r] = "sending"]
       \/ /\ handler' \in {[handler EXCEPT ![r] = next] : next \in {"record", "answer"}}
          /\ UNCHANGED report
    /\ UNCHANGED <<requestVars, request, lostSpans>>

WriteRecord(r) ==
    /\ Running /\ handler[r] = "record"
    /\ Command(r)
    /\ handler' = [handler EXCEPT ![r] = "answer"]
    /\ UNCHANGED <<requestVars, request, report, lostSpans>>

Answer(r) ==
    /\ Running /\ handler[r] = "answer"
    /\ handler' = [handler EXCEPT ![r] = "done"]
    /\ request' = [request EXCEPT ![r] = IF @ = "active" THEN "answered" ELSE @]
    /\ Ended(r)
    /\ UNCHANGED <<requestVars, report, failed>>

\* TimeoutMiddleware answers 504; the handler goes on.
TimeOut(r) ==
    /\ Running /\ request[r] = "active"
    /\ request' = [request EXCEPT ![r] = "late"]
    /\ UNCHANGED <<requestVars, handler, report, failed, lostSpans>>

Report(r) ==
    /\ Running /\ report[r] = "sending"
    /\ report' = [report EXCEPT ![r] = "done"]
    /\ Ended(r)
    /\ UNCHANGED <<requestVars, request, handler, failed>>

-----------------------------------------------------------------------------
(* main.                                                                   *)

mainOnly == <<request, handler, report, failed, lostSpans>>

\* A further signal has no one to receive it.
Signal ==
    /\ Running /\ ~signalled
    /\ signalled' = TRUE
    /\ UNCHANGED <<mainOnly, mainAt, server, gaveUp, closed>>

\* ListenAndServe fails, when it starts or to accept.
ServerFails ==
    /\ Running /\ server = "up"
    /\ server' = "failed"
    /\ UNCHANGED <<mainOnly, mainAt, signalled, gaveUp, closed>>

SelectError ==
    /\ mainAt = "select" /\ server = "failed"
    /\ mainAt' = "logs"
    /\ UNCHANGED <<mainOnly, server, signalled, gaveUp, closed>>

SelectSignal ==
    /\ mainAt = "select" /\ signalled
    /\ mainAt' = "shutdown"
    /\ server' = IF server = "up" THEN "closing" ELSE server
    /\ UNCHANGED <<mainOnly, signalled, gaveUp, closed>>

Active == {r \in Requests : request[r] = "active"}

\* Fault: the connections are closed at once.
ShutDownAtOnce ==
    /\ mainAt = "shutdown"
    /\ mainAt' = "logs"
    /\ server' = "closed"
    /\ UNCHANGED <<mainOnly, signalled, gaveUp, closed>>

\* Shutdown returns when every connection is idle...
ShutDown ==
    /\ mainAt = "shutdown" /\ Active = {}
    /\ mainAt' = "logs"
    /\ server' = "closed"
    /\ UNCHANGED <<mainOnly, signalled, gaveUp, closed>>

\* Fault: Shutdown is given a context without a deadline.
GiveUpNever == FALSE /\ UNCHANGED lifecycleVars

\* ...or after 30 seconds, and then Close does not wait.
GiveUp ==
    /\ mainAt = "shutdown" /\ Active # {}
    /\ mainAt' = "logs"
    /\ server' = "closed"
    /\ gaveUp' = TRUE
    /\ UNCHANGED <<mainOnly, signalled, closed>>

Following(what) ==
    LET i == CHOOSE i \in DOMAIN Closing : Closing[i] = what
    IN  IF i = Len(Closing) THEN "draining" ELSE Closing[i + 1]

Close ==
    /\ \E i \in DOMAIN Closing : mainAt = Closing[i]
    /\ closed' = closed \cup {mainAt}
    /\ mainAt' = Following(mainAt)
    /\ UNCHANGED <<mainOnly, server, signalled, gaveUp>>

\* The provider of the traces takes no more spans and exports those it has.
Drained ==
    /\ mainAt = "draining"
    /\ mainAt' = "exited"
    /\ UNCHANGED <<mainOnly, server, signalled, gaveUp, closed>>

Main == SelectError \/ SelectSignal \/ ShutDown \/ GiveUp \/ Close \/ Drained

Next ==
    \/ \E r \in Requests :
           Accept(r) \/ WriteIndex(r) \/ WriteRecord(r) \/ Answer(r) \/ TimeOut(r) \/ Report(r)
    \/ Signal \/ ServerFails
    \/ Main
    \/ ~Running /\ UNCHANGED lifecycleVars

\* main is scheduled; handlers may hang for ever.
Fairness == WF_lifecycleVars(Main)

Spec == Init /\ [][Next]_lifecycleVars /\ Fairness

-----------------------------------------------------------------------------
(* Properties. *)

Orphan(r) == request[r] = "late" \/ gaveUp \/ server = "failed"

(***************************************************************************)
(* A request is cut off, its command finds Redis closed or the process     *)
(* ends before its answer, only if the client already has its 504, the 30  *)
(* seconds were over, or the server failed and main returned without       *)
(* Shutdown (main.go, lines 168-186).                                      *)
(***************************************************************************)
CutOffNeedsCause ==
    \A r \in Requests :
        r \in failed \/ (mainAt = "exited" /\ request[r] = "active") => Orphan(r)

(***************************************************************************)
(* A span ends after the exporter was shut down only for those causes or   *)
(* for a report, which no one waits for (driver_service.go, line 71).      *)
(***************************************************************************)
SpanLostNeedsCause == \A r \in lostSpans : report[r] = "done" \/ Orphan(r)

\* Once signalled, the process exits, though handlers may never return
\* (main.go, lines 173-185).
Exits == signalled ~> mainAt = "exited"

(***************************************************************************)
(* What a shutdown loses, of requests and of spans, has one of the causes  *)
(* above (main.go, lines 168-186).                                         *)
(***************************************************************************)
LossNeedsCause == CutOffNeedsCause /\ SpanLostNeedsCause

=============================================================================
