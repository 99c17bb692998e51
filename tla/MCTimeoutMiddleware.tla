------------------------- MODULE MCTimeoutMiddleware -------------------------
(***************************************************************************)
(* TLC instances of a service that answers requests: a behaviour is one of *)
(* TimeoutMiddleware or one of ServiceLifecycle.                           *)
(***************************************************************************)
EXTENDS TimeoutMiddleware

CONSTANT Programs

VARIABLES
    program,
    mainAt, server, signalled, gaveUp, request, handler, report, closed, failed, lostSpans

S == INSTANCE ServiceLifecycle

lifecycleVars == <<mainAt, server, signalled, gaveUp, request, handler, report, closed,
                   failed, lostSpans>>

MCInit ==
    /\ program \in Programs
    /\ Init /\ S!Init
    /\ program # "requests" => \A r \in Requests : answer[r].status \in Failures

MCNext ==
    /\ \/ program = "requests" /\ Next /\ UNCHANGED lifecycleVars
       \/ program = "service" /\ S!Next /\ UNCHANGED vars
    /\ UNCHANGED program

\* Where the requests rest, no timer fires.
MCExpire(r) == program = "requests" /\ Expire(r)
MCMain      == program = "service" /\ S!Main

MCFairness ==
    /\ \A r \in Requests : WF_vars(ServerStep(r)) /\ WF_vars(MCExpire(r))
    /\ WF_lifecycleVars(MCMain)

MCSpec == MCInit /\ [][MCNext]_<<vars, lifecycleVars, program>> /\ MCFairness

\* Every request that the middleware wraps is answered, whatever its handler
\* does (timeout.go, line 34), and a service that is told to stop exits
\* (main.go, lines 173-185).
EveryWaitEnds ==
    /\ program = "requests" => EveryRequestServed
    /\ S!Exits

LossNeedsCause == S!LossNeedsCause
=============================================================================
