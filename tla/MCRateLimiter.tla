---------------------------- MODULE MCRateLimiter ----------------------------
(***************************************************************************)
(* TLC instances of what adapts to its environment: a behaviour is one of  *)
(* RateLimiter, CircuitBreaker, Degradation or one of the two samplers.    *)
(***************************************************************************)
EXTENDS RateLimiter, FiniteSets, TLC

CONSTANTS
    Alerts,
    Calls, Capacity, MaxQuota,
    Requests, Operations, MaxOperations, Strategies,
    MaxTime, MaxPolls, MaxFetches,
    Loop, Interval, Timeout, MaxRequests, MinRequests, Ratio, Pause

VARIABLES
    program,
    enabled, gauge, alertAt, status, raced,
    xNow, rule, statistics, reservoir, callAt, held, stamp, outcome, pollAt, copy, report,
    polls, reported, matched, taken, astray, sinceCopy, wonBack, callFailed, replaced,
    jNow, sampler, requestAt, op, updateAt, answer, fetches, closeAt, inForce, made, granted,
    call, clock, state, expiry, counted, failures, inARow, calledIt, openedAt, streak

ASSUME XRayAssumption == Capacity \in Nat /\ MaxQuota \in Nat /\ MaxTime \in Nat

(***************************************************************************)
(* The numbers of main (circuit_breaker/main.go, lines 27-58): an interval *)
(* is long enough for the breaker to trip in, a failure rate of 100 trips  *)
(* it, and the pause is as long as the timeout.                            *)
(***************************************************************************)
ASSUME BreakerAssumption ==
    /\ {Loop, Interval, Timeout, MinRequests, Ratio, Pause} \subseteq Nat
    /\ MaxRequests \in Nat \ {0}
    /\ MinRequests < Interval
    /\ Ratio <= 100 /\ Ratio * (Interval + 1) <= 100 * (MinRequests + 1)
    /\ Timeout <= Pause

\* A strategy has one part of a kind at most (sampling.proto of jaeger-idl, lines
\* 61-66); rates are not negative.
StrategyPart(p) ==
    \/ p \in [kind : {"probabilistic"}, rate : Nat] \cup [kind : {"rateLimiting"}, limit : Nat]
    \/ \E known \in SUBSET Operations :
           p \in [kind : {"perOperation"}, default : Nat, lowerBound : Nat, rates : [known -> Nat]]

ASSUME StrategyAssumption ==
    /\ MaxOperations \in Nat
    /\ IsFiniteSet(Operations) /\ IsFiniteSet(Strategies)
    /\ \A s \in Strategies :
           /\ IsFiniteSet(s) /\ \A p \in s : StrategyPart(p)
           /\ \A p, q \in s : p.kind = q.kind => p = q

A == INSTANCE Degradation WITH at <- alertAt
X == INSTANCE XRaySampler WITH now <- xNow, at <- callAt, MaxTime <- MaxTime + 1

MCStrategies ==
    LET perOperation(default, lowerBound, rates) ==
            [kind |-> "perOperation", default |-> default, lowerBound |-> lowerBound, rates |-> rates]
        limiting(limit) == [kind |-> "rateLimiting", limit |-> limit]
        probable(rate) == [kind |-> "probabilistic", rate |-> rate]
    IN  {{}, {probable(3)}, {limiting(1)}, {limiting(4)},
         {perOperation(1, 4, "a" :> 2), probable(1)},
         {perOperation(0, 1, "a" :> 1 @@ "b" :> 1)}}

J == INSTANCE JaegerSampler WITH now <- jNow, at <- requestAt

B == INSTANCE CircuitBreaker WITH requests <- counted, made <- calledIt

alertVars  == <<enabled, gauge, alertAt, status, raced>>
xrayVars   == <<xNow, rule, statistics, reservoir, callAt, held, stamp, outcome, pollAt, copy,
                report, polls, reported, matched, taken, astray, sinceCopy, wonBack, callFailed, replaced>>
jaegerVars == <<jNow, sampler, requestAt, op, updateAt, answer, fetches, closeAt, inForce, made, granted>>
breakerVars == <<call, clock, state, expiry, counted, failures, inARow, calledIt, openedAt, streak>>

MCInit ==
    /\ program \in {"limiter", "breaker", "alerts", "xray", "jaeger"}
    /\ Init /\ A!Init /\ X!Init /\ J!Init /\ B!Init
    /\ program # "limiter" => failing /\ ~reachable

MCNext ==
    /\ \/ program = "limiter" /\ Next
          /\ UNCHANGED <<alertVars, xrayVars, jaegerVars, breakerVars>>
       \/ program = "breaker" /\ B!Next
          /\ UNCHANGED <<vars, alertVars, xrayVars, jaegerVars>>
       \/ program = "alerts" /\ A!Next
          /\ UNCHANGED <<vars, xrayVars, jaegerVars, breakerVars>>
       \/ program = "xray" /\ X!Next
          /\ UNCHANGED <<vars, alertVars, jaegerVars, breakerVars>>
       \/ program = "jaeger" /\ J!Next
          /\ UNCHANGED <<vars, alertVars, xrayVars, breakerVars>>
    /\ UNCHANGED program

\* Where the limiter and the sampler rest, nothing of theirs is due.
MCMonitor    == program = "limiter" /\ Monitor
MCRequest(r) == program = "jaeger" /\ J!Request(r)
MCUpdate(u)  == program = "jaeger" /\ J!Update(u)
MCStop       == program = "jaeger" /\ J!Stop

MCFairness ==
    /\ WF_vars(MCMonitor)
    /\ \A r \in Requests : WF_jaegerVars(MCRequest(r))
    /\ \A u \in J!Updaters : WF_jaegerVars(MCUpdate(u))
    /\ SF_jaegerVars(MCStop)

MCSpec ==
    /\ MCInit
    /\ [][MCNext]_<<vars, alertVars, xrayVars, jaegerVars, breakerVars, program>>
    /\ MCFairness

AlertsSound == A!AlertsSound
XRaySound == X!XRaySound
JaegerSound == J!JaegerSound
JaegerCloses == J!CloseReturns
BreakerSound == B!BreakerSound
=============================================================================
