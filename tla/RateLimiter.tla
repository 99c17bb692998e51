----------------------------- MODULE RateLimiter -----------------------------
(***************************************************************************)
(* lesson_10/adaptive_rate_limiter: a counter of the requests admitted in  *)
(* the current minute, and a goroutine that lowers the limit while the     *)
(* error rate Prometheus reports is too high and raises it while it is     *)
(* not.  Requests and the goroutine meet at one mutex; each critical       *)
(* section is one step.  The error rate concerns endpoints that are not    *)
(* limited, so the environment chooses it.                                 *)
(***************************************************************************)
EXTENDS Integers

CONSTANTS
    MinRate, MaxRate, InitialRate,  \* 1, 60 and 60 by default
    Up, Down,        \* rateIncreaseFactor and rateDecreaseFactor, in percent
    MaxMinute,       \* bound: the last minute of the wall clock
    MaxVisits        \* bound: how often the clock may come to one minute;
                     \* more than once when it is set back

ASSUME RateAssumption ==
    /\ MinRate \in Nat \ {0}
    /\ MaxRate \in Nat
    /\ InitialRate \in MinRate..MaxRate
    /\ Up \in Nat /\ Up > 100
    /\ Down \in 0..99
    /\ MaxMinute \in Nat
    /\ MaxVisits \in Nat

Minutes == 0..MaxMinute

VARIABLES
    now,            \* the minute of the wall clock
    currentMinute,  \* RateLimiter.currentMinute
    requestCount,   \* RateLimiter.requestCount
    rateLimit,      \* RateLimiter.rateLimitPerMinute
    failing,        \* the error rate is above the threshold
    reachable,      \* Prometheus answers
    monitorAt,      \* where MonitorAndAdjust is
    tooHigh,        \* its local: errorRate > errorRateThreshold
    currentRate,    \* its local: currentRateLimit
    admitted,       \* history: requests admitted in each minute
    highest,        \* history: the highest limit in force in each minute
    visits          \* history: how often the clock came to each minute

vars == <<now, currentMinute, requestCount, rateLimit, failing, reachable,
          monitorAt, tooHigh, currentRate, admitted, highest, visits>>

Init ==
    /\ now = 0
    /\ currentMinute = 0
    /\ requestCount = 0
    /\ rateLimit = InitialRate
    /\ failing \in BOOLEAN
    /\ reachable \in BOOLEAN
    /\ monitorAt = "tick"
    /\ tooHigh = FALSE
    /\ currentRate = 0
    /\ admitted = [m \in Minutes |-> 0]
    /\ highest = [m \in Minutes |-> IF m = 0 THEN InitialRate ELSE 0]
    /\ visits = [m \in Minutes |-> IF m = 0 THEN 1 ELSE 0]

Larger(a, b)  == IF a > b THEN a ELSE b
Smaller(a, b) == IF a < b THEN a ELSE b

limiter     == <<currentMinute, requestCount, rateLimit>>
monitor     == <<monitorAt, tooHigh, currentRate>>
environment == <<failing, reachable>>
history     == <<admitted, highest, visits>>

-----------------------------------------------------------------------------
(* The environment. *)

\* The next minute begins, or the clock is set back to an earlier one.
SetClock(m) ==
    /\ m < now \/ m = now + 1
    /\ visits[m] < MaxVisits
    /\ now' = m
    /\ visits' = [visits EXCEPT ![m] = @ + 1]
    /\ highest' = [highest EXCEPT ![m] = Larger(@, rateLimit)]
    /\ UNCHANGED <<limiter, environment, monitor, admitted>>

\* The error rate crosses the threshold, or Prometheus goes or comes back.
Change ==
    /\ failing' \in BOOLEAN
    /\ reachable' \in BOOLEAN
    /\ UNCHANGED <<now, limiter, monitor, history>>

-----------------------------------------------------------------------------
(* Allow. *)

\* The count that a request finds, after the reset for a new minute.
CountNow == IF now = currentMinute THEN requestCount ELSE 0

\* Fault: the limit is compared after the count has been raised.
AdmitOneMore ==
    /\ CountNow <= rateLimit
    /\ currentMinute' = now
    /\ requestCount' = CountNow + 1
    /\ admitted' = [admitted EXCEPT ![now] = @ + 1]
    /\ UNCHANGED <<now, rateLimit, environment, monitor, highest, visits>>

Admit ==
    /\ CountNow < rateLimit
    /\ currentMinute' = now
    /\ requestCount' = CountNow + 1
    /\ admitted' = [admitted EXCEPT ![now] = @ + 1]
    /\ UNCHANGED <<now, rateLimit, environment, monitor, highest, visits>>

\* 429; a limit below 1 would refuse the first request of a minute too.
Refuse ==
    /\ CountNow >= rateLimit
    /\ currentMinute' = now
    /\ requestCount' = CountNow
    /\ UNCHANGED <<now, rateLimit, environment, monitor, history>>

-----------------------------------------------------------------------------
(* MonitorAndAdjust. *)

\* queryErrorRate on the ticker; an error only waits for the next tick.
Query ==
    /\ monitorAt = "tick" /\ reachable
    /\ monitorAt' = "get"
    /\ tooHigh' = failing
    /\ UNCHANGED <<now, limiter, environment, currentRate, history>>

Get ==
    /\ monitorAt = "get"
    /\ monitorAt' = "set"
    /\ currentRate' = rateLimit
    /\ UNCHANGED <<now, limiter, environment, tooHigh, history>>

(***************************************************************************)
(* The factors are binary floating point numbers: a product that should be *)
(* whole can come out a little above or below (10 * 1.1 is more than 11).  *)
(***************************************************************************)
Ceil(p)  == LET c == (p + 99) \div 100 IN IF p % 100 = 0 THEN {c, c + 1} ELSE {c}
Floor(p) == LET f == p \div 100 IN IF p % 100 = 0 THEN {f - 1, f} ELSE {f}

\* Fault: the lower bound is forgotten.
LoweredFreely == Floor(currentRate * Down)

\* Fault: the lowered limit is rounded up.
LoweredRoundingUp == {Larger(MinRate, f) : f \in Ceil(currentRate * Down)}

\* Fault: the raised limit is rounded down.
RaisedRoundingDown == {Smaller(MaxRate, c) : c \in Floor(currentRate * Up)}

Lowered == {Larger(MinRate, f) : f \in Floor(currentRate * Down)}

Raised == {Smaller(MaxRate, c) : c \in Ceil(currentRate * Up)}

\* SetRateLimit.
Adjust ==
    /\ monitorAt = "set"
    /\ monitorAt' = "tick"
    /\ rateLimit' \in IF tooHigh THEN Lowered ELSE Raised
    /\ highest' = [highest EXCEPT ![now] = Larger(@, rateLimit')]
    /\ UNCHANGED <<now, currentMinute, requestCount, environment, tooHigh,
                   currentRate, admitted, visits>>

Monitor == Query \/ Get \/ Adjust

Next ==
    \/ \E m \in Minutes : SetClock(m)
    \/ Change
    \/ Admit
    \/ Refuse
    \/ Monitor

(***************************************************************************)
(* The ticker of MonitorAndAdjust goes on for as long as the process runs. *)
(***************************************************************************)
Spec == Init /\ [][Next]_vars /\ WF_vars(Monitor)

-----------------------------------------------------------------------------
(* Properties. *)

TypeOK ==
    /\ now \in Minutes
    /\ currentMinute \in Minutes
    /\ requestCount \in Nat
    /\ rateLimit \in Int
    /\ failing \in BOOLEAN
    /\ reachable \in BOOLEAN
    /\ monitorAt \in {"tick", "get", "set"}
    /\ tooHigh \in BOOLEAN
    /\ currentRate \in Nat
    /\ admitted \in [Minutes -> Nat]
    /\ highest \in [Minutes -> Nat]
    /\ visits \in [Minutes -> Nat]

(***************************************************************************)
(* However the limit moves while requests are counted, no minute admits    *)
(* more of them than the highest limit that was in force in it             *)
(* (main.go, lines 92-98) -- once more for every time the wall clock, from *)
(* which the minute is taken (line 89), is set back into that minute.      *)
(***************************************************************************)
AdmittedWithinLimit ==
    \A m \in Minutes : admitted[m] <= visits[m] * highest[m]

(***************************************************************************)
(* The limit never leaves the configured range (main.go, lines 138-147),   *)
(* although each branch checks one of its ends only.                       *)
(***************************************************************************)
RateInRange == rateLimit \in MinRate..MaxRate

(***************************************************************************)
(* Once errors have ceased, and Prometheus tells so, the limit comes back  *)
(* to its maximum from however low it was, in spite of the rounding.       *)
(***************************************************************************)
Recovers == <>[](~failing /\ reachable) => <>[](rateLimit = MaxRate)

(***************************************************************************)
(* While errors go on, and Prometheus tells so, the limit comes down to    *)
(* its minimum and no further.                                             *)
(***************************************************************************)
Protects == <>[](failing /\ reachable) => <>[](rateLimit = MinRate)

(***************************************************************************)
(* The limit is within its range, and no more is admitted than it says,    *)
(* whenever it is changed (main.go, lines 84-149).                         *)
(***************************************************************************)
LimitKept == TypeOK /\ AdmittedWithinLimit /\ RateInRange

(***************************************************************************)
(* In the end the limit is where the errors want it, from wherever it was  *)
(* (main.go, lines 121-151).                                               *)
(***************************************************************************)
FollowsErrors == Recovers /\ Protects

=============================================================================
