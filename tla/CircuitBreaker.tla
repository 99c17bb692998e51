--------------------------- MODULE CircuitBreaker ---------------------------
(***************************************************************************)
(* lesson_10/circuit_breaker: two loops of calls to a service that fails   *)
(* at random, through a gobreaker.CircuitBreaker, and a pause between the  *)
(* loops.  The library is modelled from how main uses it: from one         *)
(* goroutine, with calls that take no time.  Time counts the sleeps of 50  *)
(* ms after each call.                                                     *)
(***************************************************************************)
EXTENDS Integers

CONSTANTS
    Loop,          \* calls of a loop, 50 in the program
    Interval,      \* settings: 20 sleeps, after which a closed breaker forgets
    Timeout,       \* 20 sleeps, after which an open breaker is half-open
    MaxRequests,   \* 1 call while half-open
    MinRequests,   \* 10 calls do not trip it yet
    Ratio,         \* 30 failures per cent do
    Pause          \* 40 sleeps between the loops

VARIABLES
    call,       \* calls so far
    clock,
    state,      \* "closed", "open", "half-open"
    expiry,     \* when a closed or an open breaker changes by itself
    requests, failures, inARow,  \* Counts: Requests, TotalFailures, ConsecutiveSuccesses
    made,       \* the last call was made
    openedAt,   \* history: when the breaker last opened
    streak      \* history: failed calls since it was last open or one succeeded

breakerVars == <<call, clock, state, expiry, requests, failures, inARow, made, openedAt, streak>>

Init ==
    /\ call = 0 /\ clock = 0
    /\ state = "closed" /\ expiry = Interval
    /\ requests = 0 /\ failures = 0 /\ inARow = 0
    /\ made = FALSE /\ openedAt = -1 /\ streak = 0

\* Fault: the ratio is that of integers.
TripsIfAllFail(of, failed) == of > MinRequests /\ (failed \div of) * 100 >= Ratio

\* ReadyToTrip, with the call that has just failed among the counts.
Trips(of, failed) == of > MinRequests /\ failed * 100 >= Ratio * of

\* currentState: the state a call finds, and whether counts start anew.
Expired == expiry < clock
Found == IF state = "open" /\ Expired THEN "half-open" ELSE state
Anew == state # "half-open" /\ Expired

Counted(count) == IF Anew THEN 0 ELSE count

\* setState; an open and a closed breaker expire.
Enter(s) ==
    /\ state' = s
    /\ requests' = 0 /\ failures' = 0 /\ inARow' = 0
    /\ expiry' = IF s = "open" THEN clock + Timeout ELSE clock + Interval

Stay(succeeded) ==
    /\ state' = Found
    /\ requests' = Counted(requests) + 1
    /\ failures' = Counted(failures) + (IF succeeded THEN 0 ELSE 1)
    /\ inARow' = IF succeeded THEN Counted(inARow) + 1 ELSE 0
    /\ expiry' = IF Anew /\ Found = "closed" THEN clock + Interval ELSE expiry

\* Fault: main goes on at once.
ElapseNothing == clock' = clock + 1

Elapse == clock' = IF call' = Loop THEN clock + 1 + Pause ELSE clock + 1

\* Fault: an open breaker lets calls pass.
RefusedHalfOpen == Found = "half-open" /\ Counted(requests) >= MaxRequests

\* Execute, before the call: open, or half-open with a call too many.
Refused == Found = "open" \/ (Found = "half-open" /\ Counted(requests) >= MaxRequests)

Refuse ==
    /\ call < 2 * Loop /\ Refused
    /\ call' = call + 1
    /\ made' = FALSE
    /\ Elapse
    /\ UNCHANGED <<state, expiry, requests, failures, inARow, openedAt, streak>>

Succeed ==
    /\ call < 2 * Loop /\ ~Refused
    /\ call' = call + 1
    /\ made' = TRUE
    /\ IF Found = "half-open" /\ Counted(inARow) + 1 >= MaxRequests THEN Enter("closed") ELSE Stay(TRUE)
    /\ streak' = 0
    /\ Elapse
    /\ UNCHANGED openedAt

Fail ==
    /\ call < 2 * Loop /\ ~Refused
    /\ call' = call + 1
    /\ made' = TRUE
    /\ IF Found = "half-open" \/ Trips(Counted(requests) + 1, Counted(failures) + 1)
       THEN Enter("open") /\ openedAt' = clock /\ streak' = 0
       ELSE Stay(FALSE) /\ streak' = streak + 1 /\ UNCHANGED openedAt
    /\ Elapse

Next == Refuse \/ Succeed \/ Fail

Spec == Init /\ [][Next]_breakerVars

-----------------------------------------------------------------------------
(* Properties. *)

(***************************************************************************)
(* The service is left alone for a Timeout after the breaker has opened    *)
(* (main.go, lines 29 and 42): no call of that time is made.               *)
(***************************************************************************)
OpenIsQuiet ==
    [][clock <= openedAt + Timeout /\ openedAt >= 0 /\ call' # call => ~made']_breakerVars

(***************************************************************************)
(* How many calls of a service that only fails are made before the breaker *)
(* opens: ReadyToTrip asks for more than MinRequests (line 33), but counts *)
(* are forgotten once an Interval, and the pause ends one more of them.    *)
(***************************************************************************)
StreakBounded == streak <= 3 * MinRequests

\* The pause is long enough: the first call after it is always made (lines
\* 55-58).
SecondLoopBegins == call = Loop + 1 => made

(***************************************************************************)
(* The breaker spares a service that fails, soon enough, and lets the      *)
(* second loop begin (main.go, lines 23-68).                               *)
(***************************************************************************)
BreakerSound == [](StreakBounded /\ SecondLoopBegins) /\ OpenIsQuiet

=============================================================================
