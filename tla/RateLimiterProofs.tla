-------------------------- MODULE RateLimiterProofs --------------------------
(***************************************************************************)
(* Proofs about RateLimiter, for any bounds, factors and clock: the limit  *)
(* stays within its bounds, and every minute within its limit.  And about  *)
(* the other programs that limit what is asked of them: Degradation,       *)
(* CircuitBreaker, XRaySampler, JaegerSampler.                             *)
(***************************************************************************)
EXTENDS MCRateLimiter, Sequences, FiniteSetTheorems, WellFoundedInduction, TLAPS

-----------------------------------------------------------------------------
(* Arithmetic of the two factors. *)

\* A product by a percentage below 100 rounds to no more than the factor.
LEMMA FloorBelow ==
    ASSUME NEW n \in Nat, NEW f \in Floor(n * Down)
    PROVE  f \in Int /\ f <= n
<1>1. Down \in Nat /\ Down < 100
  BY RateAssumption
<1>2. n * Down \in Nat /\ n * Down <= n * 100
  BY <1>1
<1>3. (n * Down) \div 100 \in Int /\ (n * Down) \div 100 <= n
  BY <1>2
<1>4. QED
  BY <1>3 DEF Floor

\* A product by a percentage above 100 rounds to no less than the factor.
LEMMA CeilAbove ==
    ASSUME NEW n \in Nat, NEW c \in Ceil(n * Up)
    PROVE  c \in Int /\ c >= n
<1>1. Up \in Nat /\ Up > 100
  BY RateAssumption
<1>2. n * Up \in Nat /\ n * Up >= n * 100
  BY <1>1
<1>3. (n * Up + 99) \div 100 \in Int /\ (n * Up + 99) \div 100 >= n
  BY <1>2
<1>4. QED
  BY <1>3 DEF Ceil

-----------------------------------------------------------------------------
(***************************************************************************)
(* The monitor is the only one to change the limit, so the limit it has    *)
(* read is still in force when it sets a new one.                          *)
(***************************************************************************)
Typed ==
    /\ TypeOK
    /\ RateInRange
    /\ monitorAt = "set" => currentRate = rateLimit

LEMMA TypedInit == Init => Typed
<1> SUFFICES ASSUME Init PROVE Typed
  OBVIOUS
<1>1. InitialRate \in Nat /\ InitialRate \in MinRate..MaxRate /\ 0 \in Minutes
  BY RateAssumption DEF Minutes
<1>2. /\ admitted \in [Minutes -> Nat]
      /\ highest \in [Minutes -> Nat]
      /\ visits \in [Minutes -> Nat]
  BY <1>1 DEF Init
<1>3. /\ now \in Minutes /\ currentMinute \in Minutes
      /\ requestCount \in Nat /\ currentRate \in Nat
  BY <1>1 DEF Init
<1>4. failing \in BOOLEAN /\ reachable \in BOOLEAN /\ tooHigh \in BOOLEAN
  BY Zenon DEF Init
<1>5. rateLimit \in Int /\ rateLimit \in MinRate..MaxRate
  BY <1>1 DEF Init
<1>6. monitorAt \in {"tick", "get", "set"} /\ monitorAt # "set"
  BY DEF Init
<1>7. QED
  BY <1>2, <1>3, <1>4, <1>5, <1>6 DEF Typed, TypeOK, RateInRange

LEMMA AdjustInRange ==
    ASSUME Typed, Adjust
    PROVE  rateLimit' \in MinRate..MaxRate
<1>1. /\ currentRate \in MinRate..MaxRate /\ currentRate \in Nat
      /\ MinRate \in Nat /\ MaxRate \in Nat /\ MinRate <= MaxRate
  BY RateAssumption DEF Typed, TypeOK, RateInRange, Adjust
<1>2. ASSUME NEW r \in Lowered
      PROVE  r \in MinRate..MaxRate
  <2>1. PICK f \in Floor(currentRate * Down) : r = Larger(MinRate, f)
    BY <1>2 DEF Lowered
  <2>2. QED
    BY <1>1, <2>1, FloorBelow DEF Larger
<1>3. ASSUME NEW r \in Raised
      PROVE  r \in MinRate..MaxRate
  <2>1. PICK c \in Ceil(currentRate * Up) : r = Smaller(MaxRate, c)
    BY <1>3 DEF Raised
  <2>2. QED
    BY <1>1, <2>1, CeilAbove DEF Smaller
<1>4. QED
  BY <1>2, <1>3 DEF Adjust

LEMMA TypedNext ==
    ASSUME Typed, [Next]_vars
    PROVE  Typed'
<1> USE RateAssumption
<1>0. rateLimit \in Nat /\ CountNow \in Nat
  BY DEF Typed, TypeOK, RateInRange, CountNow
<1>1. CASE UNCHANGED vars
  BY <1>1 DEF vars, Typed, TypeOK, RateInRange
<1>2. ASSUME NEW m \in Minutes, SetClock(m)
      PROVE  Typed'
  <2>1. Larger(highest[m], rateLimit) \in Nat /\ visits[m] + 1 \in Nat
    BY <1>0 DEF Larger, Typed, TypeOK
  <2>2. highest' \in [Minutes -> Nat] /\ visits' \in [Minutes -> Nat]
    BY <1>2, <2>1 DEF SetClock, Typed, TypeOK
  <2>3. QED
    BY <1>2, <2>2 DEF SetClock, Typed, TypeOK, RateInRange, limiter, environment, monitor
<1>3. CASE Change
  BY <1>3 DEF Change, Typed, TypeOK, RateInRange, limiter, monitor, history
<1>4. CASE Admit
  <2>1. admitted' \in [Minutes -> Nat]
    BY <1>4 DEF Admit, Typed, TypeOK
  <2>2. QED
    BY <1>0, <1>4, <2>1 DEF Admit, Typed, TypeOK, RateInRange, environment, monitor
<1>5. CASE Refuse
  BY <1>0, <1>5 DEF Refuse, Typed, TypeOK, RateInRange, environment, monitor, history
<1>6. CASE Query
  BY <1>6 DEF Query, Typed, TypeOK, RateInRange, limiter, environment, history
<1>7. CASE Get
  BY <1>0, <1>7 DEF Get, Typed, TypeOK, RateInRange, limiter, environment, history
<1>8. CASE Adjust
  <2>1. rateLimit' \in MinRate..MaxRate /\ rateLimit' \in Nat
    BY <1>8, AdjustInRange
  <2>2. Larger(highest[now], rateLimit') \in Nat
    BY <2>1 DEF Larger, Typed, TypeOK
  <2>3. highest' \in [Minutes -> Nat]
    BY <1>8, <2>2 DEF Adjust, Typed, TypeOK
  <2>4. QED
    BY <1>8, <2>1, <2>3 DEF Adjust, Typed, TypeOK, RateInRange, environment
<1>9. QED
  BY <1>1, <1>2, <1>3, <1>4, <1>5, <1>6, <1>7, <1>8 DEF Next, Monitor

THEOREM TypeCorrect == Spec => []Typed
BY TypedInit, TypedNext, PTL DEF Spec

\* The limit never leaves its configured range.
THEOREM InRange == Spec => []RateInRange
<1>1. Typed => RateInRange
  BY DEF Typed
<1>2. QED
  BY TypeCorrect, <1>1, PTL

-----------------------------------------------------------------------------
(***************************************************************************)
(* The windows of a minute.  The count starts afresh only when a request   *)
(* finds another minute than the one before it did, so a minute has at     *)
(* most as many windows as visits, each of at most its highest limit.      *)
(***************************************************************************)
Full(m) == visits[m] * highest[m]

\* The windows before the one that is open, or could be opened now.
Earlier(m) == (visits[m] - 1) * highest[m]

Windows(m) ==
    /\ m = now \/ m = currentMinute => visits[m] >= 1
    /\ m = currentMinute =>
          requestCount <= highest[m] /\ admitted[m] <= Earlier(m) + requestCount
    /\ m = now /\ m # currentMinute => admitted[m] <= Earlier(m)
    /\ admitted[m] <= Full(m)

IInv ==
    /\ rateLimit <= highest[now]
    /\ \A m \in Minutes : Windows(m)

LEMMA Splits ==
    ASSUME NEW v \in Nat, NEW h \in Nat
    PROVE  (v - 1) * h + h = v * h /\ (v - 1) * h \in Int /\ v * h \in Nat
OBVIOUS

LEMMA Grows ==
    ASSUME NEW v \in Nat, NEW g \in Nat, NEW h \in Nat, g <= h
    PROVE  v * g <= v * h /\ (v >= 1 => (v - 1) * g <= (v - 1) * h)
OBVIOUS

LEMMA IInvInit == Init => IInv
<1> SUFFICES ASSUME Init PROVE IInv
  OBVIOUS
<1>1. InitialRate \in Nat /\ 0 \in Minutes
  BY RateAssumption DEF Minutes
<1>2. ASSUME NEW m \in Minutes, m # 0
      PROVE  Windows(m)
  BY <1>2 DEF Init, Windows, Full
<1>3. Windows(0)
  BY <1>1 DEF Init, Windows, Full, Earlier
<1>4. QED
  BY <1>1, <1>2, <1>3 DEF Init, IInv

\* What the types give for one minute.
LEMMA MinuteTypes ==
    ASSUME Typed, NEW m \in Minutes
    PROVE  /\ visits[m] \in Nat /\ highest[m] \in Nat /\ admitted[m] \in Nat
           /\ requestCount \in Nat /\ rateLimit \in Nat
           /\ Earlier(m) + highest[m] = Full(m)
           /\ Earlier(m) \in Int /\ Full(m) \in Nat
BY Splits, RateAssumption DEF Typed, TypeOK, RateInRange, Earlier, Full

LEMMA SetClockKeeps ==
    ASSUME Typed, IInv, NEW k \in Minutes, SetClock(k)
    PROVE  IInv'
<1>1. /\ now' = k /\ now \in Minutes /\ k # now
      /\ admitted' = admitted /\ requestCount' = requestCount
      /\ currentMinute' = currentMinute /\ rateLimit' = rateLimit
      /\ visits'[k] = visits[k] + 1
      /\ highest'[k] = Larger(highest[k], rateLimit)
      /\ \A m \in Minutes \ {k} :
            visits'[m] = visits[m] /\ highest'[m] = highest[m]
  BY DEF SetClock, limiter, Typed, TypeOK, Minutes
<1>2. /\ highest'[k] \in Nat /\ highest'[k] >= highest[k]
      /\ highest'[k] >= rateLimit
  BY <1>1, MinuteTypes DEF Larger
<1>3. ASSUME NEW m \in Minutes, m # k
      PROVE  Windows(m)'
  BY <1>1, <1>3 DEF IInv, Windows, Earlier, Full
<1>4. Windows(k)'
  <2>1. Earlier(k)' = visits[k] * highest'[k] /\ Earlier(k)' \in Nat
    BY <1>1, <1>2, MinuteTypes DEF Earlier
  <2>2. Full(k) <= Earlier(k)'
    BY <1>2, <2>1, MinuteTypes, Grows DEF Full
  <2>3. Full(k)' = Earlier(k)' + highest'[k]
    BY <1>1, <1>2, MinuteTypes, Splits DEF Full, Earlier
  <2>4. /\ admitted[k] <= Full(k)
        /\ k = currentMinute => requestCount <= highest[k]
    BY DEF IInv, Windows
  <2>5. QED
    BY <1>1, <1>2, <2>1, <2>2, <2>3, <2>4, MinuteTypes DEF Windows
<1>5. QED
  BY <1>1, <1>2, <1>3, <1>4 DEF IInv

\* The count a request finds belongs to the window that is open now.
LEMMA CountFound ==
    ASSUME Typed, IInv
    PROVE  /\ now \in Minutes /\ CountNow \in Nat /\ CountNow <= highest[now]
           /\ admitted[now] <= Earlier(now) + CountNow
           /\ visits[now] >= 1 /\ rateLimit <= highest[now]
<1>1. now \in Minutes
  BY DEF Typed, TypeOK
<1>2. Windows(now) /\ rateLimit <= highest[now]
  BY <1>1 DEF IInv
<1>3. QED
  BY <1>1, <1>2, MinuteTypes DEF CountNow, Windows

LEMMA AdmitKeeps ==
    ASSUME Typed, IInv, Admit
    PROVE  IInv'
<1>1. /\ now' = now /\ rateLimit' = rateLimit /\ highest' = highest
      /\ visits' = visits /\ currentMinute' = now /\ CountNow < rateLimit
      /\ requestCount' = CountNow + 1
      /\ now \in Minutes => admitted'[now] = admitted[now] + 1
      /\ \A m \in Minutes \ {now} : admitted'[m] = admitted[m]
  BY DEF Admit, Typed, TypeOK
<1>2. ASSUME NEW m \in Minutes, m # now
      PROVE  Windows(m)'
  BY <1>1, <1>2 DEF IInv, Windows, Full
<1>3. Windows(now)'
  <2>1. Earlier(now)' = Earlier(now) /\ Full(now)' = Full(now)
    BY <1>1 DEF Earlier, Full
  <2>2. QED
    BY <1>1, <2>1, CountFound, MinuteTypes DEF Windows
<1>4. QED
  BY <1>1, <1>2, <1>3 DEF IInv

LEMMA RefuseKeeps ==
    ASSUME Typed, IInv, Refuse
    PROVE  IInv'
<1>1. /\ now' = now /\ rateLimit' = rateLimit /\ highest' = highest
      /\ visits' = visits /\ currentMinute' = now /\ admitted' = admitted
      /\ requestCount' = CountNow
  BY DEF Refuse, history
<1>2. ASSUME NEW m \in Minutes, m # now
      PROVE  Windows(m)'
  BY <1>1, <1>2 DEF IInv, Windows, Full
<1>3. Windows(now)'
  <2>1. Earlier(now)' = Earlier(now) /\ Full(now)' = Full(now)
    BY <1>1 DEF Earlier, Full
  <2>2. QED
    BY <1>1, <2>1, CountFound, MinuteTypes DEF Windows
<1>4. QED
  BY <1>1, <1>2, <1>3 DEF IInv

LEMMA AdjustKeeps ==
    ASSUME Typed, Typed', IInv, Adjust
    PROVE  IInv'
<1>1. /\ now' = now /\ now \in Minutes /\ requestCount' = requestCount
      /\ visits' = visits /\ currentMinute' = currentMinute
      /\ admitted' = admitted /\ rateLimit' \in Nat
      /\ highest'[now] = Larger(highest[now], rateLimit')
      /\ \A m \in Minutes \ {now} : highest'[m] = highest[m]
  BY RateAssumption DEF Adjust, Typed, TypeOK, RateInRange
<1>2. /\ highest'[now] \in Nat /\ highest'[now] >= highest[now]
      /\ highest'[now] >= rateLimit'
  BY <1>1, MinuteTypes DEF Larger
<1>3. ASSUME NEW m \in Minutes, m # now
      PROVE  Windows(m)'
  BY <1>1, <1>3 DEF IInv, Windows, Earlier, Full
<1>4. Windows(now)'
  <2>1. visits[now] >= 1 /\ visits[now] \in Nat /\ highest[now] \in Nat
    BY <1>1, MinuteTypes DEF IInv, Windows
  <2>2. Earlier(now) <= Earlier(now)' /\ Full(now) <= Full(now)'
    BY <1>1, <1>2, <2>1, Grows DEF Earlier, Full
  <2>3. Earlier(now)' \in Int /\ Full(now)' \in Int
    BY <1>1, <1>2, <2>1 DEF Earlier, Full
  <2>4. QED
    BY <1>1, <1>2, <2>1, <2>2, <2>3, MinuteTypes DEF IInv, Windows
<1>5. QED
  BY <1>1, <1>2, <1>3, <1>4 DEF IInv

LEMMA IInvNext ==
    ASSUME Typed, Typed', IInv, [Next]_vars
    PROVE  IInv'
<1>1. CASE UNCHANGED <<now, limiter, history>>
  BY <1>1 DEF limiter, history, IInv, Windows, Earlier, Full
<1>2. CASE Next
  BY <1>1, <1>2, SetClockKeeps, AdmitKeeps, RefuseKeeps, AdjustKeeps
     DEF Next, Monitor, Change, Query, Get
<1>3. QED
  BY <1>1, <1>2 DEF vars, limiter, history

\* No minute admits more than its highest limit for each visit of the clock.
THEOREM Admitted == Spec => []AdmittedWithinLimit
<1>1. IInv => AdmittedWithinLimit
  BY DEF IInv, Windows, Full, AdmittedWithinLimit
<1>2. QED
  BY TypeCorrect, IInvInit, IInvNext, <1>1, PTL DEF Spec

(***************************************************************************)
(* The limit is kept (adaptive_rate_limiter/main.go, lines 41-164), with the *)
(* two parts above and the types.                                          *)
(***************************************************************************)
THEOREM Limits == Spec => []LimitKept
<1>1. Typed => TypeOK
  BY DEF Typed
<1>2. QED
  BY <1>1, TypeCorrect, Admitted, InRange, PTL DEF LimitKept

-----------------------------------------------------------------------------
(***************************************************************************)
(* Degradation, for any number of alerts: what its gauge shows is the flag,*)
(* unless opposite handlers have overlapped.                               *)
(***************************************************************************)
\* The types of Degradation.
LEMMA AlertTypeInit == A!Init => A!DegradationTypeOK
BY DEF A!Init, A!DegradationTypeOK

LEMMA AlertTypeNext == A!DegradationTypeOK /\ [A!Next]_A!vars => A!DegradationTypeOK'
<1> SUFFICES ASSUME A!DegradationTypeOK, [A!Next]_A!vars
             PROVE  A!DegradationTypeOK'
  OBVIOUS
<1> USE DEF A!DegradationTypeOK
<1>1. ASSUME NEW a \in Alerts, NEW s \in {"firing", "resolved"}, A!Store(a, s)
      PROVE  A!DegradationTypeOK'
  <2>1. raced' \in BOOLEAN
    BY <1>1, ZenonT(20) DEF A!Store
  <2>2. QED
    BY <1>1, <2>1 DEF A!Store, A!Value
<1>2. ASSUME NEW a \in Alerts, A!Ignore(a)
      PROVE  A!DegradationTypeOK'
  BY <1>2 DEF A!Ignore
<1>3. ASSUME NEW a \in Alerts, A!SetGauge(a)
      PROVE  A!DegradationTypeOK'
  BY <1>3 DEF A!SetGauge, A!Setting, A!Value
<1>4. CASE UNCHANGED A!vars
  BY <1>4 DEF A!vars
<1>5. QED
  BY <1>1, <1>2, <1>3, <1>4 DEF A!Next

(***************************************************************************)
(* As long as no handlers of opposite alerts have overlapped, those that   *)
(* have still to set the gauge will all set it to the flag, and where      *)
(* there are none it is set already.                                       *)
(***************************************************************************)
AlertIInv ==
    ~raced =>
        /\ \A a \in Alerts : A!Setting(a) => enabled = A!Value(status[a])
        /\ A!Quiet => gauge = enabled

LEMMA AlertIInvInit == A!Init => AlertIInv
BY DEF A!Init, AlertIInv, A!Setting

LEMMA AlertIInvNext == A!DegradationTypeOK /\ AlertIInv /\ [A!Next]_A!vars => AlertIInv'
<1> SUFFICES ASSUME A!DegradationTypeOK, AlertIInv, [A!Next]_A!vars, ~raced'
             PROVE  /\ \A b \in Alerts : A!Setting(b)' => enabled' = A!Value(status'[b])
                    /\ A!Quiet' => gauge' = enabled'
  BY DEF AlertIInv, A!Setting, A!Value
<1> USE DEF A!DegradationTypeOK, A!Quiet, A!Setting
\* The new handler is alone with handlers of its own kind of alert.
<1>1. ASSUME NEW a \in Alerts, NEW s \in {"firing", "resolved"}, A!Store(a, s)
      PROVE  /\ \A b \in Alerts : A!Setting(b)' => enabled' = A!Value(status'[b])
             /\ A!Quiet' => gauge' = enabled'
  <2>1. \A b \in Alerts : A!Setting(b) => status[b] = s
    BY <1>1 DEF A!Store
  <2>2. \A b \in Alerts : A!Setting(b)' => status'[b] = s
    BY <1>1, <2>1 DEF A!Store
  <2>3. ~A!Quiet'
    BY <1>1 DEF A!Store
  <2>4. QED
    BY <1>1, <2>2, <2>3 DEF A!Store
<1>2. ASSUME NEW a \in Alerts, A!Ignore(a)
      PROVE  /\ \A b \in Alerts : A!Setting(b)' => enabled' = A!Value(status'[b])
             /\ A!Quiet' => gauge' = enabled'
  BY <1>2 DEF A!Ignore, AlertIInv
\* It sets the gauge to the flag.
<1>3. ASSUME NEW a \in Alerts, A!SetGauge(a)
      PROVE  /\ \A b \in Alerts : A!Setting(b)' => enabled' = A!Value(status'[b])
             /\ A!Quiet' => gauge' = enabled'
  BY <1>3 DEF A!SetGauge, AlertIInv
<1>4. CASE UNCHANGED A!vars
  BY <1>4 DEF A!vars, AlertIInv
<1>5. QED
  BY <1>1, <1>2, <1>3, <1>4 DEF A!Next

(***************************************************************************)
(* The gauge tells the flag whenever no handler is at work, unless         *)
(* handlers of opposite alerts have overlapped, however many alerts there  *)
(* are (gd_example/main.go, lines 63-82).                                  *)
(***************************************************************************)
THEOREM Shown == A!Spec => []AlertsSound
<1>1. A!DegradationTypeOK /\ AlertIInv => AlertsSound
  BY DEF A!DegradationTypeOK, AlertIInv, AlertsSound, A!AlertsSound, A!DisagreeNeedsRace
<1>2. QED
  BY AlertTypeInit, AlertTypeNext, AlertIInvInit, AlertIInvNext, <1>1, PTL DEF A!Spec

-----------------------------------------------------------------------------
(* The circuit breaker (CircuitBreaker, instance B).                       *)

BreakerTyped ==
    /\ call \in Nat /\ clock \in Nat /\ expiry \in Int /\ openedAt \in Int
    /\ counted \in Nat /\ failures \in Nat /\ inARow \in Nat /\ streak \in Nat
    /\ state \in {"closed", "open", "half-open"}

Started == expiry - Interval

\* How many sleeps of this interval went by without a call: only the pause
\* makes it more than none.
Gap == clock - Started - 1 - counted

\* Failures of the streak from before this interval.
Older == IF streak > failures THEN streak - failures ELSE 0

(***************************************************************************)
(* A closed breaker.  Counts fit in the interval; it has not tripped after *)
(* its last failure; where the streak is older than the interval, each     *)
(* call of the interval has failed.  Only the one interval that the pause  *)
(* cuts short can end without tripping, after one full one.                *)
(***************************************************************************)
ClosedInv ==
    state = "closed" =>
        /\ failures <= counted /\ counted <= clock - Started /\ counted <= Interval + 1
        /\ streak > 0 => counted <= MinRequests \/ failures * 100 < Ratio * counted
        /\ Older > 0 => counted = failures
        /\ Gap > 0 => call >= Loop
        /\ Older <= IF call < Loop \/ Gap > 0 THEN MinRequests ELSE 2 * MinRequests

\* An open breaker has not been open for longer than the time since, and a
\* half-open one has had only successes, less than close it.
NotClosedInv ==
    /\ state # "closed" => streak = 0
    /\ state = "open" => expiry < clock + Timeout
    /\ state = "half-open" => counted = inARow /\ counted < MaxRequests

\* After the pause no open breaker is still open.
AfterPause == call = Loop /\ state = "open" => expiry < clock

QuietInv == openedAt >= 0 /\ clock <= openedAt + Timeout => state = "open" /\ expiry = openedAt + Timeout

BreakerInv ==
    /\ BreakerTyped /\ ClosedInv /\ NotClosedInv /\ AfterPause /\ QuietInv
    /\ B!SecondLoopBegins

LEMMA BreakerNumbers ==
    /\ Loop \in Nat /\ Interval \in Nat /\ Timeout \in Nat /\ MinRequests \in Nat
    /\ Ratio \in Nat /\ Pause \in Nat /\ MaxRequests \in Nat /\ MaxRequests > 0
    /\ MinRequests < Interval /\ Ratio <= 100 /\ Timeout <= Pause
    /\ Ratio * (Interval + 1) <= 100 * (MinRequests + 1)
BY BreakerAssumption

LEMMA BreakerInvInit == B!Init => BreakerInv
<1> SUFFICES ASSUME B!Init PROVE BreakerInv
  OBVIOUS
<1> USE BreakerNumbers DEF B!Init
<1>1. BreakerTyped
  BY -1 \in Int DEF BreakerTyped
<1>2. ClosedInv
  BY DEF ClosedInv, Gap, Older, Started
<1>3. NotClosedInv /\ AfterPause /\ QuietInv /\ B!SecondLoopBegins
  BY DEF NotClosedInv, AfterPause, QuietInv, B!SecondLoopBegins
<1>4. QED BY <1>1, <1>2, <1>3 DEF BreakerInv

\* A factor that grows makes the product grow.
LEMMA ProductGrows == \A a, b, c \in Nat : a <= b => c * a <= c * b
<1> SUFFICES ASSUME NEW a \in Nat, NEW b \in Nat, NEW c \in Nat, a <= b
             PROVE  c * a <= c * b
  OBVIOUS
<1>1. PICK k \in Nat : b = a + k
  BY b - a \in Nat
<1>2. c * b = c * a + c * k /\ c * k \in Nat /\ c * a \in Nat
  BY <1>1
<1>3. QED BY <1>2

\* At most MinRequests failures are counted while a closed breaker stays so.
LEMMA FewFailures ==
    ASSUME BreakerInv, state = "closed", streak > 0
    PROVE  failures <= MinRequests
<1> USE BreakerNumbers DEF BreakerInv, BreakerTyped, ClosedInv
<1>1. CASE counted <= MinRequests
  BY <1>1
<1>2. CASE failures * 100 < Ratio * counted
  <2>1. Ratio * counted <= Ratio * (Interval + 1)
    BY ProductGrows, Interval + 1 \in Nat
  <2>2. Ratio * counted \in Nat /\ Ratio * (Interval + 1) \in Nat
    OBVIOUS
  <2>3. failures * 100 < 100 * (MinRequests + 1)
    BY <1>2, <2>1, <2>2
  <2>4. QED BY <2>3
<1>3. QED BY <1>1, <1>2

LEMMA StreakKept == BreakerInv => B!StreakBounded
<1> SUFFICES ASSUME BreakerInv PROVE B!StreakBounded
  OBVIOUS
<1> USE BreakerNumbers DEF B!StreakBounded
<1>1. CASE streak = 0
  BY <1>1
<1>2. CASE streak > 0
  <2>1. state = "closed"
    BY <1>2 DEF BreakerInv, NotClosedInv
  <2>2. failures <= MinRequests
    BY <1>2, <2>1, FewFailures
  <2>3. Older <= IF call < Loop \/ Gap > 0 THEN MinRequests ELSE 2 * MinRequests
    BY <2>1 DEF BreakerInv, ClosedInv
  <2>4. QED BY <2>2, <2>3 DEF Older, BreakerInv, BreakerTyped
<1>3. QED BY <1>1, <1>2 DEF BreakerInv, BreakerTyped

\* Time passes with every call; only the pause is longer than a sleep.
Passes ==
    /\ call' = call + 1
    /\ \/ clock' = clock + 1
       \/ clock' = clock + 1 + Pause /\ call' = Loop

LEMMA ElapsePasses == call' = call + 1 /\ B!Elapse => Passes
BY DEF B!Elapse, Passes

LEMMA RefusedKeeps == BreakerInv /\ B!Refuse => BreakerInv'
<1> SUFFICES ASSUME BreakerInv, B!Refuse PROVE BreakerInv'
  OBVIOUS
<1> USE BreakerNumbers DEF BreakerInv, BreakerTyped
<1>1. /\ Passes /\ calledIt' = FALSE
      /\ UNCHANGED <<state, expiry, counted, failures, inARow, openedAt, streak>>
  BY ElapsePasses DEF B!Refuse
<1>2. state # "closed"
  BY DEF B!Refuse, B!Refused, B!Found
<1>3. BreakerTyped' /\ ClosedInv'
  BY <1>1, <1>2 DEF ClosedInv, Passes
<1>4. NotClosedInv' /\ AfterPause'
  <2>1. AfterPause'
    <3>1. state = "open" => expiry < clock + Timeout
      BY DEF NotClosedInv
    <3>2. call' = Loop => clock' = clock + 1 + Pause
      BY DEF B!Refuse, B!Elapse
    <3>3. QED BY <1>1, <3>1, <3>2 DEF AfterPause
  <2>2. QED BY <1>1, <2>1 DEF NotClosedInv, Passes
<1>5. QuietInv'
  BY <1>1 DEF QuietInv, Passes
<1>6. call # Loop
  BY DEF B!Refuse, B!Refused, B!Found, B!Counted, B!Anew, B!Expired, AfterPause, NotClosedInv
<1>7. B!SecondLoopBegins'
  BY <1>1, <1>6 DEF B!SecondLoopBegins, Passes
<1>8. QED BY <1>3, <1>4, <1>5, <1>7

\* A call that is made: the quiet time of an open breaker is over.
LEMMA MadeIsLoud ==
    ASSUME BreakerInv, ~B!Refused
    PROVE  /\ ~(openedAt >= 0 /\ clock <= openedAt + Timeout)
           /\ state = "open" => B!Expired
BY BreakerNumbers DEF BreakerInv, BreakerTyped, QuietInv, B!Refused, B!Found, B!Expired

LEMMA SucceedKeeps == BreakerInv /\ B!Succeed => BreakerInv'
<1> SUFFICES ASSUME BreakerInv, B!Succeed PROVE BreakerInv'
  OBVIOUS
<1> USE BreakerNumbers DEF BreakerInv, BreakerTyped
<1>1. Passes /\ calledIt' = TRUE /\ streak' = 0 /\ openedAt' = openedAt
  BY ElapsePasses DEF B!Succeed
<1>2. ~(openedAt >= 0 /\ clock <= openedAt + Timeout) /\ (state = "open" => B!Expired)
  BY MadeIsLoud DEF B!Succeed
<1>3. QuietInv' /\ B!SecondLoopBegins'
  BY <1>1, <1>2 DEF QuietInv, B!SecondLoopBegins, Passes
<1>4. CASE B!Found = "half-open" /\ B!Counted(inARow) + 1 >= MaxRequests
  <2>1. state' = "closed" /\ counted' = 0 /\ failures' = 0 /\ inARow' = 0 /\ expiry' = clock + Interval
    BY <1>4 DEF B!Succeed, B!Enter
  <2>2. BreakerTyped' /\ NotClosedInv' /\ AfterPause'
    BY <1>1, <2>1 DEF Passes, NotClosedInv, AfterPause
  <2>3. ClosedInv'
    BY <1>1, <2>1 DEF Passes, ClosedInv, Gap, Older, Started
  <2>4. QED BY <1>3, <2>2, <2>3
<1>5. CASE ~(B!Found = "half-open" /\ B!Counted(inARow) + 1 >= MaxRequests)
  <2>1. /\ state' = B!Found
        /\ counted' = B!Counted(counted) + 1
        /\ failures' = B!Counted(failures)
        /\ inARow' = B!Counted(inARow) + 1
        /\ expiry' = IF B!Anew /\ B!Found = "closed" THEN clock + Interval ELSE expiry
    BY <1>5 DEF B!Succeed, B!Stay, B!Counted
  <2>2. state' # "open"
    BY <1>2, <2>1 DEF B!Found
  <2>3. BreakerTyped'
    BY <1>1, <2>1 DEF Passes, B!Found, B!Counted
  <2>4. AfterPause' /\ NotClosedInv'
    <3>1. CASE state = "closed"
      BY <3>1, <1>1, <2>1, <2>2 DEF AfterPause, NotClosedInv, B!Found
    <3>2. CASE state = "half-open"
      BY <3>2, <1>1, <1>5, <2>1, <2>2 DEF AfterPause, NotClosedInv, B!Found, B!Counted, B!Anew
    <3>3. CASE state = "open"
      BY <3>3, <1>1, <1>2, <1>5, <2>1, <2>2 DEF AfterPause, NotClosedInv, B!Found, B!Counted, B!Anew
    <3>4. QED BY <3>1, <3>2, <3>3
  <2>5. ClosedInv'
    <3>1. CASE state # "closed"
      BY <3>1, <2>1 DEF ClosedInv, B!Found
    <3>2. CASE state = "closed" /\ ~B!Expired
      <4>1. state' = "closed" /\ counted' = counted + 1 /\ failures' = failures /\ expiry' = expiry
        BY <3>2, <2>1 DEF B!Found, B!Counted, B!Anew
      <4>2. clock <= expiry
        BY <3>2 DEF B!Expired
      <4>3. /\ failures <= counted /\ counted <= clock - Started
            /\ Gap > 0 => call >= Loop
        BY <3>2 DEF ClosedInv
      <4>4. QED BY <1>1, <4>1, <4>2, <4>3 DEF ClosedInv, Passes, Gap, Older, Started
    <3>3. CASE state = "closed" /\ B!Expired
      <4>1. state' = "closed" /\ counted' = 1 /\ failures' = 0 /\ expiry' = clock + Interval
        BY <3>3, <2>1 DEF B!Found, B!Counted, B!Anew
      <4>2. QED BY <1>1, <4>1 DEF ClosedInv, Passes, Gap, Older, Started
    <3>4. QED BY <3>1, <3>2, <3>3
  <2>6. QED BY <1>3, <2>3, <2>4, <2>5
<1>6. QED BY <1>4, <1>5

LEMMA FailKeeps == BreakerInv /\ B!Fail => BreakerInv'
<1> SUFFICES ASSUME BreakerInv, B!Fail PROVE BreakerInv'
  OBVIOUS
<1> USE BreakerNumbers DEF BreakerInv, BreakerTyped
<1>1. Passes /\ calledIt' = TRUE
  BY ElapsePasses DEF B!Fail
<1>2. ~(openedAt >= 0 /\ clock <= openedAt + Timeout) /\ (state = "open" => B!Expired)
  BY MadeIsLoud DEF B!Fail
<1>3. B!SecondLoopBegins'
  BY <1>1 DEF B!SecondLoopBegins
<1> DEFINE Opens == B!Found = "half-open" \/ B!Trips(B!Counted(counted) + 1, B!Counted(failures) + 1)
<1>4. CASE Opens
  <2>1. /\ state' = "open" /\ counted' = 0 /\ failures' = 0 /\ inARow' = 0
        /\ expiry' = clock + Timeout /\ openedAt' = clock /\ streak' = 0
    BY <1>4 DEF B!Fail, B!Enter
  <2>2. BreakerTyped' /\ ClosedInv' /\ NotClosedInv'
    BY <1>1, <2>1 DEF Passes, ClosedInv, NotClosedInv
  <2>3. AfterPause'
    <3>1. call' = Loop => clock' = clock + 1 + Pause
      BY DEF B!Fail, B!Elapse
    <3>2. QED BY <2>1, <3>1 DEF AfterPause
  <2>4. QuietInv'
    BY <2>1 DEF QuietInv
  <2>5. QED BY <1>3, <2>2, <2>3, <2>4
<1>5. CASE ~Opens
  <2>1. /\ state' = B!Found
        /\ counted' = B!Counted(counted) + 1
        /\ failures' = B!Counted(failures) + 1
        /\ inARow' = 0
        /\ expiry' = IF B!Anew /\ B!Found = "closed" THEN clock + Interval ELSE expiry
        /\ streak' = streak + 1 /\ openedAt' = openedAt
    BY <1>5 DEF B!Fail, B!Stay
  <2>2. state = "closed" /\ state' = "closed"
    BY <1>2, <1>5, <2>1 DEF B!Found
  <2>3. BreakerTyped'
    BY <1>1, <2>1, <2>2 DEF Passes, B!Counted
  <2>4. AfterPause' /\ NotClosedInv' /\ QuietInv'
    BY <1>1, <1>2, <2>1, <2>2 DEF AfterPause, NotClosedInv, QuietInv, Passes
  <2>5. counted' <= MinRequests \/ failures' * 100 < Ratio * counted'
    <3>1. ~B!Trips(counted', failures')
      BY <1>5, <2>1
    <3>2. Ratio * counted' \in Nat
      <4>1. \A a, b \in Nat : a * b \in Nat
        OBVIOUS
      <4>2. QED BY <2>3, <4>1
    <3>3. ~(counted' > MinRequests /\ failures' * 100 >= Ratio * counted')
      BY <3>1 DEF B!Trips
    <3> DEFINE Product == Ratio * counted'
    <3>4. Product \in Nat /\ counted' \in Nat /\ failures' \in Nat
      BY <2>3, <3>2
    <3>5. ~(counted' > MinRequests /\ failures' * 100 >= Product)
      BY <3>3
    <3> HIDE DEF Product
    <3>6. counted' <= MinRequests \/ failures' * 100 < Product
      <4>1. \A a, b, c, d \in Nat : ~(a > b /\ c * 100 >= d) => a <= b \/ c * 100 < d
        OBVIOUS
      <4>2. QED BY <3>4, <3>5, <4>1
    <3>7. QED BY <3>6 DEF Product
  <2>6. ClosedInv'
    <3>1. CASE ~B!Expired
      <4>1. counted' = counted + 1 /\ failures' = failures + 1 /\ expiry' = expiry
        BY <3>1, <2>1 DEF B!Counted, B!Anew
      <4>2. clock <= expiry
        BY <3>1 DEF B!Expired
      <4>3. /\ failures <= counted /\ counted <= clock - Started
            /\ Older > 0 => counted = failures
            /\ Gap > 0 => call >= Loop
            /\ Older <= IF call < Loop \/ Gap > 0 THEN MinRequests ELSE 2 * MinRequests
        BY <2>2 DEF ClosedInv
      <4>4. Older' = Older
        BY <2>1, <4>1 DEF Older
      <4>5. /\ Gap' > 0 => call' >= Loop
            /\ ~(call < Loop) /\ ~(Gap > 0) => ~(call' < Loop) /\ ~(Gap' > 0)
        BY <1>1, <4>1, <4>3 DEF Passes, Gap, Started
      <4>6. Older' <= IF call' < Loop \/ Gap' > 0 THEN MinRequests ELSE 2 * MinRequests
        BY <4>3, <4>4, <4>5 DEF Older
      <4>7. failures' <= counted' /\ counted' <= clock' - Started' /\ counted' <= Interval + 1
        BY <1>1, <4>1, <4>2, <4>3 DEF Passes, Started
      <4>8. QED BY <2>5, <4>1, <4>3, <4>4, <4>5, <4>6, <4>7 DEF ClosedInv
    <3>2. CASE B!Expired
      <4>1. counted' = 1 /\ failures' = 1 /\ expiry' = clock + Interval
        BY <3>2, <2>1, <2>2 DEF B!Counted, B!Anew
      <4>2. Older' = streak
        BY <2>1, <4>1 DEF Older
      <4>3. Gap' > 0 => call' = Loop
        BY <1>1, <4>1 DEF Passes, Gap, Started
      <4>4. Older > 0 => Gap > 0
        <5> SUFFICES ASSUME Older > 0, ~(Gap > 0) PROVE FALSE
          OBVIOUS
        <5>1. streak > 0
          BY DEF Older
        <5>2. counted <= MinRequests
          BY <5>1, <2>2, FewFailures DEF ClosedInv
        <5>3. clock > expiry
          BY <3>2 DEF B!Expired
        <5>4. QED BY <5>2, <5>3 DEF Gap, Started
      <4>5. streak <= 2 * MinRequests /\ (~(Gap > 0) => streak <= MinRequests)
        <5>1. CASE streak = 0
          BY <5>1
        <5>2. CASE streak > 0
          <6>1. failures <= MinRequests
            BY <5>2, <2>2, FewFailures
          <6>2. Gap > 0 => Older <= MinRequests
            BY <2>2 DEF ClosedInv
          <6>3. QED BY <4>4, <6>1, <6>2 DEF Older
        <5>3. QED BY <5>1, <5>2
      <4>6. Gap > 0 => ~(call' < Loop) /\ ~(Gap' > 0)
        <5>1. Gap > 0 => call >= Loop
          BY <2>2 DEF ClosedInv
        <5>2. QED BY <1>1, <4>3, <5>1 DEF Passes
      <4>7. Older' <= IF call' < Loop \/ Gap' > 0 THEN MinRequests ELSE 2 * MinRequests
        BY <4>2, <4>5, <4>6
      <4>8. failures' <= counted' /\ counted' <= clock' - Started' /\ counted' <= Interval + 1
        BY <1>1, <4>1 DEF Passes, Started
      <4>9. QED BY <2>5, <4>1, <4>3, <4>7, <4>8, <2>3 DEF ClosedInv
    <3>3. QED BY <3>1, <3>2
  <2>7. QED BY <1>3, <2>3, <2>4, <2>6
<1>6. QED BY <1>4, <1>5

(***************************************************************************)
(* The breaker spares a service that fails, soon enough, and lets the      *)
(* second loop begin, with any settings that BreakerAssumption allows      *)
(* (circuit_breaker/main.go, lines 23-68).                                 *)
(***************************************************************************)
THEOREM Spared == B!Spec => BreakerSound
<1>1. BreakerInv /\ [B!Next]_(B!breakerVars) => BreakerInv'
  <2>1. BreakerInv /\ UNCHANGED B!breakerVars => BreakerInv'
    BY DEF B!breakerVars, BreakerInv, BreakerTyped, ClosedInv, NotClosedInv, AfterPause, QuietInv,
           Gap, Older, Started, B!SecondLoopBegins
  <2>2. QED BY <2>1, RefusedKeeps, SucceedKeeps, FailKeeps DEF B!Next
<1>2. BreakerInv => B!StreakBounded /\ B!SecondLoopBegins
  BY StreakKept DEF BreakerInv
<1>3. BreakerInv /\ [B!Next]_(B!breakerVars)
      => [clock <= openedAt + Timeout /\ openedAt >= 0 /\ call' # call => ~calledIt']_(B!breakerVars)
  <2> SUFFICES ASSUME BreakerInv, B!Next, clock <= openedAt + Timeout, openedAt >= 0
               PROVE  ~calledIt'
    BY DEF B!breakerVars
  <2>1. B!Refused
    BY MadeIsLoud
  <2>2. QED BY <2>1 DEF B!Next, B!Refuse, B!Succeed, B!Fail
<1>4. QED BY BreakerInvInit, <1>1, <1>2, <1>3, PTL DEF B!Spec, BreakerSound, B!BreakerSound, B!OpenIsQuiet

-----------------------------------------------------------------------------
(* The reservoirs of the X-Ray sampler (XRaySampler, instance X).          *)

Reservoirs == [expiresAt : Int, quota : Nat, balance : Int, lastTick : Int, due : Int]
Counts == [matched : Nat, sampled : Nat, borrowed : Nat]

\* What so many seconds are worth at the full credit.
Worth(seconds) == X!Credit * seconds

(***************************************************************************)
(* The credit up to a tick t of a reservoir: as much as its quota for each *)
(* second until m, when the quota expires, and 1 for each second after.    *)
(***************************************************************************)
Rises(m, t) == IF t <= m THEN Worth(t + 1 + replaced) ELSE Worth(m + 1 + replaced) + (t - m)

\* What is given and what is left is within the credit, for a reservoir no
\* call of which was made before c.
CreditedFrom(c, v, given) ==
    LET m == IF v.expiresAt = X!Never THEN c ELSE v.expiresAt
    IN  /\ c <= m
        /\ IF v.lastTick = X!Never THEN given <= Worth(c + replaced)
                                   ELSE given + v.balance <= Rises(m, v.lastTick)

LEMMA CreditIsMost ==
    X!Credit \in Nat /\ X!Credit >= 1 /\ MaxQuota \in Nat /\ MaxQuota <= X!Credit
BY XRayAssumption DEF X!Credit

LEMMA WorthAdds ==
    /\ \A a \in Int : Worth(a) \in Int
    /\ \A a, b \in Int : Worth(a) = Worth(b) + Worth(a - b)
    /\ \A a, b \in Int : a >= b => Worth(a) >= Worth(b) + (a - b)
    /\ \A a, b \in Int : Worth(a) = Worth(b) + (a - b) * X!Credit
<1> DEFINE q == X!Credit
<1>1. q \in Nat /\ q >= 1 /\ (\A a : Worth(a) = q * a)
  BY CreditIsMost DEF Worth
<1> HIDE DEF q
<1>2. \A a \in Int : q * a \in Int
  BY <1>1
<1>3. \A a, b \in Int : q * a = q * b + q * (a - b) /\ q * (a - b) = (a - b) * q
  BY <1>1
<1>4. ASSUME NEW k \in Nat PROVE q * k >= k
  <2>1. PICK p \in Nat : q = p + 1
    BY <1>1, q - 1 \in Nat
  <2>2. q * k = p * k + k /\ p * k \in Nat
    BY <2>1
  <2>3. QED BY <2>2
<1>5. ASSUME NEW a \in Int, NEW b \in Int, a >= b PROVE q * a >= q * b + (a - b)
  <2>1. a - b \in Nat
    BY <1>5
  <2>2. q * (a - b) >= a - b
    BY <1>4, <2>1
  <2> DEFINE qa == q * a
             qb == q * b
             rest == q * (a - b)
  <2>3. qa = qb + rest /\ rest >= a - b
    BY <1>3, <2>2
  <2>4. \A d \in Int : q * d \in Int
    BY <1>2
  <2>5. a - b \in Int /\ b \in Int
    BY <2>1
  <2>6. rest \in Int /\ qb \in Int
    BY <2>4, <2>5
  <2> HIDE DEF qa, qb, rest
  <2>7. qa >= qb + (a - b)
    BY <2>3, <2>5, <2>6
  <2>8. QED BY <2>7 DEF qa, qb
<1>6. QED BY <1>1, <1>2, <1>3, <1>5 DEF q

\* No time is worth more than its seconds at the full credit.
LEMMA RisesBelow ==
    ASSUME NEW m \in Int, NEW t \in Int, replaced \in Nat
    PROVE  Rises(m, t) \in Int /\ Rises(m, t) <= Worth(t + 1 + replaced)
<1>1. CASE t <= m
  BY <1>1, WorthAdds DEF Rises
<1>2. CASE t > m
  <2>1. Worth(t + 1 + replaced) >= Worth(m + 1 + replaced) + ((t + 1 + replaced) - (m + 1 + replaced))
    BY <1>2, WorthAdds
  <2>2. Worth(m + 1 + replaced) \in Int /\ Worth(t + 1 + replaced) \in Int
    BY WorthAdds
  <2>3. QED BY <1>2, <2>1, <2>2 DEF Rises
<1>3. QED BY <1>1, <1>2

\* A later tick of a quota is worth the full credit for each second, and an
\* earlier one takes it back.
LEMMA RisesByQuota ==
    ASSUME NEW m \in Int, NEW t \in Int, NEW s \in Int, s <= m, replaced \in Nat
    PROVE  Rises(m, s) >= Rises(m, t) + (s - t) * X!Credit
<1>1. Rises(m, s) = Worth(s + 1 + replaced)
  BY DEF Rises
<1>2. Rises(m, t) <= Worth(t + 1 + replaced) /\ Rises(m, t) \in Int
  BY RisesBelow
<1>3. Worth(s + 1 + replaced) = Worth(t + 1 + replaced) + (s - t) * X!Credit
  <2>1. (s + 1 + replaced) - (t + 1 + replaced) = s - t
    OBVIOUS
  <2>2. Worth(s + 1 + replaced) = Worth(t + 1 + replaced) + ((s + 1 + replaced) - (t + 1 + replaced)) * X!Credit
    BY WorthAdds
  <2>3. QED BY <2>1, <2>2
<1>4. (s - t) * X!Credit \in Int /\ Worth(t + 1 + replaced) \in Int
  BY CreditIsMost, WorthAdds
<1>5. QED BY <1>1, <1>2, <1>3, <1>4

\* A borrowed tick is worth one at most, and an earlier one takes back each
\* second.
LEMMA RisesByOne ==
    ASSUME NEW m \in Int, NEW t \in Int, NEW s \in Int, s >= m, replaced \in Nat
    PROVE  Rises(m, s) >= Rises(m, t) + X!Smaller(s - t, 1)
<1>1. Worth(m + 1 + replaced) \in Int /\ Worth(t + 1 + replaced) \in Int
  BY WorthAdds
<1>2. Rises(m, s) = Worth(m + 1 + replaced) + (s - m)
  BY <1>1 DEF Rises
<1>3. CASE t >= m
  <2>1. Rises(m, t) = Worth(m + 1 + replaced) + (t - m)
    BY <1>1, <1>3 DEF Rises
  <2>2. QED BY <1>1, <1>2, <2>1 DEF X!Smaller
<1>4. CASE t < m
  <2>1. Rises(m, t) = Worth(t + 1 + replaced)
    BY <1>4 DEF Rises
  <2>2. Worth(m + 1 + replaced) >= Worth(t + 1 + replaced) + ((m + 1 + replaced) - (t + 1 + replaced))
    BY <1>4, WorthAdds
  <2>3. QED BY <1>1, <1>2, <1>4, <2>1, <2>2 DEF X!Smaller
<1>5. QED BY <1>3, <1>4

\* The first tick is worth a second at the full credit.
LEMMA RisesAtFirst ==
    ASSUME NEW m \in Int, NEW c \in Int, NEW s \in Int, c <= s, c <= m, replaced \in Nat
    PROVE  Rises(m, s) >= Worth(c + replaced) + X!Credit
<1> DEFINE a == IF s <= m THEN s ELSE m
<1>1. a \in Int /\ a >= c /\ (s <= m => a = s) /\ (s > m => a = m)
  OBVIOUS
<1> HIDE DEF a
<1>2. Worth(c + 1 + replaced) = Worth(c + replaced) + X!Credit
  <2>1. Worth(c + 1 + replaced) = Worth(c + replaced) + ((c + 1 + replaced) - (c + replaced)) * X!Credit
    BY WorthAdds
  <2>2. (c + 1 + replaced) - (c + replaced) = 1 /\ 1 * X!Credit = X!Credit
    BY CreditIsMost
  <2>3. QED BY <2>1, <2>2
<1>3. Worth(a + 1 + replaced) >= Worth(c + 1 + replaced) + ((a + 1 + replaced) - (c + 1 + replaced))
  BY <1>1, WorthAdds
<1>4. /\ Worth(a + 1 + replaced) \in Int /\ Worth(c + 1 + replaced) \in Int
      /\ Worth(c + replaced) \in Int /\ X!Credit \in Int
  <2>1. a + 1 + replaced \in Int /\ c + 1 + replaced \in Int /\ c + replaced \in Int
    BY <1>1
  <2>2. \A k \in Int : Worth(k) \in Int
    BY WorthAdds
  <2>3. /\ Worth(a + 1 + replaced) \in Int /\ Worth(c + 1 + replaced) \in Int
        /\ Worth(c + replaced) \in Int
    BY <2>1, <2>2, Zenon
  <2>4. QED BY <2>3, CreditIsMost
<1>5. Rises(m, s) \in Int /\ Rises(m, s) >= Worth(a + 1 + replaced)
  <2>1. CASE s <= m
    <3>1. Rises(m, s) = Worth(a + 1 + replaced)
      BY <1>1, <2>1 DEF Rises
    <3>2. QED BY <1>4, <3>1
  <2>2. CASE s > m
    <3>1. Rises(m, s) = Worth(a + 1 + replaced) + (s - m)
      BY <1>1, <2>2 DEF Rises
    <3>2. QED BY <1>4, <2>2, <3>1
  <2>3. QED BY <2>1, <2>2
<1>6. QED BY <1>1, <1>2, <1>3, <1>4, <1>5

-----------------------------------------------------------------------------
\* What a step makes of a reservoir v: another credit.
Recredited(v, w) ==
    w \in Reservoirs /\ w.expiresAt = v.expiresAt /\ w.quota = v.quota /\ w.due = v.due

\* The second up to which a quota counts, if the first call is not before c.
Until(c, v) == IF v.expiresAt = X!Never THEN c ELSE v.expiresAt

LEMMA CreditedTick ==
    ASSUME NEW v \in Reservoirs, NEW w, Recredited(v, w), NEW c, NEW given,
           w.lastTick # X!Never, c <= Until(c, v),
           given + w.balance <= Rises(Until(c, v), w.lastTick)
    PROVE  CreditedFrom(c, w, given)
BY DEF CreditedFrom, Recredited, Until

LEMMA UntilIsInt ==
    ASSUME NEW v \in Reservoirs, NEW c \in Int
    PROVE  Until(c, v) \in Int
BY DEF Until, Reservoirs

\* A first tick opens the reservoir with the credit of a second at most.
LEMMA OpenedInCredit ==
    ASSUME NEW v \in Reservoirs, NEW s \in Nat, NEW c \in Nat, c <= s, replaced \in Nat,
           NEW borrow \in BOOLEAN, v.quota <= MaxQuota, NEW given \in Int, CreditedFrom(c, v, given),
           NEW w, w = X!Opened(v, s, borrow)
    PROVE  /\ Recredited(v, w) /\ CreditedFrom(c, w, given)
           /\ w.lastTick # X!Never /\ w.lastTick \in {s, v.lastTick}
<1>0. s \in Int /\ c \in Int
  OBVIOUS
<1>1. CASE v.lastTick # X!Never
  BY <1>1 DEF X!Opened, Recredited
<1>2. CASE v.lastTick = X!Never
  <2> DEFINE m == Until(c, v)
             b == IF borrow THEN 1 ELSE v.quota
  <2>1. m \in Int /\ c <= m /\ given <= Worth(c + replaced)
    BY <1>2, UntilIsInt DEF CreditedFrom, Until
  <2>2. b \in Int /\ b <= X!Credit
    BY CreditIsMost DEF Reservoirs
  <2>3. w = [v EXCEPT !.lastTick = s, !.balance = b]
    BY <1>2 DEF X!Opened
  <2> HIDE DEF m, b
  <2>4. Recredited(v, w) /\ w.lastTick = s /\ w.balance = b
    BY <1>0, <2>2, <2>3 DEF Recredited, Reservoirs
  <2>10. Rises(m, s) >= Worth(c + replaced) + X!Credit
    BY <2>1, <1>0, RisesAtFirst, Zenon
  <2>5. Rises(m, s) >= Worth(c + replaced) + X!Credit /\ Rises(m, s) \in Int
    BY <2>1, <2>10, <1>0, RisesBelow, Zenon
  <2>6. Worth(c + replaced) \in Int /\ X!Credit \in Int
    BY WorthAdds, CreditIsMost
  <2>7. given + b <= Rises(m, s)
    BY <2>1, <2>2, <2>5, <2>6
  <2>8. s # X!Never
    BY DEF X!Never
  <2>9. QED BY <2>1, <2>4, <2>7, <2>8, CreditedTick DEF m
<1>3. QED BY <1>1, <1>2

\* Seconds at a quota are worth no more than at the full credit, and what
\* is taken back at it falls short of that by what is won back.
LEMMA QuotaOfCredit ==
    ASSUME NEW q \in Nat, q <= X!Credit, NEW d \in Int
    PROVE  /\ d >= 0 => d * q <= d * X!Credit
           /\ d < 0 => d * q = d * X!Credit + (-d) * (X!Credit - q) /\ (-d) * (X!Credit - q) \in Nat
<1> DEFINE k == X!Credit - q
<1>1. k \in Nat /\ X!Credit = q + k
  BY CreditIsMost
<1> HIDE DEF k
<1>2. d * X!Credit = d * q + d * k /\ (-d) * k = -(d * k)
  BY <1>1
<1>3. \A a, b \in Int : a * b \in Int
  OBVIOUS
<1>4. \A a, b \in Nat : a * b \in Nat
  OBVIOUS
<1>5. d * q \in Int /\ d * k \in Int
  BY <1>1, <1>3
<1>6. d >= 0 => d * k \in Nat
  BY <1>1, <1>4
<1>7. d < 0 => (-d) * k \in Nat
  <2>1. d < 0 => -d \in Nat
    OBVIOUS
  <2>2. QED BY <1>1, <1>4, <2>1
<1>8. QED BY <1>1, <1>2, <1>5, <1>6, <1>7 DEF k

LEMMA WonIsNat ==
    ASSUME NEW v \in Reservoirs, v.quota <= MaxQuota, NEW s \in Nat, NEW borrow \in BOOLEAN
    PROVE  X!Won(v, s, borrow) \in Nat
<1>1. v.quota \in Nat /\ v.quota <= X!Credit /\ v.lastTick \in Int
  BY CreditIsMost DEF Reservoirs
<1>2. PICK d \in Int : d = s - v.lastTick
  BY <1>1
<1>3. d < 0 => (-d) * (X!Credit - v.quota) \in Nat
  BY <1>1, QuotaOfCredit
<1>4. -d = v.lastTick - s /\ (s < v.lastTick <=> d < 0)
  BY <1>1, <1>2
<1>5. QED BY <1>3, <1>4 DEF X!Won

\* A later tick, or an earlier one, leaves what is left within the credit,
\* but for what is won back.
LEMMA RefreshedInCredit ==
    ASSUME NEW v \in Reservoirs, NEW s \in Nat, NEW c \in Nat, c <= s, replaced \in Nat,
           NEW borrow \in BOOLEAN, NEW given \in Int, CreditedFrom(c, v, given),
           v.lastTick # X!Never, borrow <=> s > v.expiresAt, v.balance < 1,
           v.quota <= MaxQuota, v.expiresAt # X!Never => v.expiresAt \in Nat,
           NEW w, w = X!Refreshed(v, s, borrow),
           NEW won \in Nat, won = X!Won(v, s, borrow)
    PROVE  Recredited(v, w) /\ CreditedFrom(c, w, given - won) /\ w.lastTick = s
<1> DEFINE m == Until(c, v)
           t == v.lastTick
           b == v.balance
           added == (s - t) * v.quota
           most == (s - t) * Capacity
           more == IF borrow THEN b + X!Smaller(s - t, 1) ELSE X!Smaller(b + added, most)
<1>0. s \in Int
  OBVIOUS
<1>1. m \in Int /\ t \in Int /\ b \in Int /\ v.quota \in Nat
  BY UntilIsInt DEF Reservoirs
<1>2. c <= m /\ given + b <= Rises(m, t)
  BY DEF CreditedFrom, Until
<1>3. borrow => s >= m
  BY <1>1 DEF Until, Reservoirs
<1>4. ~borrow => s <= m
  BY <1>1 DEF Until, Reservoirs, X!Never
<1>5. w = [v EXCEPT !.lastTick = s, !.balance = more]
  BY DEF X!Refreshed
<1>6. added \in Int /\ most \in Int /\ s - t \in Int
  <2>1. \A x \in Int, y \in Nat : x * y \in Int
    OBVIOUS
  <2>2. s - t \in Int
    BY <1>1
  <2>3. QED BY <1>1, <2>1, <2>2, XRayAssumption
<1>7. ~borrow => added - won <= (s - t) * X!Credit
  <2>1. v.quota <= X!Credit
    BY <1>1, CreditIsMost
  <2>2. PICK d \in Int : d = s - t
    BY <1>6
  <2>3. /\ d >= 0 => d * v.quota <= d * X!Credit
        /\ d < 0 => d * v.quota = d * X!Credit + (-d) * (X!Credit - v.quota)
    BY <1>1, <2>1, QuotaOfCredit
  <2>4. ~borrow => won = IF d < 0 THEN (-d) * (X!Credit - v.quota) ELSE 0
    <3>1. -d = t - s /\ (s < t <=> d < 0)
      BY <1>1, <2>2
    <3>2. QED BY <3>1 DEF X!Won
  <2>5. added = d * v.quota /\ (s - t) * X!Credit = d * X!Credit
    BY <2>2
  <2>6. d * X!Credit \in Int
    BY CreditIsMost
  <2> HIDE DEF added
  <2>7. QED BY <1>6, <2>3, <2>4, <2>5, <2>6
<1>12. borrow => won = 0
  BY DEF X!Won
<1> HIDE DEF m, t, b, added, most
<1>8. Rises(m, t) \in Int /\ Rises(m, s) \in Int
  BY <1>1, <1>0, RisesBelow, Zenon
<1>9. CASE borrow
  <2>1. Rises(m, s) >= Rises(m, t) + X!Smaller(s - t, 1)
    BY <1>1, <1>3, <1>9, RisesByOne
  <2>2. more \in Int /\ given - won + more <= Rises(m, s)
    <3>1. X!Smaller(s - t, 1) \in Int
      BY <1>6 DEF X!Smaller
    <3>2. more = b + X!Smaller(s - t, 1) /\ won = 0
      BY <1>9, <1>12
    <3> HIDE DEF more
    <3>3. more \in Int /\ given + more <= Rises(m, s)
      BY <1>1, <1>2, <1>8, <2>1, <3>1, <3>2
    <3>4. QED BY <3>2, <3>3
  <2> HIDE DEF more
  <2>3. Recredited(v, w) /\ w.lastTick = s /\ w.balance = more
    BY <1>0, <1>5, <2>2 DEF Recredited, Reservoirs
  <2>4. s # X!Never
    BY DEF X!Never
  <2>5. c <= Until(c, v) /\ given - won + w.balance <= Rises(Until(c, v), w.lastTick)
    BY <1>2, <2>2, <2>3 DEF m
  <2>6. QED BY <2>3, <2>4, <2>5, CreditedTick
<1>10. CASE ~borrow
  <2>1. Rises(m, s) >= Rises(m, t) + (added - won)
    <3>1. Rises(m, s) >= Rises(m, t) + (s - t) * X!Credit
      BY <1>0, <1>1, <1>4, <1>10, RisesByQuota
    <3>2. (s - t) * X!Credit \in Int
      BY <1>6, CreditIsMost
    <3>3. QED BY <1>6, <1>7, <1>8, <1>10, <3>1, <3>2
  <2>2. more \in Int /\ given - won + more <= Rises(m, s)
    BY <1>1, <1>2, <1>6, <1>8, <1>10, <2>1 DEF X!Smaller
  <2> HIDE DEF more
  <2>3. Recredited(v, w) /\ w.lastTick = s /\ w.balance = more
    BY <1>0, <1>5, <2>2 DEF Recredited, Reservoirs
  <2>4. s # X!Never
    BY DEF X!Never
  <2>5. c <= Until(c, v) /\ given - won + w.balance <= Rises(Until(c, v), w.lastTick)
    BY <1>2, <2>2, <2>3 DEF m
  <2>6. QED BY <2>3, <2>4, <2>5, CreditedTick
<1>11. QED BY <1>9, <1>10

\* What take leaves of a reservoir v before it takes one.
TakenFrom(v, s, borrow) ==
    LET u == X!Opened(v, s, borrow)
    IN  IF u.balance >= 1 THEN u ELSE X!Refreshed(u, s, borrow)

LEMMA OpenedRecredits ==
    ASSUME NEW v \in Reservoirs, NEW s \in Nat, NEW borrow \in BOOLEAN,
           NEW w, w = X!Opened(v, s, borrow)
    PROVE  Recredited(v, w) /\ w.lastTick # X!Never /\ w.lastTick \in {s, v.lastTick}
<1>1. CASE v.lastTick # X!Never
  BY <1>1 DEF X!Opened, Recredited
<1>2. CASE v.lastTick = X!Never
  <2> DEFINE b == IF borrow THEN 1 ELSE v.quota
  <2>1. b \in Int
    BY DEF Reservoirs
  <2>2. w = [v EXCEPT !.lastTick = s, !.balance = b]
    BY <1>2 DEF X!Opened
  <2> HIDE DEF b
  <2>3. s \in Int /\ s # X!Never
    BY DEF X!Never
  <2>4. QED BY <2>1, <2>2, <2>3 DEF Recredited, Reservoirs
<1>3. QED BY <1>1, <1>2

LEMMA RefreshedRecredits ==
    ASSUME NEW v \in Reservoirs, NEW s \in Nat, NEW borrow \in BOOLEAN,
           NEW w, w = X!Refreshed(v, s, borrow)
    PROVE  Recredited(v, w) /\ w.lastTick = s
<1> DEFINE added == (s - v.lastTick) * v.quota
           most == (s - v.lastTick) * Capacity
           more == IF borrow THEN v.balance + X!Smaller(s - v.lastTick, 1)
                             ELSE X!Smaller(v.balance + added, most)
<1>1. v.lastTick \in Int /\ v.balance \in Int /\ v.quota \in Nat
  BY DEF Reservoirs
<1>2. w = [v EXCEPT !.lastTick = s, !.balance = more]
  BY DEF X!Refreshed
<1>3. added \in Int /\ most \in Int
  <2> DEFINE elapsed == s - v.lastTick
  <2>1. elapsed \in Int /\ v.quota \in Int /\ Capacity \in Int
    BY <1>1, XRayAssumption
  <2>2. added = elapsed * v.quota /\ most = elapsed * Capacity
    OBVIOUS
  <2> HIDE DEF elapsed, added, most
  <2>3. \A x, y \in Int : x * y \in Int
    OBVIOUS
  <2>4. QED BY <2>1, <2>2, <2>3, Zenon
<1> HIDE DEF added, most
<1>4. more \in Int
  BY <1>1, <1>3 DEF X!Smaller
<1> HIDE DEF more
<1>5. s \in Int
  OBVIOUS
<1>6. QED BY <1>2, <1>4, <1>5 DEF Recredited, Reservoirs

LEMMA TakenRecredits ==
    ASSUME NEW v \in Reservoirs, NEW s \in Nat, NEW borrow \in BOOLEAN,
           NEW w, w = TakenFrom(v, s, borrow)
    PROVE  Recredited(v, w) /\ w.lastTick # X!Never /\ w.lastTick \in {s, v.lastTick}
<1> DEFINE u == X!Opened(v, s, borrow)
<1>1. Recredited(v, u) /\ u.lastTick # X!Never /\ u.lastTick \in {s, v.lastTick}
  BY OpenedRecredits
<1>2. w = u \/ w = X!Refreshed(u, s, borrow)
  BY DEF TakenFrom
<1> HIDE DEF u
<1>3. CASE w = u
  BY <1>1, <1>3
<1>4. CASE w = X!Refreshed(u, s, borrow)
  <2>1. u \in Reservoirs
    BY <1>1 DEF Recredited
  <2>2. Recredited(u, w) /\ w.lastTick = s
    BY <1>4, <2>1, RefreshedRecredits
  <2>3. Recredited(v, w)
    BY <1>1, <2>2 DEF Recredited
  <2>4. s # X!Never
    BY DEF X!Never
  <2>5. QED BY <2>2, <2>3, <2>4, Zenon
<1>5. QED BY <1>2, <1>3, <1>4

\* The credit is for what is given, and for less.
LEMMA CreditedLess ==
    ASSUME NEW v \in Reservoirs, NEW c \in Int, NEW given \in Int, CreditedFrom(c, v, given),
           NEW won \in Nat, replaced \in Nat
    PROVE  CreditedFrom(c, v, given - won)
<1>1. Until(c, v) \in Int /\ v.lastTick \in Int /\ v.balance \in Int
  BY UntilIsInt DEF Reservoirs
<1>2. Rises(Until(c, v), v.lastTick) \in Int /\ Worth(c + replaced) \in Int
  <2>1. c + replaced \in Int
    OBVIOUS
  <2>2. QED BY <1>1, <2>1, RisesBelow, WorthAdds, Zenon
<1>3. given - won <= given /\ given - won + v.balance <= given + v.balance /\ given - won \in Int
  BY <1>1
<1>4. QED BY <1>1, <1>2, <1>3 DEF CreditedFrom, Until

LEMMA TakenInCredit ==
    ASSUME NEW v \in Reservoirs, NEW s \in Nat, NEW c \in Nat, c <= s, replaced \in Nat,
           NEW borrow \in BOOLEAN, NEW given \in Int, CreditedFrom(c, v, given),
           borrow <=> s > v.expiresAt, v.quota <= MaxQuota,
           v.expiresAt # X!Never => v.expiresAt \in Nat,
           NEW w, w = TakenFrom(v, s, borrow),
           NEW won \in Nat, won = X!Won(X!Opened(v, s, borrow), s, borrow)
    PROVE  CreditedFrom(c, w, given - won)
<1> DEFINE u == X!Opened(v, s, borrow)
<1>1. Recredited(v, u) /\ u.lastTick # X!Never /\ CreditedFrom(c, u, given)
  BY OpenedInCredit
<1>2. w = u \/ (u.balance < 1 /\ w = X!Refreshed(u, s, borrow))
  <2>1. u \in Reservoirs
    BY <1>1 DEF Recredited
  <2>2. u.balance >= 1 \/ u.balance < 1
    BY <2>1 DEF Reservoirs
  <2>3. QED BY <2>2 DEF TakenFrom
<1>6. won = X!Won(u, s, borrow)
  OBVIOUS
<1> HIDE DEF u
<1>3. CASE w = u
  <2>1. u \in Reservoirs /\ c \in Int
    BY <1>1 DEF Recredited
  <2>2. CreditedFrom(c, u, given - won)
    BY <1>1, <2>1, CreditedLess
  <2>3. QED BY <1>3, <2>2
<1>4. CASE u.balance < 1 /\ w = X!Refreshed(u, s, borrow)
  <2>1. /\ u \in Reservoirs /\ (borrow <=> s > u.expiresAt)
        /\ u.quota <= MaxQuota /\ (u.expiresAt # X!Never => u.expiresAt \in Nat)
    BY <1>1 DEF Recredited
  <2>2. QED BY <1>1, <1>4, <1>6, <2>1, RefreshedInCredit
<1>5. QED BY <1>2, <1>3, <1>4

\* One more is given, and one less is left.
LEMMA SpentInCredit ==
    ASSUME NEW c, NEW w \in Reservoirs, NEW given \in Int, replaced \in Nat, c \in Int,
           CreditedFrom(c, w, given), w.lastTick # X!Never
    PROVE  /\ CreditedFrom(c, [w EXCEPT !.balance = @ - 1], given + 1)
           /\ [w EXCEPT !.balance = @ - 1] \in Reservoirs
<1> DEFINE x == [w EXCEPT !.balance = @ - 1]
<1>1. /\ x \in Reservoirs /\ x.balance = w.balance - 1 /\ x.lastTick = w.lastTick
      /\ x.expiresAt = w.expiresAt
  BY DEF Reservoirs
<1>2. w.balance \in Int /\ w.lastTick \in Int
  BY DEF Reservoirs
<1> HIDE DEF x
<1>3. Until(c, w) \in Int
  BY UntilIsInt
<1>4. Rises(Until(c, w), w.lastTick) \in Int
  BY <1>2, <1>3, RisesBelow
<1>5. CreditedFrom(c, x, given + 1)
  <2>1. c <= Until(c, w) /\ given + w.balance <= Rises(Until(c, w), w.lastTick)
    BY DEF CreditedFrom, Until
  <2>2. given + 1 + x.balance <= Rises(Until(c, w), w.lastTick)
    BY <1>1, <1>2, <1>4, <2>1
  <2>3. Until(c, x) = Until(c, w)
    BY <1>1 DEF Until
  <2>4. QED BY <1>1, <2>1, <2>2, <2>3 DEF CreditedFrom, Until
<1>6. QED BY <1>1, <1>5 DEF x

-----------------------------------------------------------------------------
(* The variables.                                                          *)

InUse(u) == u.statistics \in 1..Len(statistics) /\ u.reservoir \in 1..Len(reservoir)

Fine(v) ==
    /\ v.lastTick <= xNow /\ v.quota <= MaxQuota
    /\ v.expiresAt # X!Never => v.expiresAt \in Nat

XTyped ==
    /\ xNow \in Nat /\ xNow <= MaxTime + 1
    /\ statistics \in Seq(Counts) /\ reservoir \in Seq(Reservoirs)
    /\ rule \in [statistics : Nat, reservoir : Nat] /\ InUse(rule)
    /\ callAt \in [Calls -> {"new", "count", "expired", "take", "tally", "done"}]
    /\ held \in [Calls -> [statistics : Nat, reservoir : Nat]]
    /\ \A r \in Calls : InUse(held[r])
    /\ stamp \in [Calls -> Nat] /\ \A r \in Calls : stamp[r] <= xNow
    /\ outcome \in [Calls -> {"none", "sampled", "borrowed"}]
    /\ \A r \in Calls : callAt[r] \in {"take", "tally"} => outcome[r] # "none"
    /\ pollAt \in {"idle", "stale", "swapSampled", "swapBorrowed", "call", "rules"}
    /\ report \in Counts
    /\ reported \in Nat /\ matched \in Nat /\ taken \in Nat /\ astray \in Nat
    /\ sinceCopy \in Nat /\ wonBack \in Nat /\ replaced \in Nat /\ copy \in Nat

\* The poller has a copy of its own, and no call knows it.
Away == pollAt \notin {"idle", "rules"}

ReservoirsFine ==
    /\ \A j \in 1..Len(reservoir) : Fine(reservoir[j])
    /\ \A r \in Calls : callAt[r] = "take" =>
           (outcome[r] = "borrowed" <=> stamp[r] > reservoir[held[r].reservoir].expiresAt)
    /\ Away => /\ copy = Len(reservoir) /\ rule.reservoir # copy
               /\ \A r \in Calls : held[r].reservoir # copy

\* A call that will take from a reservoir.
Carries(r, j) == callAt[r] \in {"count", "expired", "take"} /\ held[r].reservoir = j

Credited(j, given) ==
    \E c \in 0..xNow :
        /\ \A r \in Calls : Carries(r, j) => c <= stamp[r]
        /\ CreditedFrom(c, reservoir[j], given)

\* What the reservoir in force has given, but for what was won back, and
\* what its copy will have.
Gave(j, given) ==
    /\ j \in 1..Len(reservoir)
    /\ \/ j = rule.reservoir /\ given = taken - astray - wonBack
       \/ Away /\ j = copy /\ given = taken - astray - wonBack - sinceCopy

CreditKept ==
    /\ taken - astray - wonBack <= Worth(xNow + 1 + replaced)
    /\ \A j \in Nat, given \in Int : Gave(j, given) => Credited(j, given)

MatchesKept ==
    /\ replaced = 0 => Len(statistics) = 1
    /\ X!EveryMatchCounted

XRayInv == XTyped /\ ReservoirsFine /\ CreditKept /\ MatchesKept

LEMMA XRayInvInit == X!Init => XRayInv
<1> SUFFICES ASSUME X!Init PROVE XRayInv
  OBVIOUS
<1> USE DEF X!Init
<1>1. X!NoStatistics \in Counts /\ X!NewReservoir \in Reservoirs
  BY DEF X!NoStatistics, X!NewReservoir, Counts, Reservoirs, X!Never
<1>2. XTyped
  BY <1>1, XRayAssumption DEF XTyped, InUse, X!FirstRule, X!NoStatistics, Counts
<1>3. ReservoirsFine
  BY CreditIsMost DEF ReservoirsFine, Fine, X!NewReservoir, X!Never, Away, X!FirstRule
<1>4. CreditKept
  <2>1. Worth(0) = 0 /\ Worth(1) >= 0
    BY CreditIsMost DEF Worth
  <2>2. Credited(1, 0)
    BY <2>1 DEF Credited, CreditedFrom, X!NewReservoir, X!Never, Carries
  <2>3. QED BY <2>1, <2>2 DEF CreditKept, Gave, Away, X!FirstRule
<1>5. MatchesKept
  BY DEF MatchesKept, X!EveryMatchCounted, X!Reporting, X!FirstRule, X!NoStatistics
<1>6. QED BY <1>2, <1>3, <1>4, <1>5 DEF XRayInv

-----------------------------------------------------------------------------
(* Types.                                                                  *)

LEMMA PutInSequence ==
    ASSUME NEW S, NEW q \in Seq(S), NEW i \in 1..Len(q), NEW x \in S, NEW p,
           p = [q EXCEPT ![i] = x]
    PROVE  /\ p \in Seq(S) /\ Len(p) = Len(q) /\ p[i] = x
           /\ \A k \in 1..Len(q) : k # i => p[k] = q[k]
OBVIOUS

LEMMA AddedToSequence ==
    ASSUME NEW S, NEW q \in Seq(S), NEW x \in S, NEW p, p = Append(q, x)
    PROVE  /\ p \in Seq(S) /\ Len(p) = Len(q) + 1 /\ p[Len(q) + 1] = x
           /\ \A k \in 1..Len(q) : p[k] = q[k]
OBVIOUS

\* The take of a call: it gets one from its reservoir, or nothing is left.
Got(r, w) ==
    /\ w.balance >= 1
    /\ callAt' = [callAt EXCEPT ![r] = "tally"]
    /\ reservoir' = [reservoir EXCEPT ![held[r].reservoir] = [w EXCEPT !.balance = @ - 1]]
    /\ taken' = taken + 1
    /\ IF held[r].reservoir = rule.reservoir
       THEN astray' = astray /\ sinceCopy' = sinceCopy + 1
       ELSE astray' = astray + 1 /\ sinceCopy' = sinceCopy
    /\ held' = held /\ stamp' = stamp /\ outcome' = outcome

GotNone(r, w) ==
    /\ reservoir' = [reservoir EXCEPT ![held[r].reservoir] = w]
    /\ taken' = taken /\ astray' = astray /\ sinceCopy' = sinceCopy
    /\ \/ /\ callAt' = [callAt EXCEPT ![r] = "tally"] /\ held' = held /\ stamp' = stamp
          /\ outcome' = [outcome EXCEPT ![r] = "sampled"]
       \/ /\ callAt' = [callAt EXCEPT ![r] = "done"]
          /\ held' = [held EXCEPT ![r] = X!FirstRule]
          /\ stamp' = [stamp EXCEPT ![r] = 0]
          /\ outcome' = [outcome EXCEPT ![r] = "none"]

\* What it wins back.
WonBy(r) ==
    LET borrow == outcome[r] = "borrowed"
    IN  X!Won(X!Opened(reservoir[held[r].reservoir], stamp[r], borrow), stamp[r], borrow)

LEMMA TakeOutline ==
    ASSUME NEW r \in Calls, X!Take(r), NEW w,
           w = TakenFrom(reservoir[held[r].reservoir], stamp[r], outcome[r] = "borrowed")
    PROVE  /\ callAt[r] = "take" /\ statistics' = statistics /\ matched' = matched
           /\ UNCHANGED <<xNow, rule, pollAt, copy, report, polls, reported, callFailed, replaced>>
           /\ wonBack' = wonBack + WonBy(r)
           /\ Got(r, w) \/ GotNone(r, w)
<1>1. w.balance >= 1 \/ ~(w.balance >= 1)
  OBVIOUS
<1>2. QED BY <1>1 DEF X!Take, X!Goto, X!Return, TakenFrom, Got, GotNone, WonBy

LEMMA WonByIsNat ==
    ASSUME XTyped, ReservoirsFine, NEW r \in Calls
    PROVE  WonBy(r) \in Nat
<1> DEFINE v == reservoir[held[r].reservoir]
           borrow == outcome[r] = "borrowed"
           u == X!Opened(v, stamp[r], borrow)
<1>1. held[r].reservoir \in 1..Len(reservoir)
  BY DEF XTyped, InUse
<1>2. v \in Reservoirs /\ v.quota <= MaxQuota /\ stamp[r] \in Nat /\ borrow \in BOOLEAN
  BY <1>1 DEF XTyped, ReservoirsFine, Fine
<1>3. WonBy(r) = X!Won(u, stamp[r], borrow)
  BY DEF WonBy
<1> HIDE DEF v, borrow
<1>4. Recredited(v, u)
  BY <1>2, OpenedRecredits
<1>5. u \in Reservoirs /\ u.quota <= MaxQuota
  BY <1>2, <1>4 DEF Recredited
<1> HIDE DEF u
<1>6. QED BY <1>2, <1>3, <1>5, WonIsNat

LEMMA FirstRuleInUse ==
    ASSUME XTyped
    PROVE  /\ X!FirstRule \in [statistics : Nat, reservoir : Nat] /\ InUse(X!FirstRule)
BY DEF XTyped, InUse, X!FirstRule

LEMMA TallyKeeps ==
    ASSUME XTyped, NEW r \in Calls, NEW field \in {"matched", "sampled", "borrowed"},
           X!Tally(r, field)
    PROVE  statistics' \in Seq(Counts) /\ Len(statistics') = Len(statistics)
<1> DEFINE i == held[r].statistics
           x == [statistics[i] EXCEPT ![field] = @ + 1]
<1>1. i \in 1..Len(statistics) /\ statistics \in Seq(Counts)
  BY DEF XTyped, InUse
<1>2. statistics[i] \in Counts
  BY <1>1
<1>3. x \in Counts
  <2>1. CASE field = "matched" BY <1>2, <2>1 DEF Counts
  <2>2. CASE field = "sampled" BY <1>2, <2>2 DEF Counts
  <2>3. CASE field = "borrowed" BY <1>2, <2>3 DEF Counts
  <2>4. QED BY <2>1, <2>2, <2>3
<1>4. statistics' = [statistics EXCEPT ![i] = x]
  BY <1>1 DEF X!Tally
<1> HIDE DEF i, x
<1>5. QED BY <1>1, <1>3, <1>4, PutInSequence

LEMMA SwapKeeps ==
    ASSUME XTyped, NEW field \in {"matched", "sampled", "borrowed"}, X!Swap(field)
    PROVE  /\ statistics' \in Seq(Counts) /\ Len(statistics') = Len(statistics)
           /\ report' \in Counts
<1> DEFINE i == rule.statistics
           x == [statistics[i] EXCEPT ![field] = 0]
<1>1. i \in 1..Len(statistics) /\ statistics \in Seq(Counts) /\ report \in Counts
  BY DEF XTyped, InUse
<1>2. statistics[i] \in Counts
  BY <1>1
<1>3. x \in Counts /\ [report EXCEPT ![field] = statistics[i][field]] \in Counts
  <2>1. CASE field = "matched" BY <1>1, <1>2, <2>1 DEF Counts
  <2>2. CASE field = "sampled" BY <1>1, <1>2, <2>2 DEF Counts
  <2>3. CASE field = "borrowed" BY <1>1, <1>2, <2>3 DEF Counts
  <2>4. QED BY <2>1, <2>2, <2>3
<1>4. statistics' = [statistics EXCEPT ![i] = x] /\ report' \in Counts
  BY <1>1, <1>3 DEF X!Swap
<1> HIDE DEF i, x
<1>5. QED BY <1>1, <1>3, <1>4, PutInSequence

LEMMA CallKeepsTypes ==
    ASSUME XTyped, ReservoirsFine, NEW r \in Calls,
           X!Match(r) \/ X!CountMatched(r) \/ X!Expired(r) \/ X!Take(r) \/ X!CountOutcome(r)
    PROVE  XTyped'
<1>1. CASE X!Match(r)
  BY <1>1 DEF XTyped, InUse, X!Match, X!Goto
<1>2. CASE X!CountMatched(r)
  <2>1. statistics' \in Seq(Counts) /\ Len(statistics') = Len(statistics)
    BY <1>2, TallyKeeps DEF X!CountMatched
  <2>2. QED BY <1>2, <2>1 DEF XTyped, InUse, X!CountMatched, X!Goto
<1>3. CASE X!Expired(r)
  BY <1>3 DEF XTyped, InUse, X!Expired, X!Goto
<1>4. CASE X!Take(r)
  <2> DEFINE j == held[r].reservoir
             w == TakenFrom(reservoir[j], stamp[r], outcome[r] = "borrowed")
             less == [w EXCEPT !.balance = @ - 1]
  <2>1. j \in 1..Len(reservoir) /\ reservoir \in Seq(Reservoirs)
    BY DEF XTyped, InUse
  <2>2. w \in Reservoirs
    <3>1. reservoir[j] \in Reservoirs /\ stamp[r] \in Nat /\ (outcome[r] = "borrowed") \in BOOLEAN
      BY <2>1 DEF XTyped
    <3> HIDE DEF j
    <3>2. QED BY <3>1, TakenRecredits DEF Recredited
  <2>3. /\ callAt[r] = "take" /\ statistics' = statistics /\ matched' = matched
        /\ UNCHANGED <<xNow, rule, pollAt, copy, report, polls, reported, callFailed, replaced>>
        /\ wonBack' = wonBack + WonBy(r)
        /\ Got(r, w) \/ GotNone(r, w)
    BY <1>4, TakeOutline
  <2>9. wonBack' \in Nat
    <3>1. WonBy(r) \in Nat
      BY WonByIsNat, Zenon
    <3>2. wonBack \in Nat /\ wonBack' = wonBack + WonBy(r)
      BY <2>3 DEF XTyped
    <3>3. QED BY <3>1, <3>2
  <2>10. /\ callAt[r] = "take"
         /\ UNCHANGED <<xNow, rule, pollAt, copy, report, reported, replaced, statistics, matched>>
    BY <2>3
  <2> HIDE DEF w
  <2>4. less \in Reservoirs
    BY <2>2 DEF Reservoirs
  <2>5. reservoir' \in Seq(Reservoirs) /\ Len(reservoir') = Len(reservoir)
    <3>1. reservoir' = [reservoir EXCEPT ![j] = less] \/ reservoir' = [reservoir EXCEPT ![j] = w]
      BY <2>3 DEF Got, GotNone
    <3> HIDE DEF j, less
    <3>2. QED BY <2>1, <2>2, <2>4, <3>1, PutInSequence
  <2> HIDE DEF j, less
  <2>6. CASE Got(r, w)
    <3>1. callAt' = [callAt EXCEPT ![r] = "tally"]
      BY <2>6 DEF Got
    <3>2. taken' \in Nat /\ astray' \in Nat /\ sinceCopy' \in Nat
      <4>1. /\ taken' = taken + 1 /\ astray' \in {astray, astray + 1}
            /\ sinceCopy' \in {sinceCopy, sinceCopy + 1}
        BY <2>6 DEF Got
      <4>2. QED BY <4>1 DEF XTyped
    <3>3. held' = held /\ stamp' = stamp /\ outcome' = outcome
      BY <2>6 DEF Got
    <3>4. QED BY <2>5, <2>9, <2>10, <3>1, <3>2, <3>3 DEF XTyped, InUse
  <2>7. CASE GotNone(r, w)
    <3>1. taken' = taken /\ astray' = astray /\ sinceCopy' = sinceCopy
      BY <2>7 DEF GotNone
    <3>2. CASE /\ callAt' = [callAt EXCEPT ![r] = "tally"] /\ held' = held /\ stamp' = stamp
               /\ outcome' = [outcome EXCEPT ![r] = "sampled"]
      BY <2>5, <2>9, <2>10, <3>1, <3>2 DEF XTyped, InUse
    <3>3. CASE /\ callAt' = [callAt EXCEPT ![r] = "done"]
               /\ held' = [held EXCEPT ![r] = X!FirstRule]
               /\ stamp' = [stamp EXCEPT ![r] = 0]
               /\ outcome' = [outcome EXCEPT ![r] = "none"]
      <4>1. /\ callAt' \in [Calls -> {"new", "count", "expired", "take", "tally", "done"}]
            /\ outcome' \in [Calls -> {"none", "sampled", "borrowed"}]
            /\ \A q \in Calls : callAt'[q] \in {"take", "tally"} => outcome'[q] # "none"
        BY <3>3 DEF XTyped
      <4>2. stamp' \in [Calls -> Nat] /\ \A q \in Calls : stamp'[q] <= xNow
        BY <3>3 DEF XTyped
      <4>3. /\ held' \in [Calls -> [statistics : Nat, reservoir : Nat]]
            /\ \A q \in Calls : InUse(held'[q])
        BY <3>3, FirstRuleInUse DEF XTyped
      <4>4. QED BY <2>5, <2>9, <2>10, <3>1, <4>1, <4>2, <4>3 DEF XTyped, InUse
    <3>4. QED BY <2>7, <3>2, <3>3 DEF GotNone
  <2>8. QED BY <2>3, <2>6, <2>7
<1>5. CASE X!CountOutcome(r)
  <2>1. outcome[r] \in {"matched", "sampled", "borrowed"}
    BY <1>5 DEF XTyped, X!CountOutcome, X!Return, X!Goto
  <2>2. statistics' \in Seq(Counts) /\ Len(statistics') = Len(statistics)
    BY <1>5, <2>1, TallyKeeps DEF X!CountOutcome
  <2>3. QED
    BY SMTT(20), <1>5, <2>2, FirstRuleInUse DEF XTyped, InUse, X!CountOutcome, X!Return, X!Goto
<1>6. QED BY <1>1, <1>2, <1>3, <1>4, <1>5

LEMMA PollerKeepsTypes == XTyped /\ ReservoirsFine /\ X!Poller => XTyped'
<1> SUFFICES ASSUME XTyped, ReservoirsFine, X!Poller PROVE XTyped'
  OBVIOUS
<1> USE DEF X!PollGoto, X!PollBegins, X!callVars
<1>1. X!NoStatistics \in Counts /\ X!NewReservoir \in Reservoirs
  BY DEF X!NoStatistics, X!NewReservoir, Counts, Reservoirs, X!Never
<1>2. CASE X!DeepCopy
  <2>1. reservoir[rule.reservoir] \in Reservoirs /\ reservoir \in Seq(Reservoirs)
    BY DEF XTyped, InUse
  <2>2. reservoir' \in Seq(Reservoirs) /\ Len(reservoir') = Len(reservoir) + 1
    BY <1>2, <2>1, AddedToSequence DEF X!DeepCopy
  <2>3. QED BY <1>2, <2>2 DEF XTyped, InUse, X!DeepCopy
<1>3. CASE X!NothingToReport
  BY <1>3 DEF XTyped, InUse, X!NothingToReport
<1>4. CASE X!SwapMatched \/ X!SwapSampled \/ X!SwapBorrowed
  <2>1. /\ statistics' \in Seq(Counts) /\ Len(statistics') = Len(statistics)
        /\ report' \in Counts
    BY <1>4, SwapKeeps DEF X!SwapMatched, X!SwapSampled, X!SwapBorrowed
  <2>2. QED
    BY <1>4, <2>1 DEF XTyped, InUse, X!SwapMatched, X!SwapSampled, X!SwapBorrowed, X!Swap
<1>5. CASE X!TargetsFail
  BY <1>5 DEF XTyped, InUse, X!TargetsFail
<1>6. CASE X!UpdateRules
  <2>1. /\ reservoir' \in Seq(Reservoirs) /\ Len(reservoir') = Len(reservoir) + 1
        /\ statistics' \in Seq(Counts) /\ Len(statistics') = Len(statistics) + 1
    BY <1>1, <1>6, AddedToSequence DEF X!UpdateRules, XTyped
  <2>2. /\ rule' = [statistics |-> Len(statistics'), reservoir |-> Len(reservoir')]
        /\ replaced' = replaced + 1 /\ sinceCopy' = 0 /\ pollAt' = "idle"
        /\ UNCHANGED <<xNow, callAt, held, stamp, outcome, copy, report>>
        /\ UNCHANGED <<reported, matched, taken, astray, wonBack>>
    BY <1>6 DEF X!UpdateRules
  <2>3. QED BY <2>1, <2>2 DEF XTyped, InUse
<1>7. CASE X!RulesFail
  BY <1>7 DEF XTyped, InUse, X!RulesFail
<1>8. CASE X!TargetsArrive
  <2>1. copy \in 1..Len(reservoir) /\ reservoir \in Seq(Reservoirs)
    <3>1. pollAt = "call"
      BY <1>8, Zenon DEF X!TargetsArrive
    <3>2. QED BY <3>1 DEF XTyped, InUse, ReservoirsFine, Away
  <2>7. PICK quota \in 0..MaxQuota :
           \/ reservoir' = reservoir
           \/ reservoir' = [reservoir EXCEPT ![copy] = [@ EXCEPT !.due = xNow + 1,
                                                                !.expiresAt = xNow + 1,
                                                                !.quota = quota]]
    <3>1. 0 \in 0..MaxQuota
      BY CreditIsMost
    <3>2. CASE reservoir' = reservoir
      BY <3>1, <3>2
    <3>3. CASE \E quota \in 0..MaxQuota :
                   reservoir' = [reservoir EXCEPT ![copy] = [@ EXCEPT !.due = xNow + 1,
                                                                    !.expiresAt = xNow + 1,
                                                                    !.quota = quota]]
      BY <3>3
    <3>4. QED BY <1>8, <3>2, <3>3 DEF X!TargetsArrive
  <2> DEFINE x == [reservoir[copy] EXCEPT !.due = xNow + 1, !.expiresAt = xNow + 1, !.quota = quota]
  <2>2. x \in Reservoirs
    <3>1. reservoir[copy] \in Reservoirs /\ xNow + 1 \in Int /\ quota \in Nat
      BY <2>1, CreditIsMost DEF XTyped
    <3>2. QED BY <3>1 DEF Reservoirs
  <2>3. reservoir' = reservoir \/ reservoir' = [reservoir EXCEPT ![copy] = x]
    BY <2>7
  <2> HIDE DEF x
  <2>4. reservoir' \in Seq(Reservoirs) /\ Len(reservoir') = Len(reservoir)
    BY <2>1, <2>2, <2>3, PutInSequence
  <2>5. reported' \in Nat /\ astray' \in Nat /\ sinceCopy' \in Nat
    <3>1. /\ reported' = reported + report.matched
          /\ astray' = astray + sinceCopy /\ sinceCopy' = 0
      BY <1>8 DEF X!TargetsArrive
    <3>2. reported \in Nat /\ report.matched \in Nat /\ astray \in Nat /\ sinceCopy \in Nat
      BY DEF XTyped, Counts
    <3>3. QED BY <3>1, <3>2
  <2>6. QED BY <1>8, <2>1, <2>4, <2>5 DEF XTyped, InUse, X!TargetsArrive
<1>9. QED BY <1>2, <1>3, <1>4, <1>5, <1>6, <1>7, <1>8 DEF X!Poller

LEMMA XTypedNext == XTyped /\ ReservoirsFine /\ [X!Next]_xrayVars => XTyped'
<1> SUFFICES ASSUME XTyped, ReservoirsFine, [X!Next]_xrayVars PROVE XTyped'
  OBVIOUS
<1>1. CASE X!Tick
  <2>1. /\ UNCHANGED <<rule, statistics, reservoir, callAt, held, stamp, outcome, pollAt, copy, report>>
        /\ UNCHANGED <<reported, matched, taken, astray, sinceCopy, wonBack, replaced>>
    BY <1>1 DEF X!Tick, X!callVars, X!history
  <2>2. xNow' = xNow + 1 /\ xNow' <= MaxTime + 1
    BY <1>1, XRayAssumption DEF XTyped, X!Tick
  <2>3. QED BY <2>1, <2>2 DEF XTyped, InUse
<1>2. CASE UNCHANGED xrayVars
  BY <1>2 DEF XTyped, InUse, xrayVars
<1>3. CASE \E r \in Calls : X!Match(r) \/ X!CountMatched(r) \/ X!Expired(r) \/ X!Take(r) \/ X!CountOutcome(r)
  BY <1>3, CallKeepsTypes
<1>4. CASE X!Poller
  BY <1>4, PollerKeepsTypes
<1>5. QED BY <1>1, <1>2, <1>3, <1>4 DEF X!Next


-----------------------------------------------------------------------------
(* What a call's answer says, and what the poller's copy is.               *)

LEMMA FineStays ==
    ASSUME NEW v, Fine(v), xNow \in Nat, xNow' \in Nat, xNow' >= xNow, v.lastTick \in Int
    PROVE  Fine(v)'
BY DEF Fine

LEMMA FirstIsNoCopy ==
    ASSUME XTyped, copy = Len(reservoir), rule.reservoir # copy
    PROVE  X!FirstRule.reservoir # copy
<1>1. rule.reservoir \in 1..Len(reservoir) /\ Len(reservoir) \in Nat
  BY DEF XTyped, InUse
<1>2. X!FirstRule.reservoir = 1
  BY DEF X!FirstRule
<1>3. QED BY <1>1, <1>2

LEMMA CallKeepsFine ==
    ASSUME XTyped, ReservoirsFine, NEW r \in Calls,
           X!Match(r) \/ X!CountMatched(r) \/ X!Expired(r) \/ X!Take(r) \/ X!CountOutcome(r)
    PROVE  ReservoirsFine'
<1>1. \A j \in 1..Len(reservoir) : reservoir[j] \in Reservoirs
  BY DEF XTyped
<1>2. CASE X!Match(r)
  BY <1>2 DEF XTyped, InUse, ReservoirsFine, Fine, Away, X!Match, X!Goto
<1>3. CASE X!CountMatched(r)
  BY <1>3 DEF XTyped, ReservoirsFine, Fine, Away, X!CountMatched, X!Goto
<1>4. CASE X!Expired(r)
  BY <1>4 DEF XTyped, ReservoirsFine, Fine, Away, X!Expired, X!Goto
<1>5. CASE X!CountOutcome(r)
  <2>1. /\ callAt' = [callAt EXCEPT ![r] = "done"] /\ held' = [held EXCEPT ![r] = X!FirstRule]
        /\ stamp' = [stamp EXCEPT ![r] = 0] /\ outcome' = [outcome EXCEPT ![r] = "none"]
        /\ UNCHANGED <<xNow, rule, pollAt, copy, reservoir>>
    BY <1>5 DEF X!CountOutcome, X!Return, X!Goto
  <2>2. \A j \in 1..Len(reservoir) : Fine(reservoir[j])'
    BY <2>1 DEF ReservoirsFine, Fine
  <2>3. \A q \in Calls : held'[q] = held[q] \/ held'[q] = X!FirstRule
    BY <2>1 DEF XTyped
  <2>4. ASSUME Away' PROVE (/\ copy = Len(reservoir) /\ rule.reservoir # copy
                            /\ \A q \in Calls : held[q].reservoir # copy)'
    <3>1. /\ copy = Len(reservoir) /\ rule.reservoir # copy
          /\ \A q \in Calls : held[q].reservoir # copy
      BY <2>1, <2>4 DEF Away, ReservoirsFine
    <3>2. X!FirstRule.reservoir # copy
      BY <3>1, FirstIsNoCopy
    <3>3. QED BY <2>1, <2>3, <3>1, <3>2
  <2>5. QED BY <2>1, <2>2, <2>4 DEF XTyped, ReservoirsFine
<1>6. CASE X!Take(r)
  <2> DEFINE j == held[r].reservoir
             w == TakenFrom(reservoir[j], stamp[r], outcome[r] = "borrowed")
             less == [w EXCEPT !.balance = @ - 1]
  <2>1. j \in 1..Len(reservoir) /\ reservoir[j] \in Reservoirs /\ reservoir \in Seq(Reservoirs)
    BY DEF XTyped, InUse
  <2>2. Recredited(reservoir[j], w) /\ w.lastTick \in {stamp[r], reservoir[j].lastTick}
    <3>1. stamp[r] \in Nat /\ (outcome[r] = "borrowed") \in BOOLEAN
      BY DEF XTyped
    <3> HIDE DEF j
    <3>2. QED BY <2>1, <3>1, TakenRecredits
  <2>3. /\ callAt[r] = "take" /\ statistics' = statistics /\ matched' = matched
        /\ UNCHANGED <<xNow, rule, pollAt, copy, report, polls, reported, callFailed, replaced>>
        /\ Got(r, w) \/ GotNone(r, w)
    BY <1>6, TakeOutline
  <2>4. stamp[r] <= xNow /\ Fine(reservoir[j])
    BY <2>1 DEF XTyped, ReservoirsFine
  <2> HIDE DEF w
  <2>5. /\ less \in Reservoirs /\ less.lastTick = w.lastTick /\ less.quota = w.quota
        /\ less.expiresAt = w.expiresAt /\ w \in Reservoirs
    BY <2>2 DEF Reservoirs, Recredited
  <2>6. Fine(w) /\ Fine(less)
    BY <2>2, <2>4, <2>5 DEF Fine, Recredited
  <2>7. PICK x \in {w, less} : reservoir' = [reservoir EXCEPT ![j] = x]
    BY <2>3 DEF Got, GotNone
  <2>8. Fine(x) /\ x \in Reservoirs /\ x.expiresAt = reservoir[j].expiresAt
    BY <2>2, <2>5, <2>6, <2>7 DEF Recredited
  <2> HIDE DEF j, less
  <2>9. /\ Len(reservoir') = Len(reservoir) /\ reservoir'[j] = x
        /\ \A k \in 1..Len(reservoir) : k # j => reservoir'[k] = reservoir[k]
    BY <2>1, <2>7, <2>8, PutInSequence
  <2>10. \A k \in 1..Len(reservoir) : Fine(reservoir'[k]) /\ reservoir'[k].expiresAt = reservoir[k].expiresAt
    BY <2>8, <2>9 DEF ReservoirsFine
  <2>11. \A k \in 1..Len(reservoir) : Fine(reservoir[k])'
    BY <2>3, <2>10 DEF Fine
  <2>12. /\ callAt' = [callAt EXCEPT ![r] = "tally"] \/ callAt' = [callAt EXCEPT ![r] = "done"]
         /\ held' = held \/ held' = [held EXCEPT ![r] = X!FirstRule]
         /\ stamp' = stamp \/ stamp' = [stamp EXCEPT ![r] = 0]
         /\ \A q \in Calls : q # r => outcome'[q] = outcome[q]
    BY <2>3 DEF Got, GotNone, XTyped
  <2>13. \A q \in Calls : held[q].reservoir \in 1..Len(reservoir)
    BY DEF XTyped, InUse
  <2>14. ASSUME NEW q \in Calls, callAt'[q] = "take"
         PROVE  outcome'[q] = "borrowed" <=> stamp'[q] > reservoir'[held'[q].reservoir].expiresAt
    <3>1. q # r
      BY <2>12, <2>14 DEF XTyped
    <3>2. /\ callAt[q] = "take" /\ held'[q] = held[q] /\ stamp'[q] = stamp[q]
          /\ outcome'[q] = outcome[q]
      BY <2>12, <2>14, <3>1 DEF XTyped
    <3>3. reservoir'[held[q].reservoir].expiresAt = reservoir[held[q].reservoir].expiresAt
      BY <2>10, <2>13
    <3>4. QED BY <3>2, <3>3 DEF ReservoirsFine
  <2>15. ASSUME Away' PROVE (/\ copy = Len(reservoir) /\ rule.reservoir # copy
                             /\ \A q \in Calls : held[q].reservoir # copy)'
    <3>1. /\ copy = Len(reservoir) /\ rule.reservoir # copy
          /\ \A q \in Calls : held[q].reservoir # copy
      BY <2>3, <2>15 DEF Away, ReservoirsFine
    <3>2. \A q \in Calls : held'[q] = held[q] \/ held'[q] = X!FirstRule
      BY <2>12 DEF XTyped
    <3>3. X!FirstRule.reservoir # copy
      BY <3>1, FirstIsNoCopy
    <3>4. \A q \in Calls : held'[q].reservoir # copy
      BY <3>1, <3>2, <3>3
    <3>5. QED BY <2>3, <2>9, <3>1, <3>4
  <2>16. QED BY <2>9, <2>11, <2>14, <2>15 DEF ReservoirsFine
<1>7. QED BY <1>2, <1>3, <1>4, <1>5, <1>6

LEMMA PollerKeepsFine == XTyped /\ ReservoirsFine /\ X!Poller => ReservoirsFine'
<1> SUFFICES ASSUME XTyped, ReservoirsFine, X!Poller PROVE ReservoirsFine'
  OBVIOUS
<1> USE DEF X!PollGoto, X!PollBegins, X!callVars
<1>1. /\ \A q \in Calls : held[q].reservoir \in 1..Len(reservoir)
      /\ rule.reservoir \in 1..Len(reservoir) /\ reservoir \in Seq(Reservoirs)
      /\ Len(reservoir) \in Nat
  BY DEF XTyped, InUse
<1>2. ASSUME NEW x \in Reservoirs, Fine(x), reservoir' = Append(reservoir, x),
             UNCHANGED <<xNow, callAt, held, stamp, outcome>>,
             Away' => copy' = Len(reservoir') /\ rule'.reservoir \in 1..Len(reservoir)
      PROVE  ReservoirsFine'
  <2>1. /\ Len(reservoir') = Len(reservoir) + 1 /\ reservoir'[Len(reservoir) + 1] = x
        /\ \A k \in 1..Len(reservoir) : reservoir'[k] = reservoir[k]
    BY <1>1, <1>2, AddedToSequence
  <2>2. \A k \in 1..Len(reservoir') : Fine(reservoir[k])'
    BY <1>1, <1>2, <2>1 DEF ReservoirsFine, Fine
  <2>3. \A q \in Calls : reservoir'[held[q].reservoir] = reservoir[held[q].reservoir]
    BY <1>1, <2>1
  <2>4. Away' => /\ copy' = Len(reservoir') /\ rule'.reservoir # copy'
                 /\ \A q \in Calls : held[q].reservoir # copy'
    BY <1>1, <1>2, <2>1
  <2>5. callAt' = callAt /\ held' = held /\ stamp' = stamp /\ outcome' = outcome
    BY <1>2
  <2>6. QED BY <2>2, <2>3, <2>4, <2>5 DEF ReservoirsFine
<1>3. CASE X!DeepCopy
  <2>1. reservoir[rule.reservoir] \in Reservoirs /\ Fine(reservoir[rule.reservoir])
    BY <1>1 DEF ReservoirsFine
  <2>2. QED BY <1>1, <1>2, <1>3, <2>1 DEF X!DeepCopy
<1>4. CASE X!UpdateRules
  <2>1. X!NewReservoir \in Reservoirs /\ Fine(X!NewReservoir)
    BY CreditIsMost DEF Reservoirs, Fine, X!NewReservoir, X!Never, XTyped
  <2>2. ~Away'
    BY <1>4 DEF X!UpdateRules, Away
  <2>3. QED BY <1>2, <1>4, <2>1, <2>2 DEF X!UpdateRules
<1>5. CASE X!TargetsArrive
  <2>1. /\ copy = Len(reservoir) /\ \A q \in Calls : held[q].reservoir # copy
        /\ ~Away' /\ copy \in 1..Len(reservoir)
    <3>1. pollAt = "call" /\ pollAt' \in {"idle", "rules"}
      BY <1>5, Zenon DEF X!TargetsArrive
    <3>2. QED BY <1>1, <3>1 DEF ReservoirsFine, Away
  <2>2. UNCHANGED <<xNow, callAt, held, stamp, outcome>>
    BY <1>5 DEF X!TargetsArrive
  <2>6. PICK quota \in 0..MaxQuota :
           \/ reservoir' = reservoir
           \/ reservoir' = [reservoir EXCEPT ![copy] = [@ EXCEPT !.due = xNow + 1,
                                                                !.expiresAt = xNow + 1,
                                                                !.quota = quota]]
    <3>1. 0 \in 0..MaxQuota
      BY CreditIsMost
    <3>2. CASE reservoir' = reservoir
      BY <3>1, <3>2
    <3>3. CASE \E quota \in 0..MaxQuota :
                   reservoir' = [reservoir EXCEPT ![copy] = [@ EXCEPT !.due = xNow + 1,
                                                                    !.expiresAt = xNow + 1,
                                                                    !.quota = quota]]
      BY <3>3
    <3>4. QED BY <1>5, <3>2, <3>3 DEF X!TargetsArrive
  <2>3. CASE UNCHANGED reservoir
    BY <2>1, <2>2, <2>3 DEF ReservoirsFine, Fine
  <2> DEFINE x == [reservoir[copy] EXCEPT !.due = xNow + 1, !.expiresAt = xNow + 1, !.quota = quota]
  <2>4. CASE reservoir' = [reservoir EXCEPT ![copy] = x]
    <3>1. reservoir[copy] \in Reservoirs /\ Fine(reservoir[copy]) /\ xNow + 1 \in Nat /\ quota \in Nat /\ quota <= MaxQuota
      BY <1>1, <2>1, CreditIsMost DEF XTyped, ReservoirsFine
    <3>2. /\ x \in Reservoirs /\ x.quota = quota /\ x.expiresAt = xNow + 1
          /\ x.lastTick = reservoir[copy].lastTick
      <4> DEFINE v == reservoir[copy]
      <4>1. v \in Reservoirs /\ x = [v EXCEPT !.due = xNow + 1, !.expiresAt = xNow + 1, !.quota = quota]
        BY <3>1
      <4>2. PICK u \in Int : u = xNow + 1
        BY <3>1
      <4> HIDE DEF v, x
      <4>3. x = [v EXCEPT !.due = u, !.expiresAt = u, !.quota = quota]
        BY <4>1, <4>2
      <4>4. /\ x \in Reservoirs /\ x.quota = quota /\ x.expiresAt = u /\ x.lastTick = v.lastTick
        BY <3>1, <4>1, <4>3 DEF Reservoirs
      <4>5. QED BY <4>2, <4>4 DEF v
    <3>3. Fine(x)
      BY <3>1, <3>2 DEF Fine
    <3> HIDE DEF x
    <3>4. /\ Len(reservoir') = Len(reservoir) /\ reservoir'[copy] = x
          /\ \A k \in 1..Len(reservoir) : k # copy => reservoir'[k] = reservoir[k]
      BY <1>1, <2>1, <2>4, <3>2, PutInSequence
    <3>5. \A k \in 1..Len(reservoir') : Fine(reservoir'[k])
      BY <3>3, <3>4 DEF ReservoirsFine
    <3>6. \A k \in 1..Len(reservoir') : Fine(reservoir[k])'
      <4>1. xNow' = xNow
        BY <2>2
      <4>2. QED BY <3>5, <4>1 DEF Fine
    <3>7. \A q \in Calls : reservoir'[held[q].reservoir] = reservoir[held[q].reservoir]
      BY <1>1, <2>1, <3>4
    <3>8. QED BY <2>1, <2>2, <3>6, <3>7 DEF ReservoirsFine
  <2>5. QED BY <2>3, <2>4, <2>6
<1>6. ASSUME UNCHANGED <<xNow, callAt, held, stamp, outcome, reservoir, rule, copy>>, Away' => Away
      PROVE  ReservoirsFine'
  BY <1>6 DEF ReservoirsFine, Fine
<1>7. CASE X!NothingToReport \/ X!TargetsFail \/ X!RulesFail
  BY <1>6, <1>7 DEF X!NothingToReport, X!TargetsFail, X!RulesFail, Away
<1>8. CASE X!SwapMatched \/ X!SwapSampled \/ X!SwapBorrowed
  BY <1>6, <1>8 DEF X!SwapMatched, X!SwapSampled, X!SwapBorrowed, X!Swap, Away
<1>9. QED BY <1>3, <1>4, <1>5, <1>7, <1>8 DEF X!Poller

LEMMA FineNext == XTyped /\ ReservoirsFine /\ [X!Next]_xrayVars => ReservoirsFine'
<1> SUFFICES ASSUME XTyped, ReservoirsFine, [X!Next]_xrayVars PROVE ReservoirsFine'
  OBVIOUS
<1>1. ASSUME xNow' >= xNow, xNow' \in Nat,
             UNCHANGED <<reservoir, rule, callAt, held, stamp, outcome, pollAt, copy>>
      PROVE  ReservoirsFine'
  <2>1. \A j \in 1..Len(reservoir) : Fine(reservoir[j])'
    <3>1. xNow \in Int /\ \A j \in 1..Len(reservoir) : reservoir[j].lastTick \in Int
      <4>1. \A j \in 1..Len(reservoir) : reservoir[j] \in Reservoirs
        BY DEF XTyped
      <4>2. \A v \in Reservoirs : v.lastTick \in Int
        BY DEF Reservoirs
      <4>3. QED BY <4>1, <4>2 DEF XTyped
    <3>2. QED BY <1>1, <3>1 DEF ReservoirsFine, Fine
  <2>2. QED BY <1>1, <2>1 DEF ReservoirsFine, Away
<1>2. CASE X!Tick
  BY <1>1, <1>2 DEF X!Tick, X!callVars, XTyped
<1>3. CASE UNCHANGED xrayVars
  BY <1>1, <1>3 DEF xrayVars, XTyped
<1>4. CASE \E r \in Calls : X!Match(r) \/ X!CountMatched(r) \/ X!Expired(r) \/ X!Take(r) \/ X!CountOutcome(r)
  BY <1>4, CallKeepsFine
<1>5. CASE X!Poller
  BY <1>5, PollerKeepsFine
<1>6. QED BY <1>2, <1>3, <1>4, <1>5 DEF X!Next


-----------------------------------------------------------------------------
(* The credit.                                                             *)

LEMMA CreditedStays ==
    ASSUME XTyped, NEW j \in Nat, NEW given \in Int, Credited(j, given),
           xNow' \in Nat, xNow' >= xNow, replaced' = replaced, reservoir'[j] = reservoir[j],
           \A q \in Calls : Carries(q, j)' => \/ Carries(q, j) /\ stamp'[q] = stamp[q]
                                              \/ stamp'[q] = xNow
    PROVE  Credited(j, given)'
<1>1. PICK c \in 0..xNow : /\ \A q \in Calls : Carries(q, j) => c <= stamp[q]
                           /\ CreditedFrom(c, reservoir[j], given)
  BY DEF Credited
<1>2. c \in 0..xNow' /\ c <= xNow /\ xNow \in Nat
  BY DEF XTyped
<1>3. CreditedFrom(c, reservoir[j], given)'
  BY <1>1 DEF CreditedFrom, Rises, Worth
<1>4. \A q \in Calls : Carries(q, j)' => c <= stamp'[q]
  BY <1>1, <1>2
<1>5. QED BY <1>2, <1>3, <1>4 DEF Credited

\* What is left does not fall below nothing when a call gets one.
LEMMA WithinTime ==
    ASSUME XTyped, NEW w \in Reservoirs, NEW c \in Int, NEW given \in Int, CreditedFrom(c, w, given),
           w.lastTick # X!Never, w.lastTick <= xNow, w.balance >= 1
    PROVE  given + 1 <= Worth(xNow + 1 + replaced)
<1> DEFINE m == Until(c, w)
           t == w.lastTick
<1>1. m \in Int /\ t \in Int /\ w.balance \in Int /\ replaced \in Nat /\ xNow \in Nat
  BY UntilIsInt DEF Reservoirs, XTyped
<1>2. given + w.balance <= Rises(m, t)
  BY DEF CreditedFrom, Until
<1> HIDE DEF m, t
<1>3. Rises(m, t) \in Int /\ Rises(m, t) <= Worth(t + 1 + replaced)
  BY <1>1, RisesBelow
<1>6. t <= xNow
  BY DEF t
<1>4. Worth(xNow + 1 + replaced) >= Worth(t + 1 + replaced) + ((xNow + 1 + replaced) - (t + 1 + replaced))
  <2>1. /\ xNow + 1 + replaced \in Int /\ t + 1 + replaced \in Int
        /\ xNow + 1 + replaced >= t + 1 + replaced
    BY <1>1, <1>6
  <2>2. \A a, b \in Int : a >= b => Worth(a) >= Worth(b) + (a - b)
    BY WorthAdds
  <2>3. QED BY <2>1, <2>2, Zenon
<1>5. Worth(xNow + 1 + replaced) \in Int /\ Worth(t + 1 + replaced) \in Int
  <2>1. xNow + 1 + replaced \in Int /\ t + 1 + replaced \in Int
    BY <1>1
  <2>2. \A k \in Int : Worth(k) \in Int
    BY WorthAdds
  <2>3. QED BY <2>1, <2>2, Zenon
<1>7. QED BY <1>1, <1>2, <1>3, <1>4, <1>5, <1>6

LEMMA LessIsCredited ==
    ASSUME XTyped, NEW j \in 1..Len(reservoir), NEW given \in Int, Credited(j, given),
           NEW won \in Nat
    PROVE  Credited(j, given - won)
<1>1. reservoir[j] \in Reservoirs /\ replaced \in Nat /\ 0..xNow \subseteq Int
  BY DEF XTyped
<1>2. QED BY <1>1, CreditedLess DEF Credited

LEMMA TakeKeepsCredit ==
    ASSUME XTyped, ReservoirsFine, CreditKept, NEW r \in Calls, X!Take(r)
    PROVE  CreditKept'
<1> DEFINE i == held[r].reservoir
           w == TakenFrom(reservoir[i], stamp[r], outcome[r] = "borrowed")
           less == [w EXCEPT !.balance = @ - 1]
<1>1. /\ i \in 1..Len(reservoir) /\ i \in Nat /\ reservoir[i] \in Reservoirs
      /\ reservoir \in Seq(Reservoirs) /\ stamp[r] \in Nat
      /\ replaced \in Nat /\ xNow \in Nat /\ stamp[r] <= xNow
  BY DEF XTyped, InUse
<1>16. (outcome[r] = "borrowed") \in BOOLEAN
  OBVIOUS
<1>2. /\ callAt[r] = "take" /\ replaced' = replaced /\ xNow' = xNow /\ rule' = rule
      /\ pollAt' = pollAt /\ copy' = copy /\ wonBack' = wonBack + WonBy(r)
      /\ Got(r, w) \/ GotNone(r, w)
  BY TakeOutline
<1>18. PICK won \in Nat : won = WonBy(r)
  BY WonByIsNat
<1>19. taken \in Nat /\ astray \in Nat /\ wonBack \in Nat /\ sinceCopy \in Nat
  BY DEF XTyped
<1>3. /\ Fine(reservoir[i])
      /\ outcome[r] = "borrowed" <=> stamp[r] > reservoir[i].expiresAt
  BY <1>1, <1>2 DEF ReservoirsFine
<1>4. /\ Recredited(reservoir[i], w) /\ w.lastTick # X!Never
      /\ w.lastTick \in {stamp[r], reservoir[i].lastTick}
  <2> DEFINE v == reservoir[i]
             b == outcome[r] = "borrowed"
  <2>1. v \in Reservoirs /\ stamp[r] \in Nat /\ b \in BOOLEAN /\ w = TakenFrom(v, stamp[r], b)
    BY <1>1, <1>16
  <2> HIDE DEF v, b, w
  <2>2. Recredited(v, w) /\ w.lastTick # X!Never /\ w.lastTick \in {stamp[r], v.lastTick}
    BY <2>1, TakenRecredits
  <2>3. QED BY <2>2 DEF v
<1>5. ASSUME NEW c \in Nat, c <= stamp[r], NEW given \in Int, CreditedFrom(c, reservoir[i], given)
      PROVE  CreditedFrom(c, w, given - won)
  <2>1. won = X!Won(X!Opened(reservoir[i], stamp[r], outcome[r] = "borrowed"),
                    stamp[r], outcome[r] = "borrowed")
    BY <1>18 DEF WonBy
  <2> HIDE DEF i
  <2>2. QED BY <1>1, <1>3, <1>5, <1>16, <2>1, TakenInCredit DEF Fine
<1> HIDE DEF w
<1>6. w \in Reservoirs /\ w.lastTick <= xNow
  BY <1>1, <1>3, <1>4 DEF Recredited, Fine
<1>7. \A q \in Calls, k \in Nat : Carries(q, k)' => Carries(q, k) /\ stamp'[q] = stamp[q]
  <2>1. ASSUME NEW q \in Calls, NEW k \in Nat, Carries(q, k)' PROVE Carries(q, k) /\ stamp'[q] = stamp[q]
    <3>1. q # r
      BY <1>2, <2>1 DEF Carries, Got, GotNone, XTyped
    <3>2. callAt'[q] = callAt[q] /\ held'[q] = held[q] /\ stamp'[q] = stamp[q]
      BY <1>2, <3>1 DEF Got, GotNone, XTyped
    <3>3. QED BY <2>1, <3>2 DEF Carries
  <2>2. QED BY <2>1
<1>8. Carries(r, i)
  BY <1>2 DEF Carries
<1>17. /\ Len(reservoir') = Len(reservoir)
       /\ \A k \in 1..Len(reservoir) : k # i => reservoir'[k] = reservoir[k]
  <2>1. less \in Reservoirs
    BY <1>6 DEF Reservoirs
  <2>2. PICK x \in Reservoirs : reservoir' = [reservoir EXCEPT ![i] = x]
    BY <1>2, <1>6, <2>1 DEF Got, GotNone
  <2> HIDE DEF i
  <2>3. QED BY <1>1, <2>2, PutInSequence
<1>9. ASSUME NEW j \in 1..Len(reservoir), j # i, NEW given \in Int, Credited(j, given)
      PROVE  Credited(j, given - won)'
  <2>1. reservoir'[j] = reservoir[j]
    BY <1>9, <1>17
  <2>2. Credited(j, given - won)
    BY <1>1, <1>9, LessIsCredited
  <2>3. given - won \in Int /\ j \in Nat
    OBVIOUS
  <2>4. QED BY <1>1, <1>2, <1>7, <2>1, <2>2, <2>3, CreditedStays
<1>10. ASSUME NEW given \in Int, NEW x \in Reservoirs, NEW c \in 0..xNow, NEW more \in Int,
              \A q \in Calls : Carries(q, i) => c <= stamp[q],
              reservoir'[i] = x, CreditedFrom(c, x, more)
       PROVE  \A j \in Nat : j = i => Credited(j, more)'
  <2>1. CreditedFrom(c, x, more)'
    BY <1>2, <1>10 DEF CreditedFrom, Rises, Worth
  <2>2. SUFFICES ASSUME NEW j \in Nat, j = i PROVE Credited(j, more)'
    OBVIOUS
  <2>3. \A q \in Calls : Carries(q, j)' => c <= stamp'[q]
    BY <1>7, <1>10, <2>2
  <2>4. reservoir'[j] = x /\ c \in 0..xNow'
    BY <1>2, <1>10, <2>2
  <2>5. QED BY <2>1, <2>3, <2>4 DEF Credited
<1>11. CASE GotNone(r, w)
  <2>1. reservoir'[i] = w
    BY <1>1, <1>6, <1>11, PutInSequence DEF GotNone
  <2>2. ASSUME NEW j \in Nat, NEW given \in Int, Gave(j, given)' PROVE Credited(j, given)'
    <3> DEFINE old == given + won
    <3>6. old \in Int /\ old - won = given
      OBVIOUS
    <3>1. Gave(j, old) /\ j \in 1..Len(reservoir)
      <4>1. /\ taken' - astray' - wonBack' = taken - astray - wonBack - won
            /\ taken' - astray' - wonBack' - sinceCopy' = taken - astray - wonBack - sinceCopy - won
        BY <1>2, <1>11, <1>18, <1>19 DEF GotNone
      <4>2. j \in 1..Len(reservoir)
        BY <1>17, <2>2 DEF Gave
      <4>3. \/ j = rule.reservoir /\ given = taken - astray - wonBack - won
            \/ Away /\ j = copy /\ given = taken - astray - wonBack - sinceCopy - won
        BY <1>2, <2>2, <4>1 DEF Gave, Away
      <4>4. \/ j = rule.reservoir /\ old = taken - astray - wonBack
            \/ Away /\ j = copy /\ old = taken - astray - wonBack - sinceCopy
        BY <1>19, <4>3
      <4>5. QED BY <4>2, <4>4 DEF Gave
    <3> HIDE DEF old
    <3>2. Credited(j, old)
      BY <3>1, <3>6 DEF CreditKept
    <3>3. CASE j # i
      BY <1>9, <3>1, <3>2, <3>3, <3>6
    <3>4. CASE j = i
      <4>1. PICK c \in 0..xNow : /\ \A q \in Calls : Carries(q, j) => c <= stamp[q]
                                 /\ CreditedFrom(c, reservoir[j], old)
        BY <3>2 DEF Credited
      <4>2. c <= stamp[r] /\ c \in Nat
        BY <1>8, <3>4, <4>1
      <4>3. CreditedFrom(c, w, given)
        BY <1>5, <3>4, <3>6, <4>1, <4>2
      <4>4. QED BY <1>6, <1>10, <2>1, <3>4, <4>1, <4>3
    <3>5. QED BY <3>3, <3>4
  <2>3. taken' - astray' - wonBack' <= Worth(xNow' + 1 + replaced')
    <3>1. taken' - astray' - wonBack' <= taken - astray - wonBack
      BY <1>2, <1>11, <1>18, <1>19 DEF GotNone
    <3>2. taken - astray - wonBack <= Worth(xNow' + 1 + replaced')
      BY <1>2 DEF CreditKept
    <3>3. taken' - astray' - wonBack' \in Int /\ Worth(xNow' + 1 + replaced') \in Int
      <4>1. xNow' + 1 + replaced' \in Int
        BY <1>1, <1>2
      <4>2. Worth(xNow' + 1 + replaced') \in Int
        BY <4>1, WorthAdds, Zenon
      <4>3. QED BY <1>2, <1>11, <1>18, <1>19, <4>2 DEF GotNone
    <3>4. QED BY <1>19, <3>1, <3>2, <3>3
  <2>4. QED BY <2>2, <2>3 DEF CreditKept, Worth
<1>12. CASE Got(r, w) /\ i # rule.reservoir
  <2>1. taken' - astray' - wonBack' = taken - astray - wonBack - won /\ sinceCopy' = sinceCopy
    <3>1. taken' = taken + 1 /\ astray' = astray + 1 /\ sinceCopy' = sinceCopy
      BY <1>12 DEF Got
    <3>2. QED BY <1>2, <1>18, <1>19, <3>1
  <2>2. ASSUME NEW j \in Nat, NEW given \in Int, Gave(j, given)' PROVE Credited(j, given)'
    <3> DEFINE old == given + won
    <3>1. old \in Int /\ old - won = given
      OBVIOUS
    <3>2. Gave(j, old) /\ j # i /\ j \in 1..Len(reservoir)
      <4>1. \/ j = rule.reservoir /\ given = taken - astray - wonBack - won
            \/ Away /\ j = copy /\ given = taken - astray - wonBack - won - sinceCopy
        BY <1>2, <2>1, <2>2 DEF Gave, Away
      <4>2. \/ j = rule.reservoir /\ old = taken - astray - wonBack
            \/ Away /\ j = copy /\ old = taken - astray - wonBack - sinceCopy
        BY <1>19, <4>1
      <4>3. j \in 1..Len(reservoir)
        BY <1>17, <2>2 DEF Gave
      <4>4. j # i
        BY <1>12, <4>1 DEF ReservoirsFine
      <4>5. QED BY <4>2, <4>3, <4>4 DEF Gave
    <3> HIDE DEF old
    <3>3. Credited(j, old)
      BY <3>1, <3>2 DEF CreditKept
    <3>4. QED BY <1>9, <3>1, <3>2, <3>3
  <2>3. taken' - astray' - wonBack' <= Worth(xNow' + 1 + replaced')
    <3>1. taken - astray - wonBack <= Worth(xNow' + 1 + replaced')
      BY <1>2 DEF CreditKept
    <3>2. Worth(xNow' + 1 + replaced') \in Int
      <4>1. xNow' + 1 + replaced' \in Int
        BY <1>1, <1>2
      <4>2. QED BY <4>1, WorthAdds, Zenon
    <3>3. QED BY <1>19, <2>1, <3>1, <3>2
  <2>4. QED BY <2>2, <2>3 DEF CreditKept, Worth
<1>13. CASE Got(r, w) /\ i = rule.reservoir /\ w.balance >= 1
  <2>15. PICK given \in Int : given = taken - astray - wonBack
    BY <1>19
  <2>14. taken' = taken + 1 /\ astray' = astray /\ sinceCopy' = sinceCopy + 1
    BY <1>13 DEF Got
  <2>16. PICK left \in Int : left = given - won
    OBVIOUS
  <2>1. given \in Int /\ taken' - astray' - wonBack' = left + 1
        /\ taken' - astray' - wonBack' - sinceCopy' = left - sinceCopy
    BY <1>2, <1>18, <1>19, <2>14, <2>15, <2>16
  <2>2. Credited(i, given)
    BY <1>1, <1>13, <2>1, <2>15 DEF CreditKept, Gave
  <2>4. PICK c \in 0..xNow : /\ \A q \in Calls : Carries(q, i) => c <= stamp[q]
                             /\ CreditedFrom(c, reservoir[i], given)
    BY <2>2 DEF Credited
  <2>5. c <= stamp[r] /\ c \in Nat
    BY <1>8, <2>4
  <2>6. CreditedFrom(c, w, left)
    BY <1>5, <2>4, <2>5, <2>16
  <2>7. CreditedFrom(c, less, left + 1) /\ less \in Reservoirs
    BY <1>1, <1>4, <1>6, <2>5, <2>6, SpentInCredit
  <2>8. left + 1 <= Worth(xNow + 1 + replaced)
    BY <1>4, <1>6, <1>13, <2>5, <2>6, WithinTime
  <2>9. reservoir'[i] = less
    BY <1>1, <1>13, <2>7, PutInSequence DEF Got
  <2> HIDE DEF less
  <2>10. \A j \in Nat : j = i => Credited(j, left + 1)'
    <3>1. left + 1 \in Int
      OBVIOUS
    <3>2. QED BY <1>10, <2>4, <2>7, <2>9, <3>1
  <2>11. ASSUME NEW j \in Nat, NEW owed \in Int, Gave(j, owed)' PROVE Credited(j, owed)'
    <3>1. CASE j = i
      <4>1. owed = left + 1
        BY <1>2, <1>13, <2>1, <2>11, <3>1 DEF Gave, Away, ReservoirsFine
      <4>2. QED BY <2>10, <3>1, <4>1
    <3>2. CASE j # i
      <4>1. Away /\ j = copy /\ owed = left - sinceCopy /\ j \in 1..Len(reservoir)
        BY <1>2, <1>13, <1>17, <2>1, <2>11, <3>2 DEF Gave, Away
      <4>2. PICK old \in Int : old = given - sinceCopy
        BY <1>19
      <4>3. Gave(j, old)
        BY <2>15, <4>1, <4>2 DEF Gave
      <4>4. owed = old - won
        BY <1>19, <2>16, <4>1, <4>2
      <4>5. QED BY <1>9, <3>2, <4>1, <4>3, <4>4 DEF CreditKept
    <3>3. QED BY <3>1, <3>2
  <2>12. taken' - astray' - wonBack' <= Worth(xNow' + 1 + replaced')
    BY <1>2, <2>1, <2>8
  <2>13. QED BY <2>11, <2>12 DEF CreditKept, Worth
<1>14. Got(r, w) => w.balance >= 1
  BY DEF Got
<1>15. QED BY <1>2, <1>11, <1>12, <1>13, <1>14

LEMMA CallKeepsCredit ==
    ASSUME XTyped, ReservoirsFine, CreditKept, NEW r \in Calls,
           X!Match(r) \/ X!CountMatched(r) \/ X!Expired(r) \/ X!CountOutcome(r)
    PROVE  CreditKept'
<1>1. /\ reservoir' = reservoir /\ taken' = taken /\ astray' = astray /\ sinceCopy' = sinceCopy
      /\ wonBack' = wonBack /\ UNCHANGED <<xNow, rule, pollAt, copy, replaced>>
  BY DEF X!Match, X!CountMatched, X!Expired, X!CountOutcome, X!Return, X!Goto
<1>2. \A q \in Calls, j \in Nat :
          Carries(q, j)' => \/ Carries(q, j) /\ stamp'[q] = stamp[q]
                            \/ stamp'[q] = xNow
  <2>1. CASE X!Match(r)
    BY <2>1 DEF XTyped, Carries, X!Match, X!Goto
  <2>2. CASE X!CountMatched(r)
    BY <2>2 DEF XTyped, Carries, X!CountMatched, X!Goto
  <2>3. CASE X!Expired(r)
    BY <2>3 DEF XTyped, Carries, X!Expired, X!Goto
  <2>4. CASE X!CountOutcome(r)
    BY <2>4 DEF XTyped, Carries, X!CountOutcome, X!Return, X!Goto
  <2>5. QED BY <2>1, <2>2, <2>3, <2>4
<1>3. ASSUME NEW j \in Nat, NEW given \in Int, Gave(j, given)' PROVE Credited(j, given)'
  <2>1. Gave(j, given)
    BY <1>1, <1>3 DEF Gave, Away
  <2>2. xNow' \in Nat /\ xNow' >= xNow
    BY <1>1 DEF XTyped
  <2>3. QED BY <1>1, <1>2, <2>1, <2>2, CreditedStays DEF CreditKept
<1>4. QED BY <1>1, <1>3 DEF CreditKept, Worth

\* A new quota counts from the last tick on.
LEMMA AssignedInCredit ==
    ASSUME NEW v \in Reservoirs, NEW x \in Reservoirs, NEW n \in Nat, NEW c \in Nat,
           NEW given \in Int, CreditedFrom(c, v, given), c <= n, v.lastTick <= n,
           x.expiresAt = n, x.lastTick = v.lastTick, x.balance = v.balance, replaced \in Nat
    PROVE  CreditedFrom(c, x, given)
<1> DEFINE m == Until(c, v)
           t == v.lastTick
<1>1. m \in Int /\ t \in Int /\ v.balance \in Int /\ n # X!Never
  BY UntilIsInt DEF Reservoirs, X!Never
<1>2. CASE v.lastTick = X!Never
  BY <1>1, <1>2 DEF CreditedFrom
<1>3. CASE v.lastTick # X!Never
  <2>1. given + v.balance <= Rises(m, t)
    BY <1>3 DEF CreditedFrom, Until
  <2> HIDE DEF m, t
  <2>2. Rises(m, t) \in Int /\ Rises(m, t) <= Worth(t + 1 + replaced)
    BY <1>1, RisesBelow
  <2>3. Rises(n, t) = Worth(t + 1 + replaced)
    BY DEF Rises, t
  <2>4. Worth(t + 1 + replaced) \in Int
    <3>1. t + 1 + replaced \in Int
      BY <1>1
    <3>2. \A k \in Int : Worth(k) \in Int
      BY WorthAdds
    <3>3. QED BY <3>1, <3>2, Zenon
  <2>5. given + v.balance <= Rises(n, t)
    BY <1>1, <2>1, <2>2, <2>3, <2>4
  <2>6. QED BY <1>1, <1>3, <2>5 DEF CreditedFrom, t
<1>4. QED BY <1>2, <1>3

\* A reservoir that nobody carries yet.
LEMMA CreditedAnew ==
    ASSUME XTyped, NEW j \in Nat, NEW given \in Int, NEW c \in 0..xNow, NEW v,
           reservoir'[j] = v, xNow' = xNow, UNCHANGED <<callAt, held, stamp>>,
           \A q \in Calls : held[q].reservoir # j, CreditedFrom(c, v, given)'
    PROVE  Credited(j, given)'
<1>1. \A q \in Calls : ~Carries(q, j)'
  BY DEF Carries
<1>2. QED BY <1>1 DEF Credited

LEMMA PollerKeepsCredit == XTyped /\ ReservoirsFine /\ CreditKept /\ X!Poller => CreditKept'
<1> SUFFICES ASSUME XTyped, ReservoirsFine, CreditKept, X!Poller PROVE CreditKept'
  OBVIOUS
<1> USE DEF X!PollGoto, X!PollBegins, X!callVars
<1>1. /\ \A q \in Calls : held[q].reservoir \in 1..Len(reservoir)
      /\ rule.reservoir \in 1..Len(reservoir) /\ reservoir \in Seq(Reservoirs)
      /\ Len(reservoir) \in Nat /\ xNow \in Nat /\ replaced \in Nat
      /\ taken \in Nat /\ astray \in Nat /\ wonBack \in Nat /\ sinceCopy \in Nat
  BY DEF XTyped, InUse
<1>2. PICK given \in Int : given = taken - astray - wonBack
  BY <1>1
<1>3. Credited(rule.reservoir, given) /\ given <= Worth(xNow + 1 + replaced)
  <2>1. Gave(rule.reservoir, given)
    BY <1>1, <1>2 DEF Gave
  <2>2. rule.reservoir \in Nat
    BY <1>1
  <2>3. QED BY <1>2, <2>1, <2>2, Zenon DEF CreditKept
<1>4. ASSUME UNCHANGED <<xNow, callAt, held, stamp, replaced>>,
             NEW j \in 1..Len(reservoir), reservoir'[j] = reservoir[j], NEW more \in Int, Credited(j, more)
      PROVE  Credited(j, more)'
  <2>1. \A q \in Calls : Carries(q, j)' => Carries(q, j) /\ stamp'[q] = stamp[q]
    BY <1>4 DEF Carries
  <2>2. xNow' \in Nat /\ xNow' >= xNow /\ j \in Nat
    BY <1>1, <1>4
  <2>3. QED BY <1>4, <2>1, <2>2, CreditedStays
<1>5. ASSUME UNCHANGED <<xNow, callAt, held, stamp, replaced, reservoir, rule, taken, astray, wonBack, sinceCopy,
                       copy>>,
             Away' => Away
      PROVE  CreditKept'
  <2>1. ASSUME NEW j \in Nat, NEW more \in Int, Gave(j, more)' PROVE Credited(j, more)'
    <3>1. Gave(j, more) /\ j \in 1..Len(reservoir)
      BY <1>5, <2>1 DEF Gave
    <3>2. QED BY <1>4, <1>5, <3>1 DEF CreditKept
  <2>2. QED BY <1>5, <2>1 DEF CreditKept, Worth
<1>6. CASE X!NothingToReport \/ X!TargetsFail \/ X!RulesFail
  BY <1>5, <1>6 DEF X!NothingToReport, X!TargetsFail, X!RulesFail, Away
<1>7. CASE X!SwapMatched \/ X!SwapSampled \/ X!SwapBorrowed
  BY <1>5, <1>7 DEF X!SwapMatched, X!SwapSampled, X!SwapBorrowed, X!Swap, Away
<1>8. CASE X!DeepCopy
  <2> DEFINE v == reservoir[rule.reservoir]
  <2>1. /\ UNCHANGED <<xNow, callAt, held, stamp, replaced, rule, taken, astray, wonBack>>
        /\ sinceCopy' = 0 /\ copy' = Len(reservoir') /\ reservoir' = Append(reservoir, v)
    BY <1>8 DEF X!DeepCopy
  <2>2. PICK c \in 0..xNow : CreditedFrom(c, v, given)
    BY <1>3 DEF Credited
  <2>3. v \in Reservoirs
    BY <1>1
  <2>4. PICK u \in Reservoirs : u = v
    BY <2>3
  <2> HIDE DEF v
  <2>5. /\ Len(reservoir') = Len(reservoir) + 1 /\ reservoir'[Len(reservoir) + 1] = u
        /\ \A k \in 1..Len(reservoir) : reservoir'[k] = reservoir[k]
    BY <1>1, <2>1, <2>4, AddedToSequence
  <2>6. CreditedFrom(c, u, given)'
    BY <2>1, <2>2, <2>4 DEF CreditedFrom, Rises, Worth
  <2>7. ASSUME NEW j \in Nat, NEW more \in Int, Gave(j, more)' PROVE Credited(j, more)'
    <3>1. more = given
      BY <1>1, <1>2, <2>1, <2>7 DEF Gave
    <3>2. j = rule.reservoir \/ j = Len(reservoir) + 1
      BY <2>1, <2>5, <2>7 DEF Gave
    <3>3. CASE j = rule.reservoir
      <4>1. reservoir'[j] = reservoir[j] /\ j \in 1..Len(reservoir) /\ Credited(j, more)
        BY <1>1, <1>3, <2>5, <3>1, <3>3
      <4>2. QED BY <1>4, <2>1, <4>1
    <3>4. CASE j = Len(reservoir) + 1
      <4>1. /\ \A q \in Calls : held[q].reservoir # j
            /\ reservoir'[j] = u /\ xNow' = xNow
            /\ UNCHANGED <<callAt, held, stamp>>
        BY <1>1, <2>1, <2>5, <3>4
      <4>2. CreditedFrom(c, u, more)'
        BY <2>6, <3>1
      <4>3. QED BY <4>1, <4>2, CreditedAnew
    <3>5. QED BY <3>2, <3>3, <3>4
  <2>8. QED BY <1>2, <1>3, <2>1, <2>7 DEF CreditKept, Worth
<1>9. CASE X!UpdateRules
  <2>1. /\ UNCHANGED <<xNow, callAt, held, stamp, taken, astray, wonBack>> /\ replaced' = replaced + 1
        /\ rule'.reservoir = Len(reservoir') /\ reservoir' = Append(reservoir, X!NewReservoir)
        /\ ~Away'
    BY <1>9 DEF X!UpdateRules, Away
  <2>2. /\ X!NewReservoir \in Reservoirs /\ X!NewReservoir.lastTick = X!Never
        /\ X!NewReservoir.expiresAt = X!Never
    BY DEF Reservoirs, X!NewReservoir, X!Never
  <2>3. Len(reservoir') = Len(reservoir) + 1 /\ reservoir'[Len(reservoir) + 1] = X!NewReservoir
    BY <1>1, <2>1, <2>2, AddedToSequence
  <2>4. given <= Worth(xNow + replaced')
    <3>1. xNow + replaced' = xNow + 1 + replaced
      BY <1>1, <2>1
    <3>2. QED BY <1>3, <3>1
  <2>5. ASSUME NEW c \in 0..xNow, c = xNow PROVE CreditedFrom(c, X!NewReservoir, given)'
    BY <2>2, <2>4, <2>5 DEF CreditedFrom, Worth, X!NewReservoir, X!Never
  <2>6. ASSUME NEW j \in Nat, NEW more \in Int, Gave(j, more)' PROVE Credited(j, more)'
    <3>1. j = Len(reservoir) + 1 /\ more = given
      BY <1>2, <2>1, <2>3, <2>6 DEF Gave
    <3>2. PICK c \in 0..xNow : c = xNow
      BY <1>1
    <3>3. CreditedFrom(c, X!NewReservoir, more)'
      BY <2>5, <3>1, <3>2
    <3>4. /\ \A q \in Calls : held[q].reservoir # j
          /\ reservoir'[j] = X!NewReservoir /\ xNow' = xNow
          /\ UNCHANGED <<callAt, held, stamp>>
      BY <1>1, <2>1, <2>3, <3>1
    <3>5. QED BY <3>3, <3>4, CreditedAnew
  <2>7. given <= Worth(xNow' + 1 + replaced')
    <3>1. PICK a \in Int : a = xNow + replaced'
      BY <1>1, <2>1
    <3>2. a + 1 = xNow + 1 + replaced'
      <4>1. replaced' \in Nat
        BY <1>1, <2>1
      <4>2. QED BY <1>1, <3>1, <4>1
    <3>3. Worth(a + 1) >= Worth(a) + ((a + 1) - a) /\ Worth(a + 1) \in Int /\ Worth(a) \in Int
      <4>1. \A k, l \in Int : k >= l => Worth(k) >= Worth(l) + (k - l) /\ Worth(k) \in Int /\ Worth(l) \in Int
        BY WorthAdds
      <4>2. a + 1 \in Int /\ a + 1 >= a
        OBVIOUS
      <4>3. QED BY <4>1, <4>2, Zenon
    <3>4. given <= Worth(a)
      BY <2>4, <3>1
    <3>5. given <= Worth(a + 1)
      BY <3>3, <3>4
    <3>6. QED BY <2>1, <3>2, <3>5
  <2>8. QED BY <1>2, <2>1, <2>6, <2>7 DEF CreditKept, Worth
<1>10. CASE X!TargetsArrive
  <2>1. /\ UNCHANGED <<xNow, callAt, held, stamp, taken, wonBack, replaced>> /\ ~Away' /\ Away
        /\ astray' = astray + sinceCopy /\ rule'.reservoir = copy
    BY <1>10 DEF X!TargetsArrive, Away, XTyped
  <2>2. copy \in 1..Len(reservoir) /\ \A q \in Calls : held[q].reservoir # copy
    BY <1>1, <2>1 DEF ReservoirsFine
  <2>12. PICK more \in Int : more = given - sinceCopy
    BY <1>1
  <2>3. more = given - sinceCopy /\ more <= given /\ more = taken' - astray' - wonBack'
    <3>1. taken' = taken /\ wonBack' = wonBack /\ astray' = astray + sinceCopy
      BY <2>1
    <3>2. QED BY <1>1, <1>2, <2>12, <3>1
  <2>4. Credited(copy, more)
    BY <1>2, <2>1, <2>2, <2>3 DEF CreditKept, Gave
  <2>5. PICK c \in 0..xNow : CreditedFrom(c, reservoir[copy], more)
    BY <2>4 DEF Credited
  <2>6. PICK u : u = reservoir'[copy]
    OBVIOUS
  <2>7. CreditedFrom(c, u, more)
    <3>1. CASE UNCHANGED reservoir
      BY <2>5, <2>6, <3>1
    <3>2. ASSUME NEW quota \in 0..MaxQuota,
                 reservoir' = [reservoir EXCEPT ![copy] = [@ EXCEPT !.due = xNow + 1,
                                 !.expiresAt = xNow + 1, !.quota = quota]]
          PROVE  CreditedFrom(c, u, more)
      <4>1. PICK v \in Reservoirs : v = reservoir[copy]
        BY <1>1, <2>2
      <4>2. PICK n \in Nat : n = xNow + 1
        BY <1>1
      <4>3. u = [v EXCEPT !.due = n, !.expiresAt = n, !.quota = quota]
        <5>1. reservoir'[copy] = [reservoir[copy] EXCEPT !.due = xNow + 1,
                                          !.expiresAt = xNow + 1, !.quota = quota]
          <6> DEFINE x == [reservoir[copy] EXCEPT !.due = xNow + 1,
                                           !.expiresAt = xNow + 1, !.quota = quota]
          <6>1. reservoir' = [reservoir EXCEPT ![copy] = x]
            BY <3>2
          <6> HIDE DEF x
          <6>2. reservoir'[copy] = x
            BY <1>1, <2>2, <6>1
          <6>3. QED BY <6>2 DEF x
        <5>2. QED BY <2>6, <4>1, <4>2, <5>1
      <4>4. /\ u \in Reservoirs /\ u.expiresAt = n /\ u.lastTick = v.lastTick
            /\ u.balance = v.balance
        <5>1. n \in Int /\ quota \in Nat
          BY CreditIsMost
        <5>2. QED BY <4>3, <5>1 DEF Reservoirs
      <4>5. v.lastTick <= n
        <5>1. v.lastTick <= xNow /\ v.lastTick \in Int
          BY <2>2, <4>1 DEF ReservoirsFine, Fine, Reservoirs
        <5>2. QED BY <1>1, <4>2, <5>1
      <4>6. c \in Nat /\ c <= n
        BY <1>1, <4>2
      <4>7. CreditedFrom(c, v, more)
        BY <2>5, <4>1
      <4>8. QED BY <1>1, <4>4, <4>5, <4>6, <4>7, AssignedInCredit
    <3>3. QED BY <1>10, <3>1, <3>2 DEF X!TargetsArrive
  <2>8. CreditedFrom(c, u, more)'
    BY <2>1, <2>7 DEF CreditedFrom, Rises, Worth
  <2>9. ASSUME NEW j \in Nat, NEW g \in Int, Gave(j, g)' PROVE Credited(j, g)'
    <3>1. j = copy /\ g = more
      BY <2>1, <2>3, <2>9 DEF Gave
    <3>2. CreditedFrom(c, u, g)'
      BY <2>8, <3>1
    <3>3. /\ \A q \in Calls : held[q].reservoir # j
          /\ reservoir'[j] = u /\ xNow' = xNow
          /\ UNCHANGED <<callAt, held, stamp>>
      BY <2>1, <2>2, <2>6, <3>1
    <3>4. QED BY <3>2, <3>3, CreditedAnew
  <2>10. more <= Worth(xNow + 1 + replaced)
    <3>1. xNow + 1 + replaced \in Int
      BY <1>1
    <3>2. \A k \in Int : Worth(k) \in Int
      BY WorthAdds
    <3>3. Worth(xNow + 1 + replaced) \in Int
      BY <3>1, <3>2, Zenon
    <3>4. QED BY <1>3, <2>3, <3>3
  <2>11. QED BY <2>1, <2>3, <2>9, <2>10 DEF CreditKept, Worth
<1>11. QED BY <1>6, <1>7, <1>8, <1>9, <1>10 DEF X!Poller


LEMMA CreditNext ==
    XTyped /\ ReservoirsFine /\ CreditKept /\ [X!Next]_xrayVars => CreditKept'
<1> SUFFICES ASSUME XTyped, ReservoirsFine, CreditKept, [X!Next]_xrayVars PROVE CreditKept'
  OBVIOUS
<1>1. ASSUME xNow' \in {xNow, xNow + 1},
             UNCHANGED <<reservoir, rule, callAt, held, stamp, pollAt, copy, taken, astray,
                         wonBack, sinceCopy, replaced>>
      PROVE  CreditKept'
  <2>1. xNow \in Nat /\ xNow' \in Nat /\ xNow' >= xNow /\ replaced \in Nat
    BY <1>1 DEF XTyped
  <2>2. ASSUME NEW j \in Nat, NEW more \in Int, Gave(j, more)' PROVE Credited(j, more)'
    <3>1. Gave(j, more)
      BY <1>1, <2>2 DEF Gave, Away
    <3>2. \A q \in Calls : Carries(q, j)' => Carries(q, j) /\ stamp'[q] = stamp[q]
      BY <1>1 DEF Carries
    <3>3. QED BY <1>1, <2>1, <3>1, <3>2, CreditedStays DEF CreditKept
  <2>3. taken - astray - wonBack <= Worth(xNow' + 1 + replaced)
    <3>1. PICK a \in Int : a = xNow + 1 + replaced
      BY <2>1
    <3>2. PICK b \in Int : b = xNow' + 1 + replaced
      <4>1. xNow' + 1 + replaced \in Int
        BY <2>1
      <4>2. QED BY <4>1
    <3>3. b >= a
      <4>1. CASE xNow' = xNow
        BY <3>1, <3>2, <4>1
      <4>2. CASE xNow' = xNow + 1
        BY <2>1, <3>1, <3>2, <4>2
      <4>3. QED BY <1>1, <4>1, <4>2
    <3>4. Worth(b) >= Worth(a) + (b - a) /\ Worth(a) \in Int /\ Worth(b) \in Int
      BY <3>3, WorthAdds
    <3>5. taken - astray - wonBack \in Int /\ taken - astray - wonBack <= Worth(a)
      BY <3>1 DEF CreditKept, XTyped
    <3>6. taken - astray - wonBack <= Worth(b)
      BY <3>3, <3>4, <3>5
    <3>7. QED BY <3>2, <3>6
  <2>4. QED BY <1>1, <2>2, <2>3 DEF CreditKept, Worth
<1>2. CASE X!Tick
  BY <1>1, <1>2 DEF X!Tick, X!callVars, X!history
<1>3. CASE UNCHANGED xrayVars
  BY <1>1, <1>3 DEF xrayVars
<1>4. CASE \E r \in Calls : X!Match(r) \/ X!CountMatched(r) \/ X!Expired(r) \/ X!Take(r) \/ X!CountOutcome(r)
  BY <1>4, CallKeepsCredit, TakeKeepsCredit
<1>5. CASE X!Poller
  BY <1>5, PollerKeepsCredit
<1>6. QED BY <1>2, <1>3, <1>4, <1>5 DEF X!Next

-----------------------------------------------------------------------------
(* The statistics.                                                         *)

LEMMA MatchesNext == XTyped /\ MatchesKept /\ [X!Next]_xrayVars => MatchesKept'
<1> SUFFICES ASSUME XTyped, MatchesKept, [X!Next]_xrayVars PROVE MatchesKept'
  OBVIOUS
<1> USE DEF X!EveryMatchCounted, X!Reporting
<1>1. /\ rule.statistics \in 1..Len(statistics) /\ statistics \in Seq(Counts)
      /\ \A q \in Calls : held[q].statistics \in 1..Len(statistics)
      /\ matched \in Nat /\ reported \in Nat /\ replaced \in Nat /\ report \in Counts
  BY DEF XTyped, InUse
<1>2. \A i \in 1..Len(statistics) : statistics[i] \in Counts
  BY <1>1
<1>3. replaced = 0 => rule.statistics = 1 /\ \A q \in Calls : held[q].statistics = 1
  <2>1. replaced = 0 => Len(statistics) = 1
    BY DEF MatchesKept
  <2>2. \A i \in 1..1 : i = 1
    OBVIOUS
  <2>3. ASSUME replaced = 0
        PROVE  rule.statistics \in 1..1 /\ \A q \in Calls : held[q].statistics \in 1..1
    BY <1>1, <2>1, <2>3
  <2>4. QED BY <2>2, <2>3
<1>4. ASSUME UNCHANGED <<replaced, statistics, rule, matched, reported, report>>,
             callFailed => callFailed',
             callFailed' \/ X!Reporting' = X!Reporting \/ replaced # 0
      PROVE  MatchesKept'
  BY <1>4 DEF MatchesKept
<1>5. ASSUME NEW r \in Calls,
             X!Match(r) \/ X!CountMatched(r) \/ X!Expired(r) \/ X!Take(r) \/ X!CountOutcome(r)
      PROVE  MatchesKept'
  <2>1. UNCHANGED <<replaced, rule, reported, report, callFailed, pollAt>>
    BY <1>5, TakeOutline DEF X!Match, X!CountMatched, X!Expired, X!CountOutcome, X!Return, X!Goto
  <2>2. CASE X!Match(r) \/ X!Expired(r) \/ X!Take(r)
    <3>1. UNCHANGED <<statistics, matched>>
      BY <2>2, TakeOutline DEF X!Match, X!Expired
    <3>2. QED BY <1>4, <2>1, <3>1
  <2>3. ASSUME NEW field \in {"matched", "sampled", "borrowed"}, X!Tally(r, field), replaced = 0
        PROVE  /\ Len(statistics') = 1
               /\ statistics'[1].matched = statistics[1].matched + (IF field = "matched" THEN 1 ELSE 0)
    <3>1. statistics[1] \in Counts /\ Len(statistics) = 1 /\ held[r].statistics = 1
      <4>1. Len(statistics) = 1
        BY <2>3 DEF MatchesKept
      <4>2. 1 \in 1..Len(statistics)
        BY <4>1
      <4>3. statistics[1] \in Counts
        BY <1>2, <4>2
      <4>4. QED BY <1>3, <2>3, <4>1, <4>3
    <3> DEFINE x == [statistics[1] EXCEPT ![field] = @ + 1]
    <3>2. statistics' = [statistics EXCEPT ![1] = x]
      BY <1>1, <3>1, <2>3 DEF X!Tally
    <3>3. x.matched = statistics[1].matched + (IF field = "matched" THEN 1 ELSE 0)
      <4>1. CASE field = "matched" BY <3>1, <4>1 DEF Counts
      <4>2. CASE field = "sampled" BY <3>1, <4>2 DEF Counts
      <4>3. CASE field = "borrowed" BY <3>1, <4>3 DEF Counts
      <4>4. QED BY <4>1, <4>2, <4>3
    <3> HIDE DEF x
    <3>4. Len(statistics') = 1 /\ statistics'[1] = x
      BY <1>1, <3>1, <3>2
    <3>5. QED BY <3>3, <3>4
  <2>4. CASE X!CountMatched(r)
    <3>1. X!Tally(r, "matched") /\ matched' = matched + 1
      BY <2>4 DEF X!CountMatched
    <3>2. ASSUME replaced = 0
          PROVE  /\ Len(statistics') = 1 /\ statistics'[1].matched = statistics[1].matched + 1
                 /\ statistics[1].matched \in Nat
      <4>1. statistics[1].matched \in Nat
        BY <1>1, <1>2, <1>3, <3>2 DEF Counts
      <4>2. QED BY <2>3, <3>1, <3>2, <4>1
    <3>3. report.matched \in Nat
      BY <1>1 DEF Counts
    <3> DEFINE due == IF X!Reporting THEN report.matched ELSE 0
    <3>4. due \in Nat /\ due' = due
      BY <2>1, <3>3
    <3>5. ASSUME replaced = 0, ~callFailed
          PROVE  matched = reported + statistics[1].matched + due
      BY <1>3, <3>5 DEF MatchesKept
    <3> HIDE DEF due
    <3>6. ASSUME replaced = 0, ~callFailed
          PROVE  matched' = reported + statistics'[1].matched + due
      BY <1>1, <3>1, <3>2, <3>4, <3>5, <3>6
    <3>7. QED BY <1>3, <2>1, <3>2, <3>4, <3>6 DEF MatchesKept, due
  <2>5. CASE X!CountOutcome(r)
    <3>1. outcome[r] \in {"sampled", "borrowed"} /\ X!Tally(r, outcome[r]) /\ matched' = matched
      BY <2>5 DEF X!CountOutcome, X!Return, X!Goto, XTyped
    <3>2. ASSUME replaced = 0
          PROVE  Len(statistics') = 1 /\ statistics'[1].matched = statistics[1].matched
      <4>1. statistics[1].matched \in Nat
        BY <1>1, <1>2, <1>3, <3>2 DEF Counts
      <4>2. QED BY <2>3, <3>1, <3>2, <4>1
    <3>4. QED BY <1>1, <1>3, <2>1, <3>1, <3>2 DEF MatchesKept
  <2>6. QED BY <1>5, <2>2, <2>4, <2>5
<1>6. ASSUME NEW field \in {"matched", "sampled", "borrowed"}, X!Swap(field), replaced = 0
      PROVE  /\ Len(statistics') = 1 /\ statistics[1] \in Counts
             /\ statistics'[1].matched = (IF field = "matched" THEN 0 ELSE statistics[1].matched)
             /\ report'.matched = (IF field = "matched" THEN statistics[1].matched ELSE report.matched)
  <2>1. statistics[1] \in Counts /\ Len(statistics) = 1 /\ rule.statistics = 1
    BY <1>2, <1>3, <1>6 DEF MatchesKept
  <2> DEFINE x == [statistics[1] EXCEPT ![field] = 0]
  <2>2. /\ statistics' = [statistics EXCEPT ![1] = x]
        /\ report' = [report EXCEPT ![field] = statistics[1][field]]
    BY <1>1, <1>6, <2>1 DEF X!Swap
  <2>3. /\ x.matched = (IF field = "matched" THEN 0 ELSE statistics[1].matched)
        /\ report'.matched = (IF field = "matched" THEN statistics[1].matched ELSE report.matched)
    <3>1. CASE field = "matched" BY <1>1, <2>1, <2>2, <3>1 DEF Counts
    <3>2. CASE field = "sampled" BY <1>1, <2>1, <2>2, <3>2 DEF Counts
    <3>3. CASE field = "borrowed" BY <1>1, <2>1, <2>2, <3>3 DEF Counts
    <3>4. QED BY <3>1, <3>2, <3>3
  <2> HIDE DEF x
  <2>4. Len(statistics') = 1 /\ statistics'[1] = x
    BY <1>1, <2>1, <2>2
  <2>5. QED BY <2>1, <2>3, <2>4
<1>7. CASE X!Poller
  <2> USE DEF X!PollGoto, X!PollBegins
  <2>1. CASE X!DeepCopy \/ X!NothingToReport \/ X!TargetsFail \/ X!RulesFail
    BY <1>4, <2>1 DEF X!DeepCopy, X!NothingToReport, X!TargetsFail, X!RulesFail
  <2>2. CASE X!SwapMatched
    <3>1. /\ X!Swap("matched") /\ ~X!Reporting /\ X!Reporting'
          /\ UNCHANGED <<replaced, rule, matched, reported, callFailed>>
      BY <2>2 DEF X!SwapMatched, X!Swap
    <3>2. ASSUME replaced = 0
          PROVE  /\ Len(statistics') = 1 /\ statistics'[1].matched = 0
                 /\ report'.matched = statistics[1].matched /\ statistics[1].matched \in Nat
      BY <1>6, <3>1, <3>2 DEF Counts
    <3>3. QED BY <1>1, <1>3, <3>1, <3>2 DEF MatchesKept
  <2>3. CASE X!SwapSampled \/ X!SwapBorrowed
    <3>1. /\ X!Swap("sampled") \/ X!Swap("borrowed")
          /\ X!Reporting /\ X!Reporting'
          /\ UNCHANGED <<replaced, rule, matched, reported, callFailed>>
      BY <2>3 DEF X!SwapSampled, X!SwapBorrowed, X!Swap
    <3>2. ASSUME replaced = 0
          PROVE  /\ Len(statistics') = 1 /\ statistics'[1].matched = statistics[1].matched
                 /\ report'.matched = report.matched
      <4>1. CASE X!Swap("sampled") BY <1>6, <3>2, <4>1
      <4>2. CASE X!Swap("borrowed") BY <1>6, <3>2, <4>2
      <4>3. QED BY <3>1, <4>1, <4>2
    <3>3. QED BY <1>1, <1>3, <3>1, <3>2 DEF MatchesKept
  <2>4. CASE X!TargetsArrive
    <3>1. /\ X!Reporting /\ ~X!Reporting' /\ reported' = reported + report.matched
          /\ UNCHANGED <<replaced, statistics, matched, callFailed>>
          /\ rule'.statistics = rule.statistics
      BY <1>1, <2>4 DEF X!TargetsArrive, XTyped
    <3>2. replaced = 0 => statistics[1].matched \in Nat
      BY <1>1, <1>2, <1>3 DEF Counts
    <3>3. report.matched \in Nat
      BY <1>1 DEF Counts
    <3>4. QED BY <1>1, <1>3, <3>1, <3>2, <3>3 DEF MatchesKept
  <2>5. CASE X!UpdateRules
    <3>1. replaced' # 0
      BY <1>1, <2>5 DEF X!UpdateRules
    <3>2. QED BY <3>1 DEF MatchesKept
  <2>6. QED BY <1>7, <2>1, <2>2, <2>3, <2>4, <2>5 DEF X!Poller
<1>8. CASE X!Tick
  BY <1>4, <1>8 DEF X!Tick, X!history
<1>9. CASE UNCHANGED xrayVars
  BY <1>4, <1>9 DEF xrayVars
<1>10. QED BY <1>5, <1>7, <1>8, <1>9 DEF X!Next

(***************************************************************************)
(* Reservoirs keep to their credit, and matches are reported once, however *)
(* many calls there are and whatever the capacity and the quotas, which    *)
(* may also be none and change from answer to answer (aws/xray:            *)
(* reservoir.go, rule.go and manifest.go).                                 *)
(***************************************************************************)
THEOREM Reservoir == X!Spec => []XRaySound
<1>1. XRayInv /\ [X!Next]_xrayVars => XRayInv'
  BY XTypedNext, FineNext, CreditNext, MatchesNext DEF XRayInv
<1>2. XRayInv => XRaySound
  <2> SUFFICES ASSUME XRayInv PROVE X!XRaySound
    BY DEF XRaySound
  <2>1. X!XRayTypeOK
    <3>1. xNow \in 0..(MaxTime + 1)
      BY XRayAssumption DEF XRayInv, XTyped
    <3>2. rule \in [statistics : DOMAIN statistics, reservoir : DOMAIN reservoir]
      BY DEF XRayInv, XTyped, InUse
    <3>3. QED BY <3>1, <3>2 DEF XRayInv, XTyped, X!XRayTypeOK, Counts, Reservoirs
  <2>2. X!TakenWithinTime
    <3>1. /\ taken - astray - wonBack <= Worth(xNow + 1 + replaced)
          /\ taken \in Nat /\ astray \in Nat /\ wonBack \in Nat
      BY DEF XRayInv, XTyped, CreditKept
    <3>2. Worth(xNow + 1 + replaced) \in Int
      <4>1. xNow + 1 + replaced \in Int
        BY DEF XRayInv, XTyped
      <4>2. \A k \in Int : Worth(k) \in Int
        BY WorthAdds
      <4>3. QED BY <4>1, <4>2, Zenon
    <3>3. taken <= Worth(xNow + 1 + replaced) + astray + wonBack
      BY <3>1, <3>2
    <3>4. QED BY <3>3 DEF X!TakenWithinTime, Worth
  <2>3. QED BY <2>1, <2>2 DEF X!XRaySound, XRayInv, MatchesKept
<1>3. X!Spec => []XRayInv
  BY XRayInvInit, <1>1, PTL DEF X!Spec, X!xrayVars, xrayVars, X!callVars, X!history
<1>4. QED BY <1>2, <1>3, PTL

-----------------------------------------------------------------------------
(* Strategies of JaegerSampler.                                            *)

LEMMA PartCases ==
    ASSUME NEW p, StrategyPart(p)
    PROVE  \/ p.kind = "probabilistic" /\ p.rate \in Nat
           \/ p.kind = "rateLimiting" /\ p.limit \in Nat
           \/ /\ p.kind = "perOperation" /\ p.default \in Nat /\ p.lowerBound \in Nat
              /\ DOMAIN p.rates \subseteq Operations /\ \A o \in DOMAIN p.rates : p.rates[o] \in Nat
BY DEF StrategyPart

\* The part that counts is one of the strategy.
LEMMA RulingIsPart ==
    ASSUME NEW s \in Strategies, s # {}
    PROVE  J!Ruling(s) \in s /\ StrategyPart(J!Ruling(s))
<1>1. \A p \in s : p.kind \in {"perOperation", "probabilistic", "rateLimiting"}
  BY StrategyAssumption, PartCases
<1>2. \A p, q \in s : p.kind = q.kind => p = q
  BY StrategyAssumption
<1>3. \E p \in s : \A q \in s \ {p} : p.kind = "perOperation" \/ q.kind = "rateLimiting"
  <2>1. CASE \E p \in s : p.kind = "perOperation"
    BY <2>1
  <2>2. CASE \E p \in s : p.kind = "probabilistic" /\ \A q \in s : q.kind # "perOperation"
    BY <1>1, <1>2, <2>2
  <2>3. CASE \A p \in s : p.kind = "rateLimiting"
    BY <2>3
  <2>4. QED BY <1>1, <2>1, <2>2, <2>3
<1>4. J!Ruling(s) \in s
  BY <1>3 DEF J!Ruling
<1>5. QED BY <1>4, StrategyAssumption

-----------------------------------------------------------------------------
(* The highest rate.                                                       *)

LEMMA SameCardinality == \A S : J!Cardinality(S) = Cardinality(S)
BY DEF J!Cardinality, Cardinality

LEMMA LeastOne ==
    ASSUME NEW T, T \subseteq Nat, T # {}
    PROVE  \E n \in T : \A m \in T : n <= m
<1>1. PICK n \in T : \A m \in T : ~ (<<m, n>> \in OpToRel(<, Nat))
  BY NatLessThanWellFounded, WFMin
<1>2. ASSUME NEW m \in T PROVE n <= m
  <2>1. m < n => <<m, n>> \in OpToRel(<, Nat)
    BY DEF OpToRel
  <2>2. ~ (m < n)
    BY <2>1, <1>1, Zenon
  <2>3. QED BY <2>2
<1>3. QED BY <1>2

\* The greatest is the one with the fewest above it.
LEMMA GreatestOfFinite ==
    ASSUME NEW S \in SUBSET Int, IsFiniteSet(S), S # {}
    PROVE  J!Max(S) \in S /\ \A x \in S : x <= J!Max(S)
<1> DEFINE above(x) == {y \in S : y > x}
           counts == {Cardinality(above(x)) : x \in S}
<1>1. \A x \in S : IsFiniteSet(above(x)) /\ Cardinality(above(x)) \in Nat
  BY FS_Subset, FS_CardinalityType
<1>2. PICK n \in counts : \A m \in counts : n <= m
  <2>1. counts \subseteq Nat /\ counts # {}
    BY <1>1
  <2> HIDE DEF counts
  <2>2. QED BY <2>1, LeastOne
<1>3. PICK x \in S : n = Cardinality(above(x))
  OBVIOUS
<1>4. ASSUME NEW y \in S, y > x PROVE FALSE
  <2>1. above(y) \subseteq above(x) /\ above(y) # above(x)
    <3>1. y \in above(x) /\ y \notin above(y)
      BY <1>4
    <3>2. \A z \in above(y) : z \in above(x)
      BY <1>4
    <3>3. QED BY <3>1, <3>2
  <2>2. Cardinality(above(y)) <= Cardinality(above(x)) /\ Cardinality(above(y)) # Cardinality(above(x))
    <3> HIDE DEF above
    <3>1. IsFiniteSet(above(x))
      BY <1>1
    <3>2. QED BY <2>1, <3>1, FS_Subset
  <2>3. n <= Cardinality(above(y))
    BY <1>2
  <2>4. Cardinality(above(y)) \in Nat /\ Cardinality(above(x)) \in Nat
    BY <1>1
  <2>5. QED BY <1>3, <2>2, <2>3, <2>4
<1>5. \A y \in S : x >= y
  BY <1>4
<1>6. J!Max(S) \in S /\ \A y \in S : J!Max(S) >= y
  BY <1>5 DEF J!Max
<1>7. QED BY <1>6

Parts == UNION Strategies

Ceilings ==
    {J!Cost} \cup {J!Ceiling(p.lowerBound) : p \in {q \in Parts : q.kind = "perOperation"}}
             \cup {J!Ceiling(p.limit) : p \in {q \in Parts : q.kind = "rateLimiting"}}

LEMMA CeilingIs ==
    ASSUME NEW rate \in Nat
    PROVE  J!Ceiling(rate) \in Nat /\ J!Ceiling(rate) >= 2 /\ rate <= J!Ceiling(rate)
BY DEF J!Ceiling, J!Cost

LEMMA PartsAreFinite == IsFiniteSet(Parts)
BY StrategyAssumption, FS_UNION DEF Parts

LEMMA HighestIsHighest ==
    /\ J!HighestRate \in Nat /\ J!HighestRate >= 2
    /\ \A c \in Ceilings : c <= J!HighestRate
<1> DEFINE per == {q \in Parts : q.kind = "perOperation"}
           lim == {q \in Parts : q.kind = "rateLimiting"}
           low == {J!Ceiling(p.lowerBound) : p \in per}
           top == {J!Ceiling(p.limit) : p \in lim}
<1>1. IsFiniteSet(per) /\ IsFiniteSet(lim)
  BY PartsAreFinite, FS_Subset
<1>2. IsFiniteSet(low)
  <2> DEFINE f == [p \in per |-> J!Ceiling(p.lowerBound)]
  <2>1. f \in Surjection(per, low)
    BY DEF Surjection
  <2> HIDE DEF f, per, low
  <2>2. QED BY <1>1, <2>1, FS_Surjection
<1>3. IsFiniteSet(top)
  <2> DEFINE f == [p \in lim |-> J!Ceiling(p.limit)]
  <2>1. f \in Surjection(lim, top)
    BY DEF Surjection
  <2> HIDE DEF f, lim, top
  <2>2. QED BY <1>1, <2>1, FS_Surjection
<1>4. IsFiniteSet({J!Cost})
  BY FS_Singleton
<1>5. IsFiniteSet({J!Cost} \cup low)
  BY <1>2, <1>4, FS_Union
<1>6. IsFiniteSet(Ceilings)
  BY <1>3, <1>5, FS_Union DEF Ceilings
<1>7. \A p \in per : p.lowerBound \in Nat
  BY StrategyAssumption, PartCases DEF Parts
<1>8. \A p \in lim : p.limit \in Nat
  BY StrategyAssumption, PartCases DEF Parts
<1>9. Ceilings \subseteq Nat
  BY <1>7, <1>8, CeilingIs DEF Ceilings, J!Cost
<1>10. 2 \in Ceilings
  BY DEF Ceilings, J!Cost
<1>11. J!HighestRate = J!Max(Ceilings)
  BY DEF J!HighestRate, Ceilings, Parts
<1>12. J!Max(Ceilings) \in Ceilings /\ \A c \in Ceilings : c <= J!Max(Ceilings)
  BY <1>6, <1>9, <1>10, GreatestOfFinite
<1>13. QED BY <1>9, <1>10, <1>11, <1>12

LEMMA LeastOfTwo ==
    ASSUME NEW a \in Nat, NEW b \in Nat
    PROVE  J!Min({a, b}) \in Nat /\ J!Min({a, b}) <= a /\ J!Min({a, b}) <= b
<1>1. \E x \in {a, b} : \A y \in {a, b} : x <= y
  OBVIOUS
<1>2. J!Min({a, b}) \in {a, b} /\ \A y \in {a, b} : J!Min({a, b}) <= y
  BY <1>1 DEF J!Min
<1>3. QED BY <1>2

LEMMA GreatestOfTwo ==
    ASSUME NEW a \in Nat, NEW b \in Nat
    PROVE  J!Max({a, b}) \in Nat /\ a <= J!Max({a, b}) /\ b <= J!Max({a, b})
<1>1. \E x \in {a, b} : \A y \in {a, b} : x >= y
  OBVIOUS
<1>2. J!Max({a, b}) \in {a, b} /\ \A y \in {a, b} : J!Max({a, b}) >= y
  BY <1>1 DEF J!Max
<1>3. QED BY <1>2

-----------------------------------------------------------------------------
(***************************************************************************)
(* The credit of a limiter.  What it has given, and what its balance is    *)
(* worth at the highest rate, is earned by the seconds up to its last tick *)
(* and a full balance for each time it was made.  A balance counts in      *)
(* proportion to the ceiling of its rate, as updates of the rate keep it:  *)
(* so both sides are multiplied by that ceiling.                           *)
(***************************************************************************)
Earned(given, balance, due, ceiling) ==
    given * (J!Cost * ceiling) + J!HighestRate * balance <= (J!HighestRate * due) * ceiling

Fits(l, t, given, times) ==
    /\ l \in J!Limiters
    /\ l.lastTick <= t
    /\ J!Ceiling(l.rate) <= J!HighestRate
    /\ Earned(given, l.balance, l.lastTick + times, J!Ceiling(l.rate))

LEMMA ProductCommutes == \A a, b \in Nat : a * b = b * a /\ a * b \in Nat
OBVIOUS

LEMMA ProductCancels == \A a, b, c \in Nat : c >= 1 /\ c * a <= c * b => a <= b
<1> SUFFICES ASSUME NEW a \in Nat, NEW b \in Nat, NEW c \in Nat, c >= 1, c * a <= c * b, a >= b + 1
             PROVE  FALSE
  OBVIOUS
<1>1. c * (b + 1) <= c * a
  BY ProductGrows
<1>2. c * (b + 1) = c * b + c
  OBVIOUS
<1>3. c * a \in Nat /\ c * b \in Nat
  OBVIOUS
<1>4. QED BY <1>1, <1>2, <1>3

\* As time passes, a balance is filled up to the ceiling at most.
LEMMA EarnedWithTime ==
    ASSUME NEW g \in Nat, NEW b \in Nat, NEW due \in Nat, NEW c \in Nat, NEW d \in Nat, NEW b2 \in Nat,
           NEW rate \in Nat, rate <= c, b2 <= b + d * rate, Earned(g, b, due, c)
    PROVE  Earned(g, b2, due + d, c)
<1> DEFINE H == J!HighestRate
<1>1. H \in Nat
  BY HighestIsHighest
<1> HIDE DEF H
<1>2. d * rate <= d * c /\ d * rate \in Nat /\ d * c \in Nat
  BY ProductGrows
<1>3. b2 <= b + d * c
  BY <1>2
<1>4. H * b2 <= H * (b + d * c)
  BY <1>1, <1>2, <1>3, ProductGrows
<1>5. H * (b + d * c) = H * b + H * (d * c)
  BY <1>1, <1>2
<1>6. (H * (due + d)) * c = (H * due) * c + H * (d * c)
  BY <1>1
<1>7. g * (2 * c) + H * b <= (H * due) * c
  BY DEF Earned, J!Cost, H
<1>8. g * (2 * c) \in Nat /\ H * b \in Nat /\ (H * due) * c \in Nat /\ H * (d * c) \in Nat /\ H * b2 \in Nat
  BY <1>1, <1>2
<1>9. g * (2 * c) + H * b2 <= (H * (due + d)) * c
  BY <1>4, <1>5, <1>6, <1>7, <1>8
<1>10. QED BY <1>9 DEF Earned, J!Cost, H

\* A new rate keeps the balance in proportion.
LEMMA EarnedInProportion ==
    ASSUME NEW g \in Nat, NEW b \in Nat, NEW due \in Nat, NEW c \in Nat, NEW e \in Nat, c >= 1,
           Earned(g, b, due, c)
    PROVE  (b * e) \div c \in Nat /\ Earned(g, (b * e) \div c, due, e)
<1> DEFINE H == J!HighestRate
           q == (b * e) \div c
           w == H * due
           v == 2 * g
<1>1. H \in Nat /\ w \in Nat /\ v \in Nat
  BY HighestIsHighest
<1> HIDE DEF H, w, v
<1>2. q \in Nat /\ c * q <= b * e
  <2>1. b * e \in Nat
    OBVIOUS
  <2>2. QED BY <2>1
<1> HIDE DEF q
<1>3. v * c + H * b <= w * c
  <2>1. g * (2 * c) = v * c
    BY DEF v
  <2>2. QED BY <2>1 DEF Earned, J!Cost, H, w
<1>4. e * (v * c + H * b) <= e * (w * c)
  <2>1. v * c + H * b \in Nat /\ w * c \in Nat
    BY <1>1
  <2>2. QED BY <2>1, <1>3, ProductGrows
<1>5. H * (c * q) <= H * (b * e)
  BY <1>1, <1>2, ProductGrows, ProductCommutes
<1>6. c * (v * e + H * q) <= c * (w * e)
  <2>1. e * (v * c + H * b) = e * (v * c) + H * (b * e) /\ e * (v * c) = c * (v * e)
    BY <1>1
  <2>2. c * (v * e + H * q) = c * (v * e) + H * (c * q)
    BY <1>1, <1>2
  <2>3. e * (w * c) = c * (w * e)
    BY <1>1
  <2>4. c * (v * e) \in Nat /\ H * (c * q) \in Nat /\ H * (b * e) \in Nat /\ c * (w * e) \in Nat
    BY <1>1, <1>2
  <2>5. QED BY <1>4, <1>5, <2>1, <2>2, <2>3, <2>4
<1>7. v * e + H * q <= w * e
  <2>1. v * e + H * q \in Nat /\ w * e \in Nat
    BY <1>1, <1>2
  <2>2. QED BY <2>1, <1>6, ProductCancels
<1>8. g * (2 * e) = v * e
  BY DEF v
<1>9. Earned(g, q, due, e)
  BY <1>7, <1>8 DEF Earned, J!Cost, H, w
<1>10. QED BY <1>2, <1>9 DEF q

\* A trace costs no more than a second earns at the highest rate.
LEMMA EarnedSpent ==
    ASSUME NEW g \in Nat, NEW b \in Nat, NEW due \in Nat, NEW c \in Nat, c <= J!HighestRate, b >= 2,
           Earned(g, b, due, c)
    PROVE  Earned(g + 1, b - 2, due, c)
<1> DEFINE H == J!HighestRate
<1>1. H \in Nat
  BY HighestIsHighest
<1>2. c <= H
  OBVIOUS
<1> HIDE DEF H
<1>3. (g + 1) * (2 * c) = g * (2 * c) + 2 * c
  OBVIOUS
<1>4. H * (b - 2) = H * b - 2 * H
  BY <1>1
<1>5. g * (2 * c) + H * b <= (H * due) * c
  BY DEF Earned, J!Cost, H
<1>6. g * (2 * c) \in Nat /\ H * b \in Nat /\ (H * due) * c \in Nat
  BY <1>1
<1>7. (g + 1) * (2 * c) + H * (b - 2) <= (H * due) * c
  BY <1>1, <1>2, <1>3, <1>4, <1>5, <1>6
<1>8. QED BY <1>7 DEF Earned, J!Cost, H

\* A new limiter has a full balance, for which it was counted as made.
LEMMA EarnedAnew ==
    ASSUME NEW g \in Nat, NEW due \in Nat, NEW c \in Nat, g * J!Cost <= J!HighestRate * due
    PROVE  Earned(g, c, due + 1, c)
<1> DEFINE H == J!HighestRate
<1>1. H \in Nat
  BY HighestIsHighest
<1>2. g * 2 <= H * due
  BY DEF J!Cost
<1> HIDE DEF H
<1>3. c * (g * 2) <= c * (H * due)
  BY <1>1, <1>2, ProductGrows, ProductCommutes
<1>4. g * (2 * c) = c * (g * 2) /\ (H * (due + 1)) * c = c * (H * due) + H * c
  BY <1>1
<1>5. c * (g * 2) \in Nat /\ c * (H * due) \in Nat /\ H * c \in Nat
  BY <1>1
<1>6. g * (2 * c) + H * c <= (H * (due + 1)) * c
  BY <1>3, <1>4, <1>5
<1>7. QED BY <1>6 DEF Earned, J!Cost, H

\* What was given is within the time up to now.
LEMMA EarnedInTime ==
    ASSUME NEW g \in Nat, NEW b \in Nat, NEW due \in Nat, NEW later \in Nat, due <= later,
           NEW c \in Nat, c >= 1, Earned(g, b, due, c)
    PROVE  g * J!Cost <= J!HighestRate * later
<1> DEFINE H == J!HighestRate
<1>1. H \in Nat
  BY HighestIsHighest
<1> HIDE DEF H
<1>2. g * (2 * c) + H * b <= (H * due) * c
  BY DEF Earned, J!Cost, H
<1>3. g * (2 * c) = c * (2 * g) /\ (H * due) * c = c * (H * due)
  BY <1>1
<1>4. c * (2 * g) <= c * (H * due)
  <2>1. c * (2 * g) \in Nat /\ H * b \in Nat /\ c * (H * due) \in Nat
    BY <1>1
  <2>2. QED BY <1>2, <1>3, <2>1
<1>5. 2 * g <= H * due
  BY <1>1, <1>4, ProductCancels, ProductCommutes
<1>6. H * due <= H * later
  BY <1>1, ProductGrows
<1>7. g * 2 <= H * later
  BY <1>1, <1>5, <1>6, ProductCommutes
<1>8. QED BY <1>7 DEF J!Cost, H

LEMMA LaterStillEarned ==
    ASSUME NEW g \in Nat, NEW due \in Nat, NEW later \in Nat, due <= later,
           g * J!Cost <= J!HighestRate * due
    PROVE  g * J!Cost <= J!HighestRate * later
<1>1. J!HighestRate * due <= J!HighestRate * later
  BY HighestIsHighest, ProductGrows
<1>2. J!HighestRate * due \in Nat /\ J!HighestRate * later \in Nat /\ g * J!Cost \in Nat
  BY HighestIsHighest DEF J!Cost
<1>3. QED BY <1>1, <1>2

LEMMA LimiterRecord ==
    ASSUME NEW l \in J!Limiters
    PROVE  /\ l.rate \in Nat /\ l.balance \in Nat /\ l.lastTick \in Nat /\ l.lastTick \in 0..MaxTime
           /\ l = [rate |-> l.rate, balance |-> l.balance, lastTick |-> l.lastTick]
BY XRayAssumption DEF J!Limiters

LEMMA FitsLater ==
    ASSUME NEW l, NEW t \in Nat, NEW g, NEW m, Fits(l, t, g, m), NEW later \in Nat, t <= later
    PROVE  Fits(l, later, g, m)
BY LimiterRecord DEF Fits

LEMMA UpdatedBalanceFits ==
    ASSUME NEW l, NEW g \in Nat, NEW m \in Nat, jNow \in 0..MaxTime, Fits(l, jNow, g, m)
    PROVE  Fits(J!UpdateBalance(l), jNow, g, m) /\ J!UpdateBalance(l).rate = l.rate
<1>1. jNow \in Nat
  BY XRayAssumption
<1>2. l \in J!Limiters /\ l.lastTick <= jNow
  BY DEF Fits
<1>3. l.rate \in Nat /\ l.balance \in Nat /\ l.lastTick \in Nat
  BY <1>2, LimiterRecord
<1> DEFINE d == jNow - l.lastTick
           c == J!Ceiling(l.rate)
           b == J!Min({l.balance + d * l.rate, c})
<1>4. d \in Nat /\ d * l.rate \in Nat
  BY <1>1, <1>2, <1>3
<1>5. c \in Nat /\ l.rate <= c
  BY <1>3, CeilingIs
<1>6. l.balance + d * l.rate \in Nat
  BY <1>3, <1>4
<1> DEFINE u == [l EXCEPT !.lastTick = jNow, !.balance = b]
<1>7. J!UpdateBalance(l) = u
  <2>1. l.balance + (jNow - l.lastTick) * l.rate = l.balance + d * l.rate
    OBVIOUS
  <2>2. QED BY <1>2 DEF J!UpdateBalance, J!Limiters
<1> HIDE DEF c, d
<1>8. b \in Nat /\ b <= l.balance + d * l.rate
  BY <1>5, <1>6, LeastOfTwo
<1> HIDE DEF b
<1>9. u \in J!Limiters /\ u.rate = l.rate /\ u.balance = b /\ u.lastTick = jNow
  BY <1>2, <1>8 DEF J!Limiters
<1>10. Earned(g, l.balance, l.lastTick + m, c)
  BY DEF Fits, c
<1>11. Earned(g, b, (l.lastTick + m) + d, c)
  <2>1. l.lastTick + m \in Nat
    BY <1>3
  <2>2. QED BY <1>3, <1>4, <1>5, <1>8, <1>10, <2>1, EarnedWithTime
<1>12. (l.lastTick + m) + d = jNow + m
  BY <1>1, <1>3 DEF d
<1>13. Earned(g, b, jNow + m, c)
  BY <1>11, <1>12
<1>14. J!Ceiling(l.rate) <= J!HighestRate
  BY DEF Fits
<1> HIDE DEF u
<1>15. QED BY <1>1, <1>7, <1>9, <1>13, <1>14 DEF Fits, c

\* Neither does an update of the rate give any credit away.
LEMMA UpdatedLimiterFits ==
    ASSUME NEW l, NEW g \in Nat, NEW m \in Nat, jNow \in 0..MaxTime, Fits(l, jNow, g, m),
           NEW rate \in Nat, J!Ceiling(rate) <= J!HighestRate
    PROVE  /\ Fits(J!UpdateLimiter(l, rate), jNow, g, m)
           /\ J!UpdateLimiter(l, rate).rate = rate
<1>1. CASE rate = l.rate
  BY <1>1 DEF J!UpdateLimiter
<1>2. CASE rate # l.rate
  <2> DEFINE u == J!UpdateBalance(l)
             c == J!Ceiling(l.rate)
             e == J!Ceiling(rate)
             b == (u.balance * e) \div c
             v == [u EXCEPT !.rate = rate, !.balance = b]
  <2>1. Fits(u, jNow, g, m) /\ u.rate = l.rate
    BY UpdatedBalanceFits
  <2>2. J!UpdateLimiter(l, rate) = v
    <3>1. u \in J!Limiters
      BY <2>1 DEF Fits
    <3> HIDE DEF u
    <3>2. [u EXCEPT !.rate = rate, !.balance = (@ * J!Ceiling(rate)) \div J!Ceiling(l.rate)] = v
      BY <3>1 DEF J!Limiters
    <3>3. QED BY <1>2, <3>2 DEF J!UpdateLimiter, u
  <2> HIDE DEF u
  <2>3. u \in J!Limiters /\ u.balance \in Nat /\ u.lastTick \in Nat /\ u.lastTick <= jNow
    <3>1. u \in J!Limiters /\ u.lastTick <= jNow
      BY <2>1 DEF Fits
    <3>2. QED BY <3>1, LimiterRecord
  <2>4. c \in Nat /\ c >= 1 /\ e \in Nat
    <3>1. l.rate \in Nat
      BY LimiterRecord DEF Fits
    <3>2. QED BY <3>1, CeilingIs
  <2>5. Earned(g, u.balance, u.lastTick + m, c)
    BY <2>1 DEF Fits
  <2>6. e <= J!HighestRate
    OBVIOUS
  <2> HIDE DEF c
  <2>7. b \in Nat /\ Earned(g, b, u.lastTick + m, e)
    <3>1. u.lastTick + m \in Nat
      BY <2>3
    <3> HIDE DEF e
    <3>2. QED BY <2>3, <2>4, <2>5, <3>1, EarnedInProportion
  <2> HIDE DEF b
  <2>8. v \in J!Limiters /\ v.rate = rate /\ v.balance = b /\ v.lastTick = u.lastTick
    BY <2>3, <2>7 DEF J!Limiters
  <2> HIDE DEF v
  <2>9. Fits(v, jNow, g, m)
    BY <2>3, <2>6, <2>7, <2>8 DEF Fits, e
  <2>10. QED BY <2>2, <2>8, <2>9
<1>3. QED BY <1>1, <1>2

LEMMA NewLimiterFits ==
    ASSUME NEW g \in Nat, NEW m \in Nat, jNow \in 0..MaxTime, NEW rate \in Nat,
           J!Ceiling(rate) <= J!HighestRate, g * J!Cost <= J!HighestRate * (jNow + m)
    PROVE  Fits(J!NewLimiter(rate), jNow, g, m + 1) /\ J!NewLimiter(rate).rate = rate
<1> DEFINE c == J!Ceiling(rate)
           n == [rate |-> rate, balance |-> c, lastTick |-> jNow]
<1>1. c \in Nat /\ jNow \in Nat /\ c <= J!HighestRate
  BY CeilingIs, XRayAssumption
<1>2. J!NewLimiter(rate) = n
  BY DEF J!NewLimiter
<1> HIDE DEF c
<1>3. n \in J!Limiters /\ n.rate = rate /\ n.balance = c /\ n.lastTick = jNow
  BY <1>1 DEF J!Limiters
<1> HIDE DEF n
<1>4. Earned(g, c, (jNow + m) + 1, c)
  <2>1. jNow + m \in Nat
    BY <1>1
  <2>2. QED BY <1>1, <2>1, EarnedAnew
<1>5. (jNow + m) + 1 = jNow + (m + 1)
  BY <1>1
<1>6. QED BY <1>1, <1>2, <1>3, <1>4, <1>5 DEF Fits, c

\* A credit is given when there is enough of a balance to pay for it.
LEMMA CheckedFits ==
    ASSUME NEW l, NEW g \in Nat, NEW m \in Nat, jNow \in 0..MaxTime, Fits(l, jNow, g, m)
    PROVE  /\ Fits(J!Checked(l).limiter, jNow, IF J!Checked(l).enough THEN g + 1 ELSE g, m)
           /\ J!Checked(l).limiter.rate = l.rate
<1> DEFINE u == IF l.balance >= J!Cost THEN l ELSE J!UpdateBalance(l)
           v == [u EXCEPT !.balance = @ - J!Cost]
<1>1. /\ J!Checked(l).enough => u.balance >= J!Cost /\ J!Checked(l).limiter = v
      /\ ~J!Checked(l).enough => J!Checked(l).limiter = u
  BY DEF J!Checked
<1>2. Fits(u, jNow, g, m) /\ u.rate = l.rate
  BY UpdatedBalanceFits
<1> HIDE DEF u
<1>3. u \in J!Limiters /\ u.balance \in Nat /\ u.lastTick \in Nat /\ u.rate \in Nat
  BY <1>2, LimiterRecord DEF Fits
<1>4. CASE J!Checked(l).enough
  <2>1. u.balance >= 2 /\ u.balance - J!Cost = u.balance - 2 /\ u.balance - 2 \in Nat
    BY <1>1, <1>3, <1>4 DEF J!Cost
  <2>2. v \in J!Limiters /\ v.rate = u.rate /\ v.balance = u.balance - 2 /\ v.lastTick = u.lastTick
    BY <1>3, <2>1 DEF J!Limiters
  <2>3. J!Ceiling(u.rate) \in Nat /\ J!Ceiling(u.rate) <= J!HighestRate
    BY <1>2, <1>3, CeilingIs DEF Fits
  <2>4. Earned(g + 1, u.balance - 2, u.lastTick + m, J!Ceiling(u.rate))
    <3>1. Earned(g, u.balance, u.lastTick + m, J!Ceiling(u.rate)) /\ u.lastTick + m \in Nat
      BY <1>2, <1>3 DEF Fits
    <3>2. QED BY <1>3, <2>1, <2>3, <3>1, EarnedSpent
  <2> HIDE DEF v
  <2>5. Fits(v, jNow, g + 1, m)
    BY <1>2, <2>2, <2>3, <2>4 DEF Fits
  <2>6. QED BY <1>1, <1>2, <1>4, <2>2, <2>5
<1>5. CASE ~J!Checked(l).enough
  BY <1>1, <1>2, <1>5
<1>6. QED BY <1>4, <1>5

LEMMA FitsInTime ==
    ASSUME NEW l, NEW t \in Nat, NEW g \in Nat, NEW m \in Nat, Fits(l, t, g, m)
    PROVE  g * J!Cost <= J!HighestRate * (t + m)
<1>1. l.lastTick \in Nat /\ l.balance \in Nat /\ l.rate \in Nat /\ l.lastTick <= t
  BY LimiterRecord DEF Fits
<1>2. J!Ceiling(l.rate) \in Nat /\ J!Ceiling(l.rate) >= 1
  BY <1>1, CeilingIs
<1>3. l.lastTick + m \in Nat /\ t + m \in Nat /\ l.lastTick + m <= t + m
  BY <1>1
<1>4. Earned(g, l.balance, l.lastTick + m, J!Ceiling(l.rate))
  BY DEF Fits
<1>5. QED BY <1>1, <1>2, <1>3, <1>4, EarnedInTime

-----------------------------------------------------------------------------
(* The states of the sampler.                                              *)

Keyed == Operations \cup {J!All}

JTyped ==
    /\ jNow \in 0..MaxTime
    /\ requestAt \in [Requests -> {"out", "missed", "found"}]
    /\ op \in [Requests -> Keyed]
    /\ updateAt \in [J!Updaters -> {"idle", "fetch", "lock", "stopped"}]
    /\ closeAt \in {"open", "sending", "waiting", "returned"}
    /\ answer \in [J!Updaters -> Strategies \cup {{}}]
    /\ made \in [Keyed -> Nat]
    /\ granted \in [Keyed -> Nat]

Entries == [rate : 0..2, limiter : J!Limiters]

Shaped ==
    \/ sampler \in [kind : {"probabilistic"}, rate : 0..2]
    \/ sampler \in [kind : {"rateLimiting"}, limiter : J!Limiters]
    \/ \E known \in SUBSET Operations :
           sampler \in [kind : {"perOperation"}, lowerBound : Nat, default : 0..2,
                        samplers : [known -> Entries]]

\* What a request has found under the read lock is there until it decides.
Finding ==
    \A r \in Requests :
        /\ requestAt[r] = "missed" => J!PerOperation
        /\ requestAt[r] \in {"missed", "found"} => op[r] \in Operations
        /\ requestAt[r] = "found" /\ J!PerOperation => op[r] \in DOMAIN sampler.samplers

Follows(p) ==
    /\ sampler.kind = p.kind
    /\ p.kind = "perOperation" =>
           /\ sampler.lowerBound = p.lowerBound /\ sampler.default = J!Clamp(p.default)
           /\ DOMAIN p.rates \subseteq DOMAIN sampler.samplers
           /\ \A o \in DOMAIN sampler.samplers :
                  /\ sampler.samplers[o].limiter.rate = p.lowerBound
                  /\ sampler.samplers[o].rate =
                         J!Clamp(IF o \in DOMAIN p.rates THEN p.rates[o] ELSE p.default)
    /\ p.kind = "probabilistic" => sampler = J!Probabilistic(p.rate)
    /\ p.kind = "rateLimiting"  => sampler.limiter.rate = p.limit

Forced ==
    /\ inForce = {} => sampler.kind = "probabilistic"
    /\ inForce # {} => inForce \in Strategies /\ Follows(J!Ruling(inForce))

LimiterOf(sam, k) == IF sam.kind = "perOperation" THEN sam.samplers[k].limiter ELSE sam.limiter

Credits ==
    /\ \A k \in J!Keys(sampler) : Fits(LimiterOf(sampler, k), jNow, granted[k], made[k])
    /\ \A k \in Keyed : granted[k] * J!Cost <= J!HighestRate * (jNow + made[k])

JaegerInv == JTyped /\ Shaped /\ Finding /\ Forced /\ J!OperationsBounded /\ Credits

-----------------------------------------------------------------------------
(* The rates of a strategy.                                                *)

LEMMA RatesOfPart ==
    ASSUME NEW s \in Strategies, NEW p \in s
    PROVE  /\ p.kind = "perOperation" => p.lowerBound \in Nat /\ J!Ceiling(p.lowerBound) <= J!HighestRate
           /\ p.kind = "rateLimiting" => p.limit \in Nat /\ J!Ceiling(p.limit) <= J!HighestRate
<1>1. p \in Parts /\ StrategyPart(p)
  BY StrategyAssumption DEF Parts
<1>2. p.kind = "perOperation" => J!Ceiling(p.lowerBound) \in Ceilings
  BY <1>1 DEF Ceilings
<1>3. p.kind = "rateLimiting" => J!Ceiling(p.limit) \in Ceilings
  BY <1>1 DEF Ceilings
<1>4. QED BY <1>1, <1>2, <1>3, PartCases, HighestIsHighest

LEMMA ClampIs == ASSUME NEW rate \in Nat PROVE J!Clamp(rate) \in 0..2
BY DEF J!Clamp

\* The keys of a sampler, by its kind.
LEMMA ShapeOf ==
    ASSUME Shaped
    PROVE  /\ sampler.kind = "probabilistic" => sampler.rate \in 0..2 /\ J!Keys(sampler) = {}
           /\ sampler.kind = "rateLimiting" => sampler.limiter \in J!Limiters /\ J!Keys(sampler) = {J!All}
           /\ sampler.kind = "perOperation" =>
                  /\ sampler.lowerBound \in Nat /\ sampler.default \in 0..2
                  /\ DOMAIN sampler.samplers \subseteq Operations
                  /\ sampler.samplers \in [DOMAIN sampler.samplers -> Entries]
                  /\ J!Keys(sampler) = DOMAIN sampler.samplers
           /\ sampler.kind \in {"probabilistic", "rateLimiting", "perOperation"}
           /\ J!Keys(sampler) \subseteq Keyed
<1>1. CASE sampler \in [kind : {"probabilistic"}, rate : 0..2]
  BY <1>1 DEF J!Keys
<1>2. CASE sampler \in [kind : {"rateLimiting"}, limiter : J!Limiters]
  BY <1>2 DEF J!Keys, Keyed
<1>3. ASSUME NEW known \in SUBSET Operations,
             sampler \in [kind : {"perOperation"}, lowerBound : Nat, default : 0..2,
                          samplers : [known -> Entries]]
      PROVE  /\ sampler.kind = "perOperation" /\ sampler.lowerBound \in Nat /\ sampler.default \in 0..2
             /\ DOMAIN sampler.samplers \subseteq Operations
             /\ sampler.samplers \in [DOMAIN sampler.samplers -> Entries]
             /\ J!Keys(sampler) = DOMAIN sampler.samplers
  BY <1>3 DEF J!Keys
<1>4. CASE \E known \in SUBSET Operations :
           sampler \in [kind : {"perOperation"}, lowerBound : Nat, default : 0..2,
                        samplers : [known -> Entries]]
  BY <1>3, <1>4 DEF Keyed
<1>5. QED BY <1>1, <1>2, <1>4 DEF Shaped

LEMMA JaegerInvInit == J!Init => JaegerInv
<1> SUFFICES ASSUME J!Init PROVE JaegerInv
  OBVIOUS
<1> USE DEF J!Init, J!Probabilistic, J!Clamp
<1>1. JTyped
  BY XRayAssumption DEF JTyped, Keyed, J!Updaters
<1>2. sampler \in [kind : {"probabilistic"}, rate : 0..2] /\ sampler.kind = "probabilistic"
  OBVIOUS
<1>3. Shaped /\ Forced /\ J!OperationsBounded
  BY <1>2 DEF Shaped, Forced, J!OperationsBounded, J!PerOperation
<1>4. Finding
  BY DEF Finding
<1>5. J!Keys(sampler) = {}
  BY <1>2 DEF J!Keys
<1>6. \A k \in Keyed : granted[k] * J!Cost <= J!HighestRate * (jNow + made[k])
  BY HighestIsHighest DEF Keyed, J!Cost
<1>7. QED BY <1>1, <1>3, <1>4, <1>5, <1>6 DEF JaegerInv, Credits

-----------------------------------------------------------------------------
(* The steps that change no sampler.                                       *)

LEMMA SameSampler ==
    ASSUME JaegerInv, UNCHANGED <<sampler, inForce, made, granted>>,
           JTyped', jNow <= jNow', Finding'
    PROVE  JaegerInv'
<1> USE DEF JaegerInv
<1>1. Shaped' /\ Forced' /\ J!OperationsBounded'
  BY DEF Shaped, Forced, Follows, J!OperationsBounded, J!PerOperation
<1>2. jNow \in Nat /\ jNow' \in Nat
  BY XRayAssumption DEF JTyped
<1>3. J!Keys(sampler) \subseteq Keyed
  BY ShapeOf
<1>4. \A k \in J!Keys(sampler) : Fits(LimiterOf(sampler, k), jNow', granted[k], made[k])
  BY <1>2, <1>3, FitsLater DEF Credits
<1>5. ASSUME NEW k \in Keyed
      PROVE  granted[k] * J!Cost <= J!HighestRate * (jNow' + made[k])
  <2>1. granted[k] \in Nat /\ made[k] \in Nat
    BY <1>5 DEF JTyped
  <2>2. jNow + made[k] \in Nat /\ jNow' + made[k] \in Nat /\ jNow + made[k] <= jNow' + made[k]
    BY <1>2, <2>1
  <2>3. QED BY <2>1, <2>2, LaterStillEarned DEF Credits
<1>6. Credits'
  <2>1. J!Keys(sampler)' = J!Keys(sampler)
    BY DEF J!Keys
  <2>2. \A k : LimiterOf(sampler, k)' = LimiterOf(sampler, k)
    BY DEF LimiterOf
  <2>3. QED BY <1>4, <1>5, <2>1, <2>2 DEF Credits
<1>7. QED BY <1>1, <1>6

LEMMA QuietKeeps ==
    ASSUME JaegerInv,
           \/ J!Tick \/ J!Close \/ J!Stop
           \/ \E u \in J!Updaters : J!StartUpdate(u) \/ J!FetchFails(u) \/ J!Fetched(u)
    PROVE  JaegerInv'
<1> USE DEF JaegerInv, J!UpdateGoto
<1>1. CASE J!Tick
  <2>1. JTyped' /\ jNow <= jNow'
    BY <1>1, XRayAssumption DEF J!Tick, JTyped
  <2>2. Finding' /\ UNCHANGED <<sampler, inForce, made, granted>>
    BY <1>1 DEF J!Tick, Finding, J!PerOperation
  <2>3. QED BY <2>1, <2>2, SameSampler
<1>2. ASSUME NEW u \in J!Updaters, J!StartUpdate(u) \/ J!FetchFails(u) \/ J!Fetched(u)
      PROVE  JaegerInv'
  <2>1. JTyped' /\ jNow' = jNow
    BY <1>2 DEF J!StartUpdate, J!FetchFails, J!Fetched, JTyped
  <2>2. Finding' /\ UNCHANGED <<sampler, inForce, made, granted>>
    BY <1>2 DEF J!StartUpdate, J!FetchFails, J!Fetched, Finding, J!PerOperation
  <2>3. QED BY <2>1, <2>2, SameSampler, XRayAssumption DEF JTyped
<1>3. CASE J!Close \/ J!Stop
  <2>1. JTyped' /\ jNow' = jNow
    BY <1>3 DEF J!Close, J!Stop, JTyped
  <2>2. Finding' /\ UNCHANGED <<sampler, inForce, made, granted>>
    BY <1>3 DEF J!Close, J!Stop, Finding, J!PerOperation
  <2>3. QED BY <2>1, <2>2, SameSampler, XRayAssumption DEF JTyped
<1>4. QED BY <1>1, <1>2, <1>3

LEMMA BeginKeeps ==
    ASSUME JaegerInv, NEW r \in Requests, J!Begin(r)
    PROVE  JaegerInv'
<1> USE DEF JaegerInv
<1>1. UNCHANGED <<sampler, inForce, made, granted, jNow, updateAt, answer, closeAt>>
  BY DEF J!Begin, J!requestVars
<1>2. PICK o \in Operations : op' = [op EXCEPT ![r] = o]
  BY DEF J!Begin
<1>3. op' \in [Requests -> Keyed] /\ op'[r] = o /\ \A q \in Requests \ {r} : op'[q] = op[q]
  BY <1>2 DEF JTyped, Keyed
<1>4. /\ requestAt' \in [Requests -> {"out", "missed", "found"}]
      /\ requestAt'[r] = "missed" => J!PerOperation
      /\ requestAt'[r] = "found" /\ J!PerOperation => o \in DOMAIN sampler.samplers
      /\ \A q \in Requests \ {r} : requestAt'[q] = requestAt[q]
  BY <1>3 DEF J!Begin, JTyped
<1>5. JTyped'
  BY <1>1, <1>3, <1>4 DEF JTyped
<1>6. Finding'
  BY <1>1, <1>2, <1>3, <1>4 DEF Finding, J!PerOperation
<1>7. QED BY <1>1, <1>5, <1>6, SameSampler, XRayAssumption DEF JTyped

-----------------------------------------------------------------------------
(* A request that makes an operation known.                                *)

LEMMA MakeKeeps ==
    ASSUME JaegerInv, NEW r \in Requests, J!Make(r)
    PROVE  JaegerInv'
<1> USE DEF JaegerInv
<1> DEFINE known == DOMAIN sampler.samplers
           k == op[r]
<1>1. /\ requestAt[r] = "missed" /\ sampler.kind = "perOperation" /\ k \in Operations
      /\ UNCHANGED <<jNow, updateAt, answer, fetches, closeAt, inForce, granted>>
  BY DEF J!Make, J!requestVars, Finding, J!PerOperation
<1>0. J!Cardinality(known) = Cardinality(known) /\ Cardinality(known) \in Nat /\ MaxOperations \in Nat
  BY <1>1, ShapeOf, StrategyAssumption, SameCardinality, FS_Subset, FS_CardinalityType
<1>2. CASE k \in known \/ Cardinality(known) >= MaxOperations
  <2>1. /\ UNCHANGED <<sampler, made>>
        /\ \/ requestAt' = [requestAt EXCEPT ![r] = "found"] /\ k \in known
           \/ requestAt' = [requestAt EXCEPT ![r] = "out"]
    <3>1. CASE k \in known
      BY <3>1 DEF J!Make
    <3>2. CASE k \notin known /\ Cardinality(known) >= MaxOperations
      BY <1>0, <3>2 DEF J!Make
    <3>3. QED BY <1>2, <3>1, <3>2
  <2>2. op' = [op EXCEPT ![r] = J!All] \/ op' = op
    BY DEF J!Make
  <2>3. requestAt'[r] = "found" => op' = op
    BY DEF J!Make
  <2>4. JTyped'
    BY <1>1, <2>1, <2>2 DEF JTyped, Keyed
  <2>5. Finding'
    <3>1. ASSUME NEW q \in Requests, q # r
          PROVE  requestAt'[q] = requestAt[q] /\ op'[q] = op[q]
      BY <2>1, <2>2, <3>1 DEF JTyped
    <3>2. /\ requestAt'[r] \in {"found", "out"}
          /\ requestAt'[r] = "found" => k \in known /\ op'[r] = k
      BY <2>1, <2>3 DEF JTyped
    <3>3. QED BY <1>1, <2>1, <3>1, <3>2 DEF Finding, J!PerOperation
  <2>6. QED BY <1>1, <2>1, <2>4, <2>5, SameSampler, XRayAssumption DEF JTyped
<1>3. CASE k \notin known /\ ~(Cardinality(known) >= MaxOperations)
  <2> DEFINE e == [rate |-> sampler.default, limiter |-> J!NewLimiter(sampler.lowerBound)]
             all == [o \in known \cup {k} |-> IF o \in known THEN sampler.samplers[o] ELSE e]
             p == J!Ruling(inForce)
  <2>1. /\ sampler' = [sampler EXCEPT !.samplers = all]
        /\ made' = [made EXCEPT ![k] = @ + 1]
        /\ requestAt' = [requestAt EXCEPT ![r] = "found"]
        /\ op' = op
    <3>1. op[r] \notin DOMAIN sampler.samplers /\ ~(Cardinality(DOMAIN sampler.samplers) >= MaxOperations)
      BY <1>3
    <3>2. requestAt' = [requestAt EXCEPT ![r] = "found"] /\ made' = [made EXCEPT ![op[r]] = @ + 1]
      BY <1>0, <3>1 DEF J!Make
    <3>3. sampler' = [sampler EXCEPT !.samplers = all]
      BY <1>0, <3>1 DEF J!Make
    <3>4. requestAt'[r] = "found"
      BY <3>2 DEF JTyped
    <3>5. op' = op
      BY <3>4 DEF J!Make
    <3>6. QED BY <3>2, <3>3, <3>5
  <2>2. /\ sampler.lowerBound \in Nat /\ sampler.default \in 0..2 /\ known \subseteq Operations
        /\ sampler.samplers \in [known -> Entries]
    BY <1>1, ShapeOf
  <2>3. inForce \in Strategies /\ inForce # {} /\ Follows(p) /\ p \in inForce /\ StrategyPart(p)
    BY <1>1, RulingIsPart DEF Forced
  <2>4. /\ p.kind = "perOperation" /\ sampler.lowerBound = p.lowerBound
        /\ sampler.default = J!Clamp(p.default) /\ DOMAIN p.rates \subseteq known
        /\ J!Ceiling(p.lowerBound) <= J!HighestRate
    BY <1>1, <2>3, RatesOfPart DEF Follows
  <2>5. granted[k] \in Nat /\ made[k] \in Nat /\ k \in Keyed
    BY <1>1 DEF JTyped, Keyed
  <2>6. Fits(e.limiter, jNow, granted[k], made[k] + 1) /\ e.limiter.rate = p.lowerBound
    <3>1. granted[k] * J!Cost <= J!HighestRate * (jNow + made[k]) /\ jNow \in 0..MaxTime
      BY <2>5 DEF Credits, JTyped
    <3>2. e.limiter = J!NewLimiter(sampler.lowerBound) /\ sampler.lowerBound = p.lowerBound
      BY <2>4
    <3> HIDE DEF p, e
    <3>3. QED BY <2>2, <2>4, <2>5, <3>1, <3>2, NewLimiterFits
  <2>7. e \in Entries
    BY <2>2, <2>6 DEF Fits, Entries
  <2>8. e.rate = sampler.default /\ e.limiter.rate = p.lowerBound
    BY <2>6
  <2> HIDE DEF e
  <2>9. all \in [known \cup {k} -> Entries]
    BY <2>2, <2>7
  <2>10. all[k] = e /\ \A o \in known : all[o] = sampler.samplers[o]
    BY <1>3
  <2> HIDE DEF all
  <2>11. \E old \in SUBSET Operations :
             sampler \in [kind : {"perOperation"}, lowerBound : Nat, default : 0..2,
                          samplers : [old -> Entries]]
    BY <1>1 DEF Shaped
  <2>12. /\ sampler' \in [kind : {"perOperation"}, lowerBound : Nat, default : 0..2,
                          samplers : [known \cup {k} -> Entries]]
         /\ sampler'.samplers = all /\ sampler'.kind = "perOperation"
         /\ sampler'.lowerBound = sampler.lowerBound /\ sampler'.default = sampler.default
    BY <2>1, <2>9, <2>11
  <2>13. DOMAIN sampler'.samplers = known \cup {k}
    BY <2>9, <2>12
  <2>14. Shaped'
    <3>1. known \cup {k} \in SUBSET Operations
      BY <1>1, <2>2
    <3>2. QED BY <2>12, <3>1 DEF Shaped
  <2>15. JTyped'
    BY <1>1, <2>1, <2>5 DEF JTyped
  <2>16. Finding'
    BY <1>1, <2>1, <2>12, <2>13 DEF Finding, JTyped, J!PerOperation
  <2>17. Forced'
    <3>1. ASSUME NEW o \in known \cup {k}
          PROVE  /\ all[o].limiter.rate = p.lowerBound
                 /\ all[o].rate = J!Clamp(IF o \in DOMAIN p.rates THEN p.rates[o] ELSE p.default)
      <4>1. CASE o \in known
        BY <2>3, <2>4, <2>10, <4>1 DEF Follows
      <4>2. CASE o = k
        BY <1>3, <2>4, <2>8, <2>10, <4>2
      <4>3. QED BY <4>1, <4>2
    <3>2. Follows(p)'
      BY <1>1, <2>4, <2>12, <2>13, <3>1 DEF Follows
    <3>3. QED BY <1>1, <2>3, <3>2 DEF Forced
  <2>18. J!OperationsBounded'
    <3>1. IsFiniteSet(known) /\ Cardinality(known) \in Nat
      BY <2>2, StrategyAssumption, FS_Subset, FS_CardinalityType
    <3>2. Cardinality(known \cup {k}) = Cardinality(known) + 1
      BY <1>3, <3>1, FS_AddElement
    <3>3. Cardinality(DOMAIN p.rates) \in Nat
      BY <2>2, <2>4, StrategyAssumption, FS_Subset, FS_CardinalityType
    <3>4. MaxOperations <= J!Max({MaxOperations, Cardinality(DOMAIN p.rates)})
          /\ J!Max({MaxOperations, Cardinality(DOMAIN p.rates)}) \in Nat
      BY <3>3, StrategyAssumption, GreatestOfTwo
    <3>5. Cardinality(known \cup {k}) <= J!Max({MaxOperations, Cardinality(DOMAIN p.rates)})
      BY <1>3, <3>1, <3>2, <3>4, StrategyAssumption
    <3>6. J!Ruling(inForce') = p
      BY <1>1
    <3> HIDE DEF p
    <3>7. QED BY <2>13, <3>5, <3>6, SameCardinality DEF J!OperationsBounded
  <2>19. Credits'
    <3>1. J!Keys(sampler)' = known \cup {k} /\ J!Keys(sampler) = known
      BY <1>1, <2>12, <2>13 DEF J!Keys
    <3>2. made'[k] = made[k] + 1 /\ \A o \in Keyed \ {k} : made'[o] = made[o]
      BY <2>1, <2>5 DEF JTyped
    <3>3. ASSUME NEW o \in known \cup {k}
          PROVE  Fits(LimiterOf(sampler', o), jNow', granted'[o], made'[o])
      <4>1. LimiterOf(sampler', o) = all[o].limiter
        BY <2>12 DEF LimiterOf
      <4>2. CASE o = k
        BY <1>1, <2>6, <2>10, <3>2, <4>1, <4>2
      <4>3. CASE o # k
        <5>1. o \in known /\ o \in Keyed
          BY <2>2, <4>3 DEF Keyed
        <5>2. Fits(LimiterOf(sampler, o), jNow, granted[o], made[o])
          BY <3>1, <5>1 DEF Credits
        <5>3. LimiterOf(sampler, o) = all[o].limiter
          BY <1>1, <2>10, <5>1 DEF LimiterOf
        <5>4. QED BY <1>1, <3>2, <4>1, <4>3, <5>1, <5>2, <5>3
      <4>4. QED BY <4>2, <4>3
    <3>4. ASSUME NEW o \in Keyed
          PROVE  granted'[o] * J!Cost <= J!HighestRate * (jNow' + made'[o])
      <4>1. granted[o] \in Nat /\ made[o] \in Nat /\ made'[o] \in Nat /\ made[o] <= made'[o]
        BY <2>5, <3>2 DEF JTyped
      <4>2. jNow \in Nat
        BY XRayAssumption DEF JTyped
      <4>3. jNow + made[o] \in Nat /\ jNow + made'[o] \in Nat /\ jNow + made[o] <= jNow + made'[o]
        BY <4>1, <4>2
      <4>4. granted[o] * J!Cost <= J!HighestRate * (jNow + made'[o])
        BY <4>1, <4>3, LaterStillEarned DEF Credits
      <4>5. QED BY <1>1, <4>4
    <3>5. QED BY <3>1, <3>3, <3>4 DEF Credits
  <2>20. QED BY <2>14, <2>15, <2>16, <2>17, <2>18, <2>19
<1>4. QED BY <1>2, <1>3

-----------------------------------------------------------------------------
(* A request that is decided.                                              *)

LEMMA DecideKeeps ==
    ASSUME JaegerInv, NEW r \in Requests, J!Decide(r)
    PROVE  JaegerInv'
<1> USE DEF JaegerInv
<1> DEFINE k == IF J!PerOperation THEN op[r] ELSE J!All
           l == LimiterOf(sampler, k)
           c == J!Checked(l)
           g == IF c.enough THEN granted[k] + 1 ELSE granted[k]
<1>1. /\ requestAt[r] = "found" /\ requestAt' = [requestAt EXCEPT ![r] = "out"]
      /\ op' = [op EXCEPT ![r] = J!All]
      /\ UNCHANGED <<jNow, updateAt, answer, fetches, closeAt, inForce, made>>
  BY DEF J!Decide, J!requestVars
<1>2. /\ requestAt' \in [Requests -> {"out", "missed", "found"}] /\ op' \in [Requests -> Keyed]
      /\ requestAt'[r] = "out"
      /\ \A q \in Requests \ {r} : requestAt'[q] = requestAt[q] /\ op'[q] = op[q]
  BY <1>1 DEF JTyped, Keyed
<1>3. CASE sampler.kind = "probabilistic"
  <2>1. UNCHANGED <<sampler, granted>>
    BY <1>3 DEF J!Decide
  <2>2. JTyped'
    BY <1>1, <1>2, <2>1 DEF JTyped
  <2>3. Finding'
    BY <1>2, <2>1 DEF Finding, J!PerOperation
  <2>4. QED BY <1>1, <2>1, <2>2, <2>3, SameSampler, XRayAssumption DEF JTyped
<1>4. CASE sampler.kind # "probabilistic"
  <2>1. /\ sampler' = IF J!PerOperation THEN [sampler EXCEPT !.samplers[k].limiter = c.limiter]
                                        ELSE [sampler EXCEPT !.limiter = c.limiter]
        /\ granted' = IF c.enough THEN [granted EXCEPT ![k] = @ + 1] ELSE granted
    BY <1>4 DEF J!Decide, LimiterOf, J!PerOperation
  <2>2. k \in J!Keys(sampler) /\ k \in Keyed
    BY <1>1, <1>4, ShapeOf DEF J!PerOperation, Finding
  <2>3. granted[k] \in Nat /\ made[k] \in Nat /\ jNow \in 0..MaxTime /\ jNow \in Nat
    BY <2>2, XRayAssumption DEF JTyped
  <2>4. Fits(l, jNow, granted[k], made[k])
    BY <2>2 DEF Credits
  <2> HIDE DEF l
  <2>5. Fits(c.limiter, jNow, g, made[k]) /\ c.limiter.rate = l.rate
    BY <2>3, <2>4, CheckedFits
  <2> HIDE DEF c
  <2>6. g \in Nat /\ granted' \in [Keyed -> Nat] /\ granted'[k] = g
        /\ \A o \in Keyed \ {k} : granted'[o] = granted[o]
    BY <2>1, <2>2, <2>3 DEF JTyped
  <2> HIDE DEF g
  <2>7. JTyped'
    BY <1>1, <1>2, <2>6 DEF JTyped
  <2>8. c.limiter \in J!Limiters
    BY <2>5 DEF Fits
  <2>9. /\ Shaped' /\ sampler'.kind = sampler.kind /\ J!Keys(sampler') = J!Keys(sampler)
        /\ \A o \in J!Keys(sampler) : LimiterOf(sampler', o) =
               IF o = k THEN c.limiter ELSE LimiterOf(sampler, o)
        /\ sampler.kind = "perOperation" =>
               /\ DOMAIN sampler'.samplers = DOMAIN sampler.samplers
               /\ sampler'.lowerBound = sampler.lowerBound /\ sampler'.default = sampler.default
               /\ \A o \in DOMAIN sampler.samplers : sampler'.samplers[o].rate = sampler.samplers[o].rate
    <3>1. CASE sampler.kind = "perOperation"
      <4>1. PICK known \in SUBSET Operations :
                sampler \in [kind : {"perOperation"}, lowerBound : Nat, default : 0..2,
                             samplers : [known -> Entries]]
        BY <3>1 DEF Shaped
      <4>2. k \in known /\ DOMAIN sampler.samplers = known
        BY <2>2, <3>1, <4>1 DEF J!Keys
      <4> DEFINE all == [sampler.samplers EXCEPT ![k].limiter = c.limiter]
      <4>3. sampler' = [sampler EXCEPT !.samplers = all]
        BY <2>1, <3>1 DEF J!PerOperation
      <4>4. /\ all \in [known -> Entries]
            /\ \A o \in known : /\ all[o].limiter = IF o = k THEN c.limiter ELSE sampler.samplers[o].limiter
                                /\ all[o].rate = sampler.samplers[o].rate
        BY <2>8, <4>1, <4>2 DEF Entries
      <4> HIDE DEF all
      <4>5. /\ sampler' \in [kind : {"perOperation"}, lowerBound : Nat, default : 0..2,
                             samplers : [known -> Entries]]
            /\ sampler'.kind = "perOperation" /\ sampler'.samplers = all
            /\ sampler'.lowerBound = sampler.lowerBound /\ sampler'.default = sampler.default
        BY <4>1, <4>3, <4>4
      <4>6. Shaped' /\ DOMAIN sampler'.samplers = known
        BY <4>4, <4>5 DEF Shaped
      <4>7. J!Keys(sampler') = known /\ J!Keys(sampler) = known
        BY <3>1, <4>2, <4>5, <4>6 DEF J!Keys
      <4>8. \A o \in known : LimiterOf(sampler', o) = IF o = k THEN c.limiter ELSE LimiterOf(sampler, o)
        BY <3>1, <4>4, <4>5 DEF LimiterOf
      <4>9. QED BY <3>1, <4>2, <4>4, <4>5, <4>6, <4>7, <4>8
    <3>2. CASE sampler.kind = "rateLimiting"
      <4>1. sampler \in [kind : {"rateLimiting"}, limiter : J!Limiters]
        BY <3>2 DEF Shaped
      <4>2. sampler' = [sampler EXCEPT !.limiter = c.limiter]
        BY <2>1, <3>2 DEF J!PerOperation
      <4>3. /\ sampler' \in [kind : {"rateLimiting"}, limiter : J!Limiters]
            /\ sampler'.kind = "rateLimiting" /\ sampler'.limiter = c.limiter
        BY <2>8, <4>1, <4>2
      <4>4. k = J!All /\ J!Keys(sampler) = {J!All} /\ J!Keys(sampler') = {J!All}
        BY <3>2, <4>3 DEF J!Keys, J!PerOperation
      <4>5. QED BY <3>2, <4>3, <4>4 DEF Shaped, LimiterOf
    <3>3. QED BY <1>4, <3>1, <3>2, ShapeOf
  <2>10. Finding'
    BY <1>2, <2>9 DEF Finding, J!PerOperation
  <2>11. \A o \in J!Keys(sampler) : LimiterOf(sampler', o).rate = LimiterOf(sampler, o).rate
    BY <2>5, <2>9 DEF l
  <2>12. Forced'
    <3> DEFINE p == J!Ruling(inForce)
    <3>1. inForce # {} /\ inForce \in Strategies /\ Follows(p)
      BY <1>4 DEF Forced
    <3>0. p' = p
      BY <1>1
    <3> HIDE DEF p
    <3>2. sampler'.kind = p.kind /\ p.kind # "probabilistic"
      BY <1>4, <2>9, <3>1 DEF Follows
    <3>3. ASSUME p.kind = "perOperation", NEW o \in DOMAIN sampler.samplers
          PROVE  sampler'.samplers[o].limiter.rate = p.lowerBound
      <4>1. sampler.kind = "perOperation" /\ sampler'.kind = "perOperation"
        BY <2>9, <3>1, <3>3 DEF Follows
      <4>2. o \in J!Keys(sampler)
        BY <3>3, <4>1 DEF J!Keys
      <4>3. QED BY <2>11, <3>1, <3>3, <4>1, <4>2 DEF Follows, LimiterOf
    <3>4. p.kind = "rateLimiting" => sampler'.limiter.rate = p.limit
      <4>1. ASSUME p.kind = "rateLimiting"
            PROVE  sampler.kind = "rateLimiting" /\ sampler'.kind = "rateLimiting" /\ J!All \in J!Keys(sampler)
        BY <2>9, <3>1, <4>1 DEF Follows, J!Keys
      <4>2. QED BY <2>11, <3>1, <4>1 DEF Follows, LimiterOf
    <3>5. Follows(p)'
      BY <2>9, <3>0, <3>1, <3>2, <3>3, <3>4 DEF Follows
    <3>6. J!Ruling(inForce') = p
      BY <1>1 DEF p
    <3>7. QED BY <1>1, <3>1, <3>5, <3>6 DEF Forced, p
  <2>13. J!OperationsBounded'
    <3>1. J!Ruling(inForce') = J!Ruling(inForce)
      BY <1>1
    <3>2. QED BY <2>9, <3>1 DEF J!OperationsBounded, J!PerOperation
  <2>14. Credits'
    <3>1. ASSUME NEW o \in J!Keys(sampler)
          PROVE  Fits(LimiterOf(sampler', o), jNow, granted'[o], made[o])
      <4>1. CASE o = k
        BY <2>5, <2>6, <2>9, <4>1
      <4>2. CASE o # k
        <5>1. o \in Keyed
          BY ShapeOf
        <5>2. Fits(LimiterOf(sampler, o), jNow, granted[o], made[o])
          BY DEF Credits
        <5>3. QED BY <2>6, <2>9, <4>2, <5>1, <5>2
      <4>3. QED BY <4>1, <4>2
    <3>2. ASSUME NEW o \in Keyed
          PROVE  granted'[o] * J!Cost <= J!HighestRate * (jNow + made[o])
      <4>1. CASE o = k
        BY <2>3, <2>5, <2>6, <4>1, FitsInTime
      <4>2. CASE o # k
        BY <2>6, <4>2 DEF Credits
      <4>3. QED BY <4>1, <4>2
    <3>3. J!Keys(sampler') = J!Keys(sampler)
      BY <2>9
    <3>4. QED BY <1>1, <3>1, <3>2, <3>3 DEF Credits
  <2>15. QED BY <2>7, <2>9, <2>10, <2>12, <2>13, <2>14
<1>5. QED BY <1>3, <1>4

-----------------------------------------------------------------------------
(* A strategy that is applied.                                             *)

\* The samplers of the operations known so far.
LEMMA KnownIs ==
    ASSUME JaegerInv
    PROVE  /\ DOMAIN J!Known = IF J!PerOperation THEN J!Keys(sampler) ELSE {}
           /\ \A o \in DOMAIN J!Known : J!Known[o].limiter = LimiterOf(sampler, o)
BY ShapeOf DEF JaegerInv, J!Known, J!PerOperation, LimiterOf

\* The limiter of a key is updated, or made anew and counted.
LEMMA KeptLimiterFits ==
    ASSUME JaegerInv, NEW k \in J!Keys(sampler), k \in Keyed,
           NEW rate \in Nat, J!Ceiling(rate) <= J!HighestRate
    PROVE  /\ Fits(J!UpdateLimiter(LimiterOf(sampler, k), rate), jNow, granted[k], made[k])
           /\ J!UpdateLimiter(LimiterOf(sampler, k), rate).rate = rate
<1>1. granted[k] \in Nat /\ made[k] \in Nat /\ jNow \in 0..MaxTime
  BY DEF JaegerInv, JTyped
<1>2. Fits(LimiterOf(sampler, k), jNow, granted[k], made[k])
  BY DEF JaegerInv, Credits
<1>3. QED BY <1>1, <1>2, UpdatedLimiterFits

LEMMA MadeLimiterFits ==
    ASSUME JaegerInv, NEW k \in Keyed, NEW rate \in Nat, J!Ceiling(rate) <= J!HighestRate
    PROVE  /\ Fits(J!NewLimiter(rate), jNow, granted[k], made[k] + 1)
           /\ J!NewLimiter(rate).rate = rate
<1>1. granted[k] \in Nat /\ made[k] \in Nat /\ jNow \in 0..MaxTime
  BY DEF JaegerInv, JTyped
<1>2. granted[k] * J!Cost <= J!HighestRate * (jNow + made[k])
  BY DEF JaegerInv, Credits
<1>3. QED BY <1>1, <1>2, NewLimiterFits

LEMMA ApplyKeeps ==
    ASSUME JaegerInv, NEW u \in J!Updaters, J!Apply(u)
    PROVE  JaegerInv'
<1> USE DEF JaegerInv
<1>0. PICK s, p : s = answer[u] /\ p = J!Ruling(s)
  OBVIOUS
<1>1. /\ UNCHANGED <<jNow, requestAt, op, closeAt, granted>>
      /\ updateAt' = [updateAt EXCEPT ![u] = "idle"] /\ answer' = [answer EXCEPT ![u] = {}]
      /\ \A r \in Requests : requestAt[r] = "out"
  BY DEF J!Apply, J!UpdateGoto
<1>2. Finding'
  BY <1>1 DEF Finding
<1>3. CASE J!Refused(s)
  <2>1. UNCHANGED <<sampler, inForce, made>>
    BY <1>0, <1>3 DEF J!Apply
  <2>2. JTyped'
    BY <1>1, <2>1 DEF JTyped
  <2>3. QED BY <1>1, <1>2, <2>1, <2>2, SameSampler, XRayAssumption DEF JTyped
<1>4. CASE ~J!Refused(s)
  <2> DEFINE fresh(k) == k \in J!Keys(sampler') \ (IF sampler.kind = sampler'.kind THEN J!Keys(sampler) ELSE {})
  <2>1. /\ sampler' = J!Updated(p) /\ inForce' = s
        /\ made' = [k \in DOMAIN made |-> IF fresh(k) THEN made[k] + 1 ELSE made[k]]
    BY <1>0, <1>4 DEF J!Apply
  <2>2. s \in Strategies /\ s # {} /\ p \in s /\ StrategyPart(p)
    <3>1. s \in Strategies /\ s # {}
      BY <1>0, <1>4 DEF J!Refused, JTyped
    <3>2. QED BY <1>0, <3>1, RulingIsPart
  <2>3. J!Ruling(inForce') = p
    BY <1>0, <2>1
  <2>4. /\ p.kind = "perOperation" => p.lowerBound \in Nat /\ J!Ceiling(p.lowerBound) <= J!HighestRate
        /\ p.kind = "rateLimiting" => p.limit \in Nat /\ J!Ceiling(p.limit) <= J!HighestRate
    BY <2>2, RatesOfPart
  <2>5. \A k \in Keyed : made'[k] = IF fresh(k) THEN made[k] + 1 ELSE made[k]
    BY <2>1 DEF JTyped
  <2>6. JTyped'
    <3>1. \A k \in Keyed : (IF fresh(k) THEN made[k] + 1 ELSE made[k]) \in Nat
      BY DEF JTyped
    <3>2. DOMAIN made = Keyed
      BY DEF JTyped
    <3> HIDE DEF fresh
    <3>3. made' \in [Keyed -> Nat]
      BY <2>1, <3>1, <3>2
    <3>4. QED BY <1>1, <3>3 DEF JTyped
  <2>7. \A k \in Keyed : granted[k] * J!Cost <= J!HighestRate * (jNow + made'[k])
    <3> SUFFICES ASSUME NEW k \in Keyed
                 PROVE  granted[k] * J!Cost <= J!HighestRate * (jNow + made'[k])
      OBVIOUS
    <3>1. granted[k] \in Nat /\ made[k] \in Nat /\ jNow \in Nat
      BY XRayAssumption DEF JTyped
    <3>2. made'[k] \in Nat /\ made[k] <= made'[k]
      BY <2>5, <3>1
    <3>3. jNow + made[k] \in Nat /\ jNow + made'[k] \in Nat /\ jNow + made[k] <= jNow + made'[k]
      BY <3>1, <3>2
    <3>4. QED BY <3>1, <3>3, LaterStillEarned DEF Credits
  <2>8. ASSUME Shaped', J!Keys(sampler') \subseteq Keyed, Follows(p)', J!OperationsBounded',
               \A k \in J!Keys(sampler') :
                   Fits(LimiterOf(sampler', k), jNow, granted[k], IF fresh(k) THEN made[k] + 1 ELSE made[k])
        PROVE  JaegerInv'
    <3>1. Credits'
      <4>1. ASSUME NEW k \in J!Keys(sampler')
            PROVE  Fits(LimiterOf(sampler', k), jNow', granted'[k], made'[k])
        <5>1. k \in Keyed /\ Fits(LimiterOf(sampler', k), jNow, granted[k], IF fresh(k) THEN made[k] + 1 ELSE made[k])
          BY <2>8
        <5>2. made'[k] = IF fresh(k) THEN made[k] + 1 ELSE made[k]
          BY <2>5, <5>1
        <5>3. QED BY <1>1, <5>1, <5>2
      <4>2. QED BY <1>1, <2>7, <4>1 DEF Credits
    <3>2. Forced'
      BY <2>1, <2>2, <2>3, <2>8 DEF Forced
    <3>3. QED BY <1>2, <2>6, <2>8, <3>1, <3>2
  <2>9. CASE p.kind = "perOperation"
    <3> DEFINE known == DOMAIN p.rates
               lim(k) == IF k \in DOMAIN J!Known THEN J!UpdateLimiter(J!Known[k].limiter, p.lowerBound)
                                                 ELSE J!NewLimiter(p.lowerBound)
               all == [k \in known |-> [rate |-> J!Clamp(p.rates[k]), limiter |-> lim(k)]]
    <3>1. /\ sampler' = [kind |-> "perOperation", lowerBound |-> p.lowerBound,
                         default |-> J!Clamp(p.default), samplers |-> all]
      BY <2>1, <2>9 DEF J!Updated, J!Operated
    <3>2. /\ p.default \in Nat /\ p.lowerBound \in Nat /\ J!Ceiling(p.lowerBound) <= J!HighestRate
          /\ known \subseteq Operations /\ \A k \in known : p.rates[k] \in Nat
      BY <2>2, <2>4, <2>9, PartCases
    <3>3. J!Keys(sampler') = known /\ sampler'.kind = "perOperation"
      BY <3>1 DEF J!Keys
    <3>4. ASSUME NEW k \in known
          PROVE  /\ Fits(lim(k), jNow, granted[k], IF fresh(k) THEN made[k] + 1 ELSE made[k])
                 /\ lim(k).rate = p.lowerBound
      <4>1. k \in Keyed
        BY <3>2 DEF Keyed
      <4>2. fresh(k) <=> ~(J!PerOperation /\ k \in J!Keys(sampler))
        BY <3>3 DEF J!PerOperation
      <4>3. k \in DOMAIN J!Known <=> J!PerOperation /\ k \in J!Keys(sampler)
        BY KnownIs
      <4>4. CASE J!PerOperation /\ k \in J!Keys(sampler)
        <5>1. lim(k) = J!UpdateLimiter(LimiterOf(sampler, k), p.lowerBound)
          BY <4>3, <4>4, KnownIs
        <5>2. Fits(lim(k), jNow, granted[k], made[k]) /\ lim(k).rate = p.lowerBound
          BY <3>2, <4>1, <4>4, <5>1, KeptLimiterFits
        <5> HIDE DEF fresh, lim
        <5>3. QED BY <4>2, <4>4, <5>2
      <4>5. CASE ~(J!PerOperation /\ k \in J!Keys(sampler))
        <5>1. lim(k) = J!NewLimiter(p.lowerBound)
          BY <4>3, <4>5
        <5>2. Fits(lim(k), jNow, granted[k], made[k] + 1) /\ lim(k).rate = p.lowerBound
          BY <3>2, <4>1, <5>1, MadeLimiterFits
        <5> HIDE DEF fresh, lim
        <5>3. QED BY <4>2, <4>5, <5>2
      <4>6. QED BY <4>4, <4>5
    <3> HIDE DEF lim, fresh
    <3>5. all \in [known -> Entries]
      BY <3>2, <3>4, ClampIs DEF Entries, Fits
    <3>6. \A k \in known : all[k].limiter = lim(k) /\ all[k].rate = J!Clamp(p.rates[k])
      OBVIOUS
    <3> HIDE DEF all, known
    <3>7. /\ sampler'.samplers = all /\ sampler'.lowerBound = p.lowerBound
          /\ sampler'.default = J!Clamp(p.default) /\ DOMAIN sampler'.samplers = known
      BY <3>1, <3>5
    <3>8. Shaped'
      <4>1. sampler' \in [kind : {"perOperation"}, lowerBound : Nat, default : 0..2,
                          samplers : [known -> Entries]]
        BY <3>1, <3>2, <3>5, ClampIs
      <4>2. QED BY <3>2, <4>1 DEF Shaped
    <3>9. Follows(p)'
      BY <2>9, <3>3, <3>4, <3>6, <3>7 DEF Follows, known
    <3>10. J!OperationsBounded'
      <4>1. Cardinality(known) \in Nat
        BY <3>2, StrategyAssumption, FS_Subset, FS_CardinalityType
      <4>2. Cardinality(known) <= J!Max({MaxOperations, Cardinality(known)})
        BY <4>1, StrategyAssumption, GreatestOfTwo
      <4>3. DOMAIN J!Ruling(inForce').rates = known
        BY <2>3 DEF known
      <4>4. QED BY <3>7, <4>2, <4>3, SameCardinality DEF J!OperationsBounded
    <3>11. \A k \in known : LimiterOf(sampler', k) = lim(k)
      BY <3>3, <3>6, <3>7 DEF LimiterOf
    <3>12. known \subseteq Keyed
      BY <3>2 DEF Keyed
    <3>13. QED BY <2>8, <3>3, <3>4, <3>8, <3>9, <3>10, <3>11, <3>12
  <2>10. CASE p.kind = "rateLimiting"
    <3> DEFINE lim == IF sampler.kind = "rateLimiting" THEN J!UpdateLimiter(sampler.limiter, p.limit)
                                                       ELSE J!NewLimiter(p.limit)
    <3>1. sampler' = [kind |-> "rateLimiting", limiter |-> lim]
      BY <2>1, <2>10 DEF J!Updated, J!Limited
    <3>2. p.limit \in Nat /\ J!Ceiling(p.limit) <= J!HighestRate
      BY <2>4, <2>10
    <3>3. J!Keys(sampler') = {J!All} /\ sampler'.kind = "rateLimiting" /\ J!All \in Keyed
      BY <3>1 DEF J!Keys, Keyed
    <3>4. /\ Fits(lim, jNow, granted[J!All], IF fresh(J!All) THEN made[J!All] + 1 ELSE made[J!All])
          /\ lim.rate = p.limit
      <4>1. CASE sampler.kind = "rateLimiting"
        <5>1. J!All \in J!Keys(sampler) /\ ~fresh(J!All)
          BY <3>3, <4>1 DEF J!Keys
        <5>2. lim = J!UpdateLimiter(LimiterOf(sampler, J!All), p.limit)
          BY <4>1 DEF LimiterOf
        <5>3. Fits(lim, jNow, granted[J!All], made[J!All]) /\ lim.rate = p.limit
          BY <3>2, <3>3, <5>1, <5>2, KeptLimiterFits
        <5> HIDE DEF fresh, lim
        <5>4. QED BY <5>1, <5>3
      <4>2. CASE sampler.kind # "rateLimiting"
        <5>1. fresh(J!All)
          BY <3>3, <4>2
        <5>2. Fits(lim, jNow, granted[J!All], made[J!All] + 1) /\ lim.rate = p.limit
          BY <3>2, <3>3, <4>2, MadeLimiterFits
        <5> HIDE DEF fresh, lim
        <5>3. QED BY <5>1, <5>2
      <4>3. QED BY <4>1, <4>2
    <3> HIDE DEF lim, fresh
    <3>5. lim \in J!Limiters /\ sampler'.limiter = lim
      BY <3>1, <3>4 DEF Fits
    <3>6. Shaped' /\ Follows(p)' /\ J!OperationsBounded'
      BY <2>10, <3>1, <3>3, <3>4, <3>5 DEF Shaped, Follows, J!OperationsBounded, J!PerOperation
    <3>7. LimiterOf(sampler', J!All) = lim
      BY <3>3, <3>5 DEF LimiterOf
    <3>8. QED BY <2>8, <3>3, <3>4, <3>6, <3>7
  <2>11. CASE p.kind = "probabilistic"
    <3>1. sampler' = J!Probabilistic(p.rate) /\ p.rate \in Nat
      BY <2>1, <2>2, <2>11, PartCases DEF J!Updated
    <3>2. sampler' = [kind |-> "probabilistic", rate |-> J!Clamp(p.rate)] /\ J!Clamp(p.rate) \in 0..2
      BY <3>1, ClampIs DEF J!Probabilistic
    <3>3. sampler'.kind = "probabilistic" /\ J!Keys(sampler') = {}
      BY <3>2 DEF J!Keys
    <3>4. Shaped' /\ Follows(p)' /\ J!OperationsBounded'
      BY <2>11, <3>1, <3>2, <3>3 DEF Shaped, Follows, J!OperationsBounded, J!PerOperation
    <3>5. QED BY <2>8, <3>3, <3>4
  <2>12. QED BY <2>2, <2>9, <2>10, <2>11, PartCases
<1>5. QED BY <1>3, <1>4

(***************************************************************************)
(* A sampler that is updated in place acts as its last strategy says, and  *)
(* gives no more traces than the time since its limiters were made allows, *)
(* for any number of requests and any strategies (sampler_remote.go,       *)
(* sampler.go and rate_limiter.go of jaegerremote).                        *)
(***************************************************************************)
THEOREM Sampled == J!Spec => []JaegerSound
<1>1. JaegerInv /\ [J!Next]_J!jaegerVars => JaegerInv'
  <2> SUFFICES ASSUME JaegerInv, [J!Next]_J!jaegerVars PROVE JaegerInv'
    OBVIOUS
  <2>1. CASE UNCHANGED J!jaegerVars
    <3>1. JTyped' /\ Finding' /\ jNow' = jNow /\ UNCHANGED <<sampler, inForce, made, granted>>
      BY <2>1 DEF J!jaegerVars, JaegerInv, JTyped, Finding, J!PerOperation
    <3>2. jNow <= jNow'
      BY <3>1, XRayAssumption DEF JaegerInv, JTyped
    <3>3. QED BY <3>1, <3>2, SameSampler
  <2>2. ASSUME NEW r \in Requests, J!Begin(r) \/ J!Request(r) PROVE JaegerInv'
    BY <2>2, BeginKeeps, MakeKeeps, DecideKeeps DEF J!Request
  <2>3. ASSUME NEW u \in J!Updaters, J!StartUpdate(u) \/ J!Update(u) PROVE JaegerInv'
    BY <2>3, QuietKeeps, ApplyKeeps DEF J!Update
  <2>4. CASE J!Tick \/ J!Close \/ J!Stop
    BY <2>4, QuietKeeps
  <2>5. QED BY <2>1, <2>2, <2>3, <2>4 DEF J!Next
<1>2. JaegerInv => JaegerSound
  <2> SUFFICES ASSUME JaegerInv PROVE J!JaegerSound
    BY DEF JaegerSound
  <2> USE DEF JaegerInv
  <2>1. J!JaegerTypeOK
    <3>1. CASE sampler.kind = "perOperation"
      <4>1. DOMAIN sampler.samplers \subseteq Operations
            /\ \A o \in DOMAIN sampler.samplers : sampler.samplers[o] \in [rate : 0..2, limiter : J!Limiters]
        BY <3>1, ShapeOf DEF Entries
      <4>2. QED BY <3>1, <4>1 DEF J!JaegerTypeOK, J!PerOperation, JTyped, Keyed
    <3>2. CASE sampler.kind \in {"rateLimiting", "probabilistic"}
      BY <3>2, ShapeOf DEF J!JaegerTypeOK, J!PerOperation, JTyped, Keyed
    <3>3. QED BY <3>1, <3>2, ShapeOf
  <2>2. J!UpdatedLikeNew
    <3>1. CASE inForce = {}
      BY <3>1 DEF J!UpdatedLikeNew
    <3>2. CASE inForce # {}
      <4>1. Follows(J!Ruling(inForce)) /\ StrategyPart(J!Ruling(inForce))
        BY <3>2, RulingIsPart DEF Forced
      <4>2. J!Ruling(inForce).kind \in {"perOperation", "probabilistic", "rateLimiting"}
        BY <4>1, PartCases
      <4>3. QED BY <4>1, <4>2 DEF J!UpdatedLikeNew, Follows
    <3>3. QED BY <3>1, <3>2
  <2>3. J!GrantsWithinTime
    BY DEF Credits, J!GrantsWithinTime, JTyped
  <2>4. QED BY <2>1, <2>2, <2>3 DEF J!JaegerSound
<1>3. QED BY <1>1, <1>2, JaegerInvInit, PTL DEF J!Spec
==============================================================================
