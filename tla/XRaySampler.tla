----------------------------- MODULE XRaySampler -----------------------------
(***************************************************************************)
(* opentelemetry-go-contrib/samplers/aws/xray: calls of ShouldSample take  *)
(* from the reservoir of the rule they match and count into its            *)
(* statistics, while one goroutine reports the statistics, receives quotas *)
(* for them, and fetches the rules anew.  It works on a deep copy of the   *)
(* rules, which shares the statistics and has reservoirs of its own, and   *)
(* which replaces the rules when the answer has come.                      *)
(*                                                                         *)
(* One rule is modelled, which every call matches: rules share nothing.    *)
(* Time is in whole seconds.  The manifest does not expire, and the        *)
(* fallback sampler is left out.                                           *)
(***************************************************************************)
EXTENDS Integers, Sequences, SequencesExt, FiniteSets

CONSTANTS
    Calls,     \* calls of ShouldSample
    Capacity,  \* ReservoirSize of the rule
    MaxQuota,  \* the largest quota an answer assigns
    MaxTime, MaxPolls   \* bounds: the clock, and polls for rules or targets

Never == -1

VARIABLES
    now,
    rule,        \* the rule in Manifest.Rules: its statistics and its reservoir
    statistics,  \* every samplingStatistics there has been
    reservoir,   \* every reservoir there has been
    at, held, stamp, outcome,  \* each call: where it is, its rule, its time, its result
    pollAt,      \* where startPoller is
    copy,        \* the reservoir of its temporary manifest
    report,      \* its samplingStatisticsDocument
    polls,
    reported,    \* history: matched requests in answered reports
    matched,     \* history: calls counted as matched
    taken,       \* history: requests taken from reservoirs
    astray,      \* history: those of them the reservoir in force knows nothing of
    sinceCopy,   \* history: those taken since it was copied
    wonBack,     \* history: credit that calls won back by being overtaken
    callFailed,  \* history: a report was not answered
    replaced     \* history: how often the rules were replaced

xrayVars == <<now, rule, statistics, reservoir, at, held, stamp, outcome, pollAt, copy,
              report, polls, reported, matched, taken, astray, sinceCopy, wonBack,
              callFailed, replaced>>
callVars == <<at, held, stamp, outcome>>
history  == <<reported, matched, taken, astray, sinceCopy, wonBack, callFailed, replaced>>

NoStatistics == [matched |-> 0, sampled |-> 0, borrowed |-> 0]

\* createRule: there is no quota yet.
NewReservoir == [expiresAt |-> Never, quota |-> 0, balance |-> 0, lastTick |-> Never, due |-> Never]

FirstRule == [statistics |-> 1, reservoir |-> 1]

Init ==
    /\ now = 0
    /\ rule = FirstRule
    /\ statistics = <<NoStatistics>>
    /\ reservoir = <<NewReservoir>>
    /\ at = [r \in Calls |-> "new"]
    /\ held = [r \in Calls |-> rule]
    /\ stamp = [r \in Calls |-> 0]
    /\ outcome = [r \in Calls |-> "none"]
    /\ pollAt = "idle"
    /\ copy = 0
    /\ report = NoStatistics
    /\ polls = 0
    /\ reported = 0 /\ matched = 0 /\ taken = 0 /\ astray = 0 /\ sinceCopy = 0 /\ wonBack = 0
    /\ callFailed = FALSE
    /\ replaced = 0

Tick ==
    /\ now < MaxTime
    /\ now' = now + 1
    /\ UNCHANGED <<rule, statistics, reservoir, callVars, pollAt, copy, report, polls, history>>

-----------------------------------------------------------------------------
(* ShouldSample.                                                           *)

Goto(r, from, to) ==
    /\ at[r] = from
    /\ at' = [at EXCEPT ![r] = to]
    /\ UNCHANGED <<now, rule, pollAt, copy, report, polls, reported, callFailed, replaced>>

\* The call returns, and its variables are gone.
Return(r, from) ==
    /\ Goto(r, from, "done")
    /\ held' = [held EXCEPT ![r] = FirstRule]
    /\ stamp' = [stamp EXCEPT ![r] = 0]
    /\ outcome' = [outcome EXCEPT ![r] = "none"]

Match(r) ==
    /\ Goto(r, "new", "count")
    /\ held' = [held EXCEPT ![r] = rule]
    /\ stamp' = [stamp EXCEPT ![r] = now]
    /\ UNCHANGED <<statistics, reservoir, outcome, matched, taken, astray, sinceCopy, wonBack>>

Tally(r, field) == statistics' = [statistics EXCEPT ![held[r].statistics][field] = @ + 1]

CountMatched(r) ==
    /\ Goto(r, "count", "expired")
    /\ Tally(r, "matched")
    /\ matched' = matched + 1
    /\ UNCHANGED <<reservoir, held, stamp, outcome, taken, astray, sinceCopy, wonBack>>

\* expired; the answer may be out of date when the reservoir is taken from.
Expired(r) ==
    /\ Goto(r, "expired", "take")
    /\ outcome' = [outcome EXCEPT ![r] =
           IF stamp[r] > reservoir[held[r].reservoir].expiresAt THEN "borrowed" ELSE "sampled"]
    /\ UNCHANGED <<statistics, reservoir, held, stamp, matched, taken, astray, sinceCopy, wonBack>>

Smaller(a, b) == IF a < b THEN a ELSE b

\* The credit of a first call.
Opened(v, time, borrow) ==
    IF v.lastTick # Never THEN v
    ELSE [v EXCEPT !.lastTick = time, !.balance = IF borrow THEN 1 ELSE v.quota]

\* refreshQuotaBalanceLocked; a call that is overtaken finds time running
\* backwards.
Refreshed(v, time, borrow) ==
    LET elapsed == time - v.lastTick IN
    [v EXCEPT !.lastTick = time,
              !.balance = IF borrow THEN @ + Smaller(elapsed, 1)
                                    ELSE Smaller(@ + elapsed * v.quota, elapsed * Capacity)]

\* The most a reservoir is credited with for a second.
Credit == IF MaxQuota > 1 THEN MaxQuota ELSE 1

\* What such a call takes back is at its quota, what was credited may have
\* been more for each second.
Won(v, time, borrow) ==
    IF v.balance < 1 /\ ~borrow /\ time < v.lastTick
    THEN (v.lastTick - time) * (Credit - v.quota) ELSE 0

\* take, and the fixed rate where nothing is left.
Take(r) ==
    LET j == held[r].reservoir
        borrow == outcome[r] = "borrowed"
        v == Opened(reservoir[j], stamp[r], borrow)
        w == IF v.balance >= 1 THEN v ELSE Refreshed(v, stamp[r], borrow)
    IN  /\ wonBack' = wonBack + Won(v, stamp[r], borrow)
        /\ IF w.balance >= 1
           THEN
             /\ Goto(r, "take", "tally")
             /\ reservoir' = [reservoir EXCEPT ![j] = [w EXCEPT !.balance = @ - 1]]
             /\ taken' = taken + 1
             /\ astray' = IF j = rule.reservoir THEN astray ELSE astray + 1
             /\ sinceCopy' = IF j = rule.reservoir THEN sinceCopy + 1 ELSE sinceCopy
             /\ UNCHANGED <<statistics, held, stamp, outcome, matched>>
           ELSE
             /\ \/ /\ Goto(r, "take", "tally")
                   /\ outcome' = [outcome EXCEPT ![r] = "sampled"]
                   /\ UNCHANGED <<held, stamp>>
                \/ Return(r, "take")
             /\ reservoir' = [reservoir EXCEPT ![j] = w]
             /\ UNCHANGED <<statistics, matched, taken, astray, sinceCopy>>

CountOutcome(r) ==
    /\ Return(r, "tally")
    /\ Tally(r, outcome[r])
    /\ UNCHANGED <<reservoir, matched, taken, astray, sinceCopy, wonBack>>

-----------------------------------------------------------------------------
(* startPoller.                                                            *)

PollGoto(from, to) ==
    /\ pollAt = from
    /\ pollAt' = to
    /\ UNCHANGED <<now, callVars, matched, taken, wonBack>>

PollBegins ==
    /\ polls < MaxPolls
    /\ polls' = polls + 1

\* Fault: the time of the last credit is not copied.
DeepCopyUnticked ==
    /\ PollGoto("idle", "stale") /\ PollBegins
    /\ reservoir' = Append(reservoir, [reservoir[rule.reservoir] EXCEPT !.lastTick = Never])
    /\ copy' = Len(reservoir')
    /\ sinceCopy' = 0
    /\ UNCHANGED <<rule, statistics, report, reported, astray, callFailed, replaced>>

\* The targets are due: deepCopy.
DeepCopy ==
    /\ PollGoto("idle", "stale") /\ PollBegins
    /\ reservoir' = Append(reservoir, reservoir[rule.reservoir])
    /\ copy' = Len(reservoir')
    /\ sinceCopy' = 0
    /\ UNCHANGED <<rule, statistics, report, reported, astray, callFailed, replaced>>

Stale == statistics[rule.statistics].matched # 0 /\ now > reservoir[copy].due

\* No rule has news to report, or is due.
NothingToReport ==
    /\ PollGoto("stale", "idle")
    /\ ~Stale
    /\ UNCHANGED <<rule, statistics, reservoir, copy, report, polls, reported, astray,
                   sinceCopy, callFailed, replaced>>

Swap(field) ==
    /\ report' = [report EXCEPT ![field] = statistics[rule.statistics][field]]
    /\ statistics' = [statistics EXCEPT ![rule.statistics][field] = 0]
    /\ UNCHANGED <<rule, reservoir, copy, polls, reported, astray, sinceCopy, callFailed, replaced>>

\* Fault: the counter of the matched requests is read now and reset later.
SwapBorrowedAndReset ==
    /\ PollGoto("swapBorrowed", "call")
    /\ report' = [report EXCEPT !.borrowed = statistics[rule.statistics].borrowed]
    /\ statistics' = [statistics EXCEPT ![rule.statistics].borrowed = 0,
                                        ![rule.statistics].matched = 0]
    /\ UNCHANGED <<rule, reservoir, copy, polls, reported, astray, sinceCopy, callFailed, replaced>>

SwapMatched ==
    PollGoto("stale", "swapSampled") /\ Stale /\ Swap("matched")

SwapSampled ==
    PollGoto("swapSampled", "swapBorrowed") /\ Swap("sampled")

SwapBorrowed ==
    PollGoto("swapBorrowed", "call") /\ Swap("borrowed")

\* getSamplingTargets fails, or has not processed a report for a 5xx of its
\* own: the copy is dropped, and the statistics are gone.
TargetsFail ==
    /\ PollGoto("call", "idle")
    /\ callFailed' = TRUE
    /\ UNCHANGED <<rule, statistics, reservoir, copy, report, polls, reported, astray,
                   sinceCopy, replaced>>

\* The copy gets the quota, if the answer has one for the rule, and replaces
\* the rules; a modified rule or a 4xx asks for the rules too.
TargetsArrive ==
    /\ \E next \in {"idle", "rules"} : PollGoto("call", next)
    /\ reported' = reported + report.matched
    /\ \/ UNCHANGED reservoir
       \/ \E quota \in 0..MaxQuota :
              reservoir' = [reservoir EXCEPT ![copy] = [@ EXCEPT !.due = now + 1,
                                                                !.expiresAt = now + 1,
                                                                !.quota = quota]]
    /\ rule' = [rule EXCEPT !.reservoir = copy]
    /\ astray' = astray + sinceCopy
    /\ sinceCopy' = 0
    /\ UNCHANGED <<statistics, copy, report, polls, callFailed, replaced>>

\* Fault: the new rules have no statistics of their own yet.
UpdateRulesBare ==
    /\ \/ PollGoto("idle", "idle") /\ PollBegins
       \/ PollGoto("rules", "idle") /\ UNCHANGED polls
    /\ reservoir' = Append(reservoir, NewReservoir)
    /\ rule' = [statistics |-> Len(statistics) + 1, reservoir |-> Len(reservoir')]
    /\ replaced' = replaced + 1
    /\ sinceCopy' = 0
    /\ UNCHANGED <<statistics, copy, report, reported, astray, callFailed>>

\* refreshManifest: the rules are made anew, with nothing counted or assigned.
UpdateRules ==
    /\ \/ PollGoto("idle", "idle") /\ PollBegins
       \/ PollGoto("rules", "idle") /\ UNCHANGED polls
    /\ statistics' = Append(statistics, NoStatistics)
    /\ reservoir' = Append(reservoir, NewReservoir)
    /\ rule' = [statistics |-> Len(statistics'), reservoir |-> Len(reservoir')]
    /\ replaced' = replaced + 1
    /\ sinceCopy' = 0
    /\ UNCHANGED <<copy, report, reported, astray, callFailed>>

RulesFail ==
    /\ PollGoto("rules", "idle")
    /\ UNCHANGED <<rule, statistics, reservoir, copy, report, polls, reported, astray,
                   sinceCopy, callFailed, replaced>>

Poller ==
    \/ DeepCopy \/ NothingToReport \/ SwapMatched \/ SwapSampled \/ SwapBorrowed
    \/ TargetsFail \/ TargetsArrive \/ UpdateRules \/ RulesFail

Next ==
    \/ Tick
    \/ \E r \in Calls : Match(r) \/ CountMatched(r) \/ Expired(r) \/ Take(r) \/ CountOutcome(r)
    \/ Poller

Spec == Init /\ [][Next]_xrayVars

-----------------------------------------------------------------------------
(* Properties. *)

XRayTypeOK ==
    /\ now \in 0..MaxTime
    /\ statistics \in Seq([matched : Nat, sampled : Nat, borrowed : Nat])
    /\ reservoir \in Seq([expiresAt : Int, quota : Nat, balance : Int, lastTick : Int, due : Int])
    /\ rule \in [statistics : DOMAIN statistics, reservoir : DOMAIN reservoir]
    /\ at \in [Calls -> {"new", "count", "expired", "take", "tally", "done"}]
    /\ outcome \in [Calls -> {"none", "sampled", "borrowed"}]
    /\ pollAt \in {"idle", "stale", "swapSampled", "swapBorrowed", "call", "rules"}

(***************************************************************************)
(* However calls and polls interleave and quotas change, reservoirs give   *)
(* out no more than the credit of the time that has passed and of one      *)
(* start for each set of rules (reservoir.go, lines 57-112), but for what  *)
(* is taken while the rules are away for their quotas, of which the copy   *)
(* that replaces them knows nothing (manifest.go, lines 119-161), and for  *)
(* seconds that a call which is overtaken gives back at a quota below the  *)
(* largest, or at none.                                                    *)
(***************************************************************************)
TakenWithinTime == taken <= Credit * (now + 1 + replaced) + astray + wonBack

(***************************************************************************)
(* A matched request is reported exactly once or waits for the next        *)
(* report, although requests are counted while the counters are being      *)
(* reset (rule.go, lines 59-74) -- unless a report was not answered, or    *)
(* the rules were replaced: their statistics are never reported.           *)
(***************************************************************************)
Reporting == pollAt \in {"swapSampled", "swapBorrowed", "call"}

EveryMatchCounted ==
    ~callFailed /\ replaced = 0 =>
        matched = reported + statistics[rule.statistics].matched
                  + (IF Reporting THEN report.matched ELSE 0)

(***************************************************************************)
(* Reservoirs keep to their credit and reports to what was counted,        *)
(* whatever calls and polls do to each other (reservoir.go, rule.go and    *)
(* manifest.go as above).                                                  *)
(***************************************************************************)
XRaySound == XRayTypeOK /\ TakenWithinTime /\ EveryMatchCounted

=============================================================================
