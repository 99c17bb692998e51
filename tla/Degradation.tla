----------------------------- MODULE Degradation -----------------------------
(***************************************************************************)
(* lesson_10/gd_example: alerts switch an expensive feature off and on     *)
(* again.  The handler of an alert stores the flag, which requests read,   *)
(* and then sets the gauge that shows it: two atomic steps.  Alerts are    *)
(* handled at the same time when one is sent again or soon followed by the *)
(* next.                                                                   *)
(***************************************************************************)
EXTENDS Integers

CONSTANT Alerts    \* calls of degradeHandler

VARIABLES
    enabled,    \* cpuConsumingFeatureEnabled
    gauge,      \* feature_flag_enabled
    at,         \* where each handler is
    status,     \* the status of its alert
    raced       \* history: handlers of opposite alerts have overlapped

vars == <<enabled, gauge, at, status, raced>>

Init ==
    /\ enabled = 1
    /\ gauge = 1
    /\ at = [a \in Alerts |-> "new"]
    /\ status = [a \in Alerts |-> "none"]
    /\ raced = FALSE

\* The value an alert gives the flag and the gauge.
Value(s) == IF s = "firing" THEN 0 ELSE 1

Setting(a) == at[a] = "gauge"

\* Fault: the gauge is only set when an alert is resolved.
SetGaugeOnce(a) ==
    /\ Setting(a)
    /\ gauge' = IF status[a] = "firing" THEN gauge ELSE 1
    /\ at' = [at EXCEPT ![a] = "done"]
    /\ UNCHANGED <<enabled, status, raced>>

\* Fault: the flag is counted up and down, and a second alert counts again.
StoreAdding(a, s) ==
    /\ at[a] = "new" /\ s \in {"firing", "resolved"}
    /\ at' = [at EXCEPT ![a] = "gauge"]
    /\ status' = [status EXCEPT ![a] = s]
    /\ enabled' = IF s = "firing" THEN enabled - 1 ELSE enabled + 1
    /\ raced' = (raced \/ \E b \in Alerts : Setting(b) /\ status[b] # s)
    /\ UNCHANGED gauge

\* atomic.StoreInt32.
Store(a, s) ==
    /\ at[a] = "new" /\ s \in {"firing", "resolved"}
    /\ at' = [at EXCEPT ![a] = "gauge"]
    /\ status' = [status EXCEPT ![a] = s]
    /\ enabled' = Value(s)
    /\ raced' = (raced \/ \E b \in Alerts : Setting(b) /\ status[b] # s)
    /\ UNCHANGED gauge

\* A body that is no JSON, or any other status, changes nothing.
Ignore(a) ==
    /\ at[a] = "new"
    /\ at' = [at EXCEPT ![a] = "done"]
    /\ UNCHANGED <<enabled, gauge, status, raced>>

SetGauge(a) ==
    /\ Setting(a)
    /\ gauge' = Value(status[a])
    /\ at' = [at EXCEPT ![a] = "done"]
    /\ UNCHANGED <<enabled, status, raced>>

Next ==
    \E a \in Alerts :
        \/ \E s \in {"firing", "resolved"} : Store(a, s)
        \/ Ignore(a)
        \/ SetGauge(a)

Spec == Init /\ [][Next]_vars

-----------------------------------------------------------------------------
(* Properties. *)

DegradationTypeOK ==
    /\ enabled \in {0, 1}
    /\ gauge \in {0, 1}
    /\ at \in [Alerts -> {"new", "gauge", "done"}]
    /\ status \in [Alerts -> {"none", "firing", "resolved"}]
    /\ raced \in BOOLEAN

Quiet == \A a \in Alerts : ~Setting(a)

(***************************************************************************)
(* While no handler is between its two steps, the gauge, which says        *)
(* "whether a feature flag is enabled" (main.go, line 27), disagrees with  *)
(* the flag only if handlers of opposite alerts have overlapped (lines     *)
(* 73-78).  Then it may disagree for good: no later step corrects it.      *)
(***************************************************************************)
DisagreeNeedsRace == Quiet /\ gauge # enabled => raced

(***************************************************************************)
(* The flag is 0 or 1, and the gauge tells it but after a race (main.go,   *)
(* lines 63-82).                                                           *)
(***************************************************************************)
AlertsSound == DegradationTypeOK /\ DisagreeNeedsRace

=============================================================================
