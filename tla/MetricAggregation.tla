-------------------------- MODULE MetricAggregation --------------------------
(***************************************************************************)
(* lesson_08/aggregate_metric_example: goroutines collect values, and main *)
(* reports the average of each at intervals and clears them.  Every value  *)
(* list has a mutex; the map that holds the lists has none, although the   *)
(* goroutines insert into it and main iterates over it.  A racing access   *)
(* to a Go map may go well, may lose what is inserted, or is noticed by    *)
(* the runtime, which ends the process.                                    *)
(***************************************************************************)
EXTENDS Naturals, FiniteSets

CONSTANTS
    Processes,  \* process-0 to process-4
    MaxValues   \* bound: values of a process

VARIABLES
    at,         \* where each emulateProcess is
    inMap,      \* processes whose list is in perProcessData
    values,     \* values in the list
    exported,   \* values that went into an average
    scrape,     \* processes main has yet to visit; main iterates while it is not empty
    over,       \* "no", or how the process has ended
    collected,  \* history: values collected
    touched     \* history: processes whose insertion met another access to the map

aggVars == <<at, inMap, values, exported, scrape, over, collected, touched>>

Init ==
    /\ at = [p \in Processes |-> "start"]
    /\ inMap = {} /\ scrape = {} /\ over = "no" /\ touched = {}
    /\ values = [p \in Processes |-> 0]
    /\ exported = [p \in Processes |-> 0]
    /\ collected = [p \in Processes |-> 0]

Inserting == {p \in Processes : at[p] = "insert"}

\* The lookup fails, and the insertion begins.
Begin(p) ==
    /\ at[p] = "start"
    /\ at' = [at EXCEPT ![p] = "insert"]
    /\ touched' = IF Inserting = {} /\ scrape = {} THEN touched ELSE touched \cup Inserting \cup {p}
    /\ UNCHANGED <<inMap, values, exported, scrape, over, collected>>

\* The insertion ends, and the list is looked up again: a lost one is nil.
\* Of insertions that met, a later one may overwrite an earlier.
Insert(p) ==
    /\ at[p] = "insert"
    /\ \/ /\ \E lost \in SUBSET (IF p \in touched THEN touched ELSE {}) : inMap' = (inMap \ lost) \cup {p}
          /\ at' = [at EXCEPT ![p] = "run"]
       \/ p \in touched /\ at' = [at EXCEPT ![p] = "nil"] /\ UNCHANGED inMap
       \/ p \in touched /\ at' = [at EXCEPT ![p] = "run"] /\ UNCHANGED inMap
    /\ UNCHANGED <<values, exported, scrape, over, collected, touched>>

\* "fatal error: concurrent map writes", or the nil list is used.
Die ==
    /\ Inserting \cap touched # {} \/ \E p \in Processes : at[p] = "nil"
    /\ over' = "died"
    /\ UNCHANGED <<at, inMap, values, exported, scrape, collected, touched>>

\* A value is appended under the lock of the list.
Collect(p) ==
    /\ at[p] = "run" /\ collected[p] < MaxValues
    /\ collected' = [collected EXCEPT ![p] = @ + 1]
    /\ values' = [values EXCEPT ![p] = @ + 1]
    /\ UNCHANGED <<at, inMap, exported, scrape, over, touched>>

\* aggregateAndExport begins; an insertion under way may be seen or not.
Scrape ==
    /\ scrape = {} /\ inMap # {}
    /\ scrape' = inMap
    /\ touched' = touched \cup Inserting
    /\ UNCHANGED <<at, inMap, values, exported, over, collected>>

\* Fault: the list is unlocked between averaging and clearing.
ExportLosing(p) ==
    /\ p \in scrape
    /\ scrape' = scrape \ {p}
    /\ exported' \in {exported, [exported EXCEPT ![p] = @ + values[p]]}
    /\ values' = [values EXCEPT ![p] = 0]
    /\ UNCHANGED <<at, inMap, over, collected, touched>>

\* Fault: the list is not cleared.
ExportKeeping(p) ==
    /\ p \in scrape
    /\ scrape' = scrape \ {p}
    /\ exported' = [exported EXCEPT ![p] = @ + values[p]]
    /\ UNCHANGED <<at, inMap, values, over, collected, touched>>

\* Average and clear, in one critical section.
Export(p) ==
    /\ p \in scrape
    /\ scrape' = scrape \ {p}
    /\ exported' = [exported EXCEPT ![p] = @ + values[p]]
    /\ values' = [values EXCEPT ![p] = 0]
    /\ UNCHANGED <<at, inMap, over, collected, touched>>

\* Five minutes are over: the goroutines are stopped, and what the lists
\* still hold is not reported.
Stop ==
    /\ scrape = {}
    /\ over' = "stopped"
    /\ UNCHANGED <<at, inMap, values, exported, scrape, collected, touched>>

Next ==
    /\ over = "no"
    /\ \/ \E p \in Processes : Begin(p) \/ Insert(p) \/ Collect(p) \/ Export(p)
       \/ Scrape
       \/ Stop
       \/ Die

AggregationTypeOK ==
    /\ at \in [Processes -> {"start", "insert", "run", "nil"}]
    /\ inMap \cup scrape \cup touched \subseteq Processes
    /\ values \in [Processes -> 0..MaxValues] /\ exported \in [Processes -> 0..MaxValues]
    /\ over \in {"no", "died", "stopped"}

-----------------------------------------------------------------------------
(* Properties. *)

(***************************************************************************)
(* Every value collected goes into one average, or waits in a list that    *)
(* main will visit; only a goroutine whose insertion met another access to *)
(* the map collects into a list nobody visits (main.go, lines 46-50 and    *)
(* 69-89).                                                                 *)
(***************************************************************************)
ValuesCountOnce ==
    \A p \in Processes :
        /\ collected[p] = exported[p] + values[p]
        /\ p \notin touched /\ at[p] = "run" => p \in inMap

(***************************************************************************)
(* The same, with the types of the variables: lists, averages and the map  *)
(* agree (main.go, lines 46-87).                                           *)
(***************************************************************************)
ValuesSound == AggregationTypeOK /\ ValuesCountOnce

=============================================================================
