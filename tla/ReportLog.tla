------------------------------ MODULE ReportLog ------------------------------
(***************************************************************************)
(* What the two services of lesson_09/project promise together of the      *)
(* locations that drivers report: a log per driver to which a report the   *)
(* driver service has passed on is appended, and which never loses,        *)
(* changes or reorders an element.  A report is appended to the log of its *)
(* own driver only, a bounded number of times, and never again once it has *)
(* been closed; it may be closed without having been appended at all.      *)
(***************************************************************************)
EXTENDS Naturals, Sequences, FiniteSets

CONSTANTS
    Drivers,    \* driver ids
    Reports,    \* locations reported
    MaxCopies,  \* how often a report may appear in the log
    None        \* not passed on yet

VARIABLES
    owner,   \* the driver of each report passed on
    log,     \* for each driver, its points in the order they were stored
    closed   \* reports that will not be appended any more

vars == <<owner, log, closed>>

Copies(r, d) == Cardinality({i \in 1..Len(log[d]) : log[d][i] = r})

Init ==
    /\ owner = [r \in Reports |-> None]
    /\ log = [d \in Drivers |-> <<>>]
    /\ closed = {}

Accept(r, d) ==
    /\ owner[r] = None
    /\ owner' = [owner EXCEPT ![r] = d]
    /\ UNCHANGED <<log, closed>>

Store(r, d) ==
    /\ owner[r] = d
    /\ r \notin closed
    /\ Copies(r, d) < MaxCopies
    /\ log' = [log EXCEPT ![d] = Append(@, r)]
    /\ closed' \in {closed, closed \cup {r}}
    /\ UNCHANGED owner

\* A crash closes several reports at once.
Close(S) ==
    /\ \A r \in S : owner[r] # None
    /\ closed' = closed \cup S
    /\ UNCHANGED <<owner, log>>

Next ==
    \/ \E r \in Reports, d \in Drivers : Accept(r, d) \/ Store(r, d)
    \/ \E S \in SUBSET Reports : Close(S)

Safe == Init /\ [][Next]_vars

=============================================================================
