---------------------------- MODULE DriverTracking ----------------------------
(***************************************************************************)
(* The way of a location report through both services of lesson_09/project:*)
(* UpdateLocation of DriverService starts a goroutine for it, which posts  *)
(* the point to AddPoint of TrackAnalyzer and gives up after one second.   *)
(* Either process may die on its own, the request or its answer may be     *)
(* lost, and neither side knows what became of the other.                  *)
(*                                                                         *)
(* Removals and queries play no part in this and are left out.             *)
(***************************************************************************)
EXTENDS Naturals, Sequences, FiniteSets, TLC

CONSTANTS
    Drivers,     \* driver ids
    Updates,     \* calls of UpdateLocation; also names the points they report
    Window,      \* points analysed at once
    DriverRetries, AnalyzerRetries,
                 \* retries of each service's Redis client for one command
    Faults,      \* whether Redis, the network, a deadline or a process may fail
    None

ASSUME TrackingAssumption ==
    /\ AnalyzerRetries \in Nat
    /\ None \notin Updates \cup Drivers
    /\ None \notin [by : Updates, upto : Nat]

VARIABLES
    pc, driver, tries, index, record, handed, alone, unsettled,  \* DriverService
    apc, adriver, atries, seen, track, analysis, processed, met, \* TrackAnalyzer
    sending,  \* the goroutine that sends each report
    stamps,   \* history: reports in the order of their timestamps
    raced     \* history: <<v, u>>: u was stamped while v might still be stored

D == INSTANCE DriverService
     WITH Removals <- {}, Queries <- {}, Nearby <- {}, MaxFound <- 1,
          MaxRetries <- DriverRetries,
          pending <- <<>>, result <- <<>>, steady <- <<>>

T == INSTANCE TrackAnalyzer
     WITH Saves <- Updates, MaxRetries <- AnalyzerRetries, pc <- apc,
          driver <- adriver, tries <- atries

driverVars == <<pc, driver, tries, index, record, handed, alone, unsettled>>
trackVars  == <<apc, adriver, atries, seen, track, analysis, processed, met>>
vars == <<driverVars, trackVars, sending, stamps, raced>>

\* The report can no longer reach the list of its driver.
Closed == {u \in handed : /\ apc[u] # "LPush"
                          /\ apc[u] = "idle" => sending[u] # "ready"}

Init ==
    /\ D!Init
    /\ T!Init
    /\ sending = [u \in Updates |-> "none"]
    /\ stamps = <<>>
    /\ raced = {}

-----------------------------------------------------------------------------
(* The driver service. *)

\* Fault: the point is stamped when the update arrives.
UpdateStampsEarly(u) ==
    /\ D!UpdateStep(u)
    /\ sending' = IF handed' = handed THEN sending ELSE [sending EXCEPT ![u] = "ready"]
    /\ stamps' = IF pc[u] = "idle" THEN Append(stamps, u) ELSE stamps
    /\ UNCHANGED <<raced, trackVars>>

\* A step of UpdateLocation; the step that starts the goroutine stamps the point.
Update(u) ==
    /\ D!UpdateStep(u)
    /\ IF handed' = handed
       THEN UNCHANGED <<sending, stamps, raced>>
       ELSE /\ sending' = [sending EXCEPT ![u] = "ready"]
            /\ stamps' = Append(stamps, u)
            /\ raced' = raced \cup
                  {<<v, u>> : v \in {w \in handed \ Closed : driver[w] = driver[u]}}
    /\ UNCHANGED trackVars

Goto(u, from, to) ==
    /\ sending[u] = from
    /\ sending' = [sending EXCEPT ![u] = to]
    /\ UNCHANGED <<driverVars, stamps, raced>>

\* Fault: the point is posted under another driver's id.
PostElsewhere(u) ==
    /\ Goto(u, "ready", "waiting")
    /\ \E d \in Drivers : T!Begin(u, d)

\* Fault: the report is dropped while another of its driver is being handled.
PostUnlessBusy(u) ==
    IF T!InFlight(driver[u]) = {}
    THEN Goto(u, "ready", "waiting") /\ T!Begin(u, driver[u])
    ELSE Goto(u, "ready", "done") /\ UNCHANGED trackVars

\* The request reaches the analyzer.
Post(u) ==
    /\ Goto(u, "ready", "waiting")
    /\ T!Begin(u, driver[u])

\* Connection refused, or the second is over before the request arrives.
PostFails(u) ==
    /\ Faults
    /\ Goto(u, "ready", "done")
    /\ UNCHANGED trackVars

\* An answer comes back; whatever it is, it is only logged.
Answer(u) ==
    /\ apc[u] \in T!Ended
    /\ Goto(u, "waiting", "done")
    /\ UNCHANGED trackVars

\* Fault: without a deadline, only a broken connection ends the wait.
GiveUpOnError(u) ==
    /\ Faults
    /\ apc[u] = "failed"
    /\ Goto(u, "waiting", "done")
    /\ UNCHANGED trackVars

\* The second is over; the analyzer may still be at work.
GiveUp(u) ==
    /\ Faults
    /\ Goto(u, "waiting", "done")
    /\ UNCHANGED trackVars

(***************************************************************************)
(* The process dies with all its goroutines.  A graceful shutdown is the   *)
(* case in which no request is running: main waits for requests alone.     *)
(***************************************************************************)
CrashDriver ==
    /\ D!Crash
    /\ sending' = [u \in Updates |-> IF sending[u] = "none" THEN "none" ELSE "done"]
    /\ UNCHANGED <<trackVars, stamps, raced>>

-----------------------------------------------------------------------------
(* The track analyzer. *)

Analyze(u) ==
    /\ T!Step(u)
    /\ UNCHANGED <<driverVars, sending, stamps, raced>>

Expire(d) ==
    /\ T!Expire(d)
    /\ UNCHANGED <<driverVars, sending, stamps, raced>>

CrashAnalyzer ==
    /\ T!Crash
    /\ UNCHANGED <<driverVars, sending, stamps, raced>>

\* The goroutine of a report goes to the analyzer, and what it hears there
\* where nothing fails.
Begin(u)    == Post(u) \/ PostFails(u)
Answered(u) == ~Faults /\ Answer(u)

Send(u) == Begin(u) \/ Answer(u) \/ GiveUp(u)

\* Every request has ended, and every report's way with it.
Terminated ==
    /\ \A u \in Updates : pc[u] \in D!Ended /\ sending[u] \notin {"ready", "waiting"}
    /\ \A u \in Updates : apc[u] \in T!Ended \cup {"idle"}
    /\ UNCHANGED vars

Next ==
    \/ \E u \in Updates : Update(u) \/ Send(u) \/ Analyze(u)
    \/ \E d \in Drivers : Expire(d)
    \/ CrashDriver
    \/ CrashAnalyzer
    \/ Terminated

(***************************************************************************)
(* Goroutines are scheduled, and what they wait for has a timeout: the     *)
(* Redis clients their own, the request to the analyzer one second.  An    *)
(* answer arrives for certain only where nothing fails.                    *)
(***************************************************************************)
Fairness ==
    \A u \in Updates :
        /\ WF_vars(Begin(u))
        /\ WF_vars(GiveUp(u))
        /\ WF_vars(Answered(u))
        /\ WF_vars(Analyze(u))

Spec == Init /\ [][Next]_vars /\ Fairness

-----------------------------------------------------------------------------
(* Properties. *)

TypeOK ==
    /\ T!TypeOK
    /\ sending \in [Updates -> {"none", "ready", "waiting", "done"}]
    /\ stamps \in Seq(handed)
    /\ raced \subseteq handed \X handed

(***************************************************************************)
(* The two services implement ReportLog: a point in track:points:<driver>  *)
(* is a report of that driver which the driver service had accepted        *)
(* (driver_service.go, line 71), it appears at most once for each attempt  *)
(* of the Redis client (track_repository.go, line 122), and once a report  *)
(* has been given up on the analyzer's side nothing brings it back.        *)
(***************************************************************************)
Log == INSTANCE ReportLog
       WITH Reports <- Updates, MaxCopies <- 1 + AnalyzerRetries,
            owner <- [u \in Updates |-> IF u \in handed THEN driver[u] ELSE None],
            log <- track, closed <- Closed

LogSafe == Log!Safe

\* Report a was stamped before report b.
Before(a, b) ==
    \E i \in 1..Len(stamps) : \E j \in i + 1..Len(stamps) :
        stamps[i] = a /\ stamps[j] = b

(***************************************************************************)
(* AnalyzeTrack takes the points to be in the order of their timestamps    *)
(* (track_service.go, lines 53-63; a negative timeDiff gives a negative    *)
(* speed, never an anomaly).  They are, except for two reports of which    *)
(* the later was stamped while the earlier was still on its way.           *)
(***************************************************************************)
DisorderNeedsRace ==
    \A d \in Drivers : \A i \in 1..Len(track[d]) : \A j \in i + 1..Len(track[d]) :
        Before(track[d][j], track[d][i]) => <<track[d][j], track[d][i]>> \in raced

(***************************************************************************)
(* Without faults the track catches up with the index: once the report of  *)
(* a settled driver's position has arrived, and raced with no other, it is *)
(* the last point of the track (driver_service.go, lines 56 and 71;        *)
(* track_repository.go, line 122).                                         *)
(***************************************************************************)
TrackFollowsIndex ==
    \A d \in Drivers :
        /\ ~Faults /\ d \notin unsettled /\ D!Writers(d) = {}
        /\ index[d] \in Closed /\ \A v \in Updates : <<v, index[d]>> \notin raced
        => track[d] # <<>> /\ track[d][Len(track[d])] = index[d]

(***************************************************************************)
(* Without faults every report that the driver service has passed on is    *)
(* stored, although nobody waits for it (driver_service.go, lines 71-85).  *)
(***************************************************************************)
EveryReportTracked ==
    \A u \in Updates :
        u \in handed ~> \E d \in Drivers : \E i \in 1..Len(track[d]) :
                            driver[u] = d /\ track[d][i] = u

(***************************************************************************)
(* Whatever fails, the goroutine of a report ends (driver_service.go,      *)
(* line 91), and so does the handler of the report: nothing is left that   *)
(* could still change the track.                                           *)
(***************************************************************************)
EveryReportCloses ==
    \A u \in Updates :
        u \in handed ~> sending[u] = "done" /\ apc[u] \in T!Ended \cup {"idle"}

(***************************************************************************)
(* The track of a driver has its points in order, but for reports that     *)
(* raced, and the state of both services its types.                        *)
(***************************************************************************)
TracksSound == TypeOK /\ DisorderNeedsRace

\* For TLC: neither drivers nor reports are told apart.
Symmetry == Permutations(Updates) \cup Permutations(Drivers)

=============================================================================
