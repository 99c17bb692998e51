------------------------------ MODULE MCEndings ------------------------------
(***************************************************************************)
(* TLC instances for what must come to an end.  A behaviour is one of      *)
(* DriverTracking without faults, one of DriverTracking with faults, in    *)
(* which only Few reports are made, or one of Manager.                     *)
(***************************************************************************)
EXTENDS DriverTracking

CONSTANTS
    Few,
    Probes, MaxLoads, MaxRuns, MaxCloses, MaxConfigs

ASSUME ManagerAssumption == {MaxLoads, MaxRuns, MaxCloses, MaxConfigs} \subseteq Nat

VARIABLES
    program,
    probe, state, currentConfig, shut, loop, cancelled, stopAt, stopSet, stopped,
    runAt, closeAt, handlerClosed, crashed, calls, failed, stale

Faulty == INSTANCE DriverTracking
          WITH Faults <- TRUE, DriverRetries <- 1, AnalyzerRetries <- 1
M == INSTANCE Manager

managerVars == <<probe, state, currentConfig, shut, loop, cancelled, stopAt, stopSet,
                 stopped, runAt, closeAt, handlerClosed, crashed, calls, failed, stale>>

MCInit ==
    /\ program \in {"calm", "faulty", "manager"}
    /\ Init
    /\ M!Init

MCNext ==
    /\ \/ program = "calm" /\ Next /\ UNCHANGED managerVars
       \/ /\ program = "faulty" /\ Faulty!Next /\ UNCHANGED managerVars
          /\ \A u \in Updates \ Few : pc'[u] = "idle"
       \/ program = "manager" /\ M!Next /\ UNCHANGED vars
    /\ UNCHANGED program

allVars == <<vars, managerVars, program>>

\* The fairness of the three: where Manager rests, none of its is enabled.
MCBegin(u) == \/ program = "calm" /\ Begin(u)
              \/ program = "faulty" /\ Faulty!Begin(u)
MCHear(u) == \/ program = "calm" /\ Answered(u)
             \/ program = "faulty" /\ Faulty!GiveUp(u)
MCAnalyze(u) == \/ program = "calm" /\ Analyze(u)
                \/ program = "faulty" /\ Faulty!Analyze(u)

MCFairness ==
    /\ \A u \in Updates : /\ WF_vars(MCBegin(u))
                          /\ WF_vars(MCHear(u))
                          /\ WF_vars(MCAnalyze(u))
    /\ M!Fairness

MCSpec == MCInit /\ [][MCNext]_allVars /\ MCFairness

\* The properties of DriverTracking, each in the instance it is about: without
\* faults the track follows the index and every report is tracked, with them
\* goroutine and handler come to an end (driver_service.go, lines 71-157).
CalmTracks == program = "calm" => TrackFollowsIndex
ReportsEnd ==
    /\ program = "calm" => EveryReportTracked
    /\ program = "faulty" => Faulty!EveryReportCloses

\* Those of Manager hold in its initial states, where the others leave it.
ManagerSound == M!ManagerSound

\* Reports, goroutines and handlers come to their end, and so do the calls of
\* Run and Close of the manager (manager.go, lines 310-356).
EverythingEnds == ReportsEnd /\ M!ManagerReturns
=============================================================================
