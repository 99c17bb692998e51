------------------------------- MODULE Manager -------------------------------
(***************************************************************************)
(* lesson_07/opentelemetry-go-instrumentation: Instrumentation, which an   *)
(* application loads, runs and closes from any of its goroutines, and the  *)
(* Manager of its probes.  A probe is attached to the target process and   *)
(* has a perf reader, from which a goroutine of its own reads events.      *)
(*                                                                         *)
(* A critical section is one step, except Stop, which waits inside of its  *)
(* two for the goroutines of the probes.                                   *)
(***************************************************************************)
EXTENDS Naturals, FiniteSets

CONSTANTS
    Probes,
    MaxLoads, MaxRuns, MaxCloses, MaxConfigs   \* bounds: calls of Load, Run, Close,
                                               \* and changes of the configuration

Runs == 1..MaxRuns

VARIABLES
    probe,          \* Base: what each probe holds, and its goroutines
    state,          \* Manager.state
    currentConfig,  \* Manager.currentConfig: the probes it enables
    shut,           \* the config provider has been shut down
    loop,           \* the ConfigLoop of each run: where it is, and its c
    cancelled,      \* the context of each run is done
    stopAt,         \* where the Stop of the last Run, and of Close, is
    stopSet,        \* Instrumentation.stop # nil
    stopped,        \* Instrumentation.stopped is closed
    runAt, closeAt, \* where Run and Close are
    handlerClosed,  \* the handler has been shut down
    crashed,        \* a nil reader has been read
    calls,          \* how many calls there were of each kind
    failed,         \* history: loading or closing a probe has failed
    stale           \* history: the loop of an earlier run has overwritten currentConfig,
                    \* or a second Load has, without closing what was loaded

instrumentation == <<stopSet, stopped, runAt, closeAt, handlerClosed>>
managerVars == <<probe, state, currentConfig, shut, loop, cancelled, stopAt,
                 instrumentation, crashed, calls, failed, stale>>

Init ==
    /\ probe = [p \in Probes |-> [attached |-> FALSE, reader |-> "nil",
                                  handling |-> 0, reading |-> 0, ending |-> 0]]
    /\ state = "uninitialized"
    /\ currentConfig = {}
    /\ shut = FALSE
    /\ loop = [i \in Runs |-> [at |-> "off", c |-> {}]]
    /\ cancelled = [i \in Runs |-> FALSE]
    /\ stopAt = [t \in {"run", "close"} |-> "no"]
    /\ stopSet = FALSE
    /\ stopped = FALSE
    /\ runAt = "idle"
    /\ closeAt = "idle"
    /\ handlerClosed = FALSE
    /\ crashed = FALSE
    /\ calls = [k \in {"load", "run", "close", "config", "refused"} |-> 0]
    /\ failed = FALSE
    /\ stale = FALSE

Count(k, max) ==
    /\ calls[k] < max
    /\ calls' = [calls EXCEPT ![k] = @ + 1]

-----------------------------------------------------------------------------
(* Base and its goroutines.                                                *)

Loaded(b) == [b EXCEPT !.attached = TRUE, !.reader = "open"]

\* Load can fail before it attaches anything, before there is a reader, in
\* making one, and after that.
FailedLoad(b, stage) ==
    CASE stage = "early" -> b
      [] stage = "attached" -> [b EXCEPT !.attached = TRUE]
      [] stage = "reader" -> [b EXCEPT !.attached = TRUE, !.reader = "nil"]
      [] stage = "late" -> Loaded(b)

Stages == {"early", "attached", "reader", "late"}

\* Fault: the reader is not among the closers.
ClosedButReader(b) == [b EXCEPT !.attached = FALSE]

\* A goroutine that waits for an event gets ErrClosed.
Closed(b) ==
    [b EXCEPT !.attached = FALSE,
              !.reader = IF @ = "open" THEN "closed" ELSE @,
              !.ending = @ + b.reading, !.reading = 0]

\* runProbe: the goroutine is about to read.
Started(b) == [b EXCEPT !.handling = @ + 1]

Running(p) == probe[p].handling + probe[p].reading + probe[p].ending

Goroutine(p, b) ==
    /\ probe' = [probe EXCEPT ![p] = b]
    /\ UNCHANGED <<state, currentConfig, shut, loop, cancelled, stopAt,
                   instrumentation, calls, failed, stale>>

\* The next turn of Run's loop takes the reader of the moment.
Read(p) ==
    LET b == probe[p] IN
    /\ b.handling > 0
    /\ crashed' = (b.reader = "nil")
    /\ Goroutine(p, [b EXCEPT !.handling = @ - 1,
                              !.reading = IF b.reader = "open" THEN @ + 1 ELSE @])

\* An event arrives and is given to the handler.
Handle(p) ==
    /\ probe[p].reading > 0
    /\ Goroutine(p, [probe[p] EXCEPT !.reading = @ - 1, !.handling = @ + 1])
    /\ UNCHANGED crashed

\* Fault: the WaitGroup is told twice.
EndGoroutineTwice(p) ==
    /\ probe[p].ending > 0
    /\ Goroutine(p, [probe[p] EXCEPT !.ending = @ - 2])
    /\ UNCHANGED crashed

EndGoroutine(p) ==
    /\ probe[p].ending > 0
    /\ Goroutine(p, [probe[p] EXCEPT !.ending = @ - 1])
    /\ UNCHANGED crashed

-----------------------------------------------------------------------------
(* Manager.                                                                *)

\* stateMu, probeMu and stopMu, which only Stop and Close hold across steps.
StateMuFree == \A t \in {"run", "close"} : stopAt[t] \notin {"probes", "wait"}
ProbeMuFree == \A t \in {"run", "close"} : stopAt[t] # "wait"
StopMuFree  == closeAt = "idle"

\* cleanup shuts the provider down and closes every probe; both may fail.
AllClosed(f) == [p \in Probes |-> Closed(f[p])]

Load ==
    /\ StateMuFree
    /\ Count("load", MaxLoads)
    /\ IF state = "running"
       THEN UNCHANGED <<probe, state, currentConfig, shut, failed, stale>>
       ELSE \E c \in SUBSET Probes :
            /\ currentConfig' = c
            /\ \/ /\ probe' = [p \in Probes |-> IF p \in c THEN Loaded(probe[p]) ELSE probe[p]]
                  /\ state' = "loaded"
                  /\ stale' = (stale \/ (state = "loaded" /\ ~(currentConfig \subseteq c)))
                  /\ UNCHANGED <<shut, failed>>
               \/ \E before \in SUBSET c : \E q \in c \ before : \E stage \in Stages :
                  /\ probe' = AllClosed([p \in Probes |->
                                 CASE p \in before -> Loaded(probe[p])
                                   [] p = q -> FailedLoad(probe[p], stage)
                                   [] OTHER -> probe[p]])
                  /\ shut' = TRUE
                  /\ failed' = TRUE
                  /\ UNCHANGED <<state, stale>>
               \/ /\ failed' = TRUE   \* no executable, or no bpffs
                  /\ UNCHANGED <<probe, state, shut, stale>>
    /\ UNCHANGED <<loop, cancelled, stopAt, instrumentation, crashed>>

(***************************************************************************)
(* The probes are visited in no particular order.  Once one has failed to  *)
(* load or to close, those that follow are loaded and not run.             *)
(***************************************************************************)
ChangeProbes(c) ==
    LET enabling == c \ currentConfig
        disabling == currentConfig \ c
    IN  \E bad \in SUBSET enabling : \E run \in SUBSET (enabling \ bad) :
        \E stage \in [bad -> Stages] : \E closeFails \in BOOLEAN :
            /\ closeFails => disabling # {}
            /\ bad = {} /\ ~closeFails => run = enabling
            /\ failed' = (failed \/ closeFails \/ bad # {})
            /\ probe' = [p \in Probes |->
                  CASE p \in disabling -> Closed(probe[p])
                    [] p \in run -> Started(Loaded(probe[p]))
                    [] p \in bad -> FailedLoad(probe[p], stage[p])
                    [] p \in enabling \ (run \cup bad) -> Loaded(probe[p])
                    [] OTHER -> probe[p]]

LoopGoto(i, from, to) ==
    /\ loop[i].at = from
    /\ loop' = [loop EXCEPT ![i] = to]
    /\ UNCHANGED <<state, shut, cancelled, stopAt, instrumentation, crashed>>

\* A configuration is received, be the context done or not.
Receive(i) ==
    /\ ~shut
    /\ Count("config", MaxConfigs)
    /\ \E c \in SUBSET Probes : LoopGoto(i, "watch", [at |-> "apply", c |-> c])
    /\ UNCHANGED <<probe, currentConfig, failed, stale>>

\* Fault: a manager that has been stopped is not noticed.
ApplyConfigAnyway(i) ==
    /\ ProbeMuFree
    /\ LoopGoto(i, "apply", [loop[i] EXCEPT !.at = "set"])
    /\ ChangeProbes(loop[i].c)
    /\ UNCHANGED <<currentConfig, calls, stale>>

\* Fault: a probe that is enabled is not run.
ApplyConfigWithoutRun(i) ==
    /\ ProbeMuFree
    /\ LoopGoto(i, "apply", [loop[i] EXCEPT !.at = "set"])
    /\ probe' = [p \in Probes |-> CASE state # "running" -> probe[p]
                                    [] p \in currentConfig \ loop[i].c -> Closed(probe[p])
                                    [] p \in loop[i].c \ currentConfig -> Loaded(probe[p])
                                    [] OTHER -> probe[p]]
    /\ UNCHANGED <<failed, currentConfig, calls, stale>>

ApplyConfig(i) ==
    /\ ProbeMuFree
    /\ LoopGoto(i, "apply", [loop[i] EXCEPT !.at = "set"])
    /\ IF state = "running" THEN ChangeProbes(loop[i].c) ELSE UNCHANGED <<probe, failed>>
    /\ UNCHANGED <<currentConfig, calls, stale>>

\* applyConfig returned nil, whatever failed.
SetConfig(i) ==
    /\ LoopGoto(i, "set", [loop[i] EXCEPT !.at = "watch"])
    /\ currentConfig' = loop[i].c
    /\ stale' = (stale \/ state = "loaded" \/ (state = "running" /\ i # calls["run"]))
    /\ UNCHANGED <<probe, calls, failed>>

\* The context is done, or the provider has closed its channel.
LeaveLoop(i) ==
    /\ LoopGoto(i, "watch", [loop[i] EXCEPT !.at = "off"])
    /\ UNCHANGED <<probe, currentConfig, calls, failed, stale>>

StopStep(t, from, to) ==
    /\ stopAt[t] = from
    /\ stopAt' = [stopAt EXCEPT ![t] = to]
    /\ UNCHANGED <<currentConfig, loop, instrumentation, crashed, calls, failed, stale>>

\* Stop takes stateMu and cancels the run.
StopBegin(t) ==
    /\ StateMuFree
    /\ IF state \in {"uninitialized", "stopped"}
       THEN StopStep(t, "lock", "done") /\ UNCHANGED cancelled
       ELSE /\ StopStep(t, "lock", "probes")
            /\ cancelled' = IF state = "running" THEN [cancelled EXCEPT ![calls["run"]] = TRUE]
                                                 ELSE cancelled
    /\ UNCHANGED <<probe, state, shut>>

\* It takes probeMu and closes all.
StopCleanup(t) ==
    /\ StopStep(t, "probes", "wait")
    /\ probe' = AllClosed(probe)
    /\ shut' = TRUE
    /\ UNCHANGED <<state, cancelled>>

\* runningProbesWG.Wait.
StopEnd(t) ==
    /\ \A p \in Probes : Running(p) = 0
    /\ StopStep(t, "wait", "done")
    /\ state' = "stopped"
    /\ UNCHANGED <<probe, shut, cancelled>>

Stop(t) == StopBegin(t) \/ StopCleanup(t) \/ StopEnd(t)

-----------------------------------------------------------------------------
(* Instrumentation.                                                        *)

\* newStop.
RunBegin ==
    /\ StopMuFree /\ ~stopSet /\ runAt = "idle"
    /\ Count("run", MaxRuns)
    /\ stopSet' = TRUE
    /\ stopped' = FALSE
    /\ runAt' = "probes"
    /\ UNCHANGED <<probe, state, currentConfig, shut, loop, cancelled, stopAt,
                   closeAt, handlerClosed, crashed, failed, stale>>

\* "instrumentation already running": the deferred cleanup is run even so.
RunRefused ==
    /\ StopMuFree /\ stopSet
    /\ Count("refused", 1)
    /\ handlerClosed' = TRUE
    /\ UNCHANGED <<probe, state, currentConfig, shut, loop, cancelled, stopAt,
                   stopSet, stopped, runAt, closeAt, crashed, failed, stale>>

\* Fault: probes that are not enabled are run too.
RunAllProbes ==
    /\ runAt = "probes" /\ StateMuFree /\ state = "loaded"
    /\ probe' = [p \in Probes |-> Started(probe[p])]
    /\ state' = "running"
    /\ runAt' = "wait"
    /\ loop' = [loop EXCEPT ![calls["run"]].at = "watch"]
    /\ UNCHANGED <<currentConfig, shut, cancelled, stopAt, stopSet, stopped, closeAt,
                   handlerClosed, crashed, calls, failed, stale>>

\* runProbes; then the loop and the goroutine that will call Stop are started.
RunProbes ==
    /\ runAt = "probes" /\ StateMuFree
    /\ IF state = "loaded"
       THEN /\ probe' = [p \in Probes |-> IF p \in currentConfig THEN Started(probe[p])
                                                                 ELSE probe[p]]
            /\ state' = "running"
            /\ runAt' = "wait"
            /\ loop' = [loop EXCEPT ![calls["run"]].at = "watch"]
       ELSE runAt' = "return" /\ UNCHANGED <<probe, state, loop>>
    /\ UNCHANGED <<currentConfig, shut, cancelled, stopAt, stopSet, stopped, closeAt,
                   handlerClosed, crashed, calls, failed, stale>>

Goto(run, close) ==
    /\ runAt' = run
    /\ closeAt' = close
    /\ UNCHANGED <<probe, state, currentConfig, shut, loop, crashed, failed, stale>>

\* The application's own context is done.
Cancel ==
    /\ runAt # "idle" /\ ~cancelled[calls["run"]]
    /\ cancelled' = [cancelled EXCEPT ![calls["run"]] = TRUE]
    /\ Goto(runAt, closeAt)
    /\ UNCHANGED <<stopAt, stopSet, stopped, handlerClosed, calls>>

RunCancelled ==
    /\ runAt = "wait" /\ cancelled[calls["run"]]
    /\ Goto("stop", closeAt)
    /\ stopAt' = [stopAt EXCEPT !["run"] = "lock"]
    /\ UNCHANGED <<cancelled, stopSet, stopped, handlerClosed, calls>>

\* Fault: stopped is not closed when the manager could not run.
RunEndSilently ==
    /\ runAt = "return" \/ (runAt = "stop" /\ stopAt["run"] = "done")
    /\ Goto("idle", closeAt)
    /\ stopAt' = [stopAt EXCEPT !["run"] = "no"]
    /\ stopped' = (runAt = "stop")
    /\ handlerClosed' = TRUE
    /\ UNCHANGED <<cancelled, stopSet, calls>>

\* close(i.stopped), then the deferred cleanup.
RunEnd ==
    /\ runAt = "return" \/ (runAt = "stop" /\ stopAt["run"] = "done")
    /\ Goto("idle", closeAt)
    /\ stopAt' = [stopAt EXCEPT !["run"] = "no"]
    /\ stopped' = TRUE
    /\ handlerClosed' = TRUE
    /\ UNCHANGED <<cancelled, stopSet, calls>>

\* Fault: the handler is shut down while the run is being stopped.
CloseBeginWithHandler ==
    /\ closeAt = "idle"
    /\ Count("close", MaxCloses)
    /\ stopSet
    /\ Goto(runAt, "wait")
    /\ handlerClosed' = TRUE
    /\ cancelled' = [cancelled EXCEPT ![calls["run"]] = TRUE]
    /\ UNCHANGED <<stopAt, stopSet, stopped>>

\* Close takes stopMu and keeps it until it returns.
CloseBegin ==
    /\ closeAt = "idle"
    /\ Count("close", MaxCloses)
    /\ IF stopSet
       THEN /\ Goto(runAt, "wait")
            /\ cancelled' = [cancelled EXCEPT ![calls["run"]] = TRUE]
            /\ UNCHANGED stopAt
       ELSE /\ Goto(runAt, "stop")
            /\ stopAt' = [stopAt EXCEPT !["close"] = "lock"]
            /\ UNCHANGED cancelled
    /\ UNCHANGED <<stopSet, stopped, handlerClosed>>

CloseStopped ==
    /\ closeAt = "stop" /\ stopAt["close"] = "done"
    /\ Goto(runAt, "idle")
    /\ stopAt' = [stopAt EXCEPT !["close"] = "no"]
    /\ UNCHANGED <<cancelled, stopSet, stopped, handlerClosed, calls>>

CloseEnd ==
    /\ closeAt = "wait" /\ stopped
    /\ Goto(runAt, "idle")
    /\ stopSet' = FALSE
    /\ stopped' = FALSE
    /\ handlerClosed' = TRUE
    /\ UNCHANGED <<cancelled, stopAt, calls>>

Next ==
    /\ ~crashed
    /\ \/ Load
       \/ \E p \in Probes : Read(p) \/ Handle(p) \/ EndGoroutine(p)
       \/ \E i \in Runs : Receive(i) \/ ApplyConfig(i) \/ SetConfig(i) \/ LeaveLoop(i)
       \/ \E t \in {"run", "close"} : Stop(t)
       \/ RunBegin \/ RunRefused \/ RunProbes \/ RunCancelled \/ RunEnd
       \/ Cancel
       \/ CloseBegin \/ CloseStopped \/ CloseEnd

(***************************************************************************)
(* Goroutines are scheduled, the mutexes are fair, and a handler returns.  *)
(* Events, calls and cancellations need not come.                          *)
(***************************************************************************)
Fairness ==
    /\ \A p \in Probes : WF_managerVars(~crashed /\ (Read(p) \/ EndGoroutine(p)))
    /\ \A i \in Runs : WF_managerVars(~crashed /\ (ApplyConfig(i) \/ SetConfig(i)))
    /\ \A t \in {"run", "close"} : WF_managerVars(~crashed /\ Stop(t))
    /\ WF_managerVars(~crashed /\ (RunProbes \/ RunCancelled \/ RunEnd))
    /\ WF_managerVars(~crashed /\ (CloseStopped \/ CloseEnd))

Spec == Init /\ [][Next]_managerVars /\ Fairness

-----------------------------------------------------------------------------
(* Properties. *)

ManagerTypeOK ==
    /\ probe \in [Probes -> [attached : BOOLEAN, reader : {"nil", "open", "closed"},
                            handling : Nat, reading : Nat, ending : Nat]]
    /\ state \in {"uninitialized", "loaded", "running", "stopped"}
    /\ currentConfig \subseteq Probes
    /\ loop \in [Runs -> [at : {"off", "watch", "apply", "set"}, c : SUBSET Probes]]
    /\ stopAt \in [{"run", "close"} -> {"no", "lock", "probes", "wait", "done"}]
    /\ cancelled \in [Runs -> BOOLEAN]
    /\ runAt \in {"idle", "probes", "wait", "stop", "return"}
    /\ closeAt \in {"idle", "wait", "stop"}
    /\ {shut, stopSet, stopped, handlerClosed, crashed, failed, stale} \subseteq BOOLEAN

(***************************************************************************)
(* Whatever configuration arrives while it stops, once the Manager is      *)
(* stopped no probe is attached and no goroutine of one is left            *)
(* (manager.go, lines 199-203 and 336-360).                                *)
(***************************************************************************)
StoppedIsQuiet ==
    state = "stopped" => \A p \in Probes :
        ~probe[p].attached /\ probe[p].reader # "open" /\ Running(p) = 0

(***************************************************************************)
(* While the Manager runs, exactly the probes its configuration enables    *)
(* are attached, and somebody reads the events of each (manager.go, lines  *)
(* 206-224 and 297-301) -- until loading or closing a probe fails, which   *)
(* applyConfig forgets (line 226), or currentConfig is overwritten by the  *)
(* loop of an earlier run or by a second Load.                             *)
(***************************************************************************)
EnabledRuns ==
    /\ state = "running" /\ ProbeMuFree /\ ~crashed /\ ~failed /\ ~stale
    /\ \A i \in Runs : loop[i].at # "set"
    => \A p \in Probes :
        IF p \in currentConfig
        THEN probe[p].attached /\ probe[p].reader = "open" /\ Running(p) > probe[p].ending
        ELSE ~probe[p].attached /\ probe[p].reader # "open"

(***************************************************************************)
(* The handler is shut down after the last of its goroutines has ended     *)
(* (instrumentation.go, lines 98-100 and 139-141), unless Run has been     *)
(* called more than once: a call that is refused shuts it down too.        *)
(***************************************************************************)
HandlerOutlivesProbes ==
    handlerClosed /\ (\E p \in Probes : Running(p) > 0) =>
        calls["run"] > 1 \/ calls["refused"] > 0

(***************************************************************************)
(* A goroutine reads from a reader that does not exist (probe.go, line     *)
(* 280), and takes the process down, only after a failed Load or when the  *)
(* loop of an earlier run has interfered.                                  *)
(***************************************************************************)
CrashNeedsCause == crashed => failed \/ stale

(***************************************************************************)
(* Run returns once its context is done, and Close returns, in whatever    *)
(* order they, Load and changes of the configuration meet at the three     *)
(* mutexes (manager.go, lines 336-356; instrumentation.go, lines 129-146). *)
(***************************************************************************)
RunReturns ==
    (runAt # "idle" /\ cancelled[calls["run"]]) ~> (runAt = "idle" \/ crashed)

CloseReturns == (closeAt # "idle") ~> (closeAt = "idle" \/ crashed)

(***************************************************************************)
(* The probes are attached, read and closed as state and configuration     *)
(* say, in whatever order Load, Run, Close and the configurations come     *)
(* (manager.go, lines 190-360; instrumentation.go, lines 93-148).          *)
(***************************************************************************)
ManagerSound == ManagerTypeOK /\ StoppedIsQuiet /\ EnabledRuns /\ HandlerOutlivesProbes /\ CrashNeedsCause

(***************************************************************************)
(* Neither Run nor Close waits for ever (the two properties above).        *)
(***************************************************************************)
ManagerReturns == RunReturns /\ CloseReturns

=============================================================================
