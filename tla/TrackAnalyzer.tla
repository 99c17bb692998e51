---------------------------- MODULE TrackAnalyzer ----------------------------
(***************************************************************************)
(* track-analyzer-service: AddPoint handlers storing GPS points and the    *)
(* analysis of a driver's recent track in Redis, without transactions.     *)
(*                                                                         *)
(* A point is named by the save that stores it.  The list                  *)
(* track:points:<driver> is kept in push order (its newest element last);  *)
(* since nothing ever removes an element, the reply of LRANGE 0 99 is      *)
(* determined by the length the list had, and that length is what a save   *)
(* and an analysis remember.  The kinematics of AnalyzeTrack is left out:  *)
(* the properties here are about which points an analysis has seen.  The   *)
(* driver of the URL, which names the list, and the driver of the body,    *)
(* which names the analysis, are the same: the driver service, the only    *)
(* client, takes both from one variable.                                   *)
(***************************************************************************)
EXTENDS Naturals, Sequences, FiniteSets

CONSTANTS
    Drivers,     \* driver ids
    Saves,       \* the calls of AddPoint, each storing one point
    Window,      \* points analysed at once, 100 in the code
    MaxRetries,  \* retries of the Redis client for one command
    Faults,      \* whether Redis, the deadline or the process may fail
    None         \* no driver, or no analysis

ASSUME TrackAssumption ==
    /\ Window \in Nat \ {0}
    /\ MaxRetries \in Nat
    /\ Faults \in BOOLEAN
    /\ None \notin Drivers
    /\ None \notin [by : Saves, upto : Nat]

VARIABLES
    pc,         \* where each save is
    driver,     \* the driver of each save
    tries,      \* retries made for the command a save is at
    seen,       \* length of the list when the save read it
    track,      \* track:points:<driver>, oldest point first
    analysis,   \* track:analysis:<driver>: who wrote it, from what length
    processed,  \* processed_gps_points_total
    met         \* history: pairs of saves of one driver that overlapped

vars == <<pc, driver, tries, seen, track, analysis, processed, met>>

Commands == {"LPush", "LRange", "Set"}
Running  == Commands \cup {"Reply"}
Ended    == {"ok", "failed"}
\* The save has written its analysis, as far as it can tell.
Saved    == {"Reply", "ok"}

InFlight(d) == {s \in Saves : driver[s] = d /\ pc[s] \in Running}

\* The save's point is among the first n points of the list.
Stored(s, d, n) == \E i \in 1..n : track[d][i] = s

Init ==
    /\ pc = [s \in Saves |-> "idle"]
    /\ driver = [s \in Saves |-> None]
    /\ tries = [s \in Saves |-> 0]
    /\ seen = [s \in Saves |-> 0]
    /\ track = [d \in Drivers |-> <<>>]
    /\ analysis = [d \in Drivers |-> None]
    /\ processed = [d \in Drivers |-> 0]
    /\ met = {}

Goto(s, from, to) ==
    /\ pc[s] = from
    /\ pc' = [pc EXCEPT ![s] = to]

(***************************************************************************)
(* One command of the Redis client.  It succeeds; or its reply is lost     *)
(* after Redis has executed it, and the client sends it again or gives up; *)
(* or the client gives up and Redis never executed it (connection refused, *)
(* context done).  Effect and NoEffect say what the server does.           *)
(***************************************************************************)
Execute(s, from, to, Effect) ==
    /\ Goto(s, from, to)
    /\ tries' = [tries EXCEPT ![s] = 0]
    /\ Effect

\* Fault: one attempt too many.
LoseReplyOnceMore(s, from, Effect) ==
    /\ Faults
    /\ pc[s] = from
    /\ Effect
    /\ \/ /\ tries[s] <= MaxRetries
          /\ tries' = [tries EXCEPT ![s] = @ + 1]
          /\ UNCHANGED pc
       \/ /\ pc' = [pc EXCEPT ![s] = "failed"]
          /\ tries' = [tries EXCEPT ![s] = 0]

LoseReply(s, from, Effect) ==
    /\ Faults
    /\ pc[s] = from
    /\ Effect
    /\ \/ /\ tries[s] < MaxRetries
          /\ tries' = [tries EXCEPT ![s] = @ + 1]
          /\ UNCHANGED pc
       \/ /\ pc' = [pc EXCEPT ![s] = "failed"]
          /\ tries' = [tries EXCEPT ![s] = 0]

\* AddPoint has decoded its request body and calls SavePoint.
Begin(s, d) ==
    /\ Goto(s, "idle", "LPush")
    /\ driver' = [driver EXCEPT ![s] = d]
    /\ met' = met \cup ({s} \X InFlight(d)) \cup (InFlight(d) \X {s})
    /\ UNCHANGED <<tries, seen, track, analysis, processed>>

\* metrics.ProcessedPoints.Inc(); nothing but the end of the process can come
\* between it and the command before it.
Inc(s) == processed' = [processed EXCEPT ![driver[s]] = @ + 1]

\* Fault: the point is added at the other end of the list (RPUSH).
PushAtTail(s) ==
    LET d == driver[s]
        Effect == track' = [track EXCEPT ![d] = <<s>> \o @]
    IN  /\ \/ Execute(s, "LPush", "LRange", Effect) /\ Inc(s)
           \/ LoseReply(s, "LPush", Effect) /\ UNCHANGED processed
        /\ UNCHANGED <<driver, seen, analysis, met>>

\* SavePoint: LPUSH track:points:<driver>, and the point is counted.
Push(s) ==
    LET d == driver[s]
        Effect == track' = [track EXCEPT ![d] = Append(@, s)]
    IN  /\ \/ Execute(s, "LPush", "LRange", Effect) /\ Inc(s)
           \/ LoseReply(s, "LPush", Effect) /\ UNCHANGED processed
        /\ UNCHANGED <<driver, seen, analysis, met>>

\* Fault: LRANGE 1 99, without the newest point.
ReadWithoutNewest(s) ==
    /\ Execute(s, "LRange", "Set",
               seen' = [seen EXCEPT ![s] = Len(track[driver[s]]) - 1])
    /\ UNCHANGED <<driver, track, analysis, processed, met>>

\* Fault: an error of LRANGE is taken for an empty list.
ReadIgnoringErrors(s) ==
    /\ Goto(s, "LRange", "Set")
    /\ tries' = [tries EXCEPT ![s] = 0]
    /\ seen' \in {[seen EXCEPT ![s] = n] : n \in {0, Len(track[driver[s]])}}
    /\ UNCHANGED <<driver, track, analysis, processed, met>>

\* SavePoint: LRANGE track:points:<driver> 0 99.
Read(s) ==
    /\ Execute(s, "LRange", "Set",
               seen' = [seen EXCEPT ![s] = Len(track[driver[s]])])
    /\ UNCHANGED <<driver, track, analysis, processed, met>>

\* Fault: the length remembered leaves out the window.
WriteUnread(s) ==
    /\ Execute(s, "Set", "Reply",
               analysis' = [analysis EXCEPT ![driver[s]] =
                               [by |-> s, upto |-> seen[s] - Window]])
    /\ UNCHANGED <<driver, seen, track, processed, met>>

\* SaveTrackAnalysis, after AnalyzeTrack of what LRANGE returned; back in
\* AddPoint, the same point is counted once more.
Write(s) ==
    LET Effect == analysis' = [analysis EXCEPT ![driver[s]] =
                                  [by |-> s, upto |-> seen[s]]]
    IN  /\ \/ Execute(s, "Set", "Reply", Effect) /\ Inc(s)
           \/ LoseReply(s, "Set", Effect) /\ UNCHANGED processed
        /\ UNCHANGED <<driver, seen, track, met>>

\* randomWait has returned; WriteHeader(200).
Reply(s) ==
    /\ Goto(s, "Reply", "ok")
    /\ UNCHANGED <<driver, tries, seen, track, analysis, processed, met>>

\* A command fails without effect; AddPoint answers 500.
Fail(s) ==
    /\ Faults
    /\ pc[s] \in Commands
    /\ pc' = [pc EXCEPT ![s] = "failed"]
    /\ tries' = [tries EXCEPT ![s] = 0]
    /\ UNCHANGED <<driver, seen, track, analysis, processed, met>>

\* 24 hours after the last SET Redis drops the key.
Expire(d) ==
    /\ analysis[d] # None
    /\ analysis' = [analysis EXCEPT ![d] = None]
    /\ UNCHANGED <<pc, driver, tries, seen, track, processed, met>>

\* The process dies and starts again: Redis keeps its keys, counters are lost.
Crash ==
    /\ Faults
    /\ pc' = [s \in Saves |-> IF pc[s] \in Running THEN "failed" ELSE pc[s]]
    /\ processed' = [d \in Drivers |-> 0]
    /\ tries' = [s \in Saves |-> 0]
    /\ UNCHANGED <<driver, seen, track, analysis, met>>

Step(s) ==
    Push(s) \/ Read(s) \/ Write(s) \/ Reply(s) \/ Fail(s)

\* No save is left to begin or to finish.
Terminated ==
    /\ \A s \in Saves : pc[s] \in Ended
    /\ UNCHANGED vars

Next ==
    \/ \E s \in Saves : Step(s) \/ \E d \in Drivers : Begin(s, d)
    \/ \E d \in Drivers : Expire(d)
    \/ Crash
    \/ Terminated

(***************************************************************************)
(* A goroutine that runs is scheduled, and a Redis command returns: the    *)
(* client has its own timeouts and obeys the deadline of the request.      *)
(***************************************************************************)
Fairness == \A s \in Saves : WF_vars(Step(s))

Spec == Init /\ [][Next]_vars /\ Fairness

-----------------------------------------------------------------------------
(* Properties. *)

TypeOK ==
    /\ pc \in [Saves -> {"idle"} \cup Running \cup Ended]
    /\ driver \in [Saves -> Drivers \cup {None}]
    /\ tries \in [Saves -> 0..MaxRetries]
    /\ seen \in [Saves -> Nat]
    /\ track \in [Drivers -> Seq(Saves)]
    /\ analysis \in [Drivers -> [by : Saves, upto : Nat] \cup {None}]
    /\ processed \in [Drivers -> Nat]
    /\ met \subseteq Saves \X Saves

(***************************************************************************)
(* LPUSH, LRANGE and SET are three separate commands                       *)
(* (track_repository.go, lines 122, 132 and 60), so the analysis kept for  *)
(* a driver can miss the point of a save that has already succeeded -- but *)
(* only of one that overlapped with the save that wrote the analysis.      *)
(***************************************************************************)
MissedOnlyByOverlap ==
    \A p \in Saves :
        pc[p] \in Saved /\ analysis[driver[p]] # None =>
            \/ Stored(p, driver[p], analysis[driver[p]].upto)
            \/ <<p, analysis[driver[p]].by>> \in met

(***************************************************************************)
(* The stored analysis goes back to an older state of the track only when  *)
(* the save that writes it overlapped with the one it overwrites.          *)
(***************************************************************************)
RegressOnlyByOverlap ==
    [][\A d \in Drivers :
          /\ analysis[d] # None
          /\ analysis'[d] # None
          /\ analysis'[d].upto < analysis[d].upto
          => <<analysis'[d].by, analysis[d].by>> \in met]_vars

(***************************************************************************)
(* "Get last 100 points for analysis" (track_repository.go, line 131): the *)
(* points analysed include the one that asked for the analysis, unless so  *)
(* many saves overlapped with it that they could fill the window (each     *)
(* stores its point once more for every retry of the Redis client).        *)
(***************************************************************************)
OwnPointLostOnlyToOverlap ==
    \A d \in Drivers :
        analysis[d] # None =>
            LET a == analysis[d]
                others == {q \in Saves : <<q, a.by>> \in met}
            IN  \/ \E i \in 1..a.upto : i > a.upto - Window /\ track[d][i] = a.by
                \/ Cardinality(others) * (1 + MaxRetries) >= Window

=============================================================================
