------------------------- MODULE DriverTrackingProofs -------------------------
(***************************************************************************)
(* Proofs about DriverTracking, for any number of drivers and reports, any *)
(* number of retries, with and without faults: the two services implement  *)
(* ReportLog, only reports that raced are stored out of order, and without *)
(* faults the track follows the index.  And about Manager, for any probes  *)
(* and any number of calls.                                                *)
(***************************************************************************)
EXTENDS MCEndings, FiniteSetTheorems, TLAPS

\* Where an update can be; without removals and queries no request is elsewhere.
Places  == {"idle", "GeoAdd", "Go", "Set", "ok", "failed"}

\* What of the driver service matters to the way of a report.
Typed ==
    /\ pc \in [Updates -> Places]
    /\ driver \in [Updates -> Drivers \cup {None}]
    /\ handed \subseteq Updates
    /\ TypeOK

(***************************************************************************)
(* Where a report can be: it has a driver since its update began, is sent  *)
(* on only after it was handed over, and is at the analyzer, under its own *)
(* driver, only after it was posted.                                       *)
(***************************************************************************)
HasDriver == \A u \in Updates : pc[u] # "idle" => driver[u] \in Drivers

HandedOver ==
    \A u \in Updates :
        /\ u \in handed => pc[u] \notin {"idle", "GeoAdd", "Go"}
        /\ u \in handed <=> sending[u] # "none"

PostedOnce ==
    \A u \in Updates : apc[u] # "idle" =>
        u \in handed /\ adriver[u] = driver[u] /\ sending[u] # "ready"

Placed == HasDriver /\ HandedOver /\ PostedOnce

\* Steps that leave the way of every report alone.
wayVars == <<driver, handed, sending, stamps, raced, trackVars>>

(***************************************************************************)
(* What a step of UpdateLocation does to the report: it begins, with a     *)
(* driver; it is handed over; or its way stays as it is.                   *)
(***************************************************************************)
LEMMA UpdateCases ==
    ASSUME Typed, Placed, NEW u \in Updates, Update(u)
    PROVE  \/ /\ pc[u] = "idle"
              /\ pc' = [pc EXCEPT ![u] = "GeoAdd"]
              /\ \E d \in Drivers : driver' = [driver EXCEPT ![u] = d]
              /\ UNCHANGED <<handed, sending, stamps, raced, trackVars>>
           \/ /\ pc[u] = "Go"
              /\ pc' = [pc EXCEPT ![u] = "Set"]
              /\ handed' = handed \cup {u}
              /\ sending' = [sending EXCEPT ![u] = "ready"]
              /\ stamps' = Append(stamps, u)
              /\ raced' = raced \cup
                    {<<v, u>> : v \in {w \in handed \ Closed : driver[w] = driver[u]}}
              /\ UNCHANGED <<driver, trackVars>>
           \/ /\ pc[u] \in {"GeoAdd", "Set"}
              /\ \E p \in {pc[u], "Go", "ok", "failed"} : pc' = [pc EXCEPT ![u] = p]
              /\ pc[u] = "Set" => pc'[u] # "Go"
              /\ UNCHANGED wayVars
<1> USE DEF Typed, Places, Update, wayVars
<1>1. CASE D!GeoAdd(u)
  BY <1>1 DEF D!GeoAdd, D!Execute, D!LoseReply, D!Goto
<1>2. CASE D!GoSend(u)
  <2>1. u \notin handed /\ handed' = handed \cup {u}
    BY <1>2 DEF D!GoSend, D!Goto, Placed, HandedOver
  <2>2. handed' # handed
    BY <2>1
  <2>3. QED
    BY <1>2, <2>1, <2>2 DEF D!GoSend, D!Goto
<1>3. CASE D!SetRecord(u)
  BY <1>3 DEF D!SetRecord, D!Execute, D!LoseReply, D!Goto
<1>4. CASE D!FailWrite(u)
  BY <1>4 DEF D!FailWrite, D!Writing
<1>5. ASSUME NEW d \in Drivers, D!BeginUpdate(u, d)
      PROVE  /\ pc[u] = "idle"
             /\ pc' = [pc EXCEPT ![u] = "GeoAdd"]
             /\ driver' = [driver EXCEPT ![u] = d]
             /\ UNCHANGED <<handed, sending, stamps, raced, trackVars>>
  BY <1>5 DEF D!BeginUpdate, D!BeginWrite, D!Goto
<1>6. QED
  BY <1>1, <1>2, <1>3, <1>4, <1>5 DEF D!UpdateStep

\* What a step of the analyzer does to the report: LPUSH, or something else.
LEMMA AnalyzeCases ==
    ASSUME Typed, Placed, NEW u \in Updates, T!Step(u)
    PROVE  /\ apc[u] # "idle" /\ apc'[u] # "idle"
           /\ apc' = [apc EXCEPT ![u] = apc'[u]]
           /\ atries' = [atries EXCEPT ![u] = atries'[u]]
           /\ UNCHANGED adriver
           /\ \/ /\ apc[u] = "LPush"
                 /\ apc'[u] = "LPush" => atries'[u] = atries[u] + 1
                 /\ track' = [track EXCEPT ![driver[u]] = Append(@, u)]
              \/ apc'[u] # "LPush" /\ UNCHANGED track
<1> USE DEF Typed, TypeOK, T!TypeOK, Placed, PostedOnce
<1>1. CASE T!Push(u)
  <2>1. apc[u] = "LPush" /\ adriver[u] = driver[u] /\ UNCHANGED adriver
    BY <1>1 DEF T!Push, T!Execute, T!LoseReply, T!Goto
  <2>2. /\ apc' = [apc EXCEPT ![u] = apc'[u]] /\ apc'[u] # "idle"
        /\ atries' = [atries EXCEPT ![u] = atries'[u]]
        /\ apc'[u] = "LPush" => atries'[u] = atries[u] + 1
    BY <1>1, <2>1 DEF T!Push, T!Execute, T!LoseReply, T!Goto
  <2>3. track' = [track EXCEPT ![driver[u]] = Append(@, u)]
    BY <1>1, <2>1 DEF T!Push, T!Execute, T!LoseReply, T!Goto
  <2>4. QED
    BY <2>1, <2>2, <2>3
<1>2. CASE T!Read(u)
  BY <1>2 DEF T!Read, T!Execute, T!Goto
<1>3. CASE T!Write(u)
  BY <1>3 DEF T!Write, T!Execute, T!LoseReply, T!Goto
<1>4. CASE T!Reply(u)
  BY <1>4 DEF T!Reply, T!Goto
<1>5. CASE T!Fail(u)
  BY <1>5 DEF T!Fail, T!Commands
<1>6. QED
  BY <1>1, <1>2, <1>3, <1>4, <1>5 DEF T!Step

\* Every report that was posted belongs to a driver.
LEMMA PostedHasDriver ==
    ASSUME Typed, Placed, NEW u \in Updates, u \in handed \/ apc[u] # "idle"
    PROVE  u \in handed /\ driver[u] \in Drivers
BY DEF Placed, HasDriver, HandedOver, PostedOnce

\* The count of a command's tries, started anew or raised, stays in its range.
LEMMA TriesKept ==
    ASSUME atries \in [Updates -> 0..AnalyzerRetries], NEW u \in Updates,
           \/ atries' = [atries EXCEPT ![u] = 0]
           \/ atries[u] < AnalyzerRetries /\ atries' = [atries EXCEPT ![u] = @ + 1]
    PROVE  atries' \in [Updates -> 0..AnalyzerRetries]
<1>1. atries[u] < AnalyzerRetries => atries[u] + 1 \in 0..AnalyzerRetries
  BY TrackingAssumption
<1>2. 0 \in 0..AnalyzerRetries
  BY TrackingAssumption
<1>3. QED
  BY <1>1, <1>2

\* The analyzer's steps keep its types.
LEMMA AnalyzerTyped ==
    ASSUME Typed, Placed,
           \/ \E u \in Updates : T!Step(u)
           \/ \E u \in Updates, d \in Drivers : T!Begin(u, d)
           \/ \E d \in Drivers : T!Expire(d)
           \/ T!Crash
    PROVE  T!TypeOK'
<1> USE TrackingAssumption DEF Typed, TypeOK, T!TypeOK, T!Running, T!Commands, T!Ended
<1>1. ASSUME NEW u \in Updates, T!Push(u)
      PROVE  T!TypeOK'
  <2>1. /\ apc[u] = "LPush" /\ adriver[u] = driver[u] /\ driver[u] \in Drivers
        /\ UNCHANGED <<adriver, seen, analysis, met>>
    BY <1>1, PostedHasDriver DEF T!Push, T!Execute, T!LoseReply, T!Goto, Placed, PostedOnce
  <2>2. apc' \in [Updates -> {"idle"} \cup T!Running \cup T!Ended]
    <3>1. apc' = [apc EXCEPT ![u] = "LRange"] \/ apc' = [apc EXCEPT ![u] = "failed"] \/ apc' = apc
      BY <1>1 DEF T!Push, T!Execute, T!LoseReply, T!Goto
    <3>2. QED
      BY <3>1
  <2>3. atries' \in [Updates -> 0..AnalyzerRetries]
    BY <1>1, TriesKept DEF T!Push, T!Execute, T!LoseReply
  <2>4. track' \in [Drivers -> Seq(Updates)]
    <3>1. track' = [track EXCEPT ![driver[u]] = Append(@, u)]
      BY <1>1, <2>1 DEF T!Push, T!Execute, T!LoseReply
    <3>2. Append(track[driver[u]], u) \in Seq(Updates)
      BY <2>1
    <3>3. QED
      BY <3>1, <3>2
  <2>5. processed' \in [Drivers -> Nat]
    <3>1. processed' \in {processed, [processed EXCEPT ![driver[u]] = @ + 1]}
      BY <1>1, <2>1 DEF T!Push, T!Inc
    <3>2. processed[driver[u]] + 1 \in Nat
      BY <2>1
    <3>3. QED
      BY <3>1, <3>2
  <2>6. QED
    BY <2>1, <2>2, <2>3, <2>4, <2>5
<1>2. ASSUME NEW u \in Updates, T!Read(u)
      PROVE  T!TypeOK'
  <2>1. apc[u] # "idle" /\ adriver[u] = driver[u]
    BY <1>2 DEF T!Read, T!Execute, T!Goto, Placed, PostedOnce
  <2>2. track[adriver[u]] \in Seq(Updates)
    BY <2>1, PostedHasDriver
  <2>3. Len(track[adriver[u]]) \in Nat
    BY <2>2
  <2>4. QED
    BY <1>2, <2>3 DEF T!Read, T!Execute, T!Goto
<1>3. ASSUME NEW u \in Updates, T!Write(u)
      PROVE  T!TypeOK'
  <2>1. /\ apc[u] = "Set" /\ adriver[u] = driver[u] /\ driver[u] \in Drivers
        /\ UNCHANGED <<adriver, seen, track, met>>
    BY <1>3, PostedHasDriver DEF T!Write, T!Execute, T!LoseReply, T!Goto, Placed, PostedOnce
  <2>2. apc' \in [Updates -> {"idle"} \cup T!Running \cup T!Ended]
    <3>1. apc' = [apc EXCEPT ![u] = "Reply"] \/ apc' = [apc EXCEPT ![u] = "failed"] \/ apc' = apc
      BY <1>3 DEF T!Write, T!Execute, T!LoseReply, T!Goto
    <3>2. QED
      BY <3>1
  <2>3. atries' \in [Updates -> 0..AnalyzerRetries]
    BY <1>3, TriesKept DEF T!Write, T!Execute, T!LoseReply
  <2>4. analysis' = [analysis EXCEPT ![adriver[u]] = [by |-> u, upto |-> seen[u]]]
    BY <1>3 DEF T!Write, T!Execute, T!LoseReply
  <2>5. analysis' \in [Drivers -> [by : Updates, upto : Nat] \cup {None}]
    BY <2>1, <2>4
  <2>6. processed' \in [Drivers -> Nat]
    <3>1. processed' \in {processed, [processed EXCEPT ![driver[u]] = @ + 1]}
      BY <1>3, <2>1 DEF T!Write, T!Inc
    <3>2. processed[driver[u]] + 1 \in Nat
      BY <2>1
    <3>3. QED
      BY <3>1, <3>2
  <2>7. QED
    BY <2>1, <2>2, <2>3, <2>5, <2>6
<1>4. ASSUME NEW u \in Updates, T!Reply(u)
      PROVE  T!TypeOK'
  BY <1>4 DEF T!Reply, T!Goto
<1>5. ASSUME NEW u \in Updates, T!Fail(u)
      PROVE  T!TypeOK'
  BY <1>5 DEF T!Fail
<1>6. ASSUME NEW u \in Updates, NEW d \in Drivers, T!Begin(u, d)
      PROVE  T!TypeOK'
  <2>1. T!InFlight(d) \subseteq Updates
    BY DEF T!InFlight
  <2>2. met' \subseteq Updates \X Updates
    BY <1>6, <2>1 DEF T!Begin
  <2>3. QED
    BY <1>6, <2>2 DEF T!Begin, T!Goto
<1>7. ASSUME NEW d \in Drivers, T!Expire(d)
      PROVE  T!TypeOK'
  BY <1>7 DEF T!Expire
<1>8. CASE T!Crash
  BY <1>8 DEF T!Crash
<1>9. QED
  BY <1>1, <1>2, <1>3, <1>4, <1>5, <1>6, <1>7, <1>8 DEF T!Step

-----------------------------------------------------------------------------
\* What the step of a goroutine does to its report: it goes on to the analyzer,
\* or it ends.
LEMMA SendCases ==
    ASSUME Typed, Placed, NEW u \in Updates, Send(u)
    PROVE  /\ UNCHANGED <<pc, driver, handed, stamps, raced>>
           /\ \/ /\ sending[u] = "ready"
                 /\ sending' = [sending EXCEPT ![u] = "waiting"]
                 /\ T!Begin(u, driver[u])
              \/ /\ sending[u] \in {"ready", "waiting"}
                 /\ sending' = [sending EXCEPT ![u] = "done"]
                 /\ UNCHANGED trackVars
BY DEF Send, Begin, Post, PostFails, Answer, GiveUp, Goto, driverVars

\* No step of either service moves a report but as its code does.
LEMMA PlacedNext ==
    ASSUME Typed, Placed, [Next]_vars
    PROVE  Typed' /\ Placed'
<1> USE DEF Typed, TypeOK, Places, Placed, HasDriver, HandedOver, PostedOnce
<1>1. ASSUME NEW u \in Updates, Update(u)
      PROVE  Typed' /\ Placed'
  <2>1. CASE pc[u] = "idle"
    <3>1. PICK d \in Drivers :
              /\ pc' = [pc EXCEPT ![u] = "GeoAdd"]
              /\ driver' = [driver EXCEPT ![u] = d]
              /\ UNCHANGED <<handed, sending, stamps, raced, trackVars>>
      BY <1>1, <2>1, UpdateCases
    <3>2. T!TypeOK'
      BY <3>1 DEF trackVars, T!TypeOK
    <3>3. u \notin handed /\ apc[u] = "idle"
      BY <2>1
    <3>4. Placed'
      BY <2>1, <3>1, <3>3 DEF trackVars
    <3>5. QED
      BY <3>1, <3>2, <3>4
  <2>2. CASE pc[u] = "Go"
    <3>1. /\ pc' = [pc EXCEPT ![u] = "Set"]
          /\ handed' = handed \cup {u}
          /\ sending' = [sending EXCEPT ![u] = "ready"]
          /\ stamps' = Append(stamps, u)
          /\ raced' = raced \cup
                {<<v, u>> : v \in {w \in handed \ Closed : driver[w] = driver[u]}}
          /\ UNCHANGED <<driver, trackVars>>
      BY <1>1, <2>2, UpdateCases
    <3>2. T!TypeOK'
      BY <3>1 DEF trackVars, T!TypeOK
    <3>3. stamps' \in Seq(handed')
      <4>1. stamps \in Seq(handed \cup {u})
        OBVIOUS
      <4>2. QED
        BY <3>1, <4>1
    <3>4. raced' \subseteq handed' \X handed'
      BY <3>1
    <3>5. u \notin handed /\ sending[u] = "none" /\ apc[u] = "idle" /\ driver[u] \in Drivers
      BY <2>2
    <3>6. QED
      BY <3>1, <3>2, <3>3, <3>4, <3>5 DEF trackVars
  <2>3. CASE pc[u] \in {"GeoAdd", "Set"}
    <3>1. PICK p \in {pc[u], "Go", "ok", "failed"} : pc' = [pc EXCEPT ![u] = p]
      BY <1>1, <2>3, UpdateCases
    <3>2. UNCHANGED wayVars /\ (pc[u] = "Set" => pc'[u] # "Go")
      BY <1>1, <2>3, UpdateCases
    <3>3. T!TypeOK'
      BY <3>2 DEF wayVars, trackVars, T!TypeOK
    <3>4. Placed'
      BY <2>3, <3>1, <3>2 DEF wayVars, trackVars
    <3>5. QED
      BY <2>3, <3>1, <3>2, <3>3, <3>4 DEF wayVars
  <2>4. QED
    BY <1>1, <2>1, <2>2, <2>3, UpdateCases
<1>2. ASSUME NEW u \in Updates, Send(u)
      PROVE  Typed' /\ Placed'
  <2>1. CASE sending' = [sending EXCEPT ![u] = "waiting"] /\ T!Begin(u, driver[u])
    <3>1. u \in handed /\ driver[u] \in Drivers
      BY <1>2, SendCases
    <3>2. T!TypeOK'
      BY <2>1, <3>1, AnalyzerTyped
    <3>3. apc' = [apc EXCEPT ![u] = "LPush"] /\ adriver' = [adriver EXCEPT ![u] = driver[u]]
      BY <2>1 DEF T!Begin, T!Goto
    <3>4. UNCHANGED <<pc, driver, handed, stamps, raced>>
      BY <1>2, SendCases
    <3>5. Typed'
      BY <2>1, <3>2, <3>4
    <3>6. Placed'
      BY <2>1, <3>1, <3>3, <3>4 DEF T!TypeOK
    <3>7. QED
      BY <3>5, <3>6
  <2>2. CASE sending' = [sending EXCEPT ![u] = "done"] /\ UNCHANGED trackVars
    BY <1>2, <2>2, SendCases DEF trackVars, T!TypeOK
  <2>3. QED
    BY <1>2, <2>1, <2>2, SendCases
<1>3. ASSUME NEW u \in Updates, Analyze(u)
      PROVE  Typed' /\ Placed'
  <2>1. T!TypeOK'
    BY <1>3, AnalyzerTyped DEF Analyze
  <2>2. QED
    BY <1>3, <2>1, AnalyzeCases DEF Analyze, driverVars, T!TypeOK
<1>4. ASSUME NEW d \in Drivers, Expire(d)
      PROVE  Typed' /\ Placed'
  <2>1. T!TypeOK'
    BY <1>4, AnalyzerTyped DEF Expire
  <2>2. QED
    BY <1>4, <2>1 DEF Expire, T!Expire, driverVars
<1>5. CASE CrashDriver
  <2>1. T!TypeOK'
    BY <1>5 DEF CrashDriver, trackVars, T!TypeOK
  <2>2. /\ pc' = [r \in Updates |-> IF pc[r] \in D!Running THEN "failed" ELSE pc[r]]
        /\ UNCHANGED <<driver, handed, stamps, raced, trackVars>>
        /\ sending' = [r \in Updates |-> IF sending[r] = "none" THEN "none" ELSE "done"]
    BY <1>5 DEF CrashDriver, D!Crash, D!Requests, D!Writes
  <2>3. QED
    BY <2>1, <2>2 DEF trackVars, D!Running, D!Writing
<1>6. CASE CrashAnalyzer
  <2>1. T!TypeOK'
    BY <1>6, AnalyzerTyped DEF CrashAnalyzer
  <2>2. QED
    BY <1>6, <2>1 DEF CrashAnalyzer, T!Crash, T!Running, T!Commands, driverVars
<1>7. CASE UNCHANGED vars
  <2>1. T!TypeOK'
    BY <1>7 DEF vars, trackVars, T!TypeOK
  <2>2. QED
    BY <1>7, <2>1 DEF vars, driverVars, trackVars
<1>8. QED
  BY <1>1, <1>2, <1>3, <1>4, <1>5, <1>6, <1>7 DEF Next, Terminated

-----------------------------------------------------------------------------
\* How often a report may have been appended so far: once per try of LPUSH.
MostCopies(u) ==
    IF apc[u] = "idle" THEN 0
    ELSE IF apc[u] = "LPush" THEN atries[u] ELSE AnalyzerRetries + 1

CopiesBounded ==
    \A u \in Updates, d \in Drivers : Log!Copies(u, d) <= MostCopies(u)

OwnList ==
    \A d \in Drivers : \A i \in 1..Len(track[d]) :
        driver[track[d][i]] = d /\ track[d][i] \in handed

Listed == CopiesBounded /\ OwnList

\* Cardinality means in ReportLog what it means here.
LEMMA SameCardinality == \A S : Log!Cardinality(S) = Cardinality(S)
BY DEF Log!Cardinality, Cardinality

\* A report is at finitely many positions of a list.
LEMMA CopiesAreNat ==
    ASSUME Typed, NEW u \in Updates, NEW d \in Drivers
    PROVE  /\ IsFiniteSet({i \in 1..Len(track[d]) : track[d][i] = u})
           /\ Log!Copies(u, d) \in Nat
<1> DEFINE C == {i \in 1..Len(track[d]) : track[d][i] = u}
<1>1. Len(track[d]) \in Nat
  BY DEF Typed, TypeOK, T!TypeOK
<1>2. IsFiniteSet(1..Len(track[d]))
  BY <1>1, FS_Interval
<1>3. C \subseteq 1..Len(track[d])
  OBVIOUS
<1>4. IsFiniteSet(C)
  BY <1>2, <1>3, FS_Subset
<1>5. Cardinality(C) \in Nat
  <2> HIDE DEF C
  <2>1. QED
    BY <1>4, FS_CardinalityType
<1>6. QED
  BY <1>4, <1>5, SameCardinality DEF Log!Copies

\* A list grows at its end only, and the rest of it stays as it was.
LEMMA AppendKeeps ==
    ASSUME NEW S, NEW q \in Seq(S), NEW x \in S
    PROVE  /\ Append(q, x) \in Seq(S)
           /\ Len(Append(q, x)) = Len(q) + 1
           /\ \A i \in 1..Len(q) : Append(q, x)[i] = q[i]
           /\ Append(q, x)[Len(q) + 1] = x
OBVIOUS

\* Steps that append nothing.
LEMMA ListedQuiet ==
    ASSUME Typed, Typed', Listed, UNCHANGED track, handed \subseteq handed',
           \A u \in handed : driver'[u] = driver[u],
           \A u \in Updates : MostCopies(u) \in Nat => MostCopies(u)' >= MostCopies(u)
    PROVE  Listed'
<1> USE DEF Listed
<1>1. OwnList'
  BY DEF OwnList
<1>2. ASSUME NEW u \in Updates, NEW d \in Drivers
      PROVE  Log!Copies(u, d)' <= MostCopies(u)'
  <2>1. MostCopies(u) \in Nat /\ MostCopies(u)' \in Nat
    BY TrackingAssumption DEF MostCopies, Typed, TypeOK, T!TypeOK
  <2>2. Log!Copies(u, d)' = Log!Copies(u, d)
    BY DEF Log!Copies
  <2>3. Log!Copies(u, d) \in Nat /\ Log!Copies(u, d) <= MostCopies(u)
    BY CopiesAreNat DEF CopiesBounded
  <2>4. MostCopies(u)' >= MostCopies(u)
    BY <2>1
  <2>5. QED
    <3> HIDE DEF Listed
    <3>1. \A a, b, c \in Nat : a <= b /\ c >= b => a <= c
      OBVIOUS
    <3>2. QED
      BY <2>1, <2>2, <2>3, <2>4, <3>1
<1>3. QED
  BY <1>1, <1>2 DEF CopiesBounded

\* Steps that leave the analyzer's handlers where they are.
LEMMA ListedElsewhere ==
    ASSUME Typed, Typed', Listed, UNCHANGED <<apc, atries, track>>,
           handed \subseteq handed', \A u \in handed : driver'[u] = driver[u]
    PROVE  Listed'
<1>1. \A u \in Updates : MostCopies(u)' = MostCopies(u)
  BY DEF MostCopies
<1>2. \A u \in Updates : MostCopies(u) \in Nat => MostCopies(u)' >= MostCopies(u)
  BY <1>1
<1>3. QED
  BY <1>2, ListedQuiet

\* LPUSH: one more copy, for one more try, in the list of the report's driver.
LEMMA ListedPush ==
    ASSUME Typed, Typed', Placed, Listed, NEW u \in handed,
           apc[u] = "LPush", apc'[u] # "idle",
           apc' = [apc EXCEPT ![u] = apc'[u]],
           atries' = [atries EXCEPT ![u] = atries'[u]],
           apc'[u] = "LPush" => atries'[u] = atries[u] + 1,
           track' = [track EXCEPT ![driver[u]] = Append(@, u)],
           UNCHANGED <<driver, handed>>
    PROVE  Listed'
<1> DEFINE c == driver[u]
           n == Len(track[c])
<1>1. c \in Drivers /\ u \in Updates /\ track[c] \in Seq(Updates) /\ n \in Nat
  <2>1. c \in Drivers /\ u \in Updates
    BY PostedHasDriver DEF Typed
  <2>2. track \in [Drivers -> Seq(Updates)]
    BY DEF Typed, TypeOK, T!TypeOK
  <2>3. QED
    BY <2>1, <2>2
<1>2. /\ Len(track'[c]) = n + 1
      /\ track'[c][n + 1] = u
      /\ \A i \in 1..n : track'[c][i] = track[c][i]
  <2>1. track'[c] = Append(track[c], u)
    BY <1>1 DEF Typed, TypeOK, T!TypeOK
  <2>2. QED
    BY <1>1, <2>1, AppendKeeps
<1>3. \A d \in Drivers \ {c} : track'[d] = track[d]
  BY <1>1 DEF Typed, TypeOK, T!TypeOK
<1>4. OwnList'
  <2> SUFFICES ASSUME NEW d \in Drivers, NEW i \in 1..Len(track'[d])
               PROVE  driver[track'[d][i]] = d /\ track'[d][i] \in handed
    BY DEF OwnList
  <2>1. CASE d # c
    BY <1>3, <2>1 DEF Listed, OwnList
  <2>2. CASE d = c /\ i \in 1..n
    BY <1>1, <1>2, <2>2 DEF Listed, OwnList
  <2>3. CASE d = c /\ i = n + 1
    BY <1>1, <1>2, <2>3
  <2>4. QED
    BY <1>1, <1>2, <2>1, <2>2, <2>3
<1>5. ASSUME NEW v \in Updates, NEW d \in Drivers
      PROVE  Log!Copies(v, d)' <= MostCopies(v)'
  <2> DEFINE Old == {i \in 1..Len(track[d]) : track[d][i] = v}
             New == {i \in 1..Len(track'[d]) : track'[d][i] = v}
  <2>1. /\ Log!Copies(v, d) = Cardinality(Old)
        /\ Log!Copies(v, d)' = Cardinality(New)
    BY SameCardinality DEF Log!Copies
  <2>2. /\ Cardinality(Old) <= MostCopies(v)
        /\ IsFiniteSet(Old) /\ Cardinality(Old) \in Nat
    <3>1. Log!Copies(v, d) <= MostCopies(v)
      BY DEF Listed, CopiesBounded
    <3>2. IsFiniteSet(Old) /\ Log!Copies(v, d) \in Nat
      BY CopiesAreNat
    <3> HIDE DEF Old
    <3>3. QED
      BY <2>1, <3>1, <3>2
  <2>3. CASE v = u
    <3>1. Cardinality(New) \in Nat /\ Cardinality(New) <= Cardinality(Old) + 1
      <4>1. CASE d = c
        <5>1. New = Old \cup {n + 1}
          BY <1>1, <1>2, <2>3, <4>1
        <5> HIDE DEF New, Old, n
        <5>2. Cardinality(Old \cup {n + 1}) =
                  IF n + 1 \in Old THEN Cardinality(Old) ELSE Cardinality(Old) + 1
          BY <2>2, FS_AddElement
        <5>3. QED
          BY <2>2, <5>1, <5>2
      <4>2. CASE d # c
        <5>1. New = Old
          BY <1>3, <4>2
        <5> HIDE DEF New, Old
        <5>2. QED
          BY <2>2, <5>1
      <4>3. QED
        BY <4>1, <4>2
    <3>2. MostCopies(v) = atries[u] /\ atries[u] \in 0..AnalyzerRetries
      BY <1>1, <2>3 DEF MostCopies, Typed, TypeOK, T!TypeOK
    <3>3. MostCopies(v)' \in Nat /\ MostCopies(v)' >= atries[u] + 1
      BY <2>3, <3>2, TrackingAssumption DEF MostCopies
    <3> HIDE DEF New, Old
    <3>4. QED
      BY <2>1, <2>2, <3>1, <3>2, <3>3
  <2>4. CASE v # u
    <3>1. New = Old
      <4>1. CASE d = c
        BY <1>1, <1>2, <2>4, <4>1
      <4>2. CASE d # c
        BY <1>3, <4>2
      <4>3. QED
        BY <4>1, <4>2
    <3>2. MostCopies(v)' = MostCopies(v)
      BY <2>4 DEF MostCopies, Typed, TypeOK, T!TypeOK
    <3> HIDE DEF New, Old
    <3>3. QED
      BY <2>1, <2>2, <3>1, <3>2
  <2>5. QED
    BY <2>3, <2>4
<1>6. QED
  BY <1>4, <1>5 DEF Listed, CopiesBounded

\* A point is in the list of its own driver, at most once for each try.
LEMMA ListedNext ==
    ASSUME Typed, Placed, Listed, [Next]_vars
    PROVE  Listed'
<1>1. Typed' /\ Placed'
  BY PlacedNext
<1> USE DEF Typed, TypeOK, T!TypeOK
<1>2. \A u \in handed : pc[u] # "idle"
  BY DEF Placed, HandedOver
<1>3. ASSUME NEW u \in Updates, Update(u)
      PROVE  Listed'
  <2>1. handed \subseteq handed' /\ UNCHANGED trackVars
    BY <1>3, UpdateCases DEF wayVars
  <2>2. \A v \in handed : driver'[v] = driver[v]
    BY <1>2, <1>3, UpdateCases DEF wayVars
  <2>3. QED
    BY <1>1, <2>1, <2>2, ListedElsewhere DEF trackVars
<1>4. ASSUME NEW u \in Updates, Send(u)
      PROVE  Listed'
  <2>1. UNCHANGED <<driver, handed, track>>
    BY <1>4, SendCases DEF trackVars, T!Begin
  <2>2. \A v \in Updates : MostCopies(v) \in Nat => MostCopies(v)' >= MostCopies(v)
    <3>1. CASE UNCHANGED trackVars
      <4>1. \A v \in Updates : MostCopies(v)' = MostCopies(v)
        BY <3>1 DEF trackVars, MostCopies
      <4>2. QED
        BY <4>1
    <3>2. CASE T!Begin(u, driver[u])
      BY <3>2 DEF T!Begin, T!Goto, MostCopies
    <3>3. QED
      BY <1>4, <3>1, <3>2, SendCases
  <2>3. QED
    BY <1>1, <2>1, <2>2, ListedQuiet
<1>5. ASSUME NEW u \in Updates, Analyze(u)
      PROVE  Listed'
  <2>1. T!Step(u) /\ UNCHANGED <<driver, handed>> /\ u \in handed
    BY <1>5, AnalyzeCases, PostedHasDriver DEF Analyze, driverVars
  <2>2. CASE apc[u] = "LPush" /\ track' = [track EXCEPT ![driver[u]] = Append(@, u)]
    BY <1>1, <2>1, <2>2, AnalyzeCases, ListedPush
  <2>3. CASE apc'[u] # "LPush" /\ UNCHANGED track
    <3>1. \A v \in Updates : MostCopies(v) \in Nat => MostCopies(v)' >= MostCopies(v)
      <4>1. /\ apc' = [apc EXCEPT ![u] = apc'[u]] /\ apc'[u] \notin {"idle", "LPush"}
            /\ atries' = [atries EXCEPT ![u] = atries'[u]]
        BY <2>1, <2>3, AnalyzeCases
      <4>2. MostCopies(u)' = AnalyzerRetries + 1 /\ MostCopies(u) <= AnalyzerRetries + 1
        BY <4>1, TrackingAssumption DEF MostCopies
      <4>3. \A v \in Updates \ {u} : MostCopies(v)' = MostCopies(v)
        BY <4>1 DEF MostCopies
      <4>4. ASSUME NEW v \in Updates, MostCopies(v) \in Nat
            PROVE  MostCopies(v)' >= MostCopies(v)
        <5> DEFINE before == MostCopies(v)
                   after == MostCopies(v)'
        <5>1. CASE v = u
          <6>1. after = AnalyzerRetries + 1 /\ before <= AnalyzerRetries + 1
            BY <4>2, <5>1
          <6> HIDE DEF before, after
          <6>2. before \in Nat /\ after >= before
            BY <4>4, <6>1, TrackingAssumption DEF before
          <6>3. QED
            BY <6>2 DEF before, after
        <5>2. CASE v # u
          BY <4>3, <4>4, <5>2
        <5>3. QED
          BY <5>1, <5>2
      <4>5. QED
        BY <4>4
    <3>2. QED
      BY <1>1, <2>1, <2>3, <3>1, ListedQuiet
  <2>4. QED
    BY <2>1, <2>2, <2>3, AnalyzeCases
<1>6. ASSUME NEW d \in Drivers, Expire(d)
      PROVE  Listed'
  <2>1. UNCHANGED <<driver, handed, apc, atries, track>>
    BY <1>6 DEF Expire, T!Expire, driverVars
  <2>2. QED
    BY <1>1, <2>1, ListedElsewhere
<1>7. CASE CrashDriver
  <2>1. UNCHANGED <<driver, handed, apc, atries, track>>
    BY <1>7 DEF CrashDriver, D!Crash, trackVars
  <2>2. QED
    BY <1>1, <2>1, ListedElsewhere
<1>8. CASE CrashAnalyzer
  <2>1. \A v \in Updates : MostCopies(v) \in Nat => MostCopies(v)' >= MostCopies(v)
    BY <1>8, TrackingAssumption
       DEF CrashAnalyzer, T!Crash, T!Running, T!Commands, MostCopies
  <2>2. QED
    BY <1>1, <1>8, <2>1, ListedQuiet DEF CrashAnalyzer, T!Crash, driverVars
<1>9. CASE UNCHANGED vars
  <2>1. UNCHANGED <<driver, handed, apc, atries, track>>
    BY <1>9 DEF vars, driverVars, trackVars
  <2>2. QED
    BY <1>1, <2>1, ListedElsewhere
<1>10. QED
  BY <1>3, <1>4, <1>5, <1>6, <1>7, <1>8, <1>9 DEF Next, Terminated

-----------------------------------------------------------------------------
\* Whose report it is, as ReportLog sees it.
Owner == [u \in Updates |-> IF u \in handed THEN driver[u] ELSE None]

\* A step that hands nothing over, and stores nothing, closes reports or none.
LEMMA LogClose ==
    ASSUME Typed, Typed', Placed, UNCHANGED <<handed, driver, track>>, Closed \subseteq Closed'
    PROVE  Log!Next
<1> DEFINE S == Closed' \ Closed
<1>1. S \in SUBSET Updates /\ \A u \in S : u \in handed
  BY DEF Typed, Closed
<1>2. \A u \in S : Owner[u] # None
  <2>1. \A u \in S : u \in Updates /\ Owner[u] = driver[u] /\ driver[u] \in Drivers
    BY <1>1, PostedHasDriver DEF Owner
  <2>2. QED
    BY <2>1, TrackingAssumption
<1>3. Closed' = Closed \cup S
  OBVIOUS
<1>4. Owner' = Owner
  BY DEF Owner
<1>5. Log!Close(S)
  BY <1>2, <1>3, <1>4 DEF Log!Close, Owner
<1>6. QED
  BY <1>1, <1>5 DEF Log!Next

\* UpdateLocation hands a report over, or does nothing to any.
LEMMA LogUpdate ==
    ASSUME Typed, Placed, NEW u \in Updates, Update(u)
    PROVE  Log!Next \/ UNCHANGED Log!vars
<1> USE DEF Typed, Placed, HasDriver, HandedOver
<1>1. CASE pc[u] = "idle"
  <2>1. UNCHANGED <<handed, sending, trackVars>> /\ \A v \in Updates \ {u} : driver'[v] = driver[v]
    BY <1>1, UpdateCases
  <2>2. u \notin handed
    BY <1>1
  <2>3. Owner' = Owner
    BY <2>1, <2>2 DEF Owner
  <2>4. UNCHANGED <<Closed, track>>
    BY <2>1 DEF Closed, trackVars
  <2>5. QED
    BY <2>3, <2>4 DEF Log!vars, Owner
<1>2. CASE pc[u] = "Go"
  <2>1. /\ handed' = handed \cup {u} /\ sending' = [sending EXCEPT ![u] = "ready"]
        /\ UNCHANGED <<driver, trackVars>>
    BY <1>2, UpdateCases
  <2>2. u \notin handed /\ apc[u] = "idle" /\ driver[u] \in Drivers
    BY <1>2 DEF PostedOnce
  <2>3. Owner[u] = None /\ Owner' = [Owner EXCEPT ![u] = driver[u]]
    BY <2>1, <2>2 DEF Owner
  <2>4. Closed' = Closed /\ UNCHANGED track
    BY <2>1, <2>2 DEF Closed, trackVars, TypeOK
  <2>5. PICK d \in Drivers : d = driver[u]
    BY <2>2
  <2>6. Log!Accept(u, d)
    BY <2>3, <2>4, <2>5 DEF Log!Accept, Owner
  <2>7. Log!Next
    BY <2>6 DEF Log!Next
  <2>8. QED
    BY <2>7
<1>3. CASE pc[u] \in {"GeoAdd", "Set"}
  <2>1. UNCHANGED <<handed, driver, sending, trackVars>>
    BY <1>3, UpdateCases DEF wayVars
  <2>2. UNCHANGED <<Owner, Closed, track>>
    BY <2>1 DEF Owner, Closed, trackVars
  <2>3. QED
    BY <2>2 DEF Log!vars, Owner
<1>4. QED
  BY <1>1, <1>2, <1>3, UpdateCases

\* LPUSH stores a report that is not closed and has tries left.
LEMMA LogPush ==
    ASSUME Typed, Placed, Listed, NEW u \in handed, apc[u] = "LPush",
           apc' = [apc EXCEPT ![u] = apc'[u]], apc'[u] # "idle",
           track' = [track EXCEPT ![driver[u]] = Append(@, u)],
           UNCHANGED <<driver, handed, sending>>
    PROVE  Log!Next
<1>1. u \in Updates /\ driver[u] \in Drivers
  BY PostedHasDriver DEF Typed
<1>2. Owner[u] = driver[u] /\ Owner' = Owner
  BY <1>1 DEF Owner
<1>3. u \notin Closed /\ Closed' \in {Closed, Closed \cup {u}}
  BY <1>1 DEF Closed, Typed, TypeOK, T!TypeOK
<1>4. Log!Copies(u, driver[u]) < 1 + AnalyzerRetries
  <2>1. Log!Copies(u, driver[u]) <= MostCopies(u)
    BY <1>1 DEF Listed, CopiesBounded
  <2>2. Log!Copies(u, driver[u]) \in Nat
    BY <1>1, CopiesAreNat
  <2>3. MostCopies(u) \in 0..AnalyzerRetries
    BY <1>1 DEF MostCopies, Typed, TypeOK, T!TypeOK
  <2>4. \A a \in Nat, b \in 0..AnalyzerRetries : a <= b => a < 1 + AnalyzerRetries
    BY TrackingAssumption
  <2>5. QED
    BY <2>1, <2>2, <2>3, <2>4
<1>5. Log!Store(u, driver[u])
  BY <1>2, <1>3, <1>4 DEF Log!Store, Owner
<1>6. QED
  BY <1>1, <1>5 DEF Log!Next

\* Each step of the services is one of the log, or none.
LEMMA LogStep ==
    ASSUME Typed, Placed, Listed, [Next]_vars
    PROVE  [Log!Next]_Log!vars
<1> USE DEF Typed, TypeOK, T!TypeOK
<1>1. Typed' /\ Placed'
  BY PlacedNext
<1>2. ASSUME NEW u \in Updates, Update(u)
      PROVE  [Log!Next]_Log!vars
  BY <1>2, LogUpdate
<1>3. ASSUME NEW u \in Updates, Send(u)
      PROVE  Log!Next
  <2>1. UNCHANGED <<driver, handed>>
    BY <1>3, SendCases
  <2>2. CASE /\ sending[u] = "ready" /\ sending' = [sending EXCEPT ![u] = "waiting"]
             /\ T!Begin(u, driver[u])
    <3>1. UNCHANGED track /\ apc[u] = "idle" /\ apc' = [apc EXCEPT ![u] = "LPush"]
      BY <2>2 DEF T!Begin, T!Goto
    <3>2. Closed \subseteq Closed'
      BY <2>1, <2>2, <3>1 DEF Closed
    <3>3. QED
      BY <1>1, <2>1, <3>1, <3>2, LogClose
  <2>3. CASE sending' = [sending EXCEPT ![u] = "done"] /\ UNCHANGED trackVars
    <3>1. Closed \subseteq Closed' /\ UNCHANGED track
      BY <2>1, <2>3 DEF Closed, trackVars
    <3>2. QED
      BY <1>1, <2>1, <3>1, LogClose
  <2>4. QED
    BY <1>3, <2>2, <2>3, SendCases
<1>4. ASSUME NEW u \in Updates, Analyze(u)
      PROVE  Log!Next
  <2>1. T!Step(u) /\ UNCHANGED <<driver, handed, sending>> /\ u \in handed
    BY <1>4, AnalyzeCases, PostedHasDriver DEF Analyze, driverVars
  <2>2. CASE apc[u] = "LPush" /\ track' = [track EXCEPT ![driver[u]] = Append(@, u)]
    BY <2>1, <2>2, AnalyzeCases, LogPush
  <2>3. CASE apc'[u] # "LPush" /\ UNCHANGED track
    <3>1. Closed \subseteq Closed'
      BY <2>1, <2>3, AnalyzeCases DEF Closed
    <3>2. QED
      BY <1>1, <2>1, <2>3, <3>1, LogClose
  <2>4. QED
    BY <2>1, <2>2, <2>3, AnalyzeCases
<1>5. ASSUME NEW d \in Drivers, Expire(d)
      PROVE  Log!Next
  <2>1. UNCHANGED <<driver, handed, sending, apc, track>>
    BY <1>5 DEF Expire, T!Expire, driverVars
  <2>2. Closed \subseteq Closed'
    BY <2>1 DEF Closed
  <2>3. QED
    BY <1>1, <2>1, <2>2, LogClose
<1>6. CASE CrashDriver
  <2>1. /\ UNCHANGED <<driver, handed, apc, track>>
        /\ \A u \in Updates : sending'[u] # "ready"
    BY <1>6 DEF CrashDriver, D!Crash, trackVars
  <2>2. Closed \subseteq Closed'
    BY <2>1 DEF Closed
  <2>3. QED
    BY <1>1, <2>1, <2>2, LogClose
<1>7. CASE CrashAnalyzer
  <2>1. /\ UNCHANGED <<driver, handed, sending, track>>
        /\ \A u \in Updates : apc'[u] # "LPush" /\ (apc'[u] = "idle" => apc[u] = "idle")
    BY <1>7 DEF CrashAnalyzer, T!Crash, driverVars, T!Running, T!Commands
  <2>2. Closed \subseteq Closed'
    BY <2>1 DEF Closed
  <2>3. QED
    BY <1>1, <2>1, <2>2, LogClose
<1>8. CASE UNCHANGED vars
  <2>1. UNCHANGED <<Owner, Closed, track>>
    BY <1>8 DEF vars, driverVars, trackVars, Owner, Closed
  <2>2. QED
    BY <2>1 DEF Log!vars, Owner
<1>9. QED
  BY <1>2, <1>3, <1>4, <1>5, <1>6, <1>7, <1>8 DEF Next, Terminated

-----------------------------------------------------------------------------
\* A report that may still be stored has raced with all of its driver that were
\* stamped after it.
OpenRaced ==
    \A v, w \in handed :
        v \notin Closed /\ driver[v] = driver[w] /\ Before(v, w) => <<v, w>> \in raced

InOrder == OpenRaced /\ DisorderNeedsRace

\* Steps that stamp nothing, and at most close reports, keep OpenRaced.
LEMMA OpenRacedKept ==
    ASSUME OpenRaced, UNCHANGED <<handed, driver, stamps, raced>>, Closed \subseteq Closed'
    PROVE  OpenRaced'
BY DEF OpenRaced, Before

\* A closed report stays closed: what it is closed by never ends.
LEMMA ClosedStays ==
    ASSUME Typed, Placed, [Next]_vars
    PROVE  Closed \subseteq Closed'
<1> USE DEF Typed, TypeOK, T!TypeOK, Closed
<1>1. ASSUME NEW u \in Updates, Update(u)
      PROVE  Closed \subseteq Closed'
  <2>1. CASE pc[u] = "Go"
    BY <1>1, <2>1, UpdateCases DEF trackVars, Placed, HandedOver
  <2>2. CASE pc[u] # "Go"
    BY <1>1, <2>2, UpdateCases DEF trackVars, wayVars
  <2>3. QED
    BY <2>1, <2>2
<1>2. ASSUME NEW u \in Updates, Send(u)
      PROVE  Closed \subseteq Closed'
  <2>1. CASE /\ sending[u] = "ready" /\ sending' = [sending EXCEPT ![u] = "waiting"]
             /\ T!Begin(u, driver[u])
    BY <1>2, <2>1, SendCases DEF T!Begin, T!Goto
  <2>2. CASE sending' = [sending EXCEPT ![u] = "done"] /\ UNCHANGED trackVars
    BY <1>2, <2>2, SendCases DEF trackVars
  <2>3. QED
    BY <1>2, <2>1, <2>2, SendCases
<1>3. ASSUME NEW u \in Updates, Analyze(u)
      PROVE  Closed \subseteq Closed'
  <2>1. T!Step(u) /\ UNCHANGED <<handed, sending>>
    BY <1>3 DEF Analyze, driverVars
  <2>2. CASE apc[u] = "LPush"
    BY <2>1, <2>2, AnalyzeCases
  <2>3. CASE apc[u] # "LPush"
    BY <2>1, <2>3, AnalyzeCases
  <2>4. QED
    BY <2>2, <2>3
<1>4. CASE \E d \in Drivers : Expire(d)
  BY <1>4 DEF Expire, T!Expire, driverVars
<1>5. CASE CrashDriver
  BY <1>5 DEF CrashDriver, D!Crash, trackVars
<1>6. CASE CrashAnalyzer
  BY <1>6 DEF CrashAnalyzer, T!Crash, driverVars, T!Running, T!Commands
<1>7. CASE UNCHANGED vars
  BY <1>7 DEF vars, driverVars, trackVars
<1>8. QED
  BY <1>1, <1>2, <1>3, <1>4, <1>5, <1>6, <1>7 DEF Next, Terminated

\* A new stamp comes last, and no report is stamped twice.
LEMMA StampedLast ==
    ASSUME Typed, NEW u \in Updates, u \notin handed, stamps' = Append(stamps, u),
           NEW v \in Updates, NEW w \in Updates, Before(v, w)'
    PROVE  v # u /\ v \in handed /\ (w # u => Before(v, w))
<1> DEFINE n == Len(stamps)
<1>1. stamps \in Seq(handed) /\ stamps \in Seq(Updates) /\ n \in Nat
  BY DEF Typed, TypeOK
<1>2. /\ Len(stamps') = n + 1 /\ stamps'[n + 1] = u
      /\ \A i \in 1..n : stamps'[i] = stamps[i]
  BY <1>1, AppendKeeps
<1>3. PICK i \in 1..(n + 1), j \in 1..(n + 1) : i < j /\ stamps'[i] = v /\ stamps'[j] = w
  BY <1>2 DEF Before
<1>4. i \in 1..n /\ stamps[i] = v /\ stamps[i] \in handed
  BY <1>1, <1>2, <1>3
<1>5. w # u => j \in 1..n /\ stamps[j] = w
  BY <1>1, <1>2, <1>3
<1>6. w # u => Before(v, w)
  BY <1>1, <1>3, <1>4, <1>5 DEF Before
<1>7. QED
  BY <1>4, <1>6

\* Handing a report over notes every race it is in.
LEMMA OpenRacedHanded ==
    ASSUME Typed, Placed, OpenRaced, NEW u \in Updates, u \notin handed,
           handed' = handed \cup {u}, stamps' = Append(stamps, u),
           raced' = raced \cup {<<v, u>> : v \in {w \in handed \ Closed : driver[w] = driver[u]}},
           UNCHANGED driver, Closed \subseteq Closed'
    PROVE  OpenRaced'
<1> SUFFICES ASSUME NEW v \in handed', NEW w \in handed', v \notin Closed',
                    driver[v] = driver[w], Before(v, w)'
             PROVE  <<v, w>> \in raced'
  BY DEF OpenRaced
<1>1. v \in Updates /\ w \in Updates
  BY DEF Typed
<1>2. v # u /\ v \in handed /\ (w # u => Before(v, w))
  BY <1>1, StampedLast
<1>3. CASE w = u
  BY <1>2, <1>3
<1>4. CASE w # u
  BY <1>2, <1>4 DEF OpenRaced
<1>5. QED
  BY <1>3, <1>4

\* LPUSH: what is stamped after the report and stored before it has raced with it.
LEMMA OrderPush ==
    ASSUME Typed, Placed, Listed, InOrder, NEW u \in handed, apc[u] = "LPush",
           track' = [track EXCEPT ![driver[u]] = Append(@, u)],
           UNCHANGED <<driver, handed, stamps, raced>>
    PROVE  DisorderNeedsRace'
<1> DEFINE c == driver[u]
           n == Len(track[c])
<1>1. c \in Drivers /\ u \in Updates /\ track[c] \in Seq(Updates) /\ n \in Nat
  <2>1. c \in Drivers /\ u \in Updates
    BY PostedHasDriver DEF Typed
  <2>2. track \in [Drivers -> Seq(Updates)]
    BY DEF Typed, TypeOK, T!TypeOK
  <2>3. QED
    BY <2>1, <2>2
<1>2. /\ Len(track'[c]) = n + 1
      /\ track'[c][n + 1] = u
      /\ \A i \in 1..n : track'[c][i] = track[c][i]
  <2>1. track'[c] = Append(track[c], u)
    BY <1>1 DEF Typed, TypeOK, T!TypeOK
  <2>2. QED
    BY <1>1, <2>1, AppendKeeps
<1>3. \A d \in Drivers \ {c} : track'[d] = track[d]
  BY <1>1 DEF Typed, TypeOK, T!TypeOK
<1> SUFFICES ASSUME NEW d \in Drivers, NEW i \in 1..Len(track'[d]),
                    NEW j \in (i + 1)..Len(track'[d]), Before(track'[d][j], track'[d][i])
             PROVE  <<track'[d][j], track'[d][i]>> \in raced
  <2>1. \A a, b : Before(a, b)' <=> Before(a, b)
    BY DEF Before
  <2>2. QED
    BY <2>1 DEF DisorderNeedsRace
<1>4. CASE d # c
  BY <1>3, <1>4 DEF InOrder, DisorderNeedsRace
<1>5. CASE d = c /\ j \in 1..n
  <2>1. i \in 1..n /\ j \in (i + 1)..n
    BY <1>1, <1>2, <1>5
  <2>2. QED
    BY <1>2, <1>5, <2>1 DEF InOrder, DisorderNeedsRace
<1>6. CASE d = c /\ j = n + 1
  <2>1. i \in 1..n
    BY <1>1, <1>2, <1>6
  <2>2. track[c][i] \in handed /\ driver[track[c][i]] = c
    BY <1>1, <2>1 DEF Listed, OwnList
  <2>3. u \notin Closed
    BY DEF Closed
  <2>4. QED
    BY <1>2, <1>6, <2>1, <2>2, <2>3 DEF InOrder, OpenRaced
<1>7. d = c => j \in 1..n \/ j = n + 1
  BY <1>1, <1>2
<1>8. QED
  BY <1>4, <1>5, <1>6, <1>7

\* The order of the lists is that of the stamps, but for races.
LEMMA OrderNext ==
    ASSUME Typed, Placed, Listed, InOrder, [Next]_vars
    PROVE  InOrder'
<1>1. Closed \subseteq Closed'
  BY ClosedStays
<1>2. ASSUME UNCHANGED <<handed, driver, stamps, raced, track>>
      PROVE  InOrder'
  <2>1. OpenRaced'
    BY <1>1, <1>2, OpenRacedKept DEF InOrder
  <2>2. DisorderNeedsRace'
    BY <1>2 DEF InOrder, DisorderNeedsRace, Before
  <2>3. QED
    BY <2>1, <2>2 DEF InOrder
<1>3. ASSUME NEW u \in Updates, Update(u)
      PROVE  InOrder'
  <2>1. CASE pc[u] = "idle"
    <3>1. /\ UNCHANGED <<handed, stamps, raced, trackVars>>
          /\ \A v \in Updates \ {u} : driver'[v] = driver[v]
      BY <1>3, <2>1, UpdateCases DEF Typed
    <3>2. u \notin handed /\ handed \subseteq Updates
      BY <2>1 DEF Placed, HandedOver, Typed
    <3>3. OpenRaced'
      BY <1>1, <3>1, <3>2 DEF InOrder, OpenRaced, Before
    <3>4. QED
      BY <3>1, <3>3 DEF InOrder, DisorderNeedsRace, Before, trackVars
  <2>2. CASE pc[u] = "Go"
    <3>1. /\ u \notin handed
          /\ handed' = handed \cup {u}
          /\ stamps' = Append(stamps, u)
          /\ raced' = raced \cup
                {<<v, u>> : v \in {w \in handed \ Closed : driver[w] = driver[u]}}
          /\ UNCHANGED <<driver, track>>
      BY <1>3, <2>2, UpdateCases DEF Placed, HandedOver, trackVars
    <3>2. OpenRaced'
      BY <1>1, <3>1, OpenRacedHanded DEF InOrder
    <3>3. DisorderNeedsRace'
      <4> SUFFICES ASSUME NEW d \in Drivers, NEW i \in 1..Len(track[d]),
                          NEW j \in (i + 1)..Len(track[d]), Before(track[d][j], track[d][i])'
                   PROVE  <<track[d][j], track[d][i]>> \in raced
        BY <3>1 DEF DisorderNeedsRace
      <4>1. Len(track[d]) \in Nat
        BY DEF Typed, TypeOK, T!TypeOK
      <4>2. track[d][i] \in handed /\ track[d][j] \in handed
        BY <4>1 DEF Listed, OwnList
      <4>3. Before(track[d][j], track[d][i])
        BY <3>1, <4>2, StampedLast DEF Typed
      <4>4. QED
        BY <4>3 DEF InOrder, DisorderNeedsRace
    <3>4. QED
      BY <3>2, <3>3 DEF InOrder
  <2>3. CASE pc[u] \in {"GeoAdd", "Set"}
    BY <1>2, <1>3, <2>3, UpdateCases DEF wayVars, trackVars
  <2>4. QED
    BY <1>3, <2>1, <2>2, <2>3, UpdateCases
<1>4. ASSUME NEW u \in Updates, Send(u)
      PROVE  InOrder'
  BY <1>2, <1>4, SendCases DEF trackVars, T!Begin
<1>5. ASSUME NEW u \in Updates, Analyze(u)
      PROVE  InOrder'
  <2>1. T!Step(u) /\ UNCHANGED <<driver, handed, stamps, raced>> /\ u \in handed
    BY <1>5, AnalyzeCases, PostedHasDriver DEF Analyze, driverVars
  <2>2. CASE apc[u] = "LPush" /\ track' = [track EXCEPT ![driver[u]] = Append(@, u)]
    <3>1. DisorderNeedsRace'
      BY <2>1, <2>2, OrderPush
    <3>2. OpenRaced'
      BY <1>1, <2>1, OpenRacedKept DEF InOrder
    <3>3. QED
      BY <3>1, <3>2 DEF InOrder
  <2>3. CASE UNCHANGED track
    BY <1>2, <2>1, <2>3
  <2>4. QED
    BY <2>1, <2>2, <2>3, AnalyzeCases
<1>6. CASE \E d \in Drivers : Expire(d)
  BY <1>2, <1>6 DEF Expire, T!Expire, driverVars
<1>7. CASE CrashDriver
  BY <1>2, <1>7 DEF CrashDriver, D!Crash, trackVars
<1>8. CASE CrashAnalyzer
  BY <1>2, <1>8 DEF CrashAnalyzer, T!Crash, driverVars
<1>9. CASE UNCHANGED vars
  BY <1>2, <1>9 DEF vars, driverVars, trackVars
<1>10. QED
  BY <1>3, <1>4, <1>5, <1>6, <1>7, <1>8, <1>9 DEF Next, Terminated

-----------------------------------------------------------------------------
IInv == Typed /\ Placed /\ Listed /\ InOrder

\* Nothing has begun, nothing is stored.
LEMMA IInvInit == Init => IInv
<1> SUFFICES ASSUME Init
             PROVE  IInv
  OBVIOUS
<1> USE DEF Init, D!Init, T!Init
<1>1. T!TypeOK
  BY TrackingAssumption DEF T!TypeOK
<1>2. TypeOK
  BY <1>1 DEF TypeOK
<1>3. Typed /\ Placed
  BY <1>2 DEF Typed, Places, Placed, HasDriver, HandedOver, PostedOnce,
              D!Requests, D!Writes
<1>4. OwnList
  BY DEF OwnList
<1>5. ASSUME NEW u \in Updates, NEW d \in Drivers
      PROVE  Log!Copies(u, d) <= MostCopies(u)
  <2>1. {i \in 1..Len(track[d]) : track[d][i] = u} = {}
    OBVIOUS
  <2>2. Log!Copies(u, d) = 0
    BY <2>1, SameCardinality, FS_EmptySet DEF Log!Copies
  <2>3. MostCopies(u) = 0
    BY DEF MostCopies
  <2>4. QED
    BY <2>2, <2>3
<1>6. InOrder
  BY DEF InOrder, OpenRaced, DisorderNeedsRace
<1>7. QED
  BY <1>3, <1>4, <1>5, <1>6 DEF IInv, Listed, CopiesBounded

LEMMA IInvNext == IInv /\ [Next]_vars => IInv'
BY PlacedNext, ListedNext, OrderNext DEF IInv

\* What IInv says holds of every behaviour.
THEOREM Inductive == Spec => []IInv
BY IInvInit, IInvNext, PTL DEF Spec

(***************************************************************************)
(* The track of a driver has its points in the order of their timestamps,  *)
(* except for two reports of which the later was stamped while the earlier *)
(* was on its way (driver_service.go, line 71; track_repository.go, line   *)
(* 122), and every variable of the analyzer keeps its type.                *)
(***************************************************************************)
THEOREM TracksInOrder == Spec => []TracksSound
<1>1. IInv => TracksSound
  BY DEF IInv, Typed, InOrder, TracksSound
<1>2. QED
  BY Inductive, <1>1, PTL

(***************************************************************************)
(* The two services implement ReportLog: whatever fails, a report is       *)
(* stored in the list of its own driver only, once for each try at most,   *)
(* and never after both sides have given it up.                            *)
(***************************************************************************)
THEOREM LogKept == Spec => LogSafe
<1>1. Init => Log!Init
  <2> SUFFICES ASSUME Init
               PROVE  Log!Init
    OBVIOUS
  <2>1. handed = {} /\ track = [d \in Drivers |-> <<>>]
    BY DEF Init, D!Init, T!Init
  <2>2. QED
    BY <2>1 DEF Log!Init, Closed
<1>2. IInv /\ [Next]_vars => [Log!Next]_Log!vars
  BY LogStep DEF IInv
<1>3. QED
  BY Inductive, <1>1, <1>2, PTL DEF Spec, LogSafe, Log!Safe

-----------------------------------------------------------------------------
(***************************************************************************)
(* The track follows the index.  Three things make it: an update that runs *)
(* alone leaves its own location in the index, and is stamped after all of *)
(* its driver that were handed over before; a driver is settled only by    *)
(* such an update; and where nothing fails, a report that has been dealt   *)
(* with is in the list.                                                    *)
(***************************************************************************)
Writing == {"GeoAdd", "Go", "Set"}

\* Every report handed over has its stamp.
Stamped == \A v \in handed : \E i \in 1..Len(stamps) : stamps[i] = v

\* No report of the driver was stamped after u.
Latest(u, d) == \A v \in handed : driver[v] = d /\ v # u => Before(v, u)

\* An update that runs alone, and what it has done so far.
Leads(r) ==
    /\ pc[r] \in Writing
    /\ \A v \in Updates : driver[v] = driver[r] /\ pc[v] \in Writing => v = r
    /\ pc[r] # "GeoAdd" => index[driver[r]] = r
    /\ pc[r] = "Set" => Latest(r, driver[r])

AloneLeads == \A r \in alone : r \in Updates /\ Leads(r)

\* Nobody writes the location of the driver.
Unwritten(d) == \A v \in Updates : driver[v] = d => pc[v] \notin Writing

SettledLatest ==
    \A d \in Drivers : d \notin unsettled /\ Unwritten(d) => Latest(index[d], d)

IndexTyped == index \in [Drivers -> Updates \cup {None}]

\* A location in the index was put there by an update of that driver.
IndexOwn ==
    \A d \in Drivers : index[d] # None =>
        index[d] \in Updates /\ pc[index[d]] # "idle" /\ driver[index[d]] = d

History == IndexTyped /\ IndexOwn /\ Stamped /\ AloneLeads /\ SettledLatest

\* Where nothing fails, a report is in the list once LPUSH has returned, and
\* its goroutine waits for nothing that was not sent.
Stored(u) == \E i \in 1..Len(track[driver[u]]) : track[driver[u]][i] = u

ArrivedIsStored ==
    ~Faults => \A u \in Updates :
        /\ apc[u] \notin {"idle", "LPush"} => Stored(u)
        /\ sending[u] \in {"waiting", "done"} => apc[u] # "idle"

\* In DriverService an update is the only write there is.
LEMMA WritersAre ==
    ASSUME Typed, NEW d
    PROVE  /\ D!Writers(d) = {v \in Updates : driver[v] = d /\ pc[v] \in Writing}
           /\ D!Writers(d) = {} <=> Unwritten(d)
<1>1. D!Writers(d) = {v \in Updates : driver[v] = d /\ pc[v] \in D!Writing}
  BY DEF D!Writers, D!Writes
<1>2. \A v \in Updates : pc[v] \in D!Writing <=> pc[v] \in Writing
  BY DEF Typed, Places, D!Writing, Writing
<1>3. D!Writers(d) = {v \in Updates : driver[v] = d /\ pc[v] \in Writing}
  BY <1>1, <1>2
<1>4. QED
  BY <1>3 DEF Unwritten

-----------------------------------------------------------------------------
\* Steps that leave the updates alone.
LEMMA HistoryKept ==
    ASSUME History, UNCHANGED <<pc, driver, index, handed, alone, unsettled, stamps>>
    PROVE  History'
BY DEF History, IndexTyped, IndexOwn, Stamped, AloneLeads, Leads, SettledLatest, Unwritten, Latest,
       Before

\* Steps that leave the index alone, and no update where it was not.
LEMMA IndexKept ==
    ASSUME IndexTyped, IndexOwn, UNCHANGED index,
           \A v \in Updates : pc[v] # "idle" => pc'[v] # "idle" /\ driver'[v] = driver[v]
    PROVE  IndexTyped' /\ IndexOwn'
BY DEF IndexTyped, IndexOwn

\* A report keeps its place among the stamps, and a new one comes last.
LEMMA StampsGrow ==
    ASSUME Typed, Stamped, NEW u \in Updates, stamps' = Append(stamps, u)
    PROVE  /\ \A v, w \in Updates : Before(v, w) => Before(v, w)'
           /\ \A v \in handed : Before(v, u)'
           /\ \A v \in handed \cup {u} : \E i \in 1..Len(stamps') : stamps'[i] = v
<1> DEFINE n == Len(stamps)
<1>1. stamps \in Seq(Updates) /\ n \in Nat
  BY DEF Typed, TypeOK
<1>2. /\ Len(stamps') = n + 1 /\ stamps'[n + 1] = u
      /\ \A i \in 1..n : stamps'[i] = stamps[i]
  BY <1>1, AppendKeeps
<1> HIDE DEF n
<1>3. ASSUME NEW v \in Updates, NEW w \in Updates, Before(v, w)
      PROVE  Before(v, w)'
  <2>1. PICK i \in 1..n, j \in 1..n : i < j /\ stamps[i] = v /\ stamps[j] = w
    BY <1>1, <1>3 DEF Before, n
  <2>2. i \in 1..(n + 1) /\ j \in (i + 1)..(n + 1)
    BY <1>1, <2>1
  <2>3. stamps'[i] = v /\ stamps'[j] = w
    BY <1>2, <2>1, <2>2
  <2>4. QED
    BY <1>2, <2>2, <2>3 DEF Before
<1>4. ASSUME NEW v \in handed
      PROVE  Before(v, u)' /\ \E i \in 1..Len(stamps') : stamps'[i] = v
  <2>1. PICK i \in 1..n : stamps[i] = v
    BY DEF Stamped, n
  <2>2. i \in 1..(n + 1) /\ n + 1 \in (i + 1)..(n + 1)
    BY <1>1, <2>1
  <2>3. stamps'[i] = v
    BY <1>2, <2>1
  <2>4. QED
    BY <1>2, <2>2, <2>3 DEF Before
<1>5. n + 1 \in 1..(n + 1)
  BY <1>1
<1>6. \E i \in 1..Len(stamps') : stamps'[i] = u
  BY <1>2, <1>5
<1>7. QED
  BY <1>3, <1>4, <1>6

\* An update begins: it is alone or ends the solitude of those it meets.
LEMMA HistoryBegin ==
    ASSUME Typed, Placed, History, NEW u \in Updates, NEW d \in Drivers, D!BeginUpdate(u, d),
           UNCHANGED stamps
    PROVE  History'
<1> USE DEF History, Typed
<1>1. /\ pc[u] = "idle" /\ pc' = [pc EXCEPT ![u] = "GeoAdd"]
      /\ driver' = [driver EXCEPT ![u] = d]
      /\ alone' = IF D!Writers(d) = {} THEN alone \cup {u} ELSE alone \ D!Writers(d)
      /\ UNCHANGED <<index, handed, unsettled, stamps>>
  BY DEF D!BeginUpdate, D!BeginWrite, D!Goto
<1>2. u \notin handed /\ \A v \in handed : driver'[v] = driver[v]
  BY <1>1 DEF Placed, HandedOver
<1>3. \A w, e : Latest(w, e) => Latest(w, e)'
  BY <1>1, <1>2 DEF Latest, Before
<1>4. u \notin alone
  BY <1>1 DEF AloneLeads, Leads, Writing
<1>5. ASSUME NEW r \in alone'
      PROVE  r \in Updates /\ Leads(r)'
  <2>1. CASE r = u
    <3>1. Unwritten(d)
      <4>1. D!Writers(d) = {}
        BY <1>1, <1>4, <2>1
      <4>2. QED
        BY <4>1, WritersAre
    <3>2. QED
      BY <1>1, <2>1, <3>1 DEF Leads, Unwritten, Writing
  <2>2. CASE r # u
    <3>1. r \in alone /\ r \in Updates /\ Leads(r)
      BY <1>1, <2>2 DEF AloneLeads
    <3>2. driver[r] # d
      <4>1. SUFFICES ASSUME driver[r] = d PROVE FALSE
        OBVIOUS
      <4>2. r \in D!Writers(d)
        BY <3>1, <4>1, WritersAre DEF Leads
      <4>3. QED
        BY <1>1, <4>2
    <3>3. pc'[r] = pc[r] /\ driver'[r] = driver[r]
      BY <1>1, <2>2
    <3>4. \A v \in Updates : driver'[v] = driver'[r] /\ pc'[v] \in Writing => v = r
      BY <1>1, <3>1, <3>2, <3>3 DEF Leads
    <3>5. QED
      BY <1>1, <1>3, <3>1, <3>3, <3>4 DEF Leads
  <2>3. QED
    BY <2>1, <2>2
<1>6. SettledLatest'
  <2> SUFFICES ASSUME NEW e \in Drivers, e \notin unsettled', Unwritten(e)'
               PROVE  Latest(index[e], e)'
    BY <1>1 DEF SettledLatest
  <2>1. e # d
    BY <1>1 DEF Unwritten, Writing
  <2>2. Unwritten(e)
    BY <1>1, <2>1 DEF Unwritten, Writing
  <2>3. QED
    BY <1>1, <1>3, <2>2 DEF SettledLatest
<1>7. IndexTyped' /\ IndexOwn'
  BY <1>1, IndexKept
<1>8. QED
  BY <1>1, <1>5, <1>6, <1>7 DEF Stamped, AloneLeads

\* GEOADD, executed once or more: the location is the update's own.
LEMMA HistoryGeoAdd ==
    ASSUME Typed, Placed, History, NEW u \in Updates, D!GeoAdd(u), UNCHANGED stamps
    PROVE  History'
<1> USE DEF History, Typed
<1>1. /\ pc[u] = "GeoAdd" /\ driver[u] \in Drivers
      /\ index' = [index EXCEPT ![driver[u]] = u]
      /\ UNCHANGED <<driver, handed, stamps>>
  BY DEF D!GeoAdd, D!Execute, D!LoseReply, D!Goto, Placed, HasDriver
<1>2. \/ pc' \in {pc, [pc EXCEPT ![u] = "Go"]} /\ UNCHANGED <<alone, unsettled>>
      \/ /\ pc' = [pc EXCEPT ![u] = "failed"]
         /\ alone' = alone \ {u} /\ unsettled' = unsettled \cup {driver[u]}
  BY DEF D!GeoAdd, D!Execute, D!LoseReply, D!Goto, D!AbortWrites
<1>3. IndexTyped' /\ IndexOwn'
  BY <1>1, <1>2 DEF IndexTyped, IndexOwn
<1>4. \A w, e : Latest(w, e)' <=> Latest(w, e)
  BY <1>1 DEF Latest, Before
<1>5. pc'[u] # "Set" /\ \A v \in Updates \ {u} : pc'[v] = pc[v]
  BY <1>1, <1>2
<1>6. \A v \in Updates : pc'[v] \in Writing => pc[v] \in Writing
  BY <1>1, <1>5 DEF Writing
<1>7. ASSUME NEW r \in alone'
      PROVE  r \in Updates /\ Leads(r)'
  <2>1. r \in alone /\ r \in Updates /\ Leads(r)
    BY <1>2 DEF AloneLeads
  <2>2. CASE r = u
    <3>1. pc'[u] \in {"GeoAdd", "Go"}
      BY <1>1, <1>2, <2>2
    <3>2. index'[driver[u]] = u
      BY <1>1 DEF IndexTyped
    <3>3. QED
      BY <1>1, <1>6, <2>1, <2>2, <3>1, <3>2 DEF Leads, Writing
  <2>3. CASE r # u
    <3>1. driver[r] # driver[u]
      BY <1>1, <2>1, <2>3 DEF Leads, Writing
    <3>2. index'[driver[r]] = index[driver[r]]
      BY <1>1, <2>1, <3>1 DEF IndexTyped, Leads, Placed, HasDriver, Writing
    <3>3. QED
      BY <1>1, <1>4, <1>5, <1>6, <2>1, <2>3, <3>2 DEF Leads
  <2>4. QED
    BY <2>2, <2>3
<1>8. SettledLatest'
  <2> SUFFICES ASSUME NEW e \in Drivers, e \notin unsettled', Unwritten(e)'
               PROVE  Latest(index'[e], e)
    BY <1>4 DEF SettledLatest
  <2>1. e # driver[u]
    <3>1. CASE pc' \in {pc, [pc EXCEPT ![u] = "Go"]}
      BY <1>1, <3>1 DEF Unwritten, Writing
    <3>2. CASE unsettled' = unsettled \cup {driver[u]}
      BY <3>2
    <3>3. QED
      BY <1>2, <3>1, <3>2
  <2>2. index'[e] = index[e]
    BY <1>1, <2>1 DEF IndexTyped
  <2>3. Unwritten(e) /\ e \notin unsettled
    BY <1>1, <1>2, <1>5, <2>1 DEF Unwritten
  <2>4. QED
    BY <2>2, <2>3 DEF SettledLatest
<1>9. QED
  BY <1>1, <1>3, <1>7, <1>8 DEF AloneLeads, Stamped

\* Handing over stamps the report after all the others.
LEMMA HistoryGo ==
    ASSUME Typed, Placed, History, NEW u \in Updates, D!GoSend(u), stamps' = Append(stamps, u)
    PROVE  History'
<1> USE DEF History, Typed
<1>1. /\ pc[u] = "Go" /\ pc' = [pc EXCEPT ![u] = "Set"] /\ driver[u] \in Drivers
      /\ handed' = handed \cup {u}
      /\ UNCHANGED <<driver, index, alone, unsettled>>
  BY DEF D!GoSend, D!Goto, Placed, HasDriver
<1>2. /\ \A v, w \in Updates : Before(v, w) => Before(v, w)'
      /\ \A v \in handed : Before(v, u)'
      /\ Stamped'
  BY <1>1, StampsGrow DEF Stamped
<1>3. Latest(u, driver[u])'
  BY <1>1, <1>2 DEF Latest
<1>4. \A v \in Updates : pc'[v] \in Writing <=> pc[v] \in Writing
  BY <1>1 DEF Writing
<1>5. ASSUME NEW r \in alone
      PROVE  r \in Updates /\ Leads(r)'
  <2>1. r \in Updates /\ Leads(r)
    BY DEF AloneLeads
  <2>2. CASE r = u
    BY <1>1, <1>3, <1>4, <2>1, <2>2 DEF Leads
  <2>3. CASE r # u
    <3>1. driver[r] # driver[u]
      BY <1>1, <2>1, <2>3 DEF Leads, Writing
    <3>2. Latest(r, driver[r]) => Latest(r, driver[r])'
      BY <1>1, <1>2, <2>1, <3>1 DEF Latest
    <3>3. QED
      BY <1>1, <1>4, <2>1, <2>3, <3>2 DEF Leads
  <2>4. QED
    BY <2>2, <2>3
<1>6. SettledLatest'
  <2> SUFFICES ASSUME NEW e \in Drivers, e \notin unsettled, Unwritten(e)'
               PROVE  Latest(index[e], e)'
    BY <1>1 DEF SettledLatest
  <2>1. e # driver[u]
    BY <1>1 DEF Unwritten, Writing
  <2>2. Latest(index[e], e)
    BY <1>1, <1>4 DEF Unwritten, SettledLatest
  <2>3. ASSUME NEW v \in handed', driver'[v] = e, v # index[e]
        PROVE  Before(v, index[e])'
    <3>1. v \in handed /\ Before(v, index[e])
      BY <1>1, <2>1, <2>2, <2>3 DEF Latest
    <3>2. index[e] \in Updates
      <4>1. stamps \in Seq(Updates) /\ Len(stamps) \in Nat
        BY DEF TypeOK
      <4>2. PICK j \in 1..Len(stamps) : stamps[j] = index[e]
        BY <3>1, <4>1 DEF Before
      <4>3. QED
        BY <4>1, <4>2
    <3>3. v \in Updates /\ index'[e] = index[e]
      BY <1>1, <3>1
    <3>4. QED
      BY <1>2, <3>1, <3>2, <3>3
  <2>4. QED
    BY <1>1, <2>3 DEF Latest
<1>7. IndexTyped' /\ IndexOwn'
  BY <1>1, IndexKept
<1>8. QED
  BY <1>1, <1>2, <1>5, <1>6, <1>7 DEF AloneLeads

\* SET, or a command that fails: an update that was alone settles its driver.
LEMMA HistorySet ==
    ASSUME Typed, Placed, History, NEW u \in Updates, D!SetRecord(u) \/ D!FailWrite(u),
           UNCHANGED stamps
    PROVE  History'
<1> USE DEF History, Typed
<1>1. /\ pc[u] \in Writing /\ driver[u] \in Drivers
      /\ UNCHANGED <<driver, index, handed, stamps>>
  BY DEF D!SetRecord, D!Execute, D!LoseReply, D!Goto, D!FailWrite, D!Writing, Writing, Placed,
         HasDriver, Places
<1>2. \/ pc[u] = "Set" /\ UNCHANGED <<pc, alone, unsettled>>
      \/ /\ pc' = [pc EXCEPT ![u] = "failed"]
         /\ alone' = alone \ {u} /\ unsettled' = unsettled \cup {driver[u]}
      \/ /\ pc[u] = "Set" /\ pc' = [pc EXCEPT ![u] = "ok"] /\ alone' = alone \ {u}
         /\ unsettled' = IF u \in alone THEN unsettled \ {driver[u]}
                                        ELSE unsettled \cup {driver[u]}
  BY DEF D!SetRecord, D!Execute, D!LoseReply, D!Goto, D!FailWrite, D!AbortWrites, D!EndWrite
<1>3. \A w, e : Latest(w, e)' <=> Latest(w, e)
  BY <1>1 DEF Latest, Before
<1>4. \A v \in Updates : /\ pc'[v] \in Writing => pc[v] \in Writing
                         /\ v # u => pc'[v] = pc[v]
  BY <1>1, <1>2 DEF Writing
<1>5. ASSUME NEW r \in alone'
      PROVE  r \in Updates /\ Leads(r)'
  <2>1. r \in alone /\ r \in Updates /\ Leads(r)
    BY <1>2 DEF AloneLeads
  <2>2. pc'[r] = pc[r]
    BY <1>2, <1>4, <2>1
  <2>3. QED
    BY <1>1, <1>3, <1>4, <2>1, <2>2 DEF Leads
<1>6. SettledLatest'
  <2> SUFFICES ASSUME NEW e \in Drivers, e \notin unsettled', Unwritten(e)'
               PROVE  Latest(index[e], e)
    BY <1>1, <1>3 DEF SettledLatest
  <2>1. CASE e # driver[u]
    <3>1. Unwritten(e) /\ e \notin unsettled
      BY <1>1, <1>2, <1>4, <2>1 DEF Unwritten
    <3>2. QED
      BY <3>1 DEF SettledLatest
  <2>2. CASE e = driver[u]
    <3>1. pc[u] = "Set" /\ u \in alone
      BY <1>1, <1>2, <2>2 DEF Unwritten
    <3>2. Leads(u)
      BY <3>1 DEF AloneLeads
    <3>3. QED
      BY <2>2, <3>1, <3>2 DEF Leads
  <2>3. QED
    BY <2>1, <2>2
<1>7. IndexTyped' /\ IndexOwn'
  BY <1>1, <1>2, IndexKept
<1>8. QED
  BY <1>1, <1>5, <1>6, <1>7 DEF Stamped, AloneLeads

\* The end of the process: nobody is alone, and who was writing leaves the
\* driver unsettled.
LEMMA HistoryCrash ==
    ASSUME Typed, Placed, History, D!Crash, UNCHANGED stamps
    PROVE  History'
<1> USE DEF History, Typed
<1>1. UNCHANGED <<driver, index, handed, stamps>>
  BY DEF D!Crash
<1>2. alone' = {}
  <2>1. alone \subseteq {r \in D!Writes : pc[r] \in D!Writing}
    BY DEF AloneLeads, Leads, D!Writes, D!Writing, Writing
  <2>2. QED
    BY <2>1 DEF D!Crash, D!AbortWrites
<1>3. SettledLatest'
  <2> SUFFICES ASSUME NEW e \in Drivers, e \notin unsettled', Unwritten(e)'
               PROVE  Latest(index[e], e)
    BY <1>1 DEF SettledLatest, Latest, Before
  <2>1. unsettled' = unsettled \cup {driver[r] : r \in {r \in D!Writes : pc[r] \in D!Writing}}
    BY DEF D!Crash, D!AbortWrites
  <2>2. e \notin unsettled
    BY <2>1
  <2>3. \A v \in Updates : driver[v] = e => pc[v] \notin D!Writing
    BY <2>1 DEF D!Writes
  <2>4. Unwritten(e)
    BY <2>3 DEF Unwritten, Writing, D!Writing
  <2>5. QED
    BY <2>2, <2>4 DEF SettledLatest
<1>4. IndexTyped' /\ IndexOwn'
  <2>1. \A v \in Updates : pc[v] # "idle" => pc'[v] # "idle"
    BY DEF D!Crash, D!Requests, D!Writes
  <2>2. QED
    BY <1>1, <2>1, IndexKept
<1>5. QED
  BY <1>1, <1>2, <1>3, <1>4 DEF Stamped, AloneLeads

LEMMA HistoryNext ==
    ASSUME Typed, Placed, History, [Next]_vars
    PROVE  History'
<1>1. ASSUME NEW u \in Updates, Update(u)
      PROVE  History'
  <2>1. CASE D!GoSend(u)
    <3>1. u \notin handed /\ handed' = handed \cup {u}
      BY <2>1 DEF D!GoSend, D!Goto, Placed, HandedOver
    <3>2. handed' # handed
      BY <3>1
    <3>3. stamps' = Append(stamps, u)
      BY <1>1, <3>2 DEF Update
    <3>4. QED
      BY <2>1, <3>3, HistoryGo
  <2>2. CASE ~D!GoSend(u)
    <3>1. UNCHANGED handed
      BY <1>1, <2>2 DEF Update, D!UpdateStep, D!GeoAdd, D!SetRecord, D!FailWrite, D!BeginUpdate,
                        D!BeginWrite
    <3>2. UNCHANGED stamps
      BY <1>1, <3>1 DEF Update
    <3>3. QED
      BY <1>1, <2>2, <3>2, HistoryBegin, HistoryGeoAdd, HistorySet DEF Update, D!UpdateStep
  <2>3. QED
    BY <2>1, <2>2
<1>2. ASSUME NEW u \in Updates, Send(u)
      PROVE  History'
  BY <1>2, HistoryKept DEF Send, Begin, Post, PostFails, Answer, GiveUp, Goto, driverVars
<1>3. CASE \/ \E u \in Updates : Analyze(u)
           \/ \E d \in Drivers : Expire(d)
           \/ CrashAnalyzer
  BY <1>3, HistoryKept DEF Analyze, Expire, CrashAnalyzer, driverVars
<1>4. CASE CrashDriver
  BY <1>4, HistoryCrash DEF CrashDriver
<1>5. CASE UNCHANGED vars
  BY <1>5, HistoryKept DEF vars, driverVars
<1>6. QED
  BY <1>1, <1>2, <1>3, <1>4, <1>5 DEF Next, Terminated

-----------------------------------------------------------------------------
\* Lists grow at their end, and what has arrived stays.
LEMMA ArrivedNext ==
    ASSUME Typed, Placed, ArrivedIsStored, [Next]_vars
    PROVE  ArrivedIsStored'
<1> SUFFICES ASSUME ~Faults,
                    NEW u \in Updates
             PROVE  /\ apc'[u] \notin {"idle", "LPush"} => Stored(u)'
                    /\ sending'[u] \in {"waiting", "done"} => apc'[u] # "idle"
  BY DEF ArrivedIsStored
<1> USE DEF Typed, TypeOK, T!TypeOK
<1>1. /\ apc[u] \notin {"idle", "LPush"} => Stored(u)
      /\ sending[u] \in {"waiting", "done"} => apc[u] # "idle"
  BY DEF ArrivedIsStored
<1>2. ASSUME UNCHANGED track, driver'[u] = driver[u], apc'[u] = apc[u],
             sending'[u] \in {"waiting", "done"} => sending[u] \in {"waiting", "done"}
      PROVE  /\ apc'[u] \notin {"idle", "LPush"} => Stored(u)'
             /\ sending'[u] \in {"waiting", "done"} => apc'[u] # "idle"
  BY <1>1, <1>2 DEF Stored
<1>3. ASSUME NEW v \in Updates, Update(v)
      PROVE  /\ apc'[u] \notin {"idle", "LPush"} => Stored(u)'
             /\ sending'[u] \in {"waiting", "done"} => apc'[u] # "idle"
  <2>1. CASE v = u /\ pc[u] = "idle"
    <3>1. apc[u] = "idle" /\ sending[u] = "none"
      BY <2>1 DEF Placed, PostedOnce, HandedOver
    <3>2. UNCHANGED <<sending, trackVars>>
      BY <1>3, <2>1, UpdateCases
    <3>3. QED
      BY <3>1, <3>2 DEF trackVars
  <2>2. CASE ~(v = u /\ pc[u] = "idle")
    <3>1. driver'[u] = driver[u] /\ UNCHANGED trackVars
      BY <1>3, <2>2, UpdateCases DEF wayVars
    <3>2. sending'[u] \in {sending[u], "ready"}
      BY <1>3, <2>2, UpdateCases DEF wayVars
    <3>3. QED
      BY <1>2, <3>1, <3>2 DEF trackVars
  <2>3. QED
    BY <2>1, <2>2
<1>4. ASSUME NEW v \in Updates, Send(v)
      PROVE  /\ apc'[u] \notin {"idle", "LPush"} => Stored(u)'
             /\ sending'[u] \in {"waiting", "done"} => apc'[u] # "idle"
  <2>1. UNCHANGED driver
    BY <1>4, SendCases
  <2>2. CASE Post(v)
    <3>1. /\ apc' = [apc EXCEPT ![v] = "LPush"] /\ UNCHANGED track
          /\ sending' = [sending EXCEPT ![v] = "waiting"]
      BY <2>2 DEF Post, Goto, T!Begin, T!Goto
    <3>2. CASE v = u
      BY <3>1, <3>2
    <3>3. CASE v # u
      BY <1>2, <2>1, <3>1, <3>3
    <3>4. QED
      BY <3>2, <3>3
  <2>3. CASE Answer(v)
    <3>1. /\ apc[v] \in T!Ended /\ UNCHANGED <<apc, track>>
          /\ sending' = [sending EXCEPT ![v] = "done"]
      BY <2>3 DEF Answer, Goto, trackVars
    <3>2. CASE v = u
      BY <1>1, <2>1, <3>1, <3>2 DEF Stored, T!Ended
    <3>3. CASE v # u
      BY <1>2, <2>1, <3>1, <3>3
    <3>4. QED
      BY <3>2, <3>3
  <2>4. QED
    BY <1>4, <2>2, <2>3 DEF Send, Begin, PostFails, GiveUp
<1>5. ASSUME NEW v \in Updates, Analyze(v)
      PROVE  /\ apc'[u] \notin {"idle", "LPush"} => Stored(u)'
             /\ sending'[u] \in {"waiting", "done"} => apc'[u] # "idle"
  <2>1. T!Step(v) /\ UNCHANGED <<driver, handed, sending>>
    BY <1>5 DEF Analyze, driverVars
  <2>2. v \in handed /\ driver[v] \in Drivers /\ apc'[v] # "idle"
        /\ apc' = [apc EXCEPT ![v] = apc'[v]]
    BY <2>1, AnalyzeCases, PostedHasDriver
  <2>3. apc[u] # "idle" => apc'[u] # "idle"
    BY <2>1, <2>2
  <2>4. CASE T!Push(v)
    <3> DEFINE c == driver[v]
               n == Len(track[c])
    <3>1. apc[v] = "LPush" /\ track' = [track EXCEPT ![c] = Append(@, v)]
          /\ apc' = [apc EXCEPT ![v] = "LRange"]
      BY <2>4 DEF T!Push, T!Execute, T!LoseReply, T!Goto, Placed, PostedOnce
    <3>2. track[c] \in Seq(Updates) /\ n \in Nat
      BY <2>2
    <3>3. /\ Len(track'[c]) = n + 1 /\ track'[c][n + 1] = v
          /\ \A i \in 1..n : track'[c][i] = track[c][i]
      <4>1. track'[c] = Append(track[c], v)
        BY <2>2, <3>1
      <4>2. QED
        BY <3>2, <4>1, AppendKeeps
    <3>4. 1..n \subseteq 1..(n + 1) /\ n + 1 \in 1..(n + 1)
      BY <3>2
    <3>5. CASE u = v
      BY <2>1, <2>2, <3>1, <3>3, <3>4, <3>5 DEF Stored
    <3>6. CASE u # v /\ apc[u] \notin {"idle", "LPush"}
      <4>1. apc'[u] = apc[u] /\ Stored(u)
        BY <1>1, <2>2, <3>6
      <4>2. PICK i \in 1..Len(track[driver[u]]) : track[driver[u]][i] = u
        BY <4>1 DEF Stored
      <4>3. driver[u] \in Drivers
        BY <3>6, PostedHasDriver
      <4>4. i \in 1..Len(track'[driver[u]]) /\ track'[driver[u]][i] = u
        <5>1. CASE driver[u] = c
          BY <3>3, <3>4, <4>2, <5>1
        <5>2. CASE driver[u] # c
          BY <3>1, <4>2, <4>3, <5>2
        <5>3. QED
          BY <5>1, <5>2
      <4>5. QED
        BY <1>1, <2>1, <4>1, <4>4 DEF Stored
    <3>7. CASE u # v /\ apc[u] \in {"idle", "LPush"}
      BY <1>1, <2>1, <2>2, <3>7
    <3>8. QED
      BY <3>5, <3>6, <3>7
  <2>5. CASE ~T!Push(v)
    <3>1. UNCHANGED track /\ apc[v] \notin {"idle", "LPush"}
      BY <2>1, <2>5 DEF T!Step, T!Read, T!Write, T!Reply, T!Fail, T!Execute, T!LoseReply, T!Goto
    <3>2. Stored(u)' <=> Stored(u)
      BY <2>1, <3>1 DEF Stored
    <3>3. QED
      BY <1>1, <2>1, <2>2, <2>3, <3>1, <3>2
  <2>6. QED
    BY <2>4, <2>5
<1>6. CASE \/ \E d \in Drivers : Expire(d)
           \/ UNCHANGED vars
  BY <1>2, <1>6 DEF Expire, T!Expire, driverVars, vars, trackVars
<1>7. ~CrashDriver /\ ~CrashAnalyzer
  BY DEF CrashDriver, CrashAnalyzer, D!Crash, T!Crash
<1>8. QED
  BY <1>3, <1>4, <1>5, <1>6, <1>7 DEF Next, Terminated

-----------------------------------------------------------------------------
LEMMA FollowInit == Init => History /\ ArrivedIsStored
<1> SUFFICES ASSUME Init
             PROVE  History /\ ArrivedIsStored
  OBVIOUS
<1> USE DEF Init, D!Init, T!Init, D!Requests, D!Writes
<1>1. IndexTyped /\ IndexOwn /\ Stamped /\ AloneLeads /\ SettledLatest
  BY DEF IndexTyped, IndexOwn, Stamped, AloneLeads, SettledLatest, Latest
<1>2. ArrivedIsStored
  BY DEF ArrivedIsStored
<1>3. QED
  BY <1>1, <1>2 DEF History

\* A settled driver's location, arrived and in no race, ends the track.
LEMMA FollowImplies ==
    ASSUME IInv, History, ArrivedIsStored
    PROVE  TrackFollowsIndex
<1> USE DEF IInv, Typed, TypeOK, T!TypeOK
<1> SUFFICES ASSUME NEW d \in Drivers, ~Faults, d \notin unsettled, D!Writers(d) = {},
                    index[d] \in Closed, \A v \in Updates : <<v, index[d]>> \notin raced
             PROVE  track[d] # <<>> /\ track[d][Len(track[d])] = index[d]
  BY DEF TrackFollowsIndex
<1> DEFINE u == index[d]
           n == Len(track[d])
<1>1. track[d] \in Seq(Updates) /\ n \in Nat
  OBVIOUS
<1>2. u \in handed /\ u \in Updates /\ apc[u] # "LPush" /\ (apc[u] = "idle" => sending[u] # "ready")
  BY DEF Closed
<1>3. apc[u] # "idle"
  BY <1>2 DEF ArrivedIsStored, Placed, HandedOver
<1>4. Stored(u)
  BY <1>2, <1>3 DEF ArrivedIsStored
<1>5. driver[u] = d
  BY <1>2, TrackingAssumption DEF History, IndexOwn
<1>6. PICK i \in 1..n : track[d][i] = u
  BY <1>4, <1>5 DEF Stored
<1>7. n \in 1..n /\ track[d][n] \in handed /\ driver[track[d][n]] = d
  BY <1>1, <1>6 DEF Listed, OwnList
<1>8. track[d][n] = u
  <2> SUFFICES ASSUME track[d][n] # u
               PROVE  FALSE
    OBVIOUS
  <2>1. n \in (i + 1)..n
    BY <1>1, <1>6
  <2>2. Unwritten(d)
    BY WritersAre
  <2>3. Before(track[d][n], track[d][i])
    BY <1>6, <1>7, <2>2 DEF History, SettledLatest, Latest
  <2>4. <<track[d][n], u>> \in raced
    BY <1>6, <2>1, <2>3 DEF InOrder, DisorderNeedsRace
  <2>5. QED
    BY <1>7, <2>4
<1>9. QED
  BY <1>1, <1>6, <1>8

(***************************************************************************)
(* Without faults the track catches up with the index: once the report of  *)
(* a settled driver's position has arrived, and raced with no other, it is *)
(* the last point of the track (driver_service.go, lines 56 and 71;        *)
(* track_repository.go, line 122).                                         *)
(***************************************************************************)
THEOREM TracksFollow == Spec => []CalmTracks
<1>1. IInv /\ History /\ ArrivedIsStored /\ [Next]_vars => (History /\ ArrivedIsStored)'
  BY HistoryNext, ArrivedNext DEF IInv
<1>2. IInv /\ History /\ ArrivedIsStored => CalmTracks
  BY FollowImplies DEF CalmTracks
<1>3. QED
  BY Inductive, FollowInit, <1>1, <1>2, PTL DEF Spec

-----------------------------------------------------------------------------
(***************************************************************************)
(* The instrumentation manager.  What loading, running and closing a probe *)
(* make of it.                                                             *)
(***************************************************************************)
Bases == [attached : BOOLEAN, reader : {"nil", "open", "closed"},
          handling : Nat, reading : Nat, ending : Nat]

\* Attached, with a reader to read from.
On(b) == b.attached /\ b.reader = "open"

\* Neither attached nor readable.
Off(b) == ~b.attached /\ b.reader # "open"

\* Some goroutine reads the probe's events.
Alive(b) == b.handling + b.reading > 0

\* Goroutines left of the probe.
Left(b) == b.handling + b.reading + b.ending

LEMMA LoadedIs ==
    ASSUME NEW b \in Bases
    PROVE  /\ M!Loaded(b) \in Bases
           /\ On(M!Loaded(b))
           /\ Alive(M!Loaded(b)) <=> Alive(b)
           /\ Left(M!Loaded(b)) = Left(b)
BY DEF Bases, M!Loaded, On, Alive, Left

LEMMA ClosedIs ==
    ASSUME NEW b \in Bases
    PROVE  /\ M!Closed(b) \in Bases
           /\ Off(M!Closed(b))
           /\ M!Closed(b).reader = "nil" => b.reader = "nil"
           /\ Alive(M!Closed(b)) => Alive(b)
           /\ Left(M!Closed(b)) = Left(b)
<1>1. b.handling \in Nat /\ b.reading \in Nat /\ b.ending \in Nat
  BY DEF Bases
<1>2. DOMAIN b = {"attached", "reader", "handling", "reading", "ending"}
  BY DEF Bases
<1>3. ~M!Closed(b).attached
  BY <1>2 DEF M!Closed
<1>4. M!Closed(b).reader = IF b.reader = "open" THEN "closed" ELSE b.reader
  BY <1>2 DEF M!Closed
<1>5. M!Closed(b).handling = b.handling /\ M!Closed(b).reading = 0
  BY <1>2 DEF M!Closed
<1>6. M!Closed(b).ending = b.ending + b.reading
  BY <1>2 DEF M!Closed
<1>7. M!Closed(b) \in Bases
  <2> DEFINE e == b.ending + b.reading
             r == IF b.reader = "open" THEN "closed" ELSE b.reader
  <2>1. e \in Nat /\ r \in {"nil", "open", "closed"}
    BY <1>1 DEF Bases
  <2>2. M!Closed(b) = [b EXCEPT !.attached = FALSE, !.reader = r, !.ending = e, !.reading = 0]
    BY DEF M!Closed
  <2> HIDE DEF e, r
  <2>3. [b EXCEPT !.attached = FALSE, !.reader = r, !.ending = e, !.reading = 0] \in Bases
    BY <2>1 DEF Bases
  <2>4. QED
    BY <2>2, <2>3
<1>8. QED
  BY <1>1, <1>3, <1>4, <1>5, <1>6, <1>7 DEF Off, Alive, Left

LEMMA StartedIs ==
    ASSUME NEW b \in Bases
    PROVE  /\ M!Started(b) \in Bases
           /\ Alive(M!Started(b))
           /\ M!Started(b).reader = b.reader
           /\ On(M!Started(b)) <=> On(b)
BY DEF Bases, M!Started, Alive, On

LEMMA FailedIs ==
    ASSUME NEW b \in Bases, NEW stage \in M!Stages
    PROVE  M!FailedLoad(b, stage) \in Bases /\ Left(M!FailedLoad(b, stage)) = Left(b)
BY LoadedIs DEF Bases, M!FailedLoad, M!Stages, Left

\* A turn of a probe's goroutine.
LEMMA TurnIs ==
    ASSUME NEW p \in Probes, probe \in [Probes -> Bases],
           M!Read(p) \/ M!Handle(p) \/ M!EndGoroutine(p)
    PROVE  /\ probe' \in [Probes -> Bases]
           /\ \A q \in Probes : /\ On(probe'[q]) <=> On(probe[q])
                                /\ Off(probe'[q]) <=> Off(probe[q])
                                /\ probe'[q].reader = probe[q].reader
                                /\ Alive(probe'[q]) => Alive(probe[q])
                                /\ On(probe[q]) /\ Alive(probe[q]) => Alive(probe'[q])
                                /\ Left(probe'[q]) <= Left(probe[q])
           /\ Left(probe[p]) > 0
           /\ crashed' => crashed \/ (Alive(probe[p]) /\ probe[p].reader = "nil")
<1> DEFINE b == probe[p]
<1>1. b \in Bases /\ b.handling \in Nat /\ b.reading \in Nat /\ b.ending \in Nat
  BY DEF Bases
<1>2. PICK c \in Bases : /\ probe' = [probe EXCEPT ![p] = c]
                         /\ c.attached = b.attached /\ c.reader = b.reader
                         /\ c.handling + c.reading <= b.handling + b.reading
                         /\ b.reader = "open" => c.handling + c.reading = b.handling + b.reading
                         /\ Left(c) <= Left(b)
  <2>1. CASE M!Read(p)
    <3> DEFINE h == b.handling - 1
               r == IF b.reader = "open" THEN b.reading + 1 ELSE b.reading
    <3>1. probe' = [probe EXCEPT ![p] = [b EXCEPT !.handling = h, !.reading = r]] /\ b.handling > 0
      BY <2>1 DEF M!Read, M!Goroutine
    <3>2. h \in Nat /\ r \in Nat
      BY <1>1, <3>1
    <3>3. /\ h + r <= b.handling + b.reading
          /\ b.reader = "open" => h + r = b.handling + b.reading
      BY <1>1
    <3>4. h + r + b.ending <= Left(b)
      BY <1>1, <3>2, <3>3 DEF Left
    <3> HIDE DEF h, r
    <3> DEFINE c == [b EXCEPT !.handling = h, !.reading = r]
    <3>5. /\ c.attached = b.attached /\ c.reader = b.reader /\ c.ending = b.ending
          /\ c.handling = h /\ c.reading = r
      BY <1>1 DEF Bases
    <3>6. c \in Bases
      BY <1>1, <3>2 DEF Bases
    <3>7. probe' = [probe EXCEPT ![p] = c]
      BY <3>1
    <3> HIDE DEF c
    <3>8. Left(c) <= Left(b)
      BY <3>4, <3>5 DEF Left
    <3>9. QED
      BY <3>3, <3>5, <3>6, <3>7, <3>8
  <2>2. CASE M!Handle(p)
    <3> DEFINE h == b.handling + 1
               r == b.reading - 1
    <3>1. probe' = [probe EXCEPT ![p] = [b EXCEPT !.reading = r, !.handling = h]] /\ b.reading > 0
      BY <2>2 DEF M!Handle, M!Goroutine
    <3>2. h \in Nat /\ r \in Nat
      BY <1>1, <3>1
    <3>3. h + r = b.handling + b.reading /\ h + r <= b.handling + b.reading
      BY <1>1
    <3>4. h + r + b.ending <= Left(b)
      BY <1>1, <3>2, <3>3 DEF Left
    <3> HIDE DEF h, r
    <3>5. [b EXCEPT !.reading = r, !.handling = h] = [b EXCEPT !.handling = h, !.reading = r]
      BY DEF Bases
    <3>6. probe' = [probe EXCEPT ![p] = [b EXCEPT !.handling = h, !.reading = r]]
      BY <3>1, <3>5
    <3> DEFINE c == [b EXCEPT !.handling = h, !.reading = r]
    <3>7. /\ c.attached = b.attached /\ c.reader = b.reader /\ c.ending = b.ending
          /\ c.handling = h /\ c.reading = r
      BY <1>1 DEF Bases
    <3>8. c \in Bases
      BY <1>1, <3>2 DEF Bases
    <3>9. probe' = [probe EXCEPT ![p] = c]
      BY <3>6
    <3> HIDE DEF c
    <3>10. Left(c) <= Left(b)
      BY <3>4, <3>7 DEF Left
    <3>11. QED
      BY <3>3, <3>7, <3>8, <3>9, <3>10
  <2>3. CASE M!EndGoroutine(p)
    <3> DEFINE e == b.ending - 1
    <3>1. probe' = [probe EXCEPT ![p] = [b EXCEPT !.ending = e]] /\ b.ending > 0
      BY <2>3 DEF M!EndGoroutine, M!Goroutine
    <3>2. e \in Nat /\ b.handling + b.reading + e <= Left(b)
      BY <1>1, <3>1 DEF Left
    <3> HIDE DEF e
    <3> DEFINE c == [b EXCEPT !.ending = e]
    <3>3. /\ c.attached = b.attached /\ c.reader = b.reader /\ c.ending = e
          /\ c.handling = b.handling /\ c.reading = b.reading
      BY DEF Bases
    <3>4. c \in Bases
      BY <3>2 DEF Bases
    <3>5. probe' = [probe EXCEPT ![p] = c]
      BY <3>1
    <3> HIDE DEF c
    <3>6. Left(c) <= Left(b) /\ c.handling + c.reading <= b.handling + b.reading
      BY <1>1, <3>2, <3>3 DEF Left
    <3>7. QED
      BY <3>3, <3>4, <3>5, <3>6
  <2>4. QED
    BY <2>1, <2>2, <2>3
<1>3. \A q \in Probes \ {p} : probe'[q] = probe[q] /\ Left(probe[q]) \in Nat
  BY <1>2 DEF Bases, Left
<1>4. probe'[p] = c
  BY <1>2
<1>5. /\ On(c) <=> On(b)
      /\ Off(c) <=> Off(b)
      /\ Alive(c) => Alive(b)
      /\ On(b) /\ Alive(b) => Alive(c)
  <2>1. c.handling \in Nat /\ c.reading \in Nat
    BY DEF Bases
  <2>2. QED
    BY <1>1, <1>2, <2>1 DEF On, Off, Alive
<1>6. Left(b) > 0 /\ (crashed' => crashed \/ (Alive(b) /\ b.reader = "nil"))
  <2>1. CASE M!Read(p)
    <3>1. b.handling > 0 /\ crashed' = (b.reader = "nil")
      BY <2>1 DEF M!Read
    <3>2. b.handling + b.reading > 0 /\ b.handling + b.reading + b.ending > 0
      BY <1>1, <3>1
    <3>3. QED
      BY <3>1, <3>2 DEF Left, Alive
  <2>2. CASE M!Handle(p) \/ M!EndGoroutine(p)
    <3>1. (b.reading > 0 \/ b.ending > 0) /\ UNCHANGED crashed
      BY <2>2 DEF M!Handle, M!EndGoroutine
    <3>2. b.handling + b.reading + b.ending > 0
      BY <1>1, <3>1
    <3>3. QED
      BY <3>1, <3>2 DEF Left
  <2>3. QED
    BY <2>1, <2>2
<1>7. probe' \in [Probes -> Bases]
  BY <1>2
<1>8. QED
  BY <1>2, <1>3, <1>4, <1>5, <1>6, <1>7

-----------------------------------------------------------------------------
\* Types.
Kinds == {"load", "run", "close", "config", "refused"}

MTyped ==
    /\ M!ManagerTypeOK
    /\ probe \in [Probes -> Bases]
    /\ calls \in [Kinds -> Nat]

\* One more call of its kind.
LEMMA CountIs ==
    ASSUME calls \in [Kinds -> Nat], NEW k \in Kinds, NEW max \in Nat, M!Count(k, max)
    PROVE  /\ calls' \in [Kinds -> Nat]
           /\ calls'[k] = calls[k] + 1 /\ calls'[k] <= max
           /\ \A j \in Kinds \ {k} : calls'[j] = calls[j]
BY DEF M!Count, Kinds

\* What a Load leaves of the probes.
LEMMA LoadIs ==
    ASSUME probe \in [Probes -> Bases], M!Load
    PROVE  /\ state = "running" => UNCHANGED <<probe, state, currentConfig, shut, failed, stale>>
           /\ state # "running" =>
              /\ probe' \in [Probes -> Bases]
              /\ currentConfig' \subseteq Probes
              /\ \A p \in Probes : Left(probe'[p]) = Left(probe[p])
              /\ \/ /\ state' = "loaded" /\ UNCHANGED <<shut, failed>>
                    /\ stale' = (stale \/ (state = "loaded" /\ ~(currentConfig \subseteq currentConfig')))
                    /\ \A p \in Probes : IF p \in currentConfig'
                                         THEN On(probe'[p]) ELSE probe'[p] = probe[p]
                 \/ /\ state' = state /\ failed' = TRUE /\ stale' = stale /\ shut' = TRUE
                    /\ \A p \in Probes : Off(probe'[p])
                 \/ state' = state /\ failed' = TRUE /\ stale' = stale /\ UNCHANGED <<probe, shut>>
<1>1. CASE state = "running"
  BY <1>1 DEF M!Load
<1>2. CASE state # "running"
  <2>1. PICK c \in SUBSET Probes :
          /\ currentConfig' = c
          /\ \/ /\ probe' = [p \in Probes |-> IF p \in c THEN M!Loaded(probe[p]) ELSE probe[p]]
                /\ state' = "loaded"
                /\ stale' = (stale \/ (state = "loaded" /\ ~(currentConfig \subseteq c)))
                /\ UNCHANGED <<shut, failed>>
             \/ \E before \in SUBSET c : \E q \in c \ before : \E stage \in M!Stages :
                /\ probe' = M!AllClosed([p \in Probes |->
                               CASE p \in before -> M!Loaded(probe[p])
                                 [] p = q -> M!FailedLoad(probe[p], stage)
                                 [] OTHER -> probe[p]])
                /\ shut' = TRUE
                /\ failed' = TRUE
                /\ UNCHANGED <<state, stale>>
             \/ failed' = TRUE /\ UNCHANGED <<probe, state, shut, stale>>
    BY <1>2 DEF M!Load
  <2>2. CASE /\ probe' = [p \in Probes |-> IF p \in c THEN M!Loaded(probe[p]) ELSE probe[p]]
             /\ state' = "loaded"
             /\ stale' = (stale \/ (state = "loaded" /\ ~(currentConfig \subseteq c)))
             /\ UNCHANGED <<shut, failed>>
    BY <1>2, <2>1, <2>2, LoadedIs
  <2>3. ASSUME NEW before \in SUBSET c, NEW q \in c \ before, NEW stage \in M!Stages,
               probe' = M!AllClosed([p \in Probes |->
                               CASE p \in before -> M!Loaded(probe[p])
                                 [] p = q -> M!FailedLoad(probe[p], stage)
                                 [] OTHER -> probe[p]])
        PROVE  /\ probe' \in [Probes -> Bases]
               /\ \A p \in Probes : Left(probe'[p]) = Left(probe[p]) /\ Off(probe'[p])
    <3> DEFINE f == [p \in Probes |-> CASE p \in before -> M!Loaded(probe[p])
                                        [] p = q -> M!FailedLoad(probe[p], stage)
                                        [] OTHER -> probe[p]]
    <3>1. ASSUME NEW p \in Probes
          PROVE  f[p] \in Bases /\ Left(f[p]) = Left(probe[p])
      <4>1. CASE p \in before
        BY <4>1, LoadedIs
      <4>2. CASE p \notin before /\ p = q
        BY <4>2, FailedIs
      <4>3. CASE p \notin before /\ p # q
        BY <4>3
      <4>4. QED
        BY <4>1, <4>2, <4>3
    <3>2. probe' = [p \in Probes |-> M!Closed(f[p])]
      BY <2>3 DEF M!AllClosed
    <3> HIDE DEF f
    <3>3. QED
      BY <3>1, <3>2, ClosedIs
  <2>4. CASE \E before \in SUBSET c : \E q \in c \ before : \E stage \in M!Stages :
                /\ probe' = M!AllClosed([p \in Probes |->
                               CASE p \in before -> M!Loaded(probe[p])
                                 [] p = q -> M!FailedLoad(probe[p], stage)
                                 [] OTHER -> probe[p]])
                /\ shut' = TRUE
                /\ failed' = TRUE
                /\ UNCHANGED <<state, stale>>
    BY <1>2, <2>1, <2>3, <2>4
  <2>5. CASE failed' = TRUE /\ UNCHANGED <<probe, state, shut, stale>>
    BY <1>2, <2>1, <2>5
  <2>6. QED
    BY <2>1, <2>2, <2>4, <2>5
<1>3. QED
  BY <1>1, <1>2

\* What a new configuration makes of the probes, and what if nothing fails.
LEMMA ChangeIs ==
    ASSUME probe \in [Probes -> Bases], currentConfig \subseteq Probes, failed \in BOOLEAN,
           NEW c \in SUBSET Probes, M!ChangeProbes(c)
    PROVE  /\ probe' \in [Probes -> Bases]
           /\ failed' \in BOOLEAN /\ (failed => failed')
           /\ ~failed' => \A p \in Probes :
              /\ p \in c \ currentConfig => On(probe'[p]) /\ Alive(probe'[p])
              /\ p \in currentConfig \ c => /\ Off(probe'[p])
                                            /\ probe'[p].reader = "nil" => probe[p].reader = "nil"
                                            /\ Alive(probe'[p]) => Alive(probe[p])
              /\ (p \in c <=> p \in currentConfig) => probe'[p] = probe[p]
<1> DEFINE enabling == c \ currentConfig
           disabling == currentConfig \ c
<1>a. PICK bad \in SUBSET enabling :
          \E run \in SUBSET (enabling \ bad) : \E stage \in [bad -> M!Stages] :
          \E closeFails \in BOOLEAN :
            /\ closeFails => disabling # {}
            /\ bad = {} /\ ~closeFails => run = enabling
            /\ failed' = (failed \/ closeFails \/ bad # {})
            /\ probe' = [p \in Probes |->
                  CASE p \in disabling -> M!Closed(probe[p])
                    [] p \in run -> M!Started(M!Loaded(probe[p]))
                    [] p \in bad -> M!FailedLoad(probe[p], stage[p])
                    [] p \in enabling \ (run \cup bad) -> M!Loaded(probe[p])
                    [] OTHER -> probe[p]]
  BY DEF M!ChangeProbes
<1>1. PICK run \in SUBSET (enabling \ bad), stage \in [bad -> M!Stages], closeFails \in BOOLEAN :
            /\ bad = {} /\ ~closeFails => run = enabling
            /\ failed' = (failed \/ closeFails \/ bad # {})
            /\ probe' = [p \in Probes |->
                  CASE p \in disabling -> M!Closed(probe[p])
                    [] p \in run -> M!Started(M!Loaded(probe[p]))
                    [] p \in bad -> M!FailedLoad(probe[p], stage[p])
                    [] p \in enabling \ (run \cup bad) -> M!Loaded(probe[p])
                    [] OTHER -> probe[p]]
  BY <1>a
<1> HIDE DEF enabling, disabling
<1>2. enabling \cap disabling = {} /\ run \cap bad = {} /\ run \subseteq enabling /\ bad \subseteq enabling
  BY <1>1 DEF enabling, disabling
<1>3. ASSUME NEW p \in Probes
      PROVE  /\ p \in disabling => probe'[p] = M!Closed(probe[p])
             /\ p \in run => probe'[p] = M!Started(M!Loaded(probe[p]))
             /\ p \in bad => probe'[p] = M!FailedLoad(probe[p], stage[p])
             /\ p \in enabling \ (run \cup bad) => probe'[p] = M!Loaded(probe[p])
             /\ p \notin enabling \cup disabling => probe'[p] = probe[p]
  BY <1>1, <1>2
<1>4. ASSUME NEW p \in Probes
      PROVE  probe'[p] \in Bases
  <2>1. p \in bad => stage[p] \in M!Stages
    BY <1>1
  <2>2. QED
    BY <1>2, <1>3, <2>1, LoadedIs, StartedIs, ClosedIs, FailedIs
<1>5. probe' \in [Probes -> Bases]
  BY <1>1, <1>4
<1>6. failed' \in BOOLEAN /\ (failed => failed')
  BY <1>1
<1>7. ASSUME ~failed', NEW p \in Probes
      PROVE  /\ p \in c \ currentConfig => On(probe'[p]) /\ Alive(probe'[p])
             /\ p \in currentConfig \ c => /\ Off(probe'[p])
                                           /\ probe'[p].reader = "nil" => probe[p].reader = "nil"
                                           /\ Alive(probe'[p]) => Alive(probe[p])
             /\ (p \in c <=> p \in currentConfig) => probe'[p] = probe[p]
  <2>1. run = enabling
    BY <1>1, <1>7
  <2>2. CASE p \in enabling
    <3>1. probe'[p] = M!Started(M!Loaded(probe[p]))
      BY <1>3, <2>1, <2>2
    <3>2. On(probe'[p]) /\ Alive(probe'[p])
      BY <3>1, LoadedIs, StartedIs
    <3>3. QED
      BY <2>2, <3>2 DEF enabling
  <2>3. CASE p \in disabling
    <3>1. probe'[p] = M!Closed(probe[p])
      BY <1>3, <2>3
    <3>2. /\ Off(probe'[p])
          /\ probe'[p].reader = "nil" => probe[p].reader = "nil"
          /\ Alive(probe'[p]) => Alive(probe[p])
      BY <3>1, ClosedIs
    <3>3. QED
      BY <2>3, <3>2 DEF disabling
  <2>4. CASE p \notin enabling \cup disabling
    BY <1>3, <2>4 DEF enabling, disabling
  <2>5. QED
    BY <2>2, <2>3, <2>4
<1>8. QED
  BY <1>5, <1>6, <1>7

-----------------------------------------------------------------------------
\* A loop goes elsewhere.
LEMMA LoopTyped ==
    ASSUME loop \in [M!Runs -> [at : {"off", "watch", "apply", "set"}, c : SUBSET Probes]],
           NEW i \in M!Runs, NEW to \in {"off", "watch", "apply", "set"},
           loop' = [loop EXCEPT ![i] = [loop[i] EXCEPT !.at = to]]
    PROVE  loop' \in [M!Runs -> [at : {"off", "watch", "apply", "set"}, c : SUBSET Probes]]
<1>1. loop[i] \in [at : {"off", "watch", "apply", "set"}, c : SUBSET Probes]
  OBVIOUS
<1>2. [loop[i] EXCEPT !.at = to] \in [at : {"off", "watch", "apply", "set"}, c : SUBSET Probes]
  BY <1>1
<1>3. QED
  BY <1>2

\* Every step keeps the types.
LEMMA MTypesNext ==
    ASSUME MTyped, M!Next
    PROVE  MTyped'
<1> USE ManagerAssumption
        DEF MTyped, M!ManagerTypeOK, M!Runs, M!LoopGoto, M!StopStep, M!Goto, M!instrumentation
<1>1. CASE M!Load
  <2>1. calls' \in [Kinds -> Nat]
    BY <1>1, CountIs DEF M!Load, Kinds
  <2>2. UNCHANGED <<loop, cancelled, stopAt, stopSet, stopped, runAt, closeAt, handlerClosed, crashed>>
    BY <1>1 DEF M!Load
  <2>3. /\ probe' \in [Probes -> Bases] /\ currentConfig' \subseteq Probes
        /\ state' \in {"uninitialized", "loaded", "running", "stopped"}
        /\ {shut', failed', stale'} \subseteq BOOLEAN
    BY <1>1, LoadIs
  <2>4. QED
    BY <2>1, <2>2, <2>3 DEF Bases
<1>2. ASSUME NEW p \in Probes, M!Read(p) \/ M!Handle(p) \/ M!EndGoroutine(p)
      PROVE  MTyped'
  <2>1. probe' \in [Probes -> Bases]
    BY <1>2, TurnIs
  <2>2. crashed' \in BOOLEAN
    BY <1>2 DEF M!Read, M!Handle, M!EndGoroutine
  <2>3. UNCHANGED <<state, currentConfig, shut, loop, cancelled, stopAt, stopSet, stopped, runAt,
                    closeAt, handlerClosed, calls, failed, stale>>
    BY <1>2 DEF M!Read, M!Handle, M!EndGoroutine, M!Goroutine
  <2>4. QED
    BY <2>1, <2>2, <2>3 DEF Bases
<1>3. ASSUME NEW i \in M!Runs, M!Receive(i)
      PROVE  MTyped'
  <2>1. calls' \in [Kinds -> Nat]
    BY <1>3, CountIs DEF M!Receive, Kinds
  <2>2. loop' \in [M!Runs -> [at : {"off", "watch", "apply", "set"}, c : SUBSET Probes]]
    BY <1>3 DEF M!Receive
  <2>3. QED
    BY <1>3, <2>1, <2>2 DEF M!Receive
<1>4. ASSUME NEW i \in M!Runs, M!ApplyConfig(i)
      PROVE  MTyped'
  <2>1. probe' \in [Probes -> Bases] /\ failed' \in BOOLEAN
    BY <1>4, ChangeIs DEF M!ApplyConfig
  <2>2. loop' \in [M!Runs -> [at : {"off", "watch", "apply", "set"}, c : SUBSET Probes]]
    <3>1. loop' = [loop EXCEPT ![i] = [loop[i] EXCEPT !.at = "set"]]
      BY <1>4 DEF M!ApplyConfig
    <3>2. QED
      BY <3>1, LoopTyped
  <2>3. QED
    BY <1>4, <2>1, <2>2 DEF M!ApplyConfig, Bases
<1>5. ASSUME NEW i \in M!Runs, M!SetConfig(i)
      PROVE  MTyped'
  <2>1. loop' \in [M!Runs -> [at : {"off", "watch", "apply", "set"}, c : SUBSET Probes]]
    <3>1. loop' = [loop EXCEPT ![i] = [loop[i] EXCEPT !.at = "watch"]]
      BY <1>5 DEF M!SetConfig
    <3>2. QED
      BY <3>1, LoopTyped
  <2>2. currentConfig' \subseteq Probes /\ stale' \in BOOLEAN
    BY <1>5 DEF M!SetConfig
  <2>3. QED
    BY <1>5, <2>1, <2>2 DEF M!SetConfig
<1>6. ASSUME NEW i \in M!Runs, M!LeaveLoop(i)
      PROVE  MTyped'
  <2>1. loop' = [loop EXCEPT ![i] = [loop[i] EXCEPT !.at = "off"]]
    BY <1>6 DEF M!LeaveLoop
  <2>2. loop' \in [M!Runs -> [at : {"off", "watch", "apply", "set"}, c : SUBSET Probes]]
    BY <2>1, LoopTyped
  <2>3. QED
    BY <1>6, <2>2 DEF M!LeaveLoop
<1>7. ASSUME NEW u \in {"run", "close"}, M!StopBegin(u)
      PROVE  MTyped'
  <2>1. cancelled' \in [M!Runs -> BOOLEAN]
    <3>1. cancelled' = cancelled \/ cancelled' = [cancelled EXCEPT ![calls["run"]] = TRUE]
      BY <1>7 DEF M!StopBegin
    <3>2. QED
      BY <3>1
  <2>2. stopAt' \in [{"run", "close"} -> {"no", "lock", "probes", "wait", "done"}]
    <3>1. stopAt' = [stopAt EXCEPT ![u] = "done"] \/ stopAt' = [stopAt EXCEPT ![u] = "probes"]
      BY <1>7 DEF M!StopBegin
    <3>2. QED
      BY <3>1
  <2>3. UNCHANGED <<probe, state, currentConfig, shut, loop, stopSet, stopped, runAt, closeAt,
                    handlerClosed, crashed, calls, failed, stale>>
    BY <1>7 DEF M!StopBegin
  <2>4. QED
    BY <2>1, <2>2, <2>3
<1>8. ASSUME NEW u \in {"run", "close"}, M!StopCleanup(u)
      PROVE  MTyped'
  <2>1. probe' = [p \in Probes |-> M!Closed(probe[p])]
    BY <1>8 DEF M!StopCleanup, M!AllClosed
  <2>2. probe' \in [Probes -> Bases]
    BY <2>1, ClosedIs
  <2>3. QED
    BY <1>8, <2>2 DEF M!StopCleanup, Bases
<1>9. ASSUME NEW u \in {"run", "close"}, M!StopEnd(u)
      PROVE  MTyped'
  BY <1>9 DEF M!StopEnd
<1>10. CASE M!RunBegin
  <2>1. calls' \in [Kinds -> Nat]
    BY <1>10, CountIs DEF M!RunBegin, Kinds
  <2>2. QED
    BY <1>10, <2>1 DEF M!RunBegin
<1>11. CASE M!RunRefused
  <2>1. calls' \in [Kinds -> Nat]
    BY <1>11, CountIs DEF M!RunRefused, Kinds
  <2>2. QED
    BY <1>11, <2>1 DEF M!RunRefused
<1>12. CASE M!RunProbes
  <2>1. CASE state = "loaded"
    <3>1. probe' \in [Probes -> Bases]
      <4>1. probe' = [p \in Probes |-> IF p \in currentConfig THEN M!Started(probe[p]) ELSE probe[p]]
        BY <1>12, <2>1 DEF M!RunProbes
      <4>2. QED
        BY <4>1, StartedIs
    <3>2. loop' \in [M!Runs -> [at : {"off", "watch", "apply", "set"}, c : SUBSET Probes]]
      <4>1. loop' = [loop EXCEPT ![calls["run"]].at = "watch"]
        BY <1>12, <2>1 DEF M!RunProbes
      <4>2. CASE calls["run"] \in M!Runs
        <5>1. loop' = [loop EXCEPT ![calls["run"]] = [loop[calls["run"]] EXCEPT !.at = "watch"]]
          BY <4>1
        <5>2. QED
          BY <4>2, <5>1, LoopTyped
      <4>3. CASE calls["run"] \notin M!Runs
        BY <4>1, <4>3
      <4>4. QED
        BY <4>2, <4>3
    <3>3. QED
      BY <1>12, <2>1, <3>1, <3>2 DEF M!RunProbes, Bases
  <2>2. CASE state # "loaded"
    BY <1>12, <2>2 DEF M!RunProbes
  <2>3. QED
    BY <2>1, <2>2
<1>13. CASE M!RunCancelled
  BY <1>13 DEF M!RunCancelled
<1>14. CASE M!RunEnd
  BY <1>14 DEF M!RunEnd
<1>15. CASE M!Cancel
  BY <1>15 DEF M!Cancel
<1>16. CASE M!CloseBegin
  <2>1. calls' \in [Kinds -> Nat]
    BY <1>16, CountIs DEF M!CloseBegin, Kinds
  <2>2. QED
    BY <1>16, <2>1 DEF M!CloseBegin
<1>17. CASE M!CloseStopped
  BY <1>17 DEF M!CloseStopped
<1>18. CASE M!CloseEnd
  BY <1>18 DEF M!CloseEnd
<1>19. QED
  BY <1>1, <1>2, <1>3, <1>4, <1>5, <1>6, <1>7, <1>8, <1>9, <1>10, <1>11, <1>12, <1>13, <1>14, <1>15,
     <1>16, <1>17, <1>18 DEF M!Next, M!Stop

-----------------------------------------------------------------------------
(***************************************************************************)
(* Where the callers are: who stops is stopping, who runs has been counted *)
(* and will close stopped; the handler is shut down by a Run that is over. *)
(***************************************************************************)
Callers ==
    /\ calls["run"] <= MaxRuns
    /\ stopAt["run"] # "no" => runAt = "stop"
    /\ stopAt["close"] # "no" => closeAt = "stop"
    /\ runAt # "idle" => calls["run"] > 0 /\ ~stopped
    /\ stopped => calls["run"] > 0
    /\ state = "running" => runAt \in {"wait", "stop"} /\ stopAt["run"] # "done"
    /\ handlerClosed => \/ calls["refused"] > 0 \/ calls["run"] > 1
                        \/ calls["run"] = 1 /\ runAt = "idle"

LEMMA CallersNext ==
    ASSUME MTyped, Callers, M!Next
    PROVE  Callers'
<1> USE ManagerAssumption
        DEF MTyped, M!ManagerTypeOK, Callers, Kinds, M!LoopGoto, M!StopStep, M!Goto, M!instrumentation
<1>0. calls["run"] \in Nat /\ calls["refused"] \in Nat
  OBVIOUS
<1>1. CASE M!Load
  <2>1. calls'["run"] = calls["run"] /\ calls'["refused"] = calls["refused"]
    BY <1>1, CountIs DEF M!Load
  <2>2. state' = "running" => state = "running"
    BY <1>1, LoadIs
  <2>3. UNCHANGED <<stopAt, stopped, runAt, closeAt, handlerClosed>>
    BY <1>1 DEF M!Load
  <2>4. QED
    BY <2>1, <2>2, <2>3
<1>2. ASSUME NEW p \in Probes, M!Read(p) \/ M!Handle(p) \/ M!EndGoroutine(p)
      PROVE  Callers'
  BY <1>2 DEF M!Read, M!Handle, M!EndGoroutine, M!Goroutine
<1>3. ASSUME NEW i \in M!Runs, M!Receive(i)
      PROVE  Callers'
  <2>1. calls'["run"] = calls["run"] /\ calls'["refused"] = calls["refused"]
    BY <1>3, CountIs DEF M!Receive
  <2>2. QED
    BY <1>3, <2>1 DEF M!Receive
<1>4. ASSUME NEW i \in M!Runs, M!ApplyConfig(i) \/ M!SetConfig(i) \/ M!LeaveLoop(i)
      PROVE  Callers'
  BY <1>4 DEF M!ApplyConfig, M!SetConfig, M!LeaveLoop
<1>5. ASSUME NEW u \in {"run", "close"}, M!Stop(u)
      PROVE  Callers'
  BY <1>5 DEF M!Stop, M!StopBegin, M!StopCleanup, M!StopEnd
<1>6. CASE M!RunBegin
  <2>1. /\ calls'["run"] = calls["run"] + 1 /\ calls'["run"] <= MaxRuns
        /\ calls'["refused"] = calls["refused"]
    BY <1>6, CountIs DEF M!RunBegin
  <2>2. QED
    BY <1>0, <1>6, <2>1 DEF M!RunBegin
<1>7. CASE M!RunRefused
  <2>1. calls'["run"] = calls["run"] /\ calls'["refused"] = calls["refused"] + 1
    BY <1>7, CountIs DEF M!RunRefused
  <2>2. QED
    BY <1>0, <1>7, <2>1 DEF M!RunRefused
<1>8. CASE M!RunProbes
  BY <1>8 DEF M!RunProbes
<1>9. CASE M!RunCancelled
  BY <1>9 DEF M!RunCancelled
<1>10. CASE M!RunEnd
  BY <1>0, <1>10 DEF M!RunEnd
<1>11. CASE M!Cancel
  BY <1>11 DEF M!Cancel
<1>12. CASE M!CloseBegin
  <2>1. calls'["run"] = calls["run"] /\ calls'["refused"] = calls["refused"]
    BY <1>12, CountIs DEF M!CloseBegin
  <2>2. QED
    BY <1>12, <2>1 DEF M!CloseBegin
<1>13. CASE M!CloseStopped
  BY <1>13 DEF M!CloseStopped
<1>14. CASE M!CloseEnd
  BY <1>0, <1>14 DEF M!CloseEnd
<1>15. QED
  BY <1>1, <1>2, <1>3, <1>4, <1>5, <1>6, <1>7, <1>8, <1>9, <1>10, <1>11, <1>12, <1>13, <1>14 DEF M!Next

-----------------------------------------------------------------------------
(***************************************************************************)
(* Goroutines of probes are left only while the manager runs; nothing is   *)
(* attached once it has stopped, nor while a Stop waits for them.          *)
(***************************************************************************)
AllOff == \A p \in Probes : Off(probe[p])

Quiet ==
    /\ state # "running" => \A p \in Probes : Left(probe[p]) = 0
    /\ state \in {"uninitialized", "stopped"} => AllOff
    /\ \A u \in {"run", "close"} : stopAt[u] = "wait" => AllOff

LEMMA QuietNext ==
    ASSUME MTyped, Callers, Quiet, M!Next
    PROVE  Quiet'
<1> USE DEF MTyped, M!ManagerTypeOK, Quiet, AllOff, M!LoopGoto, M!StopStep, M!Goto, M!instrumentation
<1>0. \A p \in Probes : Left(probe[p]) \in Nat
  BY DEF Bases, Left
<1>1. ASSUME UNCHANGED <<probe, state>>,
             \A u \in {"run", "close"} : stopAt'[u] = "wait" => stopAt[u] = "wait"
      PROVE  Quiet'
  BY <1>1
<1>2. CASE M!Load
  <2>1. stopAt' = stopAt /\ \A u \in {"run", "close"} : stopAt[u] # "wait"
    BY <1>2 DEF M!Load, M!StateMuFree
  <2>2. CASE state = "running"
    BY <1>1, <1>2, <2>1, <2>2, LoadIs
  <2>3. CASE state # "running"
    <3>1. \A p \in Probes : Left(probe'[p]) = 0
      BY <1>2, <2>3, LoadIs
    <3>2. state' \in {"uninitialized", "stopped"} => AllOff'
      BY <1>2, <2>3, LoadIs
    <3>3. QED
      BY <2>1, <3>1, <3>2
  <2>4. QED
    BY <2>2, <2>3
<1>3. ASSUME NEW p \in Probes, M!Read(p) \/ M!Handle(p) \/ M!EndGoroutine(p)
      PROVE  Quiet'
  <2>1. UNCHANGED <<state, stopAt>>
    BY <1>3 DEF M!Read, M!Handle, M!EndGoroutine, M!Goroutine
  <2>2. state = "running"
    BY <1>3, TurnIs
  <2>3. AllOff => AllOff'
    BY <1>3, TurnIs
  <2>4. QED
    BY <2>1, <2>2, <2>3
<1>4. ASSUME NEW i \in M!Runs, M!Receive(i) \/ M!SetConfig(i) \/ M!LeaveLoop(i)
      PROVE  Quiet'
  BY <1>1, <1>4 DEF M!Receive, M!SetConfig, M!LeaveLoop
<1>5. ASSUME NEW i \in M!Runs, M!ApplyConfig(i)
      PROVE  Quiet'
  <2>1. UNCHANGED <<state, stopAt>> /\ \A u \in {"run", "close"} : stopAt[u] # "wait"
    BY <1>5 DEF M!ApplyConfig, M!ProbeMuFree
  <2>2. CASE state = "running"
    BY <2>1, <2>2
  <2>3. CASE state # "running"
    BY <1>1, <1>5, <2>1, <2>3 DEF M!ApplyConfig
  <2>4. QED
    BY <2>2, <2>3
<1>6. ASSUME NEW u \in {"run", "close"}, M!StopBegin(u)
      PROVE  Quiet'
  BY <1>1, <1>6 DEF M!StopBegin
<1>7. ASSUME NEW u \in {"run", "close"}, M!StopCleanup(u)
      PROVE  Quiet'
  <2>1. probe' = [p \in Probes |-> M!Closed(probe[p])] /\ UNCHANGED state
    BY <1>7 DEF M!StopCleanup, M!AllClosed
  <2>2. \A p \in Probes : Off(probe'[p]) /\ Left(probe'[p]) = Left(probe[p])
    BY <2>1, ClosedIs
  <2>3. QED
    BY <2>1, <2>2
<1>8. ASSUME NEW u \in {"run", "close"}, M!StopEnd(u)
      PROVE  Quiet'
  <2>1. UNCHANGED probe /\ stopAt[u] = "wait" /\ AllOff
    BY <1>8 DEF M!StopEnd
  <2>2. \A p \in Probes : Left(probe[p]) = 0
    BY <1>8 DEF M!StopEnd, M!Running, Left
  <2>3. QED
    BY <2>1, <2>2
<1>9. CASE M!RunBegin \/ M!RunRefused \/ M!Cancel \/ M!CloseEnd
  BY <1>1, <1>9 DEF M!RunBegin, M!RunRefused, M!Cancel, M!CloseEnd
<1>10. CASE M!RunProbes
  <2>1. CASE state = "loaded"
    BY <1>10, <2>1 DEF M!RunProbes, M!StateMuFree
  <2>2. CASE state # "loaded"
    BY <1>1, <1>10, <2>2 DEF M!RunProbes
  <2>3. QED
    BY <2>1, <2>2
<1>11. CASE M!RunCancelled \/ M!RunEnd \/ M!CloseBegin \/ M!CloseStopped
  BY <1>1, <1>11 DEF M!RunCancelled, M!RunEnd, M!CloseBegin, M!CloseStopped
<1>12. QED
  BY <1>2, <1>3, <1>4, <1>5, <1>6, <1>7, <1>8, <1>9, <1>10, <1>11 DEF M!Next, M!Stop

-----------------------------------------------------------------------------
(***************************************************************************)
(* While nothing has failed and nothing overwrote the configuration, the   *)
(* probes follow it, or the one the loop of the last run is about to set.  *)
(***************************************************************************)
EnabledBy(c, f) == \A p \in Probes : IF p \in c THEN On(f[p]) ELSE Off(f[p])

Served(c, f) == \A p \in c : Alive(f[p])

Readable(f) == \A p \in Probes : Alive(f[p]) => f[p].reader # "nil"

\* Only the loop of run n is between applying a configuration and setting it.
OnlyLast(l, n) == \A j \in M!Runs : l[j].at = "set" => j = n

Conf(l, n, c) == IF l[n].at = "set" THEN l[n].c ELSE c

Follows ==
    ~failed /\ ~stale =>
        /\ ~crashed
        /\ Readable(probe)
        /\ state = "loaded" /\ M!ProbeMuFree => EnabledBy(currentConfig, probe)
        /\ state = "running" /\ M!ProbeMuFree /\ OnlyLast(loop, calls["run"])
              => /\ EnabledBy(Conf(loop, calls["run"], currentConfig), probe)
                 /\ Served(Conf(loop, calls["run"], currentConfig), probe)

\* The run under way is one of those counted.
LEMMA RunIs ==
    ASSUME MTyped, Callers, state = "running" \/ runAt # "idle"
    PROVE  calls["run"] \in M!Runs
BY ManagerAssumption DEF MTyped, M!ManagerTypeOK, Callers, Kinds, M!Runs

LEMMA FollowsNext ==
    ASSUME MTyped, Callers, Quiet, Follows, M!Next
    PROVE  Follows'
<1> USE DEF MTyped, M!ManagerTypeOK, M!LoopGoto, M!StopStep, M!Goto, M!instrumentation
<1> SUFFICES ASSUME ~failed', ~stale'
             PROVE  Follows'
  BY DEF Follows
<1>0. ASSUME UNCHANGED <<probe, state, currentConfig, loop, crashed, failed, stale>>,
             state = "running" => calls'["run"] = calls["run"],
             M!ProbeMuFree' => M!ProbeMuFree
      PROVE  Follows'
  BY <1>0 DEF Follows
<1>1. CASE M!Load
  <2>1. M!ProbeMuFree /\ UNCHANGED <<stopAt, crashed, loop>> /\ calls'["run"] = calls["run"]
    BY <1>1, CountIs, ManagerAssumption DEF M!Load, M!StateMuFree, M!ProbeMuFree, Kinds
  <2>2. CASE state = "running"
    BY <1>0, <1>1, <2>1, <2>2, LoadIs DEF M!ProbeMuFree
  <2>3. CASE state # "running"
    <3>1. /\ state' = "loaded" /\ UNCHANGED failed
          /\ stale' = (stale \/ (state = "loaded" /\ ~(currentConfig \subseteq currentConfig')))
          /\ \A p \in Probes : IF p \in currentConfig' THEN On(probe'[p]) ELSE probe'[p] = probe[p]
      BY <1>1, <2>3, LoadIs
    <3>2. /\ ~crashed /\ Readable(probe)
          /\ state = "loaded" => EnabledBy(currentConfig, probe) /\ currentConfig \subseteq currentConfig'
      BY <2>1, <3>1 DEF Follows
    <3>3. state # "loaded" => AllOff
      BY <2>3 DEF Quiet
    <3>4. EnabledBy(currentConfig', probe')
      BY <3>1, <3>2, <3>3 DEF EnabledBy, AllOff
    <3>5. Readable(probe')
      BY <3>1, <3>2 DEF Readable, On
    <3>6. QED
      BY <2>1, <3>1, <3>2, <3>4, <3>5 DEF Follows
  <2>4. QED
    BY <2>2, <2>3
<1>2. ASSUME NEW p \in Probes, M!Read(p) \/ M!Handle(p) \/ M!EndGoroutine(p)
      PROVE  Follows'
  <2>1. UNCHANGED <<state, stopAt, currentConfig, loop, calls, failed, stale>>
    BY <1>2 DEF M!Read, M!Handle, M!EndGoroutine, M!Goroutine
  <2>2. ~crashed /\ Readable(probe)
    BY <2>1 DEF Follows
  <2>3. \A q \in Probes : /\ On(probe'[q]) <=> On(probe[q])
                          /\ Off(probe'[q]) <=> Off(probe[q])
                          /\ probe'[q].reader = probe[q].reader
                          /\ Alive(probe'[q]) => Alive(probe[q])
                          /\ On(probe[q]) /\ Alive(probe[q]) => Alive(probe'[q])
    BY <1>2, TurnIs
  <2>4. crashed' => crashed \/ (Alive(probe[p]) /\ probe[p].reader = "nil")
    BY <1>2, TurnIs
  <2>5. ~crashed' /\ Readable(probe')
    BY <2>2, <2>3, <2>4 DEF Readable
  <2>6. ASSUME NEW c \in SUBSET Probes, EnabledBy(c, probe)
        PROVE  EnabledBy(c, probe') /\ (Served(c, probe) => Served(c, probe'))
    BY <2>3, <2>6 DEF EnabledBy, Served
  <2>7. state = "loaded" /\ M!ProbeMuFree => EnabledBy(currentConfig, probe')
    BY <2>1, <2>6 DEF Follows
  <2>8. state = "running" /\ M!ProbeMuFree /\ OnlyLast(loop, calls["run"])
              => /\ EnabledBy(Conf(loop, calls["run"], currentConfig), probe')
                 /\ Served(Conf(loop, calls["run"], currentConfig), probe')
    <3>1. state = "running" => Conf(loop, calls["run"], currentConfig) \in SUBSET Probes
      BY RunIs DEF Conf
    <3>2. QED
      BY <2>1, <2>6, <3>1 DEF Follows
  <2>9. QED
    BY <2>1, <2>5, <2>7, <2>8 DEF Follows, M!ProbeMuFree
<1>3. ASSUME NEW i \in M!Runs, M!Receive(i) \/ M!LeaveLoop(i)
      PROVE  Follows'
  <2>1. /\ UNCHANGED <<probe, state, stopAt, currentConfig, crashed, failed, stale>>
        /\ calls'["run"] = calls["run"] /\ loop[i].at = "watch"
    BY <1>3, CountIs, ManagerAssumption DEF M!Receive, M!LeaveLoop, Kinds
  <2>2. PICK e : e.at # "set" /\ loop' = [loop EXCEPT ![i] = e]
    <3>1. CASE M!Receive(i)
      BY <3>1 DEF M!Receive
    <3>2. CASE M!LeaveLoop(i)
      <4>1. [loop[i] EXCEPT !.at = "off"].at = "off"
        OBVIOUS
      <4>2. loop' = [loop EXCEPT ![i] = [loop[i] EXCEPT !.at = "off"]]
        BY <3>2 DEF M!LeaveLoop
      <4>3. QED
        BY <4>1, <4>2
    <3>3. QED
      BY <1>3, <3>1, <3>2
  <2>3. ASSUME state = "running", OnlyLast(loop', calls["run"])
        PROVE  /\ OnlyLast(loop, calls["run"])
               /\ Conf(loop', calls["run"], currentConfig) = Conf(loop, calls["run"], currentConfig)
    <3>1. calls["run"] \in M!Runs
      BY <2>3, RunIs
    <3>2. \A j \in M!Runs : j # i => loop'[j] = loop[j]
      BY <2>2
    <3>3. loop[i].at # "set" /\ loop'[i].at # "set"
      BY <2>1, <2>2
    <3>4. QED
      BY <2>3, <3>1, <3>2, <3>3 DEF OnlyLast, Conf
  <2>4. QED
    BY <2>1, <2>3 DEF Follows, M!ProbeMuFree
<1>4. ASSUME NEW i \in M!Runs, M!ApplyConfig(i)
      PROVE  Follows'
  <2>1. /\ UNCHANGED <<state, stopAt, currentConfig, crashed, stale, calls>>
        /\ M!ProbeMuFree /\ loop[i].at = "apply"
        /\ loop' = [loop EXCEPT ![i] = [loop[i] EXCEPT !.at = "set"]]
    BY <1>4 DEF M!ApplyConfig
  <2>2. CASE state # "running"
    BY <1>4, <2>1, <2>2 DEF M!ApplyConfig, Follows, M!ProbeMuFree
  <2>3. CASE state = "running"
    <3>1. M!ChangeProbes(loop[i].c) /\ loop[i].c \in SUBSET Probes
      BY <1>4, <2>3 DEF M!ApplyConfig
    <3>2. ~failed /\ \A p \in Probes :
              /\ p \in loop[i].c \ currentConfig => On(probe'[p]) /\ Alive(probe'[p])
              /\ p \in currentConfig \ loop[i].c =>
                    /\ Off(probe'[p])
                    /\ probe'[p].reader = "nil" => probe[p].reader = "nil"
                    /\ Alive(probe'[p]) => Alive(probe[p])
              /\ (p \in loop[i].c <=> p \in currentConfig) => probe'[p] = probe[p]
      BY <3>1, ChangeIs
    <3>3. ~crashed /\ Readable(probe)
      BY <2>1, <3>2 DEF Follows
    <3>4. Readable(probe')
      BY <3>2, <3>3 DEF Readable, On
    <3>5. ASSUME OnlyLast(loop', calls["run"])
          PROVE  /\ EnabledBy(Conf(loop', calls["run"], currentConfig), probe')
                 /\ Served(Conf(loop', calls["run"], currentConfig), probe')
      <4>1. loop'[i].at = "set" /\ loop'[i].c = loop[i].c
        BY <2>1
      <4>2. i = calls["run"]
        BY <3>5, <4>1 DEF OnlyLast
      <4>3. Conf(loop', calls["run"], currentConfig) = loop[i].c
        BY <4>1, <4>2 DEF Conf
      <4>4. OnlyLast(loop, calls["run"]) /\ Conf(loop, calls["run"], currentConfig) = currentConfig
        BY <2>1, <3>5, <4>2 DEF OnlyLast, Conf
      <4>5. EnabledBy(currentConfig, probe) /\ Served(currentConfig, probe)
        BY <2>1, <2>3, <3>2, <4>4 DEF Follows
      <4>6. EnabledBy(loop[i].c, probe') /\ Served(loop[i].c, probe')
        BY <3>1, <3>2, <4>5 DEF EnabledBy, Served
      <4>7. QED
        BY <4>3, <4>6
    <3>6. QED
      BY <2>1, <2>3, <3>3, <3>4, <3>5 DEF Follows
  <2>4. QED
    BY <2>2, <2>3
<1>5. ASSUME NEW i \in M!Runs, M!SetConfig(i)
      PROVE  Follows'
  <2>1. /\ UNCHANGED <<probe, state, stopAt, crashed, failed, calls>>
        /\ loop[i].at = "set" /\ currentConfig' = loop[i].c
        /\ loop' = [loop EXCEPT ![i] = [loop[i] EXCEPT !.at = "watch"]]
        /\ ~stale /\ state # "loaded" /\ (state = "running" => i = calls["run"])
    BY <1>5 DEF M!SetConfig
  <2>2. ASSUME state = "running", OnlyLast(loop', calls["run"])
        PROVE  /\ OnlyLast(loop, calls["run"])
               /\ Conf(loop', calls["run"], currentConfig') = Conf(loop, calls["run"], currentConfig)
    <3>1. i = calls["run"] /\ loop'[i].at = "watch"
      BY <2>1, <2>2
    <3>2. \A j \in M!Runs \ {i} : loop'[j] = loop[j]
      BY <2>1
    <3>3. QED
      BY <2>1, <2>2, <3>1, <3>2 DEF OnlyLast, Conf
  <2>3. QED
    BY <2>1, <2>2 DEF Follows, M!ProbeMuFree
<1>6. ASSUME NEW u \in {"run", "close"}, M!StopBegin(u)
      PROVE  Follows'
  <2>1. M!ProbeMuFree' => M!ProbeMuFree
    BY <1>6 DEF M!StopBegin, M!ProbeMuFree
  <2>2. QED
    BY <1>0, <1>6, <2>1 DEF M!StopBegin
<1>7. ASSUME NEW u \in {"run", "close"}, M!StopCleanup(u)
      PROVE  Follows'
  <2>1. UNCHANGED <<state, crashed, failed, stale>> /\ probe' = [p \in Probes |-> M!Closed(probe[p])]
    BY <1>7 DEF M!StopCleanup, M!AllClosed
  <2>2. ~M!ProbeMuFree'
    BY <1>7 DEF M!StopCleanup, M!ProbeMuFree
  <2>3. ~crashed /\ Readable(probe)
    BY <2>1 DEF Follows
  <2>4. Readable(probe')
    BY <2>1, <2>3, ClosedIs DEF Readable
  <2>5. QED
    BY <2>1, <2>2, <2>3, <2>4 DEF Follows
<1>8. ASSUME NEW u \in {"run", "close"}, M!StopEnd(u)
      PROVE  Follows'
  BY <1>8 DEF M!StopEnd, Follows
<1>9. CASE M!RunBegin
  <2>1. state # "running"
    BY <1>9 DEF M!RunBegin, Callers
  <2>2. QED
    BY <1>0, <1>9, <2>1 DEF M!RunBegin, M!ProbeMuFree
<1>10. CASE M!RunRefused
  <2>1. calls'["run"] = calls["run"]
    BY <1>10, CountIs DEF M!RunRefused, Kinds
  <2>2. QED
    BY <1>0, <1>10, <2>1 DEF M!RunRefused, M!ProbeMuFree
<1>11. CASE M!RunProbes
  <2>1. UNCHANGED <<currentConfig, stopAt, crashed, calls, failed, stale>> /\ M!ProbeMuFree
    BY <1>11 DEF M!RunProbes, M!StateMuFree, M!ProbeMuFree
  <2>2. CASE state = "loaded"
    <3>1. /\ probe' = [p \in Probes |-> IF p \in currentConfig THEN M!Started(probe[p]) ELSE probe[p]]
          /\ state' = "running" /\ loop' = [loop EXCEPT ![calls["run"]].at = "watch"]
      BY <1>11, <2>2 DEF M!RunProbes
    <3>2. ~crashed /\ Readable(probe) /\ EnabledBy(currentConfig, probe)
      BY <2>1, <2>2 DEF Follows
    <3>3. EnabledBy(currentConfig, probe') /\ Served(currentConfig, probe')
      BY <3>1, <3>2, StartedIs DEF EnabledBy, Served
    <3>4. Readable(probe')
      BY <3>1, <3>2, StartedIs DEF Readable, EnabledBy, On
    <3>5. calls["run"] \in M!Runs
      BY <1>11, RunIs DEF M!RunProbes
    <3>6. Conf(loop', calls["run"], currentConfig) = currentConfig
      BY <3>1, <3>5 DEF Conf
    <3>7. QED
      BY <2>1, <3>1, <3>2, <3>3, <3>4, <3>6 DEF Follows
  <2>3. CASE state # "loaded"
    BY <1>0, <1>11, <2>1, <2>3 DEF M!RunProbes
  <2>4. QED
    BY <2>2, <2>3
<1>12. CASE M!RunCancelled
  <2>1. stopAt["run"] = "no"
    BY <1>12 DEF M!RunCancelled, Callers
  <2>2. M!ProbeMuFree' => M!ProbeMuFree
    BY <1>12, <2>1 DEF M!RunCancelled, M!ProbeMuFree
  <2>3. QED
    BY <1>0, <1>12, <2>2 DEF M!RunCancelled
<1>13. CASE M!RunEnd
  <2>1. stopAt["run"] \in {"no", "done"}
    BY <1>13 DEF M!RunEnd, Callers
  <2>2. M!ProbeMuFree' => M!ProbeMuFree
    BY <1>13, <2>1 DEF M!RunEnd, M!ProbeMuFree
  <2>3. QED
    BY <1>0, <1>13, <2>2 DEF M!RunEnd
<1>14. CASE M!Cancel \/ M!CloseEnd
  BY <1>0, <1>14 DEF M!Cancel, M!CloseEnd, M!ProbeMuFree
<1>15. CASE M!CloseBegin
  <2>1. stopAt["close"] = "no" /\ calls'["run"] = calls["run"]
    BY <1>15, CountIs, ManagerAssumption DEF M!CloseBegin, Callers, Kinds
  <2>2. M!ProbeMuFree' => M!ProbeMuFree
    BY <1>15, <2>1 DEF M!CloseBegin, M!ProbeMuFree
  <2>3. QED
    BY <1>0, <1>15, <2>1, <2>2 DEF M!CloseBegin
<1>16. CASE M!CloseStopped
  <2>1. M!ProbeMuFree' => M!ProbeMuFree
    BY <1>16 DEF M!CloseStopped, M!ProbeMuFree
  <2>2. QED
    BY <1>0, <1>16, <2>1 DEF M!CloseStopped
<1>17. QED
  BY <1>1, <1>2, <1>3, <1>4, <1>5, <1>6, <1>7, <1>8, <1>9, <1>10, <1>11, <1>12, <1>13, <1>14, <1>15,
     <1>16 DEF M!Next, M!Stop

-----------------------------------------------------------------------------
MInv == MTyped /\ Callers /\ Quiet /\ Follows

LEMMA ManagerInit ==
    ASSUME M!Init
    PROVE  MInv
<1> USE ManagerAssumption DEF M!Init
<1>1. MTyped
  BY DEF MTyped, M!ManagerTypeOK, Bases, Kinds, M!Runs
<1>2. Callers
  BY DEF Callers
<1>3. \A p \in Probes : Off(probe[p]) /\ ~Alive(probe[p]) /\ Left(probe[p]) = 0
  BY DEF Off, Alive, Left
<1>4. Quiet
  BY <1>3 DEF Quiet, AllOff
<1>5. Follows
  BY <1>3 DEF Follows, Readable
<1>6. QED
  BY <1>1, <1>2, <1>4, <1>5 DEF MInv

\* A step that leaves the manager alone.
LEMMA ManagerStutters ==
    ASSUME MInv, UNCHANGED M!managerVars
    PROVE  MInv'
<1>1. UNCHANGED <<probe, state, currentConfig, shut, loop, cancelled, stopAt, stopSet, stopped, runAt,
                  closeAt, handlerClosed, crashed, calls, failed, stale>>
  BY DEF M!managerVars, M!instrumentation
<1>2. MTyped'
  BY <1>1 DEF MInv, MTyped, M!ManagerTypeOK
<1>3. Callers'
  BY <1>1 DEF MInv, Callers
<1>4. Quiet'
  BY <1>1 DEF MInv, Quiet, AllOff
<1>5. Follows'
  BY <1>1 DEF MInv, Follows, M!ProbeMuFree
<1>6. QED
  BY <1>2, <1>3, <1>4, <1>5 DEF MInv

LEMMA ManagerIs ==
    ASSUME MInv
    PROVE  ManagerSound
<1> USE DEF MInv, MTyped, M!ManagerTypeOK
<1>1. ASSUME NEW p \in Probes
      PROVE  /\ M!Running(p) = Left(probe[p])
             /\ Alive(probe[p]) => M!Running(p) > probe[p].ending
    BY DEF Bases, M!Running, Left, Alive
<1>2. M!StoppedIsQuiet
  BY <1>1 DEF M!StoppedIsQuiet, Quiet, AllOff, Off
<1>3. M!EnabledRuns
  <2> SUFFICES ASSUME state = "running", M!ProbeMuFree, ~failed, ~stale,
                      \A i \in M!Runs : loop[i].at # "set",
                      NEW p \in Probes
               PROVE  IF p \in currentConfig
                      THEN probe[p].attached /\ probe[p].reader = "open" /\ M!Running(p) > probe[p].ending
                      ELSE ~probe[p].attached /\ probe[p].reader # "open"
    BY DEF M!EnabledRuns
  <2>1. OnlyLast(loop, calls["run"]) /\ Conf(loop, calls["run"], currentConfig) = currentConfig
    BY RunIs DEF OnlyLast, Conf
  <2>2. EnabledBy(currentConfig, probe) /\ Served(currentConfig, probe)
    BY <2>1 DEF Follows
  <2>3. QED
    BY <1>1, <2>2 DEF EnabledBy, Served, On, Off
<1>4. M!HandlerOutlivesProbes
  <2> SUFFICES ASSUME handlerClosed, NEW p \in Probes, M!Running(p) > 0
               PROVE  calls["run"] > 1 \/ calls["refused"] > 0
    BY DEF M!HandlerOutlivesProbes
  <2>1. state = "running"
    BY <1>1 DEF Quiet
  <2>2. QED
    BY <2>1 DEF Callers
<1>5. M!CrashNeedsCause
  BY DEF M!CrashNeedsCause, Follows
<1>6. QED
  BY <1>2, <1>3, <1>4, <1>5 DEF ManagerSound, M!ManagerSound

(***************************************************************************)
(* The manager's probes are attached, read and closed as its state and its *)
(* configuration say, whatever the order of the calls (manager.go, lines   *)
(* 190-360; instrumentation.go, lines 93-148).                             *)
(***************************************************************************)
THEOREM ProbesFollow == M!Spec => []ManagerSound
<1>1. M!Init => MInv
  BY ManagerInit
<1>2. MInv /\ [M!Next]_(M!managerVars) => MInv'
  <2>1. ASSUME MInv, M!Next
        PROVE  MInv'
    BY <2>1, MTypesNext, CallersNext, QuietNext, FollowsNext DEF MInv
  <2>2. QED
    BY <2>1, ManagerStutters
<1>3. MInv => ManagerSound
  BY ManagerIs
<1>4. QED
  BY <1>1, <1>2, <1>3, PTL DEF M!Spec
=============================================================================
