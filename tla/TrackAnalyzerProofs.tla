------------------------- MODULE TrackAnalyzerProofs -------------------------
(***************************************************************************)
(* Proofs about TrackAnalyzer, for any sets of drivers and saves, any      *)
(* window and any number of retries, with and without faults; about        *)
(* TrackKinematics, for tracks of any length, places and times: what the   *)
(* analysis of a track can be relied upon for; and about FeatureFlags, for *)
(* any number of calls and any flags: how long the calls are delayed.      *)
(***************************************************************************)
EXTENDS MCTrackAnalyzer, Sequences, FiniteSetTheorems, TLAPS

\* A save that runs has not ended.
LEMMA RunningIsNotEnded ==
    Running \cap (Ended \cup {"idle"}) = {}
BY DEF Running, Commands, Ended

\* A save that has begun has a driver.
HasDriver == \A s \in Saves : pc[s] # "idle" => driver[s] \in Drivers

Typed == TypeOK /\ HasDriver

\* Typing, and every save past its first step belongs to a driver.
THEOREM TypeCorrect == Spec => []Typed
<1> USE DEF Typed, TypeOK, HasDriver, Running, Commands, Ended
<1>1. Init => Typed
  BY TrackAssumption DEF Init
<1>2. Typed /\ [Next]_vars => Typed'
  <2> SUFFICES ASSUME Typed, [Next]_vars PROVE Typed'
    OBVIOUS
  <2>1. ASSUME NEW s \in Saves, Step(s) PROVE Typed'
    <3>1. CASE Push(s)
      <4>1. driver[s] \in Drivers
        BY <3>1 DEF Push, Execute, LoseReply, Goto
      <4>2. Append(track[driver[s]], s) \in Seq(Saves)
        BY <4>1
      <4>3. tries' \in [Saves -> 0..MaxRetries]
        <5>1. CASE tries' = [tries EXCEPT ![s] = 0]
          BY <5>1, TrackAssumption
        <5>2. CASE tries[s] < MaxRetries /\ tries' = [tries EXCEPT ![s] = @ + 1]
          <6>1. tries[s] + 1 \in 0..MaxRetries
            BY <5>2, TrackAssumption
          <6>2. QED BY <5>2, <6>1
        <5>3. CASE UNCHANGED tries
          BY <5>3
        <5>4. QED
          BY <3>1, <5>1, <5>2, <5>3 DEF Push, Execute, LoseReply
      <4>4. pc' \in [Saves -> {"idle"} \cup Running \cup Ended]
            /\ \A q \in Saves : pc'[q] # "idle" => pc[q] # "idle"
        BY <3>1 DEF Push, Execute, LoseReply, Goto
      <4>5. track' \in [Drivers -> Seq(Saves)]
        BY <3>1, <4>1, <4>2 DEF Push, Execute, LoseReply
      <4>6. UNCHANGED <<driver, seen, analysis, met>>
        BY <3>1 DEF Push
      <4>7. processed' \in [Drivers -> Nat]
        <5>1. processed' \in {processed, [processed EXCEPT ![driver[s]] = @ + 1]}
          BY <3>1 DEF Push, Inc
        <5>2. processed[driver[s]] + 1 \in Nat
          BY <4>1
        <5>3. QED BY <5>1, <5>2
      <4>8. QED
        BY <4>3, <4>4, <4>5, <4>6, <4>7
    <3>2. CASE Read(s)
      <4>1. driver[s] \in Drivers
        BY <3>2 DEF Read, Execute, Goto
      <4>2. Len(track[driver[s]]) \in Nat
        BY <4>1
      <4>3. QED
        BY <3>2, <4>2, TrackAssumption DEF Read, Execute, Goto
    <3>3. CASE Write(s)
      <4>1. [by |-> s, upto |-> seen[s]] \in [by : Saves, upto : Nat]
        OBVIOUS
      <4>3. tries' \in [Saves -> 0..MaxRetries]
        <5>1. CASE tries' = [tries EXCEPT ![s] = 0]
          BY <5>1, TrackAssumption
        <5>2. CASE tries[s] < MaxRetries /\ tries' = [tries EXCEPT ![s] = @ + 1]
          <6>1. tries[s] + 1 \in 0..MaxRetries
            BY <5>2, TrackAssumption
          <6>2. QED BY <5>2, <6>1
        <5>3. CASE UNCHANGED tries
          BY <5>3
        <5>4. QED
          BY <3>3, <5>1, <5>2, <5>3 DEF Write, Execute, LoseReply
      <4>4. pc' \in [Saves -> {"idle"} \cup Running \cup Ended]
            /\ \A q \in Saves : pc'[q] # "idle" => pc[q] # "idle"
        BY <3>3 DEF Write, Execute, LoseReply, Goto
      <4>5. analysis' \in [Drivers -> [by : Saves, upto : Nat] \cup {None}]
        BY <3>3, <4>1 DEF Write, Execute, LoseReply
      <4>6. UNCHANGED <<driver, seen, track, met>>
        BY <3>3 DEF Write
      <4>7. processed' \in [Drivers -> Nat]
        <5>1. driver[s] \in Drivers
          BY <3>3 DEF Write, Execute, LoseReply, Goto
        <5>2. processed' \in {processed, [processed EXCEPT ![driver[s]] = @ + 1]}
          BY <3>3 DEF Write, Inc
        <5>3. processed[driver[s]] + 1 \in Nat
          BY <5>1
        <5>4. QED BY <5>2, <5>3
      <4>8. QED
        BY <4>3, <4>4, <4>5, <4>6, <4>7
    <3>4. CASE Reply(s) BY <3>4 DEF Reply, Goto
    <3>5. CASE Fail(s) BY <3>5, TrackAssumption DEF Fail
    <3>6. QED
      BY <2>1, <3>1, <3>2, <3>3, <3>4, <3>5 DEF Step
  <2>2. ASSUME NEW s \in Saves, NEW d \in Drivers, Begin(s, d) PROVE Typed'
    <3>1. InFlight(d) \subseteq Saves
      BY DEF InFlight
    <3>2. QED
      BY <2>2, <3>1 DEF Begin, Goto
  <2>3. ASSUME Crash \/ \E d \in Drivers : Expire(d) PROVE Typed'
    <3>1. CASE Crash
      BY <3>1, TrackAssumption DEF Crash
    <3>2. ASSUME NEW d \in Drivers, Expire(d) PROVE Typed'
      BY <3>2 DEF Expire
    <3>3. QED BY <2>3, <3>1, <3>2
  <2>4. CASE Terminated \/ UNCHANGED vars
    BY <2>4 DEF Terminated, vars
  <2>5. QED BY <2>1, <2>2, <2>3, <2>4 DEF Next
<1>3. QED
  BY <1>1, <1>2, PTL DEF Spec

\* Each variable keeps its type, however saves, clears and faults interleave
\* (the code of SavePoint, GetRecentPoints and AddPoint).
THEOREM TypesKept == Spec => []TypeOK
BY TypeCorrect, PTL DEF Typed

-----------------------------------------------------------------------------
(***************************************************************************)
(* The inductive invariant behind the properties of the stored analysis.   *)
(***************************************************************************)
Length(s) == Len(track[driver[s]])

\* Two saves of one driver that run at the same time have met.
RunningHaveMet ==
    \A p, q \in Saves :
        /\ p # q /\ driver[p] = driver[q]
        /\ pc[p] \in Running /\ pc[q] \in Running
        => <<p, q>> \in met

\* A save past LPUSH has its point in the list.
PushedIsStored ==
    \A s \in Saves : pc[s] \in {"LRange", "Set"} \cup Saved =>
                         Stored(s, driver[s], Length(s))

\* What a save is about to write is a real prefix with its own point in it.
SeenIsPrefix ==
    \A s \in Saves : pc[s] = "Set" =>
        seen[s] <= Length(s) /\ Stored(s, driver[s], seen[s])

AnalysisIsPrefix ==
    \A d \in Drivers : analysis[d] # None => analysis[d].upto <= Len(track[d])

\* What it has not seen belongs to saves it has met, and so does an analysis
\* made from a longer list.
SeenMissesOnlyMet ==
    \A s, p \in Saves :
        pc[s] = "Set" /\ pc[p] \in Saved /\ driver[p] = driver[s] =>
            Stored(p, driver[s], seen[s]) \/ <<p, s>> \in met

SeenOlderOnlyIfMet ==
    \A s \in Saves :
        /\ pc[s] = "Set"
        /\ analysis[driver[s]] # None
        /\ seen[s] < analysis[driver[s]].upto
        => <<s, analysis[driver[s]].by>> \in met

IInv ==
    /\ RunningHaveMet
    /\ PushedIsStored
    /\ SeenIsPrefix
    /\ AnalysisIsPrefix
    /\ SeenMissesOnlyMet
    /\ SeenOlderOnlyIfMet
    /\ MissedOnlyByOverlap

\* Appending a point loses none of the earlier ones.
LEMMA AppendKeeps ==
    ASSUME NEW S, NEW q \in Seq(S), NEW x \in S
    PROVE  /\ Append(q, x) \in Seq(S)
           /\ Len(Append(q, x)) = Len(q) + 1
           /\ \A i \in 1..Len(q) : Append(q, x)[i] = q[i]
           /\ Append(q, x)[Len(q) + 1] = x
OBVIOUS

(***************************************************************************)
(* Steps that write neither the list nor the analysis, except to let it    *)
(* expire, and move no save to Set or past it.                             *)
(***************************************************************************)
LEMMA QuietSteps ==
    ASSUME Typed, IInv, UNCHANGED <<driver, seen, track, met>>,
           \A d \in Drivers : analysis'[d] \in {analysis[d], None},
           \A p \in Saves :
               /\ pc'[p] \in Running => pc[p] \in Running
               /\ pc'[p] \in {"LRange", "Set"} \cup Saved =>
                      pc[p] \in {"LRange", "Set"} \cup Saved
               /\ pc'[p] = "Set" => pc[p] = "Set"
               /\ pc'[p] \in Saved => pc[p] \in Saved
    PROVE  IInv'
<1> USE DEF IInv, Typed, HasDriver
<1>1. RunningHaveMet'
  BY DEF RunningHaveMet
<1>2. PushedIsStored'
  BY DEF PushedIsStored, Stored, Length
<1>3. SeenIsPrefix'
  BY DEF SeenIsPrefix, Stored, Length
<1>4. AnalysisIsPrefix'
  BY DEF AnalysisIsPrefix
<1>5. SeenMissesOnlyMet'
  BY DEF SeenMissesOnlyMet, Stored
<1>6. SeenOlderOnlyIfMet'
  BY DEF SeenOlderOnlyIfMet
<1>7. MissedOnlyByOverlap'
  BY DEF MissedOnlyByOverlap, Stored, Saved
<1>8. QED
  BY <1>1, <1>2, <1>3, <1>4, <1>5, <1>6, <1>7

\* Begin keeps the invariant.
LEMMA BeginKeeps ==
    ASSUME Typed, IInv, NEW s \in Saves, NEW d \in Drivers, Begin(s, d)
    PROVE  IInv'
<1> USE DEF IInv, Typed, HasDriver, TypeOK
<1>1. /\ pc[s] = "idle" /\ pc' = [pc EXCEPT ![s] = "LPush"]
      /\ driver' = [driver EXCEPT ![s] = d]
      /\ met' = met \cup ({s} \X InFlight(d)) \cup (InFlight(d) \X {s})
      /\ UNCHANGED <<seen, track, analysis>>
  BY DEF Begin, Goto
<1>2. \A p \in Saves \ {s} : pc'[p] = pc[p] /\ driver'[p] = driver[p]
  BY <1>1
<1>3. RunningHaveMet'
  <2> SUFFICES ASSUME NEW p \in Saves, NEW q \in Saves, p # q,
                      driver'[p] = driver'[q],
                      pc'[p] \in Running, pc'[q] \in Running
               PROVE  <<p, q>> \in met'
    BY DEF RunningHaveMet
  <2>1. CASE p = s
    <3>1. q \in InFlight(d)
      BY <1>1, <1>2, <2>1 DEF InFlight
    <3>2. QED BY <1>1, <2>1, <3>1
  <2>2. CASE q = s
    <3>1. p \in InFlight(d)
      BY <1>1, <1>2, <2>2 DEF InFlight
    <3>2. QED BY <1>1, <2>2, <3>1
  <2>3. CASE p # s /\ q # s
    BY <1>1, <1>2, <2>3 DEF RunningHaveMet
  <2>4. QED BY <2>1, <2>2, <2>3
<1>4. pc'[s] = "LPush" /\ met \subseteq met'
  BY <1>1
<1>5. PushedIsStored'
  BY <1>1, <1>2, <1>4 DEF PushedIsStored, Stored, Length, Saved
<1>6. SeenIsPrefix'
  BY <1>1, <1>2, <1>4 DEF SeenIsPrefix, Stored, Length
<1>7. AnalysisIsPrefix'
  BY <1>1 DEF AnalysisIsPrefix
<1>8. SeenMissesOnlyMet'
  BY <1>1, <1>2, <1>4 DEF SeenMissesOnlyMet, Stored, Saved
<1>9. SeenOlderOnlyIfMet'
  BY <1>1, <1>2, <1>4 DEF SeenOlderOnlyIfMet
<1>10. MissedOnlyByOverlap'
  BY <1>1, <1>2, <1>4 DEF MissedOnlyByOverlap, Stored, Saved
<1>11. QED
  BY <1>3, <1>5, <1>6, <1>7, <1>8, <1>9, <1>10

\* Push keeps the invariant.
LEMMA PushKeeps ==
    ASSUME Typed, IInv, NEW s \in Saves, Push(s)
    PROVE  IInv'
<1> USE DEF IInv, Typed, HasDriver, TypeOK
<1> DEFINE d == driver[s]
<1>1. /\ pc[s] = "LPush" /\ d \in Drivers
      /\ pc' = [pc EXCEPT ![s] = pc'[s]]
      /\ pc'[s] \in {"LPush", "LRange", "failed"}
      /\ track' = [track EXCEPT ![d] = Append(@, s)]
      /\ UNCHANGED <<driver, seen, analysis, met>>
  BY DEF Push, Execute, LoseReply, Goto
<1>2. \A p \in Saves \ {s} : pc'[p] = pc[p]
  BY <1>1
<1>3. \A c \in Drivers :
          /\ Len(track[c]) \in Nat /\ Len(track'[c]) \in Nat
          /\ Len(track'[c]) >= Len(track[c])
          /\ \A i \in 1..Len(track[c]) : track'[c][i] = track[c][i]
  <2> TAKE c \in Drivers
  <2>1. CASE c = d
    BY <1>1, <2>1, AppendKeeps
  <2>2. CASE c # d
    BY <1>1, <2>2
  <2>3. QED BY <2>1, <2>2
<1>4. \A p \in Saves, c \in Drivers, n \in Nat :
          n <= Len(track[c]) /\ Stored(p, c, n) => Stored(p, c, n)'
  <2> SUFFICES ASSUME NEW p \in Saves, NEW c \in Drivers, NEW n \in Nat,
                      n <= Len(track[c]), Stored(p, c, n)
               PROVE  Stored(p, c, n)'
    OBVIOUS
  <2>1. PICK i \in 1..n : track[c][i] = p
    BY DEF Stored
  <2>2. i \in 1..Len(track[c])
    BY <1>3, <2>1
  <2>3. track'[c][i] = p
    BY <1>3, <2>1, <2>2
  <2>4. QED
    BY <2>1, <2>3 DEF Stored
<1>5. \A p \in Saves, c \in Drivers :
          Stored(p, c, Len(track[c])) => Stored(p, c, Len(track[c]))'
  <2> SUFFICES ASSUME NEW p \in Saves, NEW c \in Drivers,
                      Stored(p, c, Len(track[c]))
               PROVE  \E i \in 1..Len(track'[c]) : track'[c][i] = p
    BY DEF Stored
  <2>1. PICK i \in 1..Len(track[c]) : track[c][i] = p
    BY DEF Stored
  <2>2. i \in 1..Len(track'[c]) /\ track'[c][i] = p
    BY <1>3, <2>1
  <2>3. QED
    BY <2>2
<1>6. Stored(s, d, Len(track[d]))'
  <2>1. track'[d] = Append(track[d], s)
    BY <1>1
  <2>2. Len(track'[d]) = Len(track[d]) + 1 /\ track'[d][Len(track[d]) + 1] = s
    BY <1>1, <2>1, AppendKeeps
  <2>3. \E i \in 1..Len(track'[d]) : track'[d][i] = s
    <3>1. Len(track[d]) + 1 \in 1..Len(track'[d])
      BY <1>1, <1>3, <2>2
    <3>2. QED BY <2>2, <3>1
  <2>4. d' = d
    BY <1>1
  <2>5. QED
    BY <2>3, <2>4 DEF Stored
<1>7. RunningHaveMet'
  BY <1>1, <1>2 DEF RunningHaveMet, Running, Commands
<1>8. PushedIsStored'
  BY <1>1, <1>2, <1>5, <1>6 DEF PushedIsStored, Length, Saved
<1>9. SeenIsPrefix'
  BY <1>1, <1>2, <1>3, <1>4 DEF SeenIsPrefix, Length
<1>10. AnalysisIsPrefix'
  <2> SUFFICES ASSUME NEW c \in Drivers, analysis[c] # None
               PROVE  analysis[c].upto <= Len(track'[c])
    BY <1>1 DEF AnalysisIsPrefix
  <2>1. analysis[c].upto \in Nat /\ analysis[c].upto <= Len(track[c])
    BY DEF AnalysisIsPrefix
  <2>2. QED BY <1>3, <2>1
<1>11. SeenMissesOnlyMet'
  <2> SUFFICES ASSUME NEW q \in Saves, NEW p \in Saves,
                      pc'[q] = "Set", pc'[p] \in Saved, driver[p] = driver[q]
               PROVE  Stored(p, driver[q], seen[q])' \/ <<p, q>> \in met
    BY <1>1 DEF SeenMissesOnlyMet
  <2>1. pc[q] = "Set" /\ pc[p] \in Saved /\ driver[q] \in Drivers
    BY <1>1, <1>2 DEF Saved
  <2>2. seen[q] <= Len(track[driver[q]])
    BY <2>1 DEF SeenIsPrefix, Length
  <2>3. QED
    BY <1>1, <1>4, <2>1, <2>2 DEF SeenMissesOnlyMet
<1>12. SeenOlderOnlyIfMet'
  BY <1>1, <1>2 DEF SeenOlderOnlyIfMet
<1>13. MissedOnlyByOverlap'
  <2> SUFFICES ASSUME NEW p \in Saves, pc'[p] \in Saved, analysis[driver[p]] # None
               PROVE  \/ Stored(p, driver[p], analysis[driver[p]].upto)'
                      \/ <<p, analysis[driver[p]].by>> \in met
    BY <1>1 DEF MissedOnlyByOverlap
  <2>1. pc[p] \in Saved /\ driver[p] \in Drivers
    BY <1>1, <1>2 DEF Saved
  <2>2. /\ analysis[driver[p]].upto \in Nat
        /\ analysis[driver[p]].upto <= Len(track[driver[p]])
    BY <2>1 DEF AnalysisIsPrefix
  <2>3. QED
    BY <1>1, <1>4, <2>1, <2>2 DEF MissedOnlyByOverlap
<1>14. QED
  BY <1>7, <1>8, <1>9, <1>10, <1>11, <1>12, <1>13

\* Read keeps the invariant.
LEMMA ReadKeeps ==
    ASSUME Typed, IInv, NEW s \in Saves, Read(s)
    PROVE  IInv'
<1> USE DEF IInv, Typed, HasDriver, TypeOK
<1> DEFINE d == driver[s]
<1>1. /\ pc[s] = "LRange" /\ d \in Drivers
      /\ pc' = [pc EXCEPT ![s] = "Set"]
      /\ seen' = [seen EXCEPT ![s] = Len(track[d])]
      /\ UNCHANGED <<driver, track, analysis, met>>
  BY DEF Read, Execute, Goto
<1>2. \A p \in Saves \ {s} : pc'[p] = pc[p] /\ seen'[p] = seen[p]
  BY <1>1
<1>3. pc'[s] = "Set" /\ seen'[s] = Len(track[d]) /\ Len(track[d]) \in Nat
  BY <1>1
<1>4. RunningHaveMet'
  BY <1>1, <1>2 DEF RunningHaveMet, Running, Commands
<1>5. PushedIsStored'
  <2> SUFFICES ASSUME NEW q \in Saves, pc'[q] \in {"LRange", "Set"} \cup Saved
               PROVE  Stored(q, driver[q], Length(q))
    BY <1>1 DEF PushedIsStored, Stored, Length
  <2>1. pc[q] \in {"LRange", "Set"} \cup Saved
    BY <1>1, <1>2
  <2>2. QED BY <2>1 DEF PushedIsStored
<1>6. SeenIsPrefix'
  <2> SUFFICES ASSUME NEW q \in Saves, pc'[q] = "Set"
               PROVE  (seen[q] <= Length(q) /\ Stored(q, driver[q], seen[q]))'
    BY DEF SeenIsPrefix
  <2>1. CASE q = s
    <3>1. Stored(s, d, Len(track[d]))
      BY <1>1 DEF PushedIsStored, Length
    <3>2. QED BY <1>1, <1>3, <2>1, <3>1 DEF Stored, Length
  <2>2. CASE q # s
    BY <1>1, <1>2, <2>2 DEF SeenIsPrefix, Stored, Length
  <2>3. QED BY <2>1, <2>2
<1>7. AnalysisIsPrefix'
  BY <1>1 DEF AnalysisIsPrefix
<1>8. SeenMissesOnlyMet'
  <2> SUFFICES ASSUME NEW q \in Saves, NEW p \in Saves,
                      pc'[q] = "Set", pc'[p] \in Saved, driver[p] = driver[q]
               PROVE  Stored(p, driver[q], seen[q])' \/ <<p, q>> \in met
    BY <1>1 DEF SeenMissesOnlyMet
  <2>1. pc[p] \in Saved
    BY <1>1, <1>2 DEF Saved
  <2>2. CASE q = s
    <3>1. Stored(p, d, Len(track[d]))
      BY <2>1, <2>2 DEF PushedIsStored, Length
    <3>2. QED BY <1>1, <1>3, <2>2, <3>1 DEF Stored
  <2>3. CASE q # s
    BY <1>1, <1>2, <2>1, <2>3 DEF SeenMissesOnlyMet, Stored
  <2>4. QED BY <2>2, <2>3
<1>9. SeenOlderOnlyIfMet'
  <2> SUFFICES ASSUME NEW q \in Saves, pc'[q] = "Set",
                      analysis[driver[q]] # None,
                      seen'[q] < analysis[driver[q]].upto
               PROVE  <<q, analysis[driver[q]].by>> \in met
    BY <1>1 DEF SeenOlderOnlyIfMet
  <2>1. CASE q = s
    <3>1. /\ analysis[d].upto \in Nat
          /\ analysis[d].upto <= Len(track[d])
      BY <1>1, <2>1 DEF AnalysisIsPrefix
    <3>2. QED BY <1>3, <2>1, <3>1
  <2>2. CASE q # s
    BY <1>1, <1>2, <2>2 DEF SeenOlderOnlyIfMet
  <2>3. QED BY <2>1, <2>2
<1>10. MissedOnlyByOverlap'
  BY <1>1, <1>2 DEF MissedOnlyByOverlap, Stored, Saved
<1>11. QED
  BY <1>4, <1>5, <1>6, <1>7, <1>8, <1>9, <1>10

\* Write keeps the invariant.
LEMMA WriteKeeps ==
    ASSUME Typed, IInv, NEW s \in Saves, Write(s)
    PROVE  IInv'
<1> USE DEF IInv, Typed, HasDriver, TypeOK
<1> DEFINE d == driver[s]
<1>1. /\ pc[s] = "Set" /\ d \in Drivers
      /\ pc' = [pc EXCEPT ![s] = pc'[s]]
      /\ pc'[s] \in {"Set", "Reply", "failed"}
      /\ analysis' = [analysis EXCEPT ![d] = [by |-> s, upto |-> seen[s]]]
      /\ UNCHANGED <<driver, track, seen, met>>
  BY DEF Write, Execute, LoseReply, Goto
<1>2. \A p \in Saves \ {s} : pc'[p] = pc[p]
  BY <1>1
<1>3. /\ analysis'[d] # None
      /\ analysis'[d].by = s /\ analysis'[d].upto = seen[s]
      /\ \A c \in Drivers \ {d} : analysis'[c] = analysis[c]
  BY <1>1, TrackAssumption
<1>4. seen[s] \in Nat /\ seen[s] <= Len(track[d]) /\ Stored(s, d, seen[s])
  BY <1>1 DEF SeenIsPrefix, Length
<1>5. RunningHaveMet'
  BY <1>1, <1>2 DEF RunningHaveMet, Running, Commands
<1>6. PushedIsStored'
  BY <1>1, <1>2 DEF PushedIsStored, Stored, Length, Saved
<1>7. SeenIsPrefix'
  BY <1>1, <1>2 DEF SeenIsPrefix, Stored, Length
<1>8. AnalysisIsPrefix'
  BY <1>1, <1>3, <1>4 DEF AnalysisIsPrefix
<1>9. SeenMissesOnlyMet'
  <2> SUFFICES ASSUME NEW q \in Saves, NEW p \in Saves,
                      pc'[q] = "Set", pc'[p] \in Saved, driver[p] = driver[q]
               PROVE  Stored(p, driver[q], seen[q])' \/ <<p, q>> \in met
    BY <1>1 DEF SeenMissesOnlyMet
  <2>1. pc[q] = "Set"
    BY <1>1, <1>2
  <2>2. CASE p = s
    <3>1. q # s
      BY <2>2 DEF Saved
    <3>2. QED
      BY <1>1, <2>1, <2>2, <3>1 DEF RunningHaveMet, Running, Commands
  <2>3. CASE p # s
    BY <1>1, <1>2, <2>1, <2>3 DEF SeenMissesOnlyMet, Stored
  <2>4. QED BY <2>2, <2>3
<1>10. SeenOlderOnlyIfMet'
  <2> SUFFICES ASSUME NEW q \in Saves, pc'[q] = "Set",
                      analysis'[driver[q]] # None,
                      seen[q] < analysis'[driver[q]].upto
               PROVE  <<q, analysis'[driver[q]].by>> \in met
    BY <1>1 DEF SeenOlderOnlyIfMet
  <2>1. pc[q] = "Set" /\ driver[q] \in Drivers
    BY <1>1, <1>2
  <2>2. CASE driver[q] = d
    <3>1. q # s
      BY <1>3, <1>4, <2>2
    <3>2. QED
      BY <1>1, <1>3, <2>1, <2>2, <3>1 DEF RunningHaveMet, Running, Commands
  <2>3. CASE driver[q] # d
    BY <1>3, <2>1, <2>3 DEF SeenOlderOnlyIfMet
  <2>4. QED BY <2>2, <2>3
<1>11. MissedOnlyByOverlap'
  <2> SUFFICES ASSUME NEW p \in Saves, pc'[p] \in Saved, analysis'[driver'[p]] # None
               PROVE  \/ Stored(p, driver[p], analysis[driver[p]].upto)'
                      \/ <<p, analysis'[driver'[p]].by>> \in met'
    BY DEF MissedOnlyByOverlap
  <2>0. driver[p] \in Drivers
    BY <1>1, <1>2 DEF Saved
  <2>1. CASE driver[p] = d /\ p = s
    BY <1>1, <1>3, <1>4, <2>1 DEF Stored
  <2>2. CASE driver[p] = d /\ p # s
    <3>1. pc[p] \in Saved
      BY <1>1, <1>2, <2>2 DEF Saved
    <3>2. Stored(p, d, seen[s]) \/ <<p, s>> \in met
      BY <1>1, <2>2, <3>1 DEF SeenMissesOnlyMet
    <3>3. QED
      BY <1>1, <1>3, <2>2, <3>2 DEF Stored
  <2>3. CASE driver[p] # d
    BY <1>1, <1>2, <1>3, <2>0, <2>3 DEF MissedOnlyByOverlap, Stored
  <2>4. QED BY <2>1, <2>2, <2>3
<1>12. QED
  BY <1>5, <1>6, <1>7, <1>8, <1>9, <1>10, <1>11

\* IInv holds of every behaviour.
THEOREM InductiveInvariant == Spec => []IInv
<1>1. Init => IInv
  BY DEF Init, IInv, RunningHaveMet, PushedIsStored, SeenIsPrefix,
         AnalysisIsPrefix, SeenMissesOnlyMet, SeenOlderOnlyIfMet,
         MissedOnlyByOverlap, Running, Commands, Saved
<1>2. Typed /\ IInv /\ [Next]_vars => IInv'
  <2> SUFFICES ASSUME Typed, IInv, [Next]_vars PROVE IInv'
    OBVIOUS
  <2> USE DEF Running, Commands, Saved, Ended
  <2>1. ASSUME NEW s \in Saves, Reply(s) \/ Fail(s)
        PROVE  IInv'
    BY <2>1, QuietSteps DEF Reply, Fail, Goto, Typed, TypeOK
  <2>2. ASSUME NEW d \in Drivers, Expire(d) PROVE IInv'
    BY <2>2, QuietSteps DEF Expire, Typed, TypeOK
  <2>3. CASE Crash
    BY <2>3, QuietSteps DEF Crash
  <2>4. CASE UNCHANGED vars
    BY <2>4, QuietSteps DEF vars
  <2>5. QED
    BY <2>1, <2>2, <2>3, <2>4, BeginKeeps, PushKeeps, ReadKeeps, WriteKeeps
       DEF Next, Step, Terminated
<1>3. QED
  BY <1>1, <1>2, TypeCorrect, PTL DEF Spec

-----------------------------------------------------------------------------
(***************************************************************************)
(* Once a save has written its analysis, the analysis kept for its driver  *)
(* covers its point or was written by a save that overlapped with it.      *)
(***************************************************************************)
THEOREM MissedOverlap == Spec => []MissedOnlyByOverlap
<1>1. IInv => MissedOnlyByOverlap
  BY DEF IInv
<1>2. QED
  BY <1>1, InductiveInvariant, PTL

(***************************************************************************)
(* The analysis kept for a driver goes back in time only between two saves *)
(* that overlapped.                                                        *)
(***************************************************************************)
THEOREM RegressOverlap == Spec => RegressOnlyByOverlap
<1> DEFINE Regress ==
        \A d \in Drivers :
            /\ analysis[d] # None
            /\ analysis'[d] # None
            /\ analysis'[d].upto < analysis[d].upto
            => <<analysis'[d].by, analysis[d].by>> \in met
<1>1. Typed /\ IInv /\ [Next]_vars => [Regress]_vars
  <2> SUFFICES ASSUME Typed, IInv, [Next]_vars, NEW d \in Drivers,
                      analysis[d] # None, analysis'[d] # None,
                      analysis'[d].upto < analysis[d].upto
               PROVE  <<analysis'[d].by, analysis[d].by>> \in met
    OBVIOUS
  <2> USE DEF Typed, TypeOK
  <2>1. analysis[d].upto \in Nat
    OBVIOUS
  <2>2. analysis'[d] # analysis[d]
    BY <2>1
  <2>3. PICK s \in Saves : Write(s)
    BY <2>2 DEF Next, Step, Terminated, vars, Begin, Push, Read,
                Reply, Fail, Expire, Crash
  <2>4. /\ pc[s] = "Set" /\ driver[s] \in Drivers
        /\ analysis' = [analysis EXCEPT ![driver[s]] = [by |-> s, upto |-> seen[s]]]
    BY <2>3 DEF Write, Execute, LoseReply, Goto, HasDriver
  <2>5. driver[s] = d /\ analysis'[d].by = s /\ analysis'[d].upto = seen[s]
    BY <2>2, <2>4
  <2>6. QED
    BY <2>4, <2>5 DEF IInv, SeenOlderOnlyIfMet
<1>2. QED
  BY <1>1, InductiveInvariant, TypeCorrect, PTL DEF Spec, RegressOnlyByOverlap

-----------------------------------------------------------------------------
(***************************************************************************)
(* The invariant behind OwnPointLostOnlyToOverlap.  Only finitely many     *)
(* saves have begun, each has stored its point a bounded number of times,  *)
(* and what lies behind a point in the list before the save of that point  *)
(* has read it comes from saves it has met.                                *)
(***************************************************************************)
Begun == {s \in Saves : pc[s] # "idle"}

Occurrences(q, d) == {i \in 1..Len(track[d]) : track[d][i] = q}

\* How often a save may have executed LPUSH so far.
MostPushes(q) ==
    IF pc[q] = "idle" THEN 0
    ELSE IF pc[q] = "LPush" THEN tries[q] ELSE MaxRetries + 1

BegunFinite == IsFiniteSet(Begun)

MetHaveBegun == \A p, q \in Saves : <<p, q>> \in met => p \in Begun

ListedAreOwn ==
    \A d \in Drivers : \A i \in 1..Len(track[d]) :
        driver[track[d][i]] = d /\ track[d][i] \in Begun

PushesBounded ==
    \A d \in Drivers, q \in Saves :
        Cardinality(Occurrences(q, d)) <= MostPushes(q)

\* Position j of the list is, or may still be, among those that s reads.
MaySee(s, j) ==
    \/ pc[s] \in {"LPush", "LRange"}
    \/ pc[s] = "Set" /\ j <= seen[s]

LaterHaveMet ==
    \A d \in Drivers : \A j \in 1..Len(track[d]) : \A i \in 1..(j - 1) :
        track[d][i] # track[d][j] /\ MaySee(track[d][i], j)
            => <<track[d][j], track[d][i]>> \in met

AnalysedHaveMet ==
    \A d \in Drivers : analysis[d] # None =>
        \A j \in 1..analysis[d].upto : \A i \in 1..(j - 1) :
            track[d][i] = analysis[d].by /\ track[d][j] # analysis[d].by
                => <<track[d][j], analysis[d].by>> \in met

AnalysedIsStored ==
    \A d \in Drivers : analysis[d] # None =>
        Stored(analysis[d].by, d, analysis[d].upto)

WindowInv ==
    /\ BegunFinite
    /\ MetHaveBegun
    /\ ListedAreOwn
    /\ PushesBounded
    /\ LaterHaveMet
    /\ AnalysedHaveMet
    /\ AnalysedIsStored

\* A save is stored at finitely many positions of a list.
LEMMA OccurrencesFinite ==
    ASSUME TypeOK, NEW d \in Drivers, NEW q
    PROVE  /\ IsFiniteSet(Occurrences(q, d))
           /\ Cardinality(Occurrences(q, d)) \in Nat
<1>1. Len(track[d]) \in Int
  BY DEF TypeOK
<1>2. IsFiniteSet(1..Len(track[d]))
  BY <1>1, FS_Interval
<1>3. Occurrences(q, d) \in SUBSET (1..Len(track[d]))
  BY DEF Occurrences
<1>4. IsFiniteSet(Occurrences(q, d))
  BY <1>2, <1>3, FS_Subset
<1>5. QED
  BY <1>4, FS_CardinalityType

(***************************************************************************)
(* Steps that leave the list alone and show it to no save that may not see *)
(* it already: all but Begin and Push.                                     *)
(***************************************************************************)
LEMMA ListKept ==
    ASSUME Typed, WindowInv, UNCHANGED <<driver, track, met>>,
           \A p \in Saves :
               /\ pc'[p] = "idle" <=> pc[p] = "idle"
               /\ pc'[p] = "LPush" => pc[p] = "LPush" /\ tries'[p] = tries[p],
           \A p \in Saves, j \in Nat : MaySee(p, j)' => MaySee(p, j)
    PROVE  (BegunFinite /\ MetHaveBegun /\ ListedAreOwn /\ PushesBounded /\ LaterHaveMet)'
<1> USE DEF WindowInv, Typed, TypeOK
<1>1. Begun' = Begun
  BY DEF Begun
<1>2. BegunFinite' /\ MetHaveBegun' /\ ListedAreOwn'
  BY <1>1 DEF BegunFinite, MetHaveBegun, ListedAreOwn
<1>3. PushesBounded'
  <2> SUFFICES ASSUME NEW d \in Drivers, NEW q \in Saves
               PROVE  Cardinality(Occurrences(q, d)') <= MostPushes(q)'
    BY DEF PushesBounded
  <2>1. Occurrences(q, d)' = Occurrences(q, d)
    BY DEF Occurrences
  <2>2. Cardinality(Occurrences(q, d)) <= MostPushes(q)
    BY DEF PushesBounded
  <2>3. Cardinality(Occurrences(q, d)) \in Nat
    BY OccurrencesFinite
  <2>4. MostPushes(q) \in Nat /\ MostPushes(q)' \in Nat /\ MostPushes(q) <= MostPushes(q)'
    BY TrackAssumption DEF MostPushes
  <2>5. QED
    BY <2>1, <2>2, <2>3, <2>4
<1>4. LaterHaveMet'
  <2> SUFFICES ASSUME NEW d \in Drivers, NEW j \in 1..Len(track[d]), NEW i \in 1..(j - 1),
                      track[d][i] # track[d][j], MaySee(track[d][i], j)'
               PROVE  <<track[d][j], track[d][i]>> \in met
    BY DEF LaterHaveMet, MaySee
  <2>1. track[d][i] \in Saves /\ track'[d][i] = track[d][i] /\ j \in Nat
    OBVIOUS
  <2>2. MaySee(track[d][i], j)
    <3>1. \A p \in Saves : p = track'[d][i] => MaySee(p, j)
      BY <2>1 DEF MaySee
    <3>2. QED
      BY <2>1, <3>1
  <2>3. QED
    BY <2>2 DEF LaterHaveMet
<1>5. QED
  BY <1>2, <1>3, <1>4

\* Steps that in addition write no analysis, except to let it expire.
LEMMA WindowQuiet ==
    ASSUME Typed, WindowInv, UNCHANGED <<driver, seen, track, met>>,
           \A d \in Drivers : analysis'[d] \in {analysis[d], None},
           \A p \in Saves :
               /\ pc'[p] = "idle" <=> pc[p] = "idle"
               /\ pc'[p] = "LPush" => pc[p] = "LPush" /\ tries'[p] = tries[p]
               /\ pc'[p] \in {"LRange", "Set"} => pc'[p] = pc[p]
    PROVE  WindowInv'
<1>1. \A p \in Saves, j \in Nat : MaySee(p, j)' => MaySee(p, j)
  BY DEF MaySee
<1>2. AnalysedHaveMet' /\ AnalysedIsStored'
  BY DEF WindowInv, AnalysedHaveMet, AnalysedIsStored, Stored
<1>3. QED
  BY <1>1, <1>2, ListKept DEF WindowInv

\* Read: the save has now met every save it found in the list.
LEMMA WindowRead ==
    ASSUME Typed, WindowInv, NEW s \in Saves, Read(s)
    PROVE  WindowInv'
<1>1. /\ pc[s] = "LRange"
      /\ pc' = [pc EXCEPT ![s] = "Set"]
      /\ tries' = [tries EXCEPT ![s] = 0]
      /\ seen' = [seen EXCEPT ![s] = Len(track[driver[s]])]
      /\ UNCHANGED <<driver, track, analysis, met>>
  BY DEF Read, Execute, Goto
<1>2. \A p \in Saves :
          /\ pc'[p] = "idle" <=> pc[p] = "idle"
          /\ pc'[p] = "LPush" => pc[p] = "LPush" /\ tries'[p] = tries[p]
  BY <1>1 DEF Typed, TypeOK
<1>3. \A p \in Saves, j \in Nat : MaySee(p, j)' => MaySee(p, j)
  BY <1>1 DEF MaySee, Typed, TypeOK
<1>4. AnalysedHaveMet' /\ AnalysedIsStored'
  BY <1>1 DEF WindowInv, AnalysedHaveMet, AnalysedIsStored, Stored
<1>5. QED
  BY <1>1, <1>2, <1>3, <1>4, ListKept DEF WindowInv

\* Write: the analysis kept is the one its save made of the list it read.
LEMMA WindowWrite ==
    ASSUME Typed, IInv, WindowInv, NEW s \in Saves, Write(s)
    PROVE  WindowInv'
<1> DEFINE d == driver[s]
<1>1. /\ pc[s] = "Set" /\ d \in Drivers
      /\ pc' = [pc EXCEPT ![s] = pc'[s]]
      /\ pc'[s] \in {"Set", "Reply", "failed"}
      /\ analysis' = [analysis EXCEPT ![d] = [by |-> s, upto |-> seen[s]]]
      /\ UNCHANGED <<driver, track, seen, met>>
  BY DEF Write, Execute, LoseReply, Goto, Typed, TypeOK, HasDriver
<1>2. \A p \in Saves \ {s} : pc'[p] = pc[p] /\ tries'[p] = tries[p]
  BY <1>1 DEF Write, Execute, LoseReply, Typed, TypeOK
<1>3. \A p \in Saves :
          /\ pc'[p] = "idle" <=> pc[p] = "idle"
          /\ pc'[p] = "LPush" => pc[p] = "LPush" /\ tries'[p] = tries[p]
  BY <1>1, <1>2
<1>4. \A p \in Saves, j \in Nat : MaySee(p, j)' => MaySee(p, j)
  BY <1>1, <1>2 DEF MaySee
<1>5. /\ analysis'[d].by = s /\ analysis'[d].upto = seen[s]
      /\ \A c \in Drivers \ {d} : analysis'[c] = analysis[c]
  BY <1>1 DEF Typed, TypeOK
<1>6. /\ seen[s] \in Nat /\ Len(track[d]) \in Nat /\ seen[s] <= Len(track[d])
      /\ Stored(s, d, seen[s])
  BY <1>1 DEF IInv, SeenIsPrefix, Length, Typed, TypeOK
<1>7. AnalysedHaveMet'
  <2> SUFFICES ASSUME NEW c \in Drivers, analysis'[c] # None,
                      NEW j \in 1..analysis'[c].upto, NEW i \in 1..(j - 1),
                      track[c][i] = analysis'[c].by, track[c][j] # analysis'[c].by
               PROVE  <<track[c][j], analysis'[c].by>> \in met
    <3>1. met' = met /\ track' = track
      BY <1>1
    <3>2. QED
      BY <3>1 DEF AnalysedHaveMet
  <2>1. CASE c = d
    <3>1. j \in 1..Len(track[d]) /\ j <= seen[s]
      BY <1>5, <1>6, <2>1
    <3>2. MaySee(s, j) /\ track[d][i] = s /\ track[d][j] # s
      BY <1>1, <1>5, <2>1, <3>1 DEF MaySee
    <3>3. <<track[d][j], s>> \in met
      BY <1>1, <3>1, <3>2 DEF WindowInv, LaterHaveMet
    <3>4. QED
      BY <1>5, <2>1, <3>3
  <2>2. CASE c # d
    BY <1>5, <2>2 DEF WindowInv, AnalysedHaveMet
  <2>3. QED
    BY <2>1, <2>2
<1>8. AnalysedIsStored'
  BY <1>1, <1>5, <1>6 DEF WindowInv, AnalysedIsStored, Stored
<1>9. QED
  BY <1>1, <1>3, <1>4, <1>7, <1>8, ListKept DEF WindowInv

\* Begin: the new save meets those that run, and has stored nothing yet.
LEMMA WindowBegin ==
    ASSUME Typed, IInv, WindowInv, NEW s \in Saves, NEW d \in Drivers, Begin(s, d)
    PROVE  WindowInv'
<1> USE DEF WindowInv, Typed, TypeOK
<1>1. /\ pc[s] = "idle" /\ pc' = [pc EXCEPT ![s] = "LPush"]
      /\ driver' = [driver EXCEPT ![s] = d]
      /\ met' = met \cup ({s} \X InFlight(d)) \cup (InFlight(d) \X {s})
      /\ UNCHANGED <<tries, seen, track, analysis>>
  BY DEF Begin, Goto
<1>2. s \notin Begun /\ Begun' = Begun \cup {s} /\ InFlight(d) \subseteq Begun
  BY <1>1 DEF Begun, InFlight, Running, Commands
<1>3. \A p \in Begun : p \in Saves /\ pc'[p] = pc[p] /\ driver'[p] = driver[p]
  BY <1>1, <1>2 DEF Begun
<1>4. BegunFinite'
  BY <1>2, FS_AddElement DEF BegunFinite
<1>5. MetHaveBegun'
  <2> SUFFICES ASSUME NEW p \in Saves, NEW q \in Saves, <<p, q>> \in met'
               PROVE  p \in Begun'
    BY DEF MetHaveBegun
  <2>1. <<p, q>> \in met \/ p = s \/ p \in InFlight(d)
    BY <1>1
  <2>2. QED
    BY <1>2, <2>1 DEF MetHaveBegun
<1>6. ListedAreOwn'
  BY <1>1, <1>2, <1>3 DEF ListedAreOwn
<1>7. PushesBounded'
  <2> SUFFICES ASSUME NEW c \in Drivers, NEW q \in Saves
               PROVE  Cardinality(Occurrences(q, c)') <= MostPushes(q)'
    BY DEF PushesBounded
  <2>1. Occurrences(q, c)' = Occurrences(q, c)
    BY <1>1 DEF Occurrences
  <2>2. Cardinality(Occurrences(q, c)) <= MostPushes(q)
    BY DEF PushesBounded
  <2>3. CASE q = s
    <3>1. Cardinality(Occurrences(q, c)) <= 0
      BY <1>1, <2>2, <2>3 DEF MostPushes
    <3>2. MostPushes(q)' = tries[s] /\ tries[s] \in Nat
      BY <1>1, <2>3, TrackAssumption DEF MostPushes
    <3>3. Cardinality(Occurrences(q, c)) \in Nat
      BY OccurrencesFinite
    <3> HIDE DEF Occurrences
    <3>4. QED
      BY <2>1, <3>1, <3>2, <3>3
  <2>4. CASE q # s
    BY <1>1, <2>1, <2>2, <2>4 DEF MostPushes
  <2>5. QED
    BY <2>3, <2>4
<1>8. LaterHaveMet'
  <2> SUFFICES ASSUME NEW c \in Drivers, NEW j \in 1..Len(track[c]), NEW i \in 1..(j - 1),
                      track[c][i] # track[c][j], MaySee(track[c][i], j)'
               PROVE  <<track[c][j], track[c][i]>> \in met
    BY <1>1 DEF LaterHaveMet, MaySee
  <2>1. i \in 1..Len(track[c])
    OBVIOUS
  <2>2. track[c][i] \in Begun
    BY <2>1 DEF ListedAreOwn
  <2>3. MaySee(track[c][i], j)
    BY <1>1, <1>3, <2>2 DEF MaySee
  <2>4. QED
    BY <2>3 DEF LaterHaveMet
<1>9. AnalysedHaveMet' /\ AnalysedIsStored'
  BY <1>1 DEF AnalysedHaveMet, AnalysedIsStored, Stored
<1>10. QED
  BY <1>4, <1>5, <1>6, <1>7, <1>8, <1>9

\* Push: the one step that stores a point; each try stores at most one copy.
LEMMA WindowPush ==
    ASSUME Typed, IInv, WindowInv, NEW s \in Saves, Push(s)
    PROVE  WindowInv'
<1> USE DEF WindowInv, Typed, HasDriver
<1> DEFINE d == driver[s]
           n == Len(track[d])
<1>1. /\ pc[s] = "LPush" /\ d \in Drivers
      /\ pc' = [pc EXCEPT ![s] = pc'[s]]
      /\ pc'[s] \in {"LPush", "LRange", "failed"}
      /\ track' = [track EXCEPT ![d] = Append(@, s)]
      /\ UNCHANGED <<driver, seen, analysis, met>>
  BY DEF Push, Execute, LoseReply, Goto, TypeOK
<1>2. \A p \in Saves \ {s} : pc'[p] = pc[p] /\ tries'[p] = tries[p]
  BY <1>1 DEF Push, Execute, LoseReply, TypeOK
<1>3. tries[s] \in 0..MaxRetries /\ (pc'[s] = "LPush" => tries'[s] = tries[s] + 1)
  BY <1>1 DEF Push, Execute, LoseReply, Goto, TypeOK
<1>4. \A c \in Drivers :
          /\ Len(track[c]) \in Nat
          /\ \A i \in 1..Len(track[c]) : track[c][i] \in Saves
  BY DEF TypeOK
<1>5. /\ Len(track'[d]) = n + 1
      /\ track'[d][n + 1] = s
      /\ \A i \in 1..n : track'[d][i] = track[d][i]
  <2>1. track'[d] = Append(track[d], s) /\ track[d] \in Seq(Saves)
    BY <1>1 DEF TypeOK
  <2>2. QED
    BY <2>1, AppendKeeps
<1>6. \A c \in Drivers \ {d} : track'[c] = track[c]
  BY <1>1 DEF TypeOK
<1>7. Begun' = Begun /\ s \in Begun
  BY <1>1, <1>2 DEF Begun
<1>8. BegunFinite' /\ MetHaveBegun'
  BY <1>1, <1>7 DEF BegunFinite, MetHaveBegun
<1>9. ListedAreOwn'
  <2> SUFFICES ASSUME NEW c \in Drivers, NEW i \in 1..Len(track'[c])
               PROVE  driver[track'[c][i]] = c /\ track'[c][i] \in Begun
    BY <1>1, <1>7 DEF ListedAreOwn
  <2>1. CASE c # d
    BY <1>6, <2>1 DEF ListedAreOwn
  <2>2. CASE c = d /\ i \in 1..n
    BY <1>1, <1>5, <2>2 DEF ListedAreOwn
  <2>3. CASE c = d /\ i = n + 1
    BY <1>1, <1>5, <1>7, <2>3
  <2>4. QED
    BY <1>1, <1>4, <1>5, <2>1, <2>2, <2>3
<1>10. PushesBounded'
  <2> SUFFICES ASSUME NEW c \in Drivers, NEW q \in Saves
               PROVE  Cardinality(Occurrences(q, c)') <= MostPushes(q)'
    BY DEF PushesBounded
  <2> DEFINE Before == Occurrences(q, c)
             After == Occurrences(q, c)'
  <2>1. /\ Cardinality(Before) <= MostPushes(q)
        /\ IsFiniteSet(Before) /\ Cardinality(Before) \in Nat
    BY OccurrencesFinite DEF PushesBounded
  <2>2. CASE q = s
    <3>1. Cardinality(After) \in Nat /\ Cardinality(After) <= Cardinality(Before) + 1
      <4>1. CASE c = d
        <5>1. After = Before \cup {n + 1}
          <6>1. n \in Nat
            BY <1>1, <1>4
          <6>2. QED
            BY SMTT(20), <1>5, <2>2, <4>1, <6>1 DEF Occurrences
        <5> HIDE DEF After, Before, n
        <5>2. Cardinality(Before \cup {n + 1}) =
                  IF n + 1 \in Before THEN Cardinality(Before) ELSE Cardinality(Before) + 1
          BY <2>1, FS_AddElement
        <5>3. QED
          BY <2>1, <5>1, <5>2
      <4>2. CASE c # d
        <5>1. After = Before
          BY <1>6, <4>2 DEF Occurrences
        <5> HIDE DEF After, Before
        <5>2. QED
          BY <2>1, <5>1
      <4>3. QED
        BY <4>1, <4>2
    <3>2. MostPushes(q) = tries[s]
      BY <1>1, <2>2 DEF MostPushes
    <3>3. MostPushes(q)' \in Nat /\ MostPushes(q)' >= tries[s] + 1
      BY <1>1, <1>3, <2>2, TrackAssumption DEF MostPushes
    <3> HIDE DEF After, Before
    <3>4. Cardinality(After) <= MostPushes(q)'
      BY <1>3, <2>1, <3>1, <3>2, <3>3
    <3>5. QED
      BY <3>4 DEF After
  <2>3. CASE q # s
    <3>1. After = Before
      <4>1. CASE c = d
        BY <1>1, <1>4, <1>5, <2>3, <4>1 DEF Occurrences
      <4>2. CASE c # d
        BY <1>6, <4>2 DEF Occurrences
      <4>3. QED
        BY <4>1, <4>2
    <3>2. MostPushes(q)' = MostPushes(q)
      BY <1>2, <2>3 DEF MostPushes
    <3>3. QED
      BY <2>1, <3>1, <3>2
  <2>4. QED
    BY <2>2, <2>3
<1>11. \A p \in Saves, j \in Nat :
           \/ pc'[p] \in {"LPush", "LRange"}
           \/ pc'[p] = "Set" /\ j <= seen[p]
           => MaySee(p, j)
  BY <1>1, <1>2 DEF MaySee
<1>12. LaterHaveMet'
  <2> SUFFICES ASSUME NEW c \in Drivers, NEW j \in 1..Len(track'[c]), NEW i \in 1..(j - 1),
                      track'[c][i] # track'[c][j],
                      \/ pc'[track'[c][i]] \in {"LPush", "LRange"}
                      \/ pc'[track'[c][i]] = "Set" /\ j <= seen[track'[c][i]]
               PROVE  <<track'[c][j], track'[c][i]>> \in met
    <3>1. met' = met /\ seen' = seen
      BY <1>1
    <3>2. QED
      BY <3>1 DEF LaterHaveMet, MaySee
  <2>1. CASE c # d
    <3>1. track'[c] = track[c] /\ j \in Nat /\ i \in 1..Len(track[c]) /\ j \in 1..Len(track[c])
      BY <1>4, <1>6, <2>1
    <3>2. track[c][i] \in Saves
      BY <1>4, <3>1
    <3>3. MaySee(track[c][i], j)
      BY <1>11, <3>1, <3>2
    <3>4. QED
      BY <3>1, <3>3 DEF LaterHaveMet
  <2>2. CASE c = d /\ j \in 1..n
    <3>1. j \in Nat /\ i \in 1..n /\ n \in Nat
      BY <1>1, <1>4, <2>2
    <3>2. track'[c][i] = track[c][i] /\ track'[c][j] = track[c][j] /\ track[c][i] \in Saves
      BY <1>1, <1>4, <1>5, <2>2, <3>1
    <3>3. MaySee(track[c][i], j)
      BY <1>11, <3>1, <3>2
    <3>4. QED
      BY <2>2, <3>2, <3>3 DEF LaterHaveMet
  <2>3. CASE c = d /\ j = n + 1
    <3>1. j \in Nat /\ i \in 1..n
      BY <1>1, <1>4, <2>3
    <3>2. track'[c][j] = s /\ track'[c][i] = track[c][i]
      BY <1>5, <2>3, <3>1
    <3>3. track[c][i] \in Saves /\ driver[track[c][i]] = d /\ track[c][i] # s
      BY <1>1, <1>4, <2>3, <3>1, <3>2 DEF ListedAreOwn
    <3>4. MaySee(track[c][i], j)
      BY <1>11, <3>1, <3>2, <3>3
    <3>5. pc[track[c][i]] \in Running
      BY <3>4 DEF MaySee, Running, Commands
    <3>6. QED
      BY <1>1, <3>2, <3>3, <3>5 DEF IInv, RunningHaveMet, Running, Commands
  <2>4. c = d => j \in 1..n \/ j = n + 1
    BY <1>1, <1>4, <1>5
  <2>5. QED
    BY <2>1, <2>2, <2>3, <2>4
<1>13. \A c \in Drivers : analysis[c] # None =>
           /\ analysis[c].upto \in Nat
           /\ \A i \in 1..analysis[c].upto : track'[c][i] = track[c][i]
  <2> SUFFICES ASSUME NEW c \in Drivers, analysis[c] # None
               PROVE  /\ analysis[c].upto \in Nat
                      /\ \A i \in 1..analysis[c].upto : track'[c][i] = track[c][i]
    OBVIOUS
  <2>1. analysis[c].upto \in Nat
    BY DEF TypeOK
  <2>2. analysis[c].upto <= Len(track[c])
    BY DEF IInv, AnalysisIsPrefix
  <2>3. \A i \in 1..Len(track[c]) : track'[c][i] = track[c][i]
    BY <1>5, <1>6
  <2>4. QED
    BY <1>4, <2>1, <2>2, <2>3
<1>14. AnalysedHaveMet'
  <2> SUFFICES ASSUME NEW c \in Drivers, analysis[c] # None,
                      NEW j \in 1..analysis[c].upto, NEW i \in 1..(j - 1),
                      track'[c][i] = analysis[c].by, track'[c][j] # analysis[c].by
               PROVE  <<track'[c][j], analysis[c].by>> \in met
    <3>1. met' = met /\ analysis' = analysis
      BY <1>1
    <3>2. QED
      BY <3>1 DEF AnalysedHaveMet
  <2>1. i \in 1..analysis[c].upto
    BY <1>13
  <2>2. track'[c][i] = track[c][i] /\ track'[c][j] = track[c][j]
    BY <1>13, <2>1
  <2>3. QED
    BY <2>2 DEF AnalysedHaveMet
<1>15. AnalysedIsStored'
  <2> SUFFICES ASSUME NEW c \in Drivers, analysis[c] # None
               PROVE  \E i \in 1..analysis[c].upto : track'[c][i] = analysis[c].by
    BY <1>1 DEF AnalysedIsStored, Stored
  <2>1. PICK i \in 1..analysis[c].upto : track[c][i] = analysis[c].by
    BY DEF AnalysedIsStored, Stored
  <2>2. track'[c][i] = analysis[c].by
    BY <1>13, <2>1
  <2>3. QED
    BY <2>2
<1>16. QED
  BY <1>8, <1>9, <1>10, <1>12, <1>14, <1>15

\* WindowInv holds of every behaviour, for any number of saves and retries.
THEOREM WindowInvariant == Spec => []WindowInv
<1>1. Init => WindowInv
  <2> SUFFICES ASSUME Init PROVE WindowInv
    OBVIOUS
  <2>1. Begun = {} /\ \A d \in Drivers : track[d] = <<>> /\ analysis[d] = None
    BY DEF Init, Begun
  <2>2. \A d \in Drivers, q \in Saves : Occurrences(q, d) = {}
    BY <2>1 DEF Occurrences
  <2>3. PushesBounded
    <3>1. \A q \in Saves : MostPushes(q) = 0
      BY DEF MostPushes, Init
    <3>2. Cardinality({}) = 0
      BY FS_EmptySet
    <3>3. QED
      BY <2>2, <3>1, <3>2 DEF PushesBounded
  <2>4. BegunFinite /\ MetHaveBegun
    BY <2>1, FS_EmptySet DEF BegunFinite, MetHaveBegun, Init
  <2>5. ListedAreOwn /\ LaterHaveMet
    BY <2>1 DEF ListedAreOwn, LaterHaveMet
  <2>6. AnalysedHaveMet /\ AnalysedIsStored
    BY <2>1 DEF AnalysedHaveMet, AnalysedIsStored
  <2>7. QED
    BY <2>3, <2>4, <2>5, <2>6 DEF WindowInv
<1>2. Typed /\ IInv /\ WindowInv /\ [Next]_vars => WindowInv'
  <2> SUFFICES ASSUME Typed, IInv, WindowInv, [Next]_vars PROVE WindowInv'
    OBVIOUS
  <2>1. ASSUME NEW s \in Saves, Reply(s) \/ Fail(s)
        PROVE  WindowInv'
    BY <2>1, WindowQuiet DEF Reply, Fail, Goto, Commands, Typed, TypeOK
  <2>2. ASSUME NEW d \in Drivers, Expire(d) PROVE WindowInv'
    BY <2>2, WindowQuiet DEF Expire, Typed, TypeOK
  <2>3. CASE Crash
    BY <2>3, WindowQuiet DEF Crash, Running, Commands
  <2>4. CASE UNCHANGED vars
    BY <2>4, WindowQuiet DEF vars
  <2>5. QED
    BY <2>1, <2>2, <2>3, <2>4, WindowBegin, WindowPush, WindowRead, WindowWrite
       DEF Next, Step, Terminated
<1>3. QED
  BY <1>1, <1>2, TypeCorrect, InductiveInvariant, PTL DEF Spec

(***************************************************************************)
(* Positions of a list that hold only saves of Q are at most as many as    *)
(* these saves can have stored: a position is named by its save and the    *)
(* number of earlier positions with the same save.                         *)
(***************************************************************************)
LEMMA PositionsBounded ==
    ASSUME Typed, WindowInv, NEW d \in Drivers,
           NEW Q \in SUBSET Saves, IsFiniteSet(Q),
           NEW J \in SUBSET (1..Len(track[d])), \A j \in J : track[d][j] \in Q
    PROVE  /\ Cardinality(Q) \in Nat
           /\ Cardinality(J) <= Cardinality(Q) * (1 + MaxRetries)
<1> DEFINE Earlier(j) == {i \in 1..(j - 1) : track[d][i] = track[d][j]}
           Names == Q \X (0..MaxRetries)
           f == [j \in J |-> <<track[d][j], Cardinality(Earlier(j))>>]
<1>1. Len(track[d]) \in Nat /\ \A i \in 1..Len(track[d]) : track[d][i] \in Saves
  BY DEF Typed, TypeOK
<1>2. ASSUME NEW j \in J
      PROVE  /\ IsFiniteSet(Earlier(j))
             /\ Cardinality(Earlier(j)) \in 0..MaxRetries
  <2> DEFINE Own == Occurrences(track[d][j], d)
  <2>1. j \in 1..Len(track[d]) /\ track[d][j] \in Saves
    BY <1>1
  <2>2. Earlier(j) \cup {j} \in SUBSET Own
    BY <1>1, <2>1 DEF Occurrences
  <2>3. IsFiniteSet(Own) /\ Cardinality(Own) \in Nat
    BY OccurrencesFinite DEF Typed
  <2>4. Cardinality(Own) <= MaxRetries + 1
    <3>1. Cardinality(Own) <= MostPushes(track[d][j])
      BY <2>1 DEF WindowInv, PushesBounded
    <3>2. MostPushes(track[d][j]) \in 0..(MaxRetries + 1)
      BY <2>1, TrackAssumption DEF MostPushes, Typed, TypeOK
    <3> HIDE DEF Own
    <3>3. QED
      BY <2>3, <3>1, <3>2, TrackAssumption
  <2>5. j \notin Earlier(j) /\ Earlier(j) \in SUBSET Own
    BY <2>1, <2>2
  <2> HIDE DEF Own, Earlier
  <2>6. /\ IsFiniteSet(Earlier(j) \cup {j})
        /\ Cardinality(Earlier(j) \cup {j}) <= Cardinality(Own)
    BY <2>2, <2>3, FS_Subset
  <2>7. IsFiniteSet(Earlier(j))
    BY <2>3, <2>5, FS_Subset
  <2>8. Cardinality(Earlier(j) \cup {j}) = Cardinality(Earlier(j)) + 1
    BY <2>5, <2>7, FS_AddElement
  <2>9. Cardinality(Earlier(j)) \in Nat
    BY <2>7, FS_CardinalityType
  <2>10. QED
    BY <2>3, <2>4, <2>6, <2>7, <2>8, <2>9, TrackAssumption
<1>3. ASSUME NEW i \in J, NEW j \in J, i < j, track[d][i] = track[d][j]
      PROVE  Cardinality(Earlier(i)) # Cardinality(Earlier(j))
  <2>1. i \in Nat /\ j \in Nat /\ i >= 1
    BY <1>1
  <2>2. Earlier(i) \cup {i} \in SUBSET Earlier(j) /\ i \notin Earlier(i)
    BY <1>3, <2>1
  <2>3. /\ IsFiniteSet(Earlier(i)) /\ Cardinality(Earlier(i)) \in 0..MaxRetries
        /\ IsFiniteSet(Earlier(j)) /\ Cardinality(Earlier(j)) \in 0..MaxRetries
    BY <1>2
  <2> HIDE DEF Earlier
  <2>4. Cardinality(Earlier(i) \cup {i}) = Cardinality(Earlier(i)) + 1
    BY <2>2, <2>3, FS_AddElement
  <2>5. Cardinality(Earlier(i) \cup {i}) <= Cardinality(Earlier(j))
    BY <2>2, <2>3, FS_Subset
  <2>6. QED
    BY <2>3, <2>4, <2>5
<1>4. f \in Injection(J, Names)
  <2>1. f \in [J -> Names]
    BY <1>2
  <2>2. ASSUME NEW i \in J, NEW j \in J, f[i] = f[j] PROVE i = j
    <3>1. /\ track[d][i] = track[d][j]
          /\ Cardinality(Earlier(i)) = Cardinality(Earlier(j))
      <4> HIDE DEF Earlier
      <4>1. QED BY <2>2
    <3>2. i \in Nat /\ j \in Nat
      BY <1>1
    <3>3. ~(i < j) /\ ~(j < i)
      BY <1>3, <3>1
    <3>4. QED
      BY <3>2, <3>3
  <2> HIDE DEF f
  <2>3. QED
    BY <2>1, <2>2 DEF Injection, IsInjective
<1>5. /\ IsFiniteSet(0..MaxRetries)
      /\ Cardinality(0..MaxRetries) = MaxRetries + 1
  BY FS_Interval, TrackAssumption
<1>6. /\ IsFiniteSet(Names)
      /\ Cardinality(Names) = Cardinality(Q) * (MaxRetries + 1)
  BY <1>5, FS_Product
<1>7. Cardinality(J) <= Cardinality(Names)
  <2> HIDE DEF f, Names
  <2>1. QED
    BY <1>4, <1>6, FS_Injection
<1>8. QED
  BY <1>6, <1>7, FS_CardinalityType, TrackAssumption

(***************************************************************************)
(* The points analysed include the one that asked for the analysis, unless *)
(* enough saves met it to fill the window.                                 *)
(***************************************************************************)
THEOREM OwnPoint == Spec => []OwnPointLostOnlyToOverlap
<1>1. Typed /\ IInv /\ WindowInv => OwnPointLostOnlyToOverlap
  <2> SUFFICES ASSUME Typed, IInv, WindowInv, NEW d \in Drivers, analysis[d] # None
               PROVE  LET a == analysis[d]
                          others == {q \in Saves : <<q, a.by>> \in met}
                      IN  \/ \E i \in 1..a.upto : i > a.upto - Window /\ track[d][i] = a.by
                          \/ Cardinality(others) * (1 + MaxRetries) >= Window
    BY DEF OwnPointLostOnlyToOverlap
  <2> DEFINE by == analysis[d].by
             n == analysis[d].upto
             others == {q \in Saves : <<q, by>> \in met}
             J == (n - Window + 1)..n
  <2> SUFFICES ASSUME \A i \in 1..n : i > n - Window => track[d][i] # by
               PROVE  Cardinality(others) * (1 + MaxRetries) >= Window
    OBVIOUS
  <2>1. n \in Nat /\ Len(track[d]) \in Nat /\ n <= Len(track[d]) /\ by \in Saves
    BY DEF Typed, TypeOK, IInv, AnalysisIsPrefix
  <2>2. Window \in Nat /\ Window >= 1
    BY TrackAssumption
  <2>3. PICK k \in 1..n : track[d][k] = by
    BY DEF WindowInv, AnalysedIsStored, Stored
  <2>4. k \in Nat /\ k >= 1 /\ k <= n - Window
    BY <2>1, <2>2, <2>3
  <2>5. J \in SUBSET (1..Len(track[d]))
    BY <2>1, <2>2, <2>4
  <2>6. \A j \in J : track[d][j] \in others
    <3> SUFFICES ASSUME NEW j \in J PROVE track[d][j] \in others
      OBVIOUS
    <3>1. j \in 1..n /\ j > n - Window /\ k \in 1..(j - 1)
      BY <2>1, <2>2, <2>4
    <3>2. track[d][j] # by
      BY <3>1
    <3>3. track[d][j] \in Saves
      <4>1. j \in 1..Len(track[d]) /\ track[d] \in Seq(Saves)
        BY <2>5 DEF Typed, TypeOK
      <4>2. QED
        BY <4>1
    <3>4. QED
      BY <2>3, <3>1, <3>2, <3>3 DEF WindowInv, AnalysedHaveMet
  <2>7. others \in SUBSET Saves /\ IsFiniteSet(others)
    <3>1. others \in SUBSET Begun
      BY <2>1 DEF WindowInv, MetHaveBegun
    <3>2. QED
      BY <3>1, FS_Subset DEF WindowInv, BegunFinite
  <2>8. Cardinality(J) = Window
    <3>1. n - Window + 1 \in Int /\ n \in Int /\ ~(n - Window + 1 > n)
      BY <2>1, <2>2
    <3>2. Cardinality((n - Window + 1)..n) = n - (n - Window + 1) + 1
      BY <3>1, FS_Interval
    <3>3. QED
      BY <2>1, <2>2, <3>2
  <2> HIDE DEF J, others
  <2>9. QED
    BY <2>2, <2>5, <2>6, <2>7, <2>8, PositionsBounded, TrackAssumption
<1>2. QED
  BY <1>1, TypeCorrect, InductiveInvariant, WindowInvariant, PTL

-----------------------------------------------------------------------------
(* AnalyzeTrack (TrackKinematics, instance K).                             *)

Passed == [place : Places, time : Times]

Limit == K!MaxReasonableSpeed

LEMMA LimitType == Limit \in Nat
BY KinematicsAssumption DEF Limit, K!MaxReasonableSpeed

KinTyped ==
    /\ points \in Seq(Passed) /\ Len(points) >= 1
    /\ upTo \in 1..Len(points)
    /\ anomalies \subseteq 2..upTo
    /\ DOMAIN estimated = 1..Len(points)
    /\ totalSpeed \in Int \cup {NaN} /\ maxSpeed \in Nat

\* AverageNeedsOrder at every point, not only at the last.
AverageSoFar ==
    (\A n \in 2..upTo : K!InOrder(n) /\ K!Jump(n) # NaN) =>
        /\ totalSpeed # NaN /\ totalSpeed >= 0
        /\ anomalies = {} => totalSpeed <= maxSpeed * (upTo - 1)

KinInv ==
    /\ KinTyped /\ AverageSoFar
    /\ K!MissedJumpNeedsDisorder /\ K!FlaggedIsJump /\ K!EstimateIsBetween

\* A factor that grows makes the product grow.
LEMMA ProductGrows == \A a, b \in Int, c \in Nat : a <= b => a * c <= b * c
<1> SUFFICES ASSUME NEW a \in Int, NEW b \in Int, NEW c \in Nat, a <= b
             PROVE  a * c <= b * c
  OBVIOUS
<1>1. PICK k \in Nat : b = a + k
  BY b - a \in Nat
<1>2. b * c = a * c + k * c /\ k * c \in Nat /\ a * c \in Int
  BY <1>1
<1>3. QED BY <1>2

\* A quotient, rounded either way, is on the same side of every whole number.
LEMMA RoundedKeepsSide ==
    ASSUME NEW a \in Int, NEW b \in Nat \ {0}, NEW q \in K!Rounded(a, b)
    PROVE  /\ q \in Int
           /\ \A c \in Int : /\ a <= c * b => q <= c
                             /\ c * b <= a => c <= q
<1>1. ASSUME NEW x \in Int, NEW c \in Int
      PROVE  /\ x \div b \in Int
             /\ x <= c * b => x \div b <= c
             /\ c * b <= x => c <= x \div b
  <2> DEFINE r == x \div b
  <2>1. r \in Int /\ r * b <= x /\ x < (r + 1) * b
    OBVIOUS
  <2> HIDE DEF r
  <2>2. c * b \in Int /\ r * b \in Int /\ (r + 1) * b \in Int /\ (c + 1) * b = c * b + b
    BY <2>1
  <2>3. ASSUME x <= c * b, r > c PROVE FALSE
    <3>1. (c + 1) * b <= r * b
      BY <2>1, <2>3, ProductGrows
    <3>2. QED BY <2>1, <2>2, <2>3, <3>1
  <2>4. ASSUME c * b <= x, c > r PROVE FALSE
    <3>1. (r + 1) * b <= c * b
      BY <2>1, <2>4, ProductGrows
    <3>2. QED BY <2>1, <2>2, <2>4, <3>1
  <2>5. QED BY <2>1, <2>3, <2>4 DEF r
<1>2. CASE q = a \div b
  BY <1>1, <1>2
<1>3. CASE q = -((-a) \div b)
  <2> DEFINE r == (-a) \div b
  <2>1. -a \in Int /\ q = -r
    BY <1>3
  <2>2. r \in Int
    BY <1>1, <2>1
  <2>3. ASSUME NEW c \in Int PROVE (a <= c * b => q <= c) /\ (c * b <= a => c <= q)
    <3>1. -c \in Int /\ (-c) * b = -(c * b) /\ c * b \in Int
      OBVIOUS
    <3>2. (-a <= (-c) * b => r <= -c) /\ ((-c) * b <= -a => -c <= r)
      BY <1>1, <2>1, <3>1
    <3> HIDE DEF r
    <3>3. QED BY <2>1, <2>2, <3>1, <3>2
  <2>4. QED BY <2>1, <2>2, <2>3
<1>4. QED BY <1>2, <1>3 DEF K!Rounded

LEMMA PointTypes ==
    ASSUME KinTyped, NEW n \in 2..Len(points)
    PROVE  /\ points[n].place \in Places /\ points[n - 1].place \in Places
           /\ points[n].place.lat \in Int /\ points[n - 1].place.lat \in Int
           /\ points[n].place.lon \in Int /\ points[n - 1].place.lon \in Int
           /\ points[n].time \in Int /\ points[n - 1].time \in Int
           /\ K!TimeDiff(n) \in Int /\ K!Jump(n) \in Nat \cup {NaN}
           /\ K!InOrder(n) <=> K!TimeDiff(n) > 0
<1>1. n \in 1..Len(points) /\ n - 1 \in 1..Len(points)
  BY DEF KinTyped
<1>2. points[n] \in Passed /\ points[n - 1] \in Passed
  BY <1>1 DEF KinTyped
<1>3. /\ points[n].place \in Places /\ points[n - 1].place \in Places
      /\ points[n].time \in Int /\ points[n - 1].time \in Int
  BY <1>2, KinematicsAssumption DEF Passed
<1>4. /\ points[n].place \in [lat : Int, lon : Int]
      /\ points[n - 1].place \in [lat : Int, lon : Int]
  BY <1>3, KinematicsAssumption
<1>5. K!Jump(n) \in Nat \cup {NaN}
  BY <1>3, KinematicsAssumption DEF K!Jump
<1>6. QED BY <1>3, <1>4, <1>5 DEF K!TimeDiff, K!InOrder

\* What the code can take a speed for.
LEMMA SpeedTypes ==
    ASSUME KinTyped, NEW n \in 2..Len(points), K!TimeDiff(n) # 0,
           NEW speed \in K!Speeds(n)
    PROVE  /\ speed \in Int \cup {NaN}
           /\ speed = NaN <=> K!Jump(n) = NaN
           /\ K!TimeDiff(n) < 0 /\ speed # NaN => speed <= 0
           /\ K!TimeDiff(n) > 0 /\ speed # NaN =>
                  /\ speed \in Nat
                  /\ K!Jump(n) * K!Hour >= (Limit + 1) * K!TimeDiff(n) => speed > Limit
                  /\ speed > Limit => K!Jump(n) * K!Hour > Limit * K!TimeDiff(n)
<1> DEFINE t == K!TimeDiff(n)
           d == K!Jump(n)
<1>1. t \in Int /\ t # 0 /\ d \in Nat \cup {NaN} /\ NaN \notin Int
  BY PointTypes, KinematicsAssumption
<1>2. CASE d = NaN
  BY <1>1, <1>2 DEF K!Speeds
<1>3. CASE d # NaN /\ t > 0
  <2>1. d * 3600 \in Nat /\ t \in Nat \ {0} /\ 0 * t = 0
    BY <1>1, <1>3
  <2>2. speed \in K!Rounded(d * 3600, t)
    BY <1>3 DEF K!Speeds, K!Hour
  <2> HIDE DEF t, d
  <2>3. /\ speed \in Int
        /\ \A c \in Int : (d * 3600 <= c * t => speed <= c) /\ (c * t <= d * 3600 => c <= speed)
    BY <2>1, <2>2, RoundedKeepsSide
  <2>4. /\ 0 <= speed
        /\ (Limit + 1) * t <= d * 3600 => Limit + 1 <= speed
        /\ d * 3600 <= Limit * t => speed <= Limit
    <3>1. Limit \in Int /\ Limit + 1 \in Int /\ 0 \in Int
      BY LimitType
    <3>2. /\ 0 * t <= d * 3600 => 0 <= speed
          /\ (Limit + 1) * t <= d * 3600 => Limit + 1 <= speed
          /\ d * 3600 <= Limit * t => speed <= Limit
      <4>1. \A c \in Int : c * t <= d * 3600 => c <= speed
        BY <2>3
      <4>2. \A c \in Int : d * 3600 <= c * t => speed <= c
        BY <2>3
      <4>3. 0 * t <= d * 3600 => 0 <= speed
        BY <3>1, <4>1
      <4>4. (Limit + 1) * t <= d * 3600 => Limit + 1 <= speed
        <5> DEFINE more == Limit + 1
        <5>1. more \in Int
          BY <3>1
        <5> HIDE DEF more
        <5>2. more * t <= d * 3600 => more <= speed
          BY <4>1, <5>1
        <5>3. QED BY <5>2 DEF more
      <4>5. d * 3600 <= Limit * t => speed <= Limit
        BY <3>1, <4>2
      <4>6. QED BY <4>3, <4>4, <4>5
    <3>3. QED BY <2>1, <3>2
  <2>5. Limit * t \in Int /\ (Limit + 1) * t \in Int
    BY <2>1, LimitType
  <2>6. /\ d * K!Hour >= (Limit + 1) * t => speed > Limit
        /\ speed > Limit => d * K!Hour > Limit * t
    BY <2>1, <2>3, <2>4, <2>5, LimitType DEF K!Hour
  <2>7. QED BY <1>1, <1>3, <2>3, <2>4, <2>6 DEF t, d
<1>4. CASE d # NaN /\ t < 0
  <2>1. -(d * 3600) \in Int /\ -(d * 3600) <= 0 /\ -t \in Nat \ {0} /\ 0 * (-t) = 0
    BY <1>1, <1>4
  <2>2. speed \in K!Rounded(-(d * 3600), -t)
    BY <1>1, <1>4 DEF K!Speeds, K!Hour
  <2> HIDE DEF t, d
  <2>3. speed \in Int /\ speed <= 0
    BY <2>1, <2>2, RoundedKeepsSide
  <2>4. QED BY <1>1, <1>4, <2>3 DEF t, d
<1>5. QED BY <1>1, <1>2, <1>3, <1>4

\* What is interpolated at a ratio of no more than 1 is between the ends.
LEMMA BetweenIsAmid ==
    ASSUME NEW start \in Int, NEW end \in Int, NEW a \in Nat, NEW b \in Nat \ {0}, a <= b,
           NEW put \in K!Between(start, end, a, b)
    PROVE  K!Amid(start, put, end)
<1>1. PICK part \in K!Rounded((end - start) * a, b) : put = start + part
  BY DEF K!Between
<1>2. (end - start) * a \in Int
  OBVIOUS
<1>3. /\ part \in Int
      /\ \A c \in Int : /\ (end - start) * a <= c * b => part <= c
                        /\ c * b <= (end - start) * a => c <= part
  BY <1>2, RoundedKeepsSide
<1>4. CASE start <= end
  <2> DEFINE d == end - start
  <2>1. d \in Nat /\ a * d <= b * d
    <3>1. d \in Nat
      BY <1>4
    <3>2. QED BY <3>1, ProductGrows
  <2>2. d * a \in Nat /\ a * d = d * a /\ b * d = d * b
    BY <2>1
  <2>3. 0 * b <= d * a /\ d * a <= d * b
    BY <2>1, <2>2
  <2>4. 0 <= part /\ part <= d
    BY <1>3, <2>1, <2>3
  <2>5. QED BY <1>1, <1>3, <1>4, <2>4 DEF K!Amid
<1>5. CASE end < start
  <2> DEFINE d == start - end
  <2>1. d \in Nat /\ a * d <= b * d
    <3>1. d \in Nat
      BY <1>5
    <3>2. QED BY <3>1, ProductGrows
  <2>2. d * a \in Nat /\ (end - start) * a = -(a * d) /\ (-d) * b = -(b * d) /\ 0 * b = 0
    BY <2>1
  <2>3. (end - start) * a <= 0 * b /\ (-d) * b <= (end - start) * a
    BY <2>1, <2>2
  <2>4. part <= 0 /\ -d <= part
    BY <1>3, <2>1, <2>3
  <2>5. QED BY <1>1, <1>3, <1>5, <2>4 DEF K!Amid
<1>6. QED BY <1>4, <1>5

\* An anomaly is put between the two points.
PutBetween(n, put) ==
    LET from == points[n - 1].place  to == points[n].place
    IN  K!Amid(from.lat, put.lat, to.lat) /\ K!Amid(from.lon, put.lon, to.lon)

LEMMA EstimateBetween ==
    ASSUME KinTyped, NEW n \in 2..Len(points), K!TimeDiff(n) > 0, K!Jump(n) # NaN,
           K!Jump(n) * K!Hour > Limit * K!TimeDiff(n), NEW put \in K!Estimates(n)
    PROVE  PutBetween(n, put)
<1> DEFINE a == Limit * K!TimeDiff(n)
           b == K!Jump(n) * K!Hour
           from == points[n - 1].place
           to == points[n].place
<1>1. a \in Nat /\ b \in Nat \ {0} /\ a <= b
  <2>1. K!TimeDiff(n) \in Nat /\ K!Jump(n) \in Nat /\ K!Hour \in Nat
    BY PointTypes DEF K!Hour
  <2>2. \A x, y \in Nat : x * y \in Nat
    OBVIOUS
  <2>3. a \in Nat /\ b \in Nat /\ b > a
    BY <2>1, <2>2, LimitType
  <2> HIDE DEF a, b
  <2>4. QED BY <2>3
<1>2. /\ from.lat \in Int /\ from.lon \in Int /\ to.lat \in Int /\ to.lon \in Int
  BY PointTypes
<1>3. put.lat \in K!Between(from.lat, to.lat, a, b) /\ put.lon \in K!Between(from.lon, to.lon, a, b)
  BY DEF K!Estimates, Limit
<1> HIDE DEF a, b, from, to
<1>4. K!Amid(from.lat, put.lat, to.lat) /\ K!Amid(from.lon, put.lon, to.lon)
  BY <1>1, <1>2, <1>3, BetweenIsAmid
<1>5. QED BY <1>4 DEF PutBetween, from, to

LEMMA KinInvInit == K!Init => KinInv
<1> SUFFICES ASSUME K!Init PROVE KinInv
  OBVIOUS
<1>1. PICK n \in 1..MaxPoints : points \in [1..n -> Passed]
  BY DEF K!Init, K!Tracks, Passed
<1>2. n \in Nat /\ n >= 1
  BY <1>1, KinematicsAssumption
<1>3. points \in Seq(Passed) /\ Len(points) = n /\ DOMAIN points = 1..n
  BY <1>1, <1>2
<1>4. KinTyped
  BY <1>2, <1>3 DEF K!Init, KinTyped
<1>5. AverageSoFar
  BY KinematicsAssumption DEF K!Init, AverageSoFar
<1>6. K!MissedJumpNeedsDisorder /\ K!FlaggedIsJump /\ K!EstimateIsBetween
  BY DEF K!Init, K!MissedJumpNeedsDisorder, K!FlaggedIsJump, K!EstimateIsBetween
<1>7. QED BY <1>4, <1>5, <1>6 DEF KinInv

\* The properties of points that were given stay as they are.
LEMMA PointsStay ==
    ASSUME points' = points
    PROVE  /\ \A i : K!InOrder(i)' <=> K!InOrder(i)
           /\ \A i : K!TimeDiff(i)' = K!TimeDiff(i)
           /\ \A i : K!Jump(i)' = K!Jump(i)
           /\ \A i, put : PutBetween(i, put)' <=> PutBetween(i, put)
BY DEF K!InOrder, K!TimeDiff, K!Jump, PutBetween, K!Amid

\* A jump that is too far for its time, however the speed is rounded.
TooFar(n) ==
    /\ K!InOrder(n) /\ K!Jump(n) # NaN
    /\ K!Jump(n) * K!Hour >= (Limit + 1) * K!TimeDiff(n)

NoneMissed == \A n \in 2..upTo : TooFar(n) => n \in anomalies

LEMMA MissedIsTooFar == KinTyped => (K!MissedJumpNeedsDisorder <=> NoneMissed)
<1> SUFFICES ASSUME KinTyped PROVE K!MissedJumpNeedsDisorder <=> NoneMissed
  OBVIOUS
<1>1. ASSUME NEW n \in 2..upTo, K!InOrder(n)
      PROVE  K!TimeDiff(n) \in Int /\ K!TimeDiff(n) > 0
  <2>1. n \in 2..Len(points)
    BY DEF KinTyped
  <2>2. QED BY <1>1, <2>1, PointTypes
<1>2. K!MaxReasonableSpeed + 1 = (Limit + 1)
  BY DEF Limit
<1>3. \A n \in 2..upTo : K!InOrder(n) => ~(K!TimeDiff(n) < 0)
  BY <1>1
<1>4. QED BY <1>2, <1>3 DEF K!MissedJumpNeedsDisorder, NoneMissed, TooFar

LEMMA SkipKeeps == KinInv /\ K!SkipPoint => KinInv'
<1> SUFFICES ASSUME KinInv, K!SkipPoint PROVE KinInv'
  OBVIOUS
<1> USE DEF KinInv
<1>1. /\ upTo \in 1..Len(points) /\ upTo < Len(points) /\ upTo' = upTo + 1
      /\ K!TimeDiff(upTo') = 0 /\ Len(points) \in Nat
      /\ UNCHANGED <<points, anomalies, estimated, totalSpeed, maxSpeed>>
  BY DEF K!SkipPoint, KinTyped
<1>2. upTo' \in 2..Len(points)
  BY <1>1
<1>3. KinTyped'
  BY <1>1 DEF KinTyped
<1>4. ~K!InOrder(upTo')
  BY <1>1, <1>2, PointTypes
<1>5. /\ \A n : K!InOrder(n)' <=> K!InOrder(n)
      /\ \A n : TooFar(n)' <=> TooFar(n)
  BY <1>1, PointsStay DEF TooFar, K!Hour
<1>6. AverageSoFar'
  BY <1>1, <1>2, <1>4, <1>5 DEF AverageSoFar
<1>7. \A n \in 2..upTo' : n \in 2..upTo \/ n = upTo'
  BY <1>1
<1>8. K!MissedJumpNeedsDisorder'
  <2>1. NoneMissed
    BY MissedIsTooFar
  <2>2. NoneMissed'
    BY <1>1, <1>4, <1>5, <1>7, <2>1 DEF NoneMissed, TooFar
  <2>3. (KinTyped => (K!MissedJumpNeedsDisorder <=> NoneMissed))'
    BY MissedIsTooFar, PTL
  <2>4. QED BY <1>3, <2>2, <2>3
<1>9. K!FlaggedIsJump' /\ K!EstimateIsBetween'
  BY <1>1, PointsStay DEF K!FlaggedIsJump, K!EstimateIsBetween, K!Hour, Limit, K!Amid
<1>10. QED BY <1>3, <1>6, <1>8, <1>9

LEMMA AnalyzeKeeps == KinInv /\ K!AnalyzePoint => KinInv'
<1> SUFFICES ASSUME KinInv, K!AnalyzePoint PROVE KinInv'
  OBVIOUS
<1> USE DEF KinInv
<1> DEFINE n == upTo'
<1>1. /\ upTo \in 1..Len(points) /\ upTo < Len(points) /\ n = upTo + 1
      /\ K!TimeDiff(n) # 0 /\ Len(points) \in Nat /\ points' = points
  BY DEF K!AnalyzePoint, KinTyped
<1>2. n \in 2..Len(points)
  BY <1>1
<1>3. PICK speed \in K!Speeds(n) :
        /\ totalSpeed' = K!Plus(totalSpeed, speed)
        /\ IF K!IsAnomaly(speed)
           THEN /\ anomalies' = anomalies \cup {n}
                /\ \E place \in K!Estimates(n) : estimated' = [estimated EXCEPT ![n] = place]
                /\ UNCHANGED maxSpeed
           ELSE /\ maxSpeed' = IF K!Exceeds(speed, maxSpeed) THEN speed ELSE maxSpeed
                /\ UNCHANGED <<anomalies, estimated>>
  BY DEF K!AnalyzePoint
<1>4. /\ speed \in Int \cup {NaN}
      /\ speed = NaN <=> K!Jump(n) = NaN
      /\ K!TimeDiff(n) < 0 /\ speed # NaN => speed <= 0
      /\ K!TimeDiff(n) > 0 /\ speed # NaN =>
             /\ speed \in Nat
             /\ K!Jump(n) * K!Hour >= (Limit + 1) * K!TimeDiff(n) => speed > Limit
             /\ speed > Limit => K!Jump(n) * K!Hour > Limit * K!TimeDiff(n)
  BY <1>1, <1>2, SpeedTypes
<1>5. /\ K!TimeDiff(n) \in Int /\ NaN \notin Int
      /\ K!InOrder(n) <=> K!TimeDiff(n) > 0
  BY <1>2, PointTypes, KinematicsAssumption
<1>6. /\ \A i : K!InOrder(i)' <=> K!InOrder(i)
      /\ \A i : K!TimeDiff(i)' = K!TimeDiff(i)
      /\ \A i : K!Jump(i)' = K!Jump(i)
      /\ \A i, put : PutBetween(i, put)' <=> PutBetween(i, put)
      /\ \A i : TooFar(i)' <=> TooFar(i)
  BY <1>1, PointsStay DEF TooFar, K!Hour
<1>7. /\ \A i \in 2..n : i \in 2..upTo \/ i = n
      /\ \A i \in 2..upTo : i \in 2..n /\ i # n
  BY <1>1
<1>8. totalSpeed' \in Int \cup {NaN}
  BY <1>3, <1>4 DEF K!Plus, KinTyped
<1>9. NoneMissed
  BY MissedIsTooFar
<1>10. (KinTyped => (K!MissedJumpNeedsDisorder <=> NoneMissed))'
  BY MissedIsTooFar, PTL
<1>11. \A i \in anomalies : PutBetween(i, estimated[i])
  BY DEF K!EstimateIsBetween, PutBetween
<1>12. (\A i \in anomalies' : PutBetween(i, estimated'[i])) => K!EstimateIsBetween'
  BY <1>1 DEF K!EstimateIsBetween, PutBetween, K!Amid
<1>13. CASE K!IsAnomaly(speed)
  <2>1. /\ anomalies' = anomalies \cup {n} /\ maxSpeed' = maxSpeed
    BY <1>3, <1>13
  <2>2. PICK place \in K!Estimates(n) : estimated' = [estimated EXCEPT ![n] = place]
    BY <1>3, <1>13
  <2>3. speed # NaN /\ speed > Limit
    BY <1>13 DEF K!IsAnomaly, K!Exceeds, Limit
  <2>4. /\ K!TimeDiff(n) > 0 /\ K!Jump(n) # NaN
        /\ K!Jump(n) * K!Hour > Limit * K!TimeDiff(n)
    BY <1>1, <1>4, <1>5, <2>3, LimitType
  <2>5. PutBetween(n, place)
    BY <1>2, <2>4, EstimateBetween
  <2>6. KinTyped'
    BY <1>1, <1>2, <1>8, <2>1, <2>2 DEF KinTyped
  <2>7. AverageSoFar'
    <3> SUFFICES ASSUME \A i \in 2..n : K!InOrder(i) /\ K!Jump(i) # NaN
                 PROVE  totalSpeed' # NaN /\ totalSpeed' >= 0
      BY <1>2, <1>6, <2>1 DEF AverageSoFar
    <3>1. totalSpeed # NaN /\ totalSpeed >= 0
      BY <1>7 DEF AverageSoFar
    <3>2. totalSpeed' = totalSpeed + speed
      BY <1>3, <2>3, <3>1 DEF K!Plus
    <3>3. totalSpeed \in Int /\ speed \in Int /\ speed >= 0
      BY <1>4, <2>3, <3>1, LimitType DEF KinTyped
    <3>4. QED BY <1>5, <3>1, <3>2, <3>3
  <2>8. K!MissedJumpNeedsDisorder'
    BY <1>6, <1>7, <1>9, <1>10, <2>1, <2>6 DEF NoneMissed
  <2>9. K!FlaggedIsJump'
    BY <1>1, <1>5, <1>6, <2>1, <2>4 DEF K!FlaggedIsJump, K!Hour, Limit
  <2>10. K!EstimateIsBetween'
    <3>1. ASSUME NEW i \in anomalies' PROVE PutBetween(i, estimated'[i])
      <4>1. CASE i = n
        BY <1>2, <2>2, <2>5, <4>1 DEF KinTyped
      <4>2. CASE i # n
        BY <1>11, <2>1, <2>2, <4>2
      <4>3. QED BY <4>1, <4>2
    <3>2. QED BY <1>12, <3>1
  <2>11. QED BY <2>6, <2>7, <2>8, <2>9, <2>10
<1>14. CASE ~K!IsAnomaly(speed)
  <2>1. /\ anomalies' = anomalies /\ estimated' = estimated
        /\ maxSpeed' = IF K!Exceeds(speed, maxSpeed) THEN speed ELSE maxSpeed
    BY <1>3, <1>14
  <2>2. KinTyped'
    BY <1>1, <1>4, <1>8, <2>1 DEF KinTyped, K!Exceeds
  <2>3. AverageSoFar'
    <3> SUFFICES ASSUME \A i \in 2..n : K!InOrder(i) /\ K!Jump(i) # NaN
                 PROVE  /\ totalSpeed' # NaN /\ totalSpeed' >= 0
                        /\ anomalies = {} => totalSpeed' <= maxSpeed' * (n - 1)
      BY <1>6, <2>1 DEF AverageSoFar
    <3>1. speed \in Nat
      BY <1>2, <1>4, <1>5
    <3>2. /\ totalSpeed # NaN /\ totalSpeed >= 0
          /\ anomalies = {} => totalSpeed <= maxSpeed * (upTo - 1)
      BY <1>7 DEF AverageSoFar
    <3>3. /\ maxSpeed \in Nat /\ maxSpeed' \in Nat /\ upTo - 1 \in Nat
          /\ maxSpeed <= maxSpeed' /\ speed <= maxSpeed'
      BY <1>1, <1>5, <2>1, <3>1 DEF KinTyped, K!Exceeds
    <3>4. maxSpeed * (upTo - 1) <= maxSpeed' * (upTo - 1)
      BY <3>3, ProductGrows
    <3>5. maxSpeed' * (n - 1) = maxSpeed' * (upTo - 1) + maxSpeed'
      <4>1. \A a, b \in Nat : a * (b + 1) = a * b + a
        OBVIOUS
      <4>2. n - 1 = (upTo - 1) + 1
        BY <1>1
      <4>3. QED BY <3>3, <4>1, <4>2
    <3>6. \A a, b \in Nat : a * b \in Nat
      OBVIOUS
    <3>7. maxSpeed * (upTo - 1) \in Nat /\ maxSpeed' * (upTo - 1) \in Nat
      BY <3>3, <3>6
    <3> DEFINE low == maxSpeed * (upTo - 1)
               high == maxSpeed' * (upTo - 1)
               next == maxSpeed' * (n - 1)
    <3>8. /\ low \in Nat /\ high \in Nat /\ low <= high /\ next = high + maxSpeed'
          /\ anomalies = {} => totalSpeed <= low
      BY <3>2, <3>4, <3>5, <3>7
    <3>9. totalSpeed' = totalSpeed + speed /\ totalSpeed \in Int
      BY <1>3, <1>5, <3>1, <3>2 DEF K!Plus, KinTyped
    <3> HIDE DEF low, high, next
    <3>10. totalSpeed' >= 0 /\ (anomalies = {} => totalSpeed' <= next)
      <4>1. totalSpeed' >= 0
        BY <3>1, <3>2, <3>9
      <4>2. ASSUME anomalies = {} PROVE totalSpeed' <= next
        <5>1. totalSpeed <= low
          BY <3>8, <4>2
        <5>2. totalSpeed + speed <= high + maxSpeed'
          <6>1. \A a, b, c, d, e \in Int : a <= b /\ b <= c /\ d <= e => a + d <= c + e
            OBVIOUS
          <6>2. totalSpeed \in Int /\ low \in Int /\ high \in Int /\ speed \in Int /\ maxSpeed' \in Int
            BY <3>1, <3>3, <3>8, <3>9
          <6>3. low <= high /\ speed <= maxSpeed'
            BY <3>3, <3>8
          <6>4. QED BY <5>1, <6>1, <6>2, <6>3, Zenon
        <5>3. QED BY <3>8, <3>9, <5>2
      <4>3. QED BY <4>1, <4>2
    <3>11. totalSpeed' # NaN
      BY <1>5, <3>1, <3>9
    <3>12. QED BY <3>10, <3>11 DEF next
  <2>4. ~TooFar(n)
    <3>1. ASSUME TooFar(n) PROVE FALSE
      <4>1. speed # NaN /\ speed > Limit
        BY <1>4, <1>5, <3>1 DEF TooFar
      <4>2. QED BY <1>5, <1>14, <4>1, LimitType DEF K!IsAnomaly, K!Exceeds, Limit
    <3>2. QED BY <3>1
  <2>5. K!MissedJumpNeedsDisorder'
    BY <1>6, <1>7, <1>9, <1>10, <2>1, <2>2, <2>4 DEF NoneMissed
  <2>6. K!FlaggedIsJump'
    BY <1>1, <1>6, <2>1 DEF K!FlaggedIsJump, K!Hour, Limit
  <2>7. K!EstimateIsBetween'
    BY <1>11, <1>12, <2>1
  <2>8. QED BY <2>2, <2>3, <2>5, <2>6, <2>7
<1>15. QED BY <1>13, <1>14

(***************************************************************************)
(* What AnalyzeTrack says of jumps, averages and estimates can be relied   *)
(* upon, but for points out of order or on opposite sides of the Earth:    *)
(* for tracks of any length, any places and any measure of the distance    *)
(* between them, and with whatever rounding (track_service.go, lines       *)
(* 53-144).                                                                *)
(***************************************************************************)
THEOREM Analysis == K!Spec => []AnalysisSound
<1>1. KinInv /\ [K!Next]_(K!kinematicsVars) => KinInv'
  <2>1. KinInv /\ UNCHANGED K!kinematicsVars => KinInv'
    BY PointsStay
       DEF K!kinematicsVars, KinInv, KinTyped, AverageSoFar, K!MissedJumpNeedsDisorder,
           K!FlaggedIsJump, K!EstimateIsBetween, K!Hour, Limit, K!Amid
  <2>2. QED BY <2>1, SkipKeeps, AnalyzeKeeps DEF K!Next, K!Done
<1>2. KinInv => AnalysisSound
  BY DEF KinInv, AverageSoFar, AnalysisSound, K!AnalysisSound, K!AverageNeedsOrder
<1>3. QED BY KinInvInit, <1>1, <1>2, PTL DEF K!Spec

-----------------------------------------------------------------------------
(* The delay of AddPoint (FeatureFlags, instance F).                       *)

Settable == F!Ints \cup {None, NotInt}

FlagTyped ==
    /\ flags \in [start : Settable, end : Settable]
    /\ at \in [Points -> {"start", "end", "wait", "draw", "done"}]
    /\ min \in [Points -> F!Ints \cup {0}]
    /\ max \in [Points -> F!Ints \cup {0}]
    /\ slept \in [Points -> Int]
    /\ changes \in [Points -> Nat]
    /\ ranges \in [Points -> SUBSET (Int \X Int)]

(***************************************************************************)
(* The range a call would read if it read the end now.  While no flag has  *)
(* changed since it read the start, the start is still the flag's; after   *)
(* one change, of either flag, the range is still one that was in force.   *)
(***************************************************************************)
Reading(p) == <<min[p], F!IntFeature(flags.end)>>

HalfReadBy(p) ==
    /\ at[p] = "start" => changes[p] = 0
    /\ at[p] = "end" /\ changes[p] = 0 => min[p] = F!IntFeature(flags.start)
    /\ at[p] = "end" /\ changes[p] < 2 => Reading(p) \in ranges[p]

HalfRead == \A p \in Points : HalfReadBy(p)

\* A call that draws is one that is delayed.
OnlyDelayed == \A p \in Points : at[p] = "draw" => F!Delayed(p)

FlagInv == FlagTyped /\ HalfRead /\ OnlyDelayed /\ F!DelaysSound

\* An int that is one is left alone by the arithmetic of ints.
LEMMA WrapKeeps == \A n \in F!Ints : F!Wrap(n) = n
<1> SUFFICES ASSUME NEW n \in F!Ints PROVE F!Wrap(n) = n
  OBVIOUS
<1>1. MaxInt \in Nat /\ n \in Int /\ n + MaxInt + 1 \in 0..(2 * MaxInt + 1)
  BY FlagAssumption DEF F!Ints
<1>2. \A m \in Nat : \A k \in 0..m : k % (m + 1) = k
  OBVIOUS
<1>3. (n + MaxInt + 1) % (2 * MaxInt + 2) = n + MaxInt + 1
  BY <1>1, <1>2
<1>4. QED BY <1>1, <1>3 DEF F!Wrap

LEMMA FeatureIsInt ==
    \A value \in Settable : F!IntFeature(value) \in F!Ints
BY FlagAssumption DEF Settable, F!IntFeature, F!Ints

\* A delayed call has a choice, and what it chooses is in the range.
LEMMA ChoicesExact ==
    ASSUME FlagTyped, NEW p \in Points, F!Delayed(p)
    PROVE  /\ F!Choices(p) = max[p] - min[p] + 1
           /\ F!Choices(p) > 0
           /\ F!Chosen(p) = min[p]..max[p]
           /\ min[p] \in Nat /\ max[p] \in Nat
<1>1. /\ MaxInt \in Nat /\ min[p] \in Int /\ max[p] \in Int
      /\ 0 < min[p] /\ min[p] < max[p] /\ max[p] <= MaxInt
  BY FlagAssumption DEF FlagTyped, F!Ints, F!Delayed
<1>2. max[p] - min[p] + 1 \in F!Ints
  BY <1>1 DEF F!Ints
<1>3. F!Choices(p) = max[p] - min[p] + 1
  BY <1>2, WrapKeeps DEF F!Choices
<1>4. min[p] + (max[p] - min[p] + 1) - 1 = max[p]
  BY <1>1
<1>5. QED BY <1>1, <1>3, <1>4 DEF F!Chosen

LEMMA FlagInvInit == F!Init => FlagInv
<1> SUFFICES ASSUME F!Init PROVE FlagInv
  OBVIOUS
<1> USE DEF F!Init
<1>1. FlagTyped
  BY FlagAssumption DEF FlagTyped, Settable, F!Ints
<1>2. HalfRead /\ OnlyDelayed
  BY DEF HalfRead, HalfReadBy, OnlyDelayed
<1>3. F!DelaysSound
  BY DEF F!DelaysSound, F!TornNeedsTwoChanges, F!PanicNeedsOverlap, F!SleepsWithinRange
<1>4. QED BY <1>1, <1>2, <1>3 DEF FlagInv

LEMMA SetFeatureKeeps == FlagInv /\ F!SetFeature => FlagInv'
<1> SUFFICES ASSUME FlagInv, F!SetFeature PROVE FlagInv'
  OBVIOUS
<1> USE DEF FlagInv
<1> DEFINE Converts == UNION {F!Converted(n) : n \in Numbers}
           Choices == Converts \cup {None, NotInt}
<1>0. Choices \subseteq Settable
  <2>1. MaxInt \in F!Ints /\ -MaxInt - 1 \in F!Ints
    BY FlagAssumption DEF F!Ints
  <2>2. \A n : F!Converted(n) \subseteq F!Ints
    BY <2>1 DEF F!Converted
  <2>3. \A value \in Converts : value \in F!Ints
    BY <2>2, Zenon
  <2> HIDE DEF Converts
  <2>4. QED BY <2>3 DEF Settable
<1>1. PICK name \in {"start", "end"}, value \in Settable : flags' = [flags EXCEPT ![name] = value]
  <2>1. \E name \in {"start", "end"} : \E value \in Choices :
            flags' = [flags EXCEPT ![name] = value]
    BY Zenon DEF F!SetFeature
  <2> HIDE DEF Choices
  <2>2. QED BY <1>0, <2>1
<1>2. UNCHANGED <<at, min, max, slept, overlapped, panicked>>
  BY DEF F!SetFeature
<1>3. flags' \in [start : Settable, end : Settable]
  BY <1>1 DEF FlagTyped
<1>4. F!Range(flags') \in Int \X Int
  BY <1>3, FeatureIsInt, FlagAssumption DEF F!Range, F!Ints
<1>5. FlagTyped'
  <2>1. ranges' \in [Points -> SUBSET (Int \X Int)] /\ changes' \in [Points -> Nat]
    BY <1>4 DEF FlagTyped, F!SetFeature
  <2>2. QED BY <1>2, <1>3, <2>1 DEF FlagTyped
<1>6. HalfRead'
  <2> SUFFICES ASSUME NEW p \in Points PROVE HalfReadBy(p)'
    BY DEF HalfRead, HalfReadBy
  <2>1. CASE at[p] # "end"
    BY <2>1, <1>2 DEF HalfRead, HalfReadBy, FlagTyped, F!SetFeature
  <2>2. CASE at[p] = "end"
    <3>1. /\ ranges'[p] = ranges[p] \cup {F!Range(flags')}
          /\ changes'[p] = changes[p] + 1 /\ changes[p] \in Nat
      BY <2>2 DEF F!SetFeature, FlagTyped
    <3>2. CASE changes[p] = 0
      <4>1. CASE name = "start"
        <5>1. flags'.end = flags.end
          BY <1>1, <4>1 DEF FlagTyped
        <5>2. QED BY <5>1, <3>1, <3>2, <2>2, <1>2 DEF HalfRead, HalfReadBy, Reading
      <4>2. CASE name = "end"
        <5>1. flags'.start = flags.start
          BY <1>1, <4>2 DEF FlagTyped
        <5>2. min'[p] = F!IntFeature(flags'.start)
          BY <5>1, <3>2, <2>2, <1>2 DEF HalfRead, HalfReadBy
        <5>3. QED BY <5>2, <3>1, <3>2, <2>2, <1>2 DEF HalfRead, HalfReadBy, Reading, F!Range
      <4>3. QED BY <1>1, <4>1, <4>2
    <3>3. CASE changes[p] # 0
      BY <3>1, <3>3, <2>2, <1>2 DEF HalfRead, HalfReadBy
    <3>4. QED BY <3>2, <3>3
  <2>3. QED BY <2>1, <2>2
<1>7. F!DelaysSound'
  BY <1>2 DEF F!DelaysSound, F!TornNeedsTwoChanges, F!PanicNeedsOverlap, F!SleepsWithinRange,
              F!Delayed, F!SetFeature
<1>8. OnlyDelayed'
  BY <1>2 DEF OnlyDelayed, F!Delayed
<1>9. QED BY <1>5, <1>6, <1>7, <1>8

LEMMA LoadStartKeeps == \A p \in Points : FlagInv /\ F!LoadStart(p) => FlagInv'
<1> SUFFICES ASSUME NEW p \in Points, FlagInv, F!LoadStart(p) PROVE FlagInv'
  OBVIOUS
<1> USE DEF FlagInv, F!LoadStart, F!Goto
<1>1. /\ F!IntFeature(flags.start) \in F!Ints /\ F!IntFeature(flags.end) \in F!Ints
      /\ F!Ints \subseteq Int
  BY FeatureIsInt, FlagAssumption DEF FlagTyped, F!Ints
<1>2. FlagTyped'
  <2>1. F!Range(flags) \in Int \X Int
    BY <1>1 DEF F!Range
  <2>2. ranges' \in [Points -> SUBSET (Int \X Int)]
    BY <2>1 DEF FlagTyped
  <2>3. QED BY <1>1, <2>2 DEF FlagTyped
<1>3. HalfRead' /\ OnlyDelayed'
  BY DEF HalfRead, HalfReadBy, FlagTyped, Reading, OnlyDelayed, F!Delayed, F!Range
<1>4. F!DelaysSound'
  BY DEF FlagTyped, F!DelaysSound, F!TornNeedsTwoChanges, F!PanicNeedsOverlap, F!SleepsWithinRange, F!Delayed
<1>5. QED BY <1>2, <1>3, <1>4

LEMMA LoadEndKeeps == \A p \in Points : FlagInv /\ F!LoadEnd(p) => FlagInv'
<1> SUFFICES ASSUME NEW p \in Points, FlagInv, F!LoadEnd(p) PROVE FlagInv'
  OBVIOUS
<1> USE DEF FlagInv, F!LoadEnd, F!Goto
<1>1. F!IntFeature(flags.end) \in F!Ints
  BY FeatureIsInt DEF FlagTyped
<1>2. FlagTyped'
  BY <1>1 DEF FlagTyped
<1>3. HalfRead' /\ OnlyDelayed'
  BY DEF HalfRead, HalfReadBy, FlagTyped, Reading, OnlyDelayed, F!Delayed
<1>4. F!DelaysSound'
  BY DEF HalfRead, HalfReadBy, Reading, FlagTyped, F!DelaysSound, F!TornNeedsTwoChanges, F!PanicNeedsOverlap,
         F!SleepsWithinRange, F!Delayed
<1>5. QED BY <1>2, <1>3, <1>4

LEMMA DoNotWaitKeeps == \A p \in Points : FlagInv /\ F!DoNotWait(p) => FlagInv'
<1> SUFFICES ASSUME NEW p \in Points, FlagInv, F!DoNotWait(p) PROVE FlagInv'
  OBVIOUS
<1> USE DEF FlagInv, F!DoNotWait, F!Goto, F!Delayed
<1>1. FlagTyped'
  BY DEF FlagTyped
<1>2. HalfRead' /\ OnlyDelayed'
  BY DEF HalfRead, HalfReadBy, Reading, FlagTyped, OnlyDelayed
<1>3. F!DelaysSound'
  BY DEF FlagTyped, F!DelaysSound, F!TornNeedsTwoChanges, F!PanicNeedsOverlap, F!SleepsWithinRange
<1>4. QED BY <1>1, <1>2, <1>3

\* No range is refused.
LEMMA NeverRefused == \A p \in Points : FlagInv => ~F!Refuse(p)
<1> SUFFICES ASSUME NEW p \in Points, FlagInv, F!Refuse(p) PROVE FALSE
  OBVIOUS
<1>1. F!Choices(p) > 0 /\ F!Choices(p) \in Int /\ F!Choices(p) <= 0
  BY ChoicesExact DEF FlagInv, F!Refuse
<1>2. QED BY <1>1

LEMMA DrawKeeps == \A p \in Points : FlagInv /\ F!Draw(p) => FlagInv'
<1> SUFFICES ASSUME NEW p \in Points, FlagInv, F!Draw(p) PROVE FlagInv'
  OBVIOUS
<1> USE DEF FlagInv, F!Draw, F!Goto
<1>1. FlagTyped'
  BY DEF FlagTyped
<1>2. HalfRead' /\ OnlyDelayed'
  BY DEF HalfRead, HalfReadBy, Reading, FlagTyped, OnlyDelayed, F!Delayed
<1>3. F!DelaysSound'
  BY DEF FlagTyped, F!DelaysSound, F!TornNeedsTwoChanges, F!PanicNeedsOverlap, F!SleepsWithinRange, F!Delayed
<1>4. QED BY <1>1, <1>2, <1>3

LEMMA WaitKeeps == \A p \in Points : FlagInv /\ F!Wait(p) => FlagInv'
<1> SUFFICES ASSUME NEW p \in Points, FlagInv, F!Wait(p) PROVE FlagInv'
  OBVIOUS
<1> USE DEF FlagInv, F!Wait, F!Goto
<1>1. HalfRead' /\ OnlyDelayed'
  BY DEF HalfRead, HalfReadBy, Reading, FlagTyped, OnlyDelayed, F!Delayed
<1>2. F!TornNeedsTwoChanges'
  BY DEF FlagTyped, F!DelaysSound, F!TornNeedsTwoChanges
<1>3. CASE panicked' = TRUE /\ overlapped /\ UNCHANGED slept
  BY <1>1, <1>2, <1>3
     DEF FlagTyped, F!DelaysSound, F!PanicNeedsOverlap, F!SleepsWithinRange
<1>4. CASE UNCHANGED panicked /\ \E v \in F!Chosen(p) : slept' = [slept EXCEPT ![p] = F!Wrap(v * Milli)]
  <2>0. F!Delayed(p)
    BY DEF OnlyDelayed
  <2>1. PICK v \in min[p]..max[p] : slept' = [slept EXCEPT ![p] = F!Wrap(v * Milli)]
    BY <1>4, <2>0, ChoicesExact
  <2>2. v \in Nat /\ min[p] \in Nat /\ max[p] \in Nat /\ Milli \in Nat /\ MaxInt \in Nat
    BY <2>1, <2>0, ChoicesExact, FlagAssumption
  <2>3. ASSUME max[p] * Milli <= MaxInt
        PROVE  F!Wrap(v * Milli) \in min[p] * Milli .. max[p] * Milli
    <3>1. min[p] * Milli <= v * Milli /\ v * Milli <= max[p] * Milli
      BY ProductGrows, <2>1, <2>2
    <3>2. v * Milli \in Nat /\ min[p] * Milli \in Nat /\ max[p] * Milli \in Nat
      BY <2>2
    <3>3. v * Milli \in F!Ints
      BY <2>2, <2>3, <3>1, <3>2 DEF F!Ints
    <3>4. QED BY <3>1, <3>2, <3>3, WrapKeeps
  <2>4. F!Wrap(v * Milli) \in Int
    <3>1. v * Milli + MaxInt + 1 \in Int /\ 2 * MaxInt + 2 \in Nat \ {0}
      BY <2>2
    <3>2. QED BY <3>1, <2>2 DEF F!Wrap
  <2>5. FlagTyped'
    BY <2>1, <2>4, <1>4 DEF FlagTyped
  <2>6. F!SleepsWithinRange'
    BY <2>1, <2>3, <1>4 DEF FlagTyped, F!DelaysSound, F!SleepsWithinRange, F!Delayed
  <2>7. F!PanicNeedsOverlap'
    BY <1>4 DEF F!DelaysSound, F!PanicNeedsOverlap
  <2>8. QED BY <1>1, <1>2, <2>5, <2>6, <2>7 DEF F!DelaysSound
<1>5. QED BY <1>3, <1>4

\* The delay of AddPoint is within a range that somebody set, whatever the
\* flags are changed to meanwhile, however wide an int is and however many calls
\* wait; and it ends the process only if two calls draw at the same time
\* (track_handler.go, lines 129-143).
THEOREM Delays == F!Spec => []DelaysSound
<1>1. FlagInv /\ [F!Next]_(F!flagVars) => FlagInv'
  <2>1. FlagInv /\ UNCHANGED F!flagVars => FlagInv'
    BY DEF FlagInv, FlagTyped, HalfRead, HalfReadBy, Reading, OnlyDelayed, F!flagVars, F!DelaysSound,
           F!TornNeedsTwoChanges, F!PanicNeedsOverlap, F!SleepsWithinRange, F!Delayed
  <2>2. ASSUME NEW p \in Points, FlagInv,
               F!LoadStart(p) \/ F!LoadEnd(p) \/ F!DoNotWait(p) \/ F!Refuse(p) \/ F!Draw(p) \/ F!Wait(p)
        PROVE  FlagInv'
    BY <2>2, LoadStartKeeps, LoadEndKeeps, DoNotWaitKeeps, NeverRefused, DrawKeeps, WaitKeeps
  <2>3. QED BY <2>1, <2>2, SetFeatureKeeps DEF F!Next, F!Ended
<1>2. FlagInv => DelaysSound
  BY DEF FlagInv, DelaysSound
<1>3. QED BY FlagInvInit, <1>1, <1>2, PTL DEF F!Spec

=============================================================================
