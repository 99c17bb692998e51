------------------------- MODULE DriverServiceProofs -------------------------
(***************************************************************************)
(* Proofs about DriverService, for any sets of drivers and requests, any   *)
(* circle, any Count and any number of retries, with and without faults.   *)
(***************************************************************************)
EXTENDS DriverService, TLAPS

\* A write that has begun has a driver, and drivers are what is unsettled.
HasDriver ==
    /\ \A r \in Writes : pc[r] # "idle" => driver[r] \in Drivers
    /\ \A r \in alone : pc[r] # "idle"

Typed == TypeOK /\ HasDriver

(***************************************************************************)
(* One step of a write r, whatever its command, seen from its driver: it   *)
(* goes on, ends, or is abandoned, and touches no other driver.            *)
(***************************************************************************)
WriterStep(r) ==
    /\ pc[r] \in Writing
    /\ pc' = [pc EXCEPT ![r] = pc'[r]]
    /\ pc'[r] \in Writing \cup Ended
    /\ tries' \in [Requests -> 0..MaxRetries]
    /\ driver' = driver
    /\ index' \in [Drivers -> Location]
    /\ record' \in [Drivers -> Location]
    /\ \A d \in Drivers \ {driver[r]} : index'[d] = index[d] /\ record'[d] = record[d]
    /\ handed' \subseteq Updates
    /\ UNCHANGED <<pending, result, steady>>
    /\ \/ pc'[r] \in Writing /\ UNCHANGED <<alone, unsettled>>
       \/ pc'[r] \in Ended /\ EndWrite(r)
       \/ pc'[r] \in Ended /\ AbortWrites({r})

LEMMA TriesStayBounded ==
    ASSUME TypeOK, NEW r \in Requests,
           \/ tries' = [tries EXCEPT ![r] = 0]
           \/ tries[r] < MaxRetries /\ tries' = [tries EXCEPT ![r] = @ + 1]
           \/ tries' = tries
    PROVE  tries' \in [Requests -> 0..MaxRetries]
<1> USE DriverAssumption DEF TypeOK
<1>1. CASE tries' = [tries EXCEPT ![r] = 0]
  BY <1>1
<1>2. CASE tries[r] < MaxRetries /\ tries' = [tries EXCEPT ![r] = @ + 1]
  <2>1. tries[r] + 1 \in 0..MaxRetries
    BY <1>2
  <2>2. QED
    BY <1>2, <2>1
<1>3. CASE tries' = tries
  BY <1>3
<1>4. QED
  BY <1>1, <1>2, <1>3

LEMMA SetRecordIsWriterStep ==
    ASSUME Typed, NEW u \in Updates, SetRecord(u)
    PROVE  WriterStep(u)
<1> USE DEF Typed, TypeOK, HasDriver, Requests, Writes, SetRecord, Execute,
        LoseReply, Goto, Writing, Running, Ended, Location
<1>1. driver[u] \in Drivers
  OBVIOUS
<1>2. tries' \in [Requests -> 0..MaxRetries]
  BY TriesStayBounded
<1>3. record' \in [Drivers -> Location]
      /\ \A d \in Drivers \ {driver[u]} : record'[d] = record[d]
  BY <1>1
<1>4. /\ pc[u] \in Writing /\ pc' = [pc EXCEPT ![u] = pc'[u]]
      /\ \/ pc'[u] \in Writing /\ UNCHANGED <<alone, unsettled>>
         \/ pc'[u] \in Ended /\ EndWrite(u)
         \/ pc'[u] \in Ended /\ AbortWrites({u})
  OBVIOUS
<1>5. UNCHANGED <<driver, index, handed, pending, result, steady>>
  BY DEF queries
<1>6. QED
  BY <1>2, <1>3, <1>4, <1>5 DEF WriterStep

LEMMA GeoAddIsWriterStep ==
    ASSUME Typed, NEW u \in Updates, GeoAdd(u)
    PROVE  WriterStep(u)
<1> USE DEF Typed, TypeOK, HasDriver, Requests, Writes, GeoAdd, Execute,
        LoseReply, Goto, Writing, Running, Ended, Location
<1>1. driver[u] \in Drivers
  OBVIOUS
<1>2. tries' \in [Requests -> 0..MaxRetries]
  BY TriesStayBounded
<1>3. index' \in [Drivers -> Location]
      /\ \A d \in Drivers \ {driver[u]} : index'[d] = index[d]
  BY <1>1
<1>4. /\ pc[u] \in Writing /\ pc' = [pc EXCEPT ![u] = pc'[u]]
      /\ \/ pc'[u] \in Writing /\ UNCHANGED <<alone, unsettled>>
         \/ pc'[u] \in Ended /\ AbortWrites({u})
  OBVIOUS
<1>5. UNCHANGED <<driver, record, pending, result, steady>>
      /\ handed' \subseteq Updates
  BY DEF queries
<1>6. QED
  BY <1>2, <1>3, <1>4, <1>5 DEF WriterStep

LEMMA GoSendIsWriterStep ==
    ASSUME Typed, NEW u \in Updates, GoSend(u)
    PROVE  WriterStep(u)
<1> USE DEF Typed, TypeOK, HasDriver, Requests, Writes, GoSend, Goto, Writing,
        Running, Ended
<1>1. /\ pc[u] \in Writing /\ pc' = [pc EXCEPT ![u] = pc'[u]]
      /\ pc'[u] \in Writing /\ UNCHANGED <<alone, unsettled>>
  OBVIOUS
<1>2. UNCHANGED <<driver, tries, index, record, pending, result, steady>>
      /\ handed' \subseteq Updates
  BY DEF queries
<1>3. QED
  BY <1>1, <1>2 DEF WriterStep

LEMMA ZRemIsWriterStep ==
    ASSUME Typed, NEW x \in Removals, ZRem(x)
    PROVE  WriterStep(x)
<1> USE DEF Typed, TypeOK, HasDriver, Requests, Writes, ZRem, Execute,
        LoseReply, Goto, Writing, Running, Ended, Location
<1>1. driver[x] \in Drivers
  OBVIOUS
<1>2. tries' \in [Requests -> 0..MaxRetries]
  BY TriesStayBounded
<1>3. index' \in [Drivers -> Location]
      /\ \A d \in Drivers \ {driver[x]} : index'[d] = index[d]
  BY <1>1
<1>4. /\ pc[x] \in Writing /\ pc' = [pc EXCEPT ![x] = pc'[x]]
      /\ \/ pc'[x] \in Writing /\ UNCHANGED <<alone, unsettled>>
         \/ pc'[x] \in Ended /\ AbortWrites({x})
  OBVIOUS
<1>5. UNCHANGED <<driver, record, handed, pending, result, steady>>
  BY DEF queries
<1>6. QED
  BY <1>2, <1>3, <1>4, <1>5 DEF WriterStep

LEMMA DelIsWriterStep ==
    ASSUME Typed, NEW x \in Removals, Del(x)
    PROVE  WriterStep(x)
<1> USE DEF Typed, TypeOK, HasDriver, Requests, Writes, Del, Execute,
        LoseReply, Goto, Writing, Running, Ended, Location
<1>1. driver[x] \in Drivers
  OBVIOUS
<1>2. tries' \in [Requests -> 0..MaxRetries]
  BY TriesStayBounded
<1>3. record' \in [Drivers -> Location]
      /\ \A d \in Drivers \ {driver[x]} : record'[d] = record[d]
  BY <1>1
<1>4. /\ pc[x] \in Writing /\ pc' = [pc EXCEPT ![x] = pc'[x]]
      /\ \/ pc'[x] \in Writing /\ UNCHANGED <<alone, unsettled>>
         \/ pc'[x] \in Ended /\ EndWrite(x)
         \/ pc'[x] \in Ended /\ AbortWrites({x})
  OBVIOUS
<1>5. UNCHANGED <<driver, index, handed, pending, result, steady>>
  BY DEF queries
<1>6. QED
  BY <1>2, <1>3, <1>4, <1>5 DEF WriterStep

LEMMA FailIsWriterStep ==
    ASSUME Typed, NEW r \in Writes, FailWrite(r)
    PROVE  WriterStep(r)
BY DriverAssumption DEF Typed, TypeOK, HasDriver, Requests, FailWrite, WriterStep, Writing,
       Running, Ended, queries

LEMMA EveryWriterStep ==
    ASSUME Typed, NEW r \in Writes,
           \/ r \in Updates /\ (GeoAdd(r) \/ GoSend(r) \/ SetRecord(r))
           \/ r \in Removals /\ (ZRem(r) \/ Del(r))
           \/ FailWrite(r)
    PROVE  WriterStep(r)
BY GeoAddIsWriterStep, GoSendIsWriterStep, SetRecordIsWriterStep,
   ZRemIsWriterStep, DelIsWriterStep, FailIsWriterStep

-----------------------------------------------------------------------------
\* Typing: every request stays in its places and every key keeps its type.
THEOREM TypeCorrect == Spec => []Typed
<1> USE DEF Typed, HasDriver
<1>1. Init => Typed
  BY DriverAssumption DEF Init, TypeOK, Requests, Writes, Location
<1>2. Typed /\ [Next]_vars => Typed'
  <2> SUFFICES ASSUME Typed, [Next]_vars PROVE Typed'
    OBVIOUS
  <2>1. ASSUME NEW r \in Writes, WriterStep(r) PROVE Typed'
    <3>1. driver[r] \in Drivers
      BY <2>1 DEF WriterStep, Writing
    <3>2. unsettled' \subseteq Drivers /\ alone' \subseteq alone
      BY <2>1, <3>1 DEF WriterStep, TypeOK, EndWrite, AbortWrites
    <3>3. \A s \in Requests : pc'[s] = "idle" <=> pc[s] = "idle"
      BY <2>1 DEF WriterStep, TypeOK, Requests, Writing, Ended
    <3>4. pc' \in [Requests -> {"idle"} \cup Running \cup Ended]
      BY <2>1 DEF WriterStep, TypeOK, Requests, Running
    <3>5. HasDriver'
      BY <2>1, <3>2, <3>3 DEF WriterStep, TypeOK, Requests
    <3>6. TypeOK'
      BY <2>1, <3>2, <3>4 DEF WriterStep, TypeOK
    <3>7. QED BY <3>5, <3>6
  <2>2. ASSUME NEW r \in Writes, NEW d \in Drivers, BeginWrite(r, d),
               Goto(r, "idle", "GeoAdd") \/ Goto(r, "idle", "ZRem")
        PROVE  Typed'
    <3>1. /\ pc' \in [Requests -> {"idle"} \cup Running \cup Ended]
          /\ \A s \in Requests \ {r} : pc'[s] = pc[s]
          /\ pc'[r] # "idle"
      BY <2>2 DEF Goto, TypeOK, Requests, Running, Writing
    <3>2. driver' \in [Writes -> Drivers \cup {None}]
          /\ \A s \in Writes : driver'[s] = IF s = r THEN d ELSE driver[s]
      BY <2>2 DEF BeginWrite, TypeOK
    <3>3. alone' \subseteq alone \cup {r}
      BY <2>2 DEF BeginWrite
    <3>4. steady' \in [Queries -> SUBSET Drivers]
      BY <2>2 DEF BeginWrite, TypeOK
    <3>5. UNCHANGED <<tries, index, record, handed, pending, result, unsettled>>
      BY <2>2 DEF BeginWrite, queries
    <3>6. HasDriver'
      <4>1. ASSUME NEW s \in Writes, pc'[s] # "idle" PROVE driver'[s] \in Drivers
        BY <3>1, <3>2, <4>1 DEF Requests
      <4>2. ASSUME NEW s \in alone' PROVE pc'[s] # "idle"
        <5>1. CASE s = r
          BY <3>1, <5>1
        <5>2. CASE s # r
          <6>1. s \in alone /\ s \in Requests \ {r}
            BY <3>3, <4>2, <5>2 DEF TypeOK, Requests
          <6>2. QED BY <3>1, <6>1
        <5>3. QED BY <5>1, <5>2
      <4>3. QED BY <4>1, <4>2
    <3>7. TypeOK'
      BY <3>1, <3>2, <3>3, <3>4, <3>5 DEF TypeOK
    <3>8. QED BY <3>6, <3>7
  <2>3. ASSUME NEW q \in Queries, QueryStep(q) PROVE Typed'
    <3> USE DEF TypeOK, Requests, Running, Ended, Goto, queries
    <3>1. CASE BeginQuery(q) \/ EndQuery(q) \/ FailQuery(q)
      <4>1. pc' \in [Requests -> {"idle"} \cup Running \cup Ended]
            /\ \A r \in Writes : pc'[r] = pc[r]
        BY <3>1, DriverAssumption DEF BeginQuery, EndQuery, FailQuery
      <4>2. UNCHANGED <<driver, tries, index, record, handed, pending, result,
                        alone, unsettled, steady>>
        BY <3>1 DEF BeginQuery, EndQuery, FailQuery
      <4>3. QED BY <4>1, <4>2
    <3>2. CASE GeoRadius(q)
      BY <2>3, <3>2 DEF GeoRadius
    <3>3. ASSUME NEW d \in Drivers, Get(q, d) PROVE Typed'
      <4>1. record[d] # None => <<d, record[d]>> \in Drivers \X Updates
        BY <3>3 DEF Location
      <4>2. QED
        BY <2>3, <3>3, <4>1 DEF Get
    <3>4. QED
      BY <2>3, <3>1, <3>2, <3>3 DEF QueryStep
  <2>4. CASE Crash
    BY <2>4, DriverAssumption
       DEF Crash, AbortWrites, TypeOK, Requests, Running, Ended, Writing, queries
  <2>5. CASE UNCHANGED vars
    BY <2>5 DEF vars, TypeOK
  <2>6. QED
    BY <2>1, <2>2, <2>3, <2>4, <2>5, EveryWriterStep
       DEF Next, UpdateStep, RemovalStep, BeginUpdate, BeginRemoval, Terminated,
           Writes
<1>3. QED
  BY <1>1, <1>2, PTL DEF Spec

\* Each variable keeps its type, however writes and queries interleave (the
\* code of UpdateLocation, FindNearby and RemoveDriver).
THEOREM TypesKept == Spec => []TypeOK
BY TypeCorrect, PTL DEF Typed

-----------------------------------------------------------------------------
(***************************************************************************)
(* The inductive invariant of the two copies of a position.                *)
(***************************************************************************)

\* A write marked as alone is the only one at work on its driver.
AloneIsOnly ==
    \A r \in alone : pc[r] \in Writing /\ Writers(driver[r]) = {r}

\* Between its two commands, a lone write has done the first of them.
AloneHalfway ==
    \A r \in alone :
        /\ pc[r] \in {"Go", "Set"} => index[driver[r]] = r
        /\ pc[r] = "Del" => index[driver[r]] = None

\* A driver marked as steady has stayed settled and in the circle.
SteadyIsSettled ==
    \A q \in Queries : \A d \in steady[q] :
        d \notin unsettled /\ Writers(d) = {} /\ index[d] \in Nearby

IInv == AloneIsOnly /\ AloneHalfway /\ SettledAgree /\ SteadyIsSettled

LEMMA AbortOne ==
    ASSUME NEW r, AbortWrites({r})
    PROVE  driver[r] \in unsettled'
BY DEF AbortWrites

LEMMA WritersAfterStep ==
    ASSUME Typed, NEW r \in Writes, WriterStep(r)
    PROVE  /\ r \in Writers(driver[r])
           /\ pc'[r] \in Writing => \A d : Writers(d)' = Writers(d)
           /\ \A d : d # driver[r] => Writers(d)' = Writers(d)
           /\ \A d : Writers(d)' \subseteq Writers(d)
BY DEF WriterStep, Writers, Typed, TypeOK, Requests, Writing, Ended

(***************************************************************************)
(* A write keeps the invariant if, should it be alone, it leaves the first *)
(* copy as announced and the two copies equal when it ends.                *)
(***************************************************************************)
LEMMA WriterStepKeeps ==
    ASSUME Typed, IInv, NEW r \in Writes, WriterStep(r),
           r \in alone' => /\ pc'[r] \in {"Go", "Set"} => index'[driver[r]] = r
                           /\ pc'[r] = "Del" => index'[driver[r]] = None,
           r \in alone /\ pc'[r] = "ok" => index'[driver[r]] = record'[driver[r]],
           pc'[r] = "failed" => driver[r] \in unsettled'
    PROVE  IInv'
<1> USE DEF IInv
<1> DEFINE D == driver[r]
<1>1. /\ D \in Drivers /\ r \in Writers(D) /\ pc'[r] \in Writing \cup Ended
      /\ driver' = driver /\ steady' = steady /\ alone' \subseteq alone
      /\ \A s \in Writes \ {r} : pc'[s] = pc[s]
      /\ \A d \in Drivers \ {D} : index'[d] = index[d] /\ record'[d] = record[d]
  BY WritersAfterStep DEF WriterStep, Typed, HasDriver, TypeOK, Writing, EndWrite,
     AbortWrites, Requests
<1>2. /\ pc'[r] \in Writing => \A d : Writers(d)' = Writers(d)
      /\ \A d : d # D => Writers(d)' = Writers(d)
      /\ Writers(D)' \subseteq Writers(D)
  <2>1. ASSUME pc'[r] \in Writing, NEW d PROVE Writers(d)' = Writers(d)
    BY <2>1, WritersAfterStep
  <2>2. ASSUME NEW d, d # D PROVE Writers(d)' = Writers(d)
    BY <2>2, WritersAfterStep
  <2>3. Writers(D)' \subseteq Writers(D)
    BY <1>1, WritersAfterStep DEF Writers
  <2>4. QED BY <2>1, <2>2, <2>3
<1>3. /\ unsettled' \in {unsettled, unsettled \ {D}, unsettled \cup {D}}
      /\ pc'[r] \notin Writing => r \notin alone'
      /\ pc'[r] \notin Writing => D \in unsettled' \/ (r \in alone /\ pc'[r] = "ok")
  BY DEF WriterStep, EndWrite, AbortWrites, Writing, Ended
<1>4. ASSUME NEW s \in alone', s # r
      PROVE  /\ s \in Writes /\ s \in alone /\ driver[s] # D
             /\ driver[s] \in Drivers /\ pc'[s] = pc[s]
  <2>1. s \in Writes /\ s \in alone
    BY <1>1, <1>4 DEF Typed, TypeOK
  <2>2. Writers(driver[s]) = {s}
    BY <2>1 DEF AloneIsOnly
  <2>3. pc[s] # "idle" /\ driver[s] \in Drivers
    BY <2>1 DEF Typed, HasDriver
  <2>4. QED BY <1>1, <1>4, <2>1, <2>2, <2>3
<1>5. AloneIsOnly'
  <2> SUFFICES ASSUME NEW s \in alone'
               PROVE  pc'[s] \in Writing /\ Writers(driver[s])' = {s}
    BY <1>1 DEF AloneIsOnly
  <2>1. CASE s = r
    BY <1>1, <1>2, <1>3, <2>1 DEF AloneIsOnly
  <2>2. CASE s # r
    <3>1. s \in alone /\ driver[s] # D /\ pc'[s] = pc[s]
      BY <1>4, <2>2
    <3>2. QED BY <1>2, <3>1 DEF AloneIsOnly, Writers
  <2>3. QED BY <2>1, <2>2
<1>6. AloneHalfway'
  <2> SUFFICES ASSUME NEW s \in alone'
               PROVE  /\ pc'[s] \in {"Go", "Set"} => index'[driver[s]] = s
                      /\ pc'[s] = "Del" => index'[driver[s]] = None
    BY <1>1 DEF AloneHalfway
  <2>1. CASE s = r
    BY <1>1, <2>1
  <2>2. CASE s # r
    <3>1. /\ s \in alone /\ pc'[s] = pc[s]
          /\ index'[driver[s]] = index[driver[s]]
      BY <1>1, <1>4, <2>2
    <3>2. QED BY <3>1 DEF AloneHalfway
  <2>3. QED BY <2>1, <2>2
<1>7. SettledAgree'
  <2> SUFFICES ASSUME NEW d \in Drivers, d \notin unsettled', Writers(d)' = {}
               PROVE  index'[d] = record'[d]
    BY DEF SettledAgree
  <2>1. CASE d = D
    BY <1>1, <1>2, <1>3, <2>1
  <2>2. CASE d # D
    BY <1>1, <1>2, <1>3, <2>2 DEF SettledAgree
  <2>3. QED BY <2>1, <2>2
<1>8. SteadyIsSettled'
  <2> SUFFICES ASSUME NEW q \in Queries, NEW d \in steady[q]
               PROVE  d \notin unsettled' /\ Writers(d)' = {} /\ index'[d] \in Nearby
    BY <1>1 DEF SteadyIsSettled
  <2>1. d \in Drivers /\ d # D
    BY <1>1 DEF SteadyIsSettled, Typed, TypeOK
  <2>2. QED
    BY <1>1, <1>2, <1>3, <2>1 DEF SteadyIsSettled
<1>9. QED BY <1>5, <1>6, <1>7, <1>8

LEMMA BeginWriteKeeps ==
    ASSUME Typed, IInv, NEW r \in Writes, NEW d \in Drivers, BeginWrite(r, d),
           NEW to \in {"GeoAdd", "ZRem"}, Goto(r, "idle", to)
    PROVE  IInv'
<1> USE DEF IInv
<1>1. /\ pc[r] = "idle" /\ pc'[r] = to /\ driver'[r] = d
      /\ \A s \in Writes \ {r} : pc'[s] = pc[s] /\ driver'[s] = driver[s]
      /\ UNCHANGED <<index, record, unsettled>>
  BY DEF Typed, TypeOK, Goto, BeginWrite, Requests
<1>2. /\ \A s \in Writes : s \in alone' =>
            IF s = r THEN Writers(d) = {} ELSE s \in alone /\ driver[s] # d
      /\ \A q \in Queries : steady'[q] = steady[q] \ {d}
  <2>1. ASSUME NEW s \in Writes, s \in alone'
        PROVE  IF s = r THEN Writers(d) = {} ELSE s \in alone /\ driver[s] # d
    <3>1. r \notin alone
      BY <1>1 DEF Typed, HasDriver
    <3>2. CASE s = r
      BY <2>1, <3>1, <3>2 DEF BeginWrite
    <3>3. CASE s # r
      <4>1. s \in alone /\ s \notin Writers(d)
        BY <2>1, <3>3 DEF BeginWrite
      <4>2. s \in Writers(driver[s])
        BY <4>1 DEF AloneIsOnly
      <4>3. QED BY <3>3, <4>1, <4>2
    <3>4. QED BY <3>2, <3>3
  <2>2. \A q \in Queries : steady'[q] = steady[q] \ {d}
    BY DEF BeginWrite
  <2>3. QED BY <2>1, <2>2
<1>3. ASSUME NEW c \in Drivers, c # d
      PROVE  {s \in Writes : driver'[s] = c /\ pc'[s] \in Writing} = Writers(c)
  BY <1>1, <1>3 DEF Writers, Writing
<1>4. {s \in Writes : driver'[s] = d /\ pc'[s] \in Writing} = Writers(d) \cup {r}
  BY <1>1 DEF Writers, Writing
<1>5. alone' \subseteq Writes
  BY DEF BeginWrite, Typed, TypeOK
<1>6. ASSUME NEW s \in alone', s # r
      PROVE  /\ s \in Writes /\ s \in alone /\ driver[s] # d
             /\ driver[s] \in Drivers /\ pc'[s] = pc[s] /\ driver'[s] = driver[s]
  <2>1. s \in Writes /\ s \in alone /\ driver[s] # d
    BY <1>2, <1>5, <1>6
  <2>2. pc[s] # "idle" /\ driver[s] \in Drivers
    BY <2>1 DEF Typed, HasDriver
  <2>3. QED BY <1>1, <1>6, <2>1, <2>2
<1>7. AloneIsOnly'
  <2> SUFFICES ASSUME NEW s \in alone'
               PROVE  /\ pc'[s] \in Writing
                      /\ {w \in Writes : driver'[w] = driver'[s] /\ pc'[w] \in Writing} = {s}
    BY DEF AloneIsOnly, Writers
  <2>1. CASE s = r
    BY <1>1, <1>2, <1>4, <2>1 DEF Writing
  <2>2. CASE s # r
    <3>1. pc[s] \in Writing /\ Writers(driver[s]) = {s}
      BY <1>6, <2>2 DEF AloneIsOnly
    <3>2. QED BY <1>3, <1>6, <2>2, <3>1
  <2>3. QED BY <2>1, <2>2
<1>8. AloneHalfway'
  <2> SUFFICES ASSUME NEW s \in alone'
               PROVE  /\ pc'[s] \in {"Go", "Set"} => index'[driver'[s]] = s
                      /\ pc'[s] = "Del" => index'[driver'[s]] = None
    BY DEF AloneHalfway
  <2>1. CASE s = r
    BY <1>1, <2>1
  <2>2. CASE s # r
    BY <1>1, <1>6, <2>2 DEF AloneHalfway
  <2>3. QED BY <2>1, <2>2
<1>9. SettledAgree'
  <2> SUFFICES ASSUME NEW c \in Drivers, c \notin unsettled',
                      {s \in Writes : driver'[s] = c /\ pc'[s] \in Writing} = {}
               PROVE  index'[c] = record'[c]
    BY DEF SettledAgree, Writers
  <2>1. c # d
    BY <1>4
  <2>2. QED
    BY <1>1, <1>3, <2>1 DEF SettledAgree
<1>10. SteadyIsSettled'
  <2> SUFFICES ASSUME NEW q \in Queries, NEW c \in steady'[q]
               PROVE  /\ c \notin unsettled' /\ index'[c] \in Nearby
                      /\ {s \in Writes : driver'[s] = c /\ pc'[s] \in Writing} = {}
    BY DEF SteadyIsSettled, Writers
  <2>1. c \in steady[q] /\ c # d /\ c \in Drivers
    BY <1>2 DEF Typed, TypeOK
  <2>2. QED
    BY <1>1, <1>3, <2>1 DEF SteadyIsSettled
<1>11. QED BY <1>7, <1>8, <1>9, <1>10

\* Steps that no write notices and by which no query marks a driver.
LEMMA QuietKeeps ==
    ASSUME IInv, \A r \in Writes : pc'[r] = pc[r],
           UNCHANGED <<driver, index, record, alone, unsettled>>,
           \A q \in Queries : steady'[q] \subseteq steady[q],
           alone \subseteq Writes
    PROVE  IInv'
<1>1. \A d : {s \in Writes : driver'[s] = d /\ pc'[s] \in Writing} = Writers(d)
  BY DEF Writers
<1>2. AloneIsOnly' /\ AloneHalfway'
  BY <1>1 DEF IInv, AloneIsOnly, AloneHalfway, Writers
<1>3. SettledAgree' /\ SteadyIsSettled'
  BY <1>1 DEF IInv, SettledAgree, SteadyIsSettled, Writers
<1>4. QED BY <1>2, <1>3 DEF IInv

LEMMA GeoRadiusKeeps ==
    ASSUME Typed, IInv, NEW q \in Queries, GeoRadius(q)
    PROVE  IInv'
<1>1. /\ \A r \in Writes : pc'[r] = pc[r]
      /\ UNCHANGED <<driver, index, record, alone, unsettled>>
  BY DriverAssumption DEF GeoRadius, Goto, Typed, TypeOK, Requests
<1>2. \A d : {s \in Writes : driver'[s] = d /\ pc'[s] \in Writing} = Writers(d)
  BY <1>1 DEF Writers
<1>3. AloneIsOnly' /\ AloneHalfway' /\ SettledAgree'
  BY <1>1, <1>2 DEF IInv, AloneIsOnly, AloneHalfway, SettledAgree, Writers, Typed, TypeOK
<1>4. PICK S \in SUBSET {d \in Drivers : index[d] \in Nearby} :
         steady' = [steady EXCEPT ![q] = {d \in S : d \notin unsettled /\ Writers(d) = {}}]
  BY DEF GeoRadius
<1>5. SteadyIsSettled'
  <2> SUFFICES ASSUME NEW p \in Queries, NEW d \in steady'[p]
               PROVE  /\ d \notin unsettled' /\ index'[d] \in Nearby
                      /\ {s \in Writes : driver'[s] = d /\ pc'[s] \in Writing} = {}
    BY DEF SteadyIsSettled, Writers
  <2>1. CASE p = q
    BY <1>1, <1>2, <1>4, <2>1 DEF Typed, TypeOK
  <2>2. CASE p # q
    <3>1. d \in steady[p]
      BY <1>4, <2>2 DEF Typed, TypeOK
    <3>2. QED
      BY <1>1, <1>2, <3>1 DEF IInv, SteadyIsSettled
  <2>3. QED BY <2>1, <2>2
<1>6. QED BY <1>3, <1>5 DEF IInv

LEMMA CrashKeeps ==
    ASSUME Typed, IInv, Crash
    PROVE  IInv'
<1>1. /\ UNCHANGED <<driver, index, record, steady>>
      /\ \A r \in Writes : pc'[r] = IF pc[r] \in Running THEN "failed" ELSE pc[r]
      /\ alone' = {}
      /\ \A r \in Writes : pc[r] \in Writing => driver[r] \in unsettled'
      /\ unsettled' = unsettled \cup {driver[r] : r \in {s \in Writes : pc[s] \in Writing}}
  BY DEF Crash, AbortWrites, Requests, IInv, AloneIsOnly, Typed, TypeOK
<1>2. AloneIsOnly' /\ AloneHalfway'
  BY <1>1 DEF AloneIsOnly, AloneHalfway
<1>3. SettledAgree'
  <2> SUFFICES ASSUME NEW d \in Drivers, d \notin unsettled' PROVE index'[d] = record'[d]
    BY DEF SettledAgree
  <2>1. d \notin unsettled /\ Writers(d) = {}
    BY <1>1 DEF Writers
  <2>2. QED BY <1>1, <2>1 DEF IInv, SettledAgree
<1>4. SteadyIsSettled'
  <2> SUFFICES ASSUME NEW q \in Queries, NEW d \in steady[q]
               PROVE  /\ d \notin unsettled' /\ index'[d] \in Nearby
                      /\ {s \in Writes : driver'[s] = d /\ pc'[s] \in Writing} = {}
    BY <1>1 DEF SteadyIsSettled, Writers
  <2>1. d \notin unsettled /\ Writers(d) = {} /\ index[d] \in Nearby
    BY DEF IInv, SteadyIsSettled
  <2>2. QED
    BY <1>1, <2>1 DEF Writers, Writing, Running
<1>5. QED BY <1>2, <1>3, <1>4 DEF IInv

THEOREM InductiveInvariant == Spec => []IInv
<1>1. Init => IInv
  BY DEF Init, IInv, AloneIsOnly, AloneHalfway, SettledAgree, SteadyIsSettled
<1>2. Typed /\ IInv /\ [Next]_vars => IInv'
  <2> SUFFICES ASSUME Typed, IInv, [Next]_vars PROVE IInv'
    OBVIOUS
  <2>0. alone \subseteq Writes
    BY DEF Typed, TypeOK
  <2>1. ASSUME NEW u \in Updates, UpdateStep(u) PROVE IInv'
    <3>0. u \in Writes /\ u # None
      BY DriverAssumption DEF Writes
    <3>1. CASE GeoAdd(u)
      <4>1. /\ pc[u] = "GeoAdd" /\ u \in Requests /\ driver[u] \in Drivers
        BY <3>0, <3>1 DEF GeoAdd, Execute, LoseReply, Goto, Typed, TypeOK, HasDriver,
                       Requests
      <4>2. WriterStep(u)
        BY <3>1, GeoAddIsWriterStep
      <4>3. index'[driver[u]] = u
        BY <3>1, <4>1 DEF GeoAdd, Execute, LoseReply, Typed, TypeOK
      <4>4. /\ pc'[u] \in {"GeoAdd", "Go", "failed"}
            /\ pc'[u] = "failed" => driver[u] \in unsettled'
        BY <3>1, <4>1, AbortOne
           DEF GeoAdd, Execute, LoseReply, Goto, Typed, TypeOK
      <4>5. QED BY <3>0, <4>2, <4>3, <4>4, WriterStepKeeps
    <3>2. CASE SetRecord(u)
      <4>1. /\ pc[u] = "Set" /\ u \in Requests /\ driver[u] \in Drivers
        BY <3>0, <3>2 DEF SetRecord, Execute, LoseReply, Goto, Typed, TypeOK, HasDriver,
                       Requests
      <4>2. WriterStep(u)
        BY <3>2, SetRecordIsWriterStep
      <4>3. index' = index /\ record'[driver[u]] = u
        BY <3>2, <4>1 DEF SetRecord, Execute, LoseReply, Typed, TypeOK
      <4>4. /\ pc'[u] \in {"Set", "ok", "failed"}
            /\ pc'[u] = "failed" => driver[u] \in unsettled'
        BY <3>2, <4>1, AbortOne
           DEF SetRecord, Execute, LoseReply, Goto, Typed, TypeOK
      <4>5. u \in alone => index[driver[u]] = u
        BY <4>1 DEF IInv, AloneHalfway
      <4>6. alone' \subseteq alone
        BY <4>2 DEF WriterStep, EndWrite, AbortWrites
      <4>7. QED BY <3>0, <4>2, <4>3, <4>4, <4>5, <4>6, WriterStepKeeps
    <3>3. CASE GoSend(u)
      <4>1. /\ WriterStep(u) /\ pc[u] = "Go" /\ pc'[u] = "Set"
            /\ UNCHANGED <<index, alone>>
        BY <3>0, <3>3, GoSendIsWriterStep
           DEF GoSend, Goto, Typed, TypeOK, Requests
      <4>2. u \in alone => index[driver[u]] = u
        BY <4>1 DEF IInv, AloneHalfway
      <4>3. QED BY <3>0, <4>1, <4>2, WriterStepKeeps
    <3>4. CASE FailWrite(u)
      <4>1. /\ WriterStep(u) /\ pc'[u] = "failed" /\ driver[u] \in unsettled'
        BY <3>0, <3>4, FailIsWriterStep
           DEF FailWrite, AbortWrites, Typed, TypeOK, Requests
      <4>2. QED BY <3>0, <4>1, WriterStepKeeps
    <3>5. ASSUME NEW d \in Drivers, BeginUpdate(u, d) PROVE IInv'
      BY <3>0, <3>5, BeginWriteKeeps DEF BeginUpdate
    <3>6. QED BY <2>1, <3>1, <3>2, <3>3, <3>4, <3>5 DEF UpdateStep
  <2>2. ASSUME NEW x \in Removals, RemovalStep(x) PROVE IInv'
    <3>0. x \in Writes
      BY DEF Writes
    <3>1. CASE ZRem(x)
      <4>1. /\ pc[x] = "ZRem" /\ x \in Requests /\ driver[x] \in Drivers
        BY <3>0, <3>1 DEF ZRem, Execute, LoseReply, Goto, Typed, TypeOK, HasDriver,
                       Requests
      <4>2. WriterStep(x)
        BY <3>1, ZRemIsWriterStep
      <4>3. index'[driver[x]] = None
        BY <3>1, <4>1 DEF ZRem, Execute, LoseReply, Typed, TypeOK
      <4>4. /\ pc'[x] \in {"ZRem", "Del", "failed"}
            /\ pc'[x] = "failed" => driver[x] \in unsettled'
        BY <3>1, <4>1, AbortOne
           DEF ZRem, Execute, LoseReply, Goto, Typed, TypeOK
      <4>5. QED BY <3>0, <4>2, <4>3, <4>4, WriterStepKeeps
    <3>2. CASE Del(x)
      <4>1. /\ pc[x] = "Del" /\ x \in Requests /\ driver[x] \in Drivers
        BY <3>0, <3>2 DEF Del, Execute, LoseReply, Goto, Typed, TypeOK, HasDriver,
                       Requests
      <4>2. WriterStep(x)
        BY <3>2, DelIsWriterStep
      <4>3. index' = index /\ record'[driver[x]] = None
        BY <3>2, <4>1 DEF Del, Execute, LoseReply, Typed, TypeOK
      <4>4. /\ pc'[x] \in {"Del", "ok", "failed"}
            /\ pc'[x] = "failed" => driver[x] \in unsettled'
        BY <3>2, <4>1, AbortOne
           DEF Del, Execute, LoseReply, Goto, Typed, TypeOK
      <4>5. x \in alone => index[driver[x]] = None
        BY <4>1 DEF IInv, AloneHalfway
      <4>6. alone' \subseteq alone
        BY <4>2 DEF WriterStep, EndWrite, AbortWrites
      <4>7. QED BY <3>0, <4>2, <4>3, <4>4, <4>5, <4>6, WriterStepKeeps
    <3>3. CASE FailWrite(x)
      <4>1. /\ WriterStep(x) /\ pc'[x] = "failed" /\ driver[x] \in unsettled'
        BY <3>0, <3>3, FailIsWriterStep
           DEF FailWrite, AbortWrites, Typed, TypeOK, Requests
      <4>2. QED BY <3>0, <4>1, WriterStepKeeps
    <3>4. ASSUME NEW d \in Drivers, BeginRemoval(x, d) PROVE IInv'
      BY <3>0, <3>4, BeginWriteKeeps DEF BeginRemoval
    <3>5. QED BY <2>2, <3>1, <3>2, <3>3, <3>4 DEF RemovalStep
  <2>3. ASSUME NEW q \in Queries, QueryStep(q) PROVE IInv'
    <3>1. CASE BeginQuery(q) \/ EndQuery(q) \/ FailQuery(q)
      BY <2>0, <3>1, QuietKeeps, DriverAssumption
         DEF BeginQuery, EndQuery, FailQuery, Goto, Typed, TypeOK, Requests
    <3>2. ASSUME NEW d \in Drivers, Get(q, d) PROVE IInv'
      <4>1. /\ UNCHANGED <<pc, driver, index, record, alone, unsettled>>
            /\ \A p \in Queries : steady'[p] \subseteq steady[p]
        BY <2>0, <3>2 DEF Get, Typed, TypeOK
      <4>2. QED BY <2>0, <4>1, QuietKeeps
    <3>3. QED BY <2>3, <3>1, <3>2, GeoRadiusKeeps DEF QueryStep
  <2>4. CASE UNCHANGED vars
    BY <2>0, <2>4, QuietKeeps DEF vars
  <2>5. QED
    BY <2>1, <2>2, <2>3, <2>4, CrashKeeps DEF Next, Terminated
<1>3. QED
  BY <1>1, <1>2, TypeCorrect, PTL DEF Spec

(***************************************************************************)
(* The index and the record of a driver agree unless a write of it is      *)
(* under way or its last writes overlapped or failed.                      *)
(***************************************************************************)
THEOREM Settled == Spec => []SettledAgree
<1>1. IInv => SettledAgree
  BY DEF IInv
<1>2. QED
  BY <1>1, InductiveInvariant, PTL

-----------------------------------------------------------------------------
(***************************************************************************)
(* Reports are handed over before anyone can read them.                    *)
(***************************************************************************)
HandedInv ==
    /\ \A u \in Updates : pc[u] = "Set" => u \in handed
    /\ \A u \in handed : pc[u] # "idle"
    /\ RecordWasHandedOver

LEMMA HandedQuiet ==
    ASSUME HandedInv, handed \subseteq Updates,
           UNCHANGED <<driver, record, handed>>,
           \A u \in Updates : pc'[u] \in {pc[u], "failed"}
    PROVE  HandedInv'
BY DEF HandedInv, RecordWasHandedOver

\* The record of a driver is a report already given to the sending goroutine.
THEOREM HandedOver == Spec => []RecordWasHandedOver
<1>1. Init => HandedInv
  BY DEF Init, HandedInv, RecordWasHandedOver, Requests, Writes
<1>2. Typed /\ HandedInv /\ [Next]_vars => HandedInv'
  <2> SUFFICES ASSUME Typed, HandedInv, [Next]_vars PROVE HandedInv'
    OBVIOUS
  <2>0. /\ handed \subseteq Updates
        /\ \A u \in Updates : u \in Writes /\ u \in Requests /\ u # None
        /\ \A x \in Removals : x \in Writes /\ x \in Requests /\ x \notin Updates
        /\ \A q \in Queries : q \in Requests /\ q \notin Updates
    BY DriverAssumption DEF Typed, TypeOK, Writes, Requests
  <2>1. ASSUME NEW u \in Updates, UpdateStep(u) PROVE HandedInv'
    <3>1. CASE GeoAdd(u)
      <4>1. /\ UNCHANGED <<driver, record, handed>>
            /\ pc[u] = "GeoAdd" /\ pc'[u] \in {"GeoAdd", "Go", "failed"}
            /\ \A v \in Updates \ {u} : pc'[v] = pc[v]
        BY <2>0, <3>1 DEF GeoAdd, Execute, LoseReply, Goto, Typed, TypeOK
      <4>2. QED
        BY <2>0, <4>1 DEF HandedInv, RecordWasHandedOver
    <3>2. CASE GoSend(u)
      <4>1. /\ UNCHANGED <<driver, record>> /\ handed' = handed \cup {u}
            /\ pc'[u] = "Set" /\ \A v \in Updates \ {u} : pc'[v] = pc[v]
        BY <2>0, <3>2 DEF GoSend, Goto, Typed, TypeOK
      <4>2. QED
        BY <2>0, <4>1 DEF HandedInv, RecordWasHandedOver
    <3>3. CASE SetRecord(u)
      <4>1. /\ pc[u] = "Set" /\ driver[u] \in Drivers
            /\ record' = [record EXCEPT ![driver[u]] = u]
            /\ UNCHANGED <<driver, handed>>
        BY <2>0, <3>3 DEF SetRecord, Execute, LoseReply, Goto, Typed, HasDriver
      <4>2. /\ pc'[u] \in {"Set", "ok", "failed"}
            /\ \A v \in Updates \ {u} : pc'[v] = pc[v]
        BY <2>0, <3>3 DEF SetRecord, Execute, LoseReply, Goto, Typed, TypeOK
      <4>3. \A d \in Drivers : record'[d] = IF d = driver[u] THEN u ELSE record[d]
        BY <4>1 DEF Typed, TypeOK
      <4>4. u \in handed
        BY <4>1 DEF HandedInv
      <4>5. RecordWasHandedOver'
        BY <4>1, <4>3, <4>4 DEF HandedInv, RecordWasHandedOver
      <4>6. \A v \in handed : pc'[v] # "idle"
        BY <2>0, <4>2 DEF HandedInv
      <4>7. \A v \in Updates : pc'[v] = "Set" => v \in handed
        BY <4>2, <4>4 DEF HandedInv
      <4>8. QED
        BY <4>1, <4>5, <4>6, <4>7 DEF HandedInv
    <3>4. CASE FailWrite(u)
      BY <2>0, <3>4, HandedQuiet DEF FailWrite, Typed, TypeOK
    <3>5. ASSUME NEW d \in Drivers, BeginUpdate(u, d) PROVE HandedInv'
      <4>1. /\ pc[u] = "idle" /\ pc'[u] = "GeoAdd"
            /\ UNCHANGED <<record, handed>>
            /\ \A v \in Updates \ {u} : pc'[v] = pc[v] /\ driver'[v] = driver[v]
        BY <2>0, <3>5 DEF BeginUpdate, BeginWrite, Goto, Typed, TypeOK
      <4>2. u \notin handed
        BY <4>1 DEF HandedInv
      <4>3. QED
        BY <2>0, <4>1, <4>2 DEF HandedInv, RecordWasHandedOver
    <3>6. QED BY <2>1, <3>1, <3>2, <3>3, <3>4, <3>5 DEF UpdateStep
  <2>2. ASSUME NEW x \in Removals, RemovalStep(x) PROVE HandedInv'
    <3>1. CASE ZRem(x) \/ FailWrite(x)
      BY <2>0, <3>1, HandedQuiet
         DEF ZRem, FailWrite, Execute, LoseReply, Goto, Typed, TypeOK
    <3>2. CASE Del(x)
      <4>1. /\ UNCHANGED <<driver, handed>>
            /\ record' = [record EXCEPT ![driver[x]] = None]
            /\ \A u \in Updates : pc'[u] = pc[u]
        BY <2>0, <3>2 DEF Del, Execute, LoseReply, Goto, Typed, TypeOK
      <4>2. \A d \in Drivers : record'[d] \in {record[d], None}
        BY <4>1 DEF Typed, TypeOK
      <4>3. QED
        BY <2>0, <4>1, <4>2 DEF HandedInv, RecordWasHandedOver
    <3>3. ASSUME NEW d \in Drivers, BeginRemoval(x, d) PROVE HandedInv'
      <4>1. /\ UNCHANGED <<record, handed>>
            /\ \A u \in Updates : pc'[u] = pc[u] /\ driver'[u] = driver[u]
        BY <2>0, <3>3 DEF BeginRemoval, BeginWrite, Goto, Typed, TypeOK
      <4>2. QED
        BY <2>0, <4>1 DEF HandedInv, RecordWasHandedOver
    <3>4. QED BY <2>2, <3>1, <3>2, <3>3 DEF RemovalStep
  <2>3. ASSUME NEW q \in Queries, QueryStep(q) PROVE HandedInv'
    BY <2>0, <2>3, HandedQuiet
       DEF QueryStep, BeginQuery, GeoRadius, Get, EndQuery, FailQuery, Goto,
           Typed, TypeOK
  <2>4. CASE Terminated \/ UNCHANGED vars
    BY <2>0, <2>4, HandedQuiet DEF Terminated, vars
  <2>5. CASE Crash
    BY <2>0, <2>5, HandedQuiet DEF Crash, Typed, TypeOK
  <2>6. QED
    BY <2>1, <2>2, <2>3, <2>4, <2>5 DEF Next
<1>3. HandedInv => RecordWasHandedOver
  BY DEF HandedInv
<1>4. QED
  BY <1>1, <1>2, <1>3, TypeCorrect, PTL DEF Spec

-----------------------------------------------------------------------------
(***************************************************************************)
(* What a query has found of the drivers marked as steady.                 *)
(***************************************************************************)
FoundInv ==
    \A q \in Queries :
        /\ pc[q] \in {"idle", "GeoRadius"} => result[q] = {}
        /\ \A d \in steady[q] : \A u \in Updates : <<d, u>> \in result[q] => u \in Nearby
        /\ pc[q] \in {"Get", "ok"} =>
              \A d \in steady[q] : d \in pending[q] \/ \E u \in Updates : <<d, u>> \in result[q]
        /\ pc[q] = "ok" => pending[q] = {}

\* Steps that fetch nothing, and at most forget that a driver is steady.
LEMMA FoundQuiet ==
    ASSUME FoundInv, UNCHANGED <<pending, result>>,
           \A q \in Queries : /\ pc'[q] \in {pc[q], "failed"}
                              /\ steady'[q] \subseteq steady[q]
    PROVE  FoundInv'
<1> SUFFICES ASSUME NEW q \in Queries
             PROVE  /\ pc'[q] \in {"idle", "GeoRadius"} => result[q] = {}
                    /\ \A d \in steady'[q] : \A u \in Updates :
                          <<d, u>> \in result[q] => u \in Nearby
                    /\ pc'[q] \in {"Get", "ok"} =>
                          \A d \in steady'[q] : \/ d \in pending[q]
                                                \/ \E u \in Updates : <<d, u>> \in result[q]
                    /\ pc'[q] = "ok" => pending[q] = {}
  BY DEF FoundInv
<1>1. steady'[q] \subseteq steady[q] /\ pc'[q] \in {pc[q], "failed"}
  OBVIOUS
<1>2. QED
  BY <1>1 DEF FoundInv

(***************************************************************************)
(* A driver that stays settled while a query runs is returned with a       *)
(* location in the circle, and it is not left out unless its GET fails.    *)
(***************************************************************************)
THEOREM SteadyFound == Spec => []SteadyFoundNearby
<1>1. Init => FoundInv
  BY DEF Init, FoundInv, Requests
<1>2. Typed /\ IInv /\ FoundInv /\ [Next]_vars => FoundInv'
  <2> SUFFICES ASSUME Typed, IInv, FoundInv, [Next]_vars PROVE FoundInv'
    OBVIOUS
  <2>0. \A q \in Queries : q \in Requests /\ q \notin Writes
    BY DriverAssumption DEF Requests
  <2>1. ASSUME NEW r \in Writes, WriterStep(r) PROVE FoundInv'
    BY <2>0, <2>1, FoundQuiet DEF WriterStep, Typed, TypeOK
  <2>2. ASSUME NEW r \in Writes, NEW d \in Drivers, BeginWrite(r, d),
               Goto(r, "idle", "GeoAdd") \/ Goto(r, "idle", "ZRem")
        PROVE  FoundInv'
    <3>1. UNCHANGED <<pending, result>>
          /\ \A q \in Queries : steady'[q] \subseteq steady[q]
      BY <2>2 DEF BeginWrite, queries
    <3>2. \A q \in Queries : pc'[q] = pc[q]
      BY <2>0, <2>2 DEF Goto, Typed, TypeOK
    <3>3. QED BY <3>1, <3>2, FoundQuiet
  <2>3. ASSUME NEW q \in Queries, BeginQuery(q) \/ EndQuery(q) \/ FailQuery(q)
        PROVE  FoundInv'
    <3>1. /\ UNCHANGED <<pending, result, steady>>
          /\ \A p \in Queries \ {q} : pc'[p] = pc[p]
          /\ \/ pc[q] = "idle" /\ pc'[q] = "GeoRadius"
             \/ pc[q] = "Get" /\ pc'[q] = "ok" /\ pending[q] = {}
             \/ pc'[q] = "failed"
      BY <2>0, <2>3 DEF BeginQuery, EndQuery, FailQuery, Goto, queries, Typed, TypeOK
    <3>2. QED BY <3>1 DEF FoundInv
  <2>4. ASSUME NEW q \in Queries, GeoRadius(q) PROVE FoundInv'
    <3>1. PICK S \in SUBSET {d \in Drivers : index[d] \in Nearby} :
             /\ pending' = [pending EXCEPT ![q] = S]
             /\ steady' = [steady EXCEPT ![q] =
                              {d \in S : d \notin unsettled /\ Writers(d) = {}}]
      BY <2>4 DEF GeoRadius
    <3>2. /\ pc[q] = "GeoRadius" /\ pc'[q] = "Get" /\ result' = result
          /\ \A p \in Queries \ {q} : pc'[p] = pc[p]
      BY <2>0, <2>4 DEF GeoRadius, Goto, Typed, TypeOK
    <3>3. /\ \A p \in Queries \ {q} : pending'[p] = pending[p] /\ steady'[p] = steady[p]
          /\ steady'[q] \subseteq pending'[q]
      BY <3>1 DEF Typed, TypeOK
    <3>4. result[q] = {}
      BY <3>2 DEF FoundInv
    <3>5. QED BY <3>2, <3>3, <3>4 DEF FoundInv
  <2>5. ASSUME NEW q \in Queries, NEW d \in Drivers, Get(q, d) PROVE FoundInv'
    <3>1. /\ pc[q] = "Get" /\ d \in pending[q] /\ pc' = pc
          /\ pending' = [pending EXCEPT ![q] = @ \ {d}]
          /\ \/ /\ record[d] # None /\ steady' = steady
                /\ result' = [result EXCEPT ![q] = @ \cup {<<d, record[d]>>}]
             \/ record[d] = None /\ result' = result /\ steady' = steady
             \/ result' = result /\ steady' = [steady EXCEPT ![q] = @ \ {d}]
      BY <2>5 DEF Get
    <3>2. d \in steady[q] => record[d] \in Nearby /\ record[d] # None /\ record[d] \in Updates
      BY DriverAssumption DEF IInv, SteadyIsSettled, SettledAgree
    <3>3. ASSUME NEW p \in Queries, p # q
          PROVE  /\ pc'[p] = pc[p] /\ steady'[p] = steady[p]
                 /\ pending'[p] = pending[p] /\ result'[p] = result[p]
      BY <3>1, <3>3 DEF Typed, TypeOK
    <3>4. /\ pending'[q] = pending[q] \ {d}
          /\ \/ /\ record[d] # None /\ steady'[q] = steady[q]
                /\ result'[q] = result[q] \cup {<<d, record[d]>>}
             \/ record[d] = None /\ result'[q] = result[q] /\ steady'[q] = steady[q]
             \/ result'[q] = result[q] /\ steady'[q] = steady[q] \ {d}
      BY <3>1 DEF Typed, TypeOK
    <3>5. \A c \in steady'[q] : \A u \in Updates : <<c, u>> \in result'[q] => u \in Nearby
      <4> SUFFICES ASSUME NEW c \in steady'[q], NEW u \in Updates, <<c, u>> \in result'[q]
                   PROVE  u \in Nearby
        OBVIOUS
      <4>1. c \in steady[q]
        BY <3>4
      <4>2. CASE <<c, u>> \in result[q]
        BY <4>1, <4>2 DEF FoundInv
      <4>3. CASE <<c, u>> \notin result[q]
        <5>1. c = d /\ u = record[d]
          BY <3>4, <4>3
        <5>2. QED BY <3>2, <4>1, <5>1
      <4>4. QED BY <4>2, <4>3
    <3>6. \A c \in steady'[q] : c \in pending'[q] \/ \E u \in Updates : <<c, u>> \in result'[q]
      <4> SUFFICES ASSUME NEW c \in steady'[q]
                   PROVE  c \in pending'[q] \/ \E u \in Updates : <<c, u>> \in result'[q]
        OBVIOUS
      <4>1. c \in steady[q]
        BY <3>4
      <4>2. c \in pending[q] \/ \E u \in Updates : <<c, u>> \in result[q]
        BY <3>1, <4>1 DEF FoundInv
      <4>3. CASE c = d
        BY <3>2, <3>4, <4>1, <4>3
      <4>4. CASE c # d
        BY <3>4, <4>2, <4>4
      <4>5. QED BY <4>3, <4>4
    <3>7. QED BY <3>1, <3>3, <3>5, <3>6 DEF FoundInv
  <2>6. CASE Crash
    BY <2>6, FoundQuiet DEF Crash, queries, Requests
  <2>7. CASE UNCHANGED vars
    BY <2>7, FoundQuiet DEF vars, queries
  <2>8. QED
    BY <2>1, <2>2, <2>3, <2>4, <2>5, <2>6, <2>7, EveryWriterStep
       DEF Next, UpdateStep, RemovalStep, QueryStep, BeginUpdate, BeginRemoval,
           Terminated, Writes
<1>3. FoundInv => SteadyFoundNearby
  BY DEF FoundInv, SteadyFoundNearby
<1>4. QED
  BY <1>1, <1>2, <1>3, TypeCorrect, InductiveInvariant, PTL DEF Spec

=============================================================================
