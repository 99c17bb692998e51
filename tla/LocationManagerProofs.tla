------------------------ MODULE LocationManagerProofs ------------------------
(***************************************************************************)
(* Proofs about LocationManager, for any drivers, searches, places and     *)
(* durations: its types, the bound on the age of a position, and what a    *)
(* search is sure not to leave out.  And about the libraries: the samples  *)
(* of SpanProcessor and a RecordingSpan with its limits, which goroutines  *)
(* share under a lock, and the decisions of a trace's ConsistentSampler.   *)
(***************************************************************************)
EXTENDS MCLocationManager, Sequences, FiniteSetTheorems, SequenceTheorems, WellFoundedInduction, TLAPS

Entry == [place : Places, at : Nat]

LEMMA TypeInit == Init => TypeOK
BY LocationAssumption DEF Init, TypeOK, Looked

\* A position with a time up to now is also one with a time up to later.
LEMMA TypeTick ==
    ASSUME TypeOK, Tick
    PROVE  TypeOK'
<1>1. now \in Nat /\ now' = now + 1 /\ now' \in 0..MaxTime
  BY LocationAssumption DEF TypeOK, Tick
<1>2. 0..now \subseteq 0..now'
  BY <1>1
<1>3. locations' \in [Drivers -> [place : Places, at : 0..now'] \cup {None}]
  BY <1>2 DEF TypeOK, Tick, table
<1>4. cleanedAt' \in 0..now'
  BY <1>2 DEF TypeOK, Tick, table
<1>5. QED
  BY <1>1, <1>3, <1>4 DEF TypeOK, Tick, table, search

LEMMA TypeUpdate ==
    ASSUME TypeOK, NEW d \in Drivers, NEW p \in Places, UpdateLocation(d, p)
    PROVE  TypeOK'
<1>1. now \in 0..now
  BY LocationAssumption DEF TypeOK
<1>2. [place |-> p, at |-> now] \in [place : Places, at : 0..now]
  BY <1>1
<1>3. QED
  BY <1>2 DEF TypeOK, UpdateLocation, Disturb, search

LEMMA TypeScan ==
    ASSUME TypeOK, NEW s \in Searches, Scan(s)
    PROVE  TypeOK'
BY DEF TypeOK, Scan, Goto, Present, table

LEMMA TypeLook ==
    ASSUME TypeOK, NEW s \in Searches, NEW d \in Drivers, Look(s, d)
    PROVE  TypeOK'
<1>1. locations[d] # None =>
          [id |-> d, of |-> Distance[locations[d].place]] \in Looked
  BY LocationAssumption DEF TypeOK, Looked
<1>2. distances' \in [Searches -> SUBSET Looked]
  BY <1>1 DEF TypeOK, Look
<1>3. QED
  BY <1>2 DEF TypeOK, Look, table

LEMMA TypeSelect ==
    ASSUME TypeOK, NEW s \in Searches, Select(s)
    PROVE  TypeOK'
BY DEF TypeOK, Select, Goto, Nearest, table

LEMMA TypeCleanup ==
    ASSUME TypeOK, Cleanup
    PROVE  TypeOK'
<1> DEFINE stale == {d \in Present : now - locations[d].at > Stale}
<1>1. IsFiniteSet(Present \ stale)
  BY FS_Subset, LocationAssumption DEF Present
<1>2. gauge' \in Nat
  BY <1>1, FS_CardinalityType DEF Cleanup
<1>3. locations' = [d \in Drivers |-> IF d \in stale THEN None ELSE locations[d]]
  BY DEF Cleanup
<1>4. locations' \in [Drivers -> [place : Places, at : 0..now] \cup {None}]
  BY <1>3 DEF TypeOK
<1>5. now \in 0..now
  BY LocationAssumption DEF TypeOK
<1>6. QED
  BY <1>2, <1>4, <1>5 DEF TypeOK, Cleanup, Disturb, search

THEOREM TypeCorrect == Spec => []TypeOK
<1>1. TypeOK /\ [Next]_vars => TypeOK'
  <2> SUFFICES ASSUME TypeOK, [Next]_vars
               PROVE  TypeOK'
    OBVIOUS
  <2>1. CASE UNCHANGED vars
    BY <2>1 DEF vars, TypeOK
  <2>2. CASE Next
    BY <2>2, TypeTick, TypeCleanup, TypeUpdate, TypeScan, TypeSelect, TypeLook
       DEF Next
  <2>3. QED
    BY <2>1, <2>2
<1>2. QED
  BY TypeInit, <1>1, PTL DEF Spec

-----------------------------------------------------------------------------
(***************************************************************************)
(* How old a position can be.  Cleanup leaves no position older than Stale *)
(* behind, and the ticker is never late, so the oldest position is at most *)
(* Stale older than the last cleanup.                                      *)
(***************************************************************************)
Fresh ==
    /\ now <= cleanedAt + Interval
    /\ \A d \in Present : cleanedAt <= locations[d].at + Stale

LEMMA FreshInit == Init => Fresh
BY LocationAssumption DEF Init, Fresh, Present

LEMMA FreshNext ==
    ASSUME TypeOK, Fresh, [Next]_vars
    PROVE  Fresh'
<1>0. /\ now \in Nat /\ cleanedAt \in Nat /\ cleanedAt <= now
      /\ Stale \in Nat /\ Interval \in Nat
      /\ \A d \in Present : locations[d].at \in Nat
  BY LocationAssumption DEF TypeOK, Present
<1>1. CASE UNCHANGED <<now, table>>
  BY <1>1 DEF Fresh, table, Present
<1>2. CASE Tick
  BY <1>0, <1>2 DEF Tick, Fresh, table, Present
<1>3. ASSUME NEW d \in Drivers, NEW p \in Places, UpdateLocation(d, p)
      PROVE  Fresh'
  <2>1. Present' = Present \cup {d}
    BY <1>3, LocationAssumption, <1>0 DEF UpdateLocation, Present, TypeOK
  <2>2. \A e \in Present' : cleanedAt <= locations'[e].at + Stale
    BY <1>0, <1>3, <2>1 DEF UpdateLocation, Fresh, TypeOK
  <2>3. QED
    BY <1>3, <2>2 DEF UpdateLocation, Fresh
<1>4. CASE Cleanup
  <2>1. cleanedAt' = now /\ now' = now
    BY <1>4 DEF Cleanup
  <2>2. ASSUME NEW d \in Present'
        PROVE  now <= locations'[d].at + Stale
    <3>1. d \in Drivers /\ locations'[d] = locations[d] /\ locations[d] # None
      BY <1>4 DEF Cleanup, Present
    <3>2. d \in Present /\ ~(now - locations[d].at > Stale)
      BY <1>4, <3>1, <2>2 DEF Cleanup, Present
    <3>3. QED
      BY <1>0, <3>1, <3>2
  <2>3. QED
    BY <1>0, <2>1, <2>2 DEF Fresh
<1>5. CASE Next
  <2>1. ASSUME NEW s \in Searches,
               Scan(s) \/ Select(s) \/ \E d \in Drivers : Look(s, d)
        PROVE  Fresh'
    BY <1>1, <2>1 DEF Scan, Select, Look
  <2>2. QED
    BY <1>2, <1>3, <1>4, <1>5, <2>1 DEF Next
<1>6. QED
  BY <1>1, <1>5 DEF vars, table

\* No position is kept longer than Stale and Interval together.
THEOREM Kept == Spec => []KeptBounded
<1>1. TypeOK /\ Fresh => KeptBounded
  BY LocationAssumption DEF TypeOK, Fresh, KeptBounded, Present
<1>2. QED
  BY TypeCorrect, FreshInit, FreshNext, <1>1, PTL DEF Spec

-----------------------------------------------------------------------------
(***************************************************************************)
(* What a search does not leave out.  A steady driver of the bucket is     *)
(* still to be looked up, or has been looked up at the place where it is.  *)
(***************************************************************************)
Entered(d) == [id |-> d, of |-> Distance[locations[d].place]]

Covered(s, d) == d \in found[s] \/ Entered(d) \in distances[s]

SearchInv(s) ==
    /\ IsFiniteSet(distances[s])
    /\ pc[s] = "look" =>
          \A d \in steady[s] : locations[d].place \in InBucket => Covered(s, d)
    /\ pc[s] = "done" =>
          \A d \in steady[s] :
              locations[d].place \in InBucket => Returned(s, d) \/ BetterThan(s, d)

LEMMA SearchInit == Init => \A s \in Searches : SearchInv(s)
BY FS_EmptySet DEF Init, SearchInv

\* Steps that move no search and no steady driver.
LEMMA Undisturbed ==
    ASSUME TypeOK, NEW s \in Searches, SearchInv(s),
           pc'[s] = pc[s], found'[s] = found[s],
           distances'[s] = distances[s], result'[s] = result[s],
           steady'[s] \subseteq steady[s],
           \A d \in steady'[s] : locations'[d] = locations[d]
    PROVE  SearchInv(s)'
BY DEF SearchInv, Covered, Entered, Returned, BetterThan

LEMMA SearchScan ==
    ASSUME TypeOK, NEW s \in Searches, SearchInv(s), Scan(s)
    PROVE  SearchInv(s)'
BY DEF TypeOK, SearchInv, Scan, Goto, Covered, Present, table

LEMMA SearchLook ==
    ASSUME TypeOK, NEW s \in Searches, SearchInv(s), NEW e \in Drivers,
           \A d \in steady[s] : locations[d] # None, Look(s, e)
    PROVE  SearchInv(s)'
<1>1. /\ pc[s] = "look" /\ pc' = pc /\ steady' = steady /\ locations' = locations
      /\ found'[s] = found[s] \ {e}
      /\ distances'[s] = IF locations[e] = None THEN distances[s]
                         ELSE distances[s] \cup {Entered(e)}
  BY DEF Look, TypeOK, table, Entered
<1>2. IsFiniteSet(distances'[s])
  <2>1. IsFiniteSet(distances[s])
    BY DEF SearchInv
  <2>2. IsFiniteSet(distances[s] \cup {Entered(e)})
    BY <2>1, FS_AddElement
  <2>3. QED BY <1>1, <2>1, <2>2
<1>3. \A d : Entered(d)' = Entered(d)
  BY <1>1 DEF Entered
<1>4. ASSUME NEW d \in steady[s], locations[d].place \in InBucket
      PROVE  Covered(s, d)'
  <2>1. Covered(s, d) /\ locations[d] # None
    BY <1>1, <1>4 DEF SearchInv
  <2>2. QED
    BY <1>1, <1>3, <2>1 DEF Covered
<1>5. QED
  BY <1>1, <1>2, <1>4 DEF SearchInv

\* The cut to Limit drops a driver only when it is full of nearer ones.
LEMMA CutKeepsNearest ==
    ASSUME NEW looked, IsFiniteSet(looked), NEW kept, Nearest(kept, looked),
           NEW y \in looked, y \notin kept
    PROVE  Cardinality(kept) = Limit /\ \A x \in kept : x.of <= y.of
<1>1. kept \in SUBSET looked
  BY DEF Nearest
<1>2. Cardinality(kept) # Cardinality(looked)
  BY <1>1, FS_Subset
<1>3. QED
  BY <1>2 DEF Nearest

LEMMA SearchSelect ==
    ASSUME TypeOK, NEW s \in Searches, SearchInv(s), Select(s)
    PROVE  SearchInv(s)'
<1>1. /\ pc[s] = "look" /\ pc'[s] = "done" /\ found[s] = {}
      /\ distances' = distances /\ locations' = locations /\ steady' = steady
  BY DEF Select, Goto, TypeOK, table
<1>2. Nearest(result'[s], distances[s])
  BY DEF Select, TypeOK
<1>3. ASSUME NEW d \in steady[s], locations[d].place \in InBucket
      PROVE  (Returned(s, d) \/ BetterThan(s, d))'
  <2>1. Entered(d) \in distances[s]
    BY <1>1, <1>3 DEF SearchInv, Covered
  <2>2. CASE Entered(d) \in result'[s]
    BY <2>2 DEF Returned, Entered
  <2>3. CASE Entered(d) \notin result'[s]
    <3>1. /\ Cardinality(result'[s]) = Limit
          /\ \A x \in result'[s] : x.of <= Entered(d).of
      BY <1>2, <2>1, <2>3, CutKeepsNearest DEF SearchInv
    <3>2. QED
      BY <1>1, <3>1 DEF BetterThan, Entered
  <2>4. QED
    BY <2>2, <2>3
<1>4. QED
  BY <1>1, <1>3 DEF SearchInv

\* A steady driver has a position.
SteadyThere == \A s \in Searches : \A d \in steady[s] : locations[d] # None

LEMMA SteadyNext ==
    ASSUME TypeOK, SteadyThere, [Next]_vars
    PROVE  SteadyThere'
<1>1. CASE UNCHANGED <<locations, steady>>
  BY <1>1 DEF SteadyThere
<1>2. ASSUME NEW d \in Drivers, NEW p \in Places, UpdateLocation(d, p)
      PROVE  SteadyThere'
  BY <1>2 DEF UpdateLocation, Disturb, SteadyThere, TypeOK
<1>3. CASE Cleanup
  BY <1>3 DEF Cleanup, Disturb, SteadyThere, TypeOK
<1>4. ASSUME NEW s \in Searches, Scan(s)
      PROVE  SteadyThere'
  BY <1>4 DEF Scan, SteadyThere, Present, table, TypeOK
<1>5. CASE Next
  BY <1>1, <1>2, <1>3, <1>4, <1>5 DEF Next, Tick, Select, Look, table
<1>6. QED
  BY <1>1, <1>5 DEF vars, table

LEMMA SearchNext ==
    ASSUME TypeOK, SteadyThere, NEW s \in Searches, SearchInv(s), [Next]_vars
    PROVE  SearchInv(s)'
<1>1. CASE UNCHANGED <<locations, search, steady>>
  BY <1>1, Undisturbed DEF search
<1>2. ASSUME NEW d \in Drivers, NEW p \in Places, UpdateLocation(d, p)
      PROVE  SearchInv(s)'
  <2>1. /\ steady'[s] = steady[s] \ {d}
        /\ \A e \in steady'[s] : locations'[e] = locations[e]
    BY <1>2 DEF UpdateLocation, Disturb, TypeOK
  <2>2. QED
    BY <1>2, <2>1, Undisturbed DEF UpdateLocation, search
<1>3. CASE Cleanup
  <2>1. /\ steady'[s] \subseteq steady[s]
        /\ \A e \in steady'[s] : locations'[e] = locations[e]
    BY <1>3 DEF Cleanup, Disturb, TypeOK
  <2>2. QED
    BY <1>3, <2>1, Undisturbed DEF Cleanup, search
<1>4. ASSUME NEW q \in Searches, q # s,
             Scan(q) \/ Select(q) \/ \E d \in Drivers : Look(q, d)
      PROVE  SearchInv(s)'
  <2>1. /\ pc'[s] = pc[s] /\ found'[s] = found[s] /\ distances'[s] = distances[s]
        /\ result'[s] = result[s] /\ steady'[s] = steady[s]
        /\ locations' = locations
    BY <1>4 DEF Scan, Select, Look, Goto, TypeOK, table
  <2>2. QED
    BY <2>1, Undisturbed
<1>5. CASE Next
  <2>1. CASE Tick
    BY <1>1, <2>1 DEF Tick, table
  <2>2. CASE \E q \in Searches :
                Scan(q) \/ Select(q) \/ \E d \in Drivers : Look(q, d)
    BY <1>4, <2>2, SearchScan, SearchSelect, SearchLook DEF SteadyThere
  <2>3. QED
    BY <1>2, <1>3, <1>5, <2>1, <2>2 DEF Next
<1>6. QED
  BY <1>1, <1>5 DEF vars, table, search

\* A search leaves out no steady driver of its bucket that is nearer.
THEOREM Searched == Spec => []NoneNearerInBucket
<1> DEFINE Inv == TypeOK /\ SteadyThere /\ \A s \in Searches : SearchInv(s)
<1>1. Init => Inv
  BY TypeInit, SearchInit DEF Init, SteadyThere
<1>2. Inv /\ TypeOK' /\ [Next]_vars => Inv'
  BY SteadyNext, SearchNext
<1>3. Inv => NoneNearerInBucket
  BY DEF SearchInv, NoneNearerInBucket
<1> HIDE DEF Inv
<1>4. QED
  BY TypeCorrect, <1>1, <1>2, <1>3, PTL DEF Spec

(***************************************************************************)
(* What the manager keeps and what a search finds (driver_location.go): the *)
(* three parts of LocationsSound together.                                 *)
(***************************************************************************)
THEOREM Locations == Spec => []LocationsSound
BY TypeCorrect, Kept, Searched, PTL DEF LocationsSound

-----------------------------------------------------------------------------
(* The pages of SpanProcessor (instance Z).                                *)

Stores == [Z!Buckets -> SampleBuckets]
SpanPlaces == {"new", "started", "delete", "load", "create", "sample", "sampled"}
Ends == [time : Nat, bucket : Z!Buckets]

PagesTyped ==
    /\ zNow \in Nat
    /\ at \in [Spans -> SpanPlaces]
    /\ name \in [Spans -> Names]
    /\ ended \in [Spans -> Ends \cup {None}]
    /\ stores \in [Names -> Stores \cup {None}]
    /\ \A s \in Spans : at[s] \notin {"new", "started"} => ended[s] \in Ends

(***************************************************************************)
(* A span that comes to its sample finds a store of its name; a store is   *)
(* never taken away.                                                       *)
(***************************************************************************)
StoresThere == \A s \in Spans : at[s] \in {"sample", "sampled"} => stores[name[s]] \in Stores

(***************************************************************************)
(* A sample is a span that has been through OnEnd, a SamplePeriod or more  *)
(* before the next one can be accepted, and no two are closer than that; a *)
(* bucket that has ever refused a span has a sample.                       *)
(***************************************************************************)
BucketFine(b) ==
    /\ \A s \in Z!Samples(b) : /\ s \in Spans /\ at[s] = "sampled"
                               /\ ended[s].time + SamplePeriod <= b.nextTime
    /\ \A s, t \in Z!Samples(b) : s # t =>
           \/ ended[s].time >= ended[t].time + SamplePeriod
           \/ ended[t].time >= ended[s].time + SamplePeriod
    /\ b.nextTime > 0 => Z!Samples(b) # {}

BucketsFine == \A n \in Names, b \in Z!Buckets : stores[n] \in Stores => BucketFine(stores[n][b])

\* A span that is sampled was accepted or came too early.
EndsCount ==
    \A s \in Spans : at[s] = "sampled" => ended[s].time < stores[name[s]][ended[s].bucket].nextTime

\* What the page has yet to find is active.
PageFinds ==
    /\ pageAt \in {"idle", "active", "done"} /\ expected \subseteq Spans
    /\ \A s \in Spans : at[s] = "started" => s \in active
    /\ pageAt = "active" => \A s \in expected : at[s] = "started" \/ name[s] \in listed
    /\ pageAt = "done" => \A s \in expected : name[s] \in listed
    /\ pageAt = "idle" => expected = {}

PagesInv == PagesTyped /\ StoresThere /\ BucketsFine /\ EndsCount /\ PageFinds

-----------------------------------------------------------------------------
LEMMA NewStoreIsStore ==
    /\ Z!NewStore \in Stores
    /\ \A b \in Z!Buckets : Z!NewStore[b].nextTime = 0 /\ Z!Samples(Z!NewStore[b]) = {}
<1> USE PagesAssumption
<1>1. Z!EmptyBucket \in SampleBuckets
  <2>1. [i \in 0..Capacity - 1 |-> None] \in [0..Capacity - 1 -> Spans \cup {None}]
    OBVIOUS
  <2>2. FALSE \in BOOLEAN /\ 0 \in 0..Capacity - 1
    OBVIOUS
  <2>3. QED BY <2>1, <2>2 DEF Z!EmptyBucket, SampleBuckets
<1>2. \A b \in Z!Buckets : Z!NewStore[b] = Z!EmptyBucket
  BY DEF Z!NewStore
<1>3. Z!NewStore \in Stores
  BY <1>1 DEF Z!NewStore, Stores
<1>4. Z!EmptyBucket.nextTime = 0 /\ Z!EmptyBucket.nextIndex = 0
  BY DEF Z!EmptyBucket
<1>5. ~Z!EmptyBucket.overflow
  BY Zenon DEF Z!EmptyBucket
<1>6. Z!Samples(Z!EmptyBucket) = {}
  BY <1>4, <1>5 DEF Z!Samples
<1>7. QED BY <1>2, <1>3, <1>4, <1>6

LEMMA StoreIsNotNone == \A v \in Stores \cup {None} : v # None <=> v \in Stores
BY PagesAssumption DEF Stores, Z!Buckets

\* bucket.add: a span that comes too early changes nothing; another is a
\* sample from now on, and at most one sample gives way to it.
LEMMA AddedToBucket ==
    ASSUME NEW b \in SampleBuckets, NEW s \in Spans, ended[s] \in Ends, None \notin Z!Samples(b)
    PROVE  /\ Z!Added(b, s) \in SampleBuckets
           /\ \/ ended[s].time < b.nextTime /\ Z!Added(b, s) = b
              \/ /\ ended[s].time >= b.nextTime
                 /\ Z!Added(b, s).nextTime = ended[s].time + SamplePeriod
                 /\ s \in Z!Samples(Z!Added(b, s))
                 /\ Z!Samples(Z!Added(b, s)) \subseteq Z!Samples(b) \cup {s}
<1> USE PagesAssumption
<1>1. PICK t \in Nat : t = ended[s].time
  BY DEF Ends
<1>2. PICK T \in Nat : T = b.nextTime
  BY DEF SampleBuckets
<1>3. PICK B \in [0..Capacity - 1 -> Spans \cup {None}] : B = b.buffer
  BY DEF SampleBuckets
<1>4. PICK k \in 0..Capacity - 1 : k = b.nextIndex
  BY DEF SampleBuckets
<1>5. PICK o \in BOOLEAN : o = b.overflow
  BY DEF SampleBuckets
<1>6. CASE t < T
  BY <1>1, <1>2, <1>6 DEF Z!Added
<1>7. CASE ~(t < T)
  <2>1. PICK F \in [0..Capacity - 1 -> Spans \cup {None}] : F = [B EXCEPT ![k] = s]
    OBVIOUS
  <2>2. PICK j \in 0..Capacity - 1 : j = (k + 1) % Capacity
    OBVIOUS
  <2>3. PICK q \in BOOLEAN : q <=> (o \/ k + 1 = Capacity)
    <3>1. (o \/ k + 1 = Capacity) \in BOOLEAN
      OBVIOUS
    <3>2. QED BY <3>1
  <2>4. Z!Added(b, s) = [nextTime |-> t + SamplePeriod, buffer |-> F, nextIndex |-> j, overflow |-> q]
    BY <1>1, <1>2, <1>3, <1>4, <1>5, <1>7, <2>1, <2>2, <2>3 DEF Z!Added
  <2>5. Z!Added(b, s) \in SampleBuckets /\ t + SamplePeriod \in Nat
    BY <2>4 DEF SampleBuckets
  <2>6. Z!Samples(b) = {B[i] : i \in 0..(IF o THEN Capacity ELSE k) - 1}
    BY <1>3, <1>4, <1>5 DEF Z!Samples
  <2>7. Z!Samples(Z!Added(b, s)) = {F[i] : i \in 0..(IF q THEN Capacity ELSE j) - 1}
    BY <2>4 DEF Z!Samples
  <2>8. k \in 0..(IF q THEN Capacity ELSE j) - 1
    BY <2>2, <2>3
  <2>9. F[k] = s
    BY <2>1
  <2>10. ASSUME NEW i \in 0..(IF q THEN Capacity ELSE j) - 1 
         PROVE  i = k \/ (i \in 0..(IF o THEN Capacity ELSE k) - 1 /\ F[i] = B[i])
    <3>1. (k + 1 = Capacity /\ j = 0) \/ (k + 1 < Capacity /\ j = k + 1)
      BY <2>2
    <3>2. CASE k + 1 = Capacity
      BY <2>1, <2>3, <3>2
    <3>3. CASE k + 1 < Capacity /\ j = k + 1
      BY <2>1, <2>3, <3>3
    <3>4. QED BY <3>1, <3>2, <3>3
  <2>11. s \in Z!Samples(Z!Added(b, s))
    BY <2>7, <2>8, <2>9
  <2>12. Z!Samples(Z!Added(b, s)) \subseteq Z!Samples(b) \cup {s}
    BY <2>6, <2>7, <2>9, <2>10
  <2>13. Z!Added(b, s).nextTime = t + SamplePeriod /\ t >= T
    BY <1>7, <2>4
  <2>14. QED BY <1>1, <1>2, <2>5, <2>11, <2>12, <2>13
<1>8. QED BY <1>6, <1>7

LEMMA AddedIsFine ==
    ASSUME PagesTyped, NEW b \in SampleBuckets, NEW s \in Spans, BucketFine(b), at[s] = "sample",
           at' = [at EXCEPT ![s] = "sampled"], ended' = ended
    PROVE  /\ Z!Added(b, s) \in SampleBuckets
           /\ Z!Added(b, s).nextTime >= b.nextTime
           /\ ended[s].time < Z!Added(b, s).nextTime
           /\ \A c : c = Z!Added(b, s) => BucketFine(c)'
<1> USE PagesAssumption
<1>1. ended[s] \in Ends
  BY DEF PagesTyped
<1>2. None \notin Z!Samples(b)
  BY DEF BucketFine
<1>3. PICK c \in SampleBuckets : c = Z!Added(b, s)
  BY <1>1, <1>2, AddedToBucket
<1>4. \/ ended[s].time < b.nextTime /\ c = b
      \/ /\ ended[s].time >= b.nextTime
         /\ c.nextTime = ended[s].time + SamplePeriod
         /\ s \in Z!Samples(c)
         /\ Z!Samples(c) \subseteq Z!Samples(b) \cup {s}
  BY <1>1, <1>2, <1>3, AddedToBucket
<1>5. ended[s].time \in Nat /\ b.nextTime \in Nat /\ c.nextTime \in Nat
  BY <1>1 DEF Ends, SampleBuckets
<1>6. c.nextTime >= b.nextTime /\ ended[s].time < c.nextTime
  BY <1>4, <1>5
<1>7. ASSUME NEW q \in Spans, at[q] = "sampled" PROVE at'[q] = "sampled" /\ ended'[q].time \in Nat
  BY <1>7 DEF PagesTyped, Ends
<1>8. at'[s] = "sampled"
  BY DEF PagesTyped
<1>9. \A q \in Z!Samples(c) : q \in Spans /\ at'[q] = "sampled" /\ ended[q].time + SamplePeriod <= c.nextTime
  <2> SUFFICES ASSUME NEW q \in Z!Samples(c)
               PROVE q \in Spans /\ at'[q] = "sampled" /\ ended[q].time + SamplePeriod <= c.nextTime
    OBVIOUS
  <2>1. CASE q = s /\ s \in Z!Samples(c) /\ c.nextTime = ended[s].time + SamplePeriod
    BY <1>5, <1>8, <2>1
  <2>2. CASE q \in Z!Samples(b)
    <3>1. q \in Spans /\ at[q] = "sampled" /\ ended[q].time + SamplePeriod <= b.nextTime
      BY <2>2 DEF BucketFine
    <3>2. at'[q] = "sampled" /\ ended[q].time \in Nat
      BY <1>7, <3>1
    <3>3. ended[q].time + SamplePeriod <= c.nextTime
      BY <1>5, <1>6, <3>1, <3>2
    <3>4. QED BY <3>1, <3>2, <3>3
  <2>3. CASE c = b
    BY <2>2, <2>3
  <2>4. QED BY <1>4, <2>1, <2>2, <2>3
<1>10. \A q, r \in Z!Samples(c) : q # r =>
           \/ ended[q].time >= ended[r].time + SamplePeriod
           \/ ended[r].time >= ended[q].time + SamplePeriod
  <2> SUFFICES ASSUME NEW q \in Z!Samples(c), NEW r \in Z!Samples(c), q # r
               PROVE  \/ ended[q].time >= ended[r].time + SamplePeriod
                      \/ ended[r].time >= ended[q].time + SamplePeriod
    OBVIOUS
  <2>1. ASSUME NEW p \in Z!Samples(b), ended[s].time >= b.nextTime
        PROVE  ended[s].time >= ended[p].time + SamplePeriod
    <3>1. p \in Spans /\ at[p] = "sampled" /\ ended[p].time + SamplePeriod <= b.nextTime
      BY DEF BucketFine
    <3>2. ended[p].time \in Nat
      BY <1>7, <3>1
    <3>3. QED BY <1>5, <2>1, <3>1, <3>2
  <2>2. CASE q \in Z!Samples(b) /\ r \in Z!Samples(b)
    BY <2>2 DEF BucketFine
  <2>3. CASE ended[s].time >= b.nextTime /\ Z!Samples(c) \subseteq Z!Samples(b) \cup {s}
    <3>1. CASE q = s /\ r \in Z!Samples(b)
      BY <2>1, <2>3, <3>1
    <3>2. CASE r = s /\ q \in Z!Samples(b)
      BY <2>1, <2>3, <3>2
    <3>3. QED BY <2>2, <2>3, <3>1, <3>2
  <2>4. QED BY <1>4, <2>2, <2>3
<1>11. c.nextTime > 0 => Z!Samples(c) # {}
  BY <1>4 DEF BucketFine
<1>12. BucketFine(c)'
  BY <1>9, <1>10, <1>11 DEF BucketFine, Z!Samples
<1>13. QED BY <1>3, <1>6, <1>12

-----------------------------------------------------------------------------
LEMMA InitPages == Z!Init => PagesInv
<1> SUFFICES ASSUME Z!Init PROVE PagesInv
  OBVIOUS
<1>1. /\ zNow = 0 /\ at = [s \in Spans |-> "new"] /\ name \in [Spans -> Names]
      /\ ended = [s \in Spans |-> None] /\ stores = [n \in Names |-> None]
      /\ pageAt = "idle" /\ expected = {}
  BY DEF Z!Init
<1>2. \A v \in Stores \cup {None} : v # None <=> v \in Stores
  BY StoreIsNotNone
<1>3. PagesTyped
  BY <1>1 DEF PagesTyped, SpanPlaces
<1>4. \A n \in Names : stores[n] \notin Stores
  BY <1>1, <1>2
<1>5. QED BY <1>1, <1>3, <1>4 DEF PagesInv, StoresThere, BucketsFine, EndsCount, PageFinds

\* What the buckets hold means the same while those sampled stay so.
LEMMA BucketStaysFine ==
    ASSUME NEW b, BucketFine(b), \A s \in Spans : at[s] = "sampled" => at'[s] = "sampled" /\ ended'[s] = ended[s]
    PROVE  BucketFine(b)'
<1>1. \A s \in Z!Samples(b) : s \in Spans /\ at'[s] = "sampled" /\ ended'[s] = ended[s]
                              /\ ended'[s].time + SamplePeriod <= b.nextTime
  BY DEF BucketFine
<1>2. \A s, t \in Z!Samples(b) : s # t =>
           \/ ended'[s].time >= ended'[t].time + SamplePeriod
           \/ ended'[t].time >= ended'[s].time + SamplePeriod
  BY <1>1 DEF BucketFine
<1>3. b.nextTime > 0 => Z!Samples(b) # {}
  BY DEF BucketFine
<1>4. QED BY <1>1, <1>2, <1>3 DEF BucketFine, Z!Samples

\* Before its sample a span moves on without touching a bucket.
LEMMA SpanStepKeeps ==
    ASSUME PagesInv, PagesTyped', NEW s \in Spans, at[s] # "sampled", at' = [at EXCEPT ![s] = at'[s]],
           at'[s] # "sampled", UNCHANGED <<name, stores>>,
           \A q \in Spans : q # s => ended'[q] = ended[q],
           at'[s] = "sample" => stores[name[s]] \in Stores
    PROVE  StoresThere' /\ BucketsFine' /\ EndsCount'
<1>1. \A q \in Spans : q # s => at'[q] = at[q] /\ ended'[q] = ended[q]
  BY DEF PagesInv, PagesTyped
<1>2. \A q \in Spans : at[q] = "sampled" => at'[q] = "sampled" /\ ended'[q] = ended[q]
  BY <1>1
<1>3. BucketsFine'
  <2> SUFFICES ASSUME NEW n \in Names, NEW b \in Z!Buckets, stores[n] \in Stores
               PROVE  BucketFine(stores[n][b])'
    BY DEF BucketsFine, Stores, Z!Buckets, SampleBuckets
  <2>1. PICK x : x = stores[n][b]
    OBVIOUS
  <2>2. BucketFine(x)
    BY <2>1 DEF PagesInv, BucketsFine
  <2>3. BucketFine(x)'
    BY <1>2, <2>2, BucketStaysFine
  <2>4. x = (stores[n][b])'
    BY <2>1
  <2>5. QED BY <2>3, <2>4 DEF BucketFine, Z!Samples
<1>4. StoresThere'
  BY <1>1 DEF PagesInv, StoresThere, Stores, Z!Buckets, SampleBuckets
<1>5. EndsCount'
  BY <1>1 DEF PagesInv, EndsCount
<1>6. QED BY <1>3, <1>4, <1>5

-----------------------------------------------------------------------------
(* The steps of a span.                                                    *)

LEMMA StartedTyped ==
    ASSUME PagesInv, NEW s \in Spans, Z!OnStart(s)
    PROVE  PagesInv'
<1>1. /\ at[s] = "new" /\ at' = [at EXCEPT ![s] = "started"] /\ active' = active \cup {s}
      /\ UNCHANGED <<zNow, name, ended, stores, pageAt, listed, expected>>
  BY DEF Z!OnStart, Z!Goto, Z!page
<1>2. PagesTyped'
  BY <1>1 DEF PagesInv, PagesTyped, SpanPlaces
<1>3. at'[s] = "started"
  BY <1>1 DEF PagesInv, PagesTyped
<1>4. StoresThere' /\ BucketsFine' /\ EndsCount'
  BY <1>1, <1>2, <1>3, SpanStepKeeps
<1>5. PageFinds'
  BY <1>1 DEF PagesInv, PagesTyped, PageFinds
<1>6. QED BY <1>2, <1>4, <1>5 DEF PagesInv

LEMMA EndKeepsPages ==
    ASSUME PagesInv, NEW s \in Spans, Z!End(s)
    PROVE  PagesInv'
<1>1. PICK b \in Z!Buckets : ended' = [ended EXCEPT ![s] = [time |-> zNow, bucket |-> b]]
  BY DEF Z!End
<1>2. /\ at[s] = "started" /\ at' = [at EXCEPT ![s] = "delete"] /\ expected' = expected \ {s}
      /\ UNCHANGED <<zNow, name, active, stores, pageAt, listed>>
  BY DEF Z!End, Z!Goto, Z!page
<1>3. [time |-> zNow, bucket |-> b] \in Ends
  BY DEF PagesInv, PagesTyped, Ends
<1>4. PagesTyped'
  BY <1>1, <1>2, <1>3 DEF PagesInv, PagesTyped, SpanPlaces
<1>5. at'[s] = "delete" /\ \A q \in Spans : q # s => ended'[q] = ended[q]
  BY <1>1, <1>2 DEF PagesInv, PagesTyped
<1>6. StoresThere' /\ BucketsFine' /\ EndsCount'
  BY <1>2, <1>4, <1>5, SpanStepKeeps
<1>7. PageFinds'
  BY <1>2 DEF PagesInv, PagesTyped, PageFinds
<1>8. QED BY <1>4, <1>6, <1>7 DEF PagesInv

LEMMA RemovalKeepsPages ==
    ASSUME PagesInv, NEW s \in Spans, Z!Delete(s) \/ Z!LoadStore(s)
    PROVE  PagesInv'
<1>1. /\ at[s] \in {"delete", "load"} /\ at' = [at EXCEPT ![s] = at'[s]]
      /\ at'[s] \in {"load", "create", "sample"}
      /\ at'[s] = "sample" => stores[name[s]] # None
      /\ active \ {s} \subseteq active'
      /\ UNCHANGED <<zNow, name, ended, stores, pageAt, listed, expected>>
  BY DEF Z!Delete, Z!LoadStore, Z!Goto, Z!page, PagesInv, PagesTyped
<1>2. stores[name[s]] # None => stores[name[s]] \in Stores
  BY DEF PagesInv, PagesTyped
<1>3. PagesTyped'
  BY <1>1 DEF PagesInv, PagesTyped, SpanPlaces
<1>4. StoresThere' /\ BucketsFine' /\ EndsCount'
  BY <1>1, <1>2, <1>3, SpanStepKeeps
<1>5. PageFinds'
  BY <1>1 DEF PagesInv, PagesTyped, PageFinds
<1>6. QED BY <1>3, <1>4, <1>5 DEF PagesInv

\* LoadOrStore gives a name its store, and only a name that has none.
LEMMA CreateKeepsPages ==
    ASSUME PagesInv, NEW s \in Spans, Z!Create(s)
    PROVE  PagesInv'
<1>1. /\ at[s] = "create" /\ at' = [at EXCEPT ![s] = "sample"]
      /\ stores' = [stores EXCEPT ![name[s]] = IF @ = None THEN Z!NewStore ELSE @]
      /\ UNCHANGED <<zNow, name, ended, active, pageAt, listed, expected>>
  BY DEF Z!Create, Z!Goto, Z!page
<1>2. \A v \in Stores \cup {None} : v # None <=> v \in Stores
  BY StoreIsNotNone
<1>3. Z!NewStore \in Stores
  BY NewStoreIsStore
<1>4. stores \in [Names -> Stores \cup {None}] /\ name[s] \in Names
  BY DEF PagesInv, PagesTyped
<1>5. stores' \in [Names -> Stores \cup {None}] /\ stores'[name[s]] \in Stores
  BY <1>1, <1>2, <1>3, <1>4
<1>6. \A n \in Names : \/ stores'[n] = stores[n]
                       \/ stores'[n] = Z!NewStore /\ stores[n] \notin Stores
  BY <1>1, <1>2, <1>3, <1>4
<1>7. at'[s] = "sample" /\ \A q \in Spans : q # s => at'[q] = at[q]
  BY <1>1 DEF PagesInv, PagesTyped
<1>8. PagesTyped'
  BY <1>1, <1>5 DEF PagesInv, PagesTyped, SpanPlaces, Stores, Z!Buckets, SampleBuckets
<1>9. \A q \in Spans : name[q] \in Names
  BY DEF PagesInv, PagesTyped
<1>10. \A q \in Spans : q # s /\ at'[q] \in {"sample", "sampled"} =>
           stores[name[q]] \in Stores /\ stores'[name[q]] = stores[name[q]]
  BY <1>6, <1>7, <1>9 DEF PagesInv, StoresThere
<1>11. StoresThere'
  <2> SUFFICES ASSUME NEW q \in Spans, at'[q] \in {"sample", "sampled"} PROVE stores'[name[q]] \in Stores
    BY <1>1 DEF StoresThere, Stores, Z!Buckets, SampleBuckets
  <2>1. QED BY <1>5, <1>10
<1>12. EndsCount'
  BY <1>1, <1>7, <1>10 DEF PagesInv, EndsCount
<1>13. \A q \in Spans : at[q] = "sampled" => at'[q] = "sampled" /\ ended'[q] = ended[q]
  BY <1>1, <1>7
<1>14. BucketsFine'
  <2> SUFFICES ASSUME NEW n \in Names, NEW b \in Z!Buckets, stores'[n] \in Stores
               PROVE  BucketFine(stores[n][b])'
    BY DEF BucketsFine, Stores, Z!Buckets, SampleBuckets
  <2>1. PICK x : x = stores'[n][b]
    OBVIOUS
  <2>2. BucketFine(x)
    <3>1. CASE stores'[n] = stores[n]
      BY <2>1, <3>1 DEF PagesInv, BucketsFine
    <3>2. CASE stores'[n] = Z!NewStore
      <4>1. x.nextTime = 0 /\ Z!Samples(x) = {}
        BY <2>1, <3>2, NewStoreIsStore
      <4>2. QED BY <4>1 DEF BucketFine
    <3>3. QED BY <1>6, <3>1, <3>2
  <2>3. BucketFine(x)'
    BY <1>13, <2>2, BucketStaysFine
  <2>4. QED BY <2>1, <2>3 DEF BucketFine, Z!Samples
<1>15. PageFinds'
  BY <1>1, <1>7 DEF PagesInv, PageFinds
<1>16. QED BY <1>8, <1>11, <1>12, <1>14, <1>15 DEF PagesInv

LEMMA SampleKeepsPages ==
    ASSUME PagesInv, NEW s \in Spans, Z!Sample(s)
    PROVE  PagesInv'
<1>1. /\ at[s] = "sample" /\ at' = [at EXCEPT ![s] = "sampled"]
      /\ stores' = [stores EXCEPT ![name[s]][ended[s].bucket] = Z!Added(@, s)]
      /\ UNCHANGED <<zNow, name, ended, active, pageAt, listed, expected>>
  BY DEF Z!Sample, Z!Goto, Z!page
<1>2. PICK n \in Names : n = name[s]
  BY DEF PagesInv, PagesTyped
<1>3. ended[s] \in Ends /\ stores[n] \in Stores
  BY <1>1, <1>2 DEF PagesInv, PagesTyped, StoresThere
<1>4. PICK b \in Z!Buckets : b = ended[s].bucket
  BY <1>3 DEF Ends
<1>5. PICK x \in SampleBuckets : x = stores[n][b]
  BY <1>3 DEF Stores
<1>6. BucketFine(x)
  BY <1>3, <1>5 DEF PagesInv, BucketsFine
<1>7. PICK y \in SampleBuckets : /\ y = Z!Added(x, s) /\ y.nextTime >= x.nextTime
                                 /\ ended[s].time < y.nextTime /\ BucketFine(y)'
  BY <1>1, <1>6, AddedIsFine DEF PagesInv
<1>8. stores' = [stores EXCEPT ![n] = [stores[n] EXCEPT ![b] = y]]
  BY <1>1, <1>2, <1>4, <1>5, <1>7
<1>9. /\ stores' \in [Names -> Stores \cup {None}] /\ stores'[n] \in Stores /\ stores'[n][b] = y
      /\ \A c \in Z!Buckets : c # b => stores'[n][c] = stores[n][c]
      /\ \A m \in Names : m # n => stores'[m] = stores[m]
  BY <1>3, <1>8 DEF PagesInv, PagesTyped, Stores
<1>10. at'[s] = "sampled" /\ \A q \in Spans : q # s => at'[q] = at[q]
  BY <1>1 DEF PagesInv, PagesTyped
<1>11. PagesTyped'
  <2>1. at' \in [Spans -> SpanPlaces] /\ ended' = ended /\ name' = name /\ zNow' = zNow
    BY <1>1 DEF PagesInv, PagesTyped, SpanPlaces
  <2>2. \A q \in Spans : at'[q] \notin {"new", "started"} => ended[q] \in Ends
    BY <1>3, <1>10 DEF PagesInv, PagesTyped
  <2>3. QED BY <1>9, <2>1, <2>2 DEF PagesInv, PagesTyped, Stores, Ends
<1>12. StoresThere'
  <2> SUFFICES ASSUME NEW q \in Spans, at'[q] \in {"sample", "sampled"} PROVE stores'[name[q]] \in Stores
    BY <1>1 DEF StoresThere, Stores, Z!Buckets, SampleBuckets
  <2>1. at[q] \in {"sample", "sampled"} /\ name[q] \in Names
    BY <1>1, <1>10 DEF PagesInv, PagesTyped
  <2>2. stores[name[q]] \in Stores
    BY <2>1 DEF PagesInv, StoresThere
  <2>3. QED BY <1>9, <2>1, <2>2
<1>13. EndsCount'
  <2> SUFFICES ASSUME NEW q \in Spans, at'[q] = "sampled"
               PROVE  ended[q].time < stores'[name[q]][ended[q].bucket].nextTime
    BY <1>1 DEF EndsCount
  <2>1. CASE q = s
    BY <1>2, <1>4, <1>7, <1>9, <2>1
  <2>2. CASE q # s
    <3>1. at[q] = "sampled" /\ name[q] \in Names
      BY <1>10, <2>2 DEF PagesInv, PagesTyped
    <3>2. ended[q] \in Ends /\ stores[name[q]] \in Stores
      BY <3>1 DEF PagesInv, PagesTyped, StoresThere
    <3>3. ended[q].time \in Nat /\ ended[q].bucket \in Z!Buckets
      BY <3>2 DEF Ends
    <3>4. ended[q].time < stores[name[q]][ended[q].bucket].nextTime
      BY <3>1 DEF PagesInv, EndsCount
    <3>5. CASE name[q] = n /\ ended[q].bucket = b
      <4>1. ended[q].time < x.nextTime /\ x.nextTime \in Nat /\ y.nextTime \in Nat
        BY <1>5, <3>4, <3>5 DEF SampleBuckets
      <4>2. ended[q].time < y.nextTime
        BY <1>7, <3>3, <4>1
      <4>3. QED BY <1>9, <3>5, <4>2
    <3>6. CASE name[q] # n \/ ended[q].bucket # b
      BY <1>9, <3>1, <3>3, <3>4, <3>6
    <3>7. QED BY <3>5, <3>6
  <2>3. QED BY <2>1, <2>2
<1>14. \A q \in Spans : at[q] = "sampled" => at'[q] = "sampled" /\ ended'[q] = ended[q]
  BY <1>1, <1>10
<1>15. BucketsFine'
  <2> SUFFICES ASSUME NEW m \in Names, NEW c \in Z!Buckets, stores'[m] \in Stores
               PROVE  BucketFine(stores[m][c])'
    BY DEF BucketsFine, Stores, Z!Buckets, SampleBuckets
  <2>1. CASE m = n /\ c = b
    BY <1>7, <1>9, <2>1 DEF BucketFine, Z!Samples
  <2>2. CASE m # n \/ c # b
    <3>1. stores'[m][c] = stores[m][c] /\ stores[m] \in Stores
      BY <1>3, <1>9, <2>2
    <3>2. PICK z : z = stores[m][c]
      OBVIOUS
    <3>3. BucketFine(z)
      BY <3>1, <3>2 DEF PagesInv, BucketsFine
    <3>4. BucketFine(z)'
      BY <1>14, <3>3, BucketStaysFine
    <3>5. QED BY <3>1, <3>2, <3>4 DEF BucketFine, Z!Samples
  <2>3. QED BY <2>1, <2>2
<1>16. PageFinds'
  BY <1>1, <1>10 DEF PagesInv, PageFinds
<1>17. QED BY <1>11, <1>12, <1>13, <1>15, <1>16 DEF PagesInv

-----------------------------------------------------------------------------
\* The page, the clock, and a new name change no bucket.
LEMMA OtherKeepsPages ==
    ASSUME PagesInv,
           \/ Z!Tick \/ Z!ListStores \/ Z!ListActive \/ UNCHANGED zpagesVars
           \/ \E s \in Spans : Z!SetName(s)
    PROVE  PagesInv'
<1>1. UNCHANGED <<at, ended, stores>>
  BY DEF Z!Tick, Z!ListStores, Z!ListActive, zpagesVars, Z!SetName, Z!page
<1>2. zNow' \in Nat
  BY DEF PagesInv, PagesTyped, Z!Tick, Z!ListStores, Z!ListActive, zpagesVars, Z!SetName, Z!page
<1>3. /\ name' \in [Spans -> Names]
      /\ \A s \in Spans : at[s] # "started" => name'[s] = name[s]
  BY DEF PagesInv, PagesTyped, Z!Tick, Z!ListStores, Z!ListActive, zpagesVars, Z!SetName, Z!page
<1>4. PagesTyped'
  BY <1>1, <1>2, <1>3 DEF PagesInv, PagesTyped, SpanPlaces, Stores, Z!Buckets, SampleBuckets
<1>5. StoresThere' /\ EndsCount'
  BY <1>1, <1>3 DEF PagesInv, StoresThere, EndsCount, Stores, Z!Buckets, SampleBuckets
<1>6. BucketsFine'
  BY <1>1 DEF PagesInv, BucketsFine, BucketFine, Stores, Z!Buckets, SampleBuckets, Z!Samples
<1>7. PageFinds'
  <2>1. CASE Z!Tick \/ UNCHANGED zpagesVars
    BY <2>1 DEF PagesInv, PageFinds, Z!Tick, zpagesVars, Z!page
  <2>2. CASE Z!ListStores
    <3>1. \A v \in Stores \cup {None} : v # None <=> v \in Stores
      BY StoreIsNotNone
    <3>2. /\ pageAt' = "active" /\ listed' = {n \in Names : stores[n] # None}
          /\ expected' = {s \in Spans : at[s] \in {"started", "sampled"}}
          /\ UNCHANGED <<at, name, active>>
      BY <2>2 DEF Z!ListStores
    <3>3. \A s \in expected' : at[s] = "started" \/ name[s] \in listed'
      BY <3>1, <3>2 DEF PagesInv, PagesTyped, StoresThere
    <3>4. QED BY <3>2, <3>3 DEF PagesInv, PageFinds
  <2>3. CASE Z!ListActive
    BY <2>3 DEF PagesInv, PageFinds, Z!ListActive
  <2>4. CASE \E s \in Spans : Z!SetName(s)
    <3>1. PICK s \in Spans : Z!SetName(s)
      BY <2>4
    <3>2. /\ at[s] = "started" /\ expected' = expected \ {s}
          /\ UNCHANGED <<at, active, pageAt, listed>>
          /\ \A q \in Spans : q # s => name'[q] = name[q]
      BY <3>1 DEF Z!SetName, Z!page, PagesInv, PagesTyped
    <3>3. QED BY <3>2 DEF PagesInv, PageFinds
  <2>5. QED BY <2>1, <2>2, <2>3, <2>4
<1>8. QED BY <1>4, <1>5, <1>6, <1>7 DEF PagesInv

LEMMA NextPages ==
    ASSUME PagesInv, [Z!Next]_(Z!zpagesVars)
    PROVE  PagesInv'
<1>1. CASE \/ Z!Tick \/ Z!ListStores \/ Z!ListActive \/ UNCHANGED zpagesVars
           \/ \E s \in Spans : Z!SetName(s)
  BY <1>1, OtherKeepsPages
<1>2. CASE \E s \in Spans : Z!OnStart(s) \/ Z!End(s) \/ Z!OnEnd(s)
  BY <1>2, StartedTyped, EndKeepsPages, RemovalKeepsPages, CreateKeepsPages, SampleKeepsPages DEF Z!OnEnd
<1>3. QED BY <1>1, <1>2 DEF Z!Next, Z!zpagesVars, zpagesVars

LEMMA PagesAreSound ==
    ASSUME PagesInv
    PROVE  PagesSound
<1> USE PagesAssumption
<1>1. \A v \in Stores \cup {None} : v # None <=> v \in Stores
  BY StoreIsNotNone
<1>2. Z!SamplesSpaced
  <2> SUFFICES ASSUME NEW n \in Names, NEW b \in Z!Buckets, stores[n] # None
               PROVE  /\ None \notin Z!Samples(stores[n][b])
                      /\ \A s, t \in Z!Samples(stores[n][b]) : s # t =>
                             \/ ended[s].time >= ended[t].time + SamplePeriod
                             \/ ended[t].time >= ended[s].time + SamplePeriod
    BY DEF Z!SamplesSpaced
  <2>1. stores[n] \in Stores
    BY <1>1 DEF PagesInv, PagesTyped
  <2>2. BucketFine(stores[n][b])
    BY <2>1 DEF PagesInv, BucketsFine
  <2>3. QED BY <2>2 DEF BucketFine
<1>3. Z!EveryEndCounts
  <2> SUFFICES ASSUME NEW s \in Spans, at[s] = "sampled"
               PROVE  /\ Z!Samples(stores[name[s]][ended[s].bucket]) # {}
                      /\ ended[s].time < stores[name[s]][ended[s].bucket].nextTime
    BY DEF Z!EveryEndCounts
  <2>1. stores[name[s]] \in Stores /\ name[s] \in Names /\ ended[s] \in Ends
    BY DEF PagesInv, StoresThere, PagesTyped
  <2>2. PICK b \in Z!Buckets : b = ended[s].bucket
    BY <2>1 DEF Ends
  <2>3. PICK x \in SampleBuckets : x = stores[name[s]][b]
    BY <2>1 DEF Stores
  <2>4. ended[s].time < x.nextTime /\ BucketFine(x)
    BY <2>1, <2>2, <2>3 DEF PagesInv, EndsCount, BucketsFine
  <2>5. x.nextTime > 0
    <3>1. ended[s].time \in Nat /\ x.nextTime \in Nat
      BY <2>1 DEF Ends, SampleBuckets
    <3>2. QED BY <2>4, <3>1
  <2>6. QED BY <2>2, <2>3, <2>4, <2>5 DEF BucketFine
<1>4. Z!PageMissesNeedChange
  BY DEF PagesInv, PageFinds, Z!PageMissesNeedChange
<1>5. QED BY <1>2, <1>3, <1>4 DEF PagesSound, Z!PagesSound

(***************************************************************************)
(* What the pages show, for any number of spans and names, any latencies   *)
(* and size of a bucket, and a SamplePeriod that is not zero: samples well *)
(* apart, each span that ended accounted for, no name missing              *)
(* (spanprocessor.go, lines 53-114; bucket.go, lines 47-61).               *)
(***************************************************************************)
THEOREM Pages == Z!Spec => []PagesSound
<1>1. Z!Init => PagesInv
  BY InitPages
<1>2. PagesInv /\ [Z!Next]_(Z!zpagesVars) => PagesInv'
  BY NextPages
<1>3. PagesInv => PagesSound
  BY PagesAreSound
<1>4. QED BY <1>1, <1>2, <1>3, PTL DEF Z!Spec

-----------------------------------------------------------------------------
(* Induction over the places of a sequence, from the least counterexample. *)

LEMMA LeastOne ==
    ASSUME NEW T, T \subseteq Nat, T # {}
    PROVE  \E n \in T : \A m \in T : n <= m
<1>1. PICK n \in T : \A m \in T : ~ (<<m, n>> \in OpToRel(<, Nat))
  BY NatLessThanWellFounded, WFMin
<1>2. ASSUME NEW m \in T PROVE n <= m
  <2>1. m < n => <<m, n>> \in OpToRel(<, Nat)
    BY DEF OpToRel
  <2>2. ~ (m < n)
    BY <2>1, <1>1, Zenon
  <2>3. QED BY <2>2
<1>3. QED BY <1>2

LEMMA FromZero ==
    ASSUME NEW n \in Nat, NEW S, 0 \in S, \A k \in 0..n : k \in S /\ k < n => k + 1 \in S
    PROVE  0..n \subseteq S
<1>1. SUFFICES ASSUME (0..n) \ S # {} PROVE FALSE
  OBVIOUS
<1>2. PICK k \in (0..n) \ S : \A m \in (0..n) \ S : k <= m
  <2>1. (0..n) \ S \subseteq Nat
    OBVIOUS
  <2>2. QED BY <1>1, <2>1, LeastOne
<1>3. k # 0 /\ k \in 1..n
  BY <1>2
<1>4. k - 1 \in 0..n /\ k - 1 < n /\ ~(k <= k - 1) /\ k - 1 + 1 = k
  BY <1>3
<1>5. k - 1 \in S
  BY <1>2, <1>4
<1>6. QED BY <1>2, <1>4, <1>5

-----------------------------------------------------------------------------
(* FoldLeft (instance R), which is defined over the sets of places.        *)

LEMMA MaxOfPlaces ==
    ASSUME NEW s, NEW k \in s, s \subseteq Nat, \A i \in s : i <= k
    PROVE  R!Max(s) = k
<1>1. \E x \in s : \A y \in s : x >= y
  BY ONLY s \subseteq Nat, k \in s, \A i \in s : i <= k
<1>2. R!Max(s) \in s /\ \A y \in s : R!Max(s) >= y
  BY <1>1 DEF R!Max
<1>3. PICK m \in s : m = R!Max(s)
  BY <1>2
<1>4. m >= k /\ m <= k /\ m \in Nat /\ k \in Nat
  BY <1>2, <1>3
<1>5. m = k
  BY <1>4
<1>6. QED BY <1>3, <1>5

\* A fold of n steps, as a table by sets of places.
Folds(it, n, r, step, D) ==
    /\ it \in [SUBSET (1..n) -> D]
    /\ it[{}] = r
    /\ \A s \in SUBSET (1..n) : s # {} => it[s] = step[<<R!Max(s), it[s \ {R!Max(s)}]>>]

LEMMA MaxInPlaces ==
    ASSUME NEW n \in Nat, NEW s \in SUBSET (1..n), s # {}
    PROVE  R!Max(s) \in s /\ \A y \in s : y <= R!Max(s)
<1> DEFINE U == {m \in Nat : \A y \in s : y <= m}
<1>1. n \in U
  OBVIOUS
<1>2. PICK m \in U : \A k \in U : m <= k
  <2>1. U \subseteq Nat /\ U # {}
    BY <1>1
  <2>2. QED BY <2>1, LeastOne
<1>3. m \in s
  <2>1. SUFFICES ASSUME m \notin s PROVE FALSE
    OBVIOUS
  <2>2. PICK y \in s : TRUE
    OBVIOUS
  <2>3. m >= 1 /\ m - 1 \in Nat /\ ~(m <= m - 1)
    BY <1>2, <2>2
  <2>4. \A k \in s : k <= m - 1
    BY <1>2, <2>1
  <2>5. QED BY <1>2, <2>3, <2>4
<1>4. R!Max(s) = m
  <2>1. s \subseteq Nat /\ \A i \in s : i <= m
    BY <1>2
  <2>2. QED BY <1>3, <2>1, MaxOfPlaces
<1>5. QED BY <1>2, <1>3, <1>4

LEMMA FoldExists ==
    ASSUME NEW n \in Nat, NEW D, NEW r \in D, NEW step \in [(1..n) \X D -> D]
    PROVE  \E it : Folds(it, n, r, step, D)
<1> DEFINE S == {k \in 0..n : \E it : Folds(it, k, r, step, D)}
<1>1. 0 \in S
  <2> DEFINE it == [s \in SUBSET (1..0) |-> r]
  <2>1. SUBSET (1..0) = {{}}
    OBVIOUS
  <2>2. Folds(it, 0, r, step, D)
    BY <2>1 DEF Folds
  <2>3. QED BY <2>2
<1>2. ASSUME NEW k \in 0..n, k \in S, k < n PROVE k + 1 \in S
  <2>1. PICK old : Folds(old, k, r, step, D)
    BY <1>2
  <2> DEFINE new == [s \in SUBSET (1..(k + 1)) |-> IF k + 1 \in s THEN step[<<k + 1, old[s \ {k + 1}]>>] ELSE old[s]]
  <2>2. new \in [SUBSET (1..(k + 1)) -> D] /\ new[{}] = r
    <3>1. ASSUME NEW s \in SUBSET (1..(k + 1)), k + 1 \in s PROVE step[<<k + 1, old[s \ {k + 1}]>>] \in D
      <4>1. s \ {k + 1} \in SUBSET (1..k) /\ k + 1 \in 1..n
        BY <1>2
      <4>2. old[s \ {k + 1}] \in D
        BY <2>1, <4>1 DEF Folds
      <4>3. QED BY <4>1, <4>2
    <3>2. ASSUME NEW s \in SUBSET (1..(k + 1)), k + 1 \notin s PROVE old[s] \in D
      <4>1. s \in SUBSET (1..k)
        BY <3>2
      <4>2. QED BY <2>1, <4>1 DEF Folds
    <3>3. new[{}] = r
      BY <2>1 DEF Folds
    <3>4. QED BY <3>1, <3>2, <3>3
  <2>3. ASSUME NEW s \in SUBSET (1..(k + 1)), s # {}
        PROVE  new[s] = step[<<R!Max(s), new[s \ {R!Max(s)}]>>]
    <3>1. CASE k + 1 \in s
      <4>1. R!Max(s) = k + 1
        <5>1. s \subseteq Nat /\ \A i \in s : i <= k + 1
          OBVIOUS
        <5>2. QED BY <3>1, <5>1, MaxOfPlaces
      <4>2. s \ {k + 1} \in SUBSET (1..(k + 1)) /\ k + 1 \notin s \ {k + 1}
        OBVIOUS
      <4>3. new[s \ {k + 1}] = old[s \ {k + 1}]
        BY <4>2
      <4>4. new[s] = step[<<k + 1, old[s \ {k + 1}]>>]
        BY <3>1
      <4>5. QED BY <4>1, <4>3, <4>4
    <3>2. CASE k + 1 \notin s
      <4>1. s \in SUBSET (1..k)
        BY <3>2
      <4>2. PICK t \in SUBSET (1..k) : t = s \ {R!Max(s)}
        BY <4>1
      <4>3. new[s] = old[s] /\ new[t] = old[t]
        <5>1. t \in SUBSET (1..(k + 1)) /\ k + 1 \notin t
          OBVIOUS
        <5>2. QED BY <3>2, <5>1
      <4>4. old[s] = step[<<R!Max(s), old[t]>>]
        BY <2>1, <2>3, <4>1, <4>2 DEF Folds
      <4>5. QED BY <4>2, <4>3, <4>4
    <3>3. QED BY <3>1, <3>2
  <2> HIDE DEF new
  <2>4. Folds(new, k + 1, r, step, D)
    BY <2>2, <2>3 DEF Folds
  <2>5. k + 1 \in 0..n
    BY <1>2
  <2>6. QED BY <2>4, <2>5
<1> HIDE DEF S
<1>3. 0..n \subseteq S
  BY <1>1, <1>2, FromZero
<1>4. QED BY <1>3 DEF S

LEMMA LastPlace ==
    ASSUME NEW k \in Nat
    PROVE  R!Max(1..(k + 1)) = k + 1
<1>1. 1..(k + 1) \subseteq Nat /\ k + 1 \in 1..(k + 1) /\ \A i \in 1..(k + 1) : i <= k + 1
  OBVIOUS
<1>2. QED BY <1>1, MaxOfPlaces

\* The two folds of the module.
KeptLists == Seq(Attributes)

\* How many of a list the limit lets through.
Within(lim, list) == IF lim < 0 THEN Len(list) ELSE R!Min({lim, Len(list)})

LEMMA WithinLimit ==
    ASSUME NEW D, NEW list \in Seq(D), limit \in Int
    PROVE  /\ Within(limit, list) \in 0..Len(list)
           /\ limit < 0 => Within(limit, list) = Len(list)
           /\ limit >= 0 => /\ Within(limit, list) <= limit
                            /\ Within(limit, list) = limit \/ Within(limit, list) = Len(list)
           /\ Len(list) - Within(limit, list) = IF limit < 0 THEN 0 ELSE R!Max({0, Len(list) - limit})
<1>1. PICK n \in Nat : n = Len(list)
  OBVIOUS
<1>2. CASE limit < 0
  BY <1>1, <1>2 DEF Within
<1>3. CASE limit >= 0
  <2>1. R!Min({limit, n}) = IF limit <= n THEN limit ELSE n
    <3>1. \E x \in {limit, n} : \A y \in {limit, n} : x =< y
      BY <1>3
    <3>2. R!Min({limit, n}) \in {limit, n} /\ \A y \in {limit, n} : R!Min({limit, n}) =< y
      BY <3>1 DEF R!Min
    <3>3. PICK x \in {limit, n} : x = R!Min({limit, n})
      BY <3>2
    <3>4. x =< limit /\ x =< n
      BY <3>2, <3>3
    <3>5. x = IF limit <= n THEN limit ELSE n
      BY <1>3, <3>4
    <3>6. QED BY <3>3, <3>5
  <2>2. R!Max({0, n - limit}) = IF limit <= n THEN n - limit ELSE 0
    <3>1. \E x \in {0, n - limit} : \A y \in {0, n - limit} : x >= y
      BY <1>3
    <3>2. R!Max({0, n - limit}) \in {0, n - limit} /\ \A y \in {0, n - limit} : R!Max({0, n - limit}) >= y
      BY <3>1 DEF R!Max
    <3>3. PICK x \in {0, n - limit} : x = R!Max({0, n - limit})
      BY <3>2
    <3>4. x >= 0 /\ x >= n - limit
      BY <3>2, <3>3
    <3>5. x = IF limit <= n THEN n - limit ELSE 0
      BY <1>3, <3>4
    <3>6. QED BY <3>3, <3>5
  <2>3. Within(limit, list) = IF limit <= n THEN limit ELSE n
    BY <1>1, <1>3, <2>1 DEF Within
  <2>4. QED BY <1>1, <1>3, <2>2, <2>3
<1>4. QED BY <1>2, <1>3

\* What Start keeps, attribute by attribute.
LEMMA CappedTyped ==
    ASSUME NEW list \in Seq(Attributes), limit \in Int
    PROVE  /\ R!Capped(list).kept \in Seq(Attributes)
           /\ Len(R!Capped(list).kept) <= Within(limit, list)
           /\ R!Capped(list).dropped = Len(list) - Within(limit, list)
<1> DEFINE r == << >>
           attrs == SubSeq(list, 1, Within(limit, list))
<1>c. PICK n \in Nat : n = Within(limit, list) /\ n <= Len(list)
  <2>1. Within(limit, list) \in 0..Len(list)
    BY WithinLimit
  <2>2. QED BY <2>1
<1>a. attrs \in Seq(Attributes) /\ DOMAIN attrs = 1..n
  BY <1>c
<1>d. /\ R!Capped(list).kept = R!FoldLeft(R!KeptIfValued, r, attrs)
      /\ R!Capped(list).dropped = Len(list) - Within(limit, list)
  BY DEF R!Capped, Within
<1> HIDE DEF attrs
<1>b. \A q \in KeptLists : \A i \in 1..n : R!KeptIfValued(q, attrs[i]) \in KeptLists
  BY <1>a DEF R!KeptIfValued, KeptLists
<1>e. r \in KeptLists
  BY DEF KeptLists
<1> DEFINE F == CHOOSE iter : iter = [s \in SUBSET DOMAIN attrs |->
                    IF s = {} THEN r ELSE R!KeptIfValued(iter[s \ {R!Max(s)}], attrs[R!Max(s)])]
           step == [p \in (1..n) \X KeptLists |-> R!KeptIfValued(p[2], attrs[p[1]])]
<1>1. R!FoldLeft(R!KeptIfValued, r, attrs) = F[DOMAIN attrs]
  BY DEF R!FoldLeft, R!MapThenFoldSet
<1>2. step \in [(1..n) \X KeptLists -> KeptLists]
  BY <1>b
<1>3. \A i \in 1..n : \A q \in KeptLists : step[<<i, q>>] = R!KeptIfValued(q, attrs[i])
  OBVIOUS
<1> HIDE DEF step
<1>4. ASSUME NEW it, Folds(it, n, r, step, KeptLists), NEW s \in SUBSET (1..n), s # {}
      PROVE  it[s] = R!KeptIfValued(it[s \ {R!Max(s)}], attrs[R!Max(s)])
  <2>1. R!Max(s) \in s
    BY <1>4, MaxInPlaces
  <2>2. s \ {R!Max(s)} \in SUBSET (1..n) /\ R!Max(s) \in 1..n
    BY <2>1
  <2>3. it[s \ {R!Max(s)}] \in KeptLists
    BY <1>4, <2>2 DEF Folds
  <2>4. it[s] = step[<<R!Max(s), it[s \ {R!Max(s)}]>>]
    BY <1>4 DEF Folds
  <2>5. QED BY <1>3, <2>2, <2>3, <2>4
<1>5. PICK it : Folds(it, n, r, step, KeptLists)
  BY <1>2, <1>e, FoldExists
<1>6. it = [s \in SUBSET DOMAIN attrs |->
               IF s = {} THEN r ELSE R!KeptIfValued(it[s \ {R!Max(s)}], attrs[R!Max(s)])]
  BY <1>a, <1>4, <1>5 DEF Folds
<1>7. F = [s \in SUBSET DOMAIN attrs |->
               IF s = {} THEN r ELSE R!KeptIfValued(F[s \ {R!Max(s)}], attrs[R!Max(s)])]
  BY <1>6
<1> HIDE DEF F
<1> DEFINE f == [k \in 0..n |-> F[1..k]]
<1>8. f[0] = r
  <2>1. 1..0 = {} /\ {} \in SUBSET DOMAIN attrs /\ 0 \in 0..n
    OBVIOUS
  <2>2. F[{}] = r
    BY <1>7, <2>1
  <2>3. f[0] = F[1..0]
    BY <2>1
  <2>4. QED BY <2>1, <2>2, <2>3
<1>9. ASSUME NEW k \in 0..n, k < n PROVE f[k + 1] = R!KeptIfValued(f[k], attrs[k + 1])
  <2>0. 1..(k + 1) \in SUBSET (1..n) /\ k + 1 \in 1..(k + 1) /\ k + 1 \in 0..n
    BY <1>9
  <2>1. 1..(k + 1) \in SUBSET DOMAIN attrs /\ 1..(k + 1) # {} /\ k + 1 \in 1..(k + 1) /\ k + 1 \in 0..n
    BY <1>a, <2>0, Zenon
  <2>2. R!Max(1..(k + 1)) = k + 1
    BY <2>1, LastPlace
  <2>3. (1..(k + 1)) \ {k + 1} = 1..k
    OBVIOUS
  <2>4. F[1..(k + 1)] = R!KeptIfValued(F[(1..(k + 1)) \ {R!Max(1..(k + 1))}], attrs[R!Max(1..(k + 1))])
    BY <1>7, <2>1
  <2>5. F[1..(k + 1)] = R!KeptIfValued(F[1..k], attrs[k + 1])
    BY <2>2, <2>3, <2>4
  <2>6. f[k] = F[1..k] /\ f[k + 1] = F[1..(k + 1)]
    BY <2>1
  <2>7. QED BY <2>5, <2>6
<1> DEFINE S == {k \in 0..n : f[k] \in KeptLists /\ Len(f[k]) <= k}
<1> HIDE DEF f
<1>10. ASSUME NEW k \in 0..n, k \in S, k < n PROVE k + 1 \in S
  <2>1. k + 1 \in 1..n /\ k + 1 \in 0..n
    BY <1>10
  <2>2. attrs[k + 1] \in Attributes
    BY <1>a, <2>1
  <2>3. R!KeptIfValued(f[k], attrs[k + 1]) \in KeptLists
    BY <1>b, <1>10, <2>1
  <2>4. Len(R!KeptIfValued(f[k], attrs[k + 1])) <= k + 1
    BY <1>10, <2>2 DEF R!KeptIfValued, KeptLists
  <2>5. QED BY <1>9, <1>10, <2>1, <2>3, <2>4
<1>11. 0..n \subseteq S
  <2>1. 0 \in S
    BY <1>8, <1>e
  <2> HIDE DEF S
  <2>2. QED BY <1>10, <2>1, FromZero
<1>12. R!FoldLeft(R!KeptIfValued, r, attrs) = f[n]
  BY <1>a, <1>1 DEF f
<1>13. R!Capped(list).kept = f[n]
  BY <1>d, <1>12
<1>14. f[n] \in Seq(Attributes) /\ Len(f[n]) <= n
  BY <1>11 DEF KeptLists
<1>15. QED BY <1>c, <1>d, <1>13, <1>14
-----------------------------------------------------------------------------
(* SetAttributes (instance R), one attribute at a time.                    *)

\* The first m attributes of G that are refused by a list of attributes.
Refused(attrs, G, m) == {i \in 1..m : G[i].value = Empty \/ G[i].key \notin R!KeysOf(attrs)}

NewestIn(attrs, G, m) ==
    \A i \in (1..m) \ Refused(attrs, G, m) :
        (\A j \in (1..m) \ Refused(attrs, G, m) : j > i => G[j].key # G[i].key)
            => \E p \in DOMAIN attrs : attrs[p] = G[i]

Accounted(lim, q, G, m, cut) ==
    /\ q.droppedAttrs = cut + Cardinality(Refused(q.attrs, G, m))
    /\ lim >= 0 => Len(q.attrs) <= lim
    /\ NewestIn(q.attrs, G, m)
    /\ (\E i \in Refused(q.attrs, G, m) : G[i].value # Empty) => Len(q.attrs) = lim

PlacesOf(attrs, a) == {i \in DOMAIN attrs : attrs[i].key = a.key}

LEMMA PlaceFound ==
    ASSUME NEW attrs \in Seq(Attributes), NEW a, PlacesOf(attrs, a) # {}
    PROVE  R!Max(PlacesOf(attrs, a)) \in PlacesOf(attrs, a)
<1>1. Len(attrs) \in Nat /\ PlacesOf(attrs, a) \in SUBSET (1..Len(attrs))
  BY DEF PlacesOf
<1>2. QED BY <1>1, MaxInPlaces

LEMMA SetOneCases ==
    ASSUME NEW q \in SpanRecords, NEW a \in Attributes, limit \in Int
    PROVE  \/ /\ a.value = Empty
              /\ R!SetOne(q, a) = [q EXCEPT !.droppedAttrs = @ + 1]
           \/ /\ a.value # Empty /\ PlacesOf(q.attrs, a) # {}
              /\ \E p \in PlacesOf(q.attrs, a) : R!SetOne(q, a) = [q EXCEPT !.attrs = [@ EXCEPT ![p] = a]]
           \/ /\ a.value # Empty /\ PlacesOf(q.attrs, a) = {} /\ (limit < 0 \/ Len(q.attrs) < limit)
              /\ R!SetOne(q, a) = [q EXCEPT !.attrs = Append(@, a)]
           \/ /\ a.value # Empty /\ PlacesOf(q.attrs, a) = {} /\ ~(limit < 0 \/ Len(q.attrs) < limit)
              /\ R!SetOne(q, a) = [q EXCEPT !.droppedAttrs = @ + 1]
<1>1. q.attrs \in Seq(Attributes)
  BY DEF SpanRecords
<1>2. CASE a.value = Empty
  BY <1>2 DEF R!SetOne
<1>3. CASE a.value # Empty /\ PlacesOf(q.attrs, a) # {}
  <2>1. R!Max(PlacesOf(q.attrs, a)) \in PlacesOf(q.attrs, a)
    BY <1>1, <1>3, PlaceFound
  <2>2. R!SetOne(q, a) = [q EXCEPT !.attrs = [@ EXCEPT ![R!Max(PlacesOf(q.attrs, a))] = a]]
    BY <1>3 DEF R!SetOne, PlacesOf
  <2>3. QED BY <1>3, <2>1, <2>2
<1>4. CASE a.value # Empty /\ PlacesOf(q.attrs, a) = {}
  BY <1>4 DEF R!SetOne, PlacesOf
<1>5. QED BY <1>2, <1>3, <1>4

LEMMA SetOneKeeps ==
    ASSUME NEW q \in SpanRecords, NEW a \in Attributes, limit \in Int
    PROVE  /\ R!SetOne(q, a) \in SpanRecords
           /\ R!SetOne(q, a).events = q.events /\ R!SetOne(q, a).links = q.links
<1>1. q.attrs \in Seq(Attributes) /\ q.droppedAttrs \in Nat
  BY DEF SpanRecords
<1>2. [q EXCEPT !.droppedAttrs = @ + 1] \in SpanRecords
  BY <1>1 DEF SpanRecords
<1>3. ASSUME NEW s \in Seq(Attributes)
      PROVE  [q EXCEPT !.attrs = s] \in SpanRecords
  BY DEF SpanRecords
<1>4. Append(q.attrs, a) \in Seq(Attributes)
  BY <1>1
<1>5. \A p \in PlacesOf(q.attrs, a) : [q.attrs EXCEPT ![p] = a] \in Seq(Attributes)
  BY <1>1 DEF PlacesOf
<1>6. CASE R!SetOne(q, a) = [q EXCEPT !.droppedAttrs = @ + 1]
  <2>1. [q EXCEPT !.droppedAttrs = @ + 1].events = q.events /\ [q EXCEPT !.droppedAttrs = @ + 1].links = q.links
    BY DEF SpanRecords
  <2>2. QED BY <1>2, <1>6, <2>1
<1>7. CASE \E s \in Seq(Attributes) : R!SetOne(q, a) = [q EXCEPT !.attrs = s]
  <2>1. PICK s \in Seq(Attributes) : R!SetOne(q, a) = [q EXCEPT !.attrs = s]
    BY <1>7
  <2>2. [q EXCEPT !.attrs = s].events = q.events /\ [q EXCEPT !.attrs = s].links = q.links
    BY DEF SpanRecords
  <2>3. QED BY <1>3, <2>1, <2>2
<1>8. QED BY <1>4, <1>5, <1>6, <1>7, SetOneCases

\* What SetAttributes does, attribute by attribute.
LEMMA FoldOfSetOne ==
    ASSUME NEW r \in SpanRecords, NEW attrs \in Seq(Attributes), limit \in Int, limit # 0
    PROVE  \E f : /\ R!SetAll(r, attrs) = f[Len(attrs)] /\ f[0] = r
                  /\ \A k \in 0..Len(attrs) : f[k] \in SpanRecords
                  /\ \A k \in 0..Len(attrs) : k < Len(attrs) => f[k + 1] = R!SetOne(f[k], attrs[k + 1])
<1>a. PICK n \in Nat : n = Len(attrs) /\ DOMAIN attrs = 1..n
  OBVIOUS
<1>b. \A q \in SpanRecords : \A i \in 1..n : R!SetOne(q, attrs[i]) \in SpanRecords
  BY <1>a, SetOneKeeps
<1> DEFINE F == CHOOSE iter : iter = [s \in SUBSET DOMAIN attrs |->
                    IF s = {} THEN r ELSE R!SetOne(iter[s \ {R!Max(s)}], attrs[R!Max(s)])]
           step == [p \in (1..n) \X SpanRecords |-> R!SetOne(p[2], attrs[p[1]])]
<1>1. R!FoldLeft(R!SetOne, r, attrs) = F[DOMAIN attrs]
  BY DEF R!FoldLeft, R!MapThenFoldSet
<1>2. step \in [(1..n) \X SpanRecords -> SpanRecords]
  BY <1>b
<1>3. \A i \in 1..n : \A q \in SpanRecords : step[<<i, q>>] = R!SetOne(q, attrs[i])
  OBVIOUS
<1> HIDE DEF step
<1>4. ASSUME NEW it, Folds(it, n, r, step, SpanRecords), NEW s \in SUBSET (1..n), s # {}
      PROVE  it[s] = R!SetOne(it[s \ {R!Max(s)}], attrs[R!Max(s)])
  <2>1. R!Max(s) \in s
    BY <1>4, MaxInPlaces
  <2>2. s \ {R!Max(s)} \in SUBSET (1..n) /\ R!Max(s) \in 1..n
    BY <2>1
  <2>3. it[s \ {R!Max(s)}] \in SpanRecords
    BY <1>4, <2>2 DEF Folds
  <2>4. it[s] = step[<<R!Max(s), it[s \ {R!Max(s)}]>>]
    BY <1>4 DEF Folds
  <2>5. QED BY <1>3, <2>2, <2>3, <2>4
<1>5. PICK it : Folds(it, n, r, step, SpanRecords)
  BY <1>2, FoldExists
<1>6. it = [s \in SUBSET DOMAIN attrs |->
               IF s = {} THEN r ELSE R!SetOne(it[s \ {R!Max(s)}], attrs[R!Max(s)])]
  BY <1>a, <1>4, <1>5 DEF Folds
<1>7. F = [s \in SUBSET DOMAIN attrs |->
               IF s = {} THEN r ELSE R!SetOne(F[s \ {R!Max(s)}], attrs[R!Max(s)])]
  BY <1>6
<1> HIDE DEF F
<1> DEFINE f == [k \in 0..n |-> F[1..k]]
<1>8. f[0] = r
  <2>1. 1..0 = {} /\ {} \in SUBSET DOMAIN attrs /\ 0 \in 0..n
    OBVIOUS
  <2>2. F[{}] = r
    BY <1>7, <2>1
  <2>3. f[0] = F[1..0]
    BY <2>1
  <2>4. QED BY <2>1, <2>2, <2>3
<1>9. ASSUME NEW k \in 0..n, k < n PROVE f[k + 1] = R!SetOne(f[k], attrs[k + 1])
  <2>0. 1..(k + 1) \in SUBSET (1..n) /\ k + 1 \in 1..(k + 1) /\ k + 1 \in 0..n
    BY <1>9
  <2>1. 1..(k + 1) \in SUBSET DOMAIN attrs /\ 1..(k + 1) # {} /\ k + 1 \in 1..(k + 1) /\ k + 1 \in 0..n
    BY <1>a, <2>0, Zenon
  <2>2. R!Max(1..(k + 1)) = k + 1
    BY <2>1, LastPlace
  <2>3. (1..(k + 1)) \ {k + 1} = 1..k
    OBVIOUS
  <2>4. F[1..(k + 1)] = R!SetOne(F[(1..(k + 1)) \ {R!Max(1..(k + 1))}], attrs[R!Max(1..(k + 1))])
    BY <1>7, <2>1
  <2>5. F[1..(k + 1)] = R!SetOne(F[1..k], attrs[k + 1])
    BY <2>2, <2>3, <2>4
  <2>6. f[k] = F[1..k] /\ f[k + 1] = F[1..(k + 1)]
    BY <2>1
  <2>7. QED BY <2>5, <2>6
<1> DEFINE S == {k \in 0..n : f[k] \in SpanRecords}
<1> HIDE DEF f
<1>10. ASSUME NEW k \in 0..n, k \in S, k < n PROVE k + 1 \in S
  <2>1. k + 1 \in 1..n /\ k + 1 \in 0..n
    BY <1>10
  <2>2. R!SetOne(f[k], attrs[k + 1]) \in SpanRecords
    BY <1>b, <1>10, <2>1
  <2>3. QED BY <1>9, <1>10, <2>1, <2>2
<1>11. 0..n \subseteq S
  <2>1. 0 \in S
    BY <1>8
  <2> HIDE DEF S
  <2>2. QED BY <1>10, <2>1, FromZero
<1>12. R!FoldLeft(R!SetOne, r, attrs) = f[n]
  BY <1>a, <1>1 DEF f
<1>13. R!SetAll(r, attrs) = f[n]
  BY <1>12 DEF R!SetAll
<1>14. QED BY <1>a, <1>8, <1>9, <1>11, <1>13

\* One more attribute is refused.
RefusesMore(attrs, G, m) ==
    /\ Refused(attrs, G, m + 1) = Refused(attrs, G, m) \cup {m + 1}
    /\ Cardinality(Refused(attrs, G, m + 1)) = Cardinality(Refused(attrs, G, m)) + 1
    /\ (1..(m + 1)) \ Refused(attrs, G, m + 1) = (1..m) \ Refused(attrs, G, m)

LEMMA RefuseOne ==
    ASSUME NEW attrs, NEW G \in Seq(Attributes), NEW m \in Nat, m < Len(G),
           G[m + 1].value = Empty \/ G[m + 1].key \notin R!KeysOf(attrs)
    PROVE  RefusesMore(attrs, G, m)
<1>1. 1..(m + 1) = (1..m) \cup {m + 1} /\ m + 1 \notin 1..m
  OBVIOUS
<1>2. Refused(attrs, G, m + 1) = Refused(attrs, G, m) \cup {m + 1}
  BY <1>1 DEF Refused
<1>3. m + 1 \notin Refused(attrs, G, m) /\ Refused(attrs, G, m) \subseteq 1..m
  BY <1>1 DEF Refused
<1>4. IsFiniteSet(Refused(attrs, G, m))
  <2>1. IsFiniteSet(1..m)
    BY FS_Interval
  <2>2. QED BY <1>3, <2>1, FS_Subset
<1>5. Cardinality(Refused(attrs, G, m + 1)) = Cardinality(Refused(attrs, G, m)) + 1
  BY <1>2, <1>3, <1>4, FS_AddElement
<1>6. (1..(m + 1)) \ Refused(attrs, G, m + 1) = (1..m) \ Refused(attrs, G, m)
  BY <1>1, <1>2, <1>3
<1>7. QED BY <1>2, <1>5, <1>6 DEF RefusesMore

LEMMA RefusedCounted ==
    ASSUME NEW attrs, NEW G, NEW m \in Nat
    PROVE  Cardinality(Refused(attrs, G, m)) \in Nat
<1>1. Refused(attrs, G, m) \subseteq 1..m
  BY DEF Refused
<1>2. IsFiniteSet(Refused(attrs, G, m))
  BY <1>1, FS_Interval, FS_Subset
<1>3. QED BY <1>2, FS_CardinalityType

LEMMA AccountRefused ==
    ASSUME NEW q \in SpanRecords, NEW G \in Seq(Attributes), NEW m \in Nat, m < Len(G), NEW cut \in Nat,
           limit \in Int, Accounted(limit, q, G, m, cut),
           \/ G[m + 1].value = Empty
           \/ G[m + 1].key \notin R!KeysOf(q.attrs) /\ Len(q.attrs) = limit
    PROVE  Accounted(limit, [q EXCEPT !.droppedAttrs = @ + 1], G, m + 1, cut)
<1>1. /\ Refused(q.attrs, G, m + 1) = Refused(q.attrs, G, m) \cup {m + 1}
      /\ Cardinality(Refused(q.attrs, G, m + 1)) = Cardinality(Refused(q.attrs, G, m)) + 1
      /\ (1..(m + 1)) \ Refused(q.attrs, G, m + 1) = (1..m) \ Refused(q.attrs, G, m)
  <2>1. G[m + 1].value = Empty \/ G[m + 1].key \notin R!KeysOf(q.attrs)
    OBVIOUS
  <2>2. RefusesMore(q.attrs, G, m)
    BY <2>1, RefuseOne
  <2>3. QED BY <2>2 DEF RefusesMore
<1>2. PICK q2 : q2 = [q EXCEPT !.droppedAttrs = @ + 1]
  OBVIOUS
<1>3. q2.attrs = q.attrs /\ q2.droppedAttrs = q.droppedAttrs + 1
  BY <1>2 DEF SpanRecords
<1>4. q2.droppedAttrs = cut + Cardinality(Refused(q.attrs, G, m + 1))
  BY <1>1, <1>3, RefusedCounted DEF Accounted
<1>5. NewestIn(q.attrs, G, m + 1)
  BY <1>1 DEF Accounted, NewestIn
<1>6. (\E i \in Refused(q.attrs, G, m + 1) : G[i].value # Empty) => Len(q.attrs) = limit
  BY <1>1 DEF Accounted
<1>7. limit >= 0 => Len(q.attrs) <= limit
  BY DEF Accounted
<1>8. Accounted(limit, q2, G, m + 1, cut)
  BY <1>3, <1>4, <1>5, <1>6, <1>7 DEF Accounted
<1>9. QED BY <1>2, <1>8

\* A place is given a new value of its key.
LEMMA AccountReplaced ==
    ASSUME NEW q \in SpanRecords, NEW G \in Seq(Attributes), NEW m \in Nat, m < Len(G), NEW cut \in Nat,
           Accounted(limit, q, G, m, cut), G[m + 1].value # Empty, NEW p \in PlacesOf(q.attrs, G[m + 1])
    PROVE  Accounted(limit, [q EXCEPT !.attrs = [@ EXCEPT ![p] = G[m + 1]]], G, m + 1, cut)
<1>1. q.attrs \in Seq(Attributes) /\ G[m + 1] \in Attributes
  BY DEF SpanRecords
<1>2. PICK new : new = [q.attrs EXCEPT ![p] = G[m + 1]]
  OBVIOUS
<1>3. p \in DOMAIN q.attrs /\ q.attrs[p].key = G[m + 1].key
  BY DEF PlacesOf
<1>4. /\ DOMAIN new = DOMAIN q.attrs /\ Len(new) = Len(q.attrs)
      /\ new[p] = G[m + 1] /\ \A x \in DOMAIN new : x # p => new[x] = q.attrs[x]
  BY <1>1, <1>2, <1>3
<1>5. \A x \in DOMAIN new : new[x].key = q.attrs[x].key
  BY <1>3, <1>4
<1>6. R!KeysOf(new) = R!KeysOf(q.attrs) /\ G[m + 1].key \in R!KeysOf(new)
  BY <1>3, <1>4, <1>5 DEF R!KeysOf
<1>7. 1..(m + 1) = (1..m) \cup {m + 1} /\ m + 1 \notin 1..m
  OBVIOUS
<1>8. /\ Refused(new, G, m + 1) = Refused(q.attrs, G, m)
      /\ (1..(m + 1)) \ Refused(new, G, m + 1) = ((1..m) \ Refused(q.attrs, G, m)) \cup {m + 1}
  BY <1>6, <1>7 DEF Refused
<1>9. NewestIn(new, G, m + 1)
  <2> DEFINE kept == (1..m) \ Refused(q.attrs, G, m)
  <2> SUFFICES ASSUME NEW i \in kept \cup {m + 1},
                      \A j \in kept \cup {m + 1} : j > i => G[j].key # G[i].key
               PROVE  \E x \in DOMAIN new : new[x] = G[i]
    BY <1>8 DEF NewestIn
  <2>1. CASE i = m + 1
    BY <2>1, <1>3, <1>4
  <2>2. CASE i # m + 1
    <3>1. i \in kept /\ m + 1 > i
      BY <2>2
    <3>2. G[m + 1].key # G[i].key
      BY <3>1
    <3>3. PICK x \in DOMAIN q.attrs : q.attrs[x] = G[i]
      BY <3>1 DEF Accounted, NewestIn
    <3>4. x # p
      BY <1>3, <3>2, <3>3
    <3>5. QED BY <1>4, <3>3, <3>4
  <2>3. QED BY <2>1, <2>2
<1>10. PICK q2 : q2 = [q EXCEPT !.attrs = new]
  OBVIOUS
<1>11. q2.attrs = new /\ q2.droppedAttrs = q.droppedAttrs
  BY <1>10 DEF SpanRecords
<1>12. Accounted(limit, q2, G, m + 1, cut)
  BY <1>4, <1>8, <1>9, <1>11 DEF Accounted
<1>13. q2 = [q EXCEPT !.attrs = [@ EXCEPT ![p] = G[m + 1]]]
  BY <1>2, <1>10
<1>14. QED BY <1>12, <1>13

\* A new key finds room: then every key has found room before.
LEMMA AccountAdded ==
    ASSUME NEW q \in SpanRecords, NEW G \in Seq(Attributes), NEW m \in Nat, m < Len(G), NEW cut \in Nat,
           limit \in Int, Accounted(limit, q, G, m, cut), G[m + 1].value # Empty,
           PlacesOf(q.attrs, G[m + 1]) = {}, limit < 0 \/ Len(q.attrs) < limit
    PROVE  Accounted(limit, [q EXCEPT !.attrs = Append(@, G[m + 1])], G, m + 1, cut)
<1>1. q.attrs \in Seq(Attributes) /\ G[m + 1] \in Attributes
  BY DEF SpanRecords
<1>2. PICK new : new = Append(q.attrs, G[m + 1])
  OBVIOUS
<1>3. Len(q.attrs) \in Nat /\ Len(q.attrs) # limit
  BY <1>1
<1>4. /\ Len(new) = Len(q.attrs) + 1 /\ DOMAIN new = 1..(Len(q.attrs) + 1)
      /\ DOMAIN q.attrs = 1..Len(q.attrs)
      /\ new[Len(q.attrs) + 1] = G[m + 1] /\ \A x \in DOMAIN q.attrs : new[x] = q.attrs[x]
  BY <1>1, <1>2
<1>5. DOMAIN new = DOMAIN q.attrs \cup {Len(q.attrs) + 1}
  BY <1>3, <1>4
<1>6. R!KeysOf(new) = R!KeysOf(q.attrs) \cup {G[m + 1].key}
  <2>1. R!KeysOf(new) = {new[x].key : x \in DOMAIN q.attrs \cup {Len(q.attrs) + 1}}
    BY <1>5 DEF R!KeysOf
  <2>2. QED BY <1>4, <2>1 DEF R!KeysOf
<1>7. \A i \in Refused(q.attrs, G, m) : G[i].value = Empty
  BY <1>3 DEF Accounted
<1>8. 1..(m + 1) = (1..m) \cup {m + 1} /\ m + 1 \notin 1..m
  OBVIOUS
<1>9. /\ Refused(new, G, m + 1) = Refused(q.attrs, G, m)
      /\ (1..(m + 1)) \ Refused(new, G, m + 1) = ((1..m) \ Refused(q.attrs, G, m)) \cup {m + 1}
  <2>1. \A i \in 1..m : i \in Refused(new, G, m + 1) <=> i \in Refused(q.attrs, G, m)
    BY <1>6, <1>7, <1>8 DEF Refused
  <2>2. m + 1 \notin Refused(new, G, m + 1)
    BY <1>6 DEF Refused
  <2>3. Refused(new, G, m + 1) \subseteq 1..(m + 1) /\ Refused(q.attrs, G, m) \subseteq 1..m
    BY DEF Refused
  <2>4. QED BY <1>8, <2>1, <2>2, <2>3
<1>10. NewestIn(new, G, m + 1)
  <2> DEFINE kept == (1..m) \ Refused(q.attrs, G, m)
  <2> SUFFICES ASSUME NEW i \in kept \cup {m + 1},
                      \A j \in kept \cup {m + 1} : j > i => G[j].key # G[i].key
               PROVE  \E x \in DOMAIN new : new[x] = G[i]
    BY <1>9 DEF NewestIn
  <2>1. CASE i = m + 1
    BY <2>1, <1>4, <1>5
  <2>2. CASE i # m + 1
    <3>1. i \in kept
      BY <2>2
    <3>2. PICK x \in DOMAIN q.attrs : q.attrs[x] = G[i]
      BY <3>1 DEF Accounted, NewestIn
    <3>3. QED BY <1>4, <1>5, <3>2
  <2>3. QED BY <2>1, <2>2
<1>11. PICK q2 : q2 = [q EXCEPT !.attrs = new]
  OBVIOUS
<1>12. q2.attrs = new /\ q2.droppedAttrs = q.droppedAttrs
  BY <1>11 DEF SpanRecords
<1>13. limit >= 0 => Len(new) <= limit
  BY <1>3, <1>4
<1>14. (\E i \in Refused(new, G, m + 1) : G[i].value # Empty) => Len(new) = limit
  BY <1>7, <1>9
<1>15. Accounted(limit, q2, G, m + 1, cut)
  BY <1>9, <1>10, <1>12, <1>13, <1>14 DEF Accounted
<1>16. q2 = [q EXCEPT !.attrs = Append(@, G[m + 1])]
  BY <1>2, <1>11
<1>17. QED BY <1>15, <1>16

LEMMA SetOneAccounts ==
    ASSUME NEW q \in SpanRecords, NEW G \in Seq(Attributes), NEW m \in Nat, m < Len(G), NEW cut \in Nat,
           limit \in Int, Accounted(limit, q, G, m, cut)
    PROVE  Accounted(limit, R!SetOne(q, G[m + 1]), G, m + 1, cut)
<1>1. G[m + 1] \in Attributes /\ q.attrs \in Seq(Attributes) /\ Len(q.attrs) \in Nat
  BY DEF SpanRecords
<1>2. PlacesOf(q.attrs, G[m + 1]) = {} => G[m + 1].key \notin R!KeysOf(q.attrs)
  BY DEF PlacesOf, R!KeysOf
<1>3. ~(limit < 0 \/ Len(q.attrs) < limit) => Len(q.attrs) = limit
  BY <1>1 DEF Accounted
<1>4. PICK a \in Attributes : a = G[m + 1]
  BY <1>1
<1>5. CASE /\ a.value # Empty
           /\ \E p \in PlacesOf(q.attrs, a) : R!SetOne(q, a) = [q EXCEPT !.attrs = [@ EXCEPT ![p] = a]]
  <2>1. PICK p \in PlacesOf(q.attrs, G[m + 1]) :
                 R!SetOne(q, G[m + 1]) = [q EXCEPT !.attrs = [@ EXCEPT ![p] = G[m + 1]]]
    BY <1>4, <1>5
  <2>2. Accounted(limit, [q EXCEPT !.attrs = [@ EXCEPT ![p] = G[m + 1]]], G, m + 1, cut)
    BY <1>4, <1>5, AccountReplaced
  <2>3. QED BY <2>1, <2>2
<1>6. CASE /\ a.value # Empty /\ PlacesOf(q.attrs, a) = {} /\ (limit < 0 \/ Len(q.attrs) < limit)
           /\ R!SetOne(q, a) = [q EXCEPT !.attrs = Append(@, a)]
  <2>1. Accounted(limit, [q EXCEPT !.attrs = Append(@, G[m + 1])], G, m + 1, cut)
    BY <1>4, <1>6, AccountAdded
  <2>2. QED BY <1>4, <1>6, <2>1
<1>7. CASE /\ a.value = Empty \/ (PlacesOf(q.attrs, a) = {} /\ ~(limit < 0 \/ Len(q.attrs) < limit))
           /\ R!SetOne(q, a) = [q EXCEPT !.droppedAttrs = @ + 1]
  <2>1. \/ G[m + 1].value = Empty
        \/ G[m + 1].key \notin R!KeysOf(q.attrs) /\ Len(q.attrs) = limit
    BY <1>2, <1>3, <1>4, <1>7
  <2>2. Accounted(limit, [q EXCEPT !.droppedAttrs = @ + 1], G, m + 1, cut)
    BY <2>1, AccountRefused
  <2>3. QED BY <1>4, <1>7, <2>2
<1>8. QED
  <2>1. \/ /\ a.value = Empty
           /\ R!SetOne(q, a) = [q EXCEPT !.droppedAttrs = @ + 1]
        \/ /\ a.value # Empty /\ PlacesOf(q.attrs, a) # {}
           /\ \E p \in PlacesOf(q.attrs, a) : R!SetOne(q, a) = [q EXCEPT !.attrs = [@ EXCEPT ![p] = a]]
        \/ /\ a.value # Empty /\ PlacesOf(q.attrs, a) = {} /\ (limit < 0 \/ Len(q.attrs) < limit)
           /\ R!SetOne(q, a) = [q EXCEPT !.attrs = Append(@, a)]
        \/ /\ a.value # Empty /\ PlacesOf(q.attrs, a) = {} /\ ~(limit < 0 \/ Len(q.attrs) < limit)
           /\ R!SetOne(q, a) = [q EXCEPT !.droppedAttrs = @ + 1]
    BY SetOneCases
  <2>2. QED BY <1>5, <1>6, <1>7, <2>1

AllSet(lim, q, q2, G, cut) ==
    /\ q2 \in SpanRecords /\ q2.events = q.events /\ q2.links = q.links
    /\ Accounted(lim, q2, G, Len(G), cut)

\* All the attributes of a call: from the first m of G to those that follow.
LEMMA SetAllAccounts ==
    ASSUME NEW q \in SpanRecords, NEW G \in Seq(Attributes), NEW m \in Nat, NEW cut \in Nat,
           limit \in Int, Accounted(limit, q, G, m, cut),
           NEW attrs \in Seq(Attributes), Len(G) = m + Len(attrs),
           \A i \in 1..Len(attrs) : G[m + i] = attrs[i]
    PROVE  AllSet(limit, q, R!SetAll(q, attrs), G, cut)
<1>1. PICK n \in Nat : n = Len(attrs) /\ DOMAIN attrs = 1..n
  OBVIOUS
<1>2. CASE limit # 0
  <2>1. PICK f : /\ R!SetAll(q, attrs) = f[Len(attrs)] /\ f[0] = q
                 /\ \A k \in 0..Len(attrs) : f[k] \in SpanRecords
                 /\ \A k \in 0..Len(attrs) : k < Len(attrs) => f[k + 1] = R!SetOne(f[k], attrs[k + 1])
    BY <1>2, FoldOfSetOne
  <2>2. /\ R!SetAll(q, attrs) = f[n] /\ f[0] = q
        /\ \A k \in 0..n : f[k] \in SpanRecords
        /\ \A k \in 0..n : k < n => f[k + 1] = R!SetOne(f[k], attrs[k + 1])
    BY <1>1, <2>1
  <2> DEFINE Fine(k) == /\ f[k].events = q.events /\ f[k].links = q.links
                        /\ Accounted(limit, f[k], G, m + k, cut)
             S == {k \in 0..n : Fine(k)}
  <2>3. 0 \in S
    BY <2>2
  <2>4. ASSUME NEW k \in 0..n, k \in S, k < n PROVE k + 1 \in S
    <3>1. k + 1 \in 1..n /\ k + 1 \in 0..n /\ m + k \in Nat /\ m + k < Len(G) /\ m + k + 1 = m + (k + 1)
      BY <1>1, <2>4
    <3>2. attrs[k + 1] = G[m + k + 1] /\ attrs[k + 1] \in Attributes
      BY <1>1, <3>1
    <3>3. f[k] \in SpanRecords /\ f[k + 1] = R!SetOne(f[k], attrs[k + 1])
      BY <2>2, <2>4
    <3>4. Accounted(limit, f[k + 1], G, m + k + 1, cut)
      BY <2>4, <3>1, <3>2, <3>3, SetOneAccounts
    <3>5. f[k + 1].events = q.events /\ f[k + 1].links = q.links
      <4>1. PICK r \in SpanRecords : r = f[k]
        BY <3>3
      <4>2. PICK a \in Attributes : a = attrs[k + 1]
        BY <3>2
      <4>3. R!SetOne(r, a).events = r.events /\ R!SetOne(r, a).links = r.links
        BY SetOneKeeps
      <4>4. r.events = q.events /\ r.links = q.links
        BY <2>4, <4>1
      <4>5. QED BY <3>3, <4>1, <4>2, <4>3, <4>4
    <3>6. QED BY <3>1, <3>4, <3>5
  <2>5. 0..n \subseteq S
    <3> HIDE DEF S
    <3>1. QED BY <2>3, <2>4, FromZero
  <2>6. n \in 0..n /\ m + n = Len(G)
    BY <1>1
  <2>7. R!SetAll(q, attrs) = f[n] /\ f[n] \in SpanRecords
    BY <1>2, <2>2, <2>6
  <2>8. QED BY <2>5, <2>6, <2>7 DEF AllSet
<1>3. CASE limit = 0
  <2>1. PICK q2 : q2 = R!SetAll(q, attrs)
    OBVIOUS
  <2>2. q2 = [q EXCEPT !.droppedAttrs = @ + n]
    BY <1>1, <1>3, <2>1 DEF R!SetAll
  <2>3. /\ q2 \in SpanRecords /\ q2.attrs = q.attrs /\ q2.droppedAttrs = q.droppedAttrs + n
        /\ q2.events = q.events /\ q2.links = q.links
    <3>1. PICK d \in Nat : d = q.droppedAttrs + n
      BY DEF SpanRecords
    <3>2. q2 = [q EXCEPT !.droppedAttrs = d]
      BY <2>2, <3>1
    <3>3. QED BY <3>1, <3>2 DEF SpanRecords
  <2>4. q.attrs \in Seq(Attributes) /\ Len(q.attrs) = 0
    BY <1>3 DEF SpanRecords, Accounted
  <2>5. R!KeysOf(q.attrs) = {}
    BY <2>4 DEF R!KeysOf
  <2>6. \A k \in Nat : Refused(q.attrs, G, k) = 1..k /\ Cardinality(1..k) = k
    BY <2>5, FS_Interval DEF Refused
  <2>7. q.droppedAttrs = cut + m
    BY <2>6 DEF Accounted
  <2>8. q2.droppedAttrs = cut + Len(G) /\ Len(G) \in Nat
    BY <1>1, <2>3, <2>7
  <2>9. Refused(q2.attrs, G, Len(G)) = 1..Len(G) /\ Cardinality(1..Len(G)) = Len(G)
    BY <2>3, <2>6, <2>8
  <2>10. Accounted(limit, q2, G, Len(G), cut)
    BY <1>3, <2>3, <2>4, <2>8, <2>9 DEF Accounted, NewestIn
  <2>11. QED BY <2>1, <2>3, <2>10 DEF AllSet
<1>4. QED BY <1>2, <1>3

-----------------------------------------------------------------------------
(* Events and links (instance R).                                          *)

KeptNewest(lim, list, all) ==
    /\ list \in KeptItems /\ all \in Seq(Items)
    /\ Len(list.kept) = Within(lim, all)
    /\ list.dropped = Len(all) - Len(list.kept)
    /\ \A i \in 1..Len(list.kept) : list.kept[i] = all[Len(all) - Len(list.kept) + i]

LEMMA KeptIs ==
    ASSUME NEW kept \in Seq(Items), NEW all \in Seq(Items), NEW dropped \in Nat,
           Len(kept) = Within(limit, all), dropped = Len(all) - Len(kept),
           \A i \in 1..Len(kept) : kept[i] = all[Len(all) - Len(kept) + i]
    PROVE  KeptNewest(limit, [kept |-> kept, dropped |-> dropped], all)
BY DEF KeptNewest, KeptItems

LEMMA NewestAreKept ==
    ASSUME NEW items \in Seq(Items), limit \in Int
    PROVE  KeptNewest(limit, R!Newest(items), items)
<1>1. Within(limit, items) \in 0..Len(items)
  BY WithinLimit
<1>2. PICK n \in Nat, len \in Nat : n = Within(limit, items) /\ len = Len(items) /\ n <= len
  BY <1>1
<1>3. PICK kept : kept = SubSeq(items, len - n + 1, len)
  OBVIOUS
<1>4. kept \in Seq(Items) /\ Len(kept) = n /\ \A i \in 1..n : kept[i] = items[len - n + i]
  <2>1. len - n + 1 \in Int /\ len \in Int /\ \A i \in (len - n + 1)..len : items[i] \in Items
    BY <1>2
  <2>2. /\ kept \in Seq(Items) /\ Len(kept) = IF len - n + 1 <= len THEN len - (len - n + 1) + 1 ELSE 0
        /\ \A i \in 1..(len - (len - n + 1) + 1) : kept[i] = items[len - n + 1 + i - 1]
    <3>1. PICK lo \in Int : lo = len - n + 1
      BY <1>2
    <3>2. \A i \in lo..len : items[i] \in Items
      BY <2>1, <3>1
    <3>3. /\ SubSeq(items, lo, len) \in Seq(Items)
          /\ Len(SubSeq(items, lo, len)) = IF lo <= len THEN len - lo + 1 ELSE 0
          /\ \A i \in 1..(len - lo + 1) : SubSeq(items, lo, len)[i] = items[lo + i - 1]
      BY <3>2, SubSeqProperties
    <3>4. QED BY <1>3, <3>1, <3>3
  <2>3. Len(kept) = n /\ len - (len - n + 1) + 1 = n
    BY <1>2, <2>2
  <2>4. \A i \in 1..n : len - n + 1 + i - 1 = len - n + i
    BY <1>2
  <2>5. QED BY <2>2, <2>3, <2>4
<1>5. R!Newest(items) = [kept |-> kept, dropped |-> len - n]
  BY <1>2, <1>3 DEF R!Newest, Within
<1>6. len - n \in Nat
  BY <1>2
<1>7. QED BY <1>2, <1>4, <1>5, <1>6, KeptIs

LEMMA NoneAreKept == ASSUME limit \in Int PROVE KeptNewest(limit, [kept |-> << >>, dropped |-> 0], << >>)
<1>1. << >> \in Seq(Items) /\ Len(<< >>) = 0
  OBVIOUS
<1>2. Within(limit, << >>) = 0
  <2>1. Within(limit, << >>) \in 0..0
    BY <1>1, WithinLimit
  <2>2. QED BY <2>1
<1>3. QED BY <1>1, <1>2 DEF KeptNewest, KeptItems

LEMMA PushedKeeps ==
    ASSUME NEW list, NEW all, NEW item \in Items, KeptNewest(limit, list, all), limit \in Int
    PROVE  KeptNewest(limit, R!Pushed(list, item), Append(all, item))
<1>1. list \in KeptItems /\ list.kept \in Seq(Items) /\ list.dropped \in Nat /\ all \in Seq(Items)
  BY DEF KeptNewest, KeptItems
<1>2. PICK more : more = Append(all, item)
  OBVIOUS
<1>3. /\ more \in Seq(Items) /\ Len(more) = Len(all) + 1
      /\ more[Len(all) + 1] = item /\ \A i \in 1..Len(all) : more[i] = all[i]
  BY <1>1, <1>2
<1>4. PICK n \in Nat, len \in Nat : n = Len(list.kept) /\ len = Len(all)
  BY <1>1
<1>5. PICK w \in Nat : /\ w = Within(limit, all) /\ w <= len /\ (limit < 0 => w = len)
                       /\ limit >= 0 => w <= limit /\ (w = limit \/ w = len)
  <2>1. /\ Within(limit, all) \in 0..len /\ (limit < 0 => Within(limit, all) = len)
        /\ limit >= 0 => Within(limit, all) <= limit /\ (Within(limit, all) = limit \/ Within(limit, all) = len)
    BY <1>1, <1>4, WithinLimit
  <2>2. QED BY <2>1
<1>6. PICK x \in Nat : /\ x = Within(limit, more) /\ x <= len + 1 /\ (limit < 0 => x = len + 1)
                       /\ limit >= 0 => x <= limit /\ (x = limit \/ x = len + 1)
  <2>1. /\ Within(limit, more) \in 0..(len + 1) /\ (limit < 0 => Within(limit, more) = len + 1)
        /\ limit >= 0 => Within(limit, more) <= limit /\ (Within(limit, more) = limit \/ Within(limit, more) = len + 1)
    BY <1>3, <1>4, WithinLimit
  <2>2. QED BY <2>1
<1>7. n = w /\ list.dropped = len - n /\ \A i \in 1..n : list.kept[i] = all[len - n + i]
  BY <1>4, <1>5 DEF KeptNewest
<1>8. CASE limit = 0
  <2>1. n = 0 /\ x = 0
    BY <1>5, <1>6, <1>7, <1>8
  <2>2. R!Pushed(list, item) = [kept |-> list.kept, dropped |-> list.dropped + 1]
    BY <1>1, <1>8 DEF R!Pushed, KeptItems
  <2>3. list.dropped + 1 = Len(more) - Len(list.kept)
    BY <1>3, <1>4, <1>7, <2>1
  <2>4. PICK d \in Nat : d = list.dropped + 1
    BY <1>1
  <2>5. /\ Len(list.kept) = Within(limit, more) /\ d = Len(more) - Len(list.kept)
        /\ \A i \in 1..Len(list.kept) : list.kept[i] = more[Len(more) - Len(list.kept) + i]
    BY <1>4, <1>6, <2>1, <2>3, <2>4
  <2>6. KeptNewest(limit, [kept |-> list.kept, dropped |-> d], more)
    BY <1>1, <1>3, <2>5, KeptIs
  <2>7. QED BY <1>2, <2>2, <2>4, <2>6
<1>9. CASE limit # 0 /\ n = limit
  <2>1. x = n /\ n > 0
    BY <1>5, <1>6, <1>7, <1>9
  <2>2. PICK kept : kept = Append(Tail(list.kept), item)
    OBVIOUS
  <2>3. R!Pushed(list, item) = [kept |-> kept, dropped |-> list.dropped + 1]
    BY <1>4, <1>9, <2>2 DEF R!Pushed
  <2>4. PICK tail : tail = Tail(list.kept)
    OBVIOUS
  <2>5. tail \in Seq(Items) /\ Len(tail) = n - 1 /\ \A i \in 1..(n - 1) : tail[i] = list.kept[i + 1]
    BY <1>1, <1>4, <2>1, <2>4
  <2>6. /\ kept \in Seq(Items) /\ Len(kept) = n
        /\ \A i \in 1..(n - 1) : kept[i] = list.kept[i + 1]
        /\ kept[n] = item
    BY <2>1, <2>2, <2>4, <2>5
  <2>7. ASSUME NEW i \in 1..n PROVE kept[i] = more[len + 1 - n + i]
    <3>1. CASE i = n
      BY <3>1, <1>3, <1>4, <2>6
    <3>2. CASE i # n
      <4>1. i \in 1..(n - 1) /\ i + 1 \in 1..n /\ len - n + (i + 1) = len + 1 - n + i
        BY <3>2, <2>7
      <4>2. len + 1 - n + i \in 1..len
        BY <1>5, <1>7, <4>1
      <4>3. kept[i] = all[len - n + (i + 1)]
        BY <1>7, <2>6, <4>1
      <4>4. QED BY <1>3, <1>4, <4>1, <4>2, <4>3
    <3>3. QED BY <3>1, <3>2
  <2>8. list.dropped + 1 = Len(more) - Len(kept)
    BY <1>3, <1>4, <1>7, <2>6
  <2>9. \A i \in 1..Len(kept) : kept[i] = more[Len(more) - Len(kept) + i]
    <3>1. Len(more) = len + 1 /\ Len(kept) = n
      BY <1>3, <1>4, <2>6
    <3>2. QED BY <2>7, <3>1
  <2>10. PICK d \in Nat : d = list.dropped + 1
    BY <1>1
  <2>11. Len(kept) = Within(limit, more) /\ d = Len(more) - Len(kept)
    BY <1>6, <2>1, <2>6, <2>8, <2>10
  <2>12. KeptNewest(limit, [kept |-> kept, dropped |-> d], more)
    BY <1>3, <2>6, <2>9, <2>11, KeptIs
  <2>13. QED BY <1>2, <2>3, <2>10, <2>12
<1>10. CASE limit # 0 /\ n # limit
  <2>1. n = len /\ x = n + 1 /\ list.dropped = 0
    <3>1. n = w /\ list.dropped = len - n
      BY <1>7
    <3>2. n = len
      BY <1>5, <1>10, <3>1
    <3>3. x = n + 1
      BY <1>5, <1>6, <1>10, <3>1, <3>2
    <3>4. QED BY <3>1, <3>2, <3>3
  <2>2. PICK kept : kept = Append(list.kept, item)
    OBVIOUS
  <2>3. R!Pushed(list, item) = [kept |-> kept, dropped |-> list.dropped]
    BY <1>1, <1>4, <1>10, <2>2 DEF R!Pushed, KeptItems
  <2>4. /\ kept \in Seq(Items) /\ Len(kept) = n + 1 /\ kept[n + 1] = item
        /\ \A i \in 1..n : kept[i] = list.kept[i]
    BY <1>1, <1>4, <2>2
  <2>5. ASSUME NEW i \in 1..(n + 1) PROVE kept[i] = more[i]
    BY <1>3, <1>4, <1>7, <2>1, <2>4
  <2>6. list.dropped = Len(more) - Len(kept)
    BY <1>3, <1>4, <2>1, <2>4
  <2>7. \A i \in 1..Len(kept) : kept[i] = more[Len(more) - Len(kept) + i]
    BY <1>3, <1>4, <2>1, <2>4, <2>5
  <2>8. Len(kept) = Within(limit, more)
    BY <1>6, <2>1, <2>4
  <2>9. KeptNewest(limit, [kept |-> kept, dropped |-> list.dropped], more)
    BY <1>1, <1>3, <2>4, <2>6, <2>7, <2>8, KeptIs
  <2>10. QED BY <1>2, <2>3, <2>9
<1>11. QED BY <1>8, <1>9, <1>10

LEMMA SuffixIs ==
    ASSUME NEW D, NEW s \in Seq(D), NEW u \in Seq(D), Len(s) <= Len(u),
           \A i \in 1..Len(s) : s[i] = u[Len(u) - Len(s) + i]
    PROVE  R!IsSuffix(s, u)
<1>1. PICK m \in Nat, n \in Nat : m = Len(s) /\ n = Len(u) /\ m <= n
  OBVIOUS
<1>2. PICK rs, ru : rs = R!Reverse(s) /\ ru = R!Reverse(u)
  OBVIOUS
<1>3. rs = [i \in 1..m |-> s[m - i + 1]] /\ ru = [i \in 1..n |-> u[n - i + 1]]
  BY <1>1, <1>2 DEF R!Reverse
<1>4. rs \in Seq(D) /\ Len(rs) = m /\ \A i \in 1..m : rs[i] = s[m - i + 1]
  BY <1>1, <1>3
<1>5. ru \in Seq(D) /\ Len(ru) = n /\ \A i \in 1..n : ru[i] = u[n - i + 1]
  BY <1>1, <1>3
<1>6. ASSUME NEW i \in 1..m PROVE rs[i] = ru[i]
  <2>1. m - i + 1 \in 1..m /\ n - m + (m - i + 1) = n - i + 1 /\ i \in 1..n
    BY <1>1
  <2>2. s[m - i + 1] = u[n - m + (m - i + 1)]
    BY <1>1, <2>1
  <2>3. QED BY <1>4, <1>5, <2>1, <2>2
<1>7. SubSeq(rs, 1, m) = SubSeq(ru, 1, m)
  BY <1>1, <1>4, <1>5, <1>6
<1>8. R!IsPrefix(rs, ru)
  BY <1>1, <1>4, <1>5, <1>7 DEF R!IsPrefix
<1>9. QED BY <1>2, <1>8 DEF R!IsSuffix

-----------------------------------------------------------------------------
(* FlattenSeq (instance R): what the calls have offered, one after another.*)

Lists == Seq(Seq(Attributes))

Concatenates(it, s, n) == \A i \in 1..n : it[i] = IF i = 1 THEN s[i] ELSE it[i - 1] \o s[i]
Flattens(it, s, n) == it \in [1..n -> Seq(Attributes)] /\ Concatenates(it, s, n)

LEMMA FlattensExists ==
    ASSUME NEW s \in Lists
    PROVE  \E it : Flattens(it, s, Len(s))
<1>1. PICK n \in Nat : n = Len(s) /\ \A i \in 1..n : s[i] \in Seq(Attributes)
  BY DEF Lists
<1> DEFINE S == {k \in 0..n : \E it : Flattens(it, s, k)}
<1>2. 0 \in S
  <2> DEFINE it == [i \in 1..0 |-> << >>]
  <2>1. Flattens(it, s, 0)
    BY DEF Flattens, Concatenates
  <2>2. QED BY <2>1
<1>3. ASSUME NEW k \in 0..n, k \in S, k < n PROVE k + 1 \in S
  <2>1. PICK old : Flattens(old, s, k)
    BY <1>3
  <2>2. k + 1 \in 1..n /\ k + 1 \in 0..n /\ 1..(k + 1) = (1..k) \cup {k + 1} /\ k + 1 \notin 1..k
    BY <1>3
  <2>3. PICK last \in Seq(Attributes) : last = IF k + 1 = 1 THEN s[k + 1] ELSE old[k] \o s[k + 1]
    <3>1. k + 1 # 1 => old[k] \in Seq(Attributes)
      BY <1>3, <2>1 DEF Flattens, Concatenates
    <3>2. s[k + 1] \in Seq(Attributes)
      BY <1>1, <2>2
    <3>3. k + 1 # 1 => old[k] \o s[k + 1] \in Seq(Attributes)
      BY <3>1, <3>2
    <3>4. QED BY <3>2, <3>3
  <2> DEFINE new == [i \in 1..(k + 1) |-> IF i = k + 1 THEN last ELSE old[i]]
  <2>4. new \in [1..(k + 1) -> Seq(Attributes)]
    BY <2>1, <2>2 DEF Flattens, Concatenates
  <2>5. new[k + 1] = last /\ \A i \in 1..k : new[i] = old[i]
    BY <2>2
  <2> HIDE DEF new
  <2>6. ASSUME NEW i \in 1..(k + 1) PROVE new[i] = IF i = 1 THEN s[i] ELSE new[i - 1] \o s[i]
    <3>1. CASE i = k + 1
      <4>1. k + 1 # 1 => k \in 1..k /\ k + 1 - 1 = k
        BY <1>3
      <4>2. QED BY <2>3, <2>5, <3>1, <4>1
    <3>2. CASE i # k + 1
      <4>1. i \in 1..k /\ (i # 1 => i - 1 \in 1..k)
        BY <2>6, <3>2
      <4>2. old[i] = IF i = 1 THEN s[i] ELSE old[i - 1] \o s[i]
        BY <2>1, <4>1 DEF Flattens, Concatenates
      <4>3. QED BY <2>5, <4>1, <4>2
    <3>3. QED BY <3>1, <3>2
  <2>7. Flattens(new, s, k + 1)
    BY <2>4, <2>6 DEF Flattens, Concatenates
  <2>8. QED BY <2>2, <2>7
<1> HIDE DEF S
<1>4. 0..n \subseteq S
  BY <1>2, <1>3, FromZero
<1>5. n \in S
  BY <1>4
<1>6. QED BY <1>1, <1>5 DEF S

\* Tables of a list, and of one that starts with it, agree.
LEMMA FlattensAgree ==
    ASSUME NEW s, NEW u, NEW n \in Nat, \A i \in 1..n : s[i] = u[i],
           NEW it, Concatenates(it, s, n), NEW iu, Concatenates(iu, u, n)
    PROVE  \A i \in 1..n : it[i] = iu[i]
<1> DEFINE S == {k \in 0..n : k = 0 \/ it[k] = iu[k]}
<1>1. ASSUME NEW k \in 0..n, k \in S, k < n PROVE k + 1 \in S
  <2>1. k + 1 \in 1..n /\ k + 1 \in 0..n /\ k + 1 - 1 = k /\ (k + 1 = 1 <=> k = 0)
    BY <1>1
  <2>2. /\ it[k + 1] = IF k + 1 = 1 THEN s[k + 1] ELSE it[k + 1 - 1] \o s[k + 1]
        /\ iu[k + 1] = IF k + 1 = 1 THEN u[k + 1] ELSE iu[k + 1 - 1] \o u[k + 1]
        /\ s[k + 1] = u[k + 1]
    BY <2>1 DEF Concatenates
  <2>3. k # 0 => it[k] = iu[k]
    BY <1>1
  <2>4. it[k + 1] = iu[k + 1]
    BY <2>1, <2>2, <2>3
  <2>5. QED BY <2>1, <2>4
<1>2. 0 \in S
  OBVIOUS
<1>3. 0..n \subseteq S
  <2> HIDE DEF S
  <2>1. QED BY <1>1, <1>2, FromZero
<1>4. QED BY <1>3

LEMMA FlattenIs ==
    ASSUME NEW s \in Lists, Len(s) # 0
    PROVE  \E it : Flattens(it, s, Len(s)) /\ R!FlattenSeq(s) = it[Len(s)]
<1>1. PICK n \in Nat : n = Len(s) /\ n # 0
  BY DEF Lists
<1>2. PICK it : Flattens(it, s, n)
  BY <1>1, FlattensExists
<1> DEFINE F == CHOOSE f : f = [i \in 1..Len(s) |-> IF i = 1 THEN s[i] ELSE f[i - 1] \o s[i]]
<1>3. R!FlattenSeq(s) = F[Len(s)]
  BY DEF R!FlattenSeq
<1>4. it = [i \in 1..Len(s) |-> IF i = 1 THEN s[i] ELSE it[i - 1] \o s[i]]
  BY <1>1, <1>2 DEF Flattens, Concatenates
<1>5. F = [i \in 1..Len(s) |-> IF i = 1 THEN s[i] ELSE F[i - 1] \o s[i]]
  BY <1>4
<1>6. PICK f : f = F
  OBVIOUS
<1> HIDE DEF F
<1>7. Concatenates(f, s, n)
  BY <1>1, <1>5, <1>6 DEF Concatenates
<1>8. Concatenates(it, s, n)
  BY <1>2 DEF Flattens
<1>9. \A i \in 1..n : it[i] = f[i]
  <2>1. \A i \in 1..n : s[i] = s[i]
    OBVIOUS
  <2>2. QED BY <1>1, <1>7, <1>8, <2>1, FlattensAgree
<1>10. QED BY <1>1, <1>2, <1>3, <1>6, <1>9

LEMMA EmptyOne == ASSUME NEW D, NEW s \in Seq(D), Len(s) = 0 PROVE s = << >>
OBVIOUS

LEMMA FlattenAppend ==
    ASSUME NEW s \in Lists, NEW x \in Seq(Attributes)
    PROVE  /\ R!FlattenSeq(s) \in Seq(Attributes)
           /\ R!FlattenSeq(Append(s, x)) = R!FlattenSeq(s) \o x
<1>1. PICK n \in Nat : n = Len(s)
  BY DEF Lists
<1>2. PICK more : more = Append(s, x)
  OBVIOUS
<1>3. more \in Lists /\ Len(more) = n + 1 /\ more[n + 1] = x /\ \A i \in 1..n : more[i] = s[i]
  BY <1>1, <1>2 DEF Lists
<1>4. PICK iu : Flattens(iu, more, n + 1) /\ R!FlattenSeq(more) = iu[n + 1]
  BY <1>1, <1>3, FlattenIs
<1>4a. \A i \in 1..(n + 1) : iu[i] = IF i = 1 THEN more[i] ELSE iu[i - 1] \o more[i]
  <2>1. Concatenates(iu, more, n + 1)
    BY <1>4 DEF Flattens
  <2>2. QED BY <2>1 DEF Concatenates
<1>5. CASE n = 0
  <2>1. R!FlattenSeq(s) = << >>
    <3>1. s = << >> /\ Len(s) = 0
      BY <1>1, <1>5, EmptyOne DEF Lists
    <3>2. R!FlattenSeq(s) = s
      BY <3>1, Zenon DEF R!FlattenSeq
    <3>3. QED BY <3>1, <3>2
  <2>2. iu[n + 1] = x
    BY <1>3, <1>4, <1>5 DEF Flattens, Concatenates
  <2>3. << >> \o x = x
    OBVIOUS
  <2>4. QED BY <1>2, <1>4, <2>1, <2>2, <2>3
<1>6. CASE n # 0
  <2>1. PICK it : Flattens(it, s, n) /\ R!FlattenSeq(s) = it[n]
    BY <1>1, <1>6, FlattenIs
  <2>2. Concatenates(it, s, n)
    BY <2>1 DEF Flattens
  <2>3. Concatenates(iu, more, n)
    <3>1. 1..n \subseteq 1..(n + 1)
      OBVIOUS
    <3>2. QED BY <1>4a, <3>1 DEF Concatenates
  <2>4. \A i \in 1..n : it[i] = iu[i]
    BY <1>3, <2>2, <2>3, FlattensAgree
  <2>5. n \in 1..n /\ n + 1 \in 1..(n + 1) /\ n + 1 # 1 /\ n + 1 - 1 = n
    BY <1>6
  <2>6. iu[n + 1] = iu[n] \o x
    <3>1. PICK k \in 1..(n + 1) : k = n + 1
      BY <2>5
    <3>2. iu[k] = IF k = 1 THEN more[k] ELSE iu[k - 1] \o more[k]
      BY <1>4a
    <3>3. k # 1 /\ k - 1 = n
      BY <2>5, <3>1
    <3>4. more[k] = x
      BY <1>3, <3>1
    <3>5. iu[k] = iu[n] \o x
      BY <3>2, <3>3, <3>4
    <3>6. QED BY <3>1, <3>5
  <2>7. iu[n] = it[n] /\ it[n] \in Seq(Attributes)
    BY <2>1, <2>4, <2>5 DEF Flattens, Concatenates
  <2>8. QED BY <1>2, <1>4, <2>1, <2>6, <2>7
<1>7. QED BY <1>5, <1>6

-----------------------------------------------------------------------------
(* The span and its calls.                                                 *)

CallPlaces == {"new", "locking", "done"}

SpanTyped ==
    /\ limit \in Int /\ recording \in BOOLEAN
    /\ record \in SpanRecords \cup {None}
    /\ callAt \in [Spans -> CallPlaces] /\ DOMAIN callOp = Spans
    /\ \A c \in Spans : callAt[c] = "locking" => callOp[c] \in R!Operations /\ record # None
    /\ recording => record # None
    /\ DOMAIN added = R!Additions

\* What SetAttributes, AddEvent and AddLink have made of the span.
Recorded ==
    record # None =>
        /\ offers \in Lists /\ Len(offers) >= 1
        /\ LET given == R!FlattenSeq(Tail(offers))
           IN  Accounted(limit, record, given, Len(given), Len(offers[1]) - Within(limit, offers[1]))
        /\ KeptNewest(limit, record.events, added.events) /\ KeptNewest(limit, record.links, added.links)

\* The one call of End that found the span sampled.
Ender(e) ==
    /\ \/ callAt[e] = "locking" /\ callOp[e].op = "End" /\ exports = << >>
       \/ callAt[e] = "done" /\ Len(exports) = 1
    /\ \A c \in Spans \ {e} : callAt[c] = "locking" => callOp[c].op # "End" /\ c \in atSwap

EndsOnce ==
    /\ late \subseteq atSwap
    /\ atSwap = {None} => exports = << >> /\ late = {}
    /\ recording => /\ atSwap = {None}
                    /\ \A c \in Spans : callAt[c] = "locking" => callOp[c].op # "End"
    /\ ~recording /\ atSwap = {None} => \A c \in Spans : callAt[c] # "locking"
    /\ ~recording /\ atSwap # {None} => \E e \in Spans : Ender(e)

SpanInv == SpanTyped /\ Recorded /\ EndsOnce

LEMMA NoneApart == \A r \in SpanRecords : r # None
BY SpanAssumption

LEMMA SpanInit ==
    ASSUME R!Init
    PROVE  SpanInv
<1>1. SpanTyped
  <2>1. limit \in Int /\ recording \in BOOLEAN
    BY SpanAssumption DEF R!Init
  <2>2. recording => record \in SpanRecords
    <3> SUFFICES ASSUME recording PROVE record \in SpanRecords
      OBVIOUS
    <3>1. PICK attrs \in AttributeLists : record = R!Started(attrs)
      BY DEF R!Init
    <3>2. attrs \in Seq(Attributes)
      BY SpanAssumption
    <3>3. R!Capped(attrs).kept \in Seq(Attributes) /\ R!Capped(attrs).dropped \in Nat
      <4>1. /\ R!Capped(attrs).kept \in Seq(Attributes)
            /\ R!Capped(attrs).dropped = Len(attrs) - Within(limit, attrs)
        BY <2>1, <3>2, CappedTyped
      <4>2. Within(limit, attrs) \in 0..Len(attrs)
        BY <2>1, <3>2, WithinLimit
      <4>3. QED BY <3>2, <4>1, <4>2
    <3>4. R!Newest(StartLinks) \in KeptItems
      BY <2>1, SpanAssumption, NewestAreKept DEF KeptNewest
    <3>5. [kept |-> << >>, dropped |-> 0] \in KeptItems
      BY DEF KeptItems
    <3>6. QED BY <3>1, <3>3, <3>4, <3>5 DEF R!Started, SpanRecords
  <2>3. ~recording => record = None
    BY DEF R!Init
  <2>4. callAt = [c \in Spans |-> "new"] /\ DOMAIN callOp = Spans
    BY DEF R!Init
  <2>5. DOMAIN added = R!Additions
    BY DEF R!Init, R!Additions
  <2>6. QED BY <2>1, <2>2, <2>3, <2>4, <2>5, NoneApart DEF SpanTyped, CallPlaces
<1>2. Recorded
  <2> SUFFICES ASSUME record # None PROVE Recorded
    BY DEF Recorded
  <2>1. recording
    BY DEF R!Init
  <2>2. PICK attrs \in AttributeLists : record = R!Started(attrs) /\ offers = <<attrs>>
    BY <2>1 DEF R!Init
  <2>3. attrs \in Seq(Attributes) /\ limit \in Int
    BY SpanAssumption DEF R!Init
  <2>4. offers \in Lists /\ Len(offers) = 1 /\ offers[1] = attrs /\ Tail(offers) = << >>
    BY <2>2, <2>3 DEF Lists
  <2>5. R!FlattenSeq(<< >>) = << >>
    BY Zenon DEF R!FlattenSeq
  <2>6. KeptNewest(limit, record.events, added.events) /\ KeptNewest(limit, record.links, added.links)
    <3>1. record.events = [kept |-> << >>, dropped |-> 0] /\ record.links = R!Newest(StartLinks)
      BY <2>2 DEF R!Started
    <3>2. added.events = << >> /\ added.links = StartLinks
      BY <2>1 DEF R!Init
    <3>3. QED BY <2>3, <3>1, <3>2, SpanAssumption, NewestAreKept, NoneAreKept
  <2>7. Accounted(limit, record, << >>, 0, Len(attrs) - Within(limit, attrs))
    <3>1. record.attrs = R!Capped(attrs).kept /\ record.droppedAttrs = R!Capped(attrs).dropped
      BY <2>2 DEF R!Started
    <3>2. /\ R!Capped(attrs).kept \in Seq(Attributes)
          /\ Len(R!Capped(attrs).kept) <= Within(limit, attrs)
          /\ R!Capped(attrs).dropped = Len(attrs) - Within(limit, attrs)
      BY <2>3, CappedTyped
    <3>3. Within(limit, attrs) \in 0..Len(attrs) /\ (limit >= 0 => Within(limit, attrs) <= limit)
      BY <2>3, WithinLimit
    <3>4. 1..0 = {} /\ Refused(record.attrs, << >>, 0) = {}
      BY DEF Refused
    <3>5. Cardinality(Refused(record.attrs, << >>, 0)) = 0
      BY <3>4, FS_EmptySet
    <3>6. record.droppedAttrs = Len(attrs) - Within(limit, attrs) + Cardinality(Refused(record.attrs, << >>, 0))
      BY <2>3, <3>1, <3>2, <3>3, <3>5
    <3>7. limit >= 0 => Len(record.attrs) <= limit
      BY <2>3, <3>1, <3>2, <3>3
    <3>8. NewestIn(record.attrs, << >>, 0)
      BY <3>4 DEF NewestIn
    <3>9. QED BY <3>4, <3>6, <3>7, <3>8 DEF Accounted
  <2>8. Len(<< >>) = 0
    OBVIOUS
  <2>9. PICK given : given = R!FlattenSeq(Tail(offers)) /\ given = << >>
    BY <2>4, <2>5
  <2>10. /\ Len(offers) >= 1
         /\ Accounted(limit, record, given, Len(given), Len(offers[1]) - Within(limit, offers[1]))
    BY <2>4, <2>7, <2>8, <2>9
  <2>11. QED BY <2>4, <2>6, <2>9, <2>10, Zenon DEF Recorded
<1>3. EndsOnce
  BY DEF R!Init, EndsOnce
<1>4. QED BY <1>1, <1>2, <1>3 DEF SpanInv

LEMMA AccountedSame ==
    ASSUME NEW lim, NEW q, NEW G, NEW H, NEW m \in Nat, NEW cut, \A i \in 1..m : G[i] = H[i],
           Accounted(lim, q, G, m, cut)
    PROVE  Accounted(lim, q, H, m, cut)
<1>1. Refused(q.attrs, G, m) = Refused(q.attrs, H, m)
  BY DEF Refused
<1>2. NewestIn(q.attrs, H, m)
  BY <1>1 DEF Accounted, NewestIn
<1>3. \A i \in Refused(q.attrs, G, m) : G[i] = H[i]
  BY DEF Refused
<1>4. QED BY <1>1, <1>2, <1>3 DEF Accounted

LEMMA SetAttributesRecords ==
    ASSUME SpanInv, record # None, limit' = limit, added' = added,
           NEW attrs \in AttributeLists, record' = R!SetAll(record, attrs), offers' = Append(offers, attrs)
    PROVE  record' \in SpanRecords /\ Recorded'
<1>1. record \in SpanRecords /\ limit \in Int /\ attrs \in Seq(Attributes)
  BY SpanAssumption DEF SpanInv, SpanTyped
<1>2. PICK old : old = R!FlattenSeq(Tail(offers))
  OBVIOUS
<1>3. PICK tail : tail = Tail(offers)
  OBVIOUS
<1>4. offers \in Lists /\ Len(offers) >= 1
  BY DEF SpanInv, Recorded
<1>5. tail \in Lists
  BY <1>3, <1>4 DEF Lists
<1>6. offers' \in Lists /\ Len(offers') >= 1 /\ offers'[1] = offers[1] /\ Tail(offers') = Append(tail, attrs)
  BY <1>1, <1>3, <1>4 DEF Lists
<1>7. PICK given : given = R!FlattenSeq(Append(tail, attrs))
  OBVIOUS
<1>8. old \in Seq(Attributes) /\ given = old \o attrs
  BY <1>1, <1>2, <1>3, <1>5, <1>7, FlattenAppend
<1>9. PICK m \in Nat : m = Len(old)
  BY <1>8
<1>10. /\ given \in Seq(Attributes) /\ Len(given) = m + Len(attrs)
       /\ \A i \in 1..m : old[i] = given[i]
       /\ \A i \in 1..Len(attrs) : given[m + i] = attrs[i]
  BY <1>1, <1>8, <1>9
<1>11. PICK cut \in Nat : cut = Len(offers[1]) - Within(limit, offers[1])
  <2>1. PICK first \in Seq(Attributes) : first = offers[1]
    BY <1>4 DEF Lists
  <2>2. Within(limit, first) \in 0..Len(first)
    BY <1>1, WithinLimit
  <2>3. QED BY <2>1, <2>2
<1>12. Accounted(limit, record, old, m, cut)
  BY <1>2, <1>9, <1>11, Zenon DEF SpanInv, Recorded
<1>13. Accounted(limit, record, given, m, cut)
  BY <1>10, <1>12, AccountedSame
<1>14. PICK q \in SpanRecords : q = record
  BY <1>1
<1>15. AllSet(limit, q, R!SetAll(q, attrs), given, cut)
  <2>1. PICK G \in Seq(Attributes) : G = given
    BY <1>10
  <2>2. /\ Accounted(limit, q, G, m, cut) /\ Len(G) = m + Len(attrs)
        /\ \A i \in 1..Len(attrs) : G[m + i] = attrs[i]
    BY <1>10, <1>13, <1>14, <2>1
  <2>3. AllSet(limit, q, R!SetAll(q, attrs), G, cut)
    BY <1>1, <2>2, SetAllAccounts
  <2>4. QED BY <2>1, <2>3
<1>16. PICK q2 \in SpanRecords : q2 = R!SetAll(q, attrs)
  BY <1>15 DEF AllSet
<1>17. record' = q2 /\ q2.events = record.events /\ q2.links = record.links
  BY <1>14, <1>15, <1>16 DEF AllSet
<1>18. Accounted(limit, q2, given, Len(given), cut)
  BY <1>15, <1>16 DEF AllSet
<1>19. KeptNewest(limit, record.events, added.events) /\ KeptNewest(limit, record.links, added.links)
  BY DEF SpanInv, Recorded
<1>20. /\ KeptNewest(limit', record'.events, added'.events) /\ KeptNewest(limit', record'.links, added'.links)
  BY <1>17, <1>19
<1>21. R!FlattenSeq(Tail(offers')) = given /\ cut = Len(offers'[1]) - Within(limit', offers'[1])
  BY <1>6, <1>7, <1>11
<1>22. Accounted(limit', record', given, Len(given), Len(offers'[1]) - Within(limit', offers'[1]))
  BY <1>17, <1>18, <1>21
<1>23. QED BY <1>6, <1>17, <1>20, <1>21, <1>22, Zenon DEF Recorded

LEMMA RecordedStays ==
    ASSUME SpanInv, record # None, limit' = limit, offers' = offers,
           record' \in SpanRecords, record'.attrs = record.attrs, record'.droppedAttrs = record.droppedAttrs,
           KeptNewest(limit, record'.events, added'.events), KeptNewest(limit, record'.links, added'.links)
    PROVE  Recorded'
<1>1. PICK given : given = R!FlattenSeq(Tail(offers))
  OBVIOUS
<1>2. PICK cut : cut = Len(offers[1]) - Within(limit, offers[1])
  OBVIOUS
<1>3. offers \in Lists /\ Len(offers) >= 1
  BY DEF SpanInv, Recorded
<1>4. Accounted(limit, record, given, Len(given), cut)
  BY <1>1, <1>2, Zenon DEF SpanInv, Recorded
<1>5. Accounted(limit, record', given, Len(given), cut)
  BY <1>4 DEF Accounted
<1>6. R!FlattenSeq(Tail(offers')) = given /\ cut = Len(offers'[1]) - Within(limit', offers'[1])
  BY <1>1, <1>2
<1>7. Accounted(limit', record', given, Len(given), Len(offers'[1]) - Within(limit', offers'[1]))
  BY <1>5, <1>6
<1>8. KeptNewest(limit', record'.events, added'.events) /\ KeptNewest(limit', record'.links, added'.links)
  OBVIOUS
<1>9. offers' \in Lists /\ Len(offers') >= 1
  BY <1>3
<1>10. QED BY <1>6, <1>7, <1>8, <1>9, Zenon DEF Recorded

LEMMA AddRecords ==
    ASSUME SpanInv, record # None, limit' = limit, offers' = offers, NEW c \in Spans, NEW k \in R!Additions,
           record' = [record EXCEPT ![k] = R!Pushed(@, c)], added' = [added EXCEPT ![k] = Append(@, c)]
    PROVE  record' \in SpanRecords /\ Recorded'
<1>1. record \in SpanRecords /\ limit \in Int /\ "events" \in DOMAIN added /\ "links" \in DOMAIN added
  BY DEF SpanInv, SpanTyped, R!Additions
<1>2. KeptNewest(limit, record.events, added.events) /\ KeptNewest(limit, record.links, added.links)
  BY DEF SpanInv, Recorded
<1>3. c \in Items
  BY DEF Items
<1>4. CASE k = "events"
  <2>1. PICK new : new = R!Pushed(record.events, c)
    OBVIOUS
  <2>2. KeptNewest(limit, new, Append(added.events, c))
    BY <1>1, <1>2, <1>3, <2>1, PushedKeeps
  <2>3. record' = [record EXCEPT !.events = new] /\ new \in KeptItems
    BY <1>4, <2>1, <2>2 DEF KeptNewest
  <2>4. /\ record' \in SpanRecords /\ record'.attrs = record.attrs /\ record'.droppedAttrs = record.droppedAttrs
        /\ record'.events = new /\ record'.links = record.links
    BY <1>1, <2>3 DEF SpanRecords
  <2>5. added'.events = Append(added.events, c) /\ added'.links = added.links
    BY <1>1, <1>4
  <2>6. KeptNewest(limit, record'.events, added'.events) /\ KeptNewest(limit, record'.links, added'.links)
    BY <1>2, <2>2, <2>4, <2>5
  <2>7. QED BY <2>4, <2>6, RecordedStays
<1>5. CASE k = "links"
  <2>1. PICK new : new = R!Pushed(record.links, c)
    OBVIOUS
  <2>2. KeptNewest(limit, new, Append(added.links, c))
    BY <1>1, <1>2, <1>3, <2>1, PushedKeeps
  <2>3. record' = [record EXCEPT !.links = new] /\ new \in KeptItems
    BY <1>5, <2>1, <2>2 DEF KeptNewest
  <2>4. /\ record' \in SpanRecords /\ record'.attrs = record.attrs /\ record'.droppedAttrs = record.droppedAttrs
        /\ record'.links = new /\ record'.events = record.events
    BY <1>1, <2>3 DEF SpanRecords
  <2>5. added'.links = Append(added.links, c) /\ added'.events = added.events
    BY <1>1, <1>5
  <2>6. KeptNewest(limit, record'.events, added'.events) /\ KeptNewest(limit, record'.links, added'.links)
    BY <1>2, <2>2, <2>4, <2>5
  <2>7. QED BY <2>4, <2>6, RecordedStays
<1>6. QED BY <1>4, <1>5 DEF R!Additions

LEMMA BeginKeeps ==
    ASSUME SpanInv, NEW c \in Spans, NEW o \in R!Operations, R!Begin(c, o)
    PROVE  SpanInv'
<1>1. /\ callAt[c] = "new" /\ o.op # "End"
      /\ callAt' = [callAt EXCEPT ![c] = IF recording THEN "locking" ELSE "done"]
      /\ callOp' = [callOp EXCEPT ![c] = o]
      /\ UNCHANGED <<limit, recording, record, exports, offers, added, atSwap, late>>
  BY DEF R!Begin
<1>2. /\ callAt \in [Spans -> CallPlaces] /\ DOMAIN callOp = Spans
      /\ \A x \in Spans : callAt[x] = "locking" => callOp[x] \in R!Operations /\ record # None
      /\ recording => record # None
  BY DEF SpanInv, SpanTyped
<1>3. /\ callAt'[c] = IF recording THEN "locking" ELSE "done"
      /\ callOp'[c] = o
      /\ \A x \in Spans \ {c} : callAt'[x] = callAt[x] /\ callOp'[x] = callOp[x]
  BY <1>1, <1>2
<1>4. SpanTyped'
  <2>1. callAt' \in [Spans -> CallPlaces] /\ DOMAIN callOp' = Spans
    BY <1>1, <1>2 DEF CallPlaces
  <2>2. \A x \in Spans : callAt'[x] = "locking" => callOp'[x] \in R!Operations /\ record' # None
    BY <1>1, <1>2, <1>3
  <2>3. /\ limit' = limit /\ recording' = recording /\ record' = record /\ added' = added
    BY <1>1
  <2>4. QED BY <2>1, <2>2, <2>3 DEF SpanInv, SpanTyped
<1>5. Recorded'
  <2>1. limit' = limit /\ record' = record /\ offers' = offers /\ added' = added
    BY <1>1
  <2>2. Recorded
    BY DEF SpanInv
  <2>3. QED BY <2>1, <2>2, Zenon DEF Recorded
<1>6. EndsOnce'
  <2>1. /\ late' = late /\ atSwap' = atSwap /\ exports' = exports /\ recording' = recording
    BY <1>1
  <2>2. EndsOnce
    BY DEF SpanInv
  <2>3. recording => \A x \in Spans : callAt'[x] = "locking" => callOp'[x].op # "End"
    BY <1>1, <1>3, <2>2 DEF EndsOnce
  <2>4. ~recording => \A x \in Spans : callAt'[x] = "locking" => callAt[x] = "locking" /\ x # c
    BY <1>3
  <2>5. ASSUME ~recording, NEW e \in Spans, Ender(e) PROVE Ender(e)'
    <3>1. e # c
      BY <1>1, <2>5 DEF Ender
    <3>2. callAt'[e] = callAt[e] /\ callOp'[e] = callOp[e]
      BY <1>3, <3>1
    <3>3. \A x \in Spans \ {e} : callAt'[x] = "locking" => callOp'[x].op # "End" /\ x \in atSwap
      BY <1>3, <2>4, <2>5 DEF Ender
    <3>4. QED BY <2>1, <2>5, <3>2, <3>3 DEF Ender
  <2>6. QED BY <2>1, <2>2, <2>3, <2>4, <2>5 DEF EndsOnce
<1>7. QED BY <1>4, <1>5, <1>6 DEF SpanInv

LEMMA BeginEndKeeps ==
    ASSUME SpanInv, NEW c \in Spans, NEW o \in R!Operations, R!BeginEnd(c, o)
    PROVE  SpanInv'
<1>1. /\ callAt[c] = "new" /\ o.op = "End"
      /\ callAt' = [callAt EXCEPT ![c] = IF recording THEN "locking" ELSE "done"]
      /\ callOp' = [callOp EXCEPT ![c] = o]
      /\ recording' = FALSE
      /\ atSwap' = IF recording THEN R!Underway ELSE atSwap
      /\ UNCHANGED <<limit, record, exports, offers, added, late>>
  BY DEF R!BeginEnd
<1>2. /\ callAt \in [Spans -> CallPlaces] /\ DOMAIN callOp = Spans
      /\ \A x \in Spans : callAt[x] = "locking" => callOp[x] \in R!Operations /\ record # None
      /\ recording => record # None
  BY DEF SpanInv, SpanTyped
<1>3. /\ callAt'[c] = IF recording THEN "locking" ELSE "done"
      /\ callOp'[c] = o
      /\ \A x \in Spans \ {c} : callAt'[x] = callAt[x] /\ callOp'[x] = callOp[x]
  BY <1>1, <1>2
<1>4. SpanTyped'
  <2>1. callAt' \in [Spans -> CallPlaces] /\ DOMAIN callOp' = Spans
    BY <1>1, <1>2 DEF CallPlaces
  <2>2. \A x \in Spans : callAt'[x] = "locking" => callOp'[x] \in R!Operations /\ record' # None
    BY <1>1, <1>2, <1>3
  <2>3. /\ limit' = limit /\ recording' = FALSE /\ record' = record /\ added' = added
    BY <1>1
  <2>4. QED BY <2>1, <2>2, <2>3 DEF SpanInv, SpanTyped
<1>5. Recorded'
  <2>1. limit' = limit /\ record' = record /\ offers' = offers /\ added' = added
    BY <1>1
  <2>2. Recorded
    BY DEF SpanInv
  <2>3. QED BY <2>1, <2>2, Zenon DEF Recorded
<1>6. EndsOnce'
  <2>1. late' = late /\ exports' = exports /\ recording' = FALSE
    BY <1>1
  <2>2. EndsOnce
    BY DEF SpanInv
  <2>3. CASE recording
    <3>1. atSwap = {None} /\ exports = << >> /\ late = {}
      BY <2>2, <2>3 DEF EndsOnce
    <3>2. atSwap' = {x \in Spans : callAt[x] = "locking"}
      BY <1>1, <2>3 DEF R!Underway
    <3>3. atSwap' # {None}
      BY <3>2, SpanAssumption
    <3>4. Ender(c)'
      <4>1. callAt'[c] = "locking" /\ callOp'[c].op = "End" /\ exports' = << >>
        BY <1>1, <1>3, <2>1, <2>3, <3>1
      <4>2. \A x \in Spans \ {c} : callAt'[x] = "locking" => callOp'[x].op # "End" /\ x \in atSwap'
        BY <1>3, <2>2, <2>3, <3>2 DEF EndsOnce
      <4>3. QED BY <4>1, <4>2 DEF Ender
    <3>5. QED BY <2>1, <3>1, <3>3, <3>4 DEF EndsOnce
  <2>4. CASE ~recording
    <3>1. atSwap' = atSwap
      BY <1>1, <2>4
    <3>2. \A x \in Spans : callAt'[x] = "locking" => callAt[x] = "locking" /\ x # c
      BY <1>3, <2>4
    <3>3. ASSUME NEW e \in Spans, Ender(e) PROVE Ender(e)'
      <4>1. e # c
        BY <1>1, <3>3 DEF Ender
      <4>2. callAt'[e] = callAt[e] /\ callOp'[e] = callOp[e]
        BY <1>3, <4>1
      <4>3. \A x \in Spans \ {e} : callAt'[x] = "locking" => callOp'[x].op # "End" /\ x \in atSwap
        BY <1>3, <3>2, <3>3 DEF Ender
      <4>4. QED BY <2>1, <3>1, <3>3, <4>2, <4>3 DEF Ender
    <3>4. QED BY <2>1, <2>2, <2>4, <3>1, <3>2, <3>3 DEF EndsOnce
  <2>5. QED BY <2>3, <2>4
<1>7. QED BY <1>4, <1>5, <1>6 DEF SpanInv

LEMMA ExportKeeps ==
    ASSUME SpanInv, NEW c \in Spans, R!Export(c)
    PROVE  SpanInv'
<1>1. /\ callAt[c] = "locking" /\ callOp[c].op = "End"
      /\ callAt' = [callAt EXCEPT ![c] = "done"]
      /\ exports' = Append(exports, record)
      /\ UNCHANGED <<limit, recording, record, callOp, offers, added, atSwap, late>>
  BY DEF R!Export
<1>2. callAt \in [Spans -> CallPlaces]
  BY DEF SpanInv, SpanTyped
<1>3. callAt'[c] = "done" /\ \A x \in Spans \ {c} : callAt'[x] = callAt[x]
  BY <1>1, <1>2
<1>4. SpanTyped'
  <2>1. callAt' \in [Spans -> CallPlaces]
    BY <1>1, <1>2 DEF CallPlaces
  <2>2. \A x \in Spans : callAt'[x] = "locking" => callAt[x] = "locking"
    BY <1>3
  <2>3. /\ limit' = limit /\ recording' = recording /\ record' = record /\ added' = added /\ callOp' = callOp
    BY <1>1
  <2>4. QED BY <2>1, <2>2, <2>3 DEF SpanInv, SpanTyped
<1>5. Recorded'
  <2>1. limit' = limit /\ record' = record /\ offers' = offers /\ added' = added
    BY <1>1
  <2>2. Recorded
    BY DEF SpanInv
  <2>3. QED BY <2>1, <2>2, Zenon DEF Recorded
<1>6. EndsOnce'
  <2>1. EndsOnce
    BY DEF SpanInv
  <2>2. ~recording /\ atSwap # {None}
    BY <1>1, <2>1 DEF EndsOnce
  <2>3. PICK e \in Spans : Ender(e)
    BY <2>1, <2>2 DEF EndsOnce
  <2>4. e = c /\ exports = << >>
    BY <1>1, <2>3 DEF Ender
  <2>5. Len(exports') = 1
    BY <1>1, <2>4
  <2>6. /\ recording' = recording /\ atSwap' = atSwap /\ late' = late /\ callOp' = callOp
    BY <1>1
  <2>7. Ender(c)'
    <3>1. \A x \in Spans \ {c} : callAt'[x] = "locking" => callOp'[x].op # "End" /\ x \in atSwap'
      BY <1>3, <2>3, <2>4, <2>6 DEF Ender
    <3>2. QED BY <1>3, <2>5, <3>1 DEF Ender
  <2>8. QED BY <2>1, <2>2, <2>6, <2>7 DEF EndsOnce
<1>7. QED BY <1>4, <1>5, <1>6 DEF SpanInv

LEMMA ChangeRecords ==
    ASSUME SpanInv, NEW c \in Spans, callAt[c] = "locking", callOp[c].op # "End", limit' = limit, R!Change(c)
    PROVE  record' \in SpanRecords /\ Recorded' /\ DOMAIN added' = R!Additions
<1>1. record # None /\ record \in SpanRecords /\ DOMAIN added = R!Additions
  BY DEF SpanInv, SpanTyped
<1>2. PICK o \in R!Operations : o = callOp[c]
  BY DEF SpanInv, SpanTyped
<1>3. CASE o.op = "SetAttributes"
  <2>1. o.attrs \in AttributeLists
    BY <1>2, <1>3 DEF R!Operations
  <2>2. record' = R!SetAll(record, o.attrs) /\ offers' = Append(offers, o.attrs) /\ added' = added
    BY <1>2, <1>3 DEF R!Change
  <2>3. QED BY <1>1, <2>1, <2>2, SetAttributesRecords
<1>4. CASE o.op = "Add"
  <2>1. PICK k \in R!Additions : k = o.to
    BY <1>2, <1>4 DEF R!Operations
  <2>2. /\ record' = [record EXCEPT ![k] = R!Pushed(@, c)]
        /\ added' = [added EXCEPT ![k] = Append(@, c)] /\ offers' = offers
    BY <1>2, <1>4, <2>1 DEF R!Change
  <2>3. record' \in SpanRecords /\ Recorded'
    BY <1>1, <2>2, AddRecords
  <2>4. QED BY <1>1, <2>2, <2>3
<1>5. CASE o.op = "SetName"
  <2>1. record' = [record EXCEPT !.name = c] /\ offers' = offers /\ added' = added
    BY <1>2, <1>5 DEF R!Change
  <2>2. /\ record' \in SpanRecords /\ record'.attrs = record.attrs /\ record'.droppedAttrs = record.droppedAttrs
        /\ record'.events = record.events /\ record'.links = record.links
    BY <1>1, <2>1 DEF SpanRecords
  <2>3. KeptNewest(limit, record'.events, added'.events) /\ KeptNewest(limit, record'.links, added'.links)
    BY <1>1, <2>1, <2>2 DEF SpanInv, Recorded
  <2>4. Recorded'
    BY <1>1, <2>1, <2>2, <2>3, RecordedStays
  <2>5. QED BY <1>1, <2>1, <2>2, <2>4
<1>6. o.op \in {"SetAttributes", "Add", "SetName"}
  BY <1>2 DEF R!Operations
<1>7. QED BY <1>3, <1>4, <1>5, <1>6

LEMMA ApplyKeeps ==
    ASSUME SpanInv, NEW c \in Spans, R!Apply(c)
    PROVE  SpanInv'
<1>1. /\ callAt[c] = "locking" /\ callOp[c].op # "End"
      /\ callAt' = [callAt EXCEPT ![c] = "done"]
      /\ late' = IF exports = << >> THEN late ELSE late \cup {c}
      /\ UNCHANGED <<limit, recording, callOp, exports, atSwap>>
  BY DEF R!Apply, R!Change
<1>2. callAt \in [Spans -> CallPlaces]
  BY DEF SpanInv, SpanTyped
<1>3. callAt'[c] = "done" /\ \A x \in Spans \ {c} : callAt'[x] = callAt[x]
  BY <1>1, <1>2
<1>4. record' \in SpanRecords /\ Recorded' /\ DOMAIN added' = R!Additions
  <2>1. R!Change(c) /\ limit' = limit
    BY DEF R!Apply
  <2>2. QED BY <1>1, <2>1, ChangeRecords
<1>5. SpanTyped'
  <2>1. callAt' \in [Spans -> CallPlaces]
    BY <1>1, <1>2 DEF CallPlaces
  <2>2. \A x \in Spans : callAt'[x] = "locking" => callAt[x] = "locking"
    BY <1>3
  <2>3. limit' = limit /\ recording' = recording /\ callOp' = callOp
    BY <1>1
  <2>4. record' # None
    BY <1>4, NoneApart
  <2>5. QED BY <1>4, <2>1, <2>2, <2>3, <2>4 DEF SpanInv, SpanTyped
<1>6. EndsOnce'
  <2>1. EndsOnce
    BY DEF SpanInv
  <2>2. recording' = recording /\ atSwap' = atSwap /\ callOp' = callOp /\ exports' = exports
    BY <1>1
  <2>3. \A x \in Spans : callAt'[x] = "locking" => callAt[x] = "locking"
    BY <1>3
  <2>4. ~recording => atSwap # {None}
    BY <1>1, <2>1 DEF EndsOnce
  <2>5. ASSUME NEW e \in Spans, Ender(e) PROVE Ender(e)'
    <3>1. e # c
      BY <1>1, <2>5 DEF Ender
    <3>2. callAt'[e] = callAt[e]
      BY <1>3, <3>1
    <3>3. \A x \in Spans \ {e} : callAt'[x] = "locking" => callOp'[x].op # "End" /\ x \in atSwap'
      BY <2>2, <2>3, <2>5 DEF Ender
    <3>4. QED BY <2>2, <2>5, <3>2, <3>3 DEF Ender
  <2>6. exports # << >> => c \in atSwap /\ atSwap # {None}
    <3> SUFFICES ASSUME exports # << >> PROVE c \in atSwap /\ atSwap # {None}
      OBVIOUS
    <3>1. ~recording /\ atSwap # {None}
      BY <2>1 DEF EndsOnce
    <3>2. PICK e \in Spans : Ender(e)
      BY <2>1, <3>1 DEF EndsOnce
    <3>3. e # c
      BY <1>1, <3>2 DEF Ender
    <3>4. QED BY <1>1, <3>1, <3>2, <3>3 DEF Ender
  <2>7. late' \subseteq atSwap' /\ (atSwap' = {None} => late' = {})
    BY <1>1, <2>1, <2>2, <2>6 DEF EndsOnce
  <2>8. QED BY <2>1, <2>2, <2>3, <2>4, <2>5, <2>7 DEF EndsOnce
<1>7. QED BY <1>4, <1>5, <1>6 DEF SpanInv

LEMMA SpanNext == SpanInv /\ [R!Next]_(R!spanVars) => SpanInv'
<1> SUFFICES ASSUME SpanInv, [R!Next]_(R!spanVars) PROVE SpanInv'
  OBVIOUS
<1>1. CASE UNCHANGED R!spanVars
  <2>1. /\ limit' = limit /\ recording' = recording /\ record' = record /\ callAt' = callAt /\ callOp' = callOp
        /\ exports' = exports /\ offers' = offers /\ added' = added /\ atSwap' = atSwap /\ late' = late
    BY <1>1 DEF R!spanVars
  <2>2. SpanTyped'
    BY <2>1 DEF SpanInv, SpanTyped
  <2>3. Recorded'
    BY <2>1, Zenon DEF SpanInv, Recorded
  <2>4. EndsOnce'
    BY <2>1 DEF SpanInv, EndsOnce, Ender
  <2>5. QED BY <2>2, <2>3, <2>4 DEF SpanInv
<1>2. CASE R!Next
  BY <1>2, BeginKeeps, BeginEndKeeps, ApplyKeeps, ExportKeeps DEF R!Next
<1>3. QED BY <1>1, <1>2

LEMMA RefusedAlike ==
    ASSUME NEW G \in Seq(Attributes), NEW q \in SpanRecords
    PROVE  /\ Refused(q.attrs, G, Len(G)) =
                  {i \in DOMAIN G : G[i].value = Empty \/ G[i].key \notin R!KeysOf(q.attrs)}
           /\ R!Cardinality(Refused(q.attrs, G, Len(G))) = Cardinality(Refused(q.attrs, G, Len(G)))
<1>1. DOMAIN G = 1..Len(G)
  OBVIOUS
<1>2. \A s : R!Cardinality(s) = Cardinality(s)
  BY DEF R!Cardinality, Cardinality
<1>3. QED BY <1>1, <1>2 DEF Refused

LEMMA AttributesAreAccounted == SpanInv => R!AttributesAccounted
<1> SUFFICES ASSUME SpanInv, record # None PROVE R!AttributesAccounted
  BY DEF R!AttributesAccounted
<1>1. record \in SpanRecords /\ limit \in Int
  BY DEF SpanInv, SpanTyped
<1>2. offers \in Lists /\ Len(offers) >= 1
  BY DEF SpanInv, Recorded
<1>3. PICK given : given = R!FlattenSeq(Tail(offers))
  OBVIOUS
<1>4. given \in Seq(Attributes) /\ DOMAIN given = 1..Len(given)
  <2>1. PICK tail \in Lists : tail = Tail(offers)
    <3>1. Tail(offers) \in Lists
      BY <1>2 DEF Lists
    <3>2. QED BY <3>1
  <2>2. R!FlattenSeq(tail) \in Seq(Attributes)
    <3>1. << >> \in Seq(Attributes)
      OBVIOUS
    <3>2. QED BY <3>1, FlattenAppend
  <2>3. QED BY <1>3, <2>1, <2>2
<1>5. PICK cut : cut = Len(offers[1]) - Within(limit, offers[1])
  OBVIOUS
<1>6. cut = IF limit < 0 THEN 0 ELSE R!Max({0, Len(offers[1]) - limit})
  <2>1. PICK first \in Seq(Attributes) : first = offers[1]
    BY <1>2 DEF Lists
  <2>2. Len(first) - Within(limit, first) = IF limit < 0 THEN 0 ELSE R!Max({0, Len(first) - limit})
    BY <1>1, WithinLimit
  <2>3. QED BY <1>5, <2>1, <2>2
<1>7. Accounted(limit, record, given, Len(given), cut)
  BY <1>3, <1>5, Zenon DEF SpanInv, Recorded
<1>8. PICK refused : refused = Refused(record.attrs, given, Len(given))
  OBVIOUS
<1>9. /\ refused = {i \in DOMAIN given : given[i].value = Empty \/ given[i].key \notin R!KeysOf(record.attrs)}
      /\ R!Cardinality(refused) = Cardinality(refused)
  BY <1>1, <1>4, <1>8, RefusedAlike
<1>10. record.droppedAttrs = cut + R!Cardinality(refused)
  BY <1>7, <1>8, <1>9 DEF Accounted
<1>11. limit >= 0 => Len(record.attrs) <= limit
  BY <1>7 DEF Accounted
<1>12. \A i \in DOMAIN given \ refused :
           (\A j \in DOMAIN given \ refused : j > i => given[j].key # given[i].key)
               => \E p \in DOMAIN record.attrs : record.attrs[p] = given[i]
  BY <1>4, <1>7, <1>8 DEF Accounted, NewestIn
<1>13. (\E i \in refused : given[i].value # Empty) => Len(record.attrs) = limit
  BY <1>7, <1>8 DEF Accounted
<1>14. QED BY <1>3, <1>6, <1>9, <1>10, <1>11, <1>12, <1>13, Zenon DEF R!AttributesAccounted

LEMMA NewestAreKeptOf == SpanInv => R!NewestKept
<1> SUFFICES ASSUME SpanInv, record # None, NEW k \in R!Additions
             PROVE  /\ R!IsSuffix(record[k].kept, added[k])
                    /\ Len(record[k].kept) = IF limit < 0 THEN Len(added[k]) ELSE R!Min({limit, Len(added[k])})
                    /\ record[k].dropped = Len(added[k]) - Len(record[k].kept)
  BY DEF R!NewestKept
<1>1. PICK list, all : list = record[k] /\ all = added[k]
  OBVIOUS
<1>2. KeptNewest(limit, list, all)
  BY <1>1 DEF SpanInv, Recorded, R!Additions
<1>3. limit \in Int
  BY DEF SpanInv, SpanTyped
<1>4. list.kept \in Seq(Items) /\ all \in Seq(Items)
  BY <1>2 DEF KeptNewest, KeptItems
<1>5. Len(list.kept) <= Len(all)
  <2>1. Within(limit, all) \in 0..Len(all)
    BY <1>3, <1>4, WithinLimit
  <2>2. QED BY <1>2, <1>4, <2>1 DEF KeptNewest
<1>6. R!IsSuffix(list.kept, all)
  BY <1>2, <1>4, <1>5, SuffixIs DEF KeptNewest
<1>7. QED BY <1>1, <1>2, <1>6 DEF KeptNewest, Within

LEMMA ExportedAtMostOnce == SpanInv => R!ExportedOnce
<1> SUFFICES ASSUME SpanInv PROVE R!ExportedOnce
  OBVIOUS
<1>1. EndsOnce
  BY DEF SpanInv
<1>2. recording \in BOOLEAN
  BY DEF SpanInv, SpanTyped
<1>3. Len(<< >>) = 0
  OBVIOUS
<1>4. Len(exports) = 0 \/ Len(exports) = 1
  BY <1>1, <1>2, <1>3 DEF EndsOnce, Ender
<1>5. ASSUME atSwap # {None}, R!Underway = {} PROVE Len(exports) = 1
  <2>1. PICK e \in Spans : Ender(e)
    BY <1>1, <1>2, <1>5 DEF EndsOnce
  <2>2. callAt[e] # "locking"
    BY <1>5 DEF R!Underway
  <2>3. QED BY <2>1, <2>2 DEF Ender
<1>6. Len(exports) <= 1
  <2>1. PICK n : n = Len(exports) /\ (n = 0 \/ n = 1)
    BY <1>4
  <2>2. n <= 1
    BY <2>1
  <2>3. QED BY <2>1, <2>2
<1>7. QED BY <1>1, <1>5, <1>6 DEF EndsOnce, R!ExportedOnce

(***************************************************************************)
(* What becomes of a span, for any number of calls, any limits, attributes *)
(* and links: attributes that are lost are counted, the newest events and  *)
(* links are kept, and the span is exported once (span.go, lines 54-158    *)
(* and 290-441).                                                           *)
(***************************************************************************)
THEOREM SpanShared == R!Spec => []SpanSound
<1>1. R!Init => SpanInv
  BY SpanInit
<1>2. SpanInv /\ [R!Next]_(R!spanVars) => SpanInv'
  BY SpanNext
<1>3. SpanInv => SpanSound
  BY AttributesAreAccounted, NewestAreKeptOf, ExportedAtMostOnce DEF SpanSound, R!SpanSound
<1>4. QED BY <1>1, <1>2, <1>3, PTL DEF R!Spec

-----------------------------------------------------------------------------
(* Powers of two: 2^n counts the subsets of a set of n.                    *)

LEMMA PowerIsNat == \A n \in Nat : 2^n \in Nat
<1> SUFFICES ASSUME NEW n \in Nat PROVE 2^n \in Nat
  OBVIOUS
<1>1. IsFiniteSet(1..n) /\ Cardinality(1..n) = n
  BY FS_Interval
<1>2. IsFiniteSet(SUBSET (1..n)) /\ Cardinality(SUBSET (1..n)) = 2^n
  BY <1>1, FS_SUBSET
<1>3. QED BY <1>2, FS_CardinalityType

LEMMA PowerOfZero == 2^0 = 1
<1>1. IsFiniteSet({}) /\ Cardinality({}) = 0
  BY FS_EmptySet
<1>2. Cardinality(SUBSET {}) = 2^0
  BY <1>1, FS_SUBSET
<1>3. SUBSET {} = {{}}
  OBVIOUS
<1>4. Cardinality({{}}) = 1
  BY FS_Singleton
<1>5. QED BY <1>2, <1>3, <1>4

LEMMA PowerDoubles == \A n \in Nat : 2^(n + 1) = 2 * 2^n
<1> SUFFICES ASSUME NEW n \in Nat PROVE 2^(n + 1) = 2 * 2^n
  OBVIOUS
<1> DEFINE S == 1..n
           T == 1..(n + 1)
           with == {U \cup {n + 1} : U \in SUBSET S}
<1>1. /\ IsFiniteSet(S) /\ Cardinality(S) = n
      /\ IsFiniteSet(T) /\ Cardinality(T) = n + 1
  BY FS_Interval
<1>2. /\ IsFiniteSet(SUBSET S) /\ Cardinality(SUBSET S) = 2^n
      /\ Cardinality(SUBSET T) = 2^(n + 1)
  <2> HIDE DEF S, T
  <2>1. IsFiniteSet(SUBSET S) /\ Cardinality(SUBSET S) = 2^Cardinality(S)
    BY <1>1, FS_SUBSET
  <2>2. Cardinality(SUBSET T) = 2^Cardinality(T)
    BY <1>1, FS_SUBSET
  <2>3. 2^Cardinality(S) = 2^n /\ 2^Cardinality(T) = 2^(n + 1)
    BY <1>1, Zenon
  <2>4. QED BY <2>1, <2>2, <2>3, Zenon
<1>3. T = S \cup {n + 1} /\ n + 1 \notin S
  <2>1. \A i : i \in T <=> i \in S \cup {n + 1}
    OBVIOUS
  <2>2. n + 1 \notin S
    OBVIOUS
  <2>3. QED BY <2>1, <2>2
<1> HIDE DEF S, T
<1>4. SUBSET T = (SUBSET S) \cup with
  <2>1. ASSUME NEW U \in SUBSET T, n + 1 \in U PROVE U \in with
    <3>1. U \ {n + 1} \in SUBSET S /\ U = (U \ {n + 1}) \cup {n + 1}
      BY <1>3, <2>1
    <3>2. QED BY <3>1
  <2>2. ASSUME NEW U \in SUBSET T, n + 1 \notin U PROVE U \in SUBSET S
    BY <1>3, <2>2
  <2>3. ASSUME NEW U \in SUBSET S PROVE U \in SUBSET T /\ U \cup {n + 1} \in SUBSET T
    BY <1>3
  <2>4. \A U \in with : U \in SUBSET T
    BY <2>3
  <2> HIDE DEF with
  <2>5. \A U : U \in SUBSET T <=> U \in (SUBSET S) \cup with
    BY <2>1, <2>2, <2>3, <2>4
  <2>6. QED BY <2>5
<1>5. (SUBSET S) \cap with = {}
  BY <1>3
<1>6. IsFiniteSet(with) /\ Cardinality(with) = 2^n
  <2> DEFINE f == [U \in SUBSET S |-> U \cup {n + 1}]
  <2>1. \A U \in SUBSET S : U = (U \cup {n + 1}) \ {n + 1}
    BY <1>3
  <2>2. ASSUME NEW U \in SUBSET S, NEW V \in SUBSET S, U \cup {n + 1} = V \cup {n + 1}
        PROVE  U = V
    BY <2>1, <2>2
  <2>3. f \in [SUBSET S -> with] /\ \A U \in SUBSET S : f[U] = U \cup {n + 1}
    OBVIOUS
  <2>4. \A x \in with : \E U \in SUBSET S : f[U] = x
    BY <2>3
  <2> HIDE DEF f, with
  <2>5. f \in Bijection(SUBSET S, with)
    <3>1. \A U, V \in SUBSET S : f[U] = f[V] => U = V
      BY <2>2, <2>3
    <3>2. QED BY <2>3, <2>4, <3>1 DEF Bijection, Injection, Surjection, IsInjective
  <2>6. ExistsBijection(SUBSET S, with)
    BY <2>5 DEF ExistsBijection
  <2>7. QED BY <1>2, <2>6, FS_Bijection
<1>7. Cardinality((SUBSET S) \cup with) = 2^n + 2^n - Cardinality((SUBSET S) \cap with)
  <2> HIDE DEF with
  <2>1. QED BY <1>2, <1>6, FS_Union
<1>8. Cardinality((SUBSET S) \cap with) = 0
  BY <1>5, FS_EmptySet
<1>9. 2^n \in Nat
  BY PowerIsNat
<1> DEFINE a == 2^n
           b == 2^(n + 1)
<1>10. a \in Nat /\ b = a + a - 0
  BY <1>2, <1>4, <1>7, <1>8, <1>9, Zenon
<1> HIDE DEF a, b
<1>11. b = 2 * a
  BY <1>10
<1>12. QED BY <1>11, Zenon DEF a, b
LEMMA FactorGrows == \A a, b, c \in Nat : a <= b => c * a <= c * b
<1> SUFFICES ASSUME NEW a \in Nat, NEW b \in Nat, NEW c \in Nat, a <= b
             PROVE  c * a <= c * b
  OBVIOUS
<1>1. PICK k \in Nat : b = a + k
  BY b - a \in Nat
<1>2. c * b = c * a + c * k /\ c * k \in Nat /\ c * a \in Nat
  BY <1>1
<1>3. QED BY <1>2

\* By the least counterexample: a sum of exponents is a product of powers.
LEMMA PowerOfSum == \A m, n \in Nat : 2^(m + n) = 2^m * 2^n
<1> SUFFICES ASSUME NEW m \in Nat PROVE \A n \in Nat : 2^(m + n) = 2^m * 2^n
  OBVIOUS
<1> DEFINE wrong == {n \in Nat : 2^(m + n) # 2^m * 2^n}
<1> SUFFICES ASSUME wrong # {} PROVE FALSE
  OBVIOUS
<1>1. PICK n \in wrong : \A k \in wrong : n <= k
  <2>1. wrong \subseteq Nat
    OBVIOUS
  <2> HIDE DEF wrong
  <2>2. QED BY <2>1, LeastOne
<1>2. n \in Nat /\ 2^(m + n) # 2^m * 2^n
  OBVIOUS
<1>3. n # 0
  <2>1. ASSUME n = 0 PROVE 2^(m + n) = 2^m * 2^n
    <3>1. m + n = m
      BY <2>1
    <3>2. 2^n = 1
      BY <2>1, PowerOfZero, Zenon
    <3>3. 2^(m + n) = 2^m
      BY <3>1, Zenon
    <3> DEFINE a == 2^m
               b == 2^n
               c == 2^(m + n)
    <3>4. a \in Nat /\ b = 1 /\ c = a
      BY <3>2, <3>3, PowerIsNat, Zenon
    <3> HIDE DEF a, b, c
    <3>5. c = a * b
      BY <3>4
    <3>6. QED BY <3>5, Zenon DEF a, b, c
  <2>2. QED BY <1>2, <2>1
<1>4. n - 1 \in Nat /\ n - 1 \notin wrong
  BY <1>1, <1>2, <1>3
<1> DEFINE a == 2^m
           b == 2^(n - 1)
           c == 2^(m + (n - 1))
           d == 2^n
           e == 2^(m + n)
<1>5. c = a * b
  BY <1>4
<1>6. d = 2 * b
  <2>1. 2^((n - 1) + 1) = 2 * 2^(n - 1)
    BY <1>4, PowerDoubles
  <2>2. (n - 1) + 1 = n
    BY <1>2
  <2>3. 2^((n - 1) + 1) = 2^n
    BY <2>2, Zenon
  <2>4. QED BY <2>1, <2>3, Zenon
<1>7. e = 2 * c
  <2>1. m + (n - 1) \in Nat /\ (m + (n - 1)) + 1 = m + n
    BY <1>4
  <2>2. 2^((m + (n - 1)) + 1) = 2 * 2^(m + (n - 1))
    BY <2>1, PowerDoubles, Zenon
  <2>3. 2^((m + (n - 1)) + 1) = 2^(m + n)
    BY <2>1, Zenon
  <2>4. QED BY <2>2, <2>3, Zenon
<1>8. a \in Nat /\ b \in Nat
  BY <1>4, PowerIsNat
<1>9. e # a * d
  BY <1>2, Zenon
<1> HIDE DEF a, b, c, d, e
<1>10. e = a * d
  BY <1>5, <1>6, <1>7, <1>8
<1>11. QED BY <1>9, <1>10

LEMMA PowerIsPositive == \A n \in Nat : 2^n \in Nat /\ 2^n >= 1
<1> SUFFICES ASSUME NEW n \in Nat PROVE 2^n \in Nat /\ 2^n >= 1
  OBVIOUS
<1>1. IsFiniteSet(1..n) /\ Cardinality(1..n) = n
  BY FS_Interval
<1>2. IsFiniteSet(SUBSET (1..n)) /\ Cardinality(SUBSET (1..n)) = 2^Cardinality(1..n)
  BY <1>1, FS_SUBSET
<1>3. Cardinality(SUBSET (1..n)) = 2^n
  BY <1>1, <1>2, Zenon
<1>4. SUBSET (1..n) # {}
  OBVIOUS
<1>5. Cardinality(SUBSET (1..n)) \in Nat /\ Cardinality(SUBSET (1..n)) # 0
  BY <1>2, <1>4, FS_CardinalityType, FS_EmptySet
<1>6. QED BY <1>3, <1>5

\* Powers grow with the exponent.
LEMMA PowerGrows == \A m, n \in Nat : m <= n => 2^m <= 2^n
<1> SUFFICES ASSUME NEW m \in Nat, NEW n \in Nat, m <= n PROVE 2^m <= 2^n
  OBVIOUS
<1>1. n - m \in Nat /\ m + (n - m) = n
  OBVIOUS
<1>2. 2^(m + (n - m)) = 2^m * 2^(n - m)
  BY <1>1, PowerOfSum
<1>3. 2^(m + (n - m)) = 2^n
  BY <1>1, Zenon
<1> DEFINE a == 2^m
           b == 2^(n - m)
           c == 2^n
<1>4. c = a * b /\ a \in Nat /\ b \in Nat /\ b >= 1
  BY <1>1, <1>2, <1>3, PowerIsPositive
<1> HIDE DEF a, b, c
<1>5. a <= c
  <2>1. PICK k \in Nat : b = 1 + k
    BY <1>4, b - 1 \in Nat
  <2>2. a * b = a + a * k /\ a * k \in Nat
    BY <1>4, <2>1
  <2>3. QED BY <1>4, <2>2
<1>6. QED BY <1>5 DEF a, c

-----------------------------------------------------------------------------
(* How many draws a sampler samples.                                       *)

LEMMA LeadingZeros ==
    ASSUME NEW draw \in C!Draws
    PROVE  /\ C!NewR(draw) \in 0..PZero
           /\ \A lac \in Nat : lac <= C!NewR(draw) <=> lac <= PZero /\ draw < 2^(PZero - lac)
<1>1. PZero \in Nat /\ 2^PZero \in Nat /\ draw \in Nat /\ draw < 2^PZero
  <2>1. PZero \in Nat
    BY SamplerAssumption
  <2>2. 2^PZero \in Nat
    BY <2>1, PowerIsNat
  <2> DEFINE a == 2^PZero
  <2>3. draw \in 0..a - 1 /\ a \in Nat
    BY <2>2 DEF C!Draws
  <2> HIDE DEF a
  <2>4. draw \in Nat /\ draw < a
    BY <2>3
  <2>5. QED BY <2>1, <2>3, <2>4 DEF a
<1> DEFINE above == {i \in 0..PZero : draw < 2^i}
<1>2. PICK m \in above : \A i \in above : m <= i
  <2>1. above \subseteq Nat /\ PZero \in above
    BY <1>1
  <2> HIDE DEF above
  <2>2. QED BY <2>1, LeastOne
<1>3. m \in 0..PZero /\ draw < 2^m
  OBVIOUS
<1>4. \A i \in 0..PZero : draw < 2^i <=> m <= i
  <2> SUFFICES ASSUME NEW i \in 0..PZero PROVE draw < 2^i <=> m <= i
    OBVIOUS
  <2>1. draw < 2^i => m <= i
    BY <1>2
  <2>2. ASSUME m <= i PROVE draw < 2^i
    <3>1. 2^m <= 2^i
      BY <1>3, <2>2, PowerGrows
    <3> DEFINE a == 2^m
               b == 2^i
    <3>2. a \in Nat /\ b \in Nat /\ a <= b /\ draw < a
      BY <1>3, <3>1, PowerIsNat
    <3> HIDE DEF a, b
    <3>3. draw < b
      BY <1>1, <3>2
    <3>4. QED BY <3>3 DEF b
  <2>3. QED BY <2>1, <2>2
<1> HIDE DEF above
<1>5. {i \in 0..PZero - 1 : draw < 2^i} = m..PZero - 1
  <2>1. \A i \in 0..PZero - 1 : draw < 2^i <=> m <= i
    BY <1>1, <1>4
  <2>2. QED BY <1>1, <1>3, <2>1
<1>6. C!NewR(draw) = PZero - m
  <2>1. Cardinality(m..PZero - 1) = IF m > PZero - 1 THEN 0 ELSE (PZero - 1) - m + 1
    BY <1>1, <1>3, FS_Interval
  <2>2. C!NewR(draw) = Cardinality(m..PZero - 1)
    BY <1>5 DEF C!NewR, C!Cardinality, Cardinality
  <2>3. QED BY <1>1, <1>3, <2>1, <2>2
<1>7. ASSUME NEW lac \in Nat
      PROVE  lac <= C!NewR(draw) <=> lac <= PZero /\ draw < 2^(PZero - lac)
  <2>1. lac <= C!NewR(draw) <=> lac <= PZero /\ m <= PZero - lac
    BY <1>1, <1>3, <1>6
  <2>2. lac <= PZero => PZero - lac \in 0..PZero
    BY <1>1
  <2>3. QED BY <1>4, <2>1, <2>2
<1>8. QED BY <1>1, <1>3, <1>6, <1>7

SampledDraws(lac) == {draw \in C!Draws : C!Samples(lac, C!NewR(draw))}

LEMMA SampledOften ==
    ASSUME NEW lac \in Nat
    PROVE  C!Cardinality(SampledDraws(lac)) = IF lac <= PZero THEN 2^(PZero - lac) ELSE 0
<1>1. PZero \in Nat
  BY SamplerAssumption
<1>2. SampledDraws(lac) = {draw \in C!Draws : lac <= PZero /\ draw < 2^(PZero - lac)}
  BY LeadingZeros DEF SampledDraws, C!Samples
<1>3. CASE lac > PZero
  <2>1. SampledDraws(lac) = {}
    BY <1>1, <1>2, <1>3
  <2>2. C!Cardinality({}) = Cardinality({})
    BY DEF C!Cardinality, Cardinality
  <2>3. QED BY <1>1, <1>3, <2>1, <2>2, FS_EmptySet
<1>4. CASE lac <= PZero
  <2> DEFINE k == PZero - lac
             a == 2^k
             b == 2^PZero
  <2>1. k \in Nat /\ k <= PZero
    BY <1>1, <1>4
  <2>2. a \in Nat /\ b \in Nat /\ a <= b
    BY <1>1, <2>1, PowerIsNat, PowerGrows
  <2>3. SampledDraws(lac) = {draw \in 0..b - 1 : draw < a}
    BY <1>2, <1>4 DEF C!Draws
  <2> HIDE DEF a, b, k
  <2>4. SampledDraws(lac) = 0..a - 1
    BY <2>2, <2>3
  <2>5. Cardinality(0..a - 1) = a
    BY <2>2, FS_Interval
  <2>6. C!Cardinality(0..a - 1) = Cardinality(0..a - 1)
    BY DEF C!Cardinality, Cardinality
  <2>7. C!Cardinality(SampledDraws(lac)) = a
    BY <2>4, <2>5, <2>6
  <2>8. QED BY <1>4, <2>7 DEF a, k
<1>5. QED BY <1>1, <1>3, <1>4

-----------------------------------------------------------------------------
(* The two counts of a fraction.                                           *)

LEMMA SplitIs ==
    ASSUME NEW n \in 1..2^Depth
    PROVE  LET s == C!Split(n)
           IN  /\ s.low \in 0..Depth
               /\ s.parts = 2^(Depth - s.low) /\ s.parts \in Nat /\ s.parts >= 1
               /\ s.parts <= n /\ n < 2 * s.parts
               /\ s.lowParts = 2 * s.parts - n
               /\ s.lowParts # s.parts => s.low >= 1 /\ s.high = s.low - 1
<1>1. Depth \in Nat /\ Depth <= 256 /\ n \in Nat /\ n >= 1
  <2> DEFINE a == 2^Depth
  <2>1. Depth \in Nat /\ Depth <= 256
    BY SamplerAssumption
  <2>2. a \in Nat
    BY <2>1, PowerIsNat
  <2>3. n \in 1..a
    OBVIOUS
  <2> HIDE DEF a
  <2>4. QED BY <2>1, <2>2, <2>3
<1> DEFINE fits(l) == 2^(Depth - l) <= n /\ n < 2^(Depth - l + 1)
           below == {l \in 0..Depth : 2^(Depth - l) <= n}
<1>2. PICK l \in below : \A m \in below : l <= m
  <2>1. Depth - Depth = 0
    BY <1>1
  <2>2. 2^(Depth - Depth) = 1
    BY <2>1, PowerOfZero, Zenon
  <2>3. Depth \in below /\ below \subseteq Nat
    BY <1>1, <2>2
  <2> HIDE DEF below
  <2>4. QED BY <2>3, LeastOne
<1>3. l \in 0..Depth /\ fits(l)
  <2>1. l \in 0..Depth /\ 2^(Depth - l) <= n
    OBVIOUS
  <2>2. CASE l = 0
    <3>1. Depth - l + 1 = Depth + 1
      BY <1>1, <2>2
    <3>2. 2^(Depth - l + 1) = 2 * 2^Depth
      BY <1>1, <3>1, PowerDoubles, Zenon
    <3> DEFINE a == 2^Depth
               b == 2^(Depth - l + 1)
    <3>3. b = 2 * a /\ a \in Nat /\ a >= 1 /\ n \in 1..a
      BY <1>1, <3>2, PowerIsPositive
    <3> HIDE DEF a, b
    <3>4. n < b
      BY <3>3
    <3>5. QED BY <2>1, <3>4 DEF b
  <2>3. CASE l # 0
    <3>1. l - 1 \in 0..Depth /\ l - 1 \notin below
      BY <1>1, <1>2, <2>1, <2>3
    <3>2. ~(2^(Depth - (l - 1)) <= n)
      BY <3>1
    <3>3. Depth - (l - 1) = Depth - l + 1 /\ Depth - l + 1 \in Nat
      BY <1>1, <2>1
    <3>4. 2^(Depth - (l - 1)) = 2^(Depth - l + 1)
      BY <3>3, Zenon
    <3> DEFINE b == 2^(Depth - l + 1)
    <3>5. b \in Nat /\ ~(b <= n)
      BY <3>2, <3>3, <3>4, PowerIsNat
    <3> HIDE DEF b
    <3>6. n < b
      BY <1>1, <3>5
    <3>7. QED BY <2>1, <3>6 DEF b
  <2>4. QED BY <2>2, <2>3
<1> HIDE DEF below
<1> DEFINE low == CHOOSE c \in 0..Depth : 2^(Depth - c) <= n /\ n < 2^(Depth - c + 1)
           parts == 2^(Depth - low)
<1>4. low \in 0..Depth /\ 2^(Depth - low) <= n /\ n < 2^(Depth - low + 1)
  BY <1>3
<1>5. C!Split(n) = [low |-> low, high |-> (low - 1) % 256, lowParts |-> 2 * parts - n, parts |-> parts]
  <2>1. ~(n < 1)
    BY <1>1
  <2>2. QED BY <2>1 DEF C!Split
<1> HIDE DEF low
<1>6. parts \in Nat /\ parts >= 1 /\ parts <= n /\ n < 2 * parts
  <2>1. Depth - low \in Nat
    BY <1>1, <1>4
  <2>2. 2^(Depth - low + 1) = 2 * 2^(Depth - low)
    BY <2>1, PowerDoubles
  <2>3. QED BY <1>4, <2>1, <2>2, PowerIsPositive
<1>7. ASSUME 2 * parts - n # parts PROVE low >= 1 /\ (low - 1) % 256 = low - 1
  <2>1. low # 0
    <3>1. ASSUME low = 0 PROVE parts = 2^Depth
      <4>1. Depth - low = Depth
        BY <1>1, <3>1
      <4>2. QED BY <4>1, Zenon
    <3> DEFINE a == 2^Depth
    <3>2. n \in 1..a
      OBVIOUS
    <3> HIDE DEF parts
    <3>3. a \in Nat
      BY <1>1, PowerIsNat
    <3>4. ASSUME low = 0 PROVE parts = a
      BY <3>1, <3>4
    <3> HIDE DEF a
    <3>5. QED BY <1>6, <1>7, <3>2, <3>3, <3>4
  <2>2. low - 1 \in 0..255
    BY <1>1, <1>4, <2>1
  <2>3. QED BY <1>4, <2>1, <2>2
<1> DEFINE s == C!Split(n)
<1>8. s.low = low /\ s.high = (low - 1) % 256 /\ s.lowParts = 2 * parts - n /\ s.parts = parts
  BY <1>5
<1> HIDE DEF s, parts
<1>9. parts = 2^(Depth - low)
  BY DEF parts
<1>10. s.parts = 2^(Depth - s.low)
  BY <1>8, <1>9, Zenon
<1>11. QED BY <1>4, <1>6, <1>7, <1>8, <1>10 DEF s

FairlySampled(n) ==
    LET s == C!Split(n)
    IN  IF n * 2^PZero >= 2^Depth
        THEN /\ C!Often(n, LAMBDA lac : 1) * 2^Depth = n * 2^PZero * s.parts
             /\ C!Often(n, LAMBDA lac : 2^lac) = 2^PZero * s.parts
        ELSE C!Often(n, LAMBDA lac : 1) <= s.parts

LEMMA OftenIs ==
    ASSUME NEW n
    PROVE  LET s == C!Split(n)
               draws(lac) == C!Cardinality(SampledDraws(lac))
           IN  /\ C!Often(n, LAMBDA lac : 1) =
                      s.lowParts * (draws(s.low) * 1)
                          + (IF s.lowParts = s.parts THEN 0
                             ELSE (s.parts - s.lowParts) * (draws(s.high) * 1))
               /\ C!Often(n, LAMBDA lac : 2^lac) =
                      s.lowParts * (draws(s.low) * 2^s.low)
                          + (IF s.lowParts = s.parts THEN 0
                             ELSE (s.parts - s.lowParts) * (draws(s.high) * 2^s.high))
BY DEF C!Often, SampledDraws

\* The arithmetic of a fraction whose low count is at most PZero: q draws of
\* 2^PZero are sampled at the low count, twice as many at the high one.
LEMMA SharesAddUp ==
    ASSUME NEW n \in Nat, NEW p \in Nat, NEW q \in Nat, p <= n, n <= 2 * p
    PROVE  (2 * p - n) * q + (p - (2 * p - n)) * (2 * q) = n * q
<1>1. PICK k \in Nat : n = p + k
  BY n - p \in Nat
<1>2. PICK m \in Nat : p = k + m
  BY <1>1, p - k \in Nat
<1>3. 2 * p - n = m /\ p - m = k /\ n = 2 * k + m
  BY <1>1, <1>2
<1>4. m * q + k * (2 * q) = (2 * k + m) * q
  OBVIOUS
<1>5. QED BY <1>3, <1>4

LEMMA CountsAddUp ==
    ASSUME NEW n \in Nat, NEW p \in Nat, NEW q \in Nat, NEW w \in Nat, p <= n, n <= 2 * p
    PROVE  (2 * p - n) * (q * (2 * w)) + (p - (2 * p - n)) * ((2 * q) * w) = (q * (2 * w)) * p
<1>1. PICK k \in Nat : n = p + k
  BY n - p \in Nat
<1>2. PICK m \in Nat : p = k + m
  BY <1>1, p - k \in Nat
<1>3. 2 * p - n = m /\ p - m = k
  BY <1>1, <1>2
<1>4. m * (q * (2 * w)) + k * ((2 * q) * w) = (q * (2 * w)) * (k + m)
  OBVIOUS
<1>5. QED BY <1>2, <1>3, <1>4

LEMMA ExactWithinRange ==
    ASSUME NEW n \in 1..2^Depth, C!Split(n).low <= PZero
    PROVE  /\ C!Often(n, LAMBDA lac : 1) * 2^Depth = n * 2^PZero * C!Split(n).parts
           /\ C!Often(n, LAMBDA lac : 2^lac) = 2^PZero * C!Split(n).parts
<1> DEFINE s == C!Split(n)
           low == s.low
           high == s.high
           p == s.parts
           q == 2^(PZero - low)
           w == 2^low
           ones == C!Often(n, LAMBDA lac : 1)
           counts == C!Often(n, LAMBDA lac : 2^lac)
           draws(lac) == C!Cardinality(SampledDraws(lac))
<1>1. /\ PZero \in Nat /\ Depth \in Nat /\ low \in Nat /\ low <= Depth /\ low <= PZero
  BY SplitIs, SamplerAssumption
<1>2. /\ p = 2^(Depth - low) /\ p \in Nat /\ p >= 1 /\ p <= n /\ n <= 2 * p /\ n \in Nat
      /\ s.lowParts = 2 * p - n
      /\ s.lowParts # p => low >= 1 /\ high = low - 1
  BY SplitIs
<1>3. q \in Nat /\ w \in Nat /\ draws(low) = q
  BY <1>1, PowerIsNat, SampledOften
<1>4. 2^PZero = q * w
  <2>1. PZero - low \in Nat /\ (PZero - low) + low = PZero
    BY <1>1
  <2>2. 2^((PZero - low) + low) = 2^(PZero - low) * 2^low
    BY <1>1, <2>1, PowerOfSum
  <2>3. 2^((PZero - low) + low) = 2^PZero
    BY <2>1, Zenon
  <2>4. QED BY <2>2, <2>3, Zenon
<1>5. 2^Depth = p * w
  <2>1. Depth - low \in Nat /\ (Depth - low) + low = Depth
    BY <1>1
  <2>2. 2^((Depth - low) + low) = 2^(Depth - low) * 2^low
    BY <1>1, <2>1, PowerOfSum
  <2>3. 2^((Depth - low) + low) = 2^Depth
    BY <2>1, Zenon
  <2>4. QED BY <1>2, <2>2, <2>3, Zenon
<1>6. /\ ones = s.lowParts * (draws(low) * 1)
              + (IF s.lowParts = p THEN 0 ELSE (p - s.lowParts) * (draws(high) * 1))
      /\ counts = s.lowParts * (draws(low) * w)
              + (IF s.lowParts = p THEN 0 ELSE (p - s.lowParts) * (draws(high) * 2^high))
  BY OftenIs
<1>7. ASSUME s.lowParts # p
      PROVE  draws(high) = 2 * q /\ 2^high \in Nat /\ w = 2 * 2^high
  <2>1. high \in Nat /\ high = low - 1 /\ high <= PZero /\ PZero - high = (PZero - low) + 1
    BY <1>1, <1>2, <1>7
  <2>2. draws(high) = 2^(PZero - high)
    BY <2>1, SampledOften
  <2>3. PZero - low \in Nat /\ high + 1 = low
    BY <1>1, <2>1
  <2>4. 2^((PZero - low) + 1) = 2 * 2^(PZero - low) /\ 2^(high + 1) = 2 * 2^high
    BY <2>1, <2>3, PowerDoubles
  <2>5. 2^(PZero - high) = 2^((PZero - low) + 1) /\ 2^(high + 1) = 2^low
    BY <2>1, <2>3, Zenon
  <2>6. 2^high \in Nat
    BY <2>1, PowerIsNat
  <2>7. QED BY <2>2, <2>4, <2>5, <2>6, Zenon
<1> DEFINE half == 2^high
           all == 2^PZero
           depth == 2^Depth
<1>8. all = q * w /\ depth = p * w
  BY <1>4, <1>5
<1>9. /\ counts = s.lowParts * (draws(low) * w)
              + (IF s.lowParts = p THEN 0 ELSE (p - s.lowParts) * (draws(high) * half))
      /\ s.lowParts # p => draws(high) = 2 * q /\ half \in Nat /\ w = 2 * half
  BY <1>6, <1>7
<1> HIDE DEF s, low, high, p, q, w, ones, counts, draws, half, all, depth
<1>10. ones = n * q /\ counts = (q * w) * p
  <2>1. CASE s.lowParts = p
    <3>1. n = p
      BY <1>2, <2>1
    <3>2. ones = p * (q * 1) + 0 /\ counts = p * (q * w) + 0
      BY <1>3, <1>6, <1>9, <2>1
    <3>3. QED BY <1>2, <1>3, <3>1, <3>2
  <2>2. CASE s.lowParts # p
    <3>1. /\ ones = (2 * p - n) * (q * 1) + (p - (2 * p - n)) * ((2 * q) * 1)
          /\ counts = (2 * p - n) * (q * w) + (p - (2 * p - n)) * ((2 * q) * half)
          /\ half \in Nat /\ w = 2 * half
      BY <1>2, <1>3, <1>6, <1>9, <2>2
    <3>2. q * 1 = q /\ (2 * q) * 1 = 2 * q
      BY <1>3
    <3>3. ones = n * q
      <4>1. (2 * p - n) * q + (p - (2 * p - n)) * (2 * q) = n * q
        BY <1>2, <1>3, SharesAddUp
      <4>2. ones = (2 * p - n) * q + (p - (2 * p - n)) * (2 * q)
        BY <3>1, <3>2, Zenon
      <4>3. QED BY <4>1, <4>2
    <3>4. counts = (2 * p - n) * (q * (2 * half)) + (p - (2 * p - n)) * ((2 * q) * half)
      BY <3>1
    <3>5. counts = (q * (2 * half)) * p
      <4>1. (2 * p - n) * (q * (2 * half)) + (p - (2 * p - n)) * ((2 * q) * half) = (q * (2 * half)) * p
        <5>1. n \in Nat /\ p \in Nat /\ q \in Nat /\ half \in Nat /\ p <= n /\ n <= 2 * p
          BY <1>2, <1>3, <3>1
        <5>2. QED BY <5>1, CountsAddUp
      <4>2. QED BY <3>4, <4>1
    <3>6. QED BY <3>1, <3>3, <3>5
  <2>3. QED BY <2>1, <2>2
<1>11. (n * q) * (p * w) = n * (q * w) * p
  BY <1>2, <1>3
<1>12. ones * depth = n * all * p /\ counts = all * p
  BY <1>8, <1>10, <1>11
<1>13. QED BY <1>12, Zenon DEF ones, counts, all, depth, p, s

\* Below the range, what is sampled is the draw of zeros, if that.
LEMMA RareBelowRange ==
    ASSUME NEW n \in 1..2^Depth, C!Split(n).low > PZero
    PROVE  C!Often(n, LAMBDA lac : 1) <= C!Split(n).parts
<1> DEFINE s == C!Split(n)
           ones == C!Often(n, LAMBDA lac : 1)
           draws(lac) == C!Cardinality(SampledDraws(lac))
<1>1. /\ PZero \in Nat /\ s.low \in Nat /\ s.low > PZero
      /\ s.parts \in Nat /\ s.parts <= n /\ n < 2 * s.parts /\ n \in Nat
      /\ s.lowParts = 2 * s.parts - n
      /\ s.lowParts # s.parts => s.low >= 1 /\ s.high = s.low - 1
  BY SplitIs, SamplerAssumption
<1>2. ones = s.lowParts * (draws(s.low) * 1)
          + (IF s.lowParts = s.parts THEN 0 ELSE (s.parts - s.lowParts) * (draws(s.high) * 1))
  BY OftenIs
<1>3. draws(s.low) = 0
  BY <1>1, SampledOften
<1>4. s.lowParts # s.parts => draws(s.high) \in {0, 1}
  <2>1. ASSUME s.lowParts # s.parts PROVE draws(s.high) \in {0, 1}
    <3>1. s.high \in Nat /\ s.high >= PZero
      BY <1>1, <2>1
    <3>2. CASE s.high = PZero
      <4>1. PZero - s.high = 0
        BY <1>1, <3>2
      <4>2. draws(s.high) = 2^(PZero - s.high)
        BY <1>1, <3>1, <3>2, SampledOften
      <4>3. 2^(PZero - s.high) = 1
        BY <4>1, PowerOfZero, Zenon
      <4>4. QED BY <4>2, <4>3
    <3>3. CASE s.high > PZero
      BY <1>1, <3>1, <3>3, SampledOften
    <3> HIDE DEF s, draws
    <3>4. s.high = PZero \/ s.high > PZero
      BY <1>1, <3>1
    <3>5. QED BY <3>2, <3>3, <3>4
  <2>2. QED BY <2>1
<1> HIDE DEF s, ones, draws
<1>5. CASE s.lowParts = s.parts
  <2>1. s.lowParts \in Nat
    BY <1>1
  <2>2. ones = s.lowParts * (0 * 1) + 0
    BY <1>2, <1>3, <1>5
  <2>3. ones = 0
    BY <2>1, <2>2
  <2>4. ones <= s.parts
    BY <1>1, <2>3
  <2>5. QED BY <2>4 DEF ones, s
<1>6. CASE s.lowParts # s.parts
  <2>1. s.lowParts \in Nat /\ s.lowParts <= s.parts
    BY <1>1
  <2>2. ones = (s.parts - s.lowParts) * (draws(s.high) * 1)
    <3>1. ones = s.lowParts * (0 * 1) + (s.parts - s.lowParts) * (draws(s.high) * 1)
      BY <1>2, <1>3, <1>6
    <3>2. (s.parts - s.lowParts) * (draws(s.high) * 1) \in Int
      BY <1>1, <1>4, <1>6, <2>1
    <3>3. QED BY <2>1, <3>1, <3>2
  <2>3. ones = 0 \/ ones = s.parts - s.lowParts
    BY <1>1, <1>4, <1>6, <2>1, <2>2
  <2>4. ones <= s.parts
    BY <1>1, <2>1, <2>3
  <2>5. QED BY <2>4 DEF ones, s
<1>7. QED BY <1>5, <1>6

LEMMA EveryFractionKept ==
    ASSUME NEW n \in 0..2^Depth
    PROVE  FairlySampled(n)
<1> DEFINE all == 2^PZero
           depth == 2^Depth
<1>1. PZero \in Nat /\ Depth \in Nat /\ all \in Nat /\ all >= 1 /\ depth \in Nat /\ depth >= 1
  BY SamplerAssumption, PowerIsPositive
<1>2. n \in Nat /\ n <= depth
  <2> HIDE DEF depth, all
  <2>1. n \in 0..depth
    BY DEF depth
  <2>2. QED BY <1>1, <2>1
<1>3. CASE n = 0
  <2>1. ~(n * all >= depth)
    <3> HIDE DEF all, depth
    <3>1. QED BY <1>1, <1>3
  <2>2. C!Split(n) = [low |-> PZero, high |-> PZero, lowParts |-> 1, parts |-> 1]
    BY <1>3 DEF C!Split
  <2>3. C!Cardinality(SampledDraws(PZero)) = 1
    <3>1. PZero - PZero = 0 /\ PZero <= PZero
      BY <1>1
    <3>2. C!Cardinality(SampledDraws(PZero)) = 2^(PZero - PZero)
      BY <1>1, <3>1, SampledOften
    <3>3. 2^(PZero - PZero) = 1
      BY <3>1, PowerOfZero, Zenon
    <3>4. QED BY <3>2, <3>3
  <2> DEFINE s == C!Split(n)
             draws(lac) == C!Cardinality(SampledDraws(lac))
             ones == C!Often(n, LAMBDA lac : 1)
  <2>4. s.low = PZero /\ s.lowParts = 1 /\ s.parts = 1
    BY <2>2
  <2>5. ones = s.lowParts * (draws(s.low) * 1)
              + (IF s.lowParts = s.parts THEN 0 ELSE (s.parts - s.lowParts) * (draws(s.high) * 1))
    BY OftenIs
  <2>6. draws(PZero) = 1
    BY <2>3
  <2> HIDE DEF s, draws, ones, all, depth
  <2>7. ones = 1 * (1 * 1) + 0
    BY <2>4, <2>5, <2>6
  <2>8. ones <= s.parts
    BY <2>4, <2>7
  <2>9. QED BY <2>1, <2>8 DEF FairlySampled, ones, s, all, depth
<1>4. CASE n >= 1
  <2> DEFINE s == C!Split(n)
  <2>1. n \in 1..2^Depth
    <3> HIDE DEF depth, all
    <3>1. n \in 1..depth
      BY <1>1, <1>2, <1>4
    <3>2. QED BY <3>1 DEF depth
  <2>2. /\ s.low \in 0..Depth /\ s.parts = 2^(Depth - s.low) /\ s.parts \in Nat /\ s.parts >= 1
        /\ s.parts <= n /\ n < 2 * s.parts
    BY <2>1, SplitIs
  <2>3. CASE s.low <= PZero
    <3>1. n * all >= depth
      <4> DEFINE w == 2^s.low
      <4>1. depth = s.parts * w
        <5>1. Depth - s.low \in Nat /\ s.low \in Nat /\ (Depth - s.low) + s.low = Depth
          BY <1>1, <2>2
        <5>2. 2^((Depth - s.low) + s.low) = 2^(Depth - s.low) * 2^s.low
          BY <5>1, PowerOfSum
        <5>3. 2^((Depth - s.low) + s.low) = 2^Depth
          BY <5>1, Zenon
        <5>4. QED BY <2>2, <5>2, <5>3, Zenon
      <4>2. w <= all /\ w \in Nat
        BY <1>1, <2>2, <2>3, PowerGrows, PowerIsNat
      <4> HIDE DEF all, depth, w, s
      <4>3. s.parts * w <= s.parts * all
        BY <1>1, <2>2, <4>2, FactorGrows
      <4>4. all * s.parts <= all * n
        BY <1>1, <1>2, <2>2, FactorGrows
      <4>5. s.parts * all = all * s.parts /\ all * n = n * all /\ s.parts * w \in Nat
            /\ all * s.parts \in Nat /\ n * all \in Nat
        BY <1>1, <1>2, <2>2, <4>2
      <4>6. QED BY <1>1, <4>1, <4>3, <4>4, <4>5
    <3>2. QED BY <2>1, <2>3, <3>1, ExactWithinRange DEF FairlySampled
  <2>4. CASE s.low > PZero
    <3>1. ~(n * all >= depth)
      <4>1. Depth - s.low \in Nat /\ (Depth - s.low) + 1 \in Nat /\ ((Depth - s.low) + 1) + PZero \in Nat
            /\ ((Depth - s.low) + 1) + PZero <= Depth
        BY <1>1, <2>2, <2>4
      <4> DEFINE twice == 2^((Depth - s.low) + 1)
      <4>2. twice = 2 * s.parts
        BY <2>2, <4>1, PowerDoubles
      <4>3. 2^(((Depth - s.low) + 1) + PZero) = twice * all
        BY <1>1, <4>1, PowerOfSum
      <4>4. 2^(((Depth - s.low) + 1) + PZero) <= depth
        BY <1>1, <4>1, PowerGrows
      <4>5. twice * all <= depth
        BY <4>3, <4>4
      <4> HIDE DEF all, depth, twice, s
      <4>6. n + 1 <= twice /\ twice \in Nat
        BY <1>2, <2>2, <4>2
      <4>7. all * (n + 1) <= all * twice
        BY <1>1, <1>2, <4>6, FactorGrows
      <4>8. all * (n + 1) = n * all + all /\ all * twice = twice * all /\ n * all \in Nat /\ twice * all \in Nat
        BY <1>1, <1>2, <4>6
      <4>9. n * all + all <= depth
        BY <1>1, <4>5, <4>7, <4>8
      <4>10. QED BY <1>1, <4>8, <4>9
    <3>2. QED BY <2>1, <2>4, <3>1, RareBelowRange DEF FairlySampled
  <2>5. QED BY <1>1, <2>2, <2>3, <2>4
<1>5. QED BY <1>2, <1>3, <1>4

-----------------------------------------------------------------------------
(* The fields of an entry.                                                 *)

LEMMA GreatestPlace ==
    ASSUME NEW S, NEW n \in Nat, S \subseteq 1..n, S # {}
    PROVE  C!Max(S) \in S /\ \A x \in S : x <= C!Max(S)
<1>1. C!Max(S) = R!Max(S)
  BY DEF C!Max, R!Max
<1>2. QED BY <1>1, MaxInPlaces

\* The n-th field of others is a field, and is neither p nor r.
LEMMA OthersAre ==
    ASSUME NEW fields \in Seq(Fields)
    PROVE  C!Others(fields) \in Seq({f \in Fields : f.key \notin {"p", "r"}})
<1> DEFINE places == {i \in DOMAIN fields : fields[i].key \notin {"p", "r"}}
           upTo(i) == {j \in places : j <= i}
           rank == [i \in places |-> Cardinality(upTo(i))]
           many == Cardinality(places)
<1>1. IsFiniteSet(places) /\ many \in Nat /\ places \subseteq 1..Len(fields)
  <2>1. DOMAIN fields = 1..Len(fields) /\ Len(fields) \in Nat
    OBVIOUS
  <2>2. places \subseteq 1..Len(fields)
    BY <2>1
  <2> HIDE DEF places
  <2>3. IsFiniteSet(1..Len(fields))
    BY <2>1, FS_Interval
  <2>4. QED BY <2>2, <2>3, FS_Subset, FS_CardinalityType
<1>2. \A i \in places : i \in Nat /\ fields[i] \in {f \in Fields : f.key \notin {"p", "r"}}
  BY <1>1
<1> HIDE DEF places
<1>3. \A i \in places : /\ IsFiniteSet(upTo(i)) /\ Cardinality(upTo(i)) \in 1..many
  <2> SUFFICES ASSUME NEW i \in places PROVE IsFiniteSet(upTo(i)) /\ Cardinality(upTo(i)) \in 1..many
    OBVIOUS
  <2>1. i \in upTo(i) /\ upTo(i) \subseteq places
    BY <1>2
  <2> HIDE DEF upTo
  <2>2. IsFiniteSet(upTo(i)) /\ Cardinality(upTo(i)) \in Nat /\ Cardinality(upTo(i)) <= many
    BY <1>1, <2>1, FS_Subset, FS_CardinalityType
  <2>3. Cardinality(upTo(i)) # 0
    BY <2>1, <2>2, FS_EmptySet
  <2>4. QED BY <1>1, <2>2, <2>3
<1>4. ASSUME NEW i \in places, NEW j \in places, i < j
      PROVE  Cardinality(upTo(i)) # Cardinality(upTo(j))
  <2>1. upTo(i) \subseteq upTo(j) /\ j \in upTo(j) /\ j \notin upTo(i)
    BY <1>2, <1>4
  <2>2. IsFiniteSet(upTo(j))
    BY <1>3
  <2> HIDE DEF upTo
  <2>3. QED BY <2>1, <2>2, FS_Subset
<1>5. rank \in Injection(places, 1..many)
  <2>1. rank \in [places -> 1..many] /\ \A i \in places : rank[i] = Cardinality(upTo(i))
    BY <1>3
  <2>2. \A i, j \in places : i # j => i < j \/ j < i
    BY <1>2
  <2> HIDE DEF rank, upTo
  <2>3. \A i, j \in places : rank[i] = rank[j] => i = j
    BY <1>4, <2>1, <2>2
  <2>4. QED BY <2>1, <2>3 DEF Injection, IsInjective
<1>6. rank \in Surjection(places, 1..many)
  <2>1. IsFiniteSet(1..many) /\ Cardinality(1..many) = many
    BY <1>1, FS_Interval
  <2> HIDE DEF rank
  <2>2. QED BY <1>5, <2>1, FS_Injection
<1>7. \A t : C!Cardinality(t) = Cardinality(t)
  BY DEF C!Cardinality, Cardinality
<1>8. \A n \in 1..many : \E i \in places : C!Cardinality(upTo(i)) = n
  BY <1>6, <1>7 DEF Surjection
<1> DEFINE nth(n) == CHOOSE i \in places : C!Cardinality(upTo(i)) = n
<1>9. \A n \in 1..many : nth(n) \in places
  BY <1>8
<1>10. C!Others(fields) = [n \in 1..many |-> fields[nth(n)]]
  <2>1. C!Others(fields) = [n \in 1..C!Cardinality(places) |-> fields[nth(n)]]
    BY DEF C!Others, places
  <2>2. QED BY <1>7, <2>1
<1> HIDE DEF nth, rank
<1>11. \A n \in 1..many : fields[nth(n)] \in {f \in Fields : f.key \notin {"p", "r"}}
  BY <1>2, <1>9
<1>12. QED BY <1>1, <1>10, <1>11

OtherFields == {f \in Fields : f.key \notin {"p", "r"}}
Counts == 0..PZero + 1

LEMMA ValueAt ==
    ASSUME NEW fields \in Seq(Fields), NEW key, NEW i \in DOMAIN fields, fields[i].key = key,
           \A j \in DOMAIN fields : fields[j].key = key => j = i
    PROVE  C!LastValue(fields, key) = fields[i].value
<1> DEFINE places == {j \in DOMAIN fields : fields[j].key = key}
<1>1. places = {i}
  OBVIOUS
<1>2. i \in Nat
  OBVIOUS
<1>3. C!Max({i}) = i
  <2>1. \E x \in {i} : \A y \in {i} : x >= y
    BY <1>2
  <2>2. C!Max({i}) \in {i}
    BY <2>1 DEF C!Max
  <2>3. QED BY <2>2
<1>4. C!LastValue(fields, key) = IF places = {} THEN C!Blank ELSE fields[C!Max(places)].value
  BY DEF C!LastValue
<1> HIDE DEF places
<1>5. QED BY <1>1, <1>3, <1>4

LEMMA ValueNowhere ==
    ASSUME NEW fields, NEW key, \A j \in DOMAIN fields : fields[j].key # key
    PROVE  C!LastValue(fields, key) = C!Blank
<1>1. {j \in DOMAIN fields : fields[j].key = key} = {}
  OBVIOUS
<1>2. QED BY <1>1 DEF C!LastValue

LEMMA ValueIsInt ==
    ASSUME NEW fields \in Seq(Fields), NEW key
    PROVE  C!LastValue(fields, key) \in Int
<1> DEFINE places == {j \in DOMAIN fields : fields[j].key = key}
<1>1. CASE places = {}
  BY <1>1 DEF C!LastValue, C!Blank
<1>2. CASE places # {}
  <2>1. places \subseteq 1..Len(fields) /\ Len(fields) \in Nat
    OBVIOUS
  <2>2. C!LastValue(fields, key) = fields[C!Max(places)].value
    BY <1>2 DEF C!LastValue
  <2> HIDE DEF places
  <2>3. C!Max(places) \in 1..Len(fields)
    BY <1>2, <2>1, GreatestPlace
  <2>4. fields[C!Max(places)] \in Fields
    BY <2>3
  <2>5. QED BY <2>2, <2>4 DEF Fields
<1>3. QED BY <1>1, <1>2

LEMMA Beside ==
    ASSUME NEW F, NEW f \in F, NEW g \in F
    PROVE  <<f>> \o <<g>> = <<f, g>>
<1>1. <<f>> \in Seq(F) /\ <<g>> \in Seq(F) /\ <<f, g>> \in Seq(F)
  OBVIOUS
<1>2. Len(<<f>> \o <<g>>) = 2 /\ <<f>> \o <<g>> \in Seq(F) /\ Len(<<f, g>>) = 2
  BY <1>1
<1>3. \A i \in 1..2 : (<<f>> \o <<g>>)[i] = <<f, g>>[i]
  BY <1>1
<1>4. QED BY <1>1, <1>2, <1>3, SeqEqual

\* What Serialize writes first, and what it cuts.
LEMMA KnownFirst ==
    ASSUME NEW p \in Counts, NEW r \in Counts
    PROVE  LET head == C!Known("p", p, PZero) \o C!Known("r", r, PZero - 1)
           IN  /\ head \in Seq(Fields) /\ Len(head) <= 2
               /\ C!LastValue(head, "p") = IF p <= PZero THEN p ELSE C!Blank
               /\ C!LastValue(head, "r") = IF r <= PZero - 1 THEN r ELSE C!Blank
<1> DEFINE f == [key |-> "p", value |-> p]
           g == [key |-> "r", value |-> r]
           head == C!Known("p", p, PZero) \o C!Known("r", r, PZero - 1)
<1>1. f \in Fields /\ g \in Fields /\ f.key = "p" /\ g.key = "r" /\ f.value = p /\ g.value = r
  <2>1. p \in Int /\ r \in Int
    BY SamplerAssumption DEF Counts
  <2>2. "p" \in Keys /\ "r" \in Keys
    BY DEF Keys
  <2>3. QED BY <2>1, <2>2 DEF Fields
<1>2. /\ C!Known("p", p, PZero) = IF p <= PZero THEN <<f>> ELSE <<>>
      /\ C!Known("r", r, PZero - 1) = IF r <= PZero - 1 THEN <<g>> ELSE <<>>
  BY DEF C!Known, C!Has, C!Field
<1> DEFINE kp == C!Known("p", p, PZero)
           kr == C!Known("r", r, PZero - 1)
<1>3. kp = (IF p <= PZero THEN <<f>> ELSE <<>>) /\ kr = (IF r <= PZero - 1 THEN <<g>> ELSE <<>>)
  BY <1>2
<1>4. head = kp \o kr
  OBVIOUS
<1> HIDE DEF f, g, kp, kr, head
<1>5. CASE p <= PZero /\ r <= PZero - 1
  <2>1. head = <<f, g>>
    BY <1>1, <1>3, <1>4, <1>5, Beside
  <2>2. head \in Seq(Fields) /\ Len(head) = 2 /\ DOMAIN head = 1..2 /\ head[1] = f /\ head[2] = g
    BY <1>1, <2>1
  <2>3. 1 \in DOMAIN head /\ 2 \in DOMAIN head /\ \A j \in DOMAIN head : j = 1 \/ j = 2
    BY <2>2
  <2>4. C!LastValue(head, "p") = head[1].value
    BY <1>1, <2>2, <2>3, ValueAt
  <2>5. C!LastValue(head, "r") = head[2].value
    BY <1>1, <2>2, <2>3, ValueAt
  <2>6. QED BY <1>1, <1>5, <2>2, <2>4, <2>5 DEF head
<1>6. CASE p <= PZero /\ ~(r <= PZero - 1)
  <2>1. head = <<f>>
    BY <1>1, <1>3, <1>4, <1>6
  <2>2. head \in Seq(Fields) /\ Len(head) = 1 /\ DOMAIN head = 1..1 /\ head[1] = f
    BY <1>1, <2>1
  <2>3. 1 \in DOMAIN head /\ \A j \in DOMAIN head : j = 1
    BY <2>2
  <2>4. C!LastValue(head, "p") = head[1].value
    BY <1>1, <2>2, <2>3, ValueAt
  <2>5. C!LastValue(head, "r") = C!Blank
    BY <1>1, <2>2, <2>3, ValueNowhere
  <2>6. QED BY <1>1, <1>6, <2>2, <2>4, <2>5 DEF head
<1>7. CASE ~(p <= PZero) /\ r <= PZero - 1
  <2>1. head = <<g>>
    BY <1>1, <1>3, <1>4, <1>7
  <2>2. head \in Seq(Fields) /\ Len(head) = 1 /\ DOMAIN head = 1..1 /\ head[1] = g
    BY <1>1, <2>1
  <2>3. 1 \in DOMAIN head /\ \A j \in DOMAIN head : j = 1
    BY <2>2
  <2>4. C!LastValue(head, "r") = head[1].value
    BY <1>1, <2>2, <2>3, ValueAt
  <2>5. C!LastValue(head, "p") = C!Blank
    BY <1>1, <2>2, <2>3, ValueNowhere
  <2>6. QED BY <1>1, <1>7, <2>2, <2>4, <2>5 DEF head
<1>8. CASE ~(p <= PZero) /\ ~(r <= PZero - 1)
  <2>1. head = <<>>
    BY <1>1, <1>3, <1>4, <1>8
  <2>2. head \in Seq(Fields) /\ Len(head) = 0 /\ DOMAIN head = {}
    BY <2>1
  <2>3. C!LastValue(head, "p") = C!Blank /\ C!LastValue(head, "r") = C!Blank
    BY <2>2, ValueNowhere
  <2>4. QED BY <1>8, <2>2, <2>3 DEF head
<1>9. QED BY <1>5, <1>6, <1>7, <1>8

LEMMA LesserOf ==
    ASSUME NEW a \in Int, NEW b \in Int
    PROVE  C!Min({a, b}) = IF a <= b THEN a ELSE b
<1>1. \E x \in {a, b} : \A y \in {a, b} : x =< y
  <2>1. CASE a <= b
    BY <2>1
  <2>2. CASE ~(a <= b)
    BY <2>2
  <2>3. QED BY <2>1, <2>2
<1>2. C!Min({a, b}) \in {a, b} /\ \A y \in {a, b} : C!Min({a, b}) =< y
  BY <1>1 DEF C!Min
<1>3. PICK m \in {a, b} : m = C!Min({a, b})
  BY <1>2
<1>4. m <= a /\ m <= b
  BY <1>2, <1>3
<1>5. QED BY <1>3, <1>4

LEMMA SerializedIs ==
    ASSUME NEW o, o.p \in Counts, o.r \in Counts, o.unknown \in Seq(OtherFields)
    PROVE  LET w == C!Serialize(o)
           IN  /\ w \in Seq(Fields) /\ Len(w) <= SizeLimit
               /\ C!LastValue(w, "p") = IF o.p <= PZero THEN o.p ELSE C!Blank
               /\ C!LastValue(w, "r") = IF o.r <= PZero - 1 THEN o.r ELSE C!Blank
<1> DEFINE head == C!Known("p", o.p, PZero) \o C!Known("r", o.r, PZero - 1)
           all == head \o o.unknown
           room == C!Min({Len(all), SizeLimit})
           w == C!Serialize(o)
<1>1. /\ head \in Seq(Fields) /\ Len(head) <= 2
      /\ C!LastValue(head, "p") = IF o.p <= PZero THEN o.p ELSE C!Blank
      /\ C!LastValue(head, "r") = IF o.r <= PZero - 1 THEN o.r ELSE C!Blank
  BY KnownFirst
<1>2. w = SubSeq(all, 1, room)
  BY DEF C!Serialize
<1> DEFINE rest == o.unknown
<1>3. rest \in Seq(Fields) /\ \A i \in 1..Len(rest) : rest[i].key \notin {"p", "r"}
  <2>1. OtherFields \subseteq Fields
    BY DEF OtherFields
  <2>2. \A i \in 1..Len(rest) : rest[i] \in OtherFields
    OBVIOUS
  <2>3. rest \in Seq(Fields)
    BY <2>1, SeqMonotonic
  <2>4. QED BY <2>2, <2>3 DEF OtherFields
<1> HIDE DEF head, rest, w, room
<1>4. all \in Seq(Fields) /\ Len(all) = Len(head) + Len(rest)
      /\ \A i \in 1..Len(all) : all[i] = IF i <= Len(head) THEN head[i] ELSE rest[i - Len(head)]
  BY <1>1, <1>3, ConcatProperties DEF rest
<1> HIDE DEF all
<1>5. /\ Len(head) \in Nat /\ Len(rest) \in Nat /\ Len(all) \in Nat /\ room \in Nat
      /\ Len(head) <= room /\ room <= Len(all) /\ room <= SizeLimit
  <2>1. SizeLimit \in Nat /\ SizeLimit >= 2
    BY SamplerAssumption
  <2>2. Len(head) \in Nat /\ Len(rest) \in Nat /\ Len(all) \in Nat
    BY <1>1, <1>3, <1>4
  <2>3. room = IF Len(all) <= SizeLimit THEN Len(all) ELSE SizeLimit
    BY <2>1, <2>2, LesserOf DEF room
  <2>4. QED BY <1>1, <1>4, <2>1, <2>2, <2>3
<1>6. w \in Seq(Fields) /\ Len(w) = room /\ \A i \in 1..room : w[i] = all[i]
  <2>1. \A i \in 1..room : all[i] \in Fields
    BY <1>4, <1>5
  <2>2. QED BY <1>2, <1>4, <1>5, <2>1
<1>7. ASSUME NEW key \in {"p", "r"} PROVE C!LastValue(w, key) = C!LastValue(head, key)
  <2>1. DOMAIN w = 1..room /\ DOMAIN head = 1..Len(head)
    BY <1>1, <1>6
  <2>2. \A i \in 1..Len(head) : i \in 1..room /\ w[i] = head[i]
    BY <1>4, <1>5, <1>6
  <2>3. \A i \in 1..room : i \in 1..Len(head) \/ w[i].key \notin {"p", "r"}
    <3> SUFFICES ASSUME NEW i \in 1..room, i \notin 1..Len(head) PROVE w[i].key \notin {"p", "r"}
      OBVIOUS
    <3>1. ~(i <= Len(head)) /\ i - Len(head) \in 1..Len(rest) /\ i \in 1..Len(all)
      BY <1>4, <1>5
    <3>2. w[i] = rest[i - Len(head)]
      BY <1>4, <1>6, <3>1
    <3>3. QED BY <1>3, <3>1, <3>2
  <2>4. {i \in DOMAIN w : w[i].key = key} = {i \in DOMAIN head : head[i].key = key}
    BY <2>1, <2>2, <2>3
  <2> DEFINE places == {i \in DOMAIN head : head[i].key = key}
  <2>5. C!LastValue(w, key) = IF places = {} THEN C!Blank ELSE w[C!Max(places)].value
    BY <2>4, Zenon DEF C!LastValue
  <2>6. C!LastValue(head, key) = IF places = {} THEN C!Blank ELSE head[C!Max(places)].value
    BY Zenon DEF C!LastValue
  <2>7. CASE places = {}
    BY <2>5, <2>6, <2>7
  <2>8. CASE places # {}
    <3>1. places \subseteq 1..Len(head)
      BY <2>1
    <3> HIDE DEF places
    <3>2. C!Max(places) \in 1..Len(head)
      BY <1>5, <2>8, <3>1, GreatestPlace
    <3>3. QED BY <2>2, <2>5, <2>6, <3>2
  <2>9. QED BY <2>7, <2>8
<1>8. Len(w) <= SizeLimit
  BY <1>5, <1>6
<1>9. QED BY <1>1, <1>6, <1>7, <1>8 DEF w

Entries == Seq(Fields) \cup {Malformed}

ReadableEntry(entry) == entry # <<>> /\ entry # Malformed /\ ~(Len(entry) > SizeLimit)

Unfit(entry, flag) ==
    LET r == C!LastValue(entry, "r")
        p == C!LastValue(entry, "p")
    IN  /\ C!Has(C!Number(r, PZero - 1), PZero - 1) /\ C!Has(C!Number(p, PZero), PZero)
        /\ ~(flag /\ (p <= r \/ p = PZero))

LEMMA ParseIs ==
    ASSUME NEW entry, NEW flag
    PROVE  LET read == C!Parse(entry, flag)
               r == C!LastValue(entry, "r")
               p == C!LastValue(entry, "p")
           IN  /\ ~ReadableEntry(entry) =>
                      /\ read.p = C!Invalid /\ read.r = C!Invalid /\ read.unknown = <<>>
                      /\ read.err = (entry # <<>>)
               /\ ReadableEntry(entry) =>
                      /\ read.unknown = C!Others(entry)
                      /\ read.err = (C!IsError(r, PZero - 1) \/ C!IsError(p, PZero) \/ Unfit(entry, flag))
                      /\ read.r = IF C!IsError(r, PZero - 1) THEN C!Invalid ELSE C!Number(r, PZero - 1)
                      /\ read.p = IF read.err THEN C!Invalid ELSE C!Number(p, PZero)
<1> DEFINE read == C!Parse(entry, flag)
           r == C!LastValue(entry, "r")
           p == C!LastValue(entry, "p")
           numR == C!Number(r, PZero - 1)
           numP == C!Number(p, PZero)
           others == C!Others(entry)
           none == C!Unread(FALSE)
           bad == C!Unread(TRUE)
           rest == [bad EXCEPT !.unknown = others]
           withR == [rest EXCEPT !.r = numR]
           whole == [withR EXCEPT !.p = numP, !.err = FALSE]
           badR == C!IsError(r, PZero - 1)
           badP == C!IsError(p, PZero)
           bothRead == C!Has(withR.r, PZero - 1) /\ C!Has(numP, PZero)
           implied == p <= r \/ p = PZero
           unfit == bothRead /\ ~(flag /\ implied)
           readable == ReadableEntry(entry)
<1>1. read = IF entry = <<>> THEN none
             ELSE IF entry = Malformed \/ Len(entry) > SizeLimit THEN bad
             ELSE IF badR THEN rest
             ELSE IF badP \/ unfit THEN withR
             ELSE whole
  BY Zenon DEF C!Parse
<1>2. /\ none = [p |-> C!Invalid, r |-> C!Invalid, unknown |-> <<>>, err |-> FALSE]
      /\ bad = [p |-> C!Invalid, r |-> C!Invalid, unknown |-> <<>>, err |-> TRUE]
  BY DEF C!Unread
<1>3. /\ rest.p = C!Invalid /\ rest.r = C!Invalid /\ rest.unknown = others /\ rest.err = TRUE
      /\ withR.p = C!Invalid /\ withR.r = numR /\ withR.unknown = others /\ withR.err = TRUE
      /\ whole.p = numP /\ whole.r = numR /\ whole.unknown = others /\ whole.err = FALSE
  <2> HIDE DEF numR, numP, others
  <2>1. QED BY DEF C!Unread
<1>4. unfit = Unfit(entry, flag)
  <2>1. unfit = (C!Has(numR, PZero - 1) /\ C!Has(numP, PZero) /\ ~(flag /\ implied))
    <3> HIDE DEF numR, numP, implied, withR
    <3>1. QED BY <1>3
  <2>2. QED BY <2>1, Zenon DEF Unfit
<1> HIDE DEF none, bad, numR, numP, others, badR, badP, unfit, r, p, rest, withR, whole, bothRead
<1>5. badR \in BOOLEAN /\ badP \in BOOLEAN /\ unfit \in BOOLEAN
  BY DEF badR, badP, unfit, C!IsError
<1> HIDE DEF read
<1>6. ASSUME ~readable
      PROVE  /\ read.p = C!Invalid /\ read.r = C!Invalid /\ read.unknown = <<>>
             /\ read.err = (entry # <<>>)
  <2>1. read = (IF entry = <<>> THEN none ELSE bad)
    BY <1>1, <1>6 DEF ReadableEntry
  <2>2. QED BY <1>2, <2>1
<1>7. ASSUME readable
      PROVE  /\ read.unknown = others /\ read.err = (badR \/ badP \/ unfit)
             /\ read.r = (IF badR THEN C!Invalid ELSE numR)
             /\ read.p = (IF read.err THEN C!Invalid ELSE numP)
  <2>1. entry # <<>> /\ ~(entry = Malformed \/ Len(entry) > SizeLimit)
    BY <1>7 DEF ReadableEntry
  <2>2. CASE badR
    BY <1>1, <1>3, <1>5, <2>1, <2>2
  <2>3. CASE ~badR /\ (badP \/ unfit)
    BY <1>1, <1>3, <1>5, <2>1, <2>3
  <2>4. CASE ~badR /\ ~(badP \/ unfit)
    BY <1>1, <1>3, <1>5, <2>1, <2>4
  <2>5. QED BY <2>2, <2>3, <2>4
<1>8. QED BY <1>4, <1>6, <1>7, Zenon DEF read, numR, numP, others, badR, badP, unfit, r, p

\* What is read is a record of the four.
LEMMA ReadUpdated ==
    ASSUME NEW entry, NEW flag, NEW x, NEW y
    PROVE  LET read == C!Parse(entry, flag)
               o == [read EXCEPT !.r = x, !.p = y]
           IN  o.r = x /\ o.p = y /\ o.unknown = read.unknown
<1> DEFINE read == C!Parse(entry, flag)
           o == [read EXCEPT !.r = x, !.p = y]
           numR == C!Number(C!LastValue(entry, "r"), PZero - 1)
           numP == C!Number(C!LastValue(entry, "p"), PZero)
           others == C!Others(entry)
           none == C!Unread(FALSE)
           bad == C!Unread(TRUE)
           rest == [bad EXCEPT !.unknown = others]
           withR == [rest EXCEPT !.r = numR]
           whole == [withR EXCEPT !.p = numP, !.err = FALSE]
<1>1. read \in {none, bad, rest, withR, whole}
  BY Zenon DEF C!Parse
<1> HIDE DEF numR, numP, others, read
<1>2. ASSUME NEW k \in {none, bad, rest, withR, whole}
      PROVE  /\ [k EXCEPT !.r = x, !.p = y].r = x /\ [k EXCEPT !.r = x, !.p = y].p = y
             /\ [k EXCEPT !.r = x, !.p = y].unknown = k.unknown
  BY DEF C!Unread
<1>3. o.r = x /\ o.p = y /\ o.unknown = read.unknown
  BY <1>1, <1>2
<1>4. QED BY <1>3 DEF read

\* Whatever it reads; with an error it reads no p.
LEMMA ReadIs ==
    ASSUME NEW entry \in Entries, NEW flag
    PROVE  LET read == C!Parse(entry, flag)
           IN  /\ read.p \in Counts /\ read.r \in Counts /\ read.unknown \in Seq(OtherFields)
               /\ read.err \in BOOLEAN /\ (read.err => read.p = PZero + 1)
<1> DEFINE r == C!LastValue(entry, "r")
           p == C!LastValue(entry, "p")
           read == C!Parse(entry, flag)
           numR == C!Number(r, PZero - 1)
           numP == C!Number(p, PZero)
<1>1. C!Invalid = PZero + 1 /\ C!Invalid \in Counts
  BY SamplerAssumption DEF C!Invalid, Counts
<1>2. numR \in Counts /\ numP \in Counts
  BY SamplerAssumption DEF C!Number, Counts
<1>3. CASE ~ReadableEntry(entry)
  <2>1. read.p = C!Invalid /\ read.r = C!Invalid /\ read.unknown = <<>> /\ read.err = (entry # <<>>)
    BY <1>3, ParseIs
  <2>2. <<>> \in Seq(OtherFields)
    OBVIOUS
  <2> HIDE DEF read
  <2>3. QED BY <1>1, <2>1, <2>2 DEF read
<1>4. CASE ReadableEntry(entry)
  <2>1. /\ read.unknown = C!Others(entry) /\ read.err \in BOOLEAN
        /\ read.r = (IF C!IsError(r, PZero - 1) THEN C!Invalid ELSE numR)
        /\ read.p = IF read.err THEN C!Invalid ELSE numP
    BY <1>4, ParseIs
  <2>2. C!Others(entry) \in Seq(OtherFields)
    <3>1. entry \in Seq(Fields)
      BY <1>4 DEF Entries, ReadableEntry
    <3>2. QED BY <3>1, OthersAre DEF OtherFields
  <2> HIDE DEF read, numR, numP, r, p
  <2>3. QED BY <1>1, <1>2, <2>1, <2>2 DEF read
<1>5. QED BY <1>3, <1>4

LEMMA NothingIn ==
    ASSUME NEW key
    PROVE  C!LastValue(<<>>, key) = C!Blank
<1>1. DOMAIN <<>> = {}
  OBVIOUS
<1>2. QED BY <1>1, ValueNowhere

\* What fits is read without an error.
LEMMA ReadBack ==
    ASSUME NEW w \in Seq(Fields), Len(w) <= SizeLimit, NEW flag \in BOOLEAN,
           NEW r, r = C!LastValue(w, "r"), r \in (0..PZero - 1) \cup {C!Blank},
           NEW p, p = C!LastValue(w, "p"), p \in (0..PZero) \cup {C!Blank},
           r # C!Blank /\ p # C!Blank => flag /\ (p <= r \/ p = PZero)
    PROVE  LET read == C!Parse(w, flag)
           IN  /\ ~read.err
               /\ r # C!Blank => read.r = r
               /\ r = C!Blank => read.r > PZero - 1
               /\ read.p = IF p = C!Blank THEN PZero + 1 ELSE p
<1> DEFINE read == C!Parse(w, flag)
           numR == C!Number(r, PZero - 1)
           numP == C!Number(p, PZero)
<1>1. PZero \in Nat /\ PZero >= 1 /\ C!Invalid = PZero + 1 /\ C!Blank = -2
  BY SamplerAssumption DEF C!Invalid, C!Blank
<1>2. CASE w = <<>>
  <2>1. ~ReadableEntry(w)
    BY <1>2 DEF ReadableEntry
  <2>2. read.err = (w # <<>>) /\ read.r = C!Invalid /\ read.p = C!Invalid
    BY <2>1, ParseIs
  <2>3. r = C!Blank /\ p = C!Blank
    BY <1>2, NothingIn
  <2> HIDE DEF read
  <2>4. read.r > PZero - 1 /\ read.p = PZero + 1
    BY <1>1, <2>2
  <2>5. ~read.err
    BY <1>2, <2>2, Zenon
  <2>6. QED BY <2>3, <2>4, <2>5, Zenon DEF read
<1>3. CASE w # <<>>
  <2>1. ReadableEntry(w)
    <3>1. w # Malformed
      BY SamplerAssumption
    <3>2. ~(Len(w) > SizeLimit)
      <4>1. Len(w) \in Nat /\ SizeLimit \in Nat
        BY SamplerAssumption
      <4>2. QED BY <4>1
    <3>3. QED BY <1>3, <3>1, <3>2 DEF ReadableEntry
  <2>2. ~C!IsError(r, PZero - 1) /\ ~C!IsError(p, PZero)
    BY DEF C!IsError
  <2>3. numR = (IF r = C!Blank THEN PZero ELSE r) /\ numP = (IF p = C!Blank THEN PZero + 1 ELSE p)
    BY <1>1 DEF C!Number
  <2> HIDE DEF numR, numP
  <2>4. ~Unfit(w, flag)
    <3>1. numR <= PZero - 1 => r # C!Blank
      BY <1>1, <2>3
    <3>2. numP <= PZero => p # C!Blank
      BY <1>1, <2>3
    <3>3. numR <= PZero - 1 /\ numP <= PZero => flag /\ (p <= r \/ p = PZero)
      BY <3>1, <3>2, Zenon
    <3>4. Unfit(w, flag) = (numR <= PZero - 1 /\ numP <= PZero /\ ~(flag /\ (p <= r \/ p = PZero)))
      BY Zenon DEF Unfit, numR, numP, C!Has
    <3>5. QED BY <3>3, <3>4, Zenon
  <2>5. /\ read.err = (C!IsError(r, PZero - 1) \/ C!IsError(p, PZero) \/ Unfit(w, flag))
        /\ read.r = (IF C!IsError(r, PZero - 1) THEN C!Invalid ELSE numR)
        /\ read.p = (IF read.err THEN C!Invalid ELSE numP)
    BY <2>1, ParseIs DEF numR, numP
  <2> HIDE DEF read
  <2>6. ~read.err /\ read.r = numR /\ read.p = numP
    BY <2>2, <2>4, <2>5, Zenon
  <2>7. r # C!Blank => read.r = r
    BY <2>3, <2>6
  <2>8. r = C!Blank => read.r > PZero - 1
    BY <1>1, <2>3, <2>6
  <2>9. QED BY <2>3, <2>6, <2>7, <2>8 DEF read
<1>4. QED BY <1>2, <1>3

\* What was read without an error fits.
LEMMA ReadFits ==
    ASSUME NEW entry \in Entries, NEW flag \in BOOLEAN, ~C!Parse(entry, flag).err,
           {C!LastValue(entry, "p"), C!LastValue(entry, "r")} \subseteq 0..PZero
    PROVE  flag /\ C!LastValue(entry, "p") \in 0..C!LastValue(entry, "r") \cup {PZero}
<1> DEFINE r == C!LastValue(entry, "r")
           p == C!LastValue(entry, "p")
           numR == C!Number(r, PZero - 1)
           numP == C!Number(p, PZero)
           read == C!Parse(entry, flag)
<1>1. PZero \in Nat /\ PZero >= 1 /\ C!Blank = -2
  BY SamplerAssumption DEF C!Blank
<1>2. entry # <<>>
  <2>1. SUFFICES ASSUME entry = <<>> PROVE FALSE
    OBVIOUS
  <2>2. r = -2
    BY <1>1, <2>1, NothingIn
  <2>3. QED BY <2>2
<1>3. ReadableEntry(entry)
  <2>1. ~ReadableEntry(entry) => read.err = (entry # <<>>)
    BY ParseIs
  <2>2. QED BY <1>2, <2>1, Zenon
<1>4. read.err = (C!IsError(r, PZero - 1) \/ C!IsError(p, PZero) \/ Unfit(entry, flag))
  BY <1>3, ParseIs
<1>5. ~read.err
  BY Zenon
<1>6. p \in 0..PZero /\ r \in 0..PZero
  OBVIOUS
<1>7. Unfit(entry, flag) = (numR <= PZero - 1 /\ numP <= PZero /\ ~(flag /\ (p <= r \/ p = PZero)))
  BY Zenon DEF Unfit, C!Has
<1> HIDE DEF r, p, numR, numP, read
<1>8. ~C!IsError(r, PZero - 1) /\ ~Unfit(entry, flag)
  BY <1>4, <1>5, Zenon
<1>9. r \in 0..PZero - 1
  BY <1>1, <1>6, <1>8 DEF C!IsError
<1>10. numR = r /\ numP = p
  BY <1>6, <1>9 DEF C!Number, numR, numP
<1>11. numR <= PZero - 1 /\ numP <= PZero
  BY <1>1, <1>6, <1>9, <1>10
<1>12. flag /\ (p <= r \/ p = PZero)
  BY <1>7, <1>8, <1>11, Zenon
<1>13. p \in 0..r \cup {PZero}
  BY <1>1, <1>6, <1>9, <1>12
<1>14. QED BY <1>12, <1>13 DEF r, p

-----------------------------------------------------------------------------
(* The samplers of a trace.                                                *)

Decisions == [fraction : 0..2^Depth, lac : Nat, r : 0..PZero, sampled : BOOLEAN]
Read == C!Parse(ts, sampled)

(***************************************************************************)
(* What makes the properties inductive: every decision was by the r that   *)
(* the entry carries, which is the one the trace came with if that was     *)
(* valid, and what the last sampler wrote is read as it was meant.         *)
(***************************************************************************)
SamplerInv ==
    /\ ts \in Entries /\ sampled \in BOOLEAN /\ spanCount \in Nat /\ cameWith \in Counts
    /\ decisions \in Seq(Decisions)
    /\ \A i \in DOMAIN decisions : decisions[i].sampled = (decisions[i].lac <= decisions[i].r)
    /\ decisions # <<>> => spanCount > 0
    /\ cameWith <= PZero - 1 =>
           Read.r = cameWith /\ \A i \in DOMAIN decisions : decisions[i].r = cameWith
    /\ ~C!ZeroDrawn => \A i \in DOMAIN decisions : decisions[i].r = Read.r
    /\ spanCount > 0 /\ ~C!ZeroDrawn => ~Read.err
    /\ decisions # <<>> /\ ~C!ZeroDrawn =>
           /\ sampled = decisions[Len(decisions)].sampled
           /\ Read.p = IF sampled THEN decisions[Len(decisions)].lac ELSE PZero + 1

LEMMA GreaterOf ==
    ASSUME NEW a \in Int, NEW b \in Int
    PROVE  C!Max({a, b}) = IF a >= b THEN a ELSE b
<1>1. \E x \in {a, b} : \A y \in {a, b} : x >= y
  <2>1. CASE a >= b
    BY <2>1
  <2>2. CASE ~(a >= b)
    BY <2>2
  <2>3. QED BY <2>1, <2>2
<1>2. C!Max({a, b}) \in {a, b} /\ \A y \in {a, b} : C!Max({a, b}) >= y
  BY <1>1 DEF C!Max
<1>3. PICK m \in {a, b} : m = C!Max({a, b})
  BY <1>2
<1>4. m >= a /\ m >= b
  BY <1>2, <1>3
<1>5. QED BY <1>3, <1>4

LEMMA ClampIs ==
    ASSUME NEW fraction \in Int
    PROVE  C!Clamp(fraction) \in 0..2^Depth
<1> DEFINE most == 2^Depth
           lesser == C!Min({fraction, most})
<1>1. most \in Nat
  BY SamplerAssumption, PowerIsNat
<1>2. C!Clamp(fraction) = C!Max({0, lesser})
  BY DEF C!Clamp
<1> HIDE DEF most
<1>3. lesser \in Int /\ lesser <= most
  BY <1>1, LesserOf
<1> HIDE DEF lesser
<1>4. C!Max({0, lesser}) = IF 0 >= lesser THEN 0 ELSE lesser
  BY <1>3, GreaterOf
<1>5. C!Clamp(fraction) \in 0..most
  BY <1>1, <1>2, <1>3, <1>4
<1>6. QED BY <1>5 DEF most

LEMMA CountsAre ==
    ASSUME NEW n \in 0..2^Depth, NEW lac \in C!LacChoices(n)
    PROVE  lac \in Nat
<1> DEFINE s == C!Split(n)
           most == 2^Depth
<1>1. most \in Nat /\ PZero \in Nat /\ Depth \in Nat
  BY SamplerAssumption, PowerIsNat
<1>2. lac = s.low \/ (s.lowParts # s.parts /\ lac = s.high)
  BY DEF C!LacChoices
<1>3. CASE n = 0
  <2>1. s.low = PZero /\ s.high = PZero
    BY <1>3 DEF C!Split
  <2> HIDE DEF s
  <2>2. QED BY <1>1, <1>2, <2>1
<1>4. CASE n # 0
  <2>1. n \in 1..2^Depth
    <3>1. n \in 0..most
      OBVIOUS
    <3> HIDE DEF most
    <3>2. n \in 1..most
      BY <1>1, <1>4, <3>1
    <3>3. QED BY <3>2 DEF most
  <2>2. s.low \in 0..Depth /\ (s.lowParts # s.parts => s.low >= 1 /\ s.high = s.low - 1)
    BY <2>1, SplitIs
  <2> HIDE DEF s
  <2>3. QED BY <1>1, <1>2, <2>2
<1>5. QED BY <1>3, <1>4

LEMMA RsAre ==
    ASSUME NEW read, read.r \in Counts, NEW r \in C!Rs(read)
    PROVE  r \in 0..PZero /\ (read.r <= PZero - 1 => r = read.r)
<1>1. PZero \in Nat
  BY SamplerAssumption
<1>2. CASE read.r <= PZero - 1
  <2>1. r = read.r
    BY <1>2 DEF C!Rs, C!Has
  <2>2. QED BY <1>1, <1>2, <2>1 DEF Counts
<1>3. CASE ~(read.r <= PZero - 1)
  <2>1. PICK draw \in C!Draws : r = C!NewR(draw)
    BY <1>3 DEF C!Rs, C!Has
  <2>2. QED BY <1>3, <2>1, LeadingZeros
<1>4. QED BY <1>2, <1>3

\* What a sampler writes is read as it was meant.
LEMMA WrittenIs ==
    ASSUME NEW o, o.p \in Counts, o.r \in Counts, o.unknown \in Seq(OtherFields), NEW flag \in BOOLEAN,
           o.p <= PZero /\ o.r <= PZero - 1 => flag /\ (o.p <= o.r \/ o.p = PZero)
    PROVE  LET w == C!Serialize(o)
               read == C!Parse(w, flag)
           IN  /\ w \in Entries /\ ~read.err
               /\ o.r <= PZero - 1 => w # <<>> /\ read.r = o.r
               /\ o.r > PZero - 1 => read.r > PZero - 1
               /\ read.p = o.p
<1> DEFINE w == C!Serialize(o)
           r == C!LastValue(w, "r")
           p == C!LastValue(w, "p")
           read == C!Parse(w, flag)
<1>1. /\ w \in Seq(Fields) /\ Len(w) <= SizeLimit
      /\ p = IF o.p <= PZero THEN o.p ELSE C!Blank
      /\ r = IF o.r <= PZero - 1 THEN o.r ELSE C!Blank
  BY SerializedIs
<1>2. PZero \in Nat /\ C!Blank = -2
  BY SamplerAssumption DEF C!Blank
<1> HIDE DEF w
<1>3. w = <<>> => r = C!Blank
  BY NothingIn
<1> HIDE DEF r, p
<1>4. /\ r \in (0..PZero - 1) \cup {C!Blank} /\ p \in (0..PZero) \cup {C!Blank}
      /\ (r # C!Blank <=> o.r <= PZero - 1) /\ (p # C!Blank <=> o.p <= PZero)
  BY <1>1, <1>2 DEF Counts
<1>5. r # C!Blank /\ p # C!Blank => flag /\ (p <= r \/ p = PZero)
  BY <1>1, <1>4
<1>6. /\ ~read.err /\ (r # C!Blank => read.r = r) /\ (r = C!Blank => read.r > PZero - 1)
      /\ read.p = IF p = C!Blank THEN PZero + 1 ELSE p
  BY <1>1, <1>4, <1>5, ReadBack DEF r, p
<1> HIDE DEF read
<1>7. read.p = o.p
  BY <1>1, <1>2, <1>4, <1>6 DEF Counts
<1>8. w \in Entries
  BY <1>1 DEF Entries
<1>9. o.r <= PZero - 1 => w # <<>> /\ read.r = o.r
  BY <1>1, <1>3, <1>4, <1>6
<1>10. o.r > PZero - 1 => read.r > PZero - 1
  BY <1>2, <1>4, <1>6 DEF Counts
<1>11. QED BY <1>6, <1>7, <1>8, <1>9, <1>10 DEF w, read

\* The delegate ParentBased repairs what is in error, and keeps the r.
LEMMA RepairedIs ==
    ASSUME ts \in Entries, sampled \in BOOLEAN
    PROVE  LET entry == C!Repaired(ts)
               read == C!Parse(entry, sampled)
           IN  /\ entry \in Entries /\ ~read.err
               /\ Read.r <= PZero - 1 => read.r = Read.r
               /\ ~Read.err => entry = ts
<1> DEFINE entry == C!Repaired(ts)
<1>1. /\ Read.p \in Counts /\ Read.r \in Counts /\ Read.unknown \in Seq(OtherFields)
      /\ Read.err \in BOOLEAN /\ (Read.err => Read.p = PZero + 1)
  BY ReadIs DEF Read
<1>2. entry = IF Read.err THEN C!Serialize(Read) ELSE ts
  BY DEF C!Repaired, Read
<1> HIDE DEF entry
<1>3. CASE Read.err
  <2>1. ~(Read.p <= PZero)
    BY <1>1, <1>3, SamplerAssumption
  <2>2. /\ C!Serialize(Read) \in Entries /\ ~C!Parse(C!Serialize(Read), sampled).err
        /\ Read.r <= PZero - 1 => C!Parse(C!Serialize(Read), sampled).r = Read.r
    BY <1>1, <2>1, WrittenIs
  <2>3. QED BY <1>2, <1>3, <2>2, Zenon DEF entry
<1>4. CASE ~Read.err
  <2>1. entry = ts
    BY <1>2, <1>4
  <2>2. QED BY <1>4, <2>1, Zenon DEF entry, Read
<1>5. QED BY <1>1, <1>3, <1>4

LEMMA SamplerInit == C!Init => SamplerInv
<1> SUFFICES ASSUME C!Init PROVE SamplerInv
  OBVIOUS
<1>1. decisions = <<>> /\ spanCount = 0 /\ sampled \in BOOLEAN /\ ts \in TraceStates /\ cameWith = Read.r
  BY DEF C!Init, Read
<1>2. ts \in Entries
  BY <1>1, SamplerAssumption DEF Entries
<1>3. cameWith \in Counts
  BY <1>1, <1>2, ReadIs DEF Read
<1>4. decisions \in Seq(Decisions) /\ DOMAIN decisions = {}
  BY <1>1
<1>5. QED BY <1>1, <1>2, <1>3, <1>4 DEF SamplerInv

LEMMA DecidedKeeps ==
    ASSUME SamplerInv, NEW entry \in Entries, C!NextSpan,
           Read.r <= PZero - 1 => C!Parse(entry, sampled).r = Read.r,
           NEW n \in 0..2^Depth, NEW lac \in Nat, NEW r \in C!Rs(C!Parse(entry, sampled)),
           C!Decided(entry, n, lac, r)
    PROVE  SamplerInv'
<1> DEFINE read == C!Parse(entry, sampled)
           yes == lac <= r
           o == [read EXCEPT !.r = r, !.p = IF yes THEN lac ELSE C!Invalid]
           written == C!Serialize(o)
           d == [fraction |-> n, lac |-> lac, r |-> r, sampled |-> yes]
<1>1. PZero \in Nat /\ PZero >= 1 /\ C!Invalid = PZero + 1
  BY SamplerAssumption DEF C!Invalid
<1>2. read.p \in Counts /\ read.r \in Counts /\ read.unknown \in Seq(OtherFields)
  BY ReadIs
<1>3. r \in 0..PZero /\ (read.r <= PZero - 1 => r = read.r)
  BY <1>2, RsAre
<1>4. /\ sampled' = yes /\ ts' = (IF written = <<>> THEN entry ELSE written)
      /\ decisions' = Append(decisions, d)
      /\ spanCount' = spanCount + 1 /\ cameWith' = cameWith
  BY DEF C!Decided, C!Samples, C!NextSpan
<1>5. yes \in BOOLEAN /\ (yes => lac <= PZero)
  BY <1>1, <1>3
<1>6. o.r = r /\ o.p = (IF yes THEN lac ELSE PZero + 1) /\ o.unknown = read.unknown
  <2>1. o.r = r /\ o.p = (IF yes THEN lac ELSE C!Invalid) /\ o.unknown = read.unknown
    BY ReadUpdated
  <2> HIDE DEF read, yes, o
  <2>2. QED BY <1>1, <2>1
<1> HIDE DEF o
<1>7. o.p \in Counts /\ o.r \in Counts /\ o.unknown \in Seq(OtherFields)
  BY <1>1, <1>2, <1>3, <1>5, <1>6 DEF Counts
<1>8. o.p <= PZero /\ o.r <= PZero - 1 => yes /\ (o.p <= o.r \/ o.p = PZero)
  BY <1>1, <1>6
<1>9. /\ written \in Entries /\ ~C!Parse(written, yes).err
      /\ r <= PZero - 1 => written # <<>> /\ C!Parse(written, yes).r = r
      /\ C!Parse(written, yes).p = IF yes THEN lac ELSE PZero + 1
  BY <1>5, <1>6, <1>7, <1>8, WrittenIs
<1>10. d \in Decisions /\ d.r = r /\ d.lac = lac /\ d.sampled = yes
  BY <1>3, <1>5 DEF Decisions
<1>11. decisions \in Seq(Decisions) /\ Len(decisions) \in Nat
  BY DEF SamplerInv
<1> HIDE DEF d, yes, written, read
<1>12. /\ decisions' \in Seq(Decisions) /\ Len(decisions') = Len(decisions) + 1 /\ decisions' # <<>>
       /\ DOMAIN decisions = 1..Len(decisions) /\ DOMAIN decisions' = 1..Len(decisions) + 1
       /\ \A i \in DOMAIN decisions : decisions'[i] = decisions[i]
       /\ decisions'[Len(decisions) + 1] = d
  BY <1>4, <1>10, <1>11, AppendProperties
<1>13. \A i \in DOMAIN decisions' : i \in DOMAIN decisions \/ i = Len(decisions')
  BY <1>11, <1>12
<1>14. Len(decisions') \in DOMAIN decisions' /\ decisions'[Len(decisions')] = d
       /\ \A i \in DOMAIN decisions : i \in DOMAIN decisions'
  BY <1>11, <1>12
<1>15. /\ ts' \in Entries /\ sampled' \in BOOLEAN /\ spanCount' \in Nat /\ spanCount' > 0 /\ cameWith' \in Counts
  BY <1>4, <1>5, <1>9 DEF SamplerInv
<1>16. \A i \in DOMAIN decisions' : decisions'[i].sampled = (decisions'[i].lac <= decisions'[i].r)
  <2> SUFFICES ASSUME NEW i \in DOMAIN decisions'
               PROVE  decisions'[i].sampled = (decisions'[i].lac <= decisions'[i].r)
    OBVIOUS
  <2>1. CASE i \in DOMAIN decisions
    BY <1>12, <2>1 DEF SamplerInv
  <2>2. CASE i = Len(decisions')
    BY <1>10, <1>14, <2>2 DEF yes
  <2>3. QED BY <1>13, <2>1, <2>2
\* With an r that the entry can carry.
<1>17. ASSUME r <= PZero - 1
       PROVE  ts' = written /\ Read'.r = r /\ ~Read'.err /\ Read'.p = (IF yes THEN lac ELSE PZero + 1)
  <2>1. ts' = written
    BY <1>4, <1>9, <1>17
  <2>2. Read' = C!Parse(written, yes)
    BY <1>4, <2>1 DEF Read
  <2>3. QED BY <1>9, <1>17, <2>1, <2>2
<1>18. ASSUME cameWith <= PZero - 1
       PROVE  r = cameWith /\ \A i \in DOMAIN decisions : decisions[i].r = cameWith
  <2>1. Read.r = cameWith /\ \A i \in DOMAIN decisions : decisions[i].r = cameWith
    BY <1>18 DEF SamplerInv
  <2>2. read.r = cameWith
    BY <1>18, <2>1 DEF read
  <2>3. QED BY <1>3, <1>18, <2>1, <2>2
<1>19. cameWith' <= PZero - 1 => Read'.r = cameWith' /\ \A i \in DOMAIN decisions' : decisions'[i].r = cameWith'
  <2> SUFFICES ASSUME cameWith <= PZero - 1
               PROVE  Read'.r = cameWith /\ \A i \in DOMAIN decisions' : decisions'[i].r = cameWith
    BY <1>4
  <2>1. r = cameWith /\ Read'.r = cameWith
    BY <1>17, <1>18
  <2>2. \A i \in DOMAIN decisions' : decisions'[i].r = cameWith
    BY <1>10, <1>12, <1>13, <1>14, <1>18, <2>1
  <2>3. QED BY <2>1, <2>2
<1>20. ASSUME ~C!ZeroDrawn'
       PROVE  /\ ~C!ZeroDrawn /\ r <= PZero - 1
              /\ \A i \in DOMAIN decisions : decisions[i].r = r
  <2>1. \A i \in DOMAIN decisions' : decisions'[i].r # PZero
    BY <1>20 DEF C!ZeroDrawn
  <2>2. r # PZero
    BY <1>10, <1>14, <2>1
  <2>3. r <= PZero - 1
    BY <1>1, <1>3, <2>2
  <2>4. \A i \in DOMAIN decisions : decisions[i].r # PZero
    BY <1>12, <1>14, <2>1
  <2>5. ~C!ZeroDrawn
    BY <2>4 DEF C!ZeroDrawn
  <2>6. ASSUME NEW i \in DOMAIN decisions PROVE decisions[i].r = r
    <3>1. decisions[i].r = Read.r
      BY <2>5 DEF SamplerInv
    <3>2. decisions[i].r \in 0..PZero
      <4>1. decisions[i] \in Decisions
        BY <1>11
      <4>2. QED BY <4>1 DEF Decisions
    <3>3. Read.r <= PZero - 1
      <4>1. decisions[i].r # PZero
        BY <2>4
      <4>2. QED BY <1>1, <3>1, <3>2, <4>1
    <3>4. read.r = Read.r
      BY <3>3 DEF read
    <3>5. QED BY <1>3, <3>1, <3>3, <3>4
  <2>7. QED BY <2>3, <2>5, <2>6
<1>21. ~C!ZeroDrawn' => /\ \A i \in DOMAIN decisions' : decisions'[i].r = Read'.r
                        /\ ~Read'.err
                        /\ sampled' = decisions'[Len(decisions')].sampled
                        /\ Read'.p = IF sampled' THEN decisions'[Len(decisions')].lac ELSE PZero + 1
  <2> SUFFICES ASSUME ~C!ZeroDrawn'
               PROVE  /\ \A i \in DOMAIN decisions' : decisions'[i].r = Read'.r
                      /\ ~Read'.err
                      /\ sampled' = decisions'[Len(decisions')].sampled
                      /\ Read'.p = IF sampled' THEN decisions'[Len(decisions')].lac ELSE PZero + 1
    OBVIOUS
  <2>1. Read'.r = r /\ ~Read'.err /\ Read'.p = (IF yes THEN lac ELSE PZero + 1)
    BY <1>17, <1>20
  <2>2. \A i \in DOMAIN decisions' : decisions'[i].r = r
    BY <1>10, <1>12, <1>13, <1>14, <1>20
  <2>3. QED BY <1>4, <1>10, <1>14, <2>1, <2>2
<1>22. QED BY <1>12, <1>15, <1>16, <1>19, <1>21 DEF SamplerInv

LEMMA FollowedKeeps ==
    ASSUME SamplerInv, C!NextSpan, ts' = C!Repaired(ts), UNCHANGED <<sampled, decisions>>
    PROVE  SamplerInv'
<1>1. /\ sampled' = sampled /\ decisions' = decisions /\ cameWith' = cameWith
      /\ spanCount' = spanCount + 1 /\ spanCount \in Nat
  BY DEF C!NextSpan, SamplerInv
<1>2. /\ ts' \in Entries /\ ~Read'.err
      /\ Read.r <= PZero - 1 => Read'.r = Read.r
      /\ ~Read.err => ts' = ts
  BY <1>1, RepairedIs DEF SamplerInv, Read
<1>3. C!ZeroDrawn' <=> C!ZeroDrawn
  BY <1>1 DEF C!ZeroDrawn
<1>4. cameWith <= PZero - 1 => Read'.r = cameWith /\ \A i \in DOMAIN decisions : decisions[i].r = cameWith
  BY <1>2 DEF SamplerInv
<1>5. ASSUME decisions # <<>>, ~C!ZeroDrawn PROVE Read' = Read
  <2>1. ~Read.err
    BY <1>5 DEF SamplerInv
  <2>2. QED BY <1>1, <1>2, <2>1 DEF Read
<1>6. ~C!ZeroDrawn => \A i \in DOMAIN decisions : decisions[i].r = Read'.r
  <2>1. CASE decisions = <<>>
    BY <2>1
  <2>2. CASE decisions # <<>>
    BY <1>5, <2>2 DEF SamplerInv
  <2>3. QED BY <2>1, <2>2
<1>7. decisions # <<>> /\ ~C!ZeroDrawn =>
          /\ sampled = decisions[Len(decisions)].sampled
          /\ Read'.p = IF sampled THEN decisions[Len(decisions)].lac ELSE PZero + 1
  BY <1>5 DEF SamplerInv
<1>8. spanCount' \in Nat /\ spanCount' > 0
  BY <1>1
<1>9. /\ sampled \in BOOLEAN /\ cameWith \in Counts /\ decisions \in Seq(Decisions)
      /\ \A i \in DOMAIN decisions : decisions[i].sampled = (decisions[i].lac <= decisions[i].r)
  BY DEF SamplerInv
<1>10. QED BY <1>1, <1>2, <1>3, <1>4, <1>6, <1>7, <1>8, <1>9 DEF SamplerInv

LEMMA SamplerNext == SamplerInv /\ [C!Next]_(C!samplerVars) => SamplerInv'
<1> SUFFICES ASSUME SamplerInv, [C!Next]_(C!samplerVars) PROVE SamplerInv'
  OBVIOUS
<1>1. ASSUME NEW f \in Fractions, C!ProbabilityBased(f) PROVE SamplerInv'
  <2>1. C!Clamp(f) \in 0..2^Depth
    BY SamplerAssumption, ClampIs
  <2>2. PICK lac \in C!LacChoices(C!Clamp(f)), r \in C!Rs(C!Parse(ts, sampled)) :
            C!NextSpan /\ C!Decided(ts, C!Clamp(f), lac, r)
    BY <1>1 DEF C!ProbabilityBased
  <2>3. lac \in Nat
    BY <2>1, CountsAre
  <2>4. ts \in Entries
    BY DEF SamplerInv
  <2>5. QED BY <2>1, <2>2, <2>3, <2>4, DecidedKeeps DEF Read
<1>2. ASSUME NEW f \in Fractions, C!ParentProbabilityBased(f) PROVE SamplerInv'
  <2>1. CASE hasParent
    BY <1>2, <2>1, FollowedKeeps DEF C!ParentProbabilityBased
  <2>2. CASE ~hasParent
    <3>1. C!Clamp(f) \in 0..2^Depth
      BY SamplerAssumption, ClampIs
    <3> DEFINE entry == C!Repaired(ts)
    <3>2. /\ C!NextSpan
          /\ \E lac \in C!LacChoices(C!Clamp(f)), r \in C!Rs(C!Parse(entry, sampled)) :
                 C!Decided(entry, C!Clamp(f), lac, r)
      BY <1>2, <2>2, Zenon DEF C!ParentProbabilityBased
    <3> HIDE DEF entry
    <3>3. PICK lac \in C!LacChoices(C!Clamp(f)), r \in C!Rs(C!Parse(entry, sampled)) :
              C!Decided(entry, C!Clamp(f), lac, r)
      BY <3>2
    <3>4. lac \in Nat
      BY <3>1, CountsAre
    <3>5. entry \in Entries /\ (Read.r <= PZero - 1 => C!Parse(entry, sampled).r = Read.r)
      <4>1. ts \in Entries /\ sampled \in BOOLEAN
        BY DEF SamplerInv
      <4>2. QED BY <4>1, RepairedIs DEF entry
    <3>6. QED BY <3>1, <3>2, <3>3, <3>4, <3>5, DecidedKeeps
  <2>3. QED BY <2>1, <2>2
<1>3. ASSUME UNCHANGED C!samplerVars PROVE SamplerInv'
  BY <1>3 DEF SamplerInv, C!samplerVars, Read, C!ZeroDrawn
<1>4. QED BY <1>1, <1>2, <1>3 DEF C!Next

LEMMA SamplerConsistent == SamplerInv => C!Consistent
<1> SUFFICES ASSUME SamplerInv, ~C!ZeroDrawn,
                    NEW i \in DOMAIN decisions, NEW j \in DOMAIN decisions,
                    decisions[i].lac <= decisions[j].lac, decisions[j].sampled
             PROVE  decisions[i].sampled
  BY DEF C!Consistent
<1>1. decisions[i] \in Decisions /\ decisions[j] \in Decisions
  BY DEF SamplerInv
<1>2. decisions[i].r = decisions[j].r
  BY DEF SamplerInv
<1>3. decisions[j].lac <= decisions[j].r
  BY DEF SamplerInv
<1>4. decisions[i].lac <= decisions[i].r
  <2>1. PZero \in Nat
    BY SamplerAssumption
  <2>2. decisions[i].lac \in Nat /\ decisions[j].lac \in Nat /\ decisions[j].r \in Nat
    BY <1>1, <2>1 DEF Decisions
  <2>3. QED BY <1>2, <1>3, <2>2
<1>5. QED BY <1>4 DEF SamplerInv

LEMMA SamplerReadable == SamplerInv => C!HandedOnReadable
<1> SUFFICES ASSUME SamplerInv PROVE C!HandedOnReadable
  OBVIOUS
<1> DEFINE p == C!LastValue(ts, "p")
           r == C!LastValue(ts, "r")
<1>1. cameWith <= PZero - 1 => Read.r = cameWith
  BY DEF SamplerInv
<1>2. ASSUME spanCount > 0, ~C!ZeroDrawn
      PROVE  ~Read.err /\ ({p, r} \subseteq 0..PZero => sampled /\ p \in 0..r \cup {PZero})
  <2>1. ~Read.err /\ ts \in Entries /\ sampled \in BOOLEAN
    BY <1>2 DEF SamplerInv
  <2>2. QED BY <2>1, ReadFits DEF Read
<1>3. ASSUME decisions # <<>>, ~C!ZeroDrawn
      PROVE  LET d == C!Last(decisions)
             IN  /\ sampled = d.sampled /\ Read.r = d.r
                 /\ Read.p = IF d.sampled THEN d.lac ELSE C!Invalid
  <2>1. Len(decisions) \in DOMAIN decisions
    BY <1>3 DEF SamplerInv
  <2>2. C!Last(decisions) = decisions[Len(decisions)]
    BY DEF C!Last
  <2>3. QED BY <1>3, <2>1, <2>2 DEF SamplerInv, C!Invalid
<1>4. QED BY <1>1, <1>2, <1>3, Zenon DEF C!HandedOnReadable, C!Has, Read

LEMMA SamplerFair == SamplerInv => C!FractionKept
<1> SUFFICES ASSUME SamplerInv, decisions # <<>> PROVE FairlySampled(C!Last(decisions).fraction)
  BY Zenon DEF C!FractionKept, FairlySampled
<1>1. Len(decisions) \in DOMAIN decisions /\ decisions[Len(decisions)] \in Decisions
  BY DEF SamplerInv
<1>2. C!Last(decisions).fraction \in 0..2^Depth
  BY <1>1 DEF C!Last, Decisions
<1>3. QED BY <1>2, EveryFractionKept

(***************************************************************************)
(* The samplers of a trace are consistent, unbiased and readable, however  *)
(* many bits are drawn, of whatever precision the fractions are, and       *)
(* whatever entries the trace comes with (sampler.go, lines 87-168).       *)
(***************************************************************************)
THEOREM Decides == C!Spec => []SamplingSound
<1>1. C!Init => SamplerInv
  BY SamplerInit
<1>2. SamplerInv /\ [C!Next]_(C!samplerVars) => SamplerInv'
  BY SamplerNext
<1>3. SamplerInv => SamplingSound
  BY SamplerConsistent, SamplerReadable, SamplerFair DEF SamplingSound, C!SamplingSound
<1>4. QED BY <1>1, <1>2, <1>3, PTL DEF C!Spec
==============================================================================
