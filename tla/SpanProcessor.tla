---------------------------- MODULE SpanProcessor ----------------------------
(***************************************************************************)
(* The SpanProcessor of zpages: the spans that are active, and for each    *)
(* name a store of samples of those that have ended, in a bucket of errors *)
(* and one per range of latency.  OnStart and OnEnd run in the goroutines  *)
(* that start and end spans, the page in one of its own; the two maps are  *)
(* sync.Maps, and each store has a lock.                                   *)
(***************************************************************************)
EXTENDS Naturals, FiniteSets

CONSTANTS
    Spans, Names,
    Latencies,     \* the ranges of latency
    None,
    Capacity,      \* defaultBucketCapacity
    SamplePeriod,
    MaxTime        \* bound: the last reading of the clock

Buckets == {"errors"} \cup Latencies

VARIABLES
    now,
    at,           \* a span: "new", "started", then the places of OnEnd, "sampled"
    name,         \* its name
    ended,        \* its EndTime and bucket
    active,       \* activeSpansStore
    stores,       \* spanSampleStores: the buckets by name, None where there is no store
    pageAt,       \* where spansPerMethod is: "idle", "active", "done"
    listed,       \* the names in its summary
    expected      \* history: spans that were active or sampled when it began, and have not ended since

zpagesVars == <<now, at, name, ended, active, stores, pageAt, listed, expected>>

EmptyBucket == [nextTime |-> 0, buffer |-> [i \in 0..Capacity - 1 |-> None],
                nextIndex |-> 0, overflow |-> FALSE]
NewStore == [b \in Buckets |-> EmptyBucket]

Init ==
    /\ now = 0
    /\ at = [s \in Spans |-> "new"]
    /\ name \in [Spans -> Names]
    /\ ended = [s \in Spans |-> None]
    /\ active = {}
    /\ stores = [n \in Names |-> None]
    /\ pageAt = "idle" /\ listed = {} /\ expected = {}

page == <<pageAt, listed>>

Goto(s, from, to) ==
    /\ at[s] = from
    /\ at' = [at EXCEPT ![s] = to]

Tick ==
    /\ now < MaxTime
    /\ now' = now + 1
    /\ UNCHANGED <<at, name, ended, active, stores, page, expected>>

OnStart(s) ==
    /\ Goto(s, "new", "started")
    /\ active' = active \cup {s}
    /\ UNCHANGED <<now, name, ended, stores, page, expected>>

\* The program renames a span that has not ended.
SetName(s) ==
    /\ at[s] = "started"
    /\ name' \in {[name EXCEPT ![s] = n] : n \in Names \ {name[s]}}
    /\ expected' = expected \ {s}
    /\ UNCHANGED <<now, at, ended, active, stores, page>>

\* End fixes time, status and latency; OnEnd follows when it may.
End(s) ==
    /\ Goto(s, "started", "delete")
    /\ \E b \in Buckets : ended' = [ended EXCEPT ![s] = [time |-> now, bucket |-> b]]
    /\ expected' = expected \ {s}
    /\ UNCHANGED <<now, name, active, stores, page>>

Delete(s) ==
    /\ Goto(s, "delete", "load")
    /\ active' = active \ {s}
    /\ UNCHANGED <<now, name, ended, stores, page, expected>>

LoadStore(s) ==
    /\ Goto(s, "load", IF stores[name[s]] = None THEN "create" ELSE "sample")
    /\ UNCHANGED <<now, name, ended, active, stores, page, expected>>

\* Fault: Store in the place of LoadOrStore.
CreateAnyway(s) ==
    /\ Goto(s, "create", "sample")
    /\ stores' = [stores EXCEPT ![name[s]] = NewStore]
    /\ UNCHANGED <<now, name, ended, active, page, expected>>

\* LoadOrStore.
Create(s) ==
    /\ Goto(s, "create", "sample")
    /\ stores' = [stores EXCEPT ![name[s]] = IF @ = None THEN NewStore ELSE @]
    /\ UNCHANGED <<now, name, ended, active, page, expected>>

\* Fault: the next span is accepted at once.
AddedSoon(b, s) ==
    IF ended[s].time < b.nextTime THEN b
    ELSE LET next == b.nextIndex + 1
         IN  [nextTime |-> ended[s].time,
              buffer |-> [b.buffer EXCEPT ![b.nextIndex] = s],
              nextIndex |-> next % Capacity,
              overflow |-> b.overflow \/ next = Capacity]

\* bucket.add
Added(b, s) ==
    IF ended[s].time < b.nextTime THEN b
    ELSE LET next == b.nextIndex + 1
         IN  [nextTime |-> ended[s].time + SamplePeriod,
              buffer |-> [b.buffer EXCEPT ![b.nextIndex] = s],
              nextIndex |-> next % Capacity,
              overflow |-> b.overflow \/ next = Capacity]

Sample(s) ==
    /\ Goto(s, "sample", "sampled")
    /\ stores' = [stores EXCEPT ![name[s]][ended[s].bucket] = Added(@, s)]
    /\ UNCHANGED <<now, name, ended, active, page, expected>>

\* spansPerMethod: the names that have a store, then those of active spans.
ListStores ==
    /\ pageAt = "idle"
    /\ pageAt' = "active"
    /\ listed' = {n \in Names : stores[n] # None}
    /\ expected' = {s \in Spans : at[s] \in {"started", "sampled"}}
    /\ UNCHANGED <<now, at, name, ended, active, stores>>

\* Fault: active spans are counted where there is a row for them.
ListActiveIfStored ==
    /\ pageAt = "active"
    /\ pageAt' = "done"
    /\ UNCHANGED <<now, at, name, ended, active, stores, listed, expected>>

ListActive ==
    /\ pageAt = "active"
    /\ pageAt' = "done"
    /\ listed' = listed \cup {name[s] : s \in active}
    /\ UNCHANGED <<now, at, name, ended, active, stores, expected>>

OnEnd(s) == Delete(s) \/ LoadStore(s) \/ Create(s) \/ Sample(s)

Next ==
    \/ Tick \/ ListStores \/ ListActive
    \/ \E s \in Spans : OnStart(s) \/ SetName(s) \/ End(s) \/ OnEnd(s)

Spec == Init /\ [][Next]_zpagesVars
-----------------------------------------------------------------------------
(* Properties. *)

Samples(b) == {b.buffer[i] : i \in 0..(IF b.overflow THEN Capacity ELSE b.nextIndex) - 1}

(***************************************************************************)
(* A bucket never has samples that ended within a SamplePeriod of each     *)
(* other, in whatever order OnEnd came to its lock, nor an empty place     *)
(* (bucket.go, lines 47-74).                                               *)
(***************************************************************************)
SamplesSpaced ==
    \A n \in Names, b \in Buckets : stores[n] # None =>
        LET samples == Samples(stores[n][b])
        IN  /\ None \notin samples
            /\ \A s, t \in samples : s # t =>
                   \/ ended[s].time >= ended[t].time + SamplePeriod
                   \/ ended[t].time >= ended[s].time + SamplePeriod

(***************************************************************************)
(* Every span that has ended was sampled or came too early for the next    *)
(* sample, though several goroutines may create the store of a name at     *)
(* once (spanprocessor.go, lines 67-72).                                   *)
(***************************************************************************)
EveryEndCounts ==
    \A s \in Spans : at[s] = "sampled" =>
        LET b == stores[name[s]][ended[s].bucket]
        IN  Samples(b) # {} /\ ended[s].time < b.nextTime

(***************************************************************************)
(* A name is missing from the page only if its spans ended or changed      *)
(* their names between the two iterations (spanprocessor.go, lines 98-114).*)
(***************************************************************************)
PageMissesNeedChange == pageAt = "done" => \A s \in expected : name[s] \in listed

(***************************************************************************)
(* What the pages show: samples well apart, each span that ended accounted *)
(* for, no name missing (spanprocessor.go, lines 53-114; bucket.go, lines  *)
(* 47-61).                                                                 *)
(***************************************************************************)
PagesSound == SamplesSpaced /\ EveryEndCounts /\ PageMissesNeedChange

=============================================================================
