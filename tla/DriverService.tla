---------------------------- MODULE DriverService ----------------------------
(***************************************************************************)
(* driver-location-service: the position of a driver is kept twice in      *)
(* Redis, as a member of the geo index driver:locations and in the record  *)
(* driver:<id>, and the two are written by separate commands.  Requests    *)
(* run concurrently, each in its own goroutine.                            *)
(*                                                                         *)
(* An update request stands for the location it reports.  A driver id is   *)
(* never the word "locations", which would make the record's key the key   *)
(* of the index.                                                           *)
(***************************************************************************)
EXTENDS Naturals, FiniteSets

CONSTANTS
    Drivers,     \* driver ids
    Updates,     \* calls of UpdateLocation
    Removals,    \* calls of RemoveDriver, which no route makes yet
    Queries,     \* calls of FindNearby, all about the same circle
    Nearby,      \* the updates that report a location within that circle
    MaxFound,    \* the Count of the GEORADIUS query, 50 in the code
    MaxRetries,  \* retries of the Redis client for one command
    Faults,      \* whether Redis or the process may fail
    None         \* no location, or no driver

Writes   == Updates \cup Removals
Requests == Writes \cup Queries

ASSUME DriverAssumption ==
    /\ Updates \cap Removals = {}
    /\ Writes \cap Queries = {}
    /\ Nearby \subseteq Updates
    /\ MaxFound \in Nat \ {0}
    /\ MaxRetries \in Nat
    /\ Faults \in BOOLEAN
    /\ None \notin Updates \cup Drivers

VARIABLES
    pc,         \* where each request is
    driver,     \* the driver a write is about
    tries,      \* retries made for the command a request is at
    index,      \* driver:locations
    record,     \* driver:<id>
    handed,     \* updates given to a goroutine that sends them to the analyzer
    pending,    \* drivers a query found and has not fetched yet
    result,     \* what a query has fetched
    alone,      \* history: running writes that have met no other
    unsettled,  \* history: drivers whose last writes overlapped or failed
    steady      \* history: drivers found by a query while settled, still so,
                \* and not missed by a GET that failed

vars == <<pc, driver, tries, index, record, handed, pending, result,
          alone, unsettled, steady>>

Writing  == {"GeoAdd", "Go", "Set", "ZRem", "Del"}
Running  == Writing \cup {"GeoRadius", "Get"}
Ended    == {"ok", "failed"}
Location == Updates \cup {None}

Writers(d) == {r \in Writes : driver[r] = d /\ pc[r] \in Writing}

Init ==
    /\ pc = [r \in Requests |-> "idle"]
    /\ driver = [r \in Writes |-> None]
    /\ tries = [r \in Requests |-> 0]
    /\ index = [d \in Drivers |-> None]
    /\ record = [d \in Drivers |-> None]
    /\ handed = {}
    /\ pending = [q \in Queries |-> {}]
    /\ result = [q \in Queries |-> {}]
    /\ alone = {}
    /\ unsettled = {}
    /\ steady = [q \in Queries |-> {}]

Goto(r, from, to) ==
    /\ pc[r] = from
    /\ pc' = [pc EXCEPT ![r] = to]

queries == <<pending, result>>

-----------------------------------------------------------------------------
(* History: which writes overlapped. *)

BeginWrite(r, d) ==
    /\ driver' = [driver EXCEPT ![r] = d]
    /\ alone' = IF Writers(d) = {} THEN alone \cup {r} ELSE alone \ Writers(d)
    /\ steady' = [q \in Queries |-> steady[q] \ {d}]
    /\ UNCHANGED <<tries, index, record, handed, queries, unsettled>>

\* The last command of a write has succeeded.
EndWrite(r) ==
    /\ unsettled' = IF r \in alone THEN unsettled \ {driver[r]}
                                   ELSE unsettled \cup {driver[r]}
    /\ alone' = alone \ {r}

AbortWrites(R) ==
    /\ unsettled' = unsettled \cup {driver[r] : r \in R}
    /\ alone' = alone \ R

(***************************************************************************)
(* One command of a write: it succeeds, or its reply is lost after Redis   *)
(* has executed it and the client sends it again or gives up.              *)
(***************************************************************************)
Execute(r, from, to, Effect) ==
    /\ Goto(r, from, to)
    /\ tries' = [tries EXCEPT ![r] = 0]
    /\ Effect

LoseReply(r, from, Effect) ==
    /\ Faults
    /\ pc[r] = from
    /\ Effect
    /\ \/ /\ tries[r] < MaxRetries
          /\ tries' = [tries EXCEPT ![r] = @ + 1]
          /\ UNCHANGED <<pc, alone, unsettled>>
       \/ /\ pc' = [pc EXCEPT ![r] = "failed"]
          /\ AbortWrites({r})
          /\ tries' = [tries EXCEPT ![r] = 0]

-----------------------------------------------------------------------------
(* UpdateLocation.  Its context has no deadline (context.WithoutCancel).   *)

BeginUpdate(u, d) ==
    /\ Goto(u, "idle", "GeoAdd")
    /\ BeginWrite(u, d)

\* GEOADD driver:locations.
GeoAdd(u) ==
    LET Effect == index' = [index EXCEPT ![driver[u]] = u]
    IN  /\ \/ /\ Execute(u, "GeoAdd", "Go", Effect)
              /\ UNCHANGED <<alone, unsettled>>
           \/ LoseReply(u, "GeoAdd", Effect)
        /\ UNCHANGED <<driver, record, handed, queries, steady>>

\* Fault: the goroutine is not started.
GoNothing(u) ==
    /\ Goto(u, "Go", "Set")
    /\ UNCHANGED <<driver, tries, index, record, handed, queries, alone,
                   unsettled, steady>>

\* The reported point is stamped with the time, and `go sendToTrackAnalyzer`.
GoSend(u) ==
    /\ Goto(u, "Go", "Set")
    /\ handed' = handed \cup {u}
    /\ UNCHANGED <<driver, tries, index, record, queries, alone, unsettled,
                   steady>>

\* SET driver:<id>; its error is the error of the whole update.
SetRecord(u) ==
    LET Effect == record' = [record EXCEPT ![driver[u]] = u]
    IN  /\ \/ Execute(u, "Set", "ok", Effect) /\ EndWrite(u)
           \/ LoseReply(u, "Set", Effect)
        /\ UNCHANGED <<driver, index, handed, queries, steady>>

-----------------------------------------------------------------------------
(* RemoveDriver. *)

BeginRemoval(x, d) ==
    /\ Goto(x, "idle", "ZRem")
    /\ BeginWrite(x, d)

\* Fault: an error of ZREM does not stop the removal.
ZRemIgnoringErrors(x) ==
    /\ Goto(x, "ZRem", "Del")
    /\ tries' = [tries EXCEPT ![x] = 0]
    /\ index' \in {index, [index EXCEPT ![driver[x]] = None]}
    /\ UNCHANGED <<driver, record, handed, queries, alone, unsettled, steady>>

\* ZREM driver:locations.
ZRem(x) ==
    LET Effect == index' = [index EXCEPT ![driver[x]] = None]
    IN  /\ \/ /\ Execute(x, "ZRem", "Del", Effect)
              /\ UNCHANGED <<alone, unsettled>>
           \/ LoseReply(x, "ZRem", Effect)
        /\ UNCHANGED <<driver, record, handed, queries, steady>>

\* DEL driver:<id>.
Del(x) ==
    LET Effect == record' = [record EXCEPT ![driver[x]] = None]
    IN  /\ \/ Execute(x, "Del", "ok", Effect) /\ EndWrite(x)
           \/ LoseReply(x, "Del", Effect)
        /\ UNCHANGED <<driver, index, handed, queries, steady>>

-----------------------------------------------------------------------------
(* FindNearby. *)

BeginQuery(q) ==
    /\ Goto(q, "idle", "GeoRadius")
    /\ UNCHANGED <<driver, tries, index, record, handed, queries, alone,
                   unsettled, steady>>

\* Fault: the radius is taken in the wrong unit, and the circle is too wide.
GeoRadiusTooWide(q) ==
    LET inside == {d \in Drivers : index[d] # None}
    IN  /\ Goto(q, "GeoRadius", "Get")
        /\ \E S \in SUBSET inside :
              /\ Cardinality(S) = MaxFound \/ (S = inside /\ Cardinality(S) < MaxFound)
              /\ pending' = [pending EXCEPT ![q] = S]
              /\ steady' = [steady EXCEPT ![q] =
                               {d \in S : d \notin unsettled /\ Writers(d) = {}}]
        /\ UNCHANGED <<driver, tries, index, record, handed, result, alone,
                       unsettled>>

\* GEORADIUS ... COUNT 50: that many of the drivers in the circle, or all.
GeoRadius(q) ==
    LET inside == {d \in Drivers : index[d] \in Nearby}
    IN  /\ Goto(q, "GeoRadius", "Get")
        /\ \E S \in SUBSET inside :
              /\ Cardinality(S) = MaxFound \/ (S = inside /\ Cardinality(S) < MaxFound)
              /\ pending' = [pending EXCEPT ![q] = S]
              /\ steady' = [steady EXCEPT ![q] =
                               {d \in S : d \notin unsettled /\ Writers(d) = {}}]
        /\ UNCHANGED <<driver, tries, index, record, handed, result, alone,
                       unsettled>>

\* Fault: a driver whose record is missing is returned all the same.
GetMissing(q, d) ==
    /\ pc[q] = "Get" /\ d \in pending[q]
    /\ pending' = [pending EXCEPT ![q] = @ \ {d}]
    /\ result' = [result EXCEPT ![q] = @ \cup {<<d, record[d]>>}]
    /\ UNCHANGED <<pc, driver, tries, index, record, handed, alone, unsettled,
                   steady>>

\* GET driver:<id> of one driver found; a missing record is passed over,
\* and so is one that cannot be read.
Get(q, d) ==
    /\ pc[q] = "Get" /\ d \in pending[q]
    /\ pending' = [pending EXCEPT ![q] = @ \ {d}]
    /\ \/ /\ record[d] # None
          /\ result' = [result EXCEPT ![q] = @ \cup {<<d, record[d]>>}]
          /\ UNCHANGED steady
       \/ record[d] = None /\ UNCHANGED <<result, steady>>
       \/ /\ Faults
          /\ steady' = [steady EXCEPT ![q] = @ \ {d}]
          /\ UNCHANGED result
    /\ UNCHANGED <<pc, driver, tries, index, record, handed, alone, unsettled>>

\* Fault: the loop returns before it has come to every driver found.
EndQueryEarly(q) ==
    /\ Goto(q, "Get", "ok")
    /\ UNCHANGED <<driver, tries, index, record, handed, queries, alone,
                   unsettled, steady>>

EndQuery(q) ==
    /\ pending[q] = {}
    /\ Goto(q, "Get", "ok")
    /\ UNCHANGED <<driver, tries, index, record, handed, queries, alone,
                   unsettled, steady>>

-----------------------------------------------------------------------------
(* Failures. *)

\* A command fails without effect and the request with it.
FailWrite(r) ==
    /\ Faults
    /\ pc[r] \in Writing \ {"Go"}
    /\ pc' = [pc EXCEPT ![r] = "failed"]
    /\ AbortWrites({r})
    /\ tries' = [tries EXCEPT ![r] = 0]
    /\ UNCHANGED <<driver, index, record, handed, queries, steady>>

FailQuery(q) ==
    /\ Faults
    /\ Goto(q, "GeoRadius", "failed")
    /\ UNCHANGED <<driver, tries, index, record, handed, queries, alone,
                   unsettled, steady>>

\* The process dies and starts again; Redis keeps its keys.
Crash ==
    /\ Faults
    /\ pc' = [r \in Requests |-> IF pc[r] \in Running THEN "failed" ELSE pc[r]]
    /\ AbortWrites({r \in Writes : pc[r] \in Writing})
    /\ tries' = [r \in Requests |-> 0]
    /\ UNCHANGED <<driver, index, record, handed, queries, steady>>

\* No request is left to begin or to finish.
Terminated ==
    /\ \A r \in Requests : pc[r] \in Ended
    /\ UNCHANGED vars

UpdateStep(u) ==
    \/ GeoAdd(u) \/ GoSend(u) \/ SetRecord(u) \/ FailWrite(u)
    \/ \E d \in Drivers : BeginUpdate(u, d)

RemovalStep(x) ==
    ZRem(x) \/ Del(x) \/ FailWrite(x) \/ \E d \in Drivers : BeginRemoval(x, d)

QueryStep(q) ==
    \/ BeginQuery(q) \/ GeoRadius(q) \/ EndQuery(q) \/ FailQuery(q)
    \/ \E d \in Drivers : Get(q, d)

Next ==
    \/ \E u \in Updates : UpdateStep(u)
    \/ \E x \in Removals : RemovalStep(x)
    \/ \E q \in Queries : QueryStep(q)
    \/ Crash
    \/ Terminated

Spec == Init /\ [][Next]_vars

-----------------------------------------------------------------------------
(* Properties. *)

TypeOK ==
    /\ pc \in [Requests -> {"idle"} \cup Running \cup Ended]
    /\ driver \in [Writes -> Drivers \cup {None}]
    /\ tries \in [Requests -> 0..MaxRetries]
    /\ index \in [Drivers -> Location]
    /\ record \in [Drivers -> Location]
    /\ handed \subseteq Updates
    /\ pending \in [Queries -> SUBSET Drivers]
    /\ result \in [Queries -> SUBSET (Drivers \X Updates)]
    /\ alone \subseteq Writes
    /\ unsettled \subseteq Drivers
    /\ steady \in [Queries -> SUBSET Drivers]

(***************************************************************************)
(* The geo index and the records are written by separate commands          *)
(* (driver_service.go, lines 56 and 87, 212 and 217), and overlapping or   *)
(* failed writes leave them different.  One update or removal that runs    *)
(* alone and succeeds makes them agree again, and they stay so until the   *)
(* next write of that driver begins.                                       *)
(***************************************************************************)
SettledAgree ==
    \A d \in Drivers :
        d \notin unsettled /\ Writers(d) = {} => index[d] = record[d]

(***************************************************************************)
(* A location that queries can see has been given to the goroutine that    *)
(* sends it to the track analyzer: `go` comes before SET                   *)
(* (driver_service.go, lines 71 and 87).                                   *)
(***************************************************************************)
RecordWasHandedOver ==
    \A d \in Drivers : record[d] # None =>
        record[d] \in handed /\ driver[record[d]] = d

(***************************************************************************)
(* FindNearby reads the index once and then record after record            *)
(* (driver_service.go, lines 171 and 187).  What it returns of a driver    *)
(* that was settled when the index was read, and is not written while the  *)
(* query runs, is a location within the radius; and such a driver is not   *)
(* left out, unless its own GET fails.                                     *)
(***************************************************************************)
SteadyFoundNearby ==
    \A q \in Queries : \A d \in steady[q] :
        /\ \A u \in Updates : <<d, u>> \in result[q] => u \in Nearby
        /\ pc[q] = "ok" => \E u \in Updates : <<d, u>> \in result[q]

(***************************************************************************)
(* "Find drivers within radius (in meters)" (driver_service.go, line 170): *)
(* every location FindNearby returns is within the radius.  The code       *)
(* selects by the index and returns the records, and breaks this.          *)
(***************************************************************************)
FindsWithinRadius ==
    \A q \in Queries : \A found \in result[q] : found[2] \in Nearby

=============================================================================
