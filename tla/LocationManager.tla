--------------------------- MODULE LocationManager ---------------------------
(***************************************************************************)
(* The in-memory taxi service of lesson_02: one map of driver positions    *)
(* under a read-write lock, a goroutine that evicts stale positions, and   *)
(* searches that take the lock once for the scan of a bucket and once more *)
(* for every driver the scan has found.                                    *)
(*                                                                         *)
(* Each critical section is one step.  A coordinate is one of a few        *)
(* places; what a search needs of a place is its bucket and its distance.  *)
(* All searches are about the same point.  Time is counted in whole units. *)
(***************************************************************************)
EXTENDS Naturals, FiniteSets

CONSTANTS
    Drivers,    \* driver ids
    Searches,   \* calls of FindNearestDrivers
    Places,     \* positions drivers report
    InBucket,   \* the places in the bucket of the point searched
    Distance,   \* the distance of each place from that point
    Limit,      \* how many drivers a search asks for
    Stale,      \* PositionStaleTimeout, 30 s in the code
    Interval,   \* CleanupInterval, 5 min in the code
    MaxTime,    \* bound: time stops here
    None        \* no position

ASSUME LocationAssumption ==
    /\ IsFiniteSet(Drivers)
    /\ InBucket \subseteq Places
    /\ Distance \in [Places -> Nat]
    /\ Limit \in Nat
    /\ Stale \in Nat
    /\ Interval \in Nat \ {0}
    /\ MaxTime \in Nat
    /\ None \notin [place : Places, at : Nat]

VARIABLES
    now,        \* the clock
    locations,  \* LocationManager.locations
    gauge,      \* taxi_driver_current_drivers
    cleanedAt,  \* when cleanup last ran
    pc,         \* where each search is
    found,      \* drivers of the bucket a search has still to look up
    distances,  \* what a search has looked up
    result,     \* the drivers a search returns
    steady      \* history: drivers there at a search's scan, untouched since

vars == <<now, locations, gauge, cleanedAt, pc, found, distances, result,
          steady>>

Present == {d \in Drivers : locations[d] # None}

Init ==
    /\ now = 0
    /\ locations = [d \in Drivers |-> None]
    /\ gauge = 0
    /\ cleanedAt = 0
    /\ pc = [s \in Searches |-> "idle"]
    /\ found = [s \in Searches |-> {}]
    /\ distances = [s \in Searches |-> {}]
    /\ result = [s \in Searches |-> {}]
    /\ steady = [s \in Searches |-> {}]

table  == <<locations, gauge, cleanedAt>>
search == <<pc, found, distances, result>>

\* The positions of D change: they are steady for no search any more.
Disturb(D) == steady' = [s \in Searches |-> steady[s] \ D]

\* Time passes, but not past the moment at which the ticker is due.
Tick ==
    /\ now < MaxTime
    /\ now < cleanedAt + Interval
    /\ now' = now + 1
    /\ UNCHANGED <<table, search, steady>>

\* Fault: the moment of a position is rounded up to the next unit.
UpdateLocationRounded(d, p) ==
    /\ locations' = [locations EXCEPT ![d] = [place |-> p, at |-> now + 1]]
    /\ Disturb({d})
    /\ UNCHANGED <<now, gauge, cleanedAt, search>>

UpdateLocation(d, p) ==
    /\ locations' = [locations EXCEPT ![d] = [place |-> p, at |-> now]]
    /\ Disturb({d})
    /\ UNCHANGED <<now, gauge, cleanedAt, search>>

\* Fault: the two durations of the configuration are mixed up.
CleanupMixedUp ==
    LET stale == {d \in Present : now - locations[d].at > Interval}
    IN  /\ now = cleanedAt + Interval
        /\ locations' = [d \in Drivers |->
                            IF d \in stale THEN None ELSE locations[d]]
        /\ gauge' = Cardinality(Present \ stale)
        /\ cleanedAt' = now
        /\ Disturb(stale)
        /\ UNCHANGED <<now, search>>

\* cleanup, on the ticker.
Cleanup ==
    LET stale == {d \in Present : now - locations[d].at > Stale}
    IN  /\ now = cleanedAt + Interval
        /\ locations' = [d \in Drivers |->
                            IF d \in stale THEN None ELSE locations[d]]
        /\ gauge' = Cardinality(Present \ stale)
        /\ cleanedAt' = now
        /\ Disturb(stale)
        /\ UNCHANGED <<now, search>>

-----------------------------------------------------------------------------
(* FindNearestDrivers. *)

Goto(s, from, to) ==
    /\ pc[s] = from
    /\ pc' = [pc EXCEPT ![s] = to]

\* GetDriversInBucket.
Scan(s) ==
    LET inBucket == {d \in Present : locations[d].place \in InBucket}
    IN  /\ Goto(s, "idle", "look")
        /\ found' = [found EXCEPT ![s] = inBucket]
        /\ steady' = [steady EXCEPT ![s] = Present]
        /\ UNCHANGED <<now, table, distances, result>>

\* GetLocation of one driver found; one that has gone is passed over.
Look(s, d) ==
    /\ pc[s] = "look" /\ d \in found[s]
    /\ found' = [found EXCEPT ![s] = @ \ {d}]
    /\ distances' = [distances EXCEPT ![s] =
                        IF locations[d] = None THEN @
                        ELSE @ \cup {[id |-> d, of |-> Distance[locations[d].place]]}]
    /\ UNCHANGED <<now, table, pc, result, steady>>

\* R holds the first Limit of what was looked up, in an order by distance.
Nearest(R, looked) ==
    /\ R \subseteq looked
    /\ Cardinality(R) = IF Cardinality(looked) > Limit THEN Limit
                        ELSE Cardinality(looked)
    /\ \A x \in R, y \in looked \ R : x.of <= y.of

\* Fault: the drivers are cut to the limit before they are sorted.
SelectUnsorted(s) ==
    /\ found[s] = {}
    /\ Goto(s, "look", "done")
    /\ \E R \in SUBSET distances[s] :
          /\ Cardinality(R) <= Limit
          /\ Cardinality(R) = Limit \/ R = distances[s]
          /\ result' = [result EXCEPT ![s] = R]
    /\ UNCHANGED <<now, table, found, distances, steady>>

\* sort.Slice, and the first `limit` of the drivers.
Select(s) ==
    /\ found[s] = {}
    /\ Goto(s, "look", "done")
    /\ \E R \in SUBSET distances[s] :
          /\ Nearest(R, distances[s])
          /\ result' = [result EXCEPT ![s] = R]
    /\ UNCHANGED <<now, table, found, distances, steady>>

Next ==
    \/ Tick
    \/ Cleanup
    \/ \E d \in Drivers, p \in Places : UpdateLocation(d, p)
    \/ \E s \in Searches : Scan(s) \/ Select(s) \/ \E d \in Drivers : Look(s, d)

Spec == Init /\ [][Next]_vars

-----------------------------------------------------------------------------
(* Properties. *)

Looked == [id : Drivers, of : Nat]

TypeOK ==
    /\ now \in 0..MaxTime
    /\ locations \in [Drivers -> [place : Places, at : 0..now] \cup {None}]
    /\ gauge \in Nat
    /\ cleanedAt \in 0..now
    /\ pc \in [Searches -> {"idle", "look", "done"}]
    /\ found \in [Searches -> SUBSET Drivers]
    /\ distances \in [Searches -> SUBSET Looked]
    /\ result \in [Searches -> SUBSET Looked]
    /\ steady \in [Searches -> SUBSET Drivers]

(***************************************************************************)
(* No position is kept longer than the two durations of the configuration  *)
(* together (config.go, lines 13-14): a position that has just become      *)
(* stale waits for the next tick of cleanupOldPositions, and is still      *)
(* returned by searches until then.                                        *)
(***************************************************************************)
KeptBounded == \A d \in Present : now - locations[d].at <= Stale + Interval

(***************************************************************************)
(* The lock is released between the scan and the lookups                   *)
(* (driver_location.go, lines 132 and 142), so positions read for one      *)
(* search are of different moments.  A driver of the bucket whose position *)
(* did not change meanwhile is still not left out in favour of one that is *)
(* farther away.                                                           *)
(***************************************************************************)
Returned(s, d) == \E x \in result[s] : x.id = d

BetterThan(s, d) ==
    /\ Cardinality(result[s]) = Limit
    /\ \A x \in result[s] : x.of <= Distance[locations[d].place]

NoneNearerInBucket ==
    \A s \in Searches : pc[s] = "done" =>
        \A d \in steady[s] :
            locations[d].place \in InBucket => Returned(s, d) \/ BetterThan(s, d)

(***************************************************************************)
(* What the table keeps, and what a search finds in it, while updates and  *)
(* cleanups go on (driver_location.go, lines 50-171).                      *)
(***************************************************************************)
LocationsSound == TypeOK /\ NoneNearerInBucket /\ KeptBounded

=============================================================================
