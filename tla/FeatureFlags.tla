---------------------------- MODULE FeatureFlags ----------------------------
(***************************************************************************)
(* track-analyzer-service: flags that are set while the service runs, and  *)
(* the delay that two of them put on AddPoint.  Each flag is stored and    *)
(* loaded atomically, the two of them are not.                             *)
(*                                                                         *)
(* MaxInt is the largest int; a time.Duration is an int and counts Milli   *)
(* units to the millisecond.  All calls draw from one source of random     *)
(* numbers, which has no lock.                                             *)
(***************************************************************************)
EXTENDS Integers

CONSTANTS
    Points,       \* calls of AddPoint
    Numbers,      \* JSON numbers that flags are set to
    MaxInt, Milli,
    None,         \* a flag that is not stored
    NotInt,       \* a bool, a string, an object or an array
    MaxSets       \* bound: how often a flag is set

Ints == -MaxInt - 1 .. MaxInt
Wrap(n) == ((n + MaxInt + 1) % (2 * MaxInt + 2)) - MaxInt - 1

VARIABLES
    flags,     \* FeatureService.flags: add-point-delay-value-start and -end
    at,        \* where each randomWait is
    min, max,  \* its locals
    slept,     \* what time.Sleep was given, in Milli units
    overlapped, \* two draws met at the source, which may be damaged from then on
    panicked,  \* Intn did, which ends the process
    sets,
    inForce,   \* history: the ranges there have been since a call read its start
    changes    \* history: how often flags have been set since

flagVars == <<flags, at, min, max, slept, overlapped, panicked, sets, inForce, changes>>

\* GetIntFeature, with 0 as its default.
IntFeature(value) == IF value \in {None, NotInt} THEN 0 ELSE value

Range(f) == <<IntFeature(f.start), IntFeature(f.end)>>

Init ==
    /\ flags = [start |-> None, end |-> None]
    /\ at = [p \in Points |-> "start"]
    /\ min = [p \in Points |-> 0]
    /\ max = [p \in Points |-> 0]
    /\ slept = [p \in Points |-> 0]
    /\ overlapped = FALSE /\ panicked = FALSE
    /\ sets = 0
    /\ inForce = [p \in Points |-> {}]
    /\ changes = [p \in Points |-> 0]

\* int(value): what is out of range becomes the largest or the smallest int,
\* depending on the processor.
Converted(n) == IF n \in Ints THEN {n} ELSE {MaxInt, -MaxInt - 1}

\* SetFeature; null deletes the flag.
SetFeature ==
    /\ ~panicked /\ sets < MaxSets
    /\ sets' = sets + 1
    /\ \E name \in {"start", "end"}, value \in (UNION {Converted(n) : n \in Numbers}) \cup {None, NotInt} :
           flags' = [flags EXCEPT ![name] = value]
    /\ inForce' = [p \in Points |-> IF at[p] = "end" THEN inForce[p] \cup {Range(flags')} ELSE inForce[p]]
    /\ changes' = [p \in Points |-> IF at[p] = "end" THEN changes[p] + 1 ELSE changes[p]]
    /\ UNCHANGED <<at, min, max, slept, overlapped, panicked>>

Goto(p, from, to) ==
    /\ ~panicked /\ at[p] = from
    /\ at' = [at EXCEPT ![p] = to]
    /\ UNCHANGED <<flags, sets, changes>>

\* Fault: the start is read once, when the service is made.
LoadStartOnce(p) ==
    /\ Goto(p, "start", "end")
    /\ min' = [min EXCEPT ![p] = 0]
    /\ inForce' = [inForce EXCEPT ![p] = {Range(flags)}]
    /\ UNCHANGED <<max, slept, overlapped, panicked>>

LoadStart(p) ==
    /\ Goto(p, "start", "end")
    /\ min' = [min EXCEPT ![p] = IntFeature(flags.start)]
    /\ inForce' = [inForce EXCEPT ![p] = {Range(flags)}]
    /\ UNCHANGED <<max, slept, overlapped, panicked>>

LoadEnd(p) ==
    /\ Goto(p, "end", "wait")
    /\ max' = [max EXCEPT ![p] = IntFeature(flags.end)]
    /\ UNCHANGED <<min, slept, overlapped, panicked, inForce>>

\* Fault: only the order of the two is checked.
DelayedUnsigned(p) == max[p] > min[p]

Delayed(p) == min[p] > 0 /\ max[p] > 0 /\ max[p] > min[p]

\* The argument of Intn, which must be positive.
Choices(p) == Wrap(max[p] - min[p] + 1)

\* Fault: the range starts at 1.
ChosenLow(p) == 1..max[p]

Chosen(p) == min[p]..(min[p] + Choices(p) - 1)

\* Intn enters the source: two at a time step its two positions together.
Draw(p) ==
    /\ Delayed(p) /\ Choices(p) > 0
    /\ Goto(p, "wait", "draw")
    /\ overlapped' = (overlapped \/ \E q \in Points : at[q] = "draw")
    /\ UNCHANGED <<min, max, slept, panicked, inForce>>

\* Intn refuses the length of the range.
Refuse(p) ==
    /\ Delayed(p) /\ Choices(p) <= 0
    /\ Goto(p, "wait", "done")
    /\ panicked' = TRUE
    /\ UNCHANGED <<min, max, slept, overlapped, inForce>>

DoNotWait(p) ==
    /\ ~Delayed(p)
    /\ Goto(p, "wait", "done")
    /\ UNCHANGED <<min, max, slept, overlapped, panicked, inForce>>

(***************************************************************************)
(* What comes out of the source is brought into the range whatever it is,  *)
(* but a position that two draws have stepped may be outside of the        *)
(* source, then and for good.  Recoverer is not in this goroutine: the     *)
(* panic ends the process.                                                 *)
(***************************************************************************)
Wait(p) ==
    /\ Goto(p, "draw", "done")
    /\ \/ /\ \E v \in Chosen(p) : slept' = [slept EXCEPT ![p] = Wrap(v * Milli)]
          /\ UNCHANGED panicked
       \/ /\ overlapped /\ panicked' = TRUE
          /\ UNCHANGED slept
    /\ UNCHANGED <<min, max, overlapped, inForce>>

\* The process has ended, or no flag is set any more and no call waits.
Ended ==
    /\ panicked \/ (sets = MaxSets /\ \A p \in Points : at[p] = "done")
    /\ UNCHANGED flagVars

Next ==
    \/ SetFeature \/ Ended
    \/ \E p \in Points :
           LoadStart(p) \/ LoadEnd(p) \/ DoNotWait(p) \/ Refuse(p) \/ Draw(p) \/ Wait(p)

Spec == Init /\ [][Next]_flagVars

-----------------------------------------------------------------------------
(* Properties. *)

(***************************************************************************)
(* A range that nobody has configured, the start of one and the end of     *)
(* another, is read only if flags are set twice while the call is between  *)
(* its two loads (track_handler.go, lines 130-131): one change of one flag *)
(* leaves every reader with a range that was in force.                     *)
(***************************************************************************)
TornNeedsTwoChanges ==
    \A p \in Points :
        at[p] \in {"wait", "draw", "done"} => <<min[p], max[p]>> \in inForce[p] \/ changes[p] >= 2

(***************************************************************************)
(* Whatever the flags are set to, negative, huge or the wrong way round,   *)
(* the length of the range does not overflow, and no delay ends the        *)
(* process before two calls have drawn at the same time (track_handler.go, *)
(* lines 134-135).                                                         *)
(***************************************************************************)
PanicNeedsOverlap == panicked => overlapped

(***************************************************************************)
(* A call that is delayed sleeps for a time within its range (lines        *)
(* 134-137), unless the end of the range is longer than a Duration can be: *)
(* then it may sleep for any time, or not at all.                          *)
(***************************************************************************)
SleepsWithinRange ==
    \A p \in Points :
        at[p] = "done" /\ ~panicked /\ Delayed(p) /\ max[p] * Milli <= MaxInt =>
            slept[p] \in min[p] * Milli .. max[p] * Milli

(***************************************************************************)
(* The delay of AddPoint is within a range that somebody set, whatever the *)
(* flags are changed to meanwhile, and ends the process only if calls draw *)
(* at the same time (track_handler.go, lines 129-143).                     *)
(***************************************************************************)
DelaysSound == TornNeedsTwoChanges /\ PanicNeedsOverlap /\ SleepsWithinRange

=============================================================================
