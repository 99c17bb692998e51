------------------------------ MODULE OrderLedger ------------------------------
(***************************************************************************)
(* What the services of lesson_11 promise together about an order, however *)
(* many of them fail: nothing is shipped that has not been charged for,    *)
(* nothing is accounted that has not been shipped, nothing is taken back.  *)
(***************************************************************************)
CONSTANT Orders

VARIABLES charged, shipped, accounted

ledger == <<charged, shipped, accounted>>

Init == charged = {} /\ shipped = {} /\ accounted = {}

Charge(o) == charged' = charged \cup {o} /\ UNCHANGED <<shipped, accounted>>

Ship(o) == o \in charged /\ shipped' = shipped \cup {o} /\ UNCHANGED <<charged, accounted>>

\* Orders may be written to the books several at a time.
Account(S) == S \subseteq shipped /\ accounted' = accounted \cup S /\ UNCHANGED <<charged, shipped>>

Next ==
    \/ \E o \in Orders : Charge(o) \/ Ship(o)
    \/ \E S \in SUBSET Orders : Account(S)

Spec == Init /\ [][Next]_ledger

=============================================================================
