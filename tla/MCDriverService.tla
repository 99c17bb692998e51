--------------------------- MODULE MCDriverService ---------------------------
(***************************************************************************)
(* TLC instances of DriverService.                                         *)
(***************************************************************************)
EXTENDS DriverService, TLC

Symmetry == Permutations(Drivers) \cup Permutations(Nearby)
            \cup Permutations(Updates \ Nearby) \cup Permutations(Removals)
=============================================================================
