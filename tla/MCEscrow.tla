------------------------------- MODULE MCEscrow -------------------------------
(* Model-checking support for Escrow: identifiers are interchangeable.  The *)
(* listings are not: Init names one of them.                               *)
EXTENDS Escrow, TLC

Symmetry == Permutations(Escrows) \cup Permutations(Requests)
              \cup Permutations(Keys) \cup Permutations(Tasks)
================================================================================
