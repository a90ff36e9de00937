---------------------------- MODULE MCTaskLifecycle ----------------------------
(***************************************************************************)
(* Small instances of TaskLifecycle.  The configurations give the sets;    *)
(* symmetric sets hold model values that no property tells apart.          *)
(***************************************************************************)
EXTENDS TaskLifecycle, TLC

Symmetry == Permutations(DeliveryWorkers) \cup Permutations(ExpiryWorkers)
              \cup Permutations(Requests) \cup Permutations(Tasks)
================================================================================
