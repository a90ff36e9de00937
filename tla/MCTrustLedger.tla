----------------------------- MODULE MCTrustLedger -----------------------------
(* One agent is executor, flagged and endorsed; two others endorse it.     *)
EXTENDS TrustLedger, TLC
CONSTANTS a1, b1, c1

MCReported     == [d \in Disputes |-> a1]
MCObservations == {<<-1, 0>>, <<1, 2>>}
Symmetry   == Permutations({b1, c1}) \cup Permutations(Requests)
===============================================================================
