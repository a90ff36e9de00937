------------------------------- MODULE MCStores -------------------------------
(***************************************************************************)
(* Four stores that requests read and write back, checked in one run: the  *)
(* counters Redis adds to, the usage a session of the database adds to,    *)
(* shared memory with its versions and grants, and the proofs of tasks.    *)
(* They share nothing, so each moves only while the others rest: the run   *)
(* visits the sum of their states, not the product.                        *)
(***************************************************************************)
EXTENDS RateLimit, UsageMetering, SharedMemory, PrivacyProofs, TLC

CONSTANTS u1, t1, t2

MCGrantLists == {{u1}, {t1, t2}}

(* A group with the residues of the real one: 2 is a square, 5 is not.     *)
MCHash(t, commitment, a0, a1) == (commitment + 2 * a0 + 3 * a1) % Q
MCParties == [t \in ProofTasks |-> {u1}]

Symmetry == Permutations(Requests) \cup Permutations(Calls) \cup Permutations(Sessions)

Init == RateInit /\ UsageInit /\ MemoryInit /\ ProofInit

Next ==
  \/ UsageInit /\ MemoryInit /\ ProofInit /\ RateNext /\ UNCHANGED <<usageVars, memoryVars, proofVars>>
  \/ RateInit /\ MemoryInit /\ ProofInit /\ UsageNext /\ UNCHANGED <<rateVars, memoryVars, proofVars>>
  \/ RateInit /\ UsageInit /\ ProofInit /\ MemoryNext /\ UNCHANGED <<rateVars, usageVars, proofVars>>
  \/ RateInit /\ UsageInit /\ MemoryInit /\ ProofNext /\ UNCHANGED <<rateVars, usageVars, memoryVars>>

Spec == Init /\ [][Next]_<<rateVars, usageVars, memoryVars, proofVars>>

(* The variables of all four keep their types.                             *)
StoresTypeOK == RateTypeOK /\ UsageTypeOK /\ MemoryTypeOK /\ ProofTypeOK
===============================================================================
