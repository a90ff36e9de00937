---------------------------- MODULE MCNegotiation ----------------------------
(* Model-checking support for Negotiation: requests are interchangeable,  *)
(* and so are negotiations.                                               *)
EXTENDS Negotiation, TLC

Symmetry == Permutations(Negotiations) \cup Permutations(Requests)
==============================================================================
