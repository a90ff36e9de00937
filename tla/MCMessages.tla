------------------------------- MODULE MCMessages -------------------------------
EXTENDS TaskStream, TLC

CONSTANTS a, b, m

(* Two sends to one agent without an id would be one envelope; two         *)
(* envelopes share an id; the last goes to the team.                       *)
MCEnvelopes ==
  {[content |-> 1, id |-> NoId, to |-> a], [content |-> 2, id |-> m, to |-> a],
   [content |-> 3, id |-> m, to |-> a], [content |-> 4, id |-> NoId, to |-> Team]}

Symmetry == Permutations(Sessions) \cup Permutations(Appenders) \cup Permutations(Readers)
===============================================================================
