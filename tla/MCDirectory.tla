------------------------------ MODULE MCDirectory ------------------------------
(* A small instance of Directory.                                          *)
EXTENDS Directory, TLC

Symmetry == Permutations(Sessions)
================================================================================
