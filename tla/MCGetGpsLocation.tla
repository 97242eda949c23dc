-------------------------- MODULE MCGetGpsLocation ---------------------------
(* Small instances of GetGpsLocation: two callers, two names of two files, *)
(* at most two references left behind.                                     *)
EXTENDS GetGpsLocation, TLC

Symmetry ==
  Permutations(Callers) \cup Permutations(Names) \cup Permutations(Files)
=============================================================================
