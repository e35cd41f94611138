--------------------------- MODULE MCWriteSafety ----------------------------
(* TLC instance of WriteSafety: two requests of every kind, over two sessions  *)
(* that may be logged out, and one restart of the backend.                     *)
EXTENDS WriteSafety

Symmetry == Permutations(Handlers) \cup Permutations(Sessions)
=============================================================================
