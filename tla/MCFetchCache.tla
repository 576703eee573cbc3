---------------------------- MODULE MCFetchCache ----------------------------
(* FetchCache for TLC: the values of the constants are in the cfg files.   *)
EXTENDS FetchCache

(* Calls and urls are interchangeable; used by the runs without liveness.  *)
Symmetry == Permutations(Calls) \cup Permutations(Urls)
=============================================================================
