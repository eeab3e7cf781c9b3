---------------------------- MODULE MCFCGIServer ----------------------------
(* FCGIServer on small instances. *)
EXTENDS FCGIServer, TLC

\* Used by the runs without liveness properties only.
Symmetry == Permutations(Threads) \cup Permutations(Requests)
=============================================================================
