--------------------------- MODULE MCRequestCache ---------------------------
(* RequestCache with interchangeable client requests and workers. *)
EXTENDS RequestCache, TLC

Symmetry == Permutations(Requests) \union Permutations(Workers)
=============================================================================
