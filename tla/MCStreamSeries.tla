-------------------------- MODULE MCStreamSeries --------------------------
(* Model values for TLC. *)
EXTENDS StreamSeries, TLC

CONSTANTS r1, r2, r3, r4, h1, h2

Symmetry == Permutations(Requests) \cup Permutations(Handlers)
===========================================================================
