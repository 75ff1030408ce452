-------------------------- MODULE MCStreamManager --------------------------
(* Small instances of StreamManager for TLC.                               *)
EXTENDS StreamManager, TLC

\* Requests are interchangeable, and so are pipeline configurations.
Symmetry == Permutations(Requests) \cup Permutations(Pipes)
============================================================================
