---------------------------- MODULE MCGeneration ----------------------------
(* A small instance of Generation for TLC.                                 *)
EXTENDS Generation, TLC

CONSTANTS g1, g2

\* The stream starts with batches of one, so that a second publisher parks on
\* the full channel, and is swapped to batches of two, which the ticker may
\* have to flush half full.
Sizes == (g1 :> 1) @@ (g2 :> 2)
=============================================================================
