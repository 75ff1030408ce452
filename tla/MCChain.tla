------------------------------ MODULE MCChain ------------------------------
(* Two numbers a Delta apart and the JSON value null.                     *)
EXTENDS Chain

CONSTANTS low, high, null

MCHashes == {low, high, null}
MCBody == [h \in MCHashes |-> h]
MCValue == (low :> 0) @@ (high :> 2) @@ (null :> NoValue)
============================================================================
