--------------------------- MODULE MCSupervisor ---------------------------
(* Restart blocks for TLC: each field omitted, written well or written     *)
(* badly, and ladders whose ends cross with and without the defaults.      *)
EXTENDS Supervisor

MCBlocks ==
  {Omitted} \cup
  [max_attempts : {Omitted, -1, 0, 2}, initial_backoff : {Omitted, Malformed, 1, 3},
   max_backoff : {Omitted, 0, 1, 5}, factor : {0, -1, 1, 3}, reset_after : {Omitted, Malformed, 1}]
===========================================================================
