----------------------------- MODULE Lifecycle -----------------------------
(***************************************************************************)
(* The state machine of one stream that docs/LIFECYCLE.md section 2 draws, *)
(* with the edge connecting -> backoff that the drawing lacks and the code *)
(* has: a session may end before it was ever ready.  failed and stopped    *)
(* are terminal, a stop is the only way to stopped, and once a stop was    *)
(* asked for the stream is never reported failed.                          *)
(***************************************************************************)
VARIABLES
  life,  \* "connecting", "running", "backoff", "failed" or "stopped"
  stop   \* a removal or a shutdown has cancelled the stream

LifeInit == life = "connecting" /\ stop = FALSE

\* The edges taken without an operator.
Edge(a, b) == <<a, b>> \in { <<"connecting", "running">>, <<"connecting", "backoff">>,
                             <<"running", "backoff">>,    <<"backoff", "connecting">> }

Move    == \E b \in {"connecting", "running", "backoff"} :
             Edge(life, b) /\ life' = b /\ UNCHANGED stop
GiveUp  == life = "backoff" /\ ~stop /\ life' = "failed" /\ UNCHANGED stop
AskStop == life # "stopped" /\ ~stop /\ stop' = TRUE /\ UNCHANGED life
Stopped == life = "backoff" /\ stop /\ life' = "stopped" /\ UNCHANGED stop

LifeSpec == LifeInit /\ [][Move \/ GiveUp \/ AskStop \/ Stopped]_<<life, stop>>
============================================================================
