----------------------------- MODULE Handover -----------------------------
(***************************************************************************)
(* What the pipeline of a stream promises about an event, with none of the *)
(* machinery: the README's "Pipeline replacement" section and the comment  *)
(* on Generation.Retire in internal/pipeline/generation.go.                *)
(*                                                                         *)
(* An event is settled once it is published, once its publisher was told   *)
(* of a failure, or once the broker refused the batch it was in.  Between  *)
(* its acceptance and that moment exactly one generation holds it, and a   *)
(* generation whose retirement has completed holds nothing and never will. *)
(***************************************************************************)
CONSTANTS Events, Gens

VARIABLES
  held,     \* held[g]: events generation g has accepted and not yet settled
  settled,  \* events that reached their end
  closed    \* generations whose retirement has returned

handoverVars == <<held, settled, closed>>

Fresh(e) == e \notin settled /\ \A g \in Gens : e \notin held[g]

HandoverInit ==
  /\ held = [g \in Gens |-> {}]
  /\ settled = {}
  /\ closed = {}

\* A generation takes responsibility for an event.
Accept(g, e) ==
  /\ g \notin closed
  /\ Fresh(e)
  /\ held' = [held EXCEPT ![g] = @ \cup {e}]
  /\ UNCHANGED <<settled, closed>>

\* An event goes past the buffer.
Pass(e) ==
  /\ Fresh(e)
  /\ settled' = settled \cup {e}
  /\ UNCHANGED <<held, closed>>

\* A generation settles some of the events it holds, together.
Settle(g, E) ==
  /\ E \subseteq held[g]
  /\ held' = [held EXCEPT ![g] = @ \ E]
  /\ settled' = settled \cup E
  /\ UNCHANGED closed

\* A retirement returns.
Close(g) ==
  /\ held[g] = {}
  /\ closed' = closed \cup {g}
  /\ UNCHANGED <<held, settled>>

HandoverNext ==
  \/ \E g \in Gens, e \in Events : Accept(g, e)
  \/ \E e \in Events : Pass(e)
  \/ \E g \in Gens : \E E \in SUBSET Events : Settle(g, E)
  \/ \E g \in Gens : Close(g)

HandoverSpec == HandoverInit /\ [][HandoverNext]_handoverVars
===========================================================================
