---------------------------- MODULE Generation ----------------------------
(***************************************************************************)
(* One stream's pipeline generations: the hot swap of                      *)
(* internal/server/manager.go (UpdatePipeline, Remove) over the retirement *)
(* handshake of internal/pipeline/generation.go and the batching worker of *)
(* internal/pipeline/batch.go.                                             *)
(*                                                                         *)
(* Every event is carried by one Publish call, a goroutine of its own: the *)
(* webhook and gRPC connectors publish concurrently, the others are a      *)
(* special case.  A caller is the goroutine of one PUT .../pipeline or one *)
(* DELETE request.  The middlewares in front of the batch stage only map   *)
(* or drop an event before it gets here and keep no goroutine; they are    *)
(* not part of this module.                                                *)
(***************************************************************************)
EXTENDS Integers, Sequences, Functions

CONSTANTS
  Events,        \* events, each published once by its connector
  Binary,        \* the events for which IsBinary() holds
  Late,          \* events of webhook handlers that outlive the shutdown grace
  Gens,          \* generation objects
  Batching,      \* the generations whose config enables the batch stage
  FirstGen,      \* the generation Register installed
  Callers,       \* PUT pipeline and DELETE requests
  MaxBatchSize,  \* per generation: batch.max_batch_size, also the capacity of eventCh
  None           \* no generation yet

ASSUME GenerationAssumption ==
  /\ Binary \subseteq Events
  /\ Late \subseteq Events
  /\ Batching \subseteq Gens
  /\ FirstGen \in Gens
  /\ None \notin Gens
  /\ MaxBatchSize \in [Gens -> Nat \ {0}]

VARIABLES
  ref,        \* the stream's atomic.Pointer[Generation]
  installed,  \* the manager's maps still hold the stream
  over,       \* the supervisor has returned (its done channel is closed)
  built,      \* generations NewGeneration has returned
  cancelled,  \* generations whose context is cancelled
  sealed,     \* generations whose sealed channel is closed
  buf,        \* buf[g]: the contents of g's eventCh
  batch,      \* batch[g]: the worker's local batch slice
  wpc,        \* control state of g's batch worker
  ppc,        \* control state of the Publish call that carries e
  pgen,       \* the generation that call loaded
  result,     \* what Publish returned to the connector
  cop, cpc,   \* a caller's operation and its control state
  cgen,       \* the generation a caller has built or is retiring
  accepted,   \* history: events that entered a batch buffer
  published,  \* history: times the broker acknowledged e
  discarded   \* history: events of a batch whose flush failed

pubVars  == <<ppc, pgen, result>>
callVars == <<cop, cpc, cgen>>
outVars  == <<published, discarded>>
genVars  == <<cancelled, sealed, built>>
vars == <<ref, installed, over, built, cancelled, sealed, buf, batch, wpc,
          ppc, pgen, result, cop, cpc, cgen, accepted, published, discarded>>

InChain    == {"entered", "select", "forward", "unlock"}
RetireSteps == {"cancel", "announce", "lock", "unlock", "wait"}

\* Publish calls that hold g.inFlight for reading.
Readers(g) == {e \in Events : pgen[e] = g /\ ppc[e] \in InChain}

\* A writer has called g.inFlight.Lock and not yet Unlock: sync.RWMutex lets
\* no new reader in from the moment the writer waits.
WriterWaiting(g) == \E c \in Callers : cgen[c] = g /\ cpc[c] \in {"lock", "unlock"}

\* Remove holds m.mu from its first statement to its last.
MuFree == \A c \in Callers :
            ~(cop[c] = "remove" /\ cpc[c] \in RetireSteps \cup {"stopping"})

Init ==
  /\ ref = FirstGen
  /\ installed = TRUE
  /\ over = FALSE
  /\ built = {FirstGen}
  /\ cancelled = {}
  /\ sealed = {}
  /\ buf = [g \in Gens |-> <<>>]
  /\ batch = [g \in Gens |-> <<>>]
  /\ wpc = [g \in Gens |-> IF g \in Batching \cap {FirstGen} THEN "run" ELSE "absent"]
  /\ ppc = [e \in Events |-> "new"]
  /\ pgen = [e \in Events |-> None]
  /\ result = [e \in Events |-> "none"]
  /\ cop = [c \in Callers |-> "none"]
  /\ cpc = [c \in Callers |-> "idle"]
  /\ cgen = [c \in Callers |-> None]
  /\ accepted = {}
  /\ published = [e \in Events |-> 0]
  /\ discarded = {}

---------------------------------------------------------------------------
(* The Publish call of event e.                                            *)

\* instrumentedPublish loads the current generation.  Once the supervisor has
\* returned only a handler that outlived the connector's shutdown still can.
Load(e) ==
  /\ ppc[e] = "new"
  /\ over => e \in Late
  /\ ppc' = [ppc EXCEPT ![e] = "loaded"]
  /\ pgen' = [pgen EXCEPT ![e] = ref]
  /\ UNCHANGED <<ref, installed, over, buf, batch, wpc, result, accepted,
                 genVars, callVars, outVars>>

\* g.inFlight.RLock.
RLock(e) ==
  /\ ppc[e] = "loaded"
  /\ ~WriterWaiting(pgen[e])
  /\ ppc' = [ppc EXCEPT ![e] = "entered"]
  /\ UNCHANGED <<ref, installed, over, buf, batch, wpc, pgen, result, accepted,
                 genVars, callVars, outVars>>

\* Mutant: the handler does not look at gen.Err().
DispatchIgnoresErr(e) ==
  /\ ppc[e] = "entered"
  /\ ppc' = [ppc EXCEPT ![e] = IF e \in Binary \/ pgen[e] \notin Batching
                               THEN "forward" ELSE "select"]
  /\ UNCHANGED <<ref, installed, over, buf, batch, wpc, pgen, result, accepted,
                 genVars, callVars, outVars>>

\* The batch handler up to its select: a binary event, a chain without a batch
\* stage and a cancelled generation all go straight to next.
Dispatch(e) ==
  LET unbatched == \/ e \in Binary
                   \/ pgen[e] \notin Batching
                   \/ pgen[e] \in cancelled
  IN
  /\ ppc[e] = "entered"
  /\ ppc' = [ppc EXCEPT ![e] = IF unbatched THEN "forward" ELSE "select"]
  /\ UNCHANGED <<ref, installed, over, buf, batch, wpc, pgen, result, accepted,
                 genVars, callVars, outVars>>

\* The send case of the select: there is room in the channel.
Buffer(e) ==
  /\ ppc[e] = "select"
  /\ Len(buf[pgen[e]]) < MaxBatchSize[pgen[e]]
  /\ buf' = [buf EXCEPT ![pgen[e]] = Append(@, e)]
  /\ accepted' = accepted \cup {e}
  /\ result' = [result EXCEPT ![e] = "nil"]
  /\ ppc' = [ppc EXCEPT ![e] = "unlock"]
  /\ UNCHANGED <<ref, installed, over, batch, wpc, pgen, genVars, callVars, outVars>>

\* Mutant: the select has no Done case.
ReleaseMissing(e) == FALSE /\ UNCHANGED vars

\* The Done case of the select releases a call parked on a full buffer.
Release(e) ==
  /\ ppc[e] = "select"
  /\ pgen[e] \in cancelled
  /\ ppc' = [ppc EXCEPT ![e] = "forward"]
  /\ UNCHANGED <<ref, installed, over, buf, batch, wpc, pgen, result, accepted,
                 genVars, callVars, outVars>>

\* next(topic, event): the broker takes the event, or its error goes back to
\* the connector.
Forward(e) ==
  /\ ppc[e] = "forward"
  /\ \/ /\ published' = [published EXCEPT ![e] = @ + 1]
        /\ result' = [result EXCEPT ![e] = "nil"]
     \/ /\ published' = published
        /\ result' = [result EXCEPT ![e] = "err"]
  /\ ppc' = [ppc EXCEPT ![e] = "unlock"]
  /\ UNCHANGED <<ref, installed, over, buf, batch, wpc, pgen, accepted, discarded,
                 genVars, callVars>>

\* The deferred g.inFlight.RUnlock.
RUnlock(e) ==
  /\ ppc[e] = "unlock"
  /\ ppc' = [ppc EXCEPT ![e] = "done"]
  /\ UNCHANGED <<ref, installed, over, buf, batch, wpc, pgen, result, accepted,
                 genVars, callVars, outVars>>

---------------------------------------------------------------------------
(* The batch worker of generation g.                                       *)

\* flush on the batch b: next publishes it as one message, or fails and the
\* batch is dropped with a log line.  An empty batch publishes nothing.
FlushOf(b) ==
  \/ /\ published' = [e \in Events |-> IF e \in Range(b) THEN published[e] + 1
                                                         ELSE published[e]]
     /\ UNCHANGED discarded
  \/ /\ b # <<>>
     /\ discarded' = discarded \cup Range(b)
     /\ UNCHANGED published

\* Mutant: the batch is flushed one event too late.
TakeLate(g) ==
  LET b == Append(batch[g], Head(buf[g]))
  IN
  /\ buf[g] # <<>>
  /\ buf' = [buf EXCEPT ![g] = Tail(@)]
  /\ IF Len(b) > MaxBatchSize[g]
       THEN FlushOf(b) /\ batch' = [batch EXCEPT ![g] = <<>>]
       ELSE batch' = [batch EXCEPT ![g] = b] /\ UNCHANGED outVars
  /\ UNCHANGED <<ref, installed, over, wpc, accepted, genVars, pubVars, callVars>>

\* Receive one event from eventCh, flushing when the batch is full.
Take(g) ==
  LET b == Append(batch[g], Head(buf[g]))
  IN
  /\ buf[g] # <<>>
  /\ buf' = [buf EXCEPT ![g] = Tail(@)]
  /\ \/ /\ Len(b) >= MaxBatchSize[g]
        /\ FlushOf(b)
        /\ batch' = [batch EXCEPT ![g] = <<>>]
     \/ /\ Len(b) < MaxBatchSize[g]
        /\ batch' = [batch EXCEPT ![g] = b]
        /\ UNCHANGED outVars
  /\ UNCHANGED <<ref, installed, over, wpc, accepted, genVars, pubVars, callVars>>

Receive(g) ==
  /\ wpc[g] = "run"
  /\ Take(g)

\* Mutants: the flush keeps the batch; the ticker is never read.
TickKeepsBatch(g) ==
  /\ wpc[g] = "run"
  /\ batch[g] # <<>>
  /\ FlushOf(batch[g])
  /\ UNCHANGED <<ref, installed, over, buf, batch, wpc, accepted, genVars, pubVars,
                 callVars>>

TickMissing(g) == FALSE /\ UNCHANGED vars

\* The flush ticker fires.
Tick(g) ==
  /\ wpc[g] = "run"
  /\ batch[g] # <<>>
  /\ FlushOf(batch[g])
  /\ batch' = [batch EXCEPT ![g] = <<>>]
  /\ UNCHANGED <<ref, installed, over, buf, wpc, accepted, genVars, pubVars, callVars>>

\* The Done case of the worker's select; it then waits to be sealed.
SeeDone(g) ==
  /\ wpc[g] = "run"
  /\ g \in cancelled
  /\ wpc' = [wpc EXCEPT ![g] = "await"]
  /\ UNCHANGED <<ref, installed, over, buf, batch, accepted, genVars, pubVars,
                 callVars, outVars>>

\* Mutant: the worker drains as soon as it is cancelled.
SeeSealedEarly(g) ==
  /\ wpc[g] = "await"
  /\ wpc' = [wpc EXCEPT ![g] = "drain"]
  /\ UNCHANGED <<ref, installed, over, buf, batch, accepted, genVars, pubVars,
                 callVars, outVars>>

\* The sealed channel is closed: nothing more can enter eventCh.
SeeSealed(g) ==
  /\ wpc[g] = "await"
  /\ g \in sealed
  /\ wpc' = [wpc EXCEPT ![g] = "drain"]
  /\ UNCHANGED <<ref, installed, over, buf, batch, accepted, genVars, pubVars,
                 callVars, outVars>>

\* drainAndFlush: receive while there is something buffered ...
Drain(g) ==
  /\ wpc[g] = "drain"
  /\ Take(g)

\* ... and on an empty channel flush what is left and exit.
DrainExit(g) ==
  /\ wpc[g] = "drain"
  /\ buf[g] = <<>>
  /\ FlushOf(batch[g])
  /\ batch' = [batch EXCEPT ![g] = <<>>]
  /\ wpc' = [wpc EXCEPT ![g] = "exited"]
  /\ UNCHANGED <<ref, installed, over, buf, accepted, genVars, pubVars, callVars>>

---------------------------------------------------------------------------
(* The management requests.                                                *)

\* UpdatePipeline finds the stream and builds the replacement outside m.mu.
Build(c) ==
  /\ cpc[c] = "idle"
  /\ MuFree
  /\ installed
  /\ \E g \in Gens \ built :
       /\ built' = built \cup {g}
       /\ cgen' = [cgen EXCEPT ![c] = g]
       /\ wpc' = [wpc EXCEPT ![g] = IF g \in Batching THEN "run" ELSE "absent"]
  /\ cop' = [cop EXCEPT ![c] = "update"]
  /\ cpc' = [cpc EXCEPT ![c] = "built"]
  /\ UNCHANGED <<ref, installed, over, cancelled, sealed, buf, batch, accepted,
                 pubVars, outVars>>

\* Under m.mu, the config stored: swap the pointer; the previous generation
\* is the one to retire, after the unlock.
Swap(c) ==
  /\ cpc[c] = "built"
  /\ MuFree
  /\ installed
  /\ ref' = cgen[c]
  /\ cgen' = [cgen EXCEPT ![c] = ref]
  /\ cpc' = [cpc EXCEPT ![c] = "cancel"]
  /\ UNCHANGED <<installed, over, buf, batch, wpc, cop, accepted, genVars, pubVars,
                 outVars>>

\* Mutant: the replacement is not retired.
AbandonLeaks(c) ==
  /\ cpc[c] = "built"
  /\ MuFree
  /\ cpc' = [cpc EXCEPT ![c] = "returned"]
  /\ UNCHANGED <<ref, installed, over, buf, batch, wpc, cop, cgen, accepted,
                 genVars, pubVars, outVars>>

\* Under m.mu, the stream removed meanwhile or the store refusing the write:
\* the replacement was never installed and is retired instead.
Abandon(c) ==
  /\ cpc[c] = "built"
  /\ MuFree
  /\ cpc' = [cpc EXCEPT ![c] = "cancel"]
  /\ UNCHANGED <<ref, installed, over, buf, batch, wpc, cop, cgen, accepted,
                 genVars, pubVars, outVars>>

\* Remove, the config deleted from the store: cancel the stream's context and
\* wait for its supervisor.
Remove(c) ==
  /\ cpc[c] = "idle"
  /\ MuFree
  /\ installed
  /\ cop' = [cop EXCEPT ![c] = "remove"]
  /\ cpc' = [cpc EXCEPT ![c] = "stopping"]
  /\ UNCHANGED <<ref, installed, over, buf, batch, wpc, cgen, accepted, genVars,
                 pubVars, outVars>>

\* The session ends when its publish calls have returned, but for handlers
\* the webhook server gave up waiting for.  Then the current generation is
\* retired.
SessionOver(c) ==
  /\ cpc[c] = "stopping"
  /\ \A e \in Events \ Late : ppc[e] \in {"new", "done"}
  /\ over' = TRUE
  /\ cgen' = [cgen EXCEPT ![c] = ref]
  /\ cpc' = [cpc EXCEPT ![c] = "cancel"]
  /\ UNCHANGED <<ref, installed, buf, batch, wpc, cop, accepted, genVars, pubVars,
                 outVars>>

\* Retire, step 1: cancel.
Cancel(c) ==
  /\ cpc[c] = "cancel"
  /\ cancelled' = cancelled \cup {cgen[c]}
  /\ cpc' = [cpc EXCEPT ![c] = "announce"]
  /\ UNCHANGED <<ref, installed, over, built, sealed, buf, batch, wpc, cop, cgen,
                 accepted, pubVars, outVars>>

\* Retire, step 2: call inFlight.Lock ...
Announce(c) ==
  /\ cpc[c] = "announce"
  /\ cpc' = [cpc EXCEPT ![c] = "lock"]
  /\ UNCHANGED <<ref, installed, over, buf, batch, wpc, cop, cgen, accepted,
                 genVars, pubVars, outVars>>

\* Mutant: seal without waiting for the readers.
SealUnlocked(c) ==
  /\ cpc[c] = "lock"
  /\ sealed' = sealed \cup {cgen[c]}
  /\ cpc' = [cpc EXCEPT ![c] = "unlock"]
  /\ UNCHANGED <<ref, installed, over, built, cancelled, buf, batch, wpc, cop, cgen,
                 accepted, pubVars, outVars>>

\* ... which is granted once every reader has left, and seal under it.
Seal(c) ==
  /\ cpc[c] = "lock"
  /\ Readers(cgen[c]) = {}
  /\ sealed' = sealed \cup {cgen[c]}
  /\ cpc' = [cpc EXCEPT ![c] = "unlock"]
  /\ UNCHANGED <<ref, installed, over, built, cancelled, buf, batch, wpc, cop, cgen,
                 accepted, pubVars, outVars>>

Unlock(c) ==
  /\ cpc[c] = "unlock"
  /\ cpc' = [cpc EXCEPT ![c] = "wait"]
  /\ UNCHANGED <<ref, installed, over, buf, batch, wpc, cop, cgen, accepted,
                 genVars, pubVars, outVars>>

\* Retire, step 3: every worker has exited.  Remove then forgets the stream.
Return(c) ==
  /\ cpc[c] = "wait"
  /\ wpc[cgen[c]] \in {"absent", "exited"}
  /\ cpc' = [cpc EXCEPT ![c] = "returned"]
  /\ installed' = (installed /\ cop[c] # "remove")
  /\ UNCHANGED <<ref, over, buf, batch, wpc, cop, cgen, accepted, genVars, pubVars,
                 outVars>>

---------------------------------------------------------------------------
\* All requests answered and every call back: the system may rest.
Rest ==
  /\ \A e \in Events : ppc[e] = "done" \/ (ppc[e] = "new" /\ over)
  /\ \A c \in Callers : cpc[c] \in {"idle", "returned"}
  /\ \A g \in Gens : buf[g] = <<>> /\ batch[g] = <<>>
  /\ UNCHANGED vars

PublishStep(e) == \/ Load(e) \/ RLock(e) \/ Dispatch(e) \/ Buffer(e)
                  \/ Release(e) \/ Forward(e) \/ RUnlock(e)

WorkerStep(g) == \/ Receive(g) \/ Tick(g) \/ SeeDone(g) \/ SeeSealed(g)
                 \/ Drain(g) \/ DrainExit(g)

RetireStep(c) == \/ SessionOver(c) \/ Cancel(c) \/ Announce(c) \/ Seal(c)
                 \/ Unlock(c) \/ Return(c)

CallerStep(c) == \/ Build(c) \/ Swap(c) \/ Abandon(c) \/ Remove(c) \/ RetireStep(c)

Next == \/ \E e \in Events : PublishStep(e)
        \/ \E g \in Gens : WorkerStep(g)
        \/ \E c \in Callers : CallerStep(c)
        \/ Rest

Spec == Init /\ [][Next]_vars

(***************************************************************************)
(* Goroutines that can run do run.  A Publish call that has started is     *)
(* carried through, a worker's select does not ignore a ready case for     *)
(* ever (Go picks among ready cases at random), and a request past its     *)
(* build finishes.  Nobody has to send a request or an event.              *)
(***************************************************************************)
Fairness ==
  /\ \A e \in Events : /\ WF_vars(RLock(e) \/ Dispatch(e) \/ Forward(e) \/ RUnlock(e))
                       /\ WF_vars(Buffer(e) \/ Release(e))
  /\ \A g \in Gens : /\ WF_vars(Receive(g) \/ Drain(g))
                     /\ WF_vars(Tick(g) \/ DrainExit(g))
                     /\ WF_vars(SeeDone(g) \/ SeeSealed(g))
  /\ \A c \in Callers : WF_vars(Swap(c) \/ Abandon(c) \/ RetireStep(c))

FairSpec == Spec /\ Fairness

---------------------------------------------------------------------------
(* Properties.                                                             *)

\* Types of the variables.  A channel never holds more than its capacity, and
\* between two steps of the worker its batch is below the flush threshold.
TypeOK ==
  /\ ref \in Gens
  /\ installed \in BOOLEAN
  /\ over \in BOOLEAN
  /\ built \in SUBSET Gens
  /\ cancelled \in SUBSET Gens
  /\ sealed \in SUBSET Gens
  /\ buf \in [Gens -> Seq(Events)]
  /\ batch \in [Gens -> Seq(Events)]
  /\ wpc \in [Gens -> {"absent", "run", "await", "drain", "exited"}]
  /\ ppc \in [Events -> InChain \cup {"new", "loaded", "done"}]
  /\ pgen \in [Events -> Gens \cup {None}]
  /\ result \in [Events -> {"none", "nil", "err"}]
  /\ cop \in [Callers -> {"none", "update", "remove"}]
  /\ cpc \in [Callers -> RetireSteps \cup {"idle", "built", "stopping", "returned"}]
  /\ cgen \in [Callers -> Gens \cup {None}]
  /\ accepted \in SUBSET Events
  /\ published \in [Events -> Nat]
  /\ discarded \in SUBSET Events
  /\ \A g \in Gens : Len(buf[g]) <= MaxBatchSize[g] /\ Len(batch[g]) < MaxBatchSize[g]

\* Generations Retire has returned for.
Retired == {g \in Gens : \E c \in Callers : cgen[c] = g /\ cpc[c] = "returned"}

\* Retire "returns once every such event has been handed downstream"
\* (generation.go): when it has returned, each event that entered the
\* generation's buffer was published, or its batch's flush failed.
RetireIsLossless ==
  \A e \in accepted : pgen[e] \in Retired => published[e] = 1 \/ e \in discarded

\* No event is published twice, whichever of the two paths of the batch
\* handler it takes and however the swap interleaves with it, nor is it twice
\* in one batch; and an event whose publisher was told of a failure, or whose
\* batch was dropped, is not published as well by the other path.
PublishedAtMostOnce ==
  /\ \A e \in Events : /\ published[e] <= 1
                       /\ result[e] = "err" \/ e \in discarded => published[e] = 0
  /\ \A g \in Gens : \A i, j \in DOMAIN batch[g] : batch[g][i] = batch[g][j] => i = j

\* A nil answer is kept: the event is published, sits where a live worker will
\* still flush it, or was in a batch the broker refused (batch.go: an accepted
\* event was reported to the source as published).
AcknowledgedIsHeld ==
  \A e \in Events :
    result[e] = "nil" =>
      \/ published[e] = 1
      \/ e \in discarded
      \/ /\ e \in Range(buf[pgen[e]]) \cup Range(batch[pgen[e]])
         /\ wpc[pgen[e]] \notin {"absent", "exited"}

\* Sealed: "no publisher can reach a buffering middleware again" - a sealed
\* generation's channel only ever empties.
SealedOnlyDrains ==
  [][\A g \in sealed : Len(buf'[g]) <= Len(buf[g])]_vars

\* No generation is retired by two requests, and while the stream is installed
\* only Remove retires the generation publishers are pointed at.
SoleRetirer ==
  /\ \A c, d \in Callers :
       cpc[c] \in RetireSteps \cup {"returned"} /\ cpc[d] \in RetireSteps \cup {"returned"}
         /\ cgen[c] = cgen[d] => c = d
  /\ \A c \in Callers :
       cpc[c] \in RetireSteps \cup {"returned"} /\ cgen[c] = ref => cop[c] = "remove"

\* Retire terminates: no parked publisher, full buffer or pending reader keeps
\* a request waiting for ever.
RetireReturns ==
  \A c \in Callers : cpc[c] \in RetireSteps \cup {"stopping"} ~> cpc[c] = "returned"

\* An accepted event does not stay buffered: by size, by ticker or by the final
\* drain its batch is flushed.
AcceptedIsFlushed ==
  \A e \in Events : e \in accepted ~> (published[e] = 1 \/ e \in discarded)

\* Every generation NewGeneration returned ends up installed or with its worker
\* gone, the abandoned ones included (generation.go: "the caller owns retirement").
NoWorkerLeaks ==
  \A g \in Gens :
    g \in built ~> ((ref = g /\ installed) \/ wpc[g] \in {"absent", "exited"})

\* The handshake implements the promise of module Handover.
HeldBy == [g \in Gens |-> Range(buf[g]) \cup Range(batch[g])]
Settled == {e \in Events : published[e] > 0 \/ e \in discarded \/ result[e] = "err"}

H == INSTANCE Handover WITH held <- HeldBy, settled <- Settled, closed <- Retired

\* Every behaviour of the generations is one of the abstract handover: each
\* event accepted is held by one generation until it is settled, once, and
\* nothing is held by a retired one (generation.go, Retire).
ImplementsHandover == H!HandoverSpec
=============================================================================
