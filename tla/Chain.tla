------------------------------- MODULE Chain -------------------------------
(***************************************************************************)
(* The middlewares of one generation as concurrent publishers run through  *)
(* them: filter, transform, dedup, enrich, threshold, batch, in the order  *)
(* of internal/pipeline/builder.go.  The goroutines are a webhook's        *)
(* handlers, or those of another source.                                   *)
(*                                                                         *)
(* The stages meet in their locks: dedup holds its mutex across next, so   *)
(* that everything behind it runs one call at a time; threshold lets go of *)
(* its own before next; batch parks on a full channel until its worker     *)
(* makes room or the generation is cancelled.  Module Generation has the   *)
(* handshake of the retirement and the binary events, which no worker      *)
(* touches; here events are JSON ones, and a retirement is a cancel, then  *)
(* a seal once no call is inside.                                          *)
(***************************************************************************)
EXTENDS Dedup

CONSTANTS
  Publishers,  \* goroutines that publish
  Events,      \* the events that pass the filter (the others change nothing)
  Body,        \* Body[e]: the hash of e's body after transform
  Null,        \* bodies that are the JSON value null
  Value,       \* Value[h]: the number at threshold.path, NaN, or NoValue
  NaN,         \* what ParseFloat makes of the string "NaN"
  NoValue,     \* no number there, no group, or no value yet: passed through
  Delta,       \* threshold.delta
  Buffer,      \* batch.max_batch_size, the capacity of eventCh
  Free         \* nobody holds the dedup mutex

ASSUME ChainAssumption ==
  /\ Body \in [Events -> Hashes] /\ Null \subseteq Hashes
  /\ Value \in [Hashes -> Int \cup {NaN, NoValue}]
  /\ NaN \notin Int /\ NoValue \notin Int /\ NaN # NoValue
  /\ Delta \in Nat /\ Buffer \in Nat \ {0}
  /\ Free \notin Publishers

VARIABLES
  stages,   \* the optional stages the config builds
  gen,      \* the generation: live, cancelled or sealed; "dead" with the process
  mutex,    \* who holds the dedup mutex
  pc,       \* the stage a publisher's call stands before
  body,     \* the hash of the event it carries, Never when it has none
  lastVal,  \* the threshold stage's state of the one group
  eventCh,  \* how many events are in the batch channel
  emitted   \* history: the last number offered to eventCh or to the broker

callVars == <<pc, body>>
vars == <<now, cacheVars, stages, gen, mutex, callVars, lastVal, eventCh, emitted>>

\* buildFromConfig: each stage is there or not, as the config says.
Init ==
  /\ CacheInit
  /\ stages \in SUBSET {"dedup", "enrich", "threshold", "batch"}
  /\ gen = "live"
  /\ mutex = Free
  /\ pc = [p \in Publishers |-> "idle"]
  /\ body = [p \in Publishers |-> Never]
  /\ lastVal = NoValue
  /\ eventCh = 0
  /\ emitted = NoValue

Goto(p, l) == pc' = [pc EXCEPT ![p] = l]

\* The call returns through every stage: their deferred unlocks run.
Return(p) ==
  /\ Goto(p, "idle")
  /\ body' = [body EXCEPT ![p] = Never]
  /\ mutex' = IF mutex = p THEN Free ELSE mutex

\* Only dedup reads the clock, when it has just got its mutex: a tick at another
\* moment may as well come before that.
Tick ==
  /\ now < MaxTime
  /\ "dedup" \in stages /\ mutex = Free
  /\ now' = now + 1
  /\ UNCHANGED <<cacheVars, stages, gen, mutex, callVars, lastVal, eventCh, emitted>>

\* Publish takes the generation's read lock and calls the chain with an event that
\* the filter lets by; transform makes its body what the later stages see.
Enter(p) ==
  /\ pc[p] = "idle"
  /\ \E e \in Events : body' = [body EXCEPT ![p] = Body[e]]
  /\ Goto(p, IF "dedup" \in stages THEN "dedup" ELSE "enrich")
  /\ UNCHANGED <<now, cacheVars, stages, gen, mutex, lastVal, eventCh, emitted>>

\* The duplicate is dropped and its source told nil.
DedupDrop(p) ==
  /\ pc[p] = "dedup"
  /\ mutex = Free
  /\ Drop(body[p])
  /\ Goto(p, "idle")
  /\ body' = [body EXCEPT ![p] = Never]
  /\ UNCHANGED <<now, stages, gen, mutex, lastVal, eventCh, emitted>>

\* Mutant: the mutex is released before next is called.
DedupPassUnlocks(p) ==
  /\ pc[p] = "dedup"
  /\ mutex = Free
  /\ Pass(body[p])
  /\ Goto(p, "enrich")
  /\ UNCHANGED <<now, stages, gen, mutex, body, lastVal, eventCh, emitted>>

\* Marked as seen, and on to next with the mutex held.
DedupPass(p) ==
  /\ pc[p] = "dedup"
  /\ mutex = Free
  /\ Pass(body[p])
  /\ mutex' = p
  /\ Goto(p, "enrich")
  /\ UNCHANGED <<now, stages, gen, body, lastVal, eventCh, emitted>>

\* enrich parses null into a nil map without an error and then writes to it.
EnrichFails(p) == "enrich" \in stages /\ body[p] \in Null

\* Mutant: the mutex is unlocked after next instead of deferred.
EnrichPanicsLocked(p) ==
  /\ pc[p] = "enrich"
  /\ EnrichFails(p)
  /\ Goto(p, "idle")
  /\ body' = [body EXCEPT ![p] = Never]
  /\ UNCHANGED <<now, cacheVars, stages, gen, mutex, lastVal, eventCh, emitted>>

\* The panic unwinds the call; in a webhook's handler net/http recovers it and drops
\* the connection.  Which source calls is left open at each panic.
EnrichPanics(p) ==
  /\ pc[p] = "enrich"
  /\ EnrichFails(p)
  /\ Return(p)
  /\ UNCHANGED <<now, cacheVars, stages, gen, lastVal, eventCh, emitted>>

\* In the goroutine of any other source nothing recovers it: the process ends.
EnrichKills(p) ==
  /\ pc[p] = "enrich"
  /\ EnrichFails(p)
  /\ gen' = "dead"
  /\ UNCHANGED <<now, cacheVars, stages, mutex, callVars, lastVal, eventCh, emitted>>

\* The float comparison of threshold: with NaN on either side it is false.
Moved(v, w) == NaN \notin {v, w} /\ (v - w >= Delta \/ w - v >= Delta)

\* What p carries has a number for the threshold stage.
Compared(p) == "threshold" \in stages /\ Value[body[p]] # NoValue

\* ... that is not the first of its group and no Delta away from the last one.
TooClose(p) == Compared(p) /\ lastVal # NoValue /\ ~Moved(Value[body[p]], lastVal)

\* threshold: nothing to compare, the first value of its group, or far enough from
\* the last one.  Its mutex is released before next, so others may decide now.
ThresholdPass(p) ==
  /\ pc[p] = "enrich"
  /\ ~EnrichFails(p)
  /\ ~TooClose(p)
  /\ lastVal' = IF Compared(p) THEN Value[body[p]] ELSE lastVal
  /\ Goto(p, IF "batch" \in stages THEN "batch" ELSE "next")
  /\ UNCHANGED <<now, cacheVars, stages, gen, mutex, body, eventCh, emitted>>

ThresholdDrop(p) ==
  /\ pc[p] = "enrich"
  /\ ~EnrichFails(p)
  /\ TooClose(p)
  /\ Return(p)
  /\ UNCHANGED <<now, cacheVars, stages, gen, lastVal, eventCh, emitted>>

\* The batch handler looks at gen.Err.
BatchCheck(p) ==
  /\ pc[p] = "batch"
  /\ Goto(p, IF gen = "live" THEN "select" ELSE "next")
  /\ UNCHANGED <<now, cacheVars, stages, gen, mutex, body, lastVal, eventCh, emitted>>

\* History: the event leaves the stages that decide.
Emit(p) == emitted' = IF Compared(p) THEN Value[body[p]] ELSE emitted

\* Its select: room in the channel ...
BatchSend(p) ==
  /\ pc[p] = "select"
  /\ eventCh < Buffer
  /\ eventCh' = eventCh + 1
  /\ Emit(p)
  /\ Return(p)
  /\ UNCHANGED <<now, cacheVars, stages, gen, lastVal>>

\* ... or Done.
BatchDone(p) ==
  /\ pc[p] = "select"
  /\ gen # "live"
  /\ Goto(p, "next")
  /\ UNCHANGED <<now, cacheVars, stages, gen, mutex, body, lastVal, eventCh, emitted>>

\* The broker takes the event ...
Forward(p) ==
  /\ pc[p] = "next"
  /\ Emit(p)
  /\ Return(p)
  /\ UNCHANGED <<now, cacheVars, stages, gen, lastVal, eventCh>>

\* ... or does not, and the error goes back to the source.
Refuse(p) ==
  /\ pc[p] = "next"
  /\ Emit(p)
  /\ Goto(p, "refused")
  /\ UNCHANGED <<now, cacheVars, stages, gen, mutex, body, lastVal, eventCh>>

\* No stage takes back what it noted of the event.
Refused(p) ==
  /\ pc[p] = "refused"
  /\ Return(p)
  /\ UNCHANGED <<now, cacheVars, stages, gen, lastVal, eventCh, emitted>>

\* The worker receives, and flushes when it has to.
Worker ==
  /\ eventCh > 0
  /\ eventCh' = eventCh - 1
  /\ UNCHANGED <<now, cacheVars, stages, gen, mutex, callVars, lastVal, emitted>>

\* Retire: cancel, and seal when no call is inside.
Cancel ==
  /\ gen = "live"
  /\ gen' = "cancelled"
  /\ UNCHANGED <<now, cacheVars, stages, mutex, callVars, lastVal, eventCh, emitted>>

Seal ==
  /\ gen = "cancelled"
  /\ \A p \in Publishers : pc[p] = "idle"
  /\ gen' = "sealed"
  /\ UNCHANGED <<now, cacheVars, stages, mutex, callVars, lastVal, eventCh, emitted>>

\* The next step of p's call.
Step(p) ==
  \/ DedupDrop(p) \/ DedupPass(p) \/ EnrichPanics(p) \/ EnrichKills(p)
  \/ ThresholdPass(p) \/ ThresholdDrop(p) \/ BatchCheck(p) \/ BatchSend(p) \/ BatchDone(p)
  \/ Forward(p) \/ Refuse(p) \/ Refused(p)

Alive == gen # "dead"
Dead  == ~Alive /\ UNCHANGED vars

Next ==
  \/ Alive /\ (Tick \/ Worker \/ Cancel \/ Seal)
  \/ Alive /\ \E p \in Publishers : Enter(p) \/ Step(p)
  \/ Dead

Spec == Init /\ [][Next]_vars

(***************************************************************************)
(* Goroutines run and the broker answers.  A Go mutex hands itself to the  *)
(* waiter that starves, and of two ready cases select takes each now and   *)
(* then: strong fairness for whoever waits for either.  Of the worker      *)
(* nothing is asked between cancel and seal: once it has seen Done it      *)
(* waits for the seal.                                                     *)
(***************************************************************************)
Fairness ==
  /\ WF_vars(gen \in {"live", "sealed"} /\ Worker)
  /\ \A p \in Publishers : SF_vars(Alive /\ Step(p))

FairSpec == Spec /\ Fairness

---------------------------------------------------------------------------
(* Properties.                                                             *)

\* The publishers that have a call inside the chain.
Inside == {p \in Publishers : pc[p] # "idle"}

\* Types of the variables.
TypeOK ==
  /\ CacheTypeOK
  /\ gen \in {"live", "cancelled", "sealed", "dead"}
  /\ mutex \in Publishers \cup {Free}
  /\ pc \in [Publishers -> {"idle", "dedup", "enrich", "batch", "select", "next", "refused"}]
  /\ body \in [Publishers -> Hashes \cup {Never}]
  /\ eventCh \in 0..Buffer

\* Typed, and the LRU is what it is defined to be however the calls interleave.
HoldsMostRecent == TypeOK /\ ll = MostRecent

\* Dedup drops only what its TTL says and lets through only what it has to.  An event
\* is dropped only if its body was last seen no longer than TTL before it; and while
\* one with the same body went through no longer than TTL before it, it gets through
\* only if at least CacheSize other bodies have come in since.  (Between the two is
\* a body that was last dropped: FreshUntilTTL.)
DedupIsExact ==
  [][\A p \in Inside :
       /\ DedupDrop(p) /\ body[p] \in Probes => InWindow(seen[body[p]])
       /\ DedupPass(p) /\ InWindow(passed[body[p]]) => CrowdedOut(body[p])]_vars

\* What dedup.go and the README say of the TTL: "an entry is considered fresh until
\* cfg.TTL has elapsed since it was last seen".  So a body that was last seen no
\* longer than TTL ago gets through only if it was crowded out.
FreshUntilTTL ==
  [][\A p \in Inside :
       DedupPass(p) /\ InWindow(seen[body[p]]) => CrowdedOut(body[p])]_vars

\* With dedup in front, what leaves the chain is a threshold's output although the
\* threshold lets go of its lock too early: each number that leaves is a Delta away
\* from the one that left before it, and one that is dropped is not.
ThresholdIsExact ==
  [][\A p \in Inside :
       "dedup" \in stages /\ Compared(p) /\ emitted # NoValue =>
         /\ BatchSend(p) \/ Forward(p) \/ Refuse(p) => Moved(Value[body[p]], emitted)
         /\ ThresholdDrop(p) => ~Moved(Value[body[p]], emitted)]_vars

\* A call returns, whatever stage it stands in: behind the dedup mutex, parked on
\* the full channel of a generation that is being retired, or unwound by a panic that
\* net/http recovers.  Only the end of the process keeps one from it.
CallsReturn == \A p \in Publishers : pc[p] # "idle" ~> pc[p] = "idle" \/ gen = "dead"

\* What enrich.go says: "Payload is not a JSON object, just pass it through".  No call
\* ends at that stage but by the threshold behind it, and none ends the process.
NonObjectsPass ==
  [][/\ gen' # "dead"
     /\ \A p \in Inside : pc[p] = "enrich" /\ pc'[p] = "idle" => TooClose(p)]_vars

\* What the README says of push connectors: "retry-on-failure is the client's
\* responsibility".  A retry gets through only if the dedup stage has no fresh entry
\* for the event whose publish failed.
RetryGetsThrough == [][\A p \in Inside : Refused(p) => ~FreshEntry(body[p])]_vars
============================================================================
