--------------------------- MODULE StreamSeries ---------------------------
(***************************************************************************)
(* The Prometheus series of one stream: internal/telemetry/metrics.go as   *)
(* internal/server/manager.go and internal/pipeline/builder.go set and     *)
(* delete them.  Building a pipeline already publishes its dedup gauges,   *)
(* and UpdatePipeline builds, and retires, without m.mu; that is what can  *)
(* leave series that describe nothing.                                     *)
(*                                                                         *)
(* A pipeline is the capacity of its dedup stage, or NoDedup.  The state   *)
(* gauge is four series that SetStreamState writes one after the other;    *)
(* the counters are left out.  An event comes from a handler of the source *)
(* that runs instrumentedPublish.  A webhook handler may outlive its       *)
(* session by more than the grace period, and the closure it holds then    *)
(* still leads to the stream's last generation.                            *)
(***************************************************************************)
EXTENDS Integers, Sequences

CONSTANTS
  Requests,     \* management requests
  Handlers,     \* goroutines of the source that publish
  Capacities,   \* dedup.cache_size of the pipelines that have the stage
  NoDedup,      \* a pipeline without it
  Absent,       \* a gauge without a series
  Free          \* nobody holds m.mu

ASSUME StreamSeriesAssumption ==
  /\ NoDedup \notin Capacities /\ Absent \notin Capacities \cup {NoDedup}
  /\ Free \notin Requests

Pipelines == Capacities \cup {NoDedup}

VARIABLES
  mu,        \* the request that holds m.mu
  running,   \* the pipeline of the registered stream, Absent when there is none
  hpc,       \* a handler: idle, called, loaded (a generation), inside (its read lock)
  hpipe,     \* the pipeline its stream's reference led to, until it has loaded it
  current,   \* the handlers whose stream is registered and still points to that one
  outlived,  \* history: some handler has outlived the stream's last session
  status,    \* streamRuntime.status
  writing,   \* position of SetStreamState in streamStates, 0 outside of it
  cancelled, \* the supervisor's context
  pc, pipe,  \* a request's control state and the pipeline it has built
  capacity,  \* nephtys_dedup_cache_capacity
  size,      \* nephtys_dedup_cache_size has a series
  state      \* nephtys_stream_state: state -> 0, 1 or Absent

series == <<capacity, size, state>>
supervisor == <<status, writing, cancelled>>
handlers == <<hpc, hpipe, current, outlived>>
vars == <<mu, running, handlers, supervisor, pc, pipe, series>>

streamStates == <<"connected", "reconnecting", "errored", "stopped">>

metricState(st) ==
  CASE st = "running" -> "connected"
    [] st = "error"   -> "errored"
    [] st = "stopped" -> "stopped"
    [] OTHER          -> "reconnecting"

NoState == [i \in DOMAIN streamStates |-> Absent]

Init ==
  /\ mu = Free /\ running = Absent
  /\ hpc = [h \in Handlers |-> "idle"]
  /\ hpipe = [h \in Handlers |-> NoDedup]
  /\ current = {} /\ outlived = FALSE
  /\ status = "idle" /\ writing = 0 /\ cancelled = FALSE
  /\ pc = [r \in Requests |-> "idle"]
  /\ pipe = [r \in Requests |-> NoDedup]
  /\ capacity = Absent /\ size = FALSE /\ state = NoState

DeleteDedupSeries == capacity' = Absent /\ size' = FALSE

DeleteStreamSeries == DeleteDedupSeries /\ state' = NoState

\* buildFromConfig: NewDedup sets the capacity; a chain without it clears.
\* Without a pipeline block at all (BuildNil) nothing is touched.
Build(r, p) ==
  /\ pipe' = [pipe EXCEPT ![r] = p]
  /\ IF p = NoDedup THEN DeleteDedupSeries ELSE capacity' = p /\ UNCHANGED size

BuildNil(r) == pipe' = [pipe EXCEPT ![r] = NoDedup] /\ UNCHANGED <<capacity, size>>

Goto(r, l) == pc' = [pc EXCEPT ![r] = l]

\* Some handler is in instrumentedPublish.
Busy == \E h \in Handlers : hpc[h] # "idle"

\* The reference is swapped: only a handler that has not loaded it follows.
Follow(p) ==
  LET follows == {h \in current : hpc[h] = "called"}
  IN  /\ hpipe' = [h \in Handlers |-> IF h \in follows THEN p ELSE hpipe[h]]
      /\ current' = follows

---------------------------------------------------------------------------
(* Register, under m.mu.                                                   *)

RegisterBuild(r) ==
  /\ pc[r] = "idle"
  /\ mu = Free /\ running = Absent
  /\ mu' = r
  /\ BuildNil(r) \/ \E p \in Pipelines : Build(r, p)
  /\ Goto(r, "admit")
  /\ UNCHANGED <<running, handlers, supervisor, state>>

\* setStatus: the status is stored, then SetStreamState goes through the gauge.
SetStatus(st) == status' = st /\ writing' = 1

\* The source opens and the store takes the config.
RegisterInstall(r) ==
  /\ pc[r] = "admit"
  /\ running' = pipe[r]
  /\ SetStatus("connecting")
  /\ cancelled' = FALSE
  /\ outlived' = Busy
  /\ Goto(r, "started")
  /\ UNCHANGED <<mu, hpc, hpipe, current, pipe, series>>

\* The supervisor's goroutine is started, and the lock released.
RegisterReturn(r) ==
  /\ pc[r] = "started"
  /\ writing = 0
  /\ mu' = Free
  /\ Goto(r, "done")
  /\ UNCHANGED <<running, handlers, supervisor, pipe, series>>

\* One of them does not: discardGeneration.
RegisterDiscard(r) ==
  /\ pc[r] = "admit"
  /\ DeleteDedupSeries
  /\ mu' = Free
  /\ Goto(r, "done")
  /\ UNCHANGED <<running, handlers, supervisor, pipe, state>>

---------------------------------------------------------------------------
(* UpdatePipeline.                                                         *)

UpdateLookup(r) ==
  /\ pc[r] = "idle"
  /\ mu = Free /\ running # Absent
  /\ Goto(r, "build")
  /\ UNCHANGED <<mu, running, handlers, supervisor, pipe, series>>

\* Without the lock.
UpdateBuild(r) ==
  /\ pc[r] = "build"
  /\ \E p \in Pipelines : Build(r, p)
  /\ Goto(r, "built")
  /\ UNCHANGED <<mu, running, handlers, supervisor, state>>

\* The store refuses the write: the replacement is retired, nothing else.
UpdateRefused(r) ==
  /\ pc[r] = "built"
  /\ mu = Free /\ running # Absent
  /\ Goto(r, "done")
  /\ UNCHANGED <<mu, running, handlers, supervisor, pipe, series>>

\* The stream is gone: the replacement is retired, after the unlock ...
UpdateGone(r) ==
  /\ pc[r] = "built"
  /\ mu = Free /\ running = Absent
  /\ Goto(r, "discard")
  /\ UNCHANGED <<mu, running, handlers, supervisor, pipe, series>>

\* Mutant: Remove is trusted to have cleaned up.
UpdateDiscardKeeps(r) ==
  /\ pc[r] = "discard"
  /\ Goto(r, "done")
  /\ UNCHANGED <<mu, running, handlers, supervisor, pipe, series>>

\* ... and the series its build published are dropped.
UpdateDiscard(r) ==
  /\ pc[r] = "discard"
  /\ DeleteDedupSeries
  /\ Goto(r, "done")
  /\ UNCHANGED <<mu, running, handlers, supervisor, pipe, state>>

\* The previous generation is retired after the unlock; no series changes.
UpdateSwap(r) ==
  /\ pc[r] = "built"
  /\ mu = Free /\ running # Absent
  /\ running' = pipe[r]
  /\ Follow(pipe[r])
  /\ Goto(r, "done")
  /\ UNCHANGED <<mu, hpc, outlived, supervisor, pipe, series>>

---------------------------------------------------------------------------
(* Remove.                                                                 *)

\* The supervisor has returned.
Finished == status \in {"stopped", "error"} /\ writing = 0

\* Retire has had the write lock: no handler is inside the generation.  One that
\* comes later finds the lock free, and Publish does not look at the seal.
Drained == \A h \in current : hpc[h] # "inside"

\* The config is deleted and the context cancelled.
RemoveBegin(r) ==
  /\ pc[r] = "idle"
  /\ mu = Free /\ running # Absent
  /\ mu' = r
  /\ cancelled' = TRUE
  /\ Goto(r, "stopping")
  /\ UNCHANGED <<running, handlers, status, writing, pipe, series>>

\* Mutant: the supervisor is told to stop but not waited for.
RemoveFinishEarly(r) ==
  /\ pc[r] = "stopping"
  /\ Drained
  /\ running' = Absent
  /\ current' = {}
  /\ DeleteStreamSeries
  /\ mu' = Free
  /\ Goto(r, "done")
  /\ UNCHANGED <<hpc, hpipe, outlived, supervisor, pipe>>

\* The supervisor has returned; the generation is retired, then
\* DeleteStreamSeries clears everything.
RemoveFinish(r) ==
  /\ pc[r] = "stopping"
  /\ Finished
  /\ Drained
  /\ running' = Absent
  /\ current' = {}
  /\ DeleteStreamSeries
  /\ mu' = Free
  /\ Goto(r, "done")
  /\ UNCHANGED <<hpc, hpipe, outlived, supervisor, pipe>>

---------------------------------------------------------------------------
(* The supervisor and its session, until Remove has waited for them.       *)

\* What the supervisor may set next: module Supervisor has the reasons.
Follows(st) ==
  CASE st = "connecting"   -> {"running", "reconnecting", "error"}
    [] st = "running"      -> {"reconnecting", "error"}
    [] st = "reconnecting" -> {"connecting", "reconnecting", "error"}
    [] OTHER               -> {}

\* Its goroutine runs since Register's own setStatus.
Started == running # Absent /\ \A r \in Requests : pc[r] # "started"

\* A cancelled one says stopped.
Supervise ==
  /\ Started /\ writing = 0
  /\ \E st \in Follows(status) \cup (IF cancelled THEN {"stopped"} ELSE {}) :
       /\ ~Finished /\ SetStatus(st)
       /\ outlived' = (outlived \/ (st \in {"stopped", "error"} /\ Busy))
  /\ UNCHANGED <<mu, running, hpc, hpipe, current, cancelled, pc, pipe, series>>

\* SetStreamState writes the next of the four series.
WriteState ==
  /\ writing # 0
  /\ state' = [state EXCEPT ![writing] =
                 IF streamStates[writing] = metricState(status) THEN 1 ELSE 0]
  /\ writing' = IF writing = Len(streamStates) THEN 0 ELSE writing + 1
  /\ UNCHANGED <<mu, running, handlers, status, cancelled, pc, pipe, capacity, size>>

\* A handler of the session calls instrumentedPublish ...
Call(h) ==
  /\ hpc[h] = "idle"
  /\ Started /\ status \notin {"stopped", "error"}
  /\ hpc' = [hpc EXCEPT ![h] = "called"]
  /\ hpipe' = [hpipe EXCEPT ![h] = running]
  /\ current' = current \cup {h}
  /\ UNCHANGED <<mu, running, outlived, supervisor, pc, pipe, series>>

\* ... which loads the generation, at whatever time: the closure has the reference.
Load(h) ==
  /\ hpc[h] = "called"
  /\ hpc' = [hpc EXCEPT ![h] = "loaded"]
  /\ UNCHANGED <<mu, running, hpipe, current, outlived, supervisor, pc, pipe, series>>

\* Publish takes the read lock of that generation.
Enter(h) ==
  /\ hpc[h] = "loaded"
  /\ hpc' = [hpc EXCEPT ![h] = "inside"]
  /\ UNCHANGED <<mu, running, hpipe, current, outlived, supervisor, pc, pipe, series>>

\* Its chain: an event that the dedup stage passes reports the occupancy, one that
\* is dropped there or before it does not.
Process(h) ==
  /\ hpc[h] = "inside"
  /\ hpc' = [hpc EXCEPT ![h] = "idle"]
  /\ UNCHANGED size \/ (hpipe[h] # NoDedup /\ size' = TRUE)
  /\ UNCHANGED <<mu, running, hpipe, current, outlived, supervisor, pc, pipe, capacity, state>>

Next == \/ Supervise \/ WriteState
        \/ \E h \in Handlers : Call(h) \/ Load(h) \/ Enter(h) \/ Process(h)
        \/ \E r \in Requests :
             \/ RegisterBuild(r) \/ RegisterInstall(r) \/ RegisterReturn(r) \/ RegisterDiscard(r)
             \/ UpdateLookup(r) \/ UpdateBuild(r) \/ UpdateRefused(r) \/ UpdateGone(r)
             \/ UpdateDiscard(r) \/ UpdateSwap(r)
             \/ RemoveBegin(r) \/ RemoveFinish(r)

Spec == Init /\ [][Next]_vars

---------------------------------------------------------------------------
(* Properties.                                                             *)

\* No request is on its way and no handler in instrumentedPublish.
AtRest == ~Busy /\ \A r \in Requests : pc[r] \in {"idle", "done"}

\* Types of the variables; a request between its Lock and its Unlock holds m.mu.
TypeOK ==
  /\ mu \in Requests \cup {Free}
  /\ running \in Pipelines \cup {Absent}
  /\ hpc \in [Handlers -> {"idle", "called", "loaded", "inside"}]
  /\ hpipe \in [Handlers -> Pipelines]
  /\ current \subseteq Handlers /\ outlived \in BOOLEAN
  /\ pc \in [Requests -> {"idle", "admit", "started", "build", "built", "discard",
                          "stopping", "done"}]
  /\ pipe \in [Requests -> Pipelines]
  /\ capacity \in Capacities \cup {Absent}
  /\ size \in BOOLEAN /\ cancelled \in BOOLEAN
  /\ state \in [DOMAIN streamStates -> {0, 1, Absent}]
  /\ writing \in 0..Len(streamStates)
  /\ \A r \in Requests : mu = r <=> pc[r] \in {"admit", "started", "stopping"}

\* Typed; a stream that is not registered has no state series, and one that is has,
\* whenever nobody is writing it, "exactly one of connected, reconnecting, errored,
\* or stopped set to 1": the one of its status.
StateIffRegistered ==
  /\ TypeOK
  /\ running = Absent => state = NoState
  /\ running # Absent /\ writing = 0 =>
       state = [i \in DOMAIN streamStates |-> IF streamStates[i] = metricState(status) THEN 1 ELSE 0]

\* manager.go, UpdatePipeline: an update that loses the race with a removal must
\* not "resurrect gauges for a stream that is gone"; nor must a registration that
\* fails, in whatever order they and other updates build and discard.  The size
\* gauge is also set by events, so for that the handlers must have ended with
\* their session; NoSeriesAfterRemove is about the ones that have not.
NoDedupAfterRemove ==
  AtRest /\ running = Absent => capacity = Absent /\ (outlived \/ ~size)

\* metrics.go, DeleteStreamSeries "removes every per-stream series", because
\* otherwise "a deleted stream leaves its counters and gauges behind".  Does not
\* hold: a webhook handler that outlives its grace sets the size gauge after it.
NoSeriesAfterRemove ==
  AtRest /\ running = Absent => capacity = Absent /\ ~size /\ state = NoState
===========================================================================
