------------------------ MODULE StreamSeries_proofs ------------------------
(***************************************************************************)
(* Proofs about module StreamSeries, for any number of requests, handlers  *)
(* and any pipelines.                                                      *)
(***************************************************************************)
EXTENDS StreamSeries, TLAPS

USE StreamSeriesAssumption

---------------------------------------------------------------------------
(* The inductive invariant.                                                *)

\* What series i of the gauge is to be under the current status.
Hot(i) == IF streamStates[i] = metricState(status) THEN 1 ELSE 0

\* A stream that is gone has no state and nobody writing one.
GoneOK == running = Absent => state = NoState /\ writing = 0

\* After the last session no handler is left, but for one that has outlived it.
QuietOK ==
  ~outlived /\ (running = Absent \/ status \in {"stopped", "error"}) => ~Busy

\* The series SetStreamState has got past, all of them when it has returned.
WrittenOK == running # Absent =>
  \A i \in DOMAIN streamStates : writing = 0 \/ i < writing => state[i] = Hot(i)

\* The holder of m.mu knows whether the stream is there.
HolderOK == \A r \in Requests :
  /\ pc[r] = "admit" => running = Absent
  /\ pc[r] \in {"started", "stopping"} => running # Absent

\* Without a stream, only a build that is still to be installed or discarded can
\* have left dedup gauges; a handler that has outlived its session only the size.
LeftoverOK ==
  running = Absent /\ (\A r \in Requests : pc[r] \notin {"admit", "built", "discard"})
    => capacity = Absent /\ (outlived \/ ~size)

\* The part of TypeOK that is about Booleans, and the one about handlers.
Flags == size \in BOOLEAN /\ cancelled \in BOOLEAN /\ outlived \in BOOLEAN
HandlersTyped ==
  /\ hpc \in [Handlers -> {"idle", "called", "loaded", "inside"}]
  /\ hpipe \in [Handlers -> Pipelines]
  /\ current \subseteq Handlers

IndInv == TypeOK /\ GoneOK /\ QuietOK /\ WrittenOK /\ HolderOK /\ LeftoverOK

---------------------------------------------------------------------------

\* The gauge is four series.
LEMMA States == DOMAIN streamStates = 1..4 /\ Len(streamStates) = 4
  BY DEF streamStates

\* The two parts of the types.
LEMMA Parts == TypeOK => Flags /\ HandlersTyped
<1>1. TypeOK => Flags
  BY Zenon DEF TypeOK, Flags
<1>2. TypeOK => HandlersTyped
  BY Zenon DEF TypeOK, HandlersTyped
<1>3. QED
  BY <1>1, <1>2

\* At the start there is neither stream nor series.
LEMMA InitInd == Init => IndInv
<1>1. SUFFICES ASSUME Init PROVE IndInv
  OBVIOUS
<1>2. Flags
  BY <1>1, Zenon DEF Init, Flags
<1>3. TypeOK
  BY <1>1, <1>2, States DEF Init, TypeOK, NoState, Pipelines, Flags
<1>4. GoneOK /\ QuietOK /\ WrittenOK /\ HolderOK /\ LeftoverOK
  BY <1>1 DEF Init, GoneOK, QuietOK, Busy, WrittenOK, HolderOK, LeftoverOK
<1>5. QED
  BY <1>3, <1>4 DEF IndInv

\* A step of the supervisor.
LEMMA SupervisorInd == IndInv /\ (Supervise \/ WriteState) => IndInv'
<1>1. SUFFICES ASSUME IndInv, Supervise \/ WriteState PROVE IndInv'
  OBVIOUS
<1>2. TypeOK /\ GoneOK /\ QuietOK /\ WrittenOK /\ HolderOK /\ LeftoverOK
  BY <1>1 DEF IndInv
<1>3. CASE Supervise
  <2>1. writing = 0 /\ writing' = 1 /\ running # Absent
    BY <1>3 DEF Supervise, Started, SetStatus
  <2>2. UNCHANGED <<mu, running, hpc, hpipe, current, cancelled, pc, pipe, capacity, size, state>>
    BY <1>3 DEF Supervise, series
  <2>3. outlived' \in BOOLEAN
    BY <1>2, <1>3, Zenon DEF Supervise
  <2>4. Flags'
    BY <1>2, <2>2, <2>3, Parts, Zenon DEF Flags
  <2>5. TypeOK'
    BY <1>2, <2>1, <2>2, <2>4, States DEF TypeOK, Flags
  <2>6. GoneOK' /\ HolderOK' /\ LeftoverOK'
    BY <1>2, <2>1, <2>2 DEF GoneOK, HolderOK, LeftoverOK
  <2>7. QuietOK'
    BY <2>1, <2>2, <1>3 DEF QuietOK, Busy, Supervise, SetStatus
  <2>8. WrittenOK'
    BY <2>1, States DEF WrittenOK
  <2>9. QED
    BY <2>5, <2>6, <2>7, <2>8 DEF IndInv
<1>4. CASE WriteState
  <2>1. writing \in 1..4 /\ running # Absent
    BY <1>2, <1>4, States DEF WriteState, TypeOK, GoneOK
  <2>2. UNCHANGED <<mu, running, hpc, hpipe, current, outlived, status, cancelled, pc, pipe,
                    capacity, size>>
    BY <1>4 DEF WriteState, handlers
  <2>3. Flags'
    BY <1>2, <2>2, Parts, Zenon DEF Flags
  <2>4. /\ state' = [state EXCEPT ![writing] = Hot(writing)]
        /\ writing' = IF writing = 4 THEN 0 ELSE writing + 1
    BY <1>4, States DEF WriteState, Hot
  <2>5. Hot(writing) \in {0, 1} /\ \A i \in 1..4 : Hot(i)' = Hot(i)
    BY <2>2 DEF Hot
  <2>6. TypeOK'
    BY <1>2, <2>1, <2>2, <2>3, <2>4, <2>5, States DEF TypeOK, Flags
  <2>7. GoneOK' /\ QuietOK' /\ HolderOK' /\ LeftoverOK'
    BY <1>2, <2>1, <2>2 DEF GoneOK, QuietOK, Busy, HolderOK, LeftoverOK
  <2>8. state \in [1..4 -> {0, 1, Absent}]
    BY <1>2, States DEF TypeOK
  <2>9. WrittenOK'
    BY <1>2, <2>1, <2>2, <2>4, <2>5, <2>8, States DEF WrittenOK
  <2>10. QED
    BY <2>6, <2>7, <2>9 DEF IndInv
<1>5. QED
  BY <1>1, <1>3, <1>4

\* A step of a handler.  One that is left when the stream is gone, or its supervisor
\* has ended, has outlived the session.
LEMMA HandlerInd ==
  ASSUME NEW h \in Handlers, IndInv, Call(h) \/ Load(h) \/ Enter(h) \/ Process(h)
  PROVE  IndInv'
<1>1. TypeOK /\ GoneOK /\ QuietOK /\ WrittenOK /\ HolderOK /\ LeftoverOK
  BY DEF IndInv
<1>2. UNCHANGED <<mu, running, outlived, status, writing, cancelled, pc, pipe, capacity, state>>
  BY DEF Call, Load, Enter, Process, supervisor, series
<1>3. HandlersTyped'
  BY <1>1, Parts DEF HandlersTyped, Call, Load, Enter, Process, Started, TypeOK
<1>4. Flags'
  <2>1. size' \in BOOLEAN
    <3>1. CASE Call(h) \/ Load(h) \/ Enter(h)
      <4>1. UNCHANGED size
        BY <3>1 DEF Call, Load, Enter, series
      <4>2. QED
        BY <1>1, <4>1, Parts, Zenon DEF Flags
    <3>2. CASE Process(h)
      BY <1>1, <3>2, Parts, Zenon DEF Flags, Process
    <3>3. QED
      BY <3>1, <3>2
  <2>2. QED
    BY <1>1, <1>2, <2>1, Parts, Zenon DEF Flags
<1>5. TypeOK'
  BY <1>1, <1>2, <1>3, <1>4 DEF TypeOK, Flags, HandlersTyped
<1>6. GoneOK' /\ HolderOK' /\ WrittenOK'
  BY <1>1, <1>2 DEF GoneOK, HolderOK, WrittenOK, Hot
<1>7. Call(h) => running # Absent /\ status \notin {"stopped", "error"}
  BY DEF Call, Started
<1>8. Load(h) \/ Enter(h) \/ Process(h) => Busy
  BY DEF Load, Enter, Process, Busy
<1>9. QuietOK'
  BY <1>1, <1>2, <1>7, <1>8 DEF QuietOK
<1>10. LeftoverOK'
  <2>1. CASE Process(h)
    BY <1>1, <1>2, <1>8, <2>1 DEF LeftoverOK, QuietOK
  <2>2. CASE Call(h) \/ Load(h) \/ Enter(h)
    <3>1. UNCHANGED size
      BY <2>2 DEF Call, Load, Enter, series
    <3>2. QED
      BY <1>1, <1>2, <3>1 DEF LeftoverOK
  <2>3. QED
    BY <2>1, <2>2
<1>11. QED
  BY <1>5, <1>6, <1>9, <1>10 DEF IndInv

\* A step of Register.
LEMMA RegisterInd ==
  ASSUME NEW r \in Requests, IndInv,
         \/ RegisterBuild(r) \/ RegisterInstall(r)
         \/ RegisterReturn(r) \/ RegisterDiscard(r)
  PROVE  IndInv'
<1>1. TypeOK /\ GoneOK /\ QuietOK /\ WrittenOK /\ HolderOK /\ LeftoverOK
  BY DEF IndInv
<1>2. CASE RegisterBuild(r)
  <2>1. /\ running = Absent /\ mu = Free /\ mu' = r
        /\ pc' = [pc EXCEPT ![r] = "admit"]
        /\ UNCHANGED <<running, hpc, hpipe, current, outlived, status, writing, cancelled, state>>
    BY <1>2 DEF RegisterBuild, Goto, supervisor, handlers
  <2>2. PICK p \in Pipelines : BuildNil(r) \/ Build(r, p)
    BY <1>2 DEF RegisterBuild, Pipelines
  <2>3. pipe' \in [Requests -> Pipelines] /\ capacity' \in Capacities \cup {Absent}
    BY <1>1, <2>2 DEF TypeOK, BuildNil, Build, DeleteDedupSeries, Pipelines
  <2>4. Flags'
    BY <1>1, <2>1, <2>2, Parts, Zenon DEF Flags, BuildNil, Build, DeleteDedupSeries
  <2>5. TypeOK'
    BY <1>1, <2>1, <2>3, <2>4 DEF TypeOK, Flags
  <2>6. GoneOK' /\ QuietOK' /\ HolderOK' /\ LeftoverOK' /\ WrittenOK'
    BY <1>1, <2>1 DEF GoneOK, QuietOK, Busy, HolderOK, LeftoverOK, WrittenOK, TypeOK
  <2>7. QED
    BY <2>5, <2>6 DEF IndInv
<1>3. CASE RegisterInstall(r)
  <2>1. /\ pc[r] = "admit" /\ running' = pipe[r] /\ writing' = 1 /\ cancelled' = FALSE
        /\ pc' = [pc EXCEPT ![r] = "started"] /\ outlived' = Busy
        /\ UNCHANGED <<mu, hpc, hpipe, current, pipe, capacity, size, state>>
    BY <1>3 DEF RegisterInstall, Goto, SetStatus, series
  <2>2. running' \in Pipelines /\ running' # Absent
    BY <1>1, <2>1 DEF TypeOK, Pipelines
  <2>3. outlived' \in BOOLEAN
    BY <2>1, Zenon DEF Busy
  <2>4. Flags'
    BY <1>1, <2>1, <2>3, Parts, Zenon DEF Flags
  <2>5. TypeOK'
    BY <1>1, <2>1, <2>2, <2>4, States DEF TypeOK, Flags
  <2>6. GoneOK' /\ HolderOK' /\ LeftoverOK'
    BY <1>1, <2>1, <2>2 DEF GoneOK, HolderOK, LeftoverOK, TypeOK
  <2>7. QuietOK'
    BY <2>1 DEF QuietOK, Busy
  <2>8. WrittenOK'
    BY <2>1, States DEF WrittenOK
  <2>9. QED
    BY <2>5, <2>6, <2>7, <2>8 DEF IndInv
<1>4. CASE RegisterReturn(r)
  <2>1. /\ pc[r] = "started" /\ mu' = Free
        /\ pc' = [pc EXCEPT ![r] = "done"]
        /\ UNCHANGED <<running, hpc, hpipe, current, outlived, status, writing, cancelled,
                       pipe, capacity, size, state>>
    BY <1>4 DEF RegisterReturn, Goto, series, supervisor, handlers
  <2>2. Flags'
    BY <1>1, <2>1, Parts, Zenon DEF Flags
  <2>3. TypeOK'
    BY <1>1, <2>1, <2>2 DEF TypeOK, Flags
  <2>4. GoneOK' /\ QuietOK' /\ HolderOK' /\ LeftoverOK' /\ WrittenOK'
    BY <1>1, <2>1 DEF GoneOK, QuietOK, Busy, HolderOK, LeftoverOK, WrittenOK, Hot, TypeOK
  <2>5. QED
    BY <2>3, <2>4 DEF IndInv
<1>5. CASE RegisterDiscard(r)
  <2>1. /\ pc[r] = "admit" /\ mu' = Free /\ capacity' = Absent /\ size' = FALSE
        /\ pc' = [pc EXCEPT ![r] = "done"]
        /\ UNCHANGED <<running, hpc, hpipe, current, outlived, status, writing, cancelled,
                       pipe, state>>
    BY <1>5 DEF RegisterDiscard, Goto, DeleteDedupSeries, supervisor, handlers
  <2>2. Flags'
    BY <1>1, <2>1, Parts, Zenon DEF Flags
  <2>3. TypeOK'
    BY <1>1, <2>1, <2>2 DEF TypeOK, Flags
  <2>4. GoneOK' /\ QuietOK' /\ HolderOK' /\ LeftoverOK' /\ WrittenOK'
    BY <1>1, <2>1 DEF GoneOK, QuietOK, Busy, HolderOK, LeftoverOK, WrittenOK, Hot, TypeOK
  <2>5. QED
    BY <2>3, <2>4 DEF IndInv
<1>6. QED
  BY <1>2, <1>3, <1>4, <1>5

\* A step of UpdatePipeline.  What its build has published stays accounted for
\* while the request is between the build and its end.
LEMMA UpdateInd ==
  ASSUME NEW r \in Requests, IndInv,
         \/ UpdateLookup(r) \/ UpdateBuild(r) \/ UpdateRefused(r)
         \/ UpdateGone(r) \/ UpdateDiscard(r) \/ UpdateSwap(r)
  PROVE  IndInv'
<1>1. TypeOK /\ GoneOK /\ QuietOK /\ WrittenOK /\ HolderOK /\ LeftoverOK
  BY DEF IndInv
<1>2. UNCHANGED <<mu, hpc, outlived, status, writing, cancelled, state>>
  BY DEF UpdateLookup, UpdateBuild, UpdateRefused, UpdateGone, UpdateDiscard, UpdateSwap,
         series, supervisor, handlers
<1>3. /\ pc[r] \in {"idle", "build", "built", "discard"}
      /\ pc' \in [Requests -> {"idle", "admit", "started", "build", "built", "discard",
                               "stopping", "done"}]
      /\ pc'[r] \in {"build", "built", "discard", "done"}
      /\ \A q \in Requests \ {r} : pc'[q] = pc[q]
  BY <1>1 DEF UpdateLookup, UpdateBuild, UpdateRefused, UpdateGone, UpdateDiscard,
              UpdateSwap, Goto, TypeOK
<1>4. /\ pipe' \in [Requests -> Pipelines] /\ capacity' \in Capacities \cup {Absent}
      /\ running' = running \/ (running # Absent /\ running' \in Pipelines)
  BY <1>1 DEF UpdateLookup, UpdateBuild, UpdateRefused, UpdateGone, UpdateDiscard, UpdateSwap,
              Build, DeleteDedupSeries, Pipelines, series, TypeOK
<1>5. Flags'
  <2>1. CASE UpdateLookup(r) \/ UpdateRefused(r) \/ UpdateGone(r) \/ UpdateSwap(r)
    <3>1. UNCHANGED size
      BY <2>1 DEF UpdateLookup, UpdateRefused, UpdateGone, UpdateSwap, series
    <3>2. QED
      BY <1>1, <1>2, <3>1, Parts, Zenon DEF Flags
  <2>2. CASE UpdateBuild(r) \/ UpdateDiscard(r)
    BY <1>1, <1>2, <2>2, Parts, Zenon
       DEF UpdateBuild, UpdateDiscard, Build, DeleteDedupSeries, Flags
  <2>3. QED
    BY <2>1, <2>2
<1>6. running = Absent <=> running' = Absent
  BY <1>4 DEF Pipelines
<1>7. HandlersTyped'
  <2>1. CASE UpdateSwap(r)
    BY <1>1, <1>2, <2>1, Parts DEF UpdateSwap, Follow, HandlersTyped, TypeOK
  <2>2. CASE ~UpdateSwap(r)
    <3>1. UNCHANGED <<hpipe, current>>
      BY <2>2 DEF UpdateLookup, UpdateBuild, UpdateRefused, UpdateGone, UpdateDiscard, handlers
    <3>2. QED
      BY <1>1, <1>2, <3>1, Parts DEF HandlersTyped
  <2>3. QED
    BY <2>1, <2>2
<1>8. TypeOK'
  BY <1>1, <1>2, <1>3, <1>4, <1>5, <1>7 DEF TypeOK, Flags, HandlersTyped
<1>9. GoneOK' /\ QuietOK' /\ HolderOK' /\ WrittenOK'
  BY <1>1, <1>2, <1>3, <1>6 DEF GoneOK, QuietOK, Busy, HolderOK, WrittenOK, Hot
<1>10. LeftoverOK'
  <2>1. CASE UpdateDiscard(r)
    BY <2>1 DEF UpdateDiscard, DeleteDedupSeries, LeftoverOK
  <2>2. CASE UpdateBuild(r) \/ UpdateGone(r)
    BY <1>1, <2>2 DEF UpdateBuild, UpdateGone, Goto, LeftoverOK, TypeOK
  <2>3. CASE UpdateLookup(r) \/ UpdateRefused(r) \/ UpdateSwap(r)
    BY <1>6, <2>3 DEF UpdateLookup, UpdateRefused, UpdateSwap, LeftoverOK
  <2>4. QED
    BY <2>1, <2>2, <2>3
<1>11. QED
  BY <1>8, <1>9, <1>10 DEF IndInv

\* A step of Remove.
LEMMA RemoveInd ==
  ASSUME NEW r \in Requests, IndInv, RemoveBegin(r) \/ RemoveFinish(r)
  PROVE  IndInv'
<1>1. TypeOK /\ GoneOK /\ QuietOK /\ WrittenOK /\ HolderOK /\ LeftoverOK
  BY DEF IndInv
<1>2. CASE RemoveBegin(r)
  <2>1. /\ pc[r] = "idle" /\ mu = Free /\ mu' = r /\ running # Absent /\ cancelled' = TRUE
        /\ pc' = [pc EXCEPT ![r] = "stopping"]
        /\ UNCHANGED <<running, hpc, hpipe, current, outlived, status, writing, pipe,
                       capacity, size, state>>
    BY <1>2 DEF RemoveBegin, Goto, series, handlers
  <2>2. Flags'
    BY <1>1, <2>1, Parts, Zenon DEF Flags
  <2>3. TypeOK'
    BY <1>1, <2>1, <2>2 DEF TypeOK, Flags
  <2>4. GoneOK' /\ QuietOK' /\ HolderOK' /\ LeftoverOK' /\ WrittenOK'
    BY <1>1, <2>1 DEF GoneOK, QuietOK, Busy, HolderOK, LeftoverOK, WrittenOK, Hot, TypeOK
  <2>5. QED
    BY <2>3, <2>4 DEF IndInv
<1>3. CASE RemoveFinish(r)
  <2>1. /\ pc[r] = "stopping" /\ writing = 0 /\ status \in {"stopped", "error"}
        /\ running' = Absent /\ mu' = Free /\ state' = NoState
        /\ capacity' = Absent /\ size' = FALSE /\ current' = {}
        /\ pc' = [pc EXCEPT ![r] = "done"]
        /\ UNCHANGED <<hpc, hpipe, outlived, status, writing, cancelled, pipe>>
    BY <1>3 DEF RemoveFinish, Goto, DeleteStreamSeries, DeleteDedupSeries, Finished, supervisor
  <2>2. Flags'
    BY <1>1, <2>1, Parts, Zenon DEF Flags
  <2>3. TypeOK'
    BY <1>1, <2>1, <2>2 DEF TypeOK, NoState, Flags
  <2>4. \A q \in Requests : pc'[q] \notin {"admit", "started", "stopping"}
    BY <1>1, <2>1 DEF TypeOK
  <2>5. GoneOK' /\ QuietOK' /\ HolderOK' /\ LeftoverOK' /\ WrittenOK'
    BY <1>1, <2>1, <2>4 DEF GoneOK, QuietOK, Busy, HolderOK, LeftoverOK, WrittenOK
  <2>6. QED
    BY <2>3, <2>5 DEF IndInv
<1>4. QED
  BY <1>2, <1>3

\* Every step of the manager, the supervisor and the handlers keeps the invariant.
LEMMA NextInd == IndInv /\ [Next]_vars => IndInv'
<1>1. SUFFICES ASSUME IndInv, [Next]_vars PROVE IndInv'
  OBVIOUS
<1>2. CASE UNCHANGED vars
  <2>1. UNCHANGED <<mu, running, hpc, hpipe, current, outlived, status, writing, cancelled,
                    pc, pipe, capacity, size, state>>
    BY <1>2 DEF vars, series, supervisor, handlers
  <2>2. QED
    BY <1>1, <2>1 DEF IndInv, TypeOK, GoneOK, QuietOK, Busy, WrittenOK, Hot, HolderOK, LeftoverOK
<1>3. CASE Next
  BY <1>1, <1>3, SupervisorInd, HandlerInd, RegisterInd, UpdateInd, RemoveInd DEF Next
<1>4. QED
  BY <1>1, <1>2, <1>3

\* The invariant holds in every reachable state.
THEOREM Inductive == Spec => []IndInv
  BY InitInd, NextInd, PTL DEF Spec

\* A stream has its state gauge, exactly the one of its status set, when it is
\* registered and nobody is writing it, and none once Remove has returned
\* (manager.go, setStatus and Remove; metrics.go, SetStreamState).
THEOREM StateSeriesHold == Spec => []StateIffRegistered
<1>1. ASSUME IndInv PROVE StateIffRegistered
  <2>1. TypeOK /\ GoneOK /\ WrittenOK
    BY <1>1 DEF IndInv
  <2>2. running # Absent /\ writing = 0 =>
          state = [i \in DOMAIN streamStates |->
                     IF streamStates[i] = metricState(status) THEN 1 ELSE 0]
    BY <2>1, States DEF WrittenOK, Hot, TypeOK
  <2>3. QED
    BY <2>1, <2>2 DEF StateIffRegistered, GoneOK
<1>2. QED
  BY <1>1, Inductive, PTL

\* No order of builds, swaps, discards and removals leaves the capacity gauge of a
\* stream that is gone, nor, unless a handler has outlived the last session, the
\* size gauge (manager.go, UpdatePipeline's discardGeneration after a lost race).
THEOREM NoLeftoverDedup == Spec => []NoDedupAfterRemove
<1>1. ASSUME IndInv PROVE NoDedupAfterRemove
  BY <1>1 DEF IndInv, LeftoverOK, NoDedupAfterRemove, AtRest
<1>2. QED
  BY <1>1, Inductive, PTL
===========================================================================
