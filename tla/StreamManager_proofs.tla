----------------------- MODULE StreamManager_proofs -----------------------
(***************************************************************************)
(* Proofs about module StreamManager, for any streams, ports, pipelines    *)
(* and requests and any number of process starts.                          *)
(***************************************************************************)
EXTENDS StreamManager, TLAPS

---------------------------------------------------------------------------
(* The inductive invariant.                                                *)

\* What a request works on, by the control state it is in; what a late write is.
ArgOK ==
  /\ arg \in [Requests -> {None} \cup [id : Ids, cfg : Configs \cup Pipes \cup {None}]]
  /\ \A r \in Requests :
       /\ pc[r] \in {"put", "install"} => arg[r] \in [id : Ids, cfg : Configs]
       /\ pc[r] \in {"built", "swap", "retire"} => arg[r] \in [id : Ids, cfg : Pipes]
       /\ pc[r] = "stopping" => arg[r] \in [id : Ids, cfg : {None}]

LateOK == late # None => late \in Writes /\ late.id \in doubtful

\* Main holds m.mu in Restore and in StopAll; before Restore nothing is there.
PhaseOK ==
  /\ mu = Main <=> phase \in {"restoring", "stopping"}
  /\ phase \in {"listing", "down"} =>
       /\ mu = Free
       /\ configs = Empty
       /\ \A id \in Ids : sup[id] = "none" /\ running[id] = None
       /\ \A p \in Ports : claims[p] = None /\ bound[p] = None

\* The two halves of ClaimsConsistent.
ClaimsOK == \A p \in Ports :
  claims[p] # None => configs[claims[p]] # None /\ configs[claims[p]].port = p

SupervisedOK == \A id \in Ids :
  sup[id] # "none" => /\ configs[id] # None
                      /\ \A p \in Ports : configs[id].port = p => claims[p] = id

\* Between Open and the end of an admission the stream is not registered, nobody
\* has claimed its port, and the listener is its own.
AdmissionOK == \A r \in Requests :
  pc[r] \in {"put", "install"} =>
    /\ configs[arg[r].id] = None
    /\ \A p \in Ports : p = arg[r].cfg.port => claims[p] = None /\ bound[p] = arg[r].id

\* A stream about to be swapped cannot go away: the request holds m.mu.
SwapOK == \A r \in Requests : pc[r] = "swap" => sup[arg[r].id] # "none"

\* BoundByHolder, with the port of the admission.
ListenerOK == \A p \in Ports :
  bound[p] # None =>
    \/ claims[p] = bound[p] /\ sup[bound[p]] = "session"
    \/ \E r \in Requests :
         pc[r] \in {"put", "install"} /\ arg[r].id = bound[p] /\ arg[r].cfg.port = p

SessionOK == \A id \in Ids : \A p \in Ports :
  sup[id] = "session" /\ configs[id].port = p => bound[p] = id

\* The generations run what the manager's map says.
RunningOK == \A id \in Ids :
  running[id] = IF sup[id] = "none" THEN None ELSE configs[id].pipe

\* Restore has admitted a prefix of the ids, in their order.
SortedOK == phase = "restoring" =>
  \A i, j \in Ids : configs[i] # None /\ todo[j] # None => i < j

\* Request r has written the entry of id and not yet changed the map.
InHand(r, id) == pc[r] \in {"install", "swap", "stopping"} /\ arg[r].id = id

\* Configuration c with another pipeline.
WithPipe(c, pipe) == [c EXCEPT !.pipe = pipe]

\* The entry of id is what the map says, up to what Restore has not come to and
\* what the holder of m.mu is about to do.
AgreeAt(id) ==
  /\ phase = "restoring" => store[id] = IF todo[id] = None THEN configs[id] ELSE todo[id]
  /\ phase \in {"serving", "signalled"} =>
       /\ (\A r \in Requests : ~InHand(r, id)) => store[id] = configs[id]
       /\ \A r \in Requests : InHand(r, id) =>
            /\ pc[r] = "install" => store[id] = arg[r].cfg
            /\ pc[r] = "swap" => store[id] = WithPipe(configs[id], arg[r].cfg)
            /\ pc[r] = "stopping" => store[id] = None

AgreeOK == \A id \in Ids \ doubtful : AgreeAt(id)

Shape == TypeOK /\ ArgOK /\ LateOK /\ PhaseOK

Ownership == ClaimsOK /\ SupervisedOK /\ AdmissionOK /\ SwapOK /\ ListenerOK /\ SessionOK

IndInv == /\ Shape /\ Ownership /\ RunningOK /\ SortedOK /\ LeastIdWins /\ AgreeOK

---------------------------------------------------------------------------
(* Facts every step uses.                                                  *)

USE StreamManagerAssumption

\* Giving a port keeps a map of ports a map of ports.
LEMMA GiveType ==
  ASSUME NEW f \in [Ports -> Ids \cup {None}], NEW p, NEW id \in Ids \cup {None}
  PROVE  Give(f, p, id) \in [Ports -> Ids \cup {None}]
  BY DEF Give

\* A pipeline update of a configuration is a configuration.
LEMMA UpdatedType ==
  ASSUME NEW c \in Configs, NEW pipe \in Pipes
  PROVE  /\ [c EXCEPT !.pipe = pipe] \in Configs
         /\ [c EXCEPT !.pipe = pipe].port = c.port
         /\ [c EXCEPT !.pipe = pipe].pipe = pipe
  BY DEF Configs

\* A store call keeps the bucket typed, and a write it leaves behind is in doubt.
LEMMA StoreType ==
  ASSUME TypeOK, LateOK, NEW id \in Ids, NEW v \in Configs \cup {None},
         StoreOk(id, v) \/ StoreFails(id, v)
  PROVE  /\ store' \in [Ids -> Configs \cup {None}]
         /\ doubtful' \subseteq Ids
         /\ LateOK'
<1>1. CASE StoreOk(id, v)
  BY <1>1 DEF TypeOK, LateOK, StoreOk
<1>2. CASE StoreFails(id, v)
  <2>1. late' = None \/ late' = [id |-> id, val |-> v]
    BY <1>2 DEF StoreFails
  <2>2. late' # None => late' \in Writes /\ late'.id = id
    BY <2>1 DEF Writes
  <2>3. late' # None => doubtful' = doubtful \cup {id}
    BY <1>2 DEF StoreFails
  <2>4. doubtful' \subseteq Ids
    BY <1>2 DEF StoreFails, TypeOK
  <2>5. QED
    BY <1>2, <2>2, <2>3, <2>4 DEF TypeOK, LateOK, StoreFails
<1>3. QED
  BY <1>1, <1>2

\* Types, arguments, late writes and phases: the part that does not depend on who
\* owns what.
LEMMA RequestShape ==
  ASSUME IndInv, NEW r \in Requests, Arrive(r) \/ RequestStep(r)
  PROVE  Shape'
<1> USE DEF IndInv, Shape, TypeOK, mapVars, bucket, reqVars
<1>1. CASE RegisterOpen(r)
  <2>1. PICK id \in Ids, cfg \in Configs :
          bound' = Give(bound, cfg.port, id) /\ Enter(r, "put", id, cfg)
    BY <1>1 DEF RegisterOpen
  <2>2. TypeOK'
    BY <1>1, <2>1, GiveType DEF RegisterOpen, Admissible, Enter
  <2>3. ArgOK'
    BY <1>1, <2>1 DEF ArgOK, RegisterOpen, Admissible, Enter
  <2>4. LateOK' /\ PhaseOK'
    BY <1>1, <2>1 DEF LateOK, PhaseOK, RegisterOpen, Admissible
  <2>5. QED
    BY <2>2, <2>3, <2>4
<1>2. CASE RegisterRefused(r)
  BY <1>2 DEF RegisterRefused, Admissible, Answer, ArgOK, LateOK, PhaseOK
<1>3. CASE UpdateLookup(r)
  <2>1. PICK id \in Ids, pipe \in Pipes :
          \/ sup[id] # "none" /\ Enter(r, "built", id, pipe)
          \/ Answer(r, "missing") /\ UNCHANGED arg
    BY <1>3 DEF UpdateLookup
  <2>2. TypeOK'
    BY <1>3, <2>1 DEF UpdateLookup, Admissible, Enter, Answer
  <2>3. ArgOK'
    BY <1>3, <2>1 DEF ArgOK, UpdateLookup, Admissible, Enter, Answer
  <2>4. LateOK' /\ PhaseOK'
    BY <1>3 DEF LateOK, PhaseOK, UpdateLookup
  <2>5. QED
    BY <2>2, <2>3, <2>4
<1>4. CASE RemoveDelete(r)
  <2>1. PICK id \in Ids :
          \/ /\ StoreOk(id, None) /\ cancelled' = cancelled \cup {id} /\ mu' = r
             /\ Enter(r, "stopping", id, None)
          \/ StoreFails(id, None) /\ Answer(r, "unavailable") /\ UNCHANGED <<cancelled, mu, arg>>
          \/ Answer(r, "missing") /\ UNCHANGED <<cancelled, mu, bucket, arg>>
    BY <1>4 DEF RemoveDelete
  <2>2. store' \in [Ids -> Configs \cup {None}] /\ doubtful' \subseteq Ids /\ LateOK'
    BY <2>1, StoreType DEF LateOK
  <2>3. TypeOK'
    <3>1. cancelled' \subseteq Ids
      BY <2>1
    <3>2. \/ pc' = [pc EXCEPT ![r] = "stopping"] /\ mu' = r
          \/ pc' = [pc EXCEPT ![r] = "done"] /\ mu' = mu
      BY <2>1 DEF Enter, Answer
    <3>3. pc[r] = "idle" /\ mu = Free
      BY <1>4 DEF RemoveDelete, Admissible
    <3>4. UNCHANGED <<phase, boots, configs, sup, running, claims, bound, todo>>
      BY <1>4 DEF RemoveDelete
    <3>5. QED
      BY <2>2, <3>1, <3>2, <3>3, <3>4
  <2>4. ArgOK'
    BY <1>4, <2>1 DEF ArgOK, RemoveDelete, Admissible, Enter, Answer
  <2>5. PhaseOK'
    BY <1>4, <2>1 DEF PhaseOK, RemoveDelete, Admissible
  <2>6. QED
    BY <2>2, <2>3, <2>4, <2>5
<1>5. CASE RegisterPut(r)
  <2> DEFINE id == arg[r].id  cfg == arg[r].cfg
  <2>1. id \in Ids /\ cfg \in Configs
    BY <1>5 DEF ArgOK, RegisterPut
  <2>2. store' \in [Ids -> Configs \cup {None}] /\ doubtful' \subseteq Ids /\ LateOK'
    BY <1>5, <2>1, StoreType DEF RegisterPut
  <2>3. bound' \in [Ports -> Ids \cup {None}]
    <3>1. bound' = bound \/ bound' = Give(bound, cfg.port, None)
      BY <1>5 DEF RegisterPut
    <3>2. Give(bound, cfg.port, None) \in [Ports -> Ids \cup {None}]
      BY GiveType
    <3>3. QED
      BY <3>1, <3>2
  <2>4. TypeOK'
    BY <1>5, <2>2, <2>3 DEF RegisterPut, Answer
  <2>5. ArgOK'
    BY <1>5 DEF ArgOK, RegisterPut, Answer
  <2>6. PhaseOK'
    BY <1>5 DEF PhaseOK, RegisterPut
  <2>7. QED
    BY <2>2, <2>4, <2>5, <2>6
<1>6. CASE RegisterInstall(r)
  <2>1. arg[r].id \in Ids /\ arg[r].cfg \in Configs
    BY <1>6 DEF ArgOK, RegisterInstall
  <2>2. claims' \in [Ports -> Ids \cup {None}]
    BY <1>6, <2>1, GiveType DEF RegisterInstall, Install
  <2>3. TypeOK'
    BY <1>6, <2>1, <2>2 DEF RegisterInstall, Install, Answer, Configs
  <2>4. ArgOK' /\ LateOK'
    BY <1>6 DEF ArgOK, LateOK, RegisterInstall, Answer
  <2>5. PhaseOK'
    BY <1>6 DEF PhaseOK, RegisterInstall
  <2>6. QED
    BY <2>3, <2>4, <2>5
<1>7. CASE UpdatePut(r)
  <2> DEFINE id == arg[r].id  updated == [configs[id] EXCEPT !.pipe = arg[r].cfg]
  <2>1. id \in Ids /\ arg[r].cfg \in Pipes
    BY <1>7 DEF ArgOK, UpdatePut
  <2>2. sup[id] # "none" => updated \in Configs
    BY <2>1, UpdatedType DEF Ownership, SupervisedOK
  <2>3. store' \in [Ids -> Configs \cup {None}] /\ doubtful' \subseteq Ids /\ LateOK'
    BY <1>7, <2>1, <2>2, StoreType DEF UpdatePut, LateOK
  <2>4. TypeOK'
    BY <1>7, <2>3 DEF UpdatePut, Answer
  <2>5. ArgOK'
    BY <1>7 DEF ArgOK, UpdatePut, Answer
  <2>6. PhaseOK'
    BY <1>7, <2>1 DEF PhaseOK, UpdatePut
  <2>7. QED
    BY <2>3, <2>4, <2>5, <2>6
<1>8. CASE UpdateSwap(r)
  <2>1. arg[r].id \in Ids /\ arg[r].cfg \in Pipes /\ configs[arg[r].id] \in Configs
    BY <1>8 DEF ArgOK, UpdateSwap, Ownership, SwapOK, SupervisedOK
  <2>2. configs' = [configs EXCEPT ![arg[r].id] = [configs[arg[r].id] EXCEPT !.pipe = arg[r].cfg]]
    BY <1>8 DEF UpdateSwap
  <2>3. configs' \in [Ids -> Configs \cup {None}]
    BY <2>1, <2>2, UpdatedType
  <2>4. TypeOK'
    BY <1>8, <2>1, <2>3 DEF UpdateSwap
  <2>5. ArgOK' /\ LateOK'
    BY <1>8 DEF ArgOK, LateOK, UpdateSwap
  <2>6. PhaseOK'
    BY <1>8 DEF PhaseOK, UpdateSwap
  <2>7. QED
    BY <2>4, <2>5, <2>6
<1>9. CASE UpdateReturn(r)
  BY <1>9 DEF UpdateReturn, Answer, ArgOK, LateOK, PhaseOK
<1>10. CASE RemoveFinish(r)
  <2>1. TypeOK'
    BY <1>10 DEF RemoveFinish, Answer
  <2>2. ArgOK' /\ LateOK'
    BY <1>10 DEF ArgOK, LateOK, RemoveFinish, Answer
  <2>3. PhaseOK'
    BY <1>10 DEF PhaseOK, RemoveFinish
  <2>4. QED
    BY <2>1, <2>2, <2>3
<1>11. QED
  BY <1>1, <1>2, <1>3, <1>4, <1>5, <1>6, <1>7, <1>8, <1>9, <1>10 DEF Arrive, RequestStep

\* The same for a supervisor, which moves no request and no phase.
LEMMA SupervisorShape ==
  ASSUME IndInv, NEW id \in Ids, SupervisorStep(id)
  PROVE  Shape'
<1> USE DEF IndInv, Shape, TypeOK, bucket, reqVars
<1>1. UNCHANGED <<phase, boots, mu, configs, running, cancelled, claims, bucket, todo, reqVars>>
  BY DEF SupervisorStep, SessionEnds, Rebind, BackoffEnds
<1>2. bound' \in [Ports -> Ids \cup {None}]
  <2>1. \E p : bound' \in {bound, Give(bound, p, None), Give(bound, p, id)}
    BY DEF SupervisorStep, SessionEnds, Rebind, BackoffEnds
  <2>2. PICK p : bound' \in {bound, Give(bound, p, None), Give(bound, p, id)}
    BY <2>1
  <2>3. /\ Give(bound, p, None) \in [Ports -> Ids \cup {None}]
        /\ Give(bound, p, id) \in [Ports -> Ids \cup {None}]
    BY GiveType
  <2>4. QED
    BY <2>2, <2>3
<1>3. sup' \in [Ids -> {"none", "session", "backoff", "errored", "stopped"}]
  BY DEF SupervisorStep, SessionEnds, Rebind, BackoffEnds
<1>4. TypeOK' /\ ArgOK' /\ LateOK'
  BY <1>1, <1>2, <1>3 DEF ArgOK, LateOK
<1>5. phase \notin {"listing", "down"}
  BY DEF PhaseOK, SupervisorStep, SessionEnds, Rebind, BackoffEnds
<1>6. PhaseOK'
  BY <1>1, <1>5 DEF PhaseOK
<1>7. QED
  BY <1>4, <1>6

\* The steps of the process and of the store.
ProcessStep == StartStep \/ Signal \/ StopStep \/ LateWrite \/ Die \/ Boot

\* The same for them: the late write that lands is one a store call left behind.
LEMMA ProcessShape ==
  ASSUME IndInv, ProcessStep
  PROVE  Shape'
<1> USE DEF IndInv, Shape, TypeOK, mapVars, bucket, reqVars
<1>1. CASE ListStore
  <2>1. PICK seen \in SUBSET Ids :
          /\ todo' = [id \in Ids |-> IF id \in seen THEN store[id] ELSE None]
          /\ doubtful' = {id \in Ids : todo'[id] # store[id]}
                           \cup IF late = None THEN {} ELSE {late.id}
    BY <1>1 DEF ListStore
  <2>2. LateOK'
    BY <1>1, <2>1 DEF ListStore, LateOK
  <2>3. doubtful' \subseteq Ids
    BY <2>1 DEF LateOK, Writes
  <2>4. TypeOK'
    BY <1>1, <2>1, <2>3 DEF ListStore, PhaseOK
  <2>5. ArgOK' /\ PhaseOK'
    BY <1>1 DEF ListStore, ArgOK, PhaseOK
  <2>6. QED
    BY <2>2, <2>4, <2>5
<1>2. ASSUME NEW id \in Ids, RestoreAdmit(id)
      PROVE  Shape'
  <2>1. /\ todo[id] \in Configs
        /\ todo' = [todo EXCEPT ![id] = None]
        /\ phase = "restoring"
    BY <1>2 DEF RestoreAdmit, RestoreNext, Listed
  <2>2. /\ bound' \in [Ports -> Ids \cup {None}]
        /\ claims' \in [Ports -> Ids \cup {None}]
    BY <1>2, GiveType DEF RestoreAdmit, Install
  <2>3. TypeOK'
    BY <1>2, <2>1, <2>2 DEF RestoreAdmit, Install, Configs
  <2>4. ArgOK' /\ LateOK' /\ PhaseOK'
    BY <1>2, <2>1 DEF RestoreAdmit, Install, ArgOK, LateOK, PhaseOK
  <2>5. QED
    BY <2>3, <2>4
<1>3. ASSUME NEW id \in Ids, RestoreFailed(id)
      PROVE  Shape'
  <2>1. /\ todo[id] \in Configs
        /\ todo' = [todo EXCEPT ![id] = None]
        /\ phase = "restoring"
    BY <1>3 DEF RestoreFailed, RestoreNext, Listed
  <2>2. claims' \in [Ports -> Ids \cup {None}]
    BY <1>3, GiveType DEF RestoreFailed
  <2>3. TypeOK'
    BY <1>3, <2>1, <2>2 DEF RestoreFailed
  <2>4. ArgOK' /\ LateOK' /\ PhaseOK'
    BY <1>3, <2>1 DEF RestoreFailed, ArgOK, LateOK, PhaseOK
  <2>5. QED
    BY <2>3, <2>4
<1>4. CASE Serve
  BY <1>4 DEF Serve, ArgOK, LateOK, PhaseOK
<1>5. CASE Signal
  BY <1>5 DEF Signal, ArgOK, LateOK, PhaseOK
<1>6. CASE StopBegin
  BY <1>6 DEF StopBegin, ArgOK, LateOK, PhaseOK
<1>7. CASE StopFinish
  <2>1. mu = Main
    BY <1>7 DEF StopFinish, PhaseOK
  <2>2. QED
    BY <1>7, <2>1 DEF StopFinish, Forgotten, Empty, ArgOK, LateOK, PhaseOK
<1>8. CASE Shutdown
  BY <1>8 DEF Shutdown, ArgOK, LateOK, PhaseOK
<1>9. CASE LateWrite
  BY <1>9 DEF LateWrite, ArgOK, LateOK, PhaseOK, Writes
<1>10. CASE Die
  <2>1. TypeOK'
    BY <1>10 DEF Die, Forgotten, Empty
  <2>2. ArgOK' /\ LateOK'
    BY <1>10 DEF Die, ArgOK, LateOK
  <2>3. PhaseOK'
    BY <1>10 DEF Die, Forgotten, Empty, PhaseOK
  <2>4. QED
    BY <2>1, <2>2, <2>3
<1>11. CASE Boot
  BY <1>11 DEF Boot, ArgOK, LateOK, PhaseOK
<1>12. QED
  BY <1>1, <1>2, <1>3, <1>4, <1>5, <1>6, <1>7, <1>8, <1>9, <1>10, <1>11
     DEF ProcessStep, StartStep, StopStep

---------------------------------------------------------------------------
(* Claims, listeners and admissions.                                       *)

\* A step that touches none of the maps of streams and ports, and begins neither
\* an admission nor a swap of a stream that is gone.
LEMMA OwnershipFrame ==
  ASSUME IndInv, UNCHANGED <<configs, sup, claims, bound>>,
         \A r \in Requests :
           \/ pc'[r] = pc[r] /\ arg'[r] = arg[r]
           \/ pc[r] \notin {"put", "install"} /\ pc'[r] \notin {"put", "install", "swap"}
           \/ pc[r] = "put" /\ pc'[r] = "install" /\ arg'[r] = arg[r]
           \/ pc[r] = "built" /\ pc'[r] = "swap" /\ arg'[r] = arg[r] /\ sup[arg[r].id] # "none"
  PROVE  Ownership'
<1> USE DEF IndInv, Ownership
<1>1. ClaimsOK' /\ SupervisedOK' /\ SessionOK'
  BY DEF ClaimsOK, SupervisedOK, SessionOK
<1>2. AdmissionOK' /\ SwapOK'
  BY DEF AdmissionOK, SwapOK
<1>3. ListenerOK'
  BY DEF ListenerOK
<1>4. QED
  BY <1>1, <1>2, <1>3

\* An admission begins with the port free and unclaimed.
LEMMA RegisterOpenOwnership ==
  ASSUME IndInv, NEW r \in Requests, RegisterOpen(r)
  PROVE  Ownership'
<1> USE DEF IndInv, Ownership, Shape, TypeOK, mapVars
<1>1. PICK id \in Ids, cfg \in Configs :
        /\ configs[id] = None /\ Unclaimed(cfg.port) /\ Bindable(cfg.port)
        /\ bound' = Give(bound, cfg.port, id) /\ Enter(r, "put", id, cfg)
  BY DEF RegisterOpen
<1>2. /\ UNCHANGED <<configs, sup, claims>>
      /\ pc[r] = "idle" /\ mu = Free
  BY DEF RegisterOpen, Admissible
<1>3. \A q \in Requests : pc[q] \notin {"put", "install", "swap", "stopping"}
  BY <1>2
<1>4. /\ pc' = [pc EXCEPT ![r] = "put"]
      /\ arg'[r] = [id |-> id, cfg |-> cfg]
  BY <1>1 DEF Enter, ArgOK
<1>5. ClaimsOK' /\ SupervisedOK'
  BY <1>2 DEF ClaimsOK, SupervisedOK
<1>6. AdmissionOK' /\ SwapOK'
  BY <1>1, <1>2, <1>3, <1>4 DEF AdmissionOK, SwapOK, Unclaimed, Give
<1>7. ListenerOK'
  BY <1>1, <1>2, <1>3, <1>4 DEF ListenerOK, Give
<1>8. SessionOK'
  BY <1>1, <1>2 DEF SessionOK, SupervisedOK, Unclaimed, Give
<1>9. QED
  BY <1>5, <1>6, <1>7, <1>8

\* One that the store refuses gives its port back, and only its port.
LEMMA RegisterPutOwnership ==
  ASSUME IndInv, NEW r \in Requests, RegisterPut(r)
  PROVE  Ownership'
<1> USE DEF IndInv, Ownership, Shape, TypeOK, mapVars
<1> DEFINE id == arg[r].id  cfg == arg[r].cfg
<1>1. /\ UNCHANGED <<configs, sup, claims, arg>>
      /\ pc[r] = "put" /\ mu = r
      /\ id \in Ids /\ cfg \in Configs
  BY DEF RegisterPut, ArgOK
<1>2. \A q \in Requests : q # r => pc[q] \notin {"put", "install", "swap", "stopping"}
  BY <1>1
<1>3. CASE pc' = [pc EXCEPT ![r] = "install"] /\ bound' = bound
  BY <1>1, <1>3, OwnershipFrame
<1>4. CASE pc' = [pc EXCEPT ![r] = "done"] /\ bound' = Give(bound, cfg.port, None)
  <2>1. ClaimsOK' /\ SupervisedOK'
    BY <1>1 DEF ClaimsOK, SupervisedOK
  <2>2. AdmissionOK' /\ SwapOK'
    BY <1>1, <1>2, <1>4 DEF AdmissionOK, SwapOK
  <2>3. ListenerOK'
    BY <1>1, <1>2, <1>4 DEF ListenerOK, Give
  <2>4. SessionOK'
    BY <1>1, <1>4 DEF SessionOK, SupervisedOK, AdmissionOK, Give
  <2>5. QED
    BY <2>1, <2>2, <2>3, <2>4
<1>5. QED
  BY <1>3, <1>4 DEF RegisterPut, Answer

\* The maps get a stream that was not in them, on a port nobody has claimed and
\* whose listener is its own: the tail of admitLocked.
LEMMA InstallOwnership ==
  ASSUME IndInv, NEW id \in Ids, NEW cfg \in Configs, Install(id, cfg),
         configs[id] = None, Unclaimed(cfg.port), Shape',
         \A q \in Requests : pc'[q] \notin {"put", "install", "swap"},
         \A p \in Ports : bound'[p] = IF p = cfg.port THEN id ELSE bound[p],
         \A p \in Ports : bound[p] # None /\ p # cfg.port =>
                           claims[p] = bound[p] /\ sup[bound[p]] = "session"
  PROVE  Ownership'
<1> USE DEF IndInv, Ownership, Shape, TypeOK
<1>1. /\ configs' = [configs EXCEPT ![id] = cfg]
      /\ sup' = [sup EXCEPT ![id] = "session"]
      /\ claims' = [q \in Ports |-> IF q = cfg.port THEN id ELSE claims[q]]
      /\ cfg # None
  BY DEF Install, Give
<1>2. sup[id] = "none" /\ \A p \in Ports : claims[p] # id
  BY DEF SupervisedOK, ClaimsOK
<1>3. ClaimsOK'
  BY <1>1, <1>2 DEF ClaimsOK
<1>4. SupervisedOK'
  BY <1>1, <1>2 DEF SupervisedOK, Unclaimed
<1>5. AdmissionOK' /\ SwapOK'
  BY DEF AdmissionOK, SwapOK
<1>6. ListenerOK'
  BY <1>1, <1>2 DEF ListenerOK
<1>7. SessionOK'
  BY <1>1, <1>2 DEF SessionOK, SupervisedOK, Unclaimed
<1>8. QED
  BY <1>3, <1>4, <1>5, <1>6, <1>7

\* The end of an admission: the listener opened for it becomes a session's.
LEMMA RegisterInstallOwnership ==
  ASSUME IndInv, NEW r \in Requests, RegisterInstall(r)
  PROVE  Ownership'
<1> USE DEF IndInv, Ownership, Shape, TypeOK
<1>0. PICK id \in Ids, cfg \in Configs : id = arg[r].id /\ cfg = arg[r].cfg
  BY DEF RegisterInstall, ArgOK
<1>1. /\ pc[r] = "install" /\ mu = r /\ pc' = [pc EXCEPT ![r] = "done"]
      /\ bound' = bound /\ Install(id, cfg)
  BY <1>0 DEF RegisterInstall, Answer
<1>2. \A q \in Requests : q # r => pc[q] \notin {"put", "install", "swap", "stopping"}
  BY <1>1
<1>3. \A q \in Requests : pc'[q] \notin {"put", "install", "swap"}
  BY <1>1, <1>2
<1>4. /\ configs[id] = None /\ Unclaimed(cfg.port)
      /\ \A p \in Ports : p = cfg.port => bound[p] = id
  BY <1>0, <1>1 DEF AdmissionOK, Unclaimed
<1>5. \A p \in Ports : bound[p] # None /\ p # cfg.port =>
                       claims[p] = bound[p] /\ sup[bound[p]] = "session"
  BY <1>0, <1>1, <1>2 DEF ListenerOK
<1>6. Shape'
  BY RequestShape DEF RequestStep
<1>7. \A p \in Ports : bound'[p] = IF p = cfg.port THEN id ELSE bound[p]
  BY <1>1, <1>4
<1> HIDE DEF IndInv, Ownership, Shape, TypeOK
<1>8. QED
  BY <1>1, <1>3, <1>4, <1>5, <1>6, <1>7, InstallOwnership

\* A swap changes no port.
LEMMA UpdateSwapOwnership ==
  ASSUME IndInv, NEW r \in Requests, UpdateSwap(r)
  PROVE  Ownership'
<1> USE DEF IndInv, Ownership, Shape, TypeOK
<1> DEFINE id == arg[r].id
<1>1. /\ pc[r] = "swap" /\ mu = r /\ pc' = [pc EXCEPT ![r] = "retire"]
      /\ id \in Ids /\ arg[r].cfg \in Pipes /\ configs[id] \in Configs
      /\ UNCHANGED <<sup, claims, bound, arg>>
  BY DEF UpdateSwap, ArgOK, SwapOK, SupervisedOK
<1>2. configs' = [configs EXCEPT ![id] = [configs[id] EXCEPT !.pipe = arg[r].cfg]]
  BY DEF UpdateSwap
<1>3. \A i \in Ids :
        configs[i] # None => configs'[i] # None /\ configs'[i].port = configs[i].port
  BY <1>1, <1>2, UpdatedType
<1>4. \A q \in Requests : q # r => pc[q] \notin {"put", "install", "swap", "stopping"}
  BY <1>1
<1>5. ClaimsOK' /\ SupervisedOK'
  <2>1. ClaimsOK'
    <3>1. SUFFICES ASSUME NEW p \in Ports, claims[p] # None
                   PROVE  configs'[claims[p]] # None /\ configs'[claims[p]].port = p
      BY <1>1 DEF ClaimsOK
    <3>2. claims[p] \in Ids /\ configs[claims[p]] # None /\ configs[claims[p]].port = p
      BY <3>1 DEF ClaimsOK
    <3>3. QED
      BY <1>3, <3>2
  <2>2. SupervisedOK'
    BY <1>1, <1>3 DEF SupervisedOK
  <2>3. QED
    BY <2>1, <2>2
<1>6. AdmissionOK' /\ SwapOK'
  BY <1>1, <1>4 DEF AdmissionOK, SwapOK
<1>7. ListenerOK'
  BY <1>1, <1>4 DEF ListenerOK
<1>8. SessionOK'
  BY <1>1, <1>3 DEF SessionOK, SupervisedOK
<1>9. QED
  BY <1>5, <1>6, <1>7, <1>8

\* A removed stream takes its claims with it; its supervisor is gone, so it has
\* no listener.
LEMMA RemoveFinishOwnership ==
  ASSUME IndInv, NEW r \in Requests, RemoveFinish(r)
  PROVE  Ownership'
<1> USE DEF IndInv, Ownership, Shape, TypeOK
<1> DEFINE id == arg[r].id
<1>1. /\ pc[r] = "stopping" /\ mu = r /\ pc' = [pc EXCEPT ![r] = "done"]
      /\ id \in Ids /\ Idle(id)
      /\ configs' = [configs EXCEPT ![id] = None]
      /\ sup' = [sup EXCEPT ![id] = "none"]
      /\ claims' = [p \in Ports |-> IF claims[p] = id THEN None ELSE claims[p]]
      /\ UNCHANGED <<bound, arg>>
  BY DEF RemoveFinish, Answer, ArgOK
<1>2. \A q \in Requests : q # r => pc[q] \notin {"put", "install", "swap", "stopping"}
  BY <1>1
<1>3. ClaimsOK' /\ SupervisedOK'
  BY <1>1 DEF ClaimsOK, SupervisedOK
<1>4. AdmissionOK' /\ SwapOK'
  BY <1>1, <1>2 DEF AdmissionOK, SwapOK
<1>5. ListenerOK'
  BY <1>1, <1>2 DEF ListenerOK, Idle
<1>6. SessionOK'
  BY <1>1 DEF SessionOK
<1>7. QED
  BY <1>3, <1>4, <1>5, <1>6

\* Every step of a request.
LEMMA RequestOwnership ==
  ASSUME IndInv, NEW r \in Requests, Arrive(r) \/ RequestStep(r)
  PROVE  Ownership'
<1> USE DEF IndInv, Shape, TypeOK, mapVars
<1>1. CASE RegisterRefused(r) \/ UpdateReturn(r)
  BY <1>1, OwnershipFrame DEF RegisterRefused, UpdateReturn, Admissible, Answer
<1>2. CASE UpdateLookup(r)
  <2>1. /\ UNCHANGED <<configs, sup, claims, bound>> /\ pc[r] = "idle"
        /\ pc' = [pc EXCEPT ![r] = "built"] \/ pc' = [pc EXCEPT ![r] = "done"]
        /\ \A q \in Requests \ {r} : arg'[q] = arg[q]
    BY <1>2 DEF UpdateLookup, Admissible, Enter, Answer, ArgOK
  <2>2. QED
    BY <2>1, OwnershipFrame
<1>3. CASE RemoveDelete(r)
  <2>1. /\ UNCHANGED <<configs, sup, claims, bound>> /\ pc[r] = "idle"
        /\ pc' = [pc EXCEPT ![r] = "stopping"] \/ pc' = [pc EXCEPT ![r] = "done"]
        /\ \A q \in Requests \ {r} : arg'[q] = arg[q]
    BY <1>3 DEF RemoveDelete, Admissible, Enter, Answer, ArgOK
  <2>2. QED
    BY <2>1, OwnershipFrame
<1>4. CASE UpdatePut(r)
  <2>1. /\ UNCHANGED <<configs, sup, claims, bound, arg>> /\ pc[r] = "built"
        /\ \/ pc' = [pc EXCEPT ![r] = "swap"] /\ sup[arg[r].id] # "none"
           \/ pc' = [pc EXCEPT ![r] = "done"]
    BY <1>4 DEF UpdatePut, Answer
  <2>2. QED
    BY <2>1, OwnershipFrame
<1>5. QED
  BY <1>1, <1>2, <1>3, <1>4, RegisterOpenOwnership, RegisterPutOwnership,
     RegisterInstallOwnership, UpdateSwapOwnership, RemoveFinishOwnership
     DEF Arrive, RequestStep

\* Every step of a supervisor.  Its stream has the claim, so the port it frees or
\* takes is nobody else's.
LEMMA SupervisorOwnership ==
  ASSUME IndInv, NEW id \in Ids, SupervisorStep(id)
  PROVE  Ownership'
<1> USE DEF IndInv, Ownership, Shape, TypeOK, reqVars
<1>1. UNCHANGED <<configs, claims, pc, arg>> /\ sup[id] # "none"
  BY DEF SupervisorStep, SessionEnds, Rebind, BackoffEnds
<1>2. \E st \in {"session", "backoff", "errored", "stopped"} : sup' = [sup EXCEPT ![id] = st]
  BY DEF SupervisorStep, SessionEnds, Rebind, BackoffEnds
<1>3. ClaimsOK' /\ SupervisedOK'
  BY <1>1, <1>2 DEF ClaimsOK, SupervisedOK
<1>4. SwapOK'
  BY <1>1, <1>2, SupervisorShape DEF SwapOK, ArgOK
<1>5. \A p \in Ports : p = configs[id].port => claims[p] = id
  BY <1>1 DEF SupervisedOK
<1>6. \A q \in Requests, p \in Ports :
        pc[q] \in {"put", "install"} => arg[q].id # id /\ (arg[q].cfg.port = p => p # configs[id].port)
  BY <1>1, <1>5 DEF AdmissionOK, SupervisedOK
<1>7. CASE SessionEnds(id)
  <2>1. /\ sup[id] = "session"
        /\ bound' = [q \in Ports |-> IF q = configs[id].port THEN None ELSE bound[q]]
        /\ sup'[id] # "session"
    BY <1>7 DEF SessionEnds, Give
  <2>2. AdmissionOK'
    BY <1>1, <1>6, <2>1 DEF AdmissionOK
  <2>3. ListenerOK'
    BY <1>1, <1>2, <1>5, <1>6, <2>1 DEF ListenerOK, ClaimsOK
  <2>4. SessionOK'
    BY <1>1, <1>2, <1>5, <2>1 DEF SessionOK, SupervisedOK
  <2>5. QED
    BY <1>3, <1>4, <2>2, <2>3, <2>4
<1>8. CASE Rebind(id)
  <2>1. /\ bound' = [q \in Ports |-> IF q = configs[id].port THEN id ELSE bound[q]]
        /\ sup' = [sup EXCEPT ![id] = "session"]
    BY <1>8 DEF Rebind, Give
  <2>2. AdmissionOK'
    BY <1>1, <1>6, <2>1 DEF AdmissionOK
  <2>3. ListenerOK'
    BY <1>1, <1>5, <1>6, <2>1 DEF ListenerOK
  <2>4. SessionOK'
    BY <1>1, <1>5, <2>1 DEF SessionOK, SupervisedOK
  <2>5. QED
    BY <1>3, <1>4, <2>2, <2>3, <2>4
<1>9. CASE BackoffEnds(id)
  <2>1. bound' = bound /\ sup[id] = "backoff" /\ sup'[id] # "session"
    BY <1>9 DEF BackoffEnds
  <2>2. AdmissionOK' /\ ListenerOK' /\ SessionOK'
    BY <1>1, <1>2, <2>1 DEF AdmissionOK, ListenerOK, SessionOK
  <2>3. QED
    BY <1>3, <1>4, <2>2
<1>10. QED
  BY <1>7, <1>8, <1>9 DEF SupervisorStep

\* Every step of the process.
LEMMA ProcessOwnership ==
  ASSUME IndInv, ProcessStep
  PROVE  Ownership'
<1> USE DEF IndInv, Shape, TypeOK, mapVars, reqVars
<1>1. CASE ListStore \/ Serve \/ Signal \/ StopBegin \/ Shutdown \/ LateWrite \/ Boot
  <2>1. UNCHANGED <<configs, sup, claims, bound, pc, arg>>
    BY <1>1 DEF ListStore, Serve, Signal, StopBegin, Shutdown, LateWrite, Boot
  <2>2. QED
    BY <2>1, OwnershipFrame
<1>2. ASSUME phase = "restoring" \/ phase = "stopping"
      PROVE  \A q \in Requests : pc[q] \notin {"put", "install", "swap", "stopping"}
  BY <1>2 DEF PhaseOK
<1>3. ASSUME NEW id \in Ids, RestoreAdmit(id)
      PROVE  Ownership'
  <2> DEFINE cfg == todo[id]
  <2>1. /\ phase = "restoring" /\ cfg \in Configs
        /\ Unclaimed(cfg.port) /\ Bindable(cfg.port) /\ Install(id, cfg)
        /\ UNCHANGED <<pc, arg>>
    BY <1>3 DEF RestoreAdmit, RestoreNext, Listed
  <2>2. configs[id] = None
    BY <2>1 DEF SortedOK
  <2>3. \A q \in Requests : pc'[q] \notin {"put", "install", "swap"}
    BY <1>2, <2>1
  <2>4. \A p \in Ports : bound'[p] = IF p = cfg.port THEN id ELSE bound[p]
    BY <1>3 DEF RestoreAdmit, Give
  <2>5. \A p \in Ports : bound[p] # None => claims[p] = bound[p] /\ sup[bound[p]] = "session"
    BY <1>2, <2>1 DEF Ownership, ListenerOK
  <2>6. Shape'
    BY <1>3, ProcessShape
  <2>7. QED
    BY <2>1, <2>2, <2>3, <2>4, <2>5, <2>6, InstallOwnership
<1>4. ASSUME NEW id \in Ids, RestoreFailed(id)
      PROVE  Ownership'
  <2> USE DEF Ownership
  <2> DEFINE cfg == todo[id]
  <2>1. /\ phase = "restoring" /\ cfg \in Configs
        /\ configs' = [configs EXCEPT ![id] = cfg]
        /\ UNCHANGED <<sup, bound, pc, arg>>
    BY <1>4 DEF RestoreFailed, RestoreNext, Listed
  <2>2. configs[id] = None /\ sup[id] = "none"
    BY <2>1 DEF SortedOK, SupervisedOK
  <2>3. \/ claims' = claims
        \/ /\ Unclaimed(cfg.port)
           /\ claims' = [q \in Ports |-> IF q = cfg.port THEN id ELSE claims[q]]
    BY <1>4 DEF RestoreFailed, Give
  <2>4. ClaimsOK' /\ SupervisedOK'
    BY <2>1, <2>2, <2>3 DEF ClaimsOK, SupervisedOK, Unclaimed
  <2>5. AdmissionOK' /\ SwapOK'
    BY <1>2, <2>1 DEF AdmissionOK, SwapOK
  <2>6. ListenerOK'
    BY <1>2, <2>1, <2>3 DEF ListenerOK, Unclaimed
  <2>7. SessionOK'
    BY <2>1, <2>2 DEF SessionOK, SupervisedOK
  <2>8. QED
    BY <2>4, <2>5, <2>6, <2>7
<1>5. CASE StopFinish
  <2> USE DEF Ownership
  <2>1. /\ phase = "stopping" /\ UNCHANGED <<bound, pc, arg>>
        /\ \A id \in Ids : sup[id] # "session"
        /\ \A id \in Ids : sup'[id] = "none"
        /\ \A p \in Ports : claims'[p] = None
    BY <1>5 DEF StopFinish, Forgotten, Idle
  <2>2. \A p \in Ports : bound[p] = None
    BY <1>2, <2>1 DEF ListenerOK
  <2>3. QED
    BY <1>2, <2>1, <2>2 DEF ClaimsOK, SupervisedOK, AdmissionOK, SwapOK, ListenerOK, SessionOK
<1>6. CASE Die
  <2>1. /\ \A id \in Ids : sup'[id] = "none"
        /\ \A p \in Ports : claims'[p] = None /\ bound'[p] = None
        /\ \A r \in Requests : pc'[r] \in {"idle", "done"}
    BY <1>6 DEF Die, Forgotten
  <2>2. QED
    BY <2>1 DEF Ownership, ClaimsOK, SupervisedOK, AdmissionOK, SwapOK, ListenerOK, SessionOK
<1>7. QED
  BY <1>1, <1>3, <1>4, <1>5, <1>6 DEF ProcessStep, StartStep, StopStep

---------------------------------------------------------------------------
(* Pipelines, the order of Restore, and the bucket.                        *)

\* The generations run what the map says, whoever changes either.
LEMMA RunningInd ==
  ASSUME IndInv, [Next]_vars
  PROVE  RunningOK'
<1> USE DEF IndInv, Shape, TypeOK, Ownership, RunningOK, mapVars, bucket, reqVars
<1>1. ASSUME UNCHANGED <<configs, sup, running>> PROVE RunningOK'
  BY <1>1
<1>2. ASSUME NEW r \in Requests, Arrive(r) \/ RequestStep(r) PROVE RunningOK'
  <2>1. CASE RegisterInstall(r)
    BY <2>1 DEF RegisterInstall, Install, ArgOK
  <2>2. CASE UpdateSwap(r)
    <3>1. /\ arg[r].id \in Ids /\ arg[r].cfg \in Pipes /\ configs[arg[r].id] \in Configs
          /\ sup[arg[r].id] # "none"
      BY <2>2 DEF ArgOK, UpdateSwap, SwapOK, SupervisedOK
    <3>2. configs' = [configs EXCEPT ![arg[r].id] = [configs[arg[r].id] EXCEPT !.pipe = arg[r].cfg]]
      BY <2>2 DEF UpdateSwap
    <3>3. configs'[arg[r].id].pipe = arg[r].cfg
      BY <3>1, <3>2, UpdatedType
    <3>4. QED
      BY <2>2, <3>1, <3>2, <3>3 DEF UpdateSwap
  <2>3. CASE RemoveFinish(r)
    BY <2>3 DEF RemoveFinish, ArgOK
  <2>4. CASE Arrive(r) \/ RegisterPut(r) \/ UpdatePut(r) \/ UpdateReturn(r)
    BY <1>1, <2>4 DEF Arrive, RegisterOpen, RegisterRefused, UpdateLookup, RemoveDelete,
                      RegisterPut, UpdatePut, UpdateReturn
  <2>5. QED
    BY <1>2, <2>1, <2>2, <2>3, <2>4 DEF RequestStep
<1>3. ASSUME NEW id \in Ids, SupervisorStep(id) PROVE RunningOK'
  BY <1>3 DEF SupervisorStep, SessionEnds, Rebind, BackoffEnds
<1>4. ASSUME NEW id \in Ids, RestoreAdmit(id) \/ RestoreFailed(id) PROVE RunningOK'
  <2>1. phase = "restoring" /\ todo[id] \in Configs
    BY <1>4 DEF RestoreAdmit, RestoreFailed, RestoreNext, Listed
  <2>2. sup[id] = "none"
    BY <2>1 DEF SortedOK, SupervisedOK
  <2>3. QED
    BY <1>4, <2>1, <2>2 DEF RestoreAdmit, RestoreFailed, Install
<1>5. CASE StopFinish \/ Die
  BY <1>5 DEF StopFinish, Die, Forgotten, Empty
<1>6. CASE \/ ListStore \/ Serve \/ Signal \/ StopBegin \/ Shutdown \/ LateWrite \/ Boot
          \/ UNCHANGED vars
  BY <1>1, <1>6 DEF ListStore, Serve, Signal, StopBegin, Shutdown, LateWrite, Boot, vars
<1>7. QED
  BY <1>2, <1>3, <1>4, <1>5, <1>6 DEF Next, StartStep, StopStep, Over

\* Restore admits the ids in their order, and so the first to want a port has it:
\* a later one finds the claim of a smaller id.
LEMMA RestoreInd ==
  ASSUME IndInv, [Next]_vars
  PROVE  SortedOK' /\ LeastIdWins'
<1> USE DEF IndInv, Shape, TypeOK, mapVars, reqVars
<1>1. ASSUME UNCHANGED <<configs, claims, todo, phase>> PROVE SortedOK' /\ LeastIdWins'
  BY <1>1 DEF SortedOK, LeastIdWins
<1>2. ASSUME phase' # "restoring" PROVE SortedOK' /\ LeastIdWins'
  BY <1>2 DEF SortedOK, LeastIdWins
<1>3. ASSUME NEW r \in Requests, Arrive(r) \/ RequestStep(r) PROVE SortedOK' /\ LeastIdWins'
  <2>1. phase' = phase
    BY <1>3 DEF Arrive, RequestStep, RegisterOpen, RegisterRefused, UpdateLookup, RemoveDelete,
                RegisterPut, RegisterInstall, UpdatePut, UpdateSwap, UpdateReturn, RemoveFinish
  <2>2. CASE RegisterInstall(r) \/ UpdateSwap(r) \/ RemoveFinish(r)
    <3>1. mu = r
      BY <2>2 DEF RegisterInstall, UpdateSwap, RemoveFinish
    <3>2. phase # "restoring"
      BY <3>1 DEF PhaseOK
    <3>3. QED
      BY <1>2, <2>1, <3>2
  <2>3. CASE Arrive(r) \/ RegisterPut(r) \/ UpdatePut(r) \/ UpdateReturn(r)
    BY <1>1, <2>3 DEF Arrive, RegisterOpen, RegisterRefused, UpdateLookup, RemoveDelete,
                      RegisterPut, UpdatePut, UpdateReturn
  <2>4. QED
    BY <1>3, <2>2, <2>3 DEF RequestStep
<1>4. ASSUME NEW id \in Ids, SupervisorStep(id) PROVE SortedOK' /\ LeastIdWins'
  BY <1>1, <1>4 DEF SupervisorStep, SessionEnds, Rebind, BackoffEnds
<1>5. ASSUME NEW id \in Ids, RestoreAdmit(id) \/ RestoreFailed(id)
      PROVE  SortedOK' /\ LeastIdWins'
  <2> DEFINE cfg == todo[id]
  <2>1. /\ phase = "restoring" /\ cfg \in Configs
        /\ \A other \in Ids : todo[other] # None => id <= other
        /\ todo' = [todo EXCEPT ![id] = None]
        /\ configs' = [configs EXCEPT ![id] = cfg]
    BY <1>5 DEF RestoreAdmit, RestoreFailed, RestoreNext, Listed, Install
  <2>2. \A i \in Ids : configs[i] # None => i < id
    BY <2>1 DEF SortedOK
  <2>3. SortedOK'
    BY <2>1, <2>2 DEF SortedOK
  <2>4. \/ /\ claims' = claims
           /\ \E q \in Ports : q = cfg.port /\ claims[q] # None
        \/ /\ Unclaimed(cfg.port)
           /\ claims' = [q \in Ports |-> IF q = cfg.port THEN id ELSE claims[q]]
    BY <1>5 DEF RestoreAdmit, RestoreFailed, Install, Give, Unclaimed
  <2>5. \A q \in Ports : claims[q] # None => claims[q] \in Ids /\ claims[q] < id
    <3>1. SUFFICES ASSUME NEW q \in Ports, claims[q] # None
                   PROVE  claims[q] \in Ids /\ claims[q] < id
      OBVIOUS
    <3>2. claims[q] \in Ids /\ configs[claims[q]] # None
      BY <3>1 DEF Ownership, ClaimsOK
    <3>3. QED
      BY <2>2, <3>2
  <2>6. LeastIdWins'
    <3>1. SUFFICES ASSUME NEW i \in Ids, NEW p \in Ports, configs'[i] # None, configs'[i].port = p
                   PROVE  claims'[p] \in Ids /\ claims'[p] <= i
      BY DEF LeastIdWins
    <3>2. CASE i = id
      <4>1. cfg.port = p
        BY <2>1, <3>1, <3>2
      <4>2. CASE claims' = claims /\ \E q \in Ports : q = cfg.port /\ claims[q] # None
        <5>1. claims[p] \in Ids /\ claims[p] < id
          BY <2>5, <4>1, <4>2
        <5>2. QED
          <6>1. claims[p] \in Nat /\ id \in Nat
            BY <5>1
          <6>2. claims[p] <= id
            BY <5>1, <6>1
          <6>3. QED
            BY <3>2, <4>2, <5>1, <6>2
      <4>3. CASE claims' = [q \in Ports |-> IF q = cfg.port THEN id ELSE claims[q]]
        BY <3>2, <4>1, <4>3
      <4>4. QED
        BY <2>4, <4>2, <4>3
    <3>3. CASE i # id
      <4>1. claims[p] \in Ids /\ claims[p] <= i
        BY <2>1, <3>1, <3>3 DEF LeastIdWins
      <4>2. claims'[p] = claims[p]
        BY <2>4, <4>1 DEF Unclaimed
      <4>3. QED
        BY <4>1, <4>2
    <3>4. QED
      BY <3>2, <3>3
  <2>7. QED
    BY <2>3, <2>6
<1>6. CASE ListStore
  <2>1. \A i \in Ids : configs'[i] = None
    BY <1>6 DEF ListStore, PhaseOK, Empty
  <2>2. QED
    BY <2>1 DEF SortedOK, LeastIdWins
<1>7. CASE Serve \/ Signal \/ StopBegin \/ StopFinish \/ Shutdown \/ Die \/ Boot
  BY <1>2, <1>7 DEF Serve, Signal, StopBegin, StopFinish, Shutdown, Die, Boot
<1>8. CASE LateWrite \/ UNCHANGED vars
  BY <1>1, <1>8 DEF LateWrite, vars
<1>9. QED
  BY <1>3, <1>4, <1>5, <1>6, <1>7, <1>8 DEF Next, StartStep, StopStep, Over

\* A step that writes no entry and no map, and leaves alone what is in hand.
LEMMA AgreeFrame ==
  ASSUME IndInv, UNCHANGED <<phase, configs, store, doubtful, todo>>,
         \A q \in Requests :
           \/ pc'[q] = pc[q] /\ arg'[q] = arg[q]
           \/ /\ pc[q] \notin {"install", "swap", "stopping"}
              /\ pc'[q] \notin {"install", "swap", "stopping"}
  PROVE  AgreeOK'
<1>1. \A q \in Requests, i \in Ids : InHand(q, i)' <=> InHand(q, i)
  BY DEF InHand
<1>2. \A q \in Requests, i \in Ids :
        InHand(q, i) => pc'[q] = pc[q] /\ arg'[q] = arg[q]
  BY DEF InHand
<1>3. QED
  BY <1>1, <1>2 DEF IndInv, AgreeOK, AgreeAt

\* Every step of a request.  Each writes at most the entry it works on, and the
\* map follows before m.mu is released.
LEMMA RequestAgree ==
  ASSUME IndInv, NEW r \in Requests, Arrive(r) \/ RequestStep(r)
  PROVE  AgreeOK'
<1> USE DEF IndInv, Shape, TypeOK, mapVars, bucket
<1>1. phase' = phase /\ todo' = todo
  BY DEF Arrive, RequestStep, RegisterOpen, RegisterRefused, UpdateLookup, RemoveDelete,
         RegisterPut, RegisterInstall, UpdatePut, UpdateSwap, UpdateReturn, RemoveFinish
<1>2. ASSUME mu \in {r, Free}
      PROVE  /\ phase # "restoring"
             /\ \A q \in Requests \ {r} : pc[q] \notin {"put", "install", "swap", "stopping"}
  BY <1>2 DEF PhaseOK
<1>3. CASE RegisterOpen(r) \/ RegisterRefused(r) \/ UpdateLookup(r) \/ UpdateReturn(r)
  <2>1. /\ UNCHANGED <<configs, store, doubtful>>
        /\ pc[r] \notin {"install", "swap", "stopping"}
        /\ pc'[r] \notin {"install", "swap", "stopping"}
        /\ \A q \in Requests \ {r} : pc'[q] = pc[q] /\ arg'[q] = arg[q]
    BY <1>3 DEF RegisterOpen, RegisterRefused, UpdateLookup, UpdateReturn, Admissible, Enter,
                Answer, ArgOK
  <2>2. QED
    BY <1>1, <2>1, AgreeFrame
<1>4. CASE RemoveDelete(r)
  <2>1. PICK id \in Ids :
          \/ StoreOk(id, None) /\ Enter(r, "stopping", id, None)
          \/ StoreFails(id, None) /\ Answer(r, "unavailable") /\ UNCHANGED arg
          \/ Answer(r, "missing") /\ UNCHANGED <<bucket, arg>>
    BY <1>4 DEF RemoveDelete
  <2>2. pc[r] = "idle" /\ mu = Free /\ configs' = configs
    BY <1>4 DEF RemoveDelete, Admissible
  <2>3. \A i \in Ids \ doubtful : phase \in {"serving", "signalled"} => store[i] = configs[i]
    BY <1>2, <2>2 DEF AgreeOK, AgreeAt, InHand
  <2>4. CASE StoreOk(id, None) /\ Enter(r, "stopping", id, None)
    <3>1. /\ store' = [store EXCEPT ![id] = None] /\ doubtful' = doubtful \ {id}
          /\ pc' = [pc EXCEPT ![r] = "stopping"] /\ arg'[r].id = id
      BY <2>4 DEF StoreOk, Enter, ArgOK
    <3>2. \A q \in Requests, i \in Ids : InHand(q, i)' <=> q = r /\ i = id
      BY <1>2, <2>2, <3>1 DEF InHand
    <3>3. QED
      BY <1>1, <1>2, <2>2, <2>3, <3>1, <3>2 DEF AgreeOK, AgreeAt
  <2>5. CASE StoreFails(id, None) /\ Answer(r, "unavailable") /\ UNCHANGED arg
    <3>1. store' = store /\ doubtful \subseteq doubtful' /\ pc' = [pc EXCEPT ![r] = "done"]
      BY <2>5 DEF StoreFails, Answer
    <3>2. \A q \in Requests, i \in Ids : ~InHand(q, i)'
      BY <1>2, <2>2, <3>1 DEF InHand
    <3>3. QED
      BY <1>1, <1>2, <2>2, <2>3, <3>1, <3>2 DEF AgreeOK, AgreeAt
  <2>6. CASE Answer(r, "missing") /\ UNCHANGED <<bucket, arg>>
    BY <1>1, <2>2, <2>6, AgreeFrame DEF Answer
  <2>7. QED
    BY <2>1, <2>4, <2>5, <2>6
<1>5. CASE RegisterPut(r)
  <2> DEFINE id == arg[r].id  cfg == arg[r].cfg
  <2>1. /\ pc[r] = "put" /\ mu = r /\ UNCHANGED <<configs, arg>>
        /\ id \in Ids /\ cfg \in Configs
    BY <1>5 DEF RegisterPut, ArgOK
  <2>2. \A i \in Ids \ doubtful : phase \in {"serving", "signalled"} => store[i] = configs[i]
    BY <1>2, <2>1 DEF AgreeOK, AgreeAt, InHand
  <2>3. CASE StoreOk(id, cfg) /\ pc' = [pc EXCEPT ![r] = "install"]
    <3>1. store' = [store EXCEPT ![id] = cfg] /\ doubtful' = doubtful \ {id}
      BY <2>3 DEF StoreOk
    <3>2. \A q \in Requests, i \in Ids : InHand(q, i)' <=> q = r /\ i = id
      BY <1>2, <2>1, <2>3 DEF InHand
    <3>3. QED
      BY <1>1, <1>2, <2>1, <2>2, <2>3, <3>1, <3>2 DEF AgreeOK, AgreeAt
  <2>4. CASE StoreFails(id, cfg) /\ Answer(r, "unavailable")
    <3>1. store' = store /\ doubtful \subseteq doubtful' /\ pc' = [pc EXCEPT ![r] = "done"]
      BY <2>4 DEF StoreFails, Answer
    <3>2. \A q \in Requests, i \in Ids : ~InHand(q, i)'
      BY <1>2, <2>1, <3>1 DEF InHand
    <3>3. QED
      BY <1>1, <1>2, <2>1, <2>2, <3>1, <3>2 DEF AgreeOK, AgreeAt
  <2>5. QED
    BY <1>5, <2>3, <2>4 DEF RegisterPut
<1>6. CASE UpdatePut(r)
  <2> DEFINE id == arg[r].id  updated == WithPipe(configs[id], arg[r].cfg)
  <2>1. /\ pc[r] = "built" /\ mu = Free /\ UNCHANGED <<configs, arg>>
        /\ id \in Ids
    BY <1>6 DEF UpdatePut, ArgOK
  <2>2. \A i \in Ids \ doubtful : phase \in {"serving", "signalled"} => store[i] = configs[i]
    BY <1>2, <2>1 DEF AgreeOK, AgreeAt, InHand
  <2>3. CASE StoreOk(id, updated) /\ pc' = [pc EXCEPT ![r] = "swap"]
    <3>1. store' = [store EXCEPT ![id] = updated] /\ doubtful' = doubtful \ {id}
      BY <2>3 DEF StoreOk
    <3>2. \A q \in Requests, i \in Ids : InHand(q, i)' <=> q = r /\ i = id
      BY <1>2, <2>1, <2>3 DEF InHand
    <3>3. QED
      BY <1>1, <1>2, <2>1, <2>2, <2>3, <3>1, <3>2 DEF AgreeOK, AgreeAt
  <2>4. CASE StoreFails(id, updated) /\ Answer(r, "unavailable")
    <3>1. store' = store /\ doubtful \subseteq doubtful' /\ pc' = [pc EXCEPT ![r] = "done"]
      BY <2>4 DEF StoreFails, Answer
    <3>2. \A q \in Requests, i \in Ids : ~InHand(q, i)'
      BY <1>2, <2>1, <3>1 DEF InHand
    <3>3. QED
      BY <1>1, <1>2, <2>1, <2>2, <3>1, <3>2 DEF AgreeOK, AgreeAt
  <2>5. CASE Answer(r, "missing") /\ UNCHANGED bucket
    BY <1>1, <2>1, <2>5, AgreeFrame DEF Answer
  <2>6. QED
    BY <1>6, <2>3, <2>4, <2>5 DEF UpdatePut, WithPipe
<1>7. CASE RegisterInstall(r) \/ UpdateSwap(r) \/ RemoveFinish(r)
  <2> DEFINE id == arg[r].id
  <2>1. /\ mu = r /\ UNCHANGED <<store, doubtful, arg>> /\ id \in Ids
        /\ pc'[r] \notin {"install", "swap", "stopping"}
        /\ \A q \in Requests \ {r} : pc'[q] = pc[q]
    BY <1>7 DEF RegisterInstall, UpdateSwap, RemoveFinish, Answer, ArgOK
  <2>2. \A q \in Requests, i \in Ids : ~InHand(q, i)'
    BY <1>2, <2>1 DEF InHand
  <2>3. \A i \in Ids \ doubtful :
          i # id /\ phase \in {"serving", "signalled"} => store[i] = configs[i]
    BY <1>2, <2>1 DEF AgreeOK, AgreeAt, InHand
  <2>4. \A i \in Ids \ {id} : configs'[i] = configs[i]
    BY <1>7 DEF RegisterInstall, Install, UpdateSwap, RemoveFinish
  <2>5. id \notin doubtful /\ phase \in {"serving", "signalled"} => store[id] = configs'[id]
    <3>1. CASE RegisterInstall(r)
      BY <2>1, <3>1 DEF AgreeOK, AgreeAt, InHand, RegisterInstall, Install
    <3>2. CASE UpdateSwap(r)
      <4>1. configs' = [configs EXCEPT ![id] = WithPipe(configs[id], arg[r].cfg)]
        BY <3>2 DEF UpdateSwap, WithPipe
      <4>2. QED
        BY <2>1, <3>2, <4>1 DEF AgreeOK, AgreeAt, InHand, UpdateSwap
    <3>3. CASE RemoveFinish(r)
      BY <2>1, <3>3 DEF AgreeOK, AgreeAt, InHand, RemoveFinish
    <3>4. QED
      BY <1>7, <3>1, <3>2, <3>3
  <2>6. QED
    BY <1>1, <1>2, <2>1, <2>2, <2>3, <2>4, <2>5 DEF AgreeOK, AgreeAt
<1>8. QED
  BY <1>3, <1>4, <1>5, <1>6, <1>7 DEF Arrive, RequestStep

\* Every step of the process.  A late write lands in an entry that is in doubt;
\* ListStore puts in doubt what it did not read.
LEMMA ProcessAgree ==
  ASSUME IndInv, ProcessStep
  PROVE  AgreeOK'
<1> USE DEF IndInv, Shape, TypeOK, mapVars, bucket, reqVars
<1>1. ASSUME phase' \notin {"restoring", "serving", "signalled"} PROVE AgreeOK'
  BY <1>1 DEF AgreeOK, AgreeAt
<1>2. ASSUME phase = "restoring"
      PROVE  \A q \in Requests, i \in Ids : ~InHand(q, i)
  BY <1>2 DEF PhaseOK, InHand
<1>3. CASE ListStore
  <2>1. /\ phase' = "restoring" /\ UNCHANGED <<configs, store>>
        /\ \A i \in Ids : configs[i] = None
        /\ \A i \in Ids \ doubtful' : todo'[i] = store[i]
    BY <1>3 DEF ListStore, PhaseOK, Empty
  <2>2. QED
    BY <2>1 DEF AgreeOK, AgreeAt
<1>4. ASSUME NEW id \in Ids, RestoreAdmit(id) \/ RestoreFailed(id)
      PROVE  AgreeOK'
  <2>1. /\ phase = "restoring" /\ phase' = phase /\ todo[id] # None
        /\ todo' = [todo EXCEPT ![id] = None]
        /\ configs' = [configs EXCEPT ![id] = todo[id]]
        /\ UNCHANGED <<store, doubtful>>
    BY <1>4 DEF RestoreAdmit, RestoreFailed, RestoreNext, Listed, Install
  <2>2. QED
    BY <2>1 DEF AgreeOK, AgreeAt
<1>5. CASE Serve
  <2>1. /\ phase = "restoring" /\ phase' = "serving"
        /\ UNCHANGED <<configs, store, doubtful, pc, arg>>
        /\ \A i \in Ids : todo[i] = None
    BY <1>5 DEF Serve, Listed
  <2>2. \A q \in Requests, i \in Ids : ~InHand(q, i)'
    BY <1>2, <2>1 DEF InHand
  <2>3. QED
    BY <2>1, <2>2 DEF AgreeOK, AgreeAt
<1>6. CASE Signal
  <2>1. /\ phase = "serving" /\ phase' = "signalled"
        /\ UNCHANGED <<configs, store, doubtful, pc, arg>>
    BY <1>6 DEF Signal
  <2>2. \A q \in Requests, i \in Ids : InHand(q, i)' <=> InHand(q, i)
    BY <2>1 DEF InHand
  <2>3. QED
    BY <2>1, <2>2 DEF AgreeOK, AgreeAt
<1>7. CASE LateWrite
  <2>1. /\ UNCHANGED <<phase, configs, todo, doubtful, pc, arg>>
        /\ \A i \in Ids \ doubtful : store'[i] = store[i]
    BY <1>7 DEF LateWrite, LateOK, Writes
  <2>2. \A q \in Requests, i \in Ids : InHand(q, i)' <=> InHand(q, i)
    BY <2>1 DEF InHand
  <2>3. QED
    BY <2>1, <2>2 DEF AgreeOK, AgreeAt
<1>8. CASE StopBegin \/ StopFinish \/ Shutdown \/ Die \/ Boot
  BY <1>1, <1>8 DEF StopBegin, StopFinish, Shutdown, Die, Boot
<1>9. QED
  BY <1>3, <1>4, <1>5, <1>6, <1>7, <1>8 DEF ProcessStep, StartStep, StopStep

---------------------------------------------------------------------------
(* The theorems.                                                           *)

\* Before the first start there is a bucket and nothing else.
LEMMA InitInd == Init => IndInv
<1>1. SUFFICES ASSUME Init PROVE IndInv
  OBVIOUS
<1> USE <1>1 DEF Init, Empty
<1>2. Shape
  <2>1. TypeOK
    BY DEF TypeOK
  <2>2. ArgOK /\ LateOK /\ PhaseOK
    BY DEF ArgOK, LateOK, PhaseOK
  <2>3. QED
    BY <2>1, <2>2 DEF Shape
<1>3. Ownership
  BY DEF Ownership, ClaimsOK, SupervisedOK, AdmissionOK, SwapOK, ListenerOK, SessionOK
<1>4. RunningOK /\ SortedOK /\ LeastIdWins /\ AgreeOK
  BY DEF RunningOK, SortedOK, LeastIdWins, AgreeOK, AgreeAt
<1>5. QED
  BY <1>2, <1>3, <1>4 DEF IndInv

\* Each step keeps the invariant, part by part.
LEMMA NextInd == IndInv /\ [Next]_vars => IndInv'
<1>1. SUFFICES ASSUME IndInv, [Next]_vars PROVE IndInv'
  OBVIOUS
<1>2. SUFFICES Shape' /\ Ownership' /\ AgreeOK'
  BY <1>1, RunningInd, RestoreInd DEF IndInv
<1>3. ASSUME NEW r \in Requests, Arrive(r) \/ RequestStep(r)
      PROVE  Shape' /\ Ownership' /\ AgreeOK'
  BY <1>1, <1>3, RequestShape, RequestOwnership, RequestAgree
<1>4. ASSUME NEW id \in Ids, SupervisorStep(id)
      PROVE  Shape' /\ Ownership' /\ AgreeOK'
  <2>1. UNCHANGED <<phase, configs, store, doubtful, todo, pc, arg>>
    BY <1>4 DEF SupervisorStep, SessionEnds, Rebind, BackoffEnds, bucket, reqVars
  <2>2. AgreeOK'
    BY <1>1, <2>1, AgreeFrame
  <2>3. QED
    BY <1>1, <1>4, <2>2, SupervisorShape, SupervisorOwnership
<1>5. CASE ProcessStep
  BY <1>1, <1>5, ProcessShape, ProcessOwnership, ProcessAgree
<1>6. CASE UNCHANGED vars
  <2>1. UNCHANGED <<phase, boots, mu, configs, sup, running, cancelled, claims, bound, store,
                    late, doubtful, todo, pc, arg, ans>>
    BY <1>6 DEF vars, mapVars, bucket, reqVars
  <2>2. AgreeOK' /\ Ownership'
    BY <1>1, <2>1, AgreeFrame, OwnershipFrame
  <2>3. Shape'
    BY <1>1, <2>1 DEF IndInv, Shape, TypeOK, ArgOK, LateOK, PhaseOK
  <2>4. QED
    BY <2>2, <2>3
<1>7. QED
  BY <1>1, <1>3, <1>4, <1>5, <1>6 DEF Next, ProcessStep, Over

\* The invariant holds of every process and its bucket, over any number of starts.
THEOREM Inductive == Spec => []IndInv
  BY InitInd, NextInd, PTL DEF Spec

\* manager.go, portClaims: a claim never outlives its stream and no supervised
\* stream is without its own, for any streams, ports and requests.
THEOREM ClaimsHold == Spec => []ClaimsConsistent
<1>1. IndInv => ClaimsConsistent
  BY DEF IndInv, Shape, Ownership, ClaimsOK, SupervisedOK, ClaimsConsistent
<1>2. QED
  BY <1>1, Inductive, PTL

\* A listener is its stream's, in a session or an admission: a restart never finds
\* its port taken by another stream, and a refused admission leaves none behind.
THEOREM ListenersHold == Spec => []BoundByHolder
<1>1. IndInv => BoundByHolder
  BY DEF IndInv, Ownership, ListenerOK, SessionOK, BoundByHolder
<1>2. QED
  BY <1>1, Inductive, PTL

\* Restore, "Sorting makes the winner the same across restarts".
THEOREM WinnerHolds == Spec => []LeastIdWins
<1>1. IndInv => LeastIdWins
  BY DEF IndInv
<1>2. QED
  BY <1>1, Inductive, PTL

\* Whatever is not in doubt is served, stored and run alike whenever m.mu is free.
THEOREM StoreHolds == Spec => []StoredIsRegistered
<1>1. IndInv => StoredIsRegistered
  <2>1. SUFFICES ASSUME IndInv, phase \in {"serving", "signalled"}, mu = Free,
                        NEW id \in Ids \ doubtful
                 PROVE  /\ store[id] = configs[id]
                        /\ running[id] = IF sup[id] = "none" THEN None ELSE store[id].pipe
    BY DEF StoredIsRegistered
  <2>2. \A r \in Requests : ~InHand(r, id)
    BY <2>1 DEF IndInv, Shape, TypeOK, InHand
  <2>3. store[id] = configs[id]
    BY <2>1, <2>2 DEF IndInv, AgreeOK, AgreeAt
  <2>4. QED
    BY <2>1, <2>3 DEF IndInv, RunningOK
<1>2. QED
  BY <1>1, Inductive, PTL

\* How a step moves the requests: one begins, goes on waiting for the bucket, or is
\* beyond it.
Moves == \A r \in Requests : \/ pc'[r] = pc[r] /\ arg'[r] = arg[r]
                             \/ pc[r] = "idle"
                             \/ pc'[r] \notin {"idle", "put", "built"}

\* Every step of the process moves its requests so.
LEMMA NextMoves ==
  ASSUME IndInv, [Next]_vars
  PROVE  Moves
<1> USE DEF IndInv, Shape, TypeOK, Moves, reqVars
<1>1. ASSUME NEW r \in Requests, Arrive(r)
      PROVE  Moves
  <2>1. /\ pc[r] = "idle"
        /\ \A q \in Requests \ {r} : pc'[q] = pc[q] /\ arg'[q] = arg[q]
    <3>1. CASE RegisterOpen(r)
      BY <3>1 DEF RegisterOpen, Admissible, Enter, ArgOK
    <3>2. CASE RegisterRefused(r)
      BY <3>2 DEF RegisterRefused, Admissible, Answer
    <3>3. CASE UpdateLookup(r)
      BY <3>3 DEF UpdateLookup, Admissible, Enter, Answer, ArgOK
    <3>4. CASE RemoveDelete(r)
      BY <3>4 DEF RemoveDelete, Admissible, Enter, Answer, ArgOK
    <3>5. QED
      BY <1>1, <3>1, <3>2, <3>3, <3>4 DEF Arrive
  <2>2. QED
    BY <2>1
<1>2. ASSUME NEW r \in Requests, RequestStep(r)
      PROVE  Moves
  BY <1>2
     DEF RequestStep, RegisterPut, RegisterInstall, UpdatePut, UpdateSwap, UpdateReturn,
         RemoveFinish, Answer
<1>3. CASE Die
  BY <1>3 DEF Die
<1>4. CASE UNCHANGED reqVars
  BY <1>4
<1>5. QED
  BY <1>1, <1>2, <1>3, <1>4
     DEF Next, SupervisorStep, SessionEnds, Rebind, BackoffEnds, StartStep, ListStore, Serve,
         RestoreAdmit, RestoreFailed, Signal, StopStep, StopBegin, StopFinish, Shutdown,
         LateWrite, Boot, Over, vars

\* To the table such a step is clients that ask, wait, or are answered.
LEMMA TalkStep ==
  ASSUME Moves
  PROVE  R!Talk
  BY DEF Moves, CallOf, R!Talk, R!New, R!Done

\* A request that goes beyond the bucket has been answered there.
LEMMA AnsweredStep ==
  ASSUME NEW r \in Requests, NEW next \in {"install", "swap", "stopping"},
         TypeOK,
         pc' = [pc EXCEPT ![r] = next],
         \A q \in Requests \ {r} : arg'[q] = arg[q]
  PROVE  R!Answered(r)
<1>1. \A q \in Requests \ {r} : CallOf(q)' = CallOf(q)
  BY DEF CallOf, TypeOK
<1>2. CallOf(r)' = R!Done
  BY DEF CallOf, R!Done, TypeOK
<1>3. QED
  BY <1>1, <1>2 DEF R!Answered

\* A write of one entry that agrees with the map is a step of module Registry:
\* Put of a POST on a free id creates, of an update on a registered one updates, and
\* Delete deletes.
LEMMA WriteIsRegistryStep ==
  ASSUME IndInv, NEW r \in Requests, Arrive(r) \/ RequestStep(r),
         phase \notin {"stopped", "closing"},
         NEW i \in Ids \ doubtful, store'[i] # store[i]
  PROVE  R!Create(r, i) \/ R!Update(r, i) \/ R!Delete(r, i)
<1> USE DEF IndInv, Shape, TypeOK, mapVars, bucket
<1>1. ASSUME mu \in {r, Free}, pc[r] \notin {"install", "swap", "stopping"}
      PROVE  store[i] = configs[i]
  <2>1. \A q \in Requests : ~InHand(q, i)
    BY <1>1 DEF InHand
  <2>2. phase \in {"serving", "signalled"}
    <3>1. phase \notin {"restoring", "stopping"}
      BY <1>1 DEF PhaseOK
    <3>2. CASE phase \in {"listing", "down"}
      <4>1. mu = Free /\ \A j \in Ids : sup[j] = "none" /\ configs[j] = None
        BY <3>2 DEF PhaseOK, Empty
      <4>2. \A q \in Requests : pc[q] \notin {"put", "install", "swap", "stopping"}
        BY <4>1
      <4>3. store' = store
        BY <3>2, <4>1, <4>2
           DEF Arrive, RequestStep, Admissible, RegisterOpen, RegisterRefused, UpdateLookup,
               RemoveDelete, RegisterPut, RegisterInstall, UpdatePut, UpdateSwap, UpdateReturn,
               RemoveFinish, ArgOK
      <4>4. QED
        BY <4>3
    <3>3. QED
      BY <3>1, <3>2
  <2>3. QED
    BY <2>1, <2>2 DEF AgreeOK, AgreeAt
<1>2. CASE RegisterPut(r)
  <2>1. PICK id \in Ids, cfg \in Configs : id = arg[r].id /\ cfg = arg[r].cfg
    BY <1>2 DEF RegisterPut, ArgOK
  <2>2. StoreOk(id, cfg)
    BY <1>2, <2>1 DEF RegisterPut, StoreFails
  <2>3. store' = [store EXCEPT ![i] = cfg] /\ i = id
    BY <2>2 DEF StoreOk
  <2>4. pc[r] = "put" /\ mu = r
    BY <1>2 DEF RegisterPut
  <2>5. store[i] = None
    BY <1>1, <2>1, <2>3, <2>4 DEF Ownership, AdmissionOK
  <2>6. R!Answered(r)
    <3>1. pc' = [pc EXCEPT ![r] = "install"]
      BY <1>2, <2>3 DEF RegisterPut, StoreFails
    <3>2. QED
      BY <1>2, <3>1, AnsweredStep DEF RegisterPut
  <2>7. R!Create(r, i)
    BY <2>1, <2>3, <2>4, <2>5, <2>6 DEF R!Create, CallOf
  <2>8. QED
    BY <2>7
<1>3. CASE UpdatePut(r)
  <2>1. PICK id \in Ids, pipe \in Pipes : id = arg[r].id /\ pipe = arg[r].cfg
    BY <1>3 DEF UpdatePut, ArgOK
  <2>2. /\ sup[id] # "none" /\ pc[r] = "built" /\ mu = Free
        /\ store' = [store EXCEPT ![id] = [configs[id] EXCEPT !.pipe = pipe]]
    BY <1>3, <2>1 DEF UpdatePut, StoreFails, StoreOk
  <2>3. i = id
    BY <2>2
  <2>4. store[i] = configs[i] /\ configs[i] # None
    BY <1>1, <2>2, <2>3 DEF Ownership, SupervisedOK
  <2>5. store' = [store EXCEPT ![i].pipe = pipe]
    BY <2>2, <2>3, <2>4
  <2>6. R!Answered(r)
    <3>1. pc' = [pc EXCEPT ![r] = "swap"]
      BY <1>3, <2>2 DEF UpdatePut, StoreFails
    <3>2. QED
      BY <1>3, <3>1, AnsweredStep DEF UpdatePut
  <2>7. R!Update(r, i)
    BY <2>1, <2>2, <2>3, <2>4, <2>5, <2>6 DEF R!Update, CallOf
  <2>8. QED
    BY <2>7
<1>4. CASE RemoveDelete(r)
  <2>1. PICK id \in Ids : configs[id] # None /\ store' = [store EXCEPT ![id] = None]
    BY <1>4 DEF RemoveDelete, StoreFails, StoreOk
  <2>2. i = id /\ pc[r] = "idle" /\ mu = Free
    BY <1>4, <2>1 DEF RemoveDelete, Admissible
  <2>3. store[i] = configs[i]
    BY <1>1, <2>2
  <2>4. R!Answered(r)
    <3>1. /\ pc' = [pc EXCEPT ![r] = "stopping"]
          /\ \A q \in Requests \ {r} : arg'[q] = arg[q]
      BY <1>4, <2>1 DEF RemoveDelete, StoreFails, Enter, ArgOK
    <3>2. QED
      BY <3>1, AnsweredStep
  <2>5. R!Delete(r, i)
    BY <2>1, <2>2, <2>3, <2>4 DEF R!Delete, R!New, CallOf
  <2>6. QED
    BY <2>5
<1>5. QED
  BY <1>2, <1>3, <1>4
     DEF Arrive, RequestStep, RegisterOpen, RegisterRefused, UpdateLookup, RegisterInstall,
         UpdateSwap, UpdateReturn, RemoveFinish

\* A request writes at most one entry.
LEMMA OneEntryWritten ==
  ASSUME IndInv, NEW r \in Requests, Arrive(r) \/ RequestStep(r), store' # store
  PROVE  \E id \in Ids : /\ store'[id] # store[id]
                         /\ \A other \in Ids \ {id} : store'[other] = store[other]
<1> USE DEF IndInv, Shape, TypeOK, bucket, mapVars
<1>1. \E id \in Ids, v \in Configs \cup {None} : store' = [store EXCEPT ![id] = v]
  <2>1. CASE RegisterPut(r)
    BY <2>1 DEF RegisterPut, StoreOk, StoreFails, ArgOK
  <2>2. CASE UpdatePut(r)
    <3>1. PICK id \in Ids, pipe \in Pipes : id = arg[r].id /\ pipe = arg[r].cfg
      BY <2>2 DEF UpdatePut, ArgOK
    <3>2. /\ sup[id] # "none"
          /\ store' = [store EXCEPT ![id] = [configs[id] EXCEPT !.pipe = pipe]]
      BY <2>2, <3>1 DEF UpdatePut, StoreOk, StoreFails
    <3>3. configs[id] \in Configs
      BY <3>2 DEF Ownership, SupervisedOK
    <3>4. [configs[id] EXCEPT !.pipe = pipe] \in Configs
      BY <3>3, UpdatedType
    <3>5. QED
      BY <3>2, <3>4
  <2>3. CASE RemoveDelete(r)
    BY <2>3 DEF RemoveDelete, StoreOk, StoreFails
  <2>4. QED
    BY <2>1, <2>2, <2>3
       DEF Arrive, RequestStep, RegisterOpen, RegisterRefused, UpdateLookup, RegisterInstall,
           UpdateSwap, UpdateReturn, RemoveFinish
<1>2. QED
  BY <1>1

\* The bucket implements the durable table of module Registry: every write is what a
\* pending request asked for, or concerns an entry in doubt.
THEOREM RegistryRefinement == Spec => ImplementsRegistry
<1>1. Init => R!TableInit
  BY DEF Init, R!TableInit, R!Entries, R!New, Configs, CallOf
<1>2. ASSUME IndInv, [Next]_vars
      PROVE  R!TableNext
  <2>1. R!Talk
    BY <1>2, NextMoves, TalkStep
  <2>2. CASE store' = store
    BY <2>1, <2>2 DEF R!TableNext
  <2>3. CASE LateWrite
    <3>1. late.id \in doubtful
      BY <2>3, <1>2 DEF LateWrite, IndInv, Shape, LateOK
    <3>2. doubtful \subseteq Ids
      BY <1>2 DEF IndInv, Shape, TypeOK
    <3>3. R!Stray(late.id)
      BY <1>2, <2>1, <2>3, <3>1, <3>2 DEF R!Stray, LateWrite, IndInv, Shape, TypeOK
    <3>4. QED
      BY <3>1, <3>2, <3>3 DEF R!TableNext
  <2>4. ASSUME NEW r \in Requests, Arrive(r) \/ RequestStep(r), store' # store
        PROVE  R!TableNext
    <3>1. PICK id \in Ids : /\ store'[id] # store[id]
                            /\ \A other \in Ids \ {id} : store'[other] = store[other]
      BY <1>2, <2>4, OneEntryWritten
    <3>2. CASE id \in IF phase \in {"stopped", "closing"} THEN Ids ELSE doubtful
      BY <2>1, <3>1, <3>2 DEF R!Stray, R!TableNext
    <3>3. CASE phase \notin {"stopped", "closing"} /\ id \notin doubtful
      BY <1>2, <2>4, <3>1, <3>3, WriteIsRegistryStep DEF R!TableNext
    <3>4. QED
      BY <3>2, <3>3
  <2>5. QED
    BY <1>2, <2>2, <2>3, <2>4
       DEF Next, SupervisorStep, SessionEnds, Rebind, BackoffEnds, StartStep, ListStore, Serve,
           RestoreAdmit, RestoreFailed, Signal, StopStep, StopBegin, StopFinish, Shutdown, Die,
           Boot, Over, vars, bucket
<1>3. QED
  BY <1>1, <1>2, Inductive, PTL DEF Spec, ImplementsRegistry, R!RegistrySpec

===========================================================================
