--------------------------- MODULE StreamManager ---------------------------
(***************************************************************************)
(* The process: the stream manager's maps (internal/server/manager.go),    *)
(* the requests that change them (internal/server/handlers.go), the config *)
(* store they are persisted in (internal/store/kv.go), the listeners its   *)
(* supervisors hold, and the way the process starts, is told to stop, and  *)
(* dies (cmd/nephtys/main.go).                                             *)
(*                                                                         *)
(* A stream's supervisor is reduced to whether it is in a session, between *)
(* two or gone (module Supervisor has the rest), a generation to the       *)
(* pipeline it runs (module Generation has the handshake).  A request runs *)
(* one operation; its steps are split where it lets go of m.mu and around  *)
(* each call of the store, where the process may die.                      *)
(***************************************************************************)
EXTENDS Integers, FiniteSets

CONSTANTS
  Ids,         \* stream ids, compared as Restore sorts them
  Ports,       \* local ports, in canonicalPort form
  NoPort,      \* connectorPort of a kind that binds nothing
  Pipes,       \* pipeline configurations
  Requests,    \* requests to the management API
  Main, Free,  \* m.mu held by runService's goroutine, by nobody
  None,        \* no config, no stream, no pipeline, no write
  Timeouts,    \* may a store call fail and still take effect later?
  SkipKeys,    \* may store.List fail or leave keys out?
  MaxBoots     \* bound on process starts

Configs == [port : Ports \cup {NoPort}, pipe : Pipes]

\* A call of store.Put, or of store.Delete when there is no value.
Writes == [id : Ids, val : Configs \cup {None}]

ASSUME StreamManagerAssumption ==
  /\ Ids \subseteq Nat /\ IsFiniteSet(Ids)
  /\ NoPort \notin Ports
  /\ {Main, Free} \cap Requests = {} /\ Main # Free
  /\ None \notin Ids \cup Pipes \cup Configs \cup Writes
  /\ Timeouts \in BOOLEAN /\ SkipKeys \in BOOLEAN
  /\ MaxBoots \in Nat \ {0}

VARIABLES
  phase,      \* how far the process is
  boots,      \* process starts so far
  mu,         \* who holds m.mu for writing
  configs,    \* m.configs; its domain is also that of m.runtimes
  sup,        \* the supervisor of a stream, "none" for one restored as failed
  running,    \* the pipeline of the generation m.generations points at
  cancelled,  \* the streams whose context is cancelled
  claims,     \* m.portClaims
  bound,      \* the stream whose listener holds the port
  store,      \* the KV bucket
  late,       \* a write whose caller was told it failed and that may yet land
  doubtful,   \* history: ids with such a write, or a key that List left out
  todo,       \* what Restore still has to admit
  pc, arg,    \* a request's control state, stream and configuration
  ans         \* what it was answered

mapVars == <<configs, sup, running, cancelled, claims>>
reqVars == <<pc, arg, ans>>
bucket == <<store, late, doubtful>>
vars == <<phase, boots, mu, mapVars, bound, bucket, todo, reqVars>>

Empty == [id \in Ids |-> None]

\* The bucket holds whatever earlier versions accepted, two streams on one port
\* included.
Init ==
  /\ phase = "listing" /\ boots = 1 /\ mu = Free
  /\ configs = Empty
  /\ sup = [id \in Ids |-> "none"]
  /\ running = Empty
  /\ cancelled = {}
  /\ claims = [p \in Ports |-> None]
  /\ bound = [p \in Ports |-> None]
  /\ store \in [Ids -> Configs \cup {None}]
  /\ late = None /\ doubtful = {}
  /\ todo = Empty
  /\ pc = [r \in Requests |-> "idle"]
  /\ arg = [r \in Requests |-> None]
  /\ ans = [r \in Requests |-> "none"]

---------------------------------------------------------------------------
(* Shared steps.                                                           *)

\* Nobody has claimed, nobody listens on, port p (which may be NoPort).
Unclaimed(p) == \A q \in Ports : q = p => claims[q] = None
Bindable(p)  == \A q \in Ports : q = p => bound[q] = None

\* f with port p given to id (or freed, id being None); no port, no change.
Give(f, p, id) == [q \in Ports |-> IF q = p THEN id ELSE f[q]]

\* The write is done, and settles what was in doubt about the key.
StoreOk(id, v) ==
  store' = [store EXCEPT ![id] = v] /\ late' = None /\ doubtful' = doubtful \ {id}

\* The caller gets an error.  A call that timed out may still be applied, but
\* not after a later call: they share one connection.
StoreFails(id, v) ==
  /\ UNCHANGED store
  /\ late' \in {None} \cup IF Timeouts THEN {[id |-> id, val |-> v]} ELSE {}
  /\ doubtful' = doubtful \cup IF late' = None THEN {} ELSE {id}

LateWrite ==
  /\ late # None
  /\ store' = [store EXCEPT ![late.id] = late.val]
  /\ late' = None
  /\ UNCHANGED doubtful
  /\ UNCHANGED <<phase, boots, mu, mapVars, bound, todo, reqVars>>

Answer(r, a) == pc' = [pc EXCEPT ![r] = "done"] /\ ans' = [ans EXCEPT ![r] = a]

\* Request r begins to work on stream id with configuration v.
Enter(r, next, id, v) ==
  /\ pc' = [pc EXCEPT ![r] = next]
  /\ arg' = [arg EXCEPT ![r] = [id |-> id, cfg |-> v]]

\* A request gets through to m.mu: the API's listener is up, or was when the
\* request came in, since srv.Shutdown waits for those it already has.
Admissible(r) ==
  /\ pc[r] = "idle"
  /\ phase \in {"serving", "signalled", "stopped", "closing"}
  /\ mu = Free

\* The tail of admitLocked: all the maps, and the supervisor's goroutine.
Install(id, cfg) ==
  /\ configs' = [configs EXCEPT ![id] = cfg]
  /\ sup' = [sup EXCEPT ![id] = "session"]
  /\ running' = [running EXCEPT ![id] = cfg.pipe]
  /\ claims' = Give(claims, cfg.port, id)
  /\ UNCHANGED cancelled

---------------------------------------------------------------------------
(* Register.                                                               *)

\* Mutant: the claims are not consulted, only the bind is.
RegisterOpenUnclaimed(r) ==
  /\ Admissible(r)
  /\ \E id \in Ids, cfg \in Configs :
       /\ configs[id] = None
       /\ Bindable(cfg.port)
       /\ bound' = Give(bound, cfg.port, id)
       /\ Enter(r, "put", id, cfg)
  /\ mu' = r
  /\ UNCHANGED <<phase, boots, mapVars, bucket, todo, ans>>

\* The id and the port are free, the pipeline builds and source.Open succeeds.
RegisterOpen(r) ==
  /\ Admissible(r)
  /\ \E id \in Ids, cfg \in Configs :
       /\ configs[id] = None
       /\ Unclaimed(cfg.port)
       /\ Bindable(cfg.port)
       /\ bound' = Give(bound, cfg.port, id)
       /\ Enter(r, "put", id, cfg)
  /\ mu' = r
  /\ UNCHANGED <<phase, boots, mapVars, bucket, todo, ans>>

\* One of them does not: the caller gets 409 and nothing was done.
RegisterRefused(r) ==
  /\ Admissible(r)
  /\ Answer(r, "conflict")
  /\ UNCHANGED <<phase, boots, mu, mapVars, bound, bucket, todo, arg>>

\* Mutant: an admission the store refuses keeps its listener.
RegisterPutLeaks(r) ==
  LET id == arg[r].id  cfg == arg[r].cfg
  IN
  /\ pc[r] = "put"
  /\ \/ /\ StoreOk(id, cfg)
        /\ pc' = [pc EXCEPT ![r] = "install"]
        /\ UNCHANGED <<mu, bound, ans>>
     \/ /\ StoreFails(id, cfg)
        /\ mu' = Free
        /\ Answer(r, "unavailable")
        /\ UNCHANGED bound
  /\ UNCHANGED <<phase, boots, mapVars, todo, arg>>

\* store.Put; on an error the source is closed and the admission is undone.
RegisterPut(r) ==
  LET id == arg[r].id  cfg == arg[r].cfg
  IN
  /\ pc[r] = "put"
  /\ \/ /\ StoreOk(id, cfg)
        /\ pc' = [pc EXCEPT ![r] = "install"]
        /\ UNCHANGED <<mu, bound, ans>>
     \/ /\ StoreFails(id, cfg)
        /\ bound' = Give(bound, cfg.port, None)
        /\ mu' = Free
        /\ Answer(r, "unavailable")
  /\ UNCHANGED <<phase, boots, mapVars, todo, arg>>

RegisterInstall(r) ==
  /\ pc[r] = "install"
  /\ Install(arg[r].id, arg[r].cfg)
  /\ mu' = Free
  /\ Answer(r, "ok")
  /\ UNCHANGED <<phase, boots, bound, bucket, todo, arg>>

---------------------------------------------------------------------------
(* UpdatePipeline.                                                         *)

\* Under m.mu for reading: is there a generation?  Then build the replacement.
UpdateLookup(r) ==
  /\ Admissible(r)
  /\ \E id \in Ids, pipe \in Pipes :
       \/ /\ sup[id] # "none"
          /\ Enter(r, "built", id, pipe)
          /\ UNCHANGED ans
       \/ /\ sup[id] = "none"
          /\ Answer(r, "missing")
          /\ UNCHANGED arg
  /\ UNCHANGED <<phase, boots, mu, mapVars, bound, bucket, todo>>

\* Mutants: the refusal path does not unlock; the config is stored before the
\* second lookup.
UpdatePutKeepsLock(r) ==
  LET id == arg[r].id
      updated == [configs[id] EXCEPT !.pipe = arg[r].cfg]
  IN
  /\ pc[r] = "built"
  /\ mu = Free
  /\ sup[id] # "none"
  /\ mu' = r
  /\ \/ /\ StoreOk(id, updated)
        /\ pc' = [pc EXCEPT ![r] = "swap"]
        /\ UNCHANGED ans
     \/ /\ StoreFails(id, updated)
        /\ Answer(r, "unavailable")
  /\ UNCHANGED <<phase, boots, mapVars, bound, todo, arg>>

UpdatePutBlind(r) ==
  LET id == arg[r].id
      old == configs[id]
      updated == [port |-> IF old = None THEN NoPort ELSE old.port, pipe |-> arg[r].cfg]
  IN
  /\ pc[r] = "built"
  /\ mu = Free
  /\ \/ /\ StoreOk(id, updated)
        /\ IF sup[id] # "none"
           THEN mu' = r /\ pc' = [pc EXCEPT ![r] = "swap"] /\ UNCHANGED ans
           ELSE UNCHANGED mu /\ Answer(r, "missing")
     \/ /\ StoreFails(id, updated)
        /\ Answer(r, "unavailable")
        /\ UNCHANGED mu
  /\ UNCHANGED <<phase, boots, mapVars, bound, todo, arg>>

\* Under m.mu: look again, then store the effective config.  When the stream
\* is gone or the store refuses, the replacement is retired instead.
UpdatePut(r) ==
  LET id == arg[r].id
      updated == [configs[id] EXCEPT !.pipe = arg[r].cfg]
  IN
  /\ pc[r] = "built"
  /\ mu = Free
  /\ \/ /\ sup[id] # "none"
        /\ StoreOk(id, updated)
        /\ mu' = r
        /\ pc' = [pc EXCEPT ![r] = "swap"]
        /\ UNCHANGED ans
     \/ /\ sup[id] # "none"
        /\ StoreFails(id, updated)
        /\ Answer(r, "unavailable")
        /\ UNCHANGED mu
     \/ /\ sup[id] = "none"
        /\ Answer(r, "missing")
        /\ UNCHANGED <<mu, bucket>>
  /\ UNCHANGED <<phase, boots, mapVars, bound, todo, arg>>

\* The swap, and m.mu released.
UpdateSwap(r) ==
  LET id == arg[r].id
  IN
  /\ pc[r] = "swap"
  /\ configs' = [configs EXCEPT ![id].pipe = arg[r].cfg]
  /\ running' = [running EXCEPT ![id] = arg[r].cfg]
  /\ mu' = Free
  /\ pc' = [pc EXCEPT ![r] = "retire"]
  /\ UNCHANGED <<phase, boots, sup, cancelled, claims, bound, bucket, todo, arg, ans>>

\* The previous generation is retired and the caller answered.
UpdateReturn(r) ==
  /\ pc[r] = "retire"
  /\ Answer(r, "ok")
  /\ UNCHANGED <<phase, boots, mu, mapVars, bound, bucket, todo, arg>>

---------------------------------------------------------------------------
(* Remove.                                                                 *)

\* Mutant: the stream is torn down although the store refused the delete.
RemoveDeleteAnyway(r) ==
  /\ Admissible(r)
  /\ \E id \in Ids :
       /\ configs[id] # None
       /\ StoreOk(id, None) \/ StoreFails(id, None)
       /\ cancelled' = cancelled \cup {id}
       /\ mu' = r
       /\ Enter(r, "stopping", id, None)
  /\ UNCHANGED <<phase, boots, configs, sup, running, claims, bound, todo, ans>>

\* Delete from the store first; then cancel the stream and wait, holding m.mu.
RemoveDelete(r) ==
  /\ Admissible(r)
  /\ \E id \in Ids :
       \/ /\ configs[id] # None
          /\ StoreOk(id, None)
          /\ cancelled' = cancelled \cup {id}
          /\ mu' = r
          /\ Enter(r, "stopping", id, None)
          /\ UNCHANGED ans
       \/ /\ configs[id] # None
          /\ StoreFails(id, None)
          /\ Answer(r, "unavailable")
          /\ UNCHANGED <<cancelled, mu, arg>>
       \/ /\ configs[id] = None
          /\ Answer(r, "missing")
          /\ UNCHANGED <<cancelled, mu, bucket, arg>>
  /\ UNCHANGED <<phase, boots, configs, sup, running, claims, bound, todo>>

Idle(id) == sup[id] \in {"none", "errored", "stopped"}

\* The supervisor has returned, if there was one, and the generation is
\* retired: release the claims and forget the stream.
RemoveFinish(r) ==
  LET id == arg[r].id
  IN
  /\ pc[r] = "stopping"
  /\ Idle(id)
  /\ configs' = [configs EXCEPT ![id] = None]
  /\ sup' = [sup EXCEPT ![id] = "none"]
  /\ running' = [running EXCEPT ![id] = None]
  /\ cancelled' = cancelled \ {id}
  /\ claims' = [p \in Ports |-> IF claims[p] = id THEN None ELSE claims[p]]
  /\ mu' = Free
  /\ Answer(r, "ok")
  /\ UNCHANGED <<phase, boots, bound, bucket, todo, arg>>

---------------------------------------------------------------------------
(* The supervisor of stream id; it never takes m.mu.                       *)

\* The session is over and the source closed: stop, restart later or give up.
SessionEnds(id) ==
  /\ sup[id] = "session"
  /\ bound' = Give(bound, configs[id].port, None)
  /\ sup' \in { [sup EXCEPT ![id] = s] :
                  s \in IF id \in cancelled THEN {"stopped"} ELSE {"backoff", "errored"} }
  /\ UNCHANGED <<phase, boots, mu, configs, running, cancelled, claims, bucket,
                 todo, reqVars>>

\* source.Open takes the port back after the backoff, perhaps after a cancel.
Rebind(id) ==
  /\ sup[id] = "backoff"
  /\ Bindable(configs[id].port)
  /\ bound' = Give(bound, configs[id].port, id)
  /\ sup' = [sup EXCEPT ![id] = "session"]
  /\ UNCHANGED <<phase, boots, mu, configs, running, cancelled, claims, bucket,
                 todo, reqVars>>

\* The backoff is interrupted, or the last attempt to open fails.
BackoffEnds(id) ==
  /\ sup[id] = "backoff"
  /\ sup' = [sup EXCEPT ![id] = IF id \in cancelled THEN "stopped" ELSE "errored"]
  /\ UNCHANGED <<phase, boots, mu, configs, running, cancelled, claims, bound, bucket,
                 todo, reqVars>>

---------------------------------------------------------------------------
(* Start-up, shutdown and death of the process.                            *)

\* Restore calls store.List, before the API listens, and takes m.mu.
ListStore ==
  /\ phase = "listing"
  /\ \E seen \in IF SkipKeys THEN SUBSET Ids ELSE {Ids} :
       /\ todo' = [id \in Ids |-> IF id \in seen THEN store[id] ELSE None]
       /\ doubtful' = {id \in Ids : todo'[id] # store[id]} \cup IF late = None THEN {} ELSE {late.id}
  /\ phase' = "restoring"
  /\ mu' = Main
  /\ UNCHANGED <<boots, mapVars, bound, store, late, reqVars>>

Listed == {id \in Ids : todo[id] # None}

\* Mutant: the configs are admitted in the order the bucket lists them.
RestoreNextUnsorted(id) == id \in Listed /\ todo' = [todo EXCEPT ![id] = None]

\* Restore goes through the configs in the order of their ids.
RestoreNext(id) ==
  /\ id \in Listed
  /\ \A other \in Listed : id <= other
  /\ todo' = [todo EXCEPT ![id] = None]

\* The config is valid, its port unclaimed and its source opens.
RestoreAdmit(id) ==
  LET cfg == todo[id]
  IN
  /\ phase = "restoring"
  /\ RestoreNext(id)
  /\ Unclaimed(cfg.port)
  /\ Bindable(cfg.port)
  /\ bound' = Give(bound, cfg.port, id)
  /\ Install(id, cfg)
  /\ UNCHANGED <<phase, boots, mu, bucket, reqVars>>

\* Otherwise the stream is registered as failed, with a claim if it is free.
RestoreFailed(id) ==
  LET cfg == todo[id]
  IN
  /\ phase = "restoring"
  /\ RestoreNext(id)
  /\ configs' = [configs EXCEPT ![id] = cfg]
  /\ claims' = IF Unclaimed(cfg.port) THEN Give(claims, cfg.port, id) ELSE claims
  /\ UNCHANGED <<phase, boots, mu, sup, running, cancelled, bound, bucket, reqVars>>

\* Restore returns and the API begins to listen.
Serve ==
  /\ phase = "restoring"
  /\ Listed = {}
  /\ phase' = "serving"
  /\ mu' = Free
  /\ UNCHANGED <<boots, mapVars, bound, bucket, todo, reqVars>>

\* SIGTERM: StopAll is called; the API goes on listening.
Signal ==
  /\ phase = "serving"
  /\ phase' = "signalled"
  /\ UNCHANGED <<boots, mu, mapVars, bound, bucket, todo, reqVars>>

\* StopAll has m.mu and cancels every supervisor.
StopBegin ==
  /\ phase = "signalled"
  /\ mu = Free
  /\ phase' = "stopping"
  /\ mu' = Main
  /\ cancelled' = {id \in Ids : sup[id] # "none"}
  /\ UNCHANGED <<boots, configs, sup, running, claims, bound, bucket, todo, reqVars>>

\* Every map is empty: after StopAll, and in a new process.
Forgotten ==
  /\ configs' = Empty
  /\ sup' = [id \in Ids |-> "none"]
  /\ running' = Empty
  /\ cancelled' = {}
  /\ claims' = [p \in Ports |-> None]

\* All supervisors are back and all generations retired.
StopFinish ==
  /\ phase = "stopping"
  /\ \A id \in Ids : Idle(id)
  /\ Forgotten
  /\ phase' = "stopped"
  /\ mu' = Free
  /\ UNCHANGED <<boots, bound, bucket, todo, reqVars>>

\* srv.Shutdown: no new requests, and up to five seconds for the others.
Shutdown ==
  /\ phase = "stopped"
  /\ phase' = "closing"
  /\ UNCHANGED <<boots, mu, mapVars, bound, bucket, todo, reqVars>>

\* The process ends: after Shutdown, on a server error or by a crash.  What it
\* held in memory is gone, and callers without an answer never get one.
Die ==
  /\ phase # "down"
  /\ phase' = "down"
  /\ mu' = Free
  /\ Forgotten
  /\ bound' = [p \in Ports |-> None]
  /\ todo' = Empty
  /\ pc' = [r \in Requests |-> IF pc[r] = "idle" THEN "idle" ELSE "done"]
  /\ ans' = [r \in Requests |-> IF pc[r] \in {"idle", "done"} THEN ans[r] ELSE "lost"]
  /\ UNCHANGED <<boots, bucket, arg>>

Boot ==
  /\ phase = "down"
  /\ boots < MaxBoots
  /\ boots' = boots + 1
  /\ phase' = "listing"
  /\ UNCHANGED <<mu, mapVars, bound, bucket, todo, reqVars>>

\* No further process is started.
Over == phase = "down" /\ boots = MaxBoots /\ UNCHANGED vars

---------------------------------------------------------------------------
RequestStep(r) == \/ RegisterPut(r) \/ RegisterInstall(r)
                  \/ UpdatePut(r) \/ UpdateSwap(r) \/ UpdateReturn(r) \/ RemoveFinish(r)

Arrive(r) == RegisterOpen(r) \/ RegisterRefused(r) \/ UpdateLookup(r) \/ RemoveDelete(r)

SupervisorStep(id) == SessionEnds(id) \/ Rebind(id) \/ BackoffEnds(id)

StartStep == \/ ListStore \/ Serve
             \/ \E id \in Ids : RestoreAdmit(id) \/ RestoreFailed(id)

StopStep == StopBegin \/ StopFinish \/ Shutdown

Next == \/ \E r \in Requests : Arrive(r) \/ RequestStep(r)
        \/ \E id \in Ids : SupervisorStep(id)
        \/ StartStep \/ Signal \/ StopStep \/ LateWrite \/ Die \/ Boot \/ Over

Spec == Init /\ [][Next]_vars

(***************************************************************************)
(* Goroutines run; a cancelled source returns (module Supervisor).  Nobody *)
(* has to send a request or a signal, and nothing makes a healthy session  *)
(* end.                                                                    *)
(***************************************************************************)
Fairness ==
  /\ \A r \in Requests : WF_vars(RequestStep(r))
  /\ \A id \in Ids : WF_vars(id \in cancelled /\ (SessionEnds(id) \/ BackoffEnds(id)))
  /\ WF_vars(StartStep) /\ WF_vars(StopStep)

FairSpec == Spec /\ Fairness

---------------------------------------------------------------------------
(* Properties.                                                             *)

\* Types of the variables.  m.mu is held by the one request that is between its
\* Lock and its Unlock.
TypeOK ==
  /\ phase \in {"listing", "restoring", "serving", "signalled", "stopping", "stopped",
                "closing", "down"}
  /\ boots \in 1..MaxBoots
  /\ mu \in Requests \cup {Main, Free}
  /\ configs \in [Ids -> Configs \cup {None}]
  /\ sup \in [Ids -> {"none", "session", "backoff", "errored", "stopped"}]
  /\ running \in [Ids -> Pipes \cup {None}]
  /\ cancelled \subseteq Ids /\ doubtful \subseteq Ids
  /\ claims \in [Ports -> Ids \cup {None}]
  /\ bound \in [Ports -> Ids \cup {None}]
  /\ store \in [Ids -> Configs \cup {None}]
  /\ todo \in [Ids -> Configs \cup {None}]
  /\ pc \in [Requests -> {"idle", "put", "install", "built", "swap", "retire",
                          "stopping", "done"}]
  /\ \A r \in Requests : mu = r <=> pc[r] \in {"put", "install", "swap", "stopping"}

\* Typed, and a claim belongs to a registered stream configured for that port, so it can
\* never outlive the stream; and every stream with a supervisor has its claim,
\* whether it is in a session, waiting out a backoff or errored.  No sequence
\* of admissions, failures, removals and restarts breaks either half.
ClaimsConsistent ==
  /\ TypeOK
  /\ \A p \in Ports :
       claims[p] # None => configs[claims[p]] # None /\ configs[claims[p]].port = p
  /\ \A id \in Ids :
       sup[id] # "none" => /\ configs[id] # None
                           /\ \A p \in Ports : configs[id].port = p => claims[p] = id

\* A listener is held by the session of the stream that has the claim, or by the
\* admission in progress; every session has its listener.  A failed admission
\* leaves none behind, and a restart finds its own port free of other streams.
BoundByHolder ==
  /\ \A p \in Ports :
       bound[p] # None =>
         \/ claims[p] = bound[p] /\ sup[bound[p]] = "session"
         \/ \E r \in Requests : pc[r] \in {"put", "install"} /\ arg[r].id = bound[p]
  /\ \A id \in Ids : \A p \in Ports :
       sup[id] = "session" /\ configs[id].port = p => bound[p] = id

\* Between two holders of m.mu the API, the bucket and the generations describe
\* the same streams and the same pipelines, after any crash and restart too.  An id
\* whose write was refused and may yet be applied, or whose key could not be read,
\* is excepted until the next write of it or the next start settles it: the doubt
\* is about that stream and no other.
StoredIsRegistered ==
  phase \in {"serving", "signalled"} /\ mu = Free =>
    \A id \in Ids \ doubtful :
      /\ store[id] = configs[id]
      /\ running[id] = IF sup[id] = "none" THEN None ELSE store[id].pipe

\* "Sorting makes the winner the same across restarts": when Restore is done
\* with its first streams, the claim of a port is with the least id that wants
\* it, whether or not that stream could be started.
LeastIdWins ==
  phase = "restoring" =>
    \A id \in Ids : \A p \in Ports :
      configs[id] # None /\ configs[id].port = p => claims[p] \in Ids /\ claims[p] <= id

\* What request r has asked of the bucket and may yet get.
CallOf(r) ==
  LET asked(op) == [op |-> op, id |-> arg[r].id, val |-> arg[r].cfg]
  IN
  CASE pc[r] = "idle"  -> [op |-> "new", id |-> None, val |-> None]
    [] pc[r] = "put"   -> asked("create")
    [] pc[r] = "built" -> asked("update")
    [] OTHER           -> [op |-> "done", id |-> None, val |-> None]

R == INSTANCE Registry
     WITH table <- store, Clients <- Requests,
          calls <- [r \in Requests |-> CallOf(r)],
          doubt <- IF phase \in {"stopped", "closing"} THEN Ids ELSE doubtful

\* The bucket implements module Registry: an entry appears only by a POST that is
\* pending and found none, and a PUT of a pipeline writes only over the entry it
\* updates.  So no interleaving of requests, crashes and restarts resurrects a
\* stream that was removed while its update was under way, replaces a registered
\* one or changes more of it than its pipeline.  Entries in doubt are excepted, and
\* what happens once StopAll has emptied the maps: a request served after it finds
\* no stream to refuse.
ImplementsRegistry == R!RegistrySpec

\* Every request the API took is answered, or lost with the process: no one
\* waits for ever for m.mu, for a supervisor or for a retirement.
RequestsAnswered ==
  \A r \in Requests : pc[r] # "idle" ~> pc[r] = "done"

\* A signalled process gets through StopAll, whatever requests hold m.mu and
\* whatever the supervisors are doing.
StopAllReturns == phase = "signalled" ~> phase \in {"closing", "down"}

\* What the README says of shutdown: the retirement handshake runs, "so a buffered
\* batch is flushed before the process exits".
ShutdownRetiresAll ==
  phase = "closing" => \A id \in Ids : sup[id] = "none"
============================================================================
