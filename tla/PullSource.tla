---------------------------- MODULE PullSource ----------------------------
(***************************************************************************)
(* The connectors that fetch: internal/connector/websocket.go, sse.go and  *)
(* rest_poller.go, through several Run calls of one source.  A Run is its  *)
(* connection, its report of readiness, what it reads (lines, for SSE:     *)
(* module SseReader), the way it ends, and the goroutine websocket.go      *)
(* starts to bring a cancellation to a blocked ReadMessage.                *)
(***************************************************************************)
EXTENDS SseReader

CONSTANT MaxRuns  \* bound on the Run calls

ASSUME PullSourceAssumption == MaxRuns \in Nat \ {0}

Runs == 1..MaxRuns

VARIABLES
  kind,       \* the connector: "websocket", "sse" or "rest_poller"
  pc,         \* where Run stands
  cancelled,  \* the stream's context is cancelled
  run,        \* number of the current Run call, 0 before the first
  conn,       \* conn[r]: the connection, or response body, of run r
  watcher,    \* watcher[r]: the goroutine of run r that waits for ctx.Done or
              \* for sessionOver, which is closed when it is "released"
  readies,    \* times this Run has called ready
  answered,   \* history: the endpoint has accepted a request of this Run
  ret         \* what Run returned

runVars == <<kind, cancelled, run, conn, watcher, readies, answered, ret>>
vars == <<pc, runVars, frameVars>>

Init ==
  /\ kind \in {"websocket", "sse", "rest_poller"}
  /\ pc = "idle" /\ cancelled = FALSE /\ run = 0
  /\ conn = [r \in Runs |-> "none"]
  /\ watcher = [r \in Runs |-> "none"]
  /\ readies = 0 /\ answered = FALSE /\ ret = "none"
  /\ FrameInit

\* Mutants: the return with an error closes no connection; only the way out of the
\* read loop closes sessionOver.
LeaveOpen(v) ==
  /\ ret' = v
  /\ pc' = "returned"
  /\ conn' = [conn EXCEPT ![run] = IF @ = "open" /\ v = "nil" THEN "closed" ELSE @]
  /\ watcher' = [watcher EXCEPT ![run] = IF @ = "waiting" THEN "released" ELSE @]

LeaveWatched(v) ==
  /\ ret' = v
  /\ pc' = "returned"
  /\ conn' = [conn EXCEPT ![run] = IF @ = "open" THEN "closed" ELSE @]
  /\ watcher' = [watcher EXCEPT ![run] = IF @ = "waiting" /\ pc # "setup" THEN "released" ELSE @]

\* Run returns v; the deferred calls close the connection and sessionOver.
Leave(v) ==
  /\ ret' = v
  /\ pc' = "returned"
  /\ conn' = [conn EXCEPT ![run] = IF @ = "open" THEN "closed" ELSE @]
  /\ watcher' = [watcher EXCEPT ![run] = IF @ = "waiting" THEN "released" ELSE @]

---------------------------------------------------------------------------
Cancel ==
  /\ ~cancelled
  /\ cancelled' = TRUE
  /\ UNCHANGED <<kind, pc, run, conn, watcher, readies, answered, ret, frameVars>>

\* The supervisor calls Run; not again once it has seen the cancellation.
Run ==
  /\ pc = "idle" \/ (pc = "returned" /\ ~cancelled)
  /\ run < MaxRuns
  /\ run' = run + 1
  /\ pc' = IF kind = "rest_poller" THEN "poll" ELSE "dial"
  /\ readies' = 0 /\ answered' = FALSE /\ ret' = "none"
  /\ UNCHANGED <<kind, cancelled, conn, watcher, frameVars>>

---------------------------------------------------------------------------
(* WebSocket and SSE.                                                      *)

\* The dial, or the request, gets a connection; websocket starts its watcher.
Connected ==
  /\ pc = "dial"
  /\ conn' = [conn EXCEPT ![run] = "open"]
  /\ watcher' = [watcher EXCEPT ![run] = IF kind = "websocket" THEN "waiting" ELSE @]
  /\ pc' = "setup"
  /\ UNCHANGED <<kind, cancelled, run, readies, answered, ret, frameVars>>

\* It does not, because of the endpoint or because ctx was cancelled.
DialFails ==
  /\ pc = "dial"
  /\ Leave("err")
  /\ UNCHANGED <<kind, cancelled, run, readies, answered, frameVars>>

\* The post-connect frames cannot be sent; the status is not 2xx.
SetupFails ==
  /\ pc = "setup"
  /\ Leave("err")
  /\ UNCHANGED <<kind, cancelled, run, readies, answered, frameVars>>

\* websocket.go looks at the context before each read, sse.go after it.
LoopTop == IF kind = "websocket" THEN "check" ELSE "read"

\* Mutant: the buffers belong to the source and not to a call of readLoop.
ReadyKeepsFrame ==
  /\ pc = "setup"
  /\ answered' = TRUE
  /\ readies' = readies + 1
  /\ pc' = LoopTop
  /\ published' = <<>> /\ read' = <<>>
  /\ UNCHANGED <<kind, cancelled, run, conn, watcher, ret, currentEvent, currentData>>

\* The session is up: ready(), and into the read loop.
Ready ==
  /\ pc = "setup"
  /\ answered' = TRUE
  /\ readies' = readies + 1
  /\ pc' = LoopTop
  /\ NewReader
  /\ UNCHANGED <<kind, cancelled, run, conn, watcher, ret>>

Check ==
  /\ pc = "check"
  /\ \/ cancelled /\ Leave("nil")
     \/ ~cancelled /\ pc' = "read" /\ UNCHANGED <<conn, watcher, ret>>
  /\ UNCHANGED <<kind, cancelled, run, readies, answered, frameVars>>

\* websocket.go has read a message and publishes it.
ReadMessage ==
  /\ kind = "websocket" /\ pc = "read"
  /\ conn[run] = "open"
  /\ pc' = "publish"
  /\ UNCHANGED <<runVars, frameVars>>

\* sse.go has read a line of a frame ...
ReadLine ==
  /\ kind = "sse" /\ pc = "read" /\ ~cancelled
  /\ FrameLine
  /\ UNCHANGED <<runVars, pc>>

\* ... or the one that ends it, and publishes.
ReadFrame ==
  /\ kind = "sse" /\ pc = "read" /\ ~cancelled
  /\ EndFrame
  /\ pc' = "publish"
  /\ UNCHANGED runVars

\* publish returns; an error is logged and the session goes on.
Published ==
  /\ kind # "rest_poller"
  /\ pc = "publish"
  /\ pc' = LoopTop
  /\ IF kind = "sse" THEN ResetFrame ELSE UNCHANGED frameVars
  /\ UNCHANGED runVars

\* The read fails, the stream is at its end, or sse.go sees the cancellation.
\* Only a cancellation makes that a nil result.
ReadEnds ==
  /\ pc = "read"
  /\ Leave(IF cancelled THEN "nil" ELSE "err")
  /\ UNCHANGED <<kind, cancelled, run, readies, answered, frameVars>>

\* Mutant: there is no such goroutine, or no such case.
WatcherMissing(r) == FALSE /\ UNCHANGED vars

\* ctx.Done: close the connection under the reader.
WatcherCloses(r) ==
  /\ watcher[r] \in {"waiting", "released"}
  /\ cancelled
  /\ conn' = [conn EXCEPT ![r] = "closed"]
  /\ watcher' = [watcher EXCEPT ![r] = "gone"]
  /\ UNCHANGED <<kind, pc, cancelled, run, readies, answered, ret, frameVars>>

\* sessionOver is closed.
WatcherLeaves(r) ==
  /\ watcher[r] = "released"
  /\ watcher' = [watcher EXCEPT ![r] = "gone"]
  /\ UNCHANGED <<kind, pc, cancelled, run, conn, readies, answered, ret, frameVars>>

---------------------------------------------------------------------------
(* REST poller.                                                            *)

\* reachedEndpoint(nil): the first poll that is answered is the readiness.
ReachedEndpoint == readies' = IF readies = 0 THEN 1 ELSE readies

\* A 2xx answer with a body, which is published ...
PollBody ==
  /\ pc = "poll"
  /\ answered' = TRUE
  /\ pc' = "publish"
  /\ UNCHANGED <<kind, cancelled, run, conn, watcher, readies, ret, frameVars>>

\* ... well or not; or an empty one.
PollDone ==
  /\ kind = "rest_poller"
  /\ \/ pc = "publish" /\ UNCHANGED answered
     \/ pc = "poll" /\ answered' = TRUE
  /\ ReachedEndpoint
  /\ pc' = "wait"
  /\ UNCHANGED <<kind, cancelled, run, conn, watcher, ret, frameVars>>

\* No answer, another status, or a body that cannot be read.
PollFails ==
  /\ pc = "poll"
  /\ pc' = "wait"
  /\ UNCHANGED <<kind, cancelled, run, conn, watcher, readies, answered, ret, frameVars>>

\* The select: the ticker, or the cancellation; either when both are ready.
TickerFires ==
  /\ pc = "wait"
  /\ pc' = "poll"
  /\ UNCHANGED <<kind, cancelled, run, conn, watcher, readies, answered, ret, frameVars>>

StopPolling ==
  /\ pc = "wait"
  /\ cancelled
  /\ Leave("nil")
  /\ UNCHANGED <<kind, cancelled, run, readies, answered, frameVars>>

---------------------------------------------------------------------------
Gone == pc = "returned" /\ (cancelled \/ run = MaxRuns) /\ UNCHANGED vars

Streaming == \/ Connected \/ DialFails \/ SetupFails \/ Ready \/ Check
             \/ ReadMessage \/ ReadLine \/ ReadFrame \/ Published \/ ReadEnds
             \/ \E r \in Runs : WatcherCloses(r) \/ WatcherLeaves(r)

Polling == PollBody \/ PollDone \/ PollFails \/ TickerFires \/ StopPolling

Next == Cancel \/ Run \/ Streaming \/ Polling \/ Gone

Spec == Init /\ [][Next]_vars

\* The read in progress cannot block.
Unblocked == \/ kind = "sse" /\ cancelled
             \/ run > 0 /\ conn[run] = "closed"

(***************************************************************************)
(* Goroutines run, publish returns, and requests made with a cancelled     *)
(* context end.  A read on a connection that is closed, or on a response   *)
(* whose request was cancelled, returns; one on a live connection may      *)
(* block for ever.  Go's select does not overlook a ready case for ever    *)
(* (StopPolling).                                                          *)
(***************************************************************************)
Fairness ==
  /\ WF_vars(cancelled /\ (Connected \/ DialFails \/ SetupFails \/ Ready))
  /\ WF_vars(Published) /\ WF_vars(Check)
  /\ WF_vars(Unblocked /\ ReadEnds)
  /\ \A r \in Runs : WF_vars(WatcherCloses(r) \/ WatcherLeaves(r))
  /\ WF_vars(PollBody \/ PollDone \/ PollFails)
  /\ SF_vars(StopPolling)

FairSpec == Spec /\ Fairness

---------------------------------------------------------------------------
(* Properties.                                                             *)

\* Types of the variables.
TypeOK ==
  /\ kind \in {"websocket", "sse", "rest_poller"}
  /\ pc \in {"idle", "dial", "setup", "check", "read", "publish", "poll", "wait", "returned"}
  /\ cancelled \in BOOLEAN /\ answered \in BOOLEAN
  /\ run \in 0..MaxRuns
  /\ conn \in [Runs -> {"none", "open", "closed"}]
  /\ watcher \in [Runs -> {"none", "waiting", "released", "gone"}]
  /\ readies \in 0..1
  /\ ret \in {"none", "nil", "err"}
  /\ (ret # "none") = (pc = "returned")

\* source.go: ready is called "at most once per Run", and only once the session is
\* live - this Run's own connection or poll, not an earlier one's.
ReadyIsEarned == readies <= (IF answered THEN 1 ELSE 0)

\* sse.go: "Returning nil would spend that attempt with nothing recorded to say
\* why" - a session that ends by itself always has an error.
NilMeansCancelled == ret = "nil" => cancelled

\* The connection is "owned by Run and closed before it returns" (websocket.go,
\* sse.go): none is open but that of the Run in progress.
OnlyCurrentConn ==
  \A r \in Runs : conn[r] = "open" => r = run /\ pc \in {"setup", "check", "read", "publish"}

\* The contract of source.go and of the session's comments, over any number of
\* Runs: the types and the three statements above, together.
SessionContract == TypeOK /\ ReadyIsEarned /\ NilMeansCancelled /\ OnlyCurrentConn

\* A cancelled Run returns, wherever the cancellation finds it: dialling, blocked
\* in a read, publishing or waiting for its ticker.
CancelledReturns == cancelled ~> pc \in {"idle", "returned"}

\* No Run leaves its watcher behind, whichever of its returns it takes: a stream
\* that reconnects for ever does not pile up goroutines.
WatchersLeave ==
  \A r \in Runs :
    watcher[r] # "none" /\ (run > r \/ pc = "returned") ~> watcher[r] = "gone"
===========================================================================
