---------------------------- MODULE PushSource ----------------------------
(***************************************************************************)
(* The connectors that bind a listener: internal/connector/webhook.go and  *)
(* internal/connector/grpc.go, through several sessions of one source.     *)
(* The owner (admission, then the supervisor) calls Open, Run and Close;   *)
(* srv.Serve runs in a goroutine of its own; every HTTP request, and every *)
(* client stream of gRPC, is a handler goroutine of net/http or grpc-go.   *)
(***************************************************************************)
EXTENDS Integers

CONSTANTS
  Clients,      \* requests of the webhook, client streams of gRPC
  Wedged,       \* the clients whose publish may never return
  MaxMsgs,      \* bound on the messages of a client stream
  MaxSessions   \* bound on the sessions

ASSUME PushSourceAssumption ==
  /\ Wedged \subseteq Clients
  /\ MaxMsgs \in Nat \ {0}
  /\ MaxSessions \in Nat \ {0}

VARIABLES
  kind,       \* "webhook" or "grpc"; never changes
  pc,         \* where the owner stands
  cancelled,  \* the stream's context is cancelled
  session,    \* number of Run calls so far
  bound,      \* the listener is open
  serve,      \* the goroutine that calls srv.Serve(lis)
  halted,     \* the server was told to stop: it accepts nobody any more
  hpc, hses,  \* a client's handler and the session that accepted it
  conn,       \* a client's connection
  sent,       \* messages the handler has received of a client
  taken,      \* those for which publish returned nil
  count,      \* processedCount of a client stream
  ans         \* what the client was told

owner   == <<pc, session, cancelled>>
server  == <<kind, bound, serve, halted>>
clients == <<hpc, hses, conn, sent, taken, count, ans>>
vars    == <<owner, server, clients>>

Init ==
  /\ kind \in {"webhook", "grpc"}
  /\ pc = "released" /\ session = 0 /\ cancelled = FALSE
  /\ bound = FALSE /\ serve = "none" /\ halted = FALSE
  /\ hpc = [c \in Clients |-> "idle"]
  /\ hses = [c \in Clients |-> 0]
  /\ conn = [c \in Clients |-> "none"]
  /\ sent = [c \in Clients |-> 0]
  /\ taken = [c \in Clients |-> 0]
  /\ count = [c \in Clients |-> 0]
  /\ ans = [c \in Clients |-> "none"]

\* A request is one message.
Limit == IF kind = "webhook" THEN 1 ELSE MaxMsgs

Working(c) == hpc[c] \in {"receive", "publish"}

\* Handlers of the current server that it still has a connection for.
Busy == {c \in Clients : Working(c) /\ hses[c] = session /\ conn[c] = "open"}

\* Close every connection the server has: the handlers go on without them.
CutAll == conn' = [c \in Clients |-> IF c \in Busy THEN "closed" ELSE conn[c]]

\* A server that stops closes the listener it is accepting on; one whose Serve
\* has not begun yet does not know it.
Halt == halted' = TRUE /\ bound' = (bound /\ serve # "accept")

---------------------------------------------------------------------------
(* The owner.                                                              *)

\* Remove or StopAll.
Cancel ==
  /\ ~cancelled
  /\ cancelled' = TRUE
  /\ UNCHANGED <<pc, session, server, clients>>

\* Open binds the port.
Open ==
  /\ pc = "released"
  /\ session < MaxSessions
  /\ bound' = TRUE
  /\ pc' = "opened"
  /\ UNCHANGED <<kind, session, cancelled, serve, halted, clients>>

\* The store refused the new stream: Close without a Run.
GiveBack ==
  /\ pc = "opened" /\ session = 0
  /\ pc' = "free"
  /\ UNCHANGED <<kind, session, cancelled, server, clients>>

\* Run: a new server, its Serve goroutine, ready(), and on to the select.
Run ==
  /\ pc = "opened"
  /\ pc' = "select"
  /\ session' = session + 1
  /\ serve' = "starting"
  /\ halted' = FALSE
  /\ UNCHANGED <<kind, cancelled, bound, clients>>

\* The select finds that Serve has returned: Run returns, Close is called and
\* stops the server.  grpc's Stop cuts the clients off and waits for nobody.
ServeOver ==
  /\ pc = "select"
  /\ serve = "returned"
  /\ Halt
  /\ \/ kind = "webhook" /\ pc' = "closing" /\ UNCHANGED conn
     \/ kind = "grpc" /\ pc' = "free" /\ CutAll
  /\ UNCHANGED <<kind, session, cancelled, serve, hpc, hses, sent, taken, count, ans>>

\* The select sees the cancellation: Shutdown or GracefulStop begins.
StopServer ==
  /\ pc = "select"
  /\ cancelled
  /\ Halt
  /\ pc' = "stopping"
  /\ UNCHANGED <<kind, session, cancelled, serve, clients>>

\* It returns once no handler is left.
Drained ==
  /\ pc \in {"stopping", "closing"}
  /\ Busy = {}
  /\ pc' = IF pc = "stopping" THEN "join" ELSE "free"
  /\ UNCHANGED <<kind, session, cancelled, server, clients>>

\* Mutants: connections are left open when the grace period ends; there is no
\* grace period.
GraceEndsQuietly ==
  /\ kind = "webhook"
  /\ pc \in {"stopping", "closing"}
  /\ \E c \in Busy : hpc[c] = "publish"
  /\ pc' = IF pc = "stopping" THEN "join" ELSE "free"
  /\ UNCHANGED <<kind, session, cancelled, server, clients>>

GraceMissing == FALSE /\ UNCHANGED vars

\* The webhook's shutdownGrace is over.  Requests are read within requestTimeout,
\* so what is still there is inside publish; srv.Close cuts its client off.
GraceEnds ==
  /\ kind = "webhook"
  /\ pc \in {"stopping", "closing"}
  /\ Busy # {} /\ \A c \in Busy : hpc[c] = "publish"
  /\ CutAll
  /\ pc' = IF pc = "stopping" THEN "join" ELSE "free"
  /\ UNCHANGED <<kind, session, cancelled, server, hpc, hses, sent, taken, count, ans>>

\* <-errChan: Run returns nil, and Close finds the server already stopped (a
\* second Shutdown has nobody left to wait for).
Join ==
  /\ pc = "join"
  /\ serve = "returned"
  /\ pc' = "free"
  /\ UNCHANGED <<kind, session, cancelled, server, clients>>

\* Mutant: the listener is left to the server.
FreeByServer ==
  /\ pc = "free"
  /\ pc' = "released"
  /\ UNCHANGED <<kind, session, cancelled, server, clients>>

\* The end of Close: the listener is closed, if nobody did.
Free ==
  /\ pc = "free"
  /\ bound' = FALSE
  /\ pc' = "released"
  /\ UNCHANGED <<kind, session, cancelled, serve, halted, clients>>

---------------------------------------------------------------------------
(* The Serve goroutine.  It closes the listener when it returns.           *)

\* Serve on a server that was stopped in the meantime returns at once.
ServeBegins ==
  /\ serve = "starting"
  /\ serve' = IF halted THEN "returned" ELSE "accept"
  /\ bound' = (bound /\ ~halted)
  /\ UNCHANGED <<kind, owner, halted, clients>>

\* Serve returns: it was stopped, or accepting failed.
ServeReturns ==
  /\ serve = "accept"
  /\ serve' = "returned"
  /\ bound' = FALSE
  /\ UNCHANGED <<kind, owner, halted, clients>>

---------------------------------------------------------------------------
(* The handlers.                                                           *)

\* A client gets through.
Accept(c) ==
  /\ hpc[c] = "idle"
  /\ serve = "accept" /\ ~halted
  /\ hpc' = [hpc EXCEPT ![c] = "receive"]
  /\ hses' = [hses EXCEPT ![c] = session]
  /\ conn' = [conn EXCEPT ![c] = "open"]
  /\ UNCHANGED <<owner, server, sent, taken, count, ans>>

\* The handler returns with the answer a, which reaches a client that is there.
Reply(c, a) ==
  /\ hpc' = [hpc EXCEPT ![c] = "done"]
  /\ ans' = [ans EXCEPT ![c] = IF conn[c] = "open" THEN a ELSE "cut"]
  /\ conn' = [conn EXCEPT ![c] = "closed"]

\* A message is there: the whole body of a request, or one Recv.
Receive(c) ==
  /\ hpc[c] = "receive"
  /\ conn[c] = "open"
  /\ sent[c] < Limit
  /\ sent' = [sent EXCEPT ![c] = @ + 1]
  /\ hpc' = [hpc EXCEPT ![c] = "publish"]
  /\ UNCHANGED <<owner, server, hses, conn, taken, count, ans>>

\* The request is refused before anything is published: method, token, size,
\* empty body, read error or ReadTimeout.  gRPC: Recv fails.
Reject(c) ==
  /\ hpc[c] = "receive"
  /\ Reply(c, "error")
  /\ UNCHANGED <<owner, server, hses, sent, taken, count>>

\* gRPC: the client is done, and is told how many messages were processed.
EndOfStream(c) ==
  /\ kind = "grpc"
  /\ hpc[c] = "receive"
  /\ conn[c] = "open"
  /\ Reply(c, "ok")
  /\ UNCHANGED <<owner, server, hses, sent, taken, count>>

\* publish returns nil: 202, or on to the next message.
PublishOk(c) ==
  /\ hpc[c] = "publish"
  /\ taken' = [taken EXCEPT ![c] = @ + 1]
  /\ \/ /\ kind = "webhook"
        /\ Reply(c, "ok")
        /\ UNCHANGED count
     \/ /\ kind = "grpc"
        /\ hpc' = [hpc EXCEPT ![c] = "receive"]
        /\ count' = [count EXCEPT ![c] = @ + 1]
        /\ UNCHANGED <<conn, ans>>
  /\ UNCHANGED <<owner, server, hses, sent>>

\* Mutant: the failure is logged, as in the pull connectors, and passed over.
PublishErrIgnored(c) ==
  /\ hpc[c] = "publish"
  /\ \/ kind = "webhook" /\ Reply(c, "ok") /\ UNCHANGED count
     \/ /\ kind = "grpc"
        /\ hpc' = [hpc EXCEPT ![c] = "receive"]
        /\ count' = [count EXCEPT ![c] = @ + 1]
        /\ UNCHANGED <<conn, ans>>
  /\ UNCHANGED <<owner, server, hses, sent, taken>>

\* publish fails: 500, or the whole client stream ends with the error.
PublishErr(c) ==
  /\ hpc[c] = "publish"
  /\ Reply(c, "error")
  /\ UNCHANGED <<owner, server, hses, sent, taken, count>>

\* The source is released for good.
Gone == pc = "released" /\ session = MaxSessions /\ UNCHANGED vars

OwnerStep == \/ Open \/ GiveBack \/ Run \/ ServeOver \/ StopServer
             \/ Drained \/ GraceEnds \/ Join \/ Free

HandlerStep(c) == \/ Accept(c) \/ Receive(c) \/ Reject(c) \/ EndOfStream(c)
                  \/ PublishOk(c) \/ PublishErr(c)

Next == \/ Cancel \/ OwnerStep \/ ServeBegins \/ ServeReturns \/ Gone
        \/ \E c \in Clients : HandlerStep(c)

Spec == Init /\ [][Next]_vars

(***************************************************************************)
(* Goroutines run, a stopped Serve returns, a request is read or timed out *)
(* (ReadTimeout; gRPC has no such limit), Recv on a cut connection fails,  *)
(* and publish returns but for the wedged ones.  A gRPC client need not    *)
(* say or end anything, and a server that was not stopped need not fail.   *)
(***************************************************************************)
Fairness ==
  /\ WF_vars(OwnerStep) /\ WF_vars(ServeBegins) /\ WF_vars(halted /\ ServeReturns)
  /\ \A c \in Clients :
       WF_vars((kind = "webhook" \/ conn[c] = "closed") /\ (Receive(c) \/ Reject(c)))
  /\ \A c \in Clients \ Wedged : WF_vars(PublishOk(c) \/ PublishErr(c))

FairSpec == Spec /\ Fairness

---------------------------------------------------------------------------
(* Properties.                                                             *)

\* Types of the variables; nothing is taken that was not sent.
TypeOK ==
  /\ kind \in {"webhook", "grpc"}
  /\ pc \in {"released", "opened", "select", "stopping", "join", "closing", "free"}
  /\ session \in 0..MaxSessions
  /\ cancelled \in BOOLEAN /\ bound \in BOOLEAN /\ halted \in BOOLEAN
  /\ serve \in {"none", "starting", "accept", "returned"}
  /\ hpc \in [Clients -> {"idle", "receive", "publish", "done"}]
  /\ hses \in [Clients -> 0..MaxSessions]
  /\ conn \in [Clients -> {"none", "open", "closed"}]
  /\ ans \in [Clients -> {"none", "ok", "error", "cut"}]
  /\ sent \in [Clients -> 0..Limit]
  /\ taken \in [Clients -> 0..Limit]
  /\ count \in [Clients -> 0..Limit]
  /\ \A c \in Clients : taken[c] <= sent[c]

\* Typed, and Close gives the port back, whatever happened before it: no Run, a server
\* that failed, a stop that came before Serve had begun.  And no accept loop
\* survives to serve the port of the next session.
ReleasedIsFree ==
  /\ TypeOK
  /\ pc = "released" => ~bound /\ serve \in {"none", "returned"}

\* No client is left holding a connection of a session that has ended
\* (webhook.go, shutdown), and "no goroutine of this session survives" a
\* cancelled Run of gRPC.
SessionIsOver ==
  /\ pc = "released" => \A c \in Clients : Working(c) => conn[c] = "closed"
  /\ pc = "join" /\ kind = "grpc" => \A c \in Clients : hses[c] = session => ~Working(c)

\* A client that was told its request or its stream went through had every one of
\* its messages taken by publish, and processedCount is their number.
SuccessIsTrue ==
  \A c \in Clients :
    ans[c] = "ok" => taken[c] = sent[c] /\ (kind = "grpc" => count[c] = taken[c])

\* A cancelled session ends: Run and Close return, whatever the clients of a webhook
\* do; those of gRPC if each of its handlers returns in the end.
CancelledReturns ==
  kind = "webhook" \/ (\A c \in Clients : []<>~Working(c))
    => (cancelled /\ pc = "select" ~> pc = "released")

\* What source.go says of every source: Run "returns nil when ctx is cancelled".
\* Remove holds m.mu until it does.
RunReturnsOnCancel == cancelled /\ pc = "select" ~> pc = "released"
=============================================================================
