------------------------- MODULE PushSource_proofs -------------------------
(***************************************************************************)
(* Proofs about module PushSource, for any number of clients, messages and *)
(* sessions, and for both connectors.                                      *)
(***************************************************************************)
EXTENDS PushSource, TLAPS

USE PushSourceAssumption

---------------------------------------------------------------------------
(* The inductive invariant.                                                *)

\* What a handler has received, handed over and counted, where it stands.
MessagesOK == \A c \in Clients :
  /\ hpc[c] = "idle" => sent[c] = 0 /\ taken[c] = 0 /\ count[c] = 0 /\ conn[c] = "none"
  /\ hpc[c] = "receive" => sent[c] = taken[c] /\ (kind = "webhook" => sent[c] = 0)
  /\ hpc[c] = "publish" => sent[c] = taken[c] + 1
  /\ Working(c) => conn[c] # "none"
  /\ kind = "grpc" => count[c] = taken[c]
  /\ ans[c] = "ok" => hpc[c] = "done" /\ taken[c] = sent[c]

\* The owner and the accept loop.  A server accepts between Run and its stop only.
LoopOK ==
  /\ serve \in {"starting", "accept"} => pc \in {"select", "stopping", "join"}
  /\ pc = "select" => ~halted
  /\ pc \in {"stopping", "join", "closing"} => halted
  /\ pc = "released" => ~bound
  /\ pc = "opened" => session < MaxSessions

\* The connections.  One that is open is that of a handler of the session that is
\* still up; gRPC cuts off none of a session that it waits for.
ConnOK == \A c \in Clients :
  /\ hses[c] <= session
  /\ conn[c] = "open" => Working(c) /\ hses[c] = session /\ pc \in {"select", "stopping", "closing"}
  /\ kind = "grpc" /\ Working(c) /\ hses[c] = session /\ pc \in {"select", "stopping", "join"}
       => conn[c] = "open"

IndInv == TypeOK /\ MessagesOK /\ LoopOK /\ ConnOK

---------------------------------------------------------------------------

\* At the start there is neither listener nor client.
LEMMA InitInd == Init => IndInv
<1>1. SUFFICES ASSUME Init PROVE IndInv
  OBVIOUS
<1>2. cancelled \in BOOLEAN /\ bound \in BOOLEAN /\ halted \in BOOLEAN
  BY <1>1, Zenon DEF Init
<1>3. Limit \in Nat
  BY DEF Limit
<1>4. TypeOK
  BY <1>1, <1>2, <1>3 DEF Init, TypeOK
<1>5. MessagesOK /\ LoopOK /\ ConnOK
  BY <1>1 DEF Init, MessagesOK, LoopOK, ConnOK, Working
<1>6. QED
  BY <1>4, <1>5 DEF IndInv

\* A step of the owner or of the Serve goroutine leaves the handlers alone but for
\* the connections it cuts; it is described by what it does to the rest.
LEMMA OwnerInd ==
  ASSUME IndInv, Cancel \/ OwnerStep \/ ServeBegins \/ ServeReturns
  PROVE  IndInv'
<1>1. TypeOK /\ MessagesOK /\ LoopOK /\ ConnOK
  BY DEF IndInv
<1>2. UNCHANGED <<kind, hpc, hses, sent, taken, count, ans>>
  BY DEF Cancel, OwnerStep, Open, GiveBack, Run, ServeOver, StopServer, Drained, GraceEnds,
         Join, Free, ServeBegins, ServeReturns, owner, server, clients
<1>3. (cancelled \in BOOLEAN /\ bound \in BOOLEAN /\ halted \in BOOLEAN)'
  <2>1. CASE Cancel \/ GiveBack \/ Drained \/ GraceEnds \/ Join
    <3>1. UNCHANGED <<bound, halted>> /\ (cancelled' = TRUE \/ UNCHANGED cancelled)
      BY <2>1, Zenon DEF Cancel, GiveBack, Drained, GraceEnds, Join, server
    <3>2. QED
      BY <1>1, <3>1, Zenon DEF TypeOK
  <2>2. CASE Open \/ Run \/ Free
    BY <1>1, <2>2, Zenon DEF Open, Run, Free, TypeOK
  <2>3. CASE ServeOver \/ StopServer
    BY <1>1, <2>3, Zenon DEF ServeOver, StopServer, Halt, TypeOK
  <2>4. CASE ServeBegins \/ ServeReturns
    <3>1. UNCHANGED <<cancelled, halted>>
      BY <2>4, Zenon DEF ServeBegins, ServeReturns, owner
    <3>2. bound' \in BOOLEAN
      BY <1>1, <2>4, Zenon DEF ServeBegins, ServeReturns, TypeOK
    <3>3. QED
      BY <1>1, <3>1, <3>2, Zenon DEF TypeOK
  <2>5. QED
    BY <2>1, <2>2, <2>3, <2>4 DEF OwnerStep
<1>4. /\ pc' \in {"released", "opened", "select", "stopping", "join", "closing", "free"}
      /\ serve' \in {"none", "starting", "accept", "returned"}
      /\ session' \in 0..MaxSessions
  BY <1>1 DEF Cancel, OwnerStep, Open, GiveBack, Run, ServeOver, StopServer, Drained, GraceEnds,
         Join, Free, ServeBegins, ServeReturns, owner, server, LoopOK, TypeOK
<1>5. \/ UNCHANGED conn
      \/ CutAll /\ pc \in {"select", "stopping", "closing"} /\ pc' \in {"join", "free"}
                /\ UNCHANGED session /\ (kind = "grpc" => pc' = "free")
  BY <1>1 DEF Cancel, OwnerStep, Open, GiveBack, Run, ServeOver, StopServer, Drained, GraceEnds,
         Join, Free, ServeBegins, ServeReturns, owner, server, clients, TypeOK
<1>6. /\ conn' \in [Clients -> {"none", "open", "closed"}]
      /\ \A c \in Clients : conn[c] # "none" <=> conn'[c] # "none"
  BY <1>1, <1>5 DEF CutAll, Busy, TypeOK
<1>7. Limit' = Limit /\ \A c \in Clients : Working(c)' <=> Working(c)
  BY <1>2 DEF Limit, Working
<1>8. TypeOK'
  BY <1>1, <1>2, <1>3, <1>4, <1>6, <1>7 DEF TypeOK
<1>9. MessagesOK'
  BY <1>1, <1>2, <1>6, <1>7 DEF MessagesOK
<1>10. LoopOK'
  <2>1. CASE Cancel \/ Drained \/ GraceEnds \/ Join \/ GiveBack \/ Free
    BY <1>1, <2>1 DEF Cancel, GiveBack, Drained, GraceEnds, Join, Free, server, LoopOK, TypeOK
  <2>2. CASE Open \/ Run
    BY <1>1, <2>2 DEF Open, Run, LoopOK, TypeOK
  <2>3. CASE ServeOver \/ StopServer
    BY <1>1, <2>3 DEF ServeOver, StopServer, Halt, LoopOK, TypeOK
  <2>4. CASE ServeBegins \/ ServeReturns
    BY <1>1, <2>4 DEF ServeBegins, ServeReturns, owner, LoopOK, TypeOK
  <2>5. QED
    BY <2>1, <2>2, <2>3, <2>4 DEF OwnerStep
<1>11. ConnOK'
  <2>1. hses \in [Clients -> Nat] /\ session \in Nat
    BY <1>1 DEF TypeOK
  <2>2. CASE CutAll /\ pc' \in {"join", "free"} /\ UNCHANGED session /\ (kind = "grpc" => pc' = "free")
    <3>1. \A c \in Clients : conn'[c] # "open"
      BY <1>1, <2>2 DEF CutAll, Busy, ConnOK, TypeOK
    <3>2. QED
      BY <1>1, <1>2, <1>7, <2>2, <3>1 DEF ConnOK
  <2>3. CASE UNCHANGED conn /\ Run
    <3>1. pc = "opened" /\ pc' = "select" /\ session' = session + 1
      BY <2>3 DEF Run
    <3>2. \A c \in Clients : conn'[c] # "open" /\ hses'[c] < session'
      BY <1>1, <1>2, <2>1, <2>3, <3>1 DEF ConnOK
    <3>3. QED
      BY <1>2, <2>1, <3>1, <3>2 DEF ConnOK
  <2>4. CASE UNCHANGED conn /\ Drained
    <3>1. Busy = {} /\ UNCHANGED session /\ pc \in {"stopping", "closing"}
      BY <2>4 DEF Drained
    <3>2. \A c \in Clients : conn[c] # "open"
      BY <1>1, <3>1 DEF Busy, ConnOK
    <3>3. pc = "stopping" <=> pc' = "join"
      BY <2>4 DEF Drained
    <3>4. pc' \in {"join", "free"}
      BY <2>4 DEF Drained
    <3>5. QED
      BY <1>1, <1>2, <1>7, <2>4, <3>1, <3>2, <3>3, <3>4 DEF ConnOK
  <2>5. CASE UNCHANGED conn /\ (Cancel \/ Open \/ GiveBack \/ StopServer \/ Join \/ Free
                                  \/ ServeBegins \/ ServeReturns)
    <3>1. /\ UNCHANGED session
          /\ pc' = pc \/ (pc \in {"select", "stopping"} /\ pc' = "stopping")
                      \/ (pc \notin {"select", "stopping", "closing"}
                            /\ pc' \notin {"select", "stopping", "join", "closing"})
      BY <1>1, <2>5 DEF Cancel, Open, GiveBack, StopServer, Join, Free, ServeBegins, ServeReturns,
             owner, TypeOK
    <3>2. QED
      BY <1>1, <1>2, <1>7, <2>5, <3>1 DEF ConnOK
  <2>6. CASE UNCHANGED conn /\ ServeOver
    <3>1. pc = "select" /\ UNCHANGED session /\ pc' \in {"closing", "free"}
      BY <2>6 DEF ServeOver
    <3>2. pc' = "free" => CutAll
      BY <2>6 DEF ServeOver
    <3>3. CASE pc' = "free"
      BY <2>2, <3>1, <3>2, <3>3
    <3>4. CASE pc' = "closing"
      BY <1>1, <1>2, <1>7, <2>6, <3>1, <3>4 DEF ConnOK
    <3>5. QED
      BY <3>1, <3>3, <3>4
  <2>7. CASE UNCHANGED conn /\ GraceEnds
    <3>1. CutAll /\ UNCHANGED session /\ kind = "webhook" /\ pc' \in {"join", "free"}
      BY <2>7 DEF GraceEnds
    <3>2. QED
      BY <2>2, <3>1
  <2>8. QED
    BY <1>5, <2>2, <2>3, <2>4, <2>5, <2>6, <2>7 DEF OwnerStep
<1>12. QED
  BY <1>8, <1>9, <1>10, <1>11 DEF IndInv

\* A step of a handler leaves the owner and the server alone.  A client gets through
\* to a server that is up only, so its connection is one of the current session.
LEMMA HandlerInd ==
  ASSUME NEW c \in Clients, IndInv, HandlerStep(c)
  PROVE  IndInv'
<1>1. TypeOK /\ MessagesOK /\ LoopOK /\ ConnOK
  BY DEF IndInv
<1>2. UNCHANGED <<pc, session, cancelled, kind, bound, serve, halted>>
  BY DEF HandlerStep, Accept, Receive, Reject, EndOfStream, PublishOk, PublishErr, owner, server
<1>3. (cancelled \in BOOLEAN /\ bound \in BOOLEAN /\ halted \in BOOLEAN)'
  BY <1>1, <1>2, Zenon DEF TypeOK
<1>4. LoopOK'
  BY <1>1, <1>2 DEF LoopOK
<1>5. Limit' = Limit /\ Limit \in Nat \ {0} /\ (kind = "webhook" => Limit = 1)
  BY <1>2 DEF Limit
<1>6. /\ sent \in [Clients -> Nat] /\ taken \in [Clients -> Nat] /\ count \in [Clients -> Nat]
      /\ sent[c] <= Limit /\ taken[c] <= sent[c]
      /\ hses \in [Clients -> Nat] /\ session \in Nat /\ session <= MaxSessions
  BY <1>1, <1>5 DEF TypeOK
<1>7. CASE Accept(c)
  <2>1. /\ hpc[c] = "idle" /\ serve = "accept" /\ ~halted
        /\ hpc' = [hpc EXCEPT ![c] = "receive"]
        /\ hses' = [hses EXCEPT ![c] = session]
        /\ conn' = [conn EXCEPT ![c] = "open"]
        /\ UNCHANGED <<sent, taken, count, ans>>
    BY <1>7 DEF Accept
  <2>2. pc = "select"
    BY <1>1, <2>1 DEF LoopOK
  <2>3. TypeOK'
    BY <1>1, <1>2, <1>3, <1>5, <1>6, <2>1 DEF TypeOK
  <2>4. MessagesOK'
    BY <1>1, <1>2, <2>1 DEF MessagesOK, Working, TypeOK
  <2>5. ConnOK'
    BY <1>1, <1>2, <1>6, <2>1, <2>2 DEF ConnOK, Working, TypeOK
  <2>6. QED
    BY <1>4, <2>3, <2>4, <2>5 DEF IndInv
<1>8. CASE Receive(c)
  <2>1. /\ hpc[c] = "receive" /\ conn[c] = "open" /\ sent[c] < Limit
        /\ hpc' = [hpc EXCEPT ![c] = "publish"]
        /\ sent' = [sent EXCEPT ![c] = sent[c] + 1]
        /\ UNCHANGED <<hses, conn, taken, count, ans>>
    BY <1>8 DEF Receive
  <2>2. TypeOK'
    BY <1>1, <1>2, <1>3, <1>5, <1>6, <2>1 DEF TypeOK
  <2>3. MessagesOK'
    BY <1>1, <1>2, <1>6, <2>1 DEF MessagesOK, Working, TypeOK
  <2>4. ConnOK'
    BY <1>1, <1>2, <2>1 DEF ConnOK, Working, TypeOK
  <2>5. QED
    BY <1>4, <2>2, <2>3, <2>4 DEF IndInv
<1>9. CASE Reject(c) \/ EndOfStream(c) \/ PublishErr(c)
  <2>1. /\ hpc[c] \in {"receive", "publish"}
        /\ hpc' = [hpc EXCEPT ![c] = "done"]
        /\ conn' = [conn EXCEPT ![c] = "closed"]
        /\ UNCHANGED <<hses, sent, taken, count>>
    BY <1>9 DEF Reject, EndOfStream, PublishErr, Reply
  <2>2. PICK a \in {"ok", "error", "cut"} :
          ans' = [ans EXCEPT ![c] = a] /\ (a = "ok" => hpc[c] = "receive")
    BY <1>9 DEF Reject, EndOfStream, PublishErr, Reply
  <2>3. TypeOK'
    BY <1>1, <1>2, <1>3, <1>5, <2>1, <2>2 DEF TypeOK
  <2>4. MessagesOK'
    BY <1>1, <1>2, <2>1, <2>2 DEF MessagesOK, Working, TypeOK
  <2>5. ConnOK'
    BY <1>1, <1>2, <2>1 DEF ConnOK, Working, TypeOK
  <2>6. QED
    BY <1>4, <2>3, <2>4, <2>5 DEF IndInv
<1>10. CASE PublishOk(c) /\ kind = "webhook"
  <2>1. /\ hpc[c] = "publish"
        /\ hpc' = [hpc EXCEPT ![c] = "done"]
        /\ conn' = [conn EXCEPT ![c] = "closed"]
        /\ taken' = [taken EXCEPT ![c] = taken[c] + 1]
        /\ UNCHANGED <<hses, sent, count>>
    BY <1>10 DEF PublishOk, Reply
  <2>2. PICK a \in {"ok", "cut"} : ans' = [ans EXCEPT ![c] = a]
    BY <1>10 DEF PublishOk, Reply
  <2>3. sent[c] = taken[c] + 1
    BY <1>1, <2>1 DEF MessagesOK
  <2>4. TypeOK'
    BY <1>1, <1>2, <1>3, <1>5, <1>6, <2>1, <2>2, <2>3 DEF TypeOK
  <2>5. MessagesOK'
    BY <1>1, <1>2, <1>6, <1>10, <2>1, <2>2, <2>3 DEF MessagesOK, Working, TypeOK
  <2>6. ConnOK'
    BY <1>1, <1>2, <2>1 DEF ConnOK, Working, TypeOK
  <2>7. QED
    BY <1>4, <2>4, <2>5, <2>6 DEF IndInv
<1>11. CASE PublishOk(c) /\ kind = "grpc"
  <2>1. /\ hpc[c] = "publish"
        /\ hpc' = [hpc EXCEPT ![c] = "receive"]
        /\ taken' = [taken EXCEPT ![c] = taken[c] + 1]
        /\ count' = [count EXCEPT ![c] = count[c] + 1]
        /\ UNCHANGED <<hses, sent, conn, ans>>
    BY <1>11 DEF PublishOk
  <2>2. sent[c] = taken[c] + 1 /\ count[c] = taken[c]
    BY <1>1, <1>11, <2>1 DEF MessagesOK
  <2>3. TypeOK'
    BY <1>1, <1>2, <1>3, <1>5, <1>6, <2>1, <2>2 DEF TypeOK
  <2>4. MessagesOK'
    BY <1>1, <1>2, <1>6, <1>11, <2>1, <2>2 DEF MessagesOK, Working, TypeOK
  <2>5. ConnOK'
    BY <1>1, <1>2, <2>1 DEF ConnOK, Working, TypeOK
  <2>6. QED
    BY <1>4, <2>3, <2>4, <2>5 DEF IndInv
<1>12. QED
  BY <1>1, <1>7, <1>8, <1>9, <1>10, <1>11 DEF HandlerStep, TypeOK

\* Every step keeps the invariant.
LEMMA NextInd == IndInv /\ [Next]_vars => IndInv'
<1>1. SUFFICES ASSUME IndInv, [Next]_vars PROVE IndInv'
  OBVIOUS
<1>2. CASE UNCHANGED vars
  <2>1. UNCHANGED <<pc, session, cancelled, kind, bound, serve, halted,
                    hpc, hses, conn, sent, taken, count, ans>>
    BY <1>2 DEF vars, owner, server, clients
  <2>2. QED
    BY <1>1, <2>1 DEF IndInv, TypeOK, Limit, MessagesOK, Working, LoopOK, ConnOK
<1>3. CASE Next
  BY <1>1, <1>2, <1>3, OwnerInd, HandlerInd DEF Next, Gone
<1>4. QED
  BY <1>1, <1>2, <1>3

\* The invariant holds in every reachable state.
THEOREM Inductive == Spec => []IndInv
  BY InitInd, NextInd, PTL DEF Spec

\* Close gives the port back in every order of events, and no accept loop survives
\* it (webhook.go and grpc.go, Run and Close).
THEOREM PortReleased == Spec => []ReleasedIsFree
<1>1. ASSUME IndInv PROVE ReleasedIsFree
  BY <1>1 DEF IndInv, LoopOK, TypeOK, ReleasedIsFree
<1>2. QED
  BY <1>1, Inductive, PTL

\* No client keeps a connection of a session that is over, and a cancelled Run of
\* gRPC returns with no handler of its session left (grpc.go, GracefulStop).
THEOREM NothingSurvives == Spec => []SessionIsOver
<1>1. ASSUME IndInv PROVE SessionIsOver
  <2>1. TypeOK /\ MessagesOK /\ ConnOK
    BY <1>1 DEF IndInv
  <2>2. ASSUME pc = "released", NEW c \in Clients, Working(c) PROVE conn[c] = "closed"
    BY <2>1, <2>2 DEF MessagesOK, ConnOK, TypeOK
  <2>3. ASSUME pc = "join", kind = "grpc", NEW c \in Clients, hses[c] = session PROVE ~Working(c)
    BY <2>1, <2>3 DEF ConnOK
  <2>4. QED
    BY <2>2, <2>3 DEF SessionIsOver
<1>2. QED
  BY <1>1, Inductive, PTL

\* A client that was told of success had every message taken by publish, and the
\* count it was told is theirs (webhook.go, handleWebhook; grpc.go, StreamEvents).
THEOREM SuccessHolds == Spec => []SuccessIsTrue
<1>1. ASSUME IndInv PROVE SuccessIsTrue
  BY <1>1 DEF IndInv, MessagesOK, SuccessIsTrue
<1>2. QED
  BY <1>1, Inductive, PTL
============================================================================
