------------------------------ MODULE MCConfig ------------------------------
(* Documents for TLC: every connector block omitted, partly written, fully *)
(* written or wrong; ports that clash by spelling, by default and across   *)
(* kinds; restart blocks that mean something else once a default is read.  *)
EXTENDS Config, TLC

CONSTANT Secret

MCAtoi == ("8081" :> 8081) @@ ("08081" :> 8081) @@ ("50051" :> 50051) @@ ("0" :> 0) @@ ("http" :> Malformed)

MCItoa == (8081 :> "8081") @@ (50051 :> "50051") @@ (0 :> "0")

Block(k, port, interval, method, secret) ==
  k :> [port |-> port, interval |-> interval, method |-> method, secret |-> secret]

Doc(kind, url, blocks, restart, pipeline) ==
  [kind |-> kind, topic |-> "t", url |-> url, blocks |-> blocks, restart |-> restart, pipeline |-> pipeline]

Attempts(n) == [zeroRestart EXCEPT !.max_attempts = n]

List(e) == [entries |-> e]
Timed(on, time, count) == [enabled |-> on, time |-> time, count |-> count]
Moves(on, path, delta) == [enabled |-> on, path |-> path, delta |-> delta]

MCPipelines ==
  {<<>>,
   ("dedup" :> Timed(TRUE, Omitted, 0)) @@ ("batch" :> Timed(FALSE, 2, 3)),
   ("dedup" :> Timed(TRUE, 4, 3)) @@ ("enrich" :> List("usable")) @@ ("threshold" :> Moves(TRUE, "p", 0)),
   "batch" :> Timed(TRUE, 2, 9), "batch" :> Timed(FALSE, Malformed, 0),
   "filter" :> List("none"), "transform" :> List("blank"),
   "threshold" :> Moves(TRUE, Omitted, 1), "threshold" :> Moves(FALSE, "p", -1)}

MCDocuments ==
  {Malformed,
   Doc("webhook", Omitted, <<>>, Attempts(0), Omitted),
   Doc("webhook", Omitted, Block("webhook", "08081", Omitted, Omitted, Secret), Omitted, "batch" :> Timed(TRUE, 2, 3)),
   Doc("webhook", Omitted, Block("webhook", "0", Omitted, Omitted, Omitted), Omitted, Omitted),
   Doc("grpc", Omitted, Block("grpc", "8081", Omitted, Omitted, Omitted), Attempts(Omitted), Omitted),
   Doc("grpc", Omitted, Block("grpc", Omitted, Omitted, Omitted, Omitted), Omitted, Omitted),
   Doc("rest_poller", "http", Block("rest_poller", Omitted, Omitted, Omitted, Secret), Omitted, Omitted),
   Doc("rest_poller", "http", Block("rest_poller", Omitted, 3, "POST", Omitted), [Attempts(0) EXCEPT !.max_backoff = 1], Omitted),
   Doc("sse", "http", Block("sse", Omitted, Omitted, Omitted, Secret), [Attempts(1) EXCEPT !.factor = 3], Omitted),
   Doc("sse", "http", Block("websocket", Omitted, Omitted, Omitted, Secret), Omitted, Omitted),
   Doc("websocket", "http", <<>>, Omitted, Omitted),
   Doc("websocket", "ws", <<>>, Omitted, "batch" :> Timed(TRUE, 2, 9))}

MCLegacy ==
  {Doc("rest_poller", "http", Block("rest_poller", Omitted, 1, "GET", Omitted), Omitted, Omitted),
   Doc("webhook", Omitted, Block("webhook", "http", Omitted, Omitted, Omitted), Omitted, Omitted),
   Doc("grpc", Omitted, Block("grpc", "08081", Omitted, Omitted, Omitted), Omitted, Omitted)}
=============================================================================
