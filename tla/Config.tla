------------------------------- MODULE Config -------------------------------
(***************************************************************************)
(* The life of a stream's configuration: decoded and validated             *)
(* (internal/server/validate.go, internal/pipeline/validate.go), built     *)
(* into a source and a pipeline (sourceFromConfig, buildFromConfig),       *)
(* claimed a port, stored, described to a client with its secrets          *)
(* withheld, given another pipeline, and read back by the next process.    *)
(*                                                                         *)
(* A document is the configuration after decoding.  The source's           *)
(* constructor writes its defaults into the connector block of the         *)
(* document it was given, so the manager's map, the store and every        *)
(* description have them too; the source keeps a pointer to that block.    *)
(* Requests are whole here; module StreamManager has their steps.          *)
(***************************************************************************)
EXTENDS RestartPolicy

CONSTANTS
  Ids,           \* stream ids, in the order of their names
  Documents,     \* what a client POSTs: decoded, or Malformed
  Pipelines,     \* what a client PUTs
  Legacy,        \* documents an older version may have left in the bucket
  Atoi,          \* Atoi[s]: the number a spelling of a port stands for, or Malformed
  Itoa,          \* Itoa[n]: the canonical spelling of n
  WebhookPort,   \* the port NewWebhookSource and connectorPort default to
  GrpcPort,      \* the same for gRPC
  DefaultPoll,   \* NewRESTPollerSource's interval
  MinPoll,       \* minPollInterval
  DefaultTime,   \* defaultDedupTTL, defaultFlushInterval
  DefaultCount,  \* defaultDedupCacheSize, defaultMaxBatchSize
  Limit,         \* maxDedupCacheSize, maxBatchSize
  Redacted       \* redactedValue

PortNumbers == 1..65535

\* The connector blocks, with the fields of every kind, and the documents that the
\* decoder can give.
BlockOK(b) ==
  /\ b = [port |-> b.port, interval |-> b.interval, method |-> b.method, secret |-> b.secret]
  /\ b.port \in DOMAIN Atoi \cup {Omitted}
  /\ b.interval \in Durations

DocumentOK(d) ==
  /\ d = [kind |-> d.kind, topic |-> d.topic, url |-> d.url, blocks |-> d.blocks,
          restart |-> d.restart, pipeline |-> d.pipeline]
  /\ d.blocks = [k \in DOMAIN d.blocks |-> d.blocks[k]]
  /\ \A k \in DOMAIN d.blocks : BlockOK(d.blocks[k])
  /\ d.restart \in RestartBlocks \cup {Omitted}

ASSUME ConfigAssumption ==
  /\ Ids \subseteq Nat
  /\ \A d \in (Documents \ {Malformed}) \cup Legacy : DocumentOK(d)
  /\ Omitted \notin DOMAIN Atoi /\ Malformed # "GET"
  /\ \A s \in DOMAIN Atoi : Atoi[s] # Malformed =>
       Itoa[Atoi[s]] \in DOMAIN Atoi /\ Atoi[Itoa[Atoi[s]]] = Atoi[s]
  /\ WebhookPort \in DOMAIN Atoi /\ GrpcPort \in DOMAIN Atoi
  /\ Atoi[WebhookPort] \in PortNumbers /\ Atoi[GrpcPort] \in PortNumbers
  /\ MinPoll \in Nat \ {0} /\ DefaultPoll \in Nat /\ DefaultPoll >= MinPoll
  /\ DefaultTime \in Nat \ {0}
  /\ DefaultCount \in Nat \ {0} /\ Limit \in Nat /\ Limit >= DefaultCount

VARIABLES
  store,    \* the bucket: id -> document, Omitted when it has no such key
  configs,  \* StreamManager.configs, whose blocks the sources share
  status,   \* "none", "running" or "failed"
  chain,    \* the stages of the generation that runs, with their parameters
  policy,   \* the policy the supervisor was started with
  claims,   \* portClaims: port -> id
  bound,    \* the listeners of this process: port -> id
  pending,  \* stored ids that Restore has not come to
  answer,   \* the last answer of an admission, the ones of Restore included
  shown,    \* the last description: the id and the document, or Omitted
  written   \* history: what the client was told is in force

vars == <<store, configs, status, chain, policy, claims, bound, pending, answer, shown, written>>

---------------------------------------------------------------------------
(* Validation.                                                             *)

\* decodeStrict: an unknown field, or content after the object, fails the whole.
Decodes(doc) == doc # Malformed

Set(x) == x \notin {Omitted, Malformed}

listStages == {"filter", "transform", "enrich"}
timedStages == {"dedup", "batch"}

\* The value of an optional field, Malformed when it is stated and cannot be honoured.
resolveCount(raw) ==
  IF raw = 0 THEN DefaultCount ELSE IF raw \in 1..Limit THEN raw ELSE Malformed

resolveDuration(raw) ==
  IF raw = Omitted THEN DefaultTime ELSE IF ValidDuration(raw) THEN raw ELSE Malformed

\* The stages of a pipeline document: a list with no, blank or usable entries; a
\* timed stage; a threshold.  Blocks that are not enabled are checked as well.
ValidateConfig(p) ==
  p # Omitted =>
    /\ \A s \in DOMAIN p \cap listStages : p[s].entries = "usable"
    /\ \A s \in DOMAIN p \cap timedStages :
         Malformed \notin {resolveDuration(p[s].time), resolveCount(p[s].count)}
    /\ "threshold" \in DOMAIN p =>
         /\ p["threshold"].enabled => p["threshold"].path # Omitted
         /\ p["threshold"].delta >= 0

validatePort(raw) == raw # Omitted => Set(Atoi[raw]) /\ Atoi[raw] \in PortNumbers

validatePollInterval(raw) == raw # Omitted => raw # Malformed /\ raw >= MinPoll

\* The scheme a pull connector's URL must have.
Scheme(kind) == IF kind = "websocket" THEN "ws" ELSE "http"

\* validateConnector.  A block of another kind is refused, not ignored.  A secret
\* stands for on_connect_send, the headers or the token; Malformed for an empty
\* frame or header name.
validateConnector(cfg) ==
  /\ cfg.kind \in pullKinds => cfg.url = Scheme(cfg.kind)
  /\ DOMAIN cfg.blocks \subseteq {cfg.kind}
  /\ \A k \in DOMAIN cfg.blocks :
       LET block == cfg.blocks[k]
       IN  /\ k \in pullKinds => block.secret # Malformed
           /\ k = "rest_poller" => validatePollInterval(block.interval) /\ block.method # Malformed
           /\ k \in pushKinds => validatePort(block.port)

validateStreamConfig(cfg) ==
  /\ cfg.kind \in pullKinds \cup pushKinds
  /\ Set(cfg.topic)
  /\ validateConnector(cfg)
  /\ validateRestart(cfg.restart)
  /\ ValidateConfig(cfg.pipeline)

---------------------------------------------------------------------------
(* Construction.                                                           *)

NoBlock == [port |-> Omitted, interval |-> Omitted, method |-> Omitted, secret |-> Omitted]

\* The defaults the constructor of a kind writes into its block.  The webhook's path,
\* which gets a default and a leading slash in the same way, is left out.
Defaults(kind) ==
  CASE kind = "webhook"     -> [NoBlock EXCEPT !.port = WebhookPort]
    [] kind = "grpc"        -> [NoBlock EXCEPT !.port = GrpcPort]
    [] kind = "rest_poller" -> [NoBlock EXCEPT !.interval = DefaultPoll, !.method = "GET"]
    [] OTHER                -> NoBlock

Fill(block, kind) ==
  [f \in DOMAIN block |-> IF block[f] = Omitted THEN Defaults(kind)[f] ELSE block[f]]

\* sourceFromConfig: the document as the constructor leaves it.
sourceFromConfig(cfg) ==
  [cfg EXCEPT !.blocks = [k \in DOMAIN @ |-> IF k = cfg.kind THEN Fill(@[k], k) ELSE @[k]]]

\* The block a source reads: the one in the manager's map, or its own when the
\* document has none.
SourceBlock(cfg) ==
  IF cfg.kind \in DOMAIN cfg.blocks THEN cfg.blocks[cfg.kind] ELSE Defaults(cfg.kind)

\* Mutant: claims are keyed on what was written.
canonicalPortRaw(raw) == raw

canonicalPort(raw) == IF Atoi[raw] = Malformed THEN raw ELSE Itoa[Atoi[raw]]

\* connectorPort: the port a document claims, read before and after the constructor.
connectorPort(cfg) ==
  IF cfg.kind \in pushKinds
  THEN canonicalPort(Fill(SourceBlock(cfg), cfg.kind).port) ELSE Omitted

\* The address net.Listen makes of the source's own spelling.
ListenPort(cfg) == IF cfg.kind \in pushKinds THEN Atoi[SourceBlock(cfg).port] ELSE Omitted

\* NewDedup and NewBatch fail on what they cannot honour.
BuildFails(p) ==
  p # Omitted /\ \E s \in DOMAIN p \cap timedStages :
    p[s].enabled /\ Malformed \in {resolveDuration(p[s].time), resolveCount(p[s].count)}

\* buildFromConfig: the stages that get a middleware.
buildFromConfig(p) ==
  IF p = Omitted THEN {}
  ELSE {<<s>> : s \in {s \in DOMAIN p \cap listStages : p[s].entries # "none"}}
       \cup {<<s, resolveDuration(p[s].time), resolveCount(p[s].count)>> :
               s \in {s \in DOMAIN p \cap timedStages : p[s].enabled}}
       \cup {<<s, p[s].delta>> :
               s \in {s \in DOMAIN p \cap {"threshold"} : p[s].enabled /\ p[s].path # Omitted}}

\* What the bucket gives back of a document: omitempty leaves a field out when it
\* has its zero value, and decoding gives it that value again.  max_attempts is a
\* pointer: its zero value is nil, and a 0 is kept.
zeroRestart ==
  [max_attempts |-> Omitted, initial_backoff |-> Omitted, max_backoff |-> Omitted,
   factor |-> 0, reset_after |-> Omitted]

Marshal(v, zero) == [f \in {g \in DOMAIN v : v[g] # zero[g]} |-> v[f]]
Unmarshal(object, zero) ==
  [f \in DOMAIN zero |-> IF f \in DOMAIN object THEN object[f] ELSE zero[f]]

Stored(cfg) ==
  [cfg EXCEPT
     !.blocks  = [k \in DOMAIN @ |-> Unmarshal(Marshal(@[k], NoBlock), NoBlock)],
     !.restart = IF @ = Omitted THEN @ ELSE Unmarshal(Marshal(@, zeroRestart), zeroRestart)]

---------------------------------------------------------------------------
(* Operations.                                                             *)

Init ==
  /\ store \in [Ids -> Legacy \cup {Omitted}]
  /\ configs = [i \in Ids |-> Omitted]
  /\ status = [i \in Ids |-> "none"]
  /\ chain = [i \in Ids |-> {}]
  /\ policy = [i \in Ids |-> Omitted]
  /\ claims = <<>> /\ bound = <<>>
  /\ pending = {i \in Ids : store[i] # Omitted}
  /\ answer = "none"
  /\ shown = Omitted
  /\ written = store

\* How admitLocked answers, in the order of its checks.
Verdict(i, cfg) ==
  IF status[i] # "none" THEN "exists"
  ELSE IF connectorPort(cfg) \in DOMAIN claims THEN "conflict"
  ELSE IF BuildFails(cfg.pipeline) THEN "build"
  ELSE IF cfg.kind = "rest_poller" /\ ~ValidDuration(SourceBlock(cfg).interval) THEN "open"
  ELSE IF ListenPort(cfg) \in DOMAIN bound \cup {Malformed} THEN "bind"
  ELSE "ok"

\* The maps with one more entry, unless the document has no port.
With(f, port, i) ==
  IF port = Omitted THEN f
  ELSE [q \in DOMAIN f \cup {port} |-> IF q = port THEN i ELSE f[q]]

Install(i, cfg) ==
  /\ configs' = [configs EXCEPT ![i] = cfg]
  /\ status' = [status EXCEPT ![i] = "running"]
  /\ chain' = [chain EXCEPT ![i] = buildFromConfig(cfg.pipeline)]
  /\ policy' = [policy EXCEPT ![i] = restartPolicyFor(cfg.kind, cfg.restart)]
  /\ claims' = With(claims, connectorPort(cfg), i)
  /\ bound' = With(bound, ListenPort(cfg), i)

Serving == pending = {}

\* POST: decoded strictly, validated, then admitted.  The store may refuse.
Post(i, doc) ==
  /\ Serving
  /\ IF ~Decodes(doc) \/ ~validateStreamConfig(doc)
     THEN answer' = "invalid" /\ UNCHANGED <<store, configs, status, chain, policy, claims, bound, written>>
     ELSE LET cfg == sourceFromConfig(doc)
              verdict == Verdict(i, cfg)
          IN  \/ /\ verdict = "ok"
                 /\ answer' = "ok"
                 /\ store' = [store EXCEPT ![i] = Stored(cfg)]
                 /\ written' = [written EXCEPT ![i] = doc]
                 /\ Install(i, cfg)
              \/ /\ answer' = IF verdict = "ok" THEN "persist" ELSE verdict
                 /\ UNCHANGED <<store, configs, status, chain, policy, claims, bound, written>>
  /\ UNCHANGED <<pending, shown>>

\* PUT of a pipeline: persisted before it is swapped in, so a store that refuses
\* changes nothing.  A failed stream has no generation to swap.
Put(i, p) ==
  /\ Serving
  /\ status[i] = "running"
  /\ ValidateConfig(p) /\ ~BuildFails(p)
  /\ LET updated == [configs[i] EXCEPT !.pipeline = p]
     IN  /\ store' = [store EXCEPT ![i] = Stored(updated)]
         /\ configs' = [configs EXCEPT ![i] = updated]
  /\ chain' = [chain EXCEPT ![i] = buildFromConfig(p)]
  /\ written' = [written EXCEPT ![i].pipeline = p]
  /\ UNCHANGED <<status, policy, claims, bound, pending, answer, shown>>

\* DELETE: the key, the source, its claims.
Delete(i) ==
  /\ Serving
  /\ status[i] # "none"
  /\ store' = [store EXCEPT ![i] = Omitted]
  /\ configs' = [configs EXCEPT ![i] = Omitted]
  /\ status' = [status EXCEPT ![i] = "none"]
  /\ chain' = [chain EXCEPT ![i] = {}]
  /\ policy' = [policy EXCEPT ![i] = Omitted]
  /\ claims' = [q \in {q \in DOMAIN claims : claims[q] # i} |-> claims[q]]
  /\ bound' = [q \in {q \in DOMAIN bound : bound[q] # i} |-> bound[q]]
  /\ written' = [written EXCEPT ![i] = Omitted]
  /\ UNCHANGED <<pending, answer, shown>>

\* Mutant: only the webhook's token is withheld.
redactConfigTokenOnly(cfg) ==
  [cfg EXCEPT !.blocks = [k \in DOMAIN @ |->
     IF k # "webhook" \/ @[k].secret = Omitted THEN @[k] ELSE [@[k] EXCEPT !.secret = Redacted]]]

\* redactConfig: every branch rewrites through a fresh copy of its block.
redactConfig(cfg) ==
  [cfg EXCEPT !.blocks = [k \in DOMAIN @ |->
     IF @[k].secret = Omitted THEN @[k] ELSE [@[k] EXCEPT !.secret = Redacted]]]

\* Mutant: the blocks of the manager's map are rewritten in place.
DescribeInPlace(i) ==
  /\ Serving
  /\ status[i] # "none"
  /\ shown' = [id |-> i, config |-> redactConfig(configs[i])]
  /\ configs' = [configs EXCEPT ![i] = redactConfig(@)]
  /\ UNCHANGED <<store, status, chain, policy, claims, bound, pending, answer, written>>

\* GET of one stream, failed ones included.
Describe(i) ==
  /\ Serving
  /\ status[i] # "none"
  /\ shown' = [id |-> i, config |-> redactConfig(configs[i])]
  /\ UNCHANGED <<store, configs, status, chain, policy, claims, bound, pending, answer, written>>

\* The process ends, by a signal or a crash, and another one starts.
Restart ==
  /\ configs' = [i \in Ids |-> Omitted]
  /\ status' = [i \in Ids |-> "none"]
  /\ chain' = [i \in Ids |-> {}]
  /\ policy' = [i \in Ids |-> Omitted]
  /\ claims' = <<>> /\ bound' = <<>>
  /\ pending' = {i \in Ids : store[i] # Omitted}
  /\ answer' = "none"
  /\ shown' = Omitted
  /\ UNCHANGED <<store, written>>

\* admitFailedLocked: registered all the same, and its port kept for it if free.
AdmitFailed(i, cfg) ==
  /\ configs' = [configs EXCEPT ![i] = cfg]
  /\ status' = [status EXCEPT ![i] = "failed"]
  /\ claims' = IF connectorPort(cfg) \in DOMAIN claims THEN claims
                ELSE With(claims, connectorPort(cfg), i)
  /\ UNCHANGED <<chain, policy, bound>>

\* Mutant: what is in the bucket is not validated again.
RestoreNextTrusts ==
  /\ \E i \in pending :
       LET cfg == sourceFromConfig(store[i])
       IN  /\ \A j \in pending : i <= j
           /\ pending' = pending \ {i}
           /\ answer' = Verdict(i, cfg)
           /\ IF answer' = "ok" THEN Install(i, cfg) ELSE AdmitFailed(i, cfg)
  /\ UNCHANGED <<store, shown, written>>

\* Restore, one document after the other in the order of their ids.
RestoreNext ==
  /\ \E i \in pending :
       LET cfg == sourceFromConfig(store[i])
       IN  /\ \A j \in pending : i <= j
           /\ pending' = pending \ {i}
           /\ IF validateStreamConfig(store[i])
              THEN /\ answer' = Verdict(i, cfg)
                   /\ IF answer' = "ok" THEN Install(i, cfg) ELSE AdmitFailed(i, cfg)
              ELSE /\ answer' = "invalid"
                   /\ AdmitFailed(i, store[i])
  /\ UNCHANGED <<store, shown, written>>

Next ==
  \/ Restart \/ RestoreNext
  \/ \E i \in Ids :
       \/ Delete(i) \/ Describe(i)
       \/ \E doc \in Documents : Post(i, doc)
       \/ \E p \in Pipelines : Put(i, p)

Spec == Init /\ [][Next]_vars

---------------------------------------------------------------------------
(* Properties.                                                             *)

Running == {i \in Ids : status[i] = "running"}

\* A field as its author meant it: what is written, or the documented default.
Meant(raw, default) == IF raw = Omitted THEN default ELSE raw

\* The stages a pipeline document asks for, with the parameters it states.
MeantChain(p) ==
  IF p = Omitted THEN {}
  ELSE {<<s>> : s \in DOMAIN p \cap listStages}
       \cup {<<s, Meant(p[s].time, DefaultTime), IF p[s].count = 0 THEN DefaultCount ELSE p[s].count>> :
               s \in {s \in DOMAIN p \cap timedStages : p[s].enabled}}
       \cup {<<s, p[s].delta>> : s \in {s \in DOMAIN p \cap {"threshold"} : p[s].enabled}}

\* A stream runs exactly what its operator was last told is in force: each value as
\* written, each omitted one at its default, whatever was described, replaced,
\* stored and restored in between.
HonouredAsWritten ==
  \A i \in Running :
    LET doc == written[i]
        block == SourceBlock(doc)
    IN  /\ SourceBlock(configs[i]) =
             [f \in DOMAIN block |-> Meant(block[f], Defaults(doc.kind)[f])]
        /\ chain[i] = MeantChain(doc.pipeline)
        /\ policy[i] = restartPolicyFor(doc.kind, doc.restart)

\* Nothing runs that today's validator refuses, and nothing it accepted is refused
\* by the next process on account of what was done to it in between.
RunsWhatIsValid ==
  \A i \in Ids :
    /\ status[i] = "running" => validateStreamConfig(written[i])
    /\ status[i] = "failed" /\ validateStreamConfig(written[i]) => validateStreamConfig(configs[i])

\* Two streams that listen on one port, however it is spelled or defaulted, meet in
\* the claims: no admission gets as far as a failing bind, and a listener's claim is
\* its own.
ConflictIsNamed ==
  /\ answer \notin {"bind", "open", "build"}
  /\ \A n \in DOMAIN bound : Itoa[n] \in DOMAIN claims /\ claims[Itoa[n]] = bound[n]

\* A description has no secret in it, shows that there is one, and is otherwise
\* what the stream runs.
DescribedAsRun ==
  [][\A i \in Running : Describe(i) =>
       LET told == SourceBlock(shown'.config)
           real == SourceBlock(configs[i])
       IN  /\ told.secret = (IF real.secret = Omitted THEN Omitted ELSE Redacted)
           /\ [told EXCEPT !.secret = real.secret] = Fill(SourceBlock(written[i]), written[i].kind)
           /\ buildFromConfig(shown'.config.pipeline) = chain[i]]_vars
============================================================================
