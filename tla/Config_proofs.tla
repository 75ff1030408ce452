--------------------------- MODULE Config_proofs ---------------------------
(***************************************************************************)
(* Proofs about module Config, for any ids, any documents and pipelines    *)
(* the decoder can give, anything an older version left in the bucket and  *)
(* any spelling of ports.                                                  *)
(***************************************************************************)
EXTENDS Config, TLAPS

---------------------------------------------------------------------------
(* The inductive invariant.                                                *)

\* The maps are over the ids.
ShapeOK ==
  /\ store = [i \in Ids |-> store[i]] /\ written = [i \in Ids |-> written[i]]
  /\ configs = [i \in Ids |-> configs[i]] /\ status = [i \in Ids |-> status[i]]
  /\ chain = [i \in Ids |-> chain[i]] /\ policy = [i \in Ids |-> policy[i]]
  /\ pending \subseteq {i \in Ids : store[i] # Omitted}

\* The bucket has what was written, or that with the defaults filled in.
StoreOK == \A i \in Ids : store[i] # Omitted =>
  /\ DocumentOK(written[i])
  /\ \/ store[i] = written[i]
     \/ validateStreamConfig(written[i]) /\ store[i] = sourceFromConfig(written[i])

\* A stream that runs was built from what was written.
RunningOK == \A i \in Ids : status[i] = "running" =>
  /\ DocumentOK(written[i]) /\ validateStreamConfig(written[i])
  /\ configs[i] = sourceFromConfig(written[i])
  /\ chain[i] = buildFromConfig(written[i].pipeline)
  /\ policy[i] = restartPolicyFor(written[i].kind, written[i].restart)

\* One that does not is kept as the bucket has it.
FailedOK == \A i \in Ids :
  status[i] = "failed" /\ validateStreamConfig(written[i]) => validateStreamConfig(configs[i])

\* Listeners have a claim.
PortsOK ==
  /\ Omitted \notin DOMAIN bound
  /\ \A n \in DOMAIN bound : Itoa[n] \in DOMAIN claims /\ claims[Itoa[n]] = bound[n]

AnswerOK == answer \notin {"bind", "open", "build"}

IndInv == ShapeOK /\ StoreOK /\ RunningOK /\ FailedOK /\ PortsOK /\ AnswerOK

---------------------------------------------------------------------------
(* The operators.                                                          *)

\* The assumptions, without their quantifiers.
LEMMA Constants ==
  /\ Omitted \notin Int /\ Malformed \notin Int /\ Omitted # Malformed
  /\ Omitted \notin DOMAIN Atoi /\ Malformed # "GET"
  /\ WebhookPort \in DOMAIN Atoi /\ GrpcPort \in DOMAIN Atoi
  /\ Atoi[WebhookPort] \in PortNumbers /\ Atoi[GrpcPort] \in PortNumbers
  /\ PortNumbers \subseteq Int
  /\ MinPoll \in Nat \ {0} /\ DefaultPoll \in Nat /\ DefaultPoll >= MinPoll
<1>1. Omitted \notin Int /\ Malformed \notin Int /\ Omitted # Malformed
  BY RestartPolicyAssumption, Zenon
<1>2. /\ Omitted \notin DOMAIN Atoi /\ Malformed # "GET"
      /\ WebhookPort \in DOMAIN Atoi /\ GrpcPort \in DOMAIN Atoi
      /\ Atoi[WebhookPort] \in PortNumbers /\ Atoi[GrpcPort] \in PortNumbers
      /\ MinPoll \in Nat \ {0} /\ DefaultPoll \in Nat /\ DefaultPoll >= MinPoll
  BY ConfigAssumption, Zenon
<1>3. PortNumbers \subseteq Int
  BY DEF PortNumbers
<1>4. QED
  BY <1>1, <1>2, <1>3, Zenon

\* The defaults of a kind are a block.
LEMMA DefaultsShape ==
  ASSUME NEW kind
  PROVE  /\ Defaults(kind) = [port |-> Defaults(kind).port, interval |-> Defaults(kind).interval,
                              method |-> Defaults(kind).method, secret |-> Defaults(kind).secret]
         /\ Defaults(kind).secret = Omitted
         /\ BlockOK(Defaults(kind))
<1>1. Omitted \notin Int /\ Omitted \notin DOMAIN Atoi /\ DefaultPoll \in Int
      /\ WebhookPort \in DOMAIN Atoi /\ GrpcPort \in DOMAIN Atoi
  BY Constants
<1>2. CASE kind = "webhook"
  <2>1. Defaults(kind) = [port |-> WebhookPort, interval |-> Omitted, method |-> Omitted, secret |-> Omitted]
    BY <1>2 DEF Defaults, NoBlock
  <2>2. QED
    BY <1>1, <2>1 DEF BlockOK, Durations
<1>3. CASE kind = "grpc"
  <2>1. Defaults(kind) = [port |-> GrpcPort, interval |-> Omitted, method |-> Omitted, secret |-> Omitted]
    BY <1>3 DEF Defaults, NoBlock
  <2>2. QED
    BY <1>1, <2>1 DEF BlockOK, Durations
<1>4. CASE kind = "rest_poller"
  <2>1. Defaults(kind) = [port |-> Omitted, interval |-> DefaultPoll, method |-> "GET", secret |-> Omitted]
    BY <1>4 DEF Defaults, NoBlock
  <2>2. QED
    BY <1>1, <2>1 DEF BlockOK, Durations
<1>5. CASE kind \notin {"webhook", "grpc", "rest_poller"}
  <2>1. Defaults(kind) = [port |-> Omitted, interval |-> Omitted, method |-> Omitted, secret |-> Omitted]
    BY <1>5 DEF Defaults, NoBlock
  <2>2. QED
    BY <1>1, <2>1 DEF BlockOK, Durations
<1>6. QED
  BY <1>2, <1>3, <1>4, <1>5

\* What a constructor makes of its block, field by field.
LEMMA FillShape ==
  ASSUME NEW b, NEW kind, BlockOK(b)
  PROVE  /\ Fill(b, kind) =
              [port     |-> IF b.port = Omitted THEN Defaults(kind).port ELSE b.port,
               interval |-> IF b.interval = Omitted THEN Defaults(kind).interval ELSE b.interval,
               method   |-> IF b.method = Omitted THEN Defaults(kind).method ELSE b.method,
               secret   |-> b.secret]
         /\ BlockOK(Fill(b, kind))
<1>1. DOMAIN b = {"port", "interval", "method", "secret"}
  BY DEF BlockOK
<1>2. Defaults(kind).secret = Omitted /\ BlockOK(Defaults(kind))
  BY DefaultsShape
<1>3. Fill(b, kind) =
        [port     |-> IF b.port = Omitted THEN Defaults(kind).port ELSE b.port,
         interval |-> IF b.interval = Omitted THEN Defaults(kind).interval ELSE b.interval,
         method   |-> IF b.method = Omitted THEN Defaults(kind).method ELSE b.method,
         secret   |-> b.secret]
  BY <1>1, <1>2 DEF Fill
<1>4. BlockOK(Fill(b, kind))
  BY <1>2, <1>3 DEF BlockOK
<1>5. QED
  BY <1>3, <1>4

\* Filling in the defaults twice changes nothing more.
LEMMA FillTwice ==
  ASSUME NEW b, NEW kind, BlockOK(b)
  PROVE  Fill(Fill(b, kind), kind) = Fill(b, kind)
  BY FillShape

\* Nor does filling in the defaults themselves.
LEMMA FillDefaults == ASSUME NEW kind PROVE Fill(Defaults(kind), kind) = Defaults(kind)
<1>1. BlockOK(Defaults(kind))
  BY DefaultsShape
<1>2. DOMAIN Defaults(kind) = {"port", "interval", "method", "secret"}
  BY <1>1 DEF BlockOK
<1>3. Fill(Defaults(kind), kind) = [f \in DOMAIN Defaults(kind) |-> Defaults(kind)[f]]
  BY DEF Fill
<1>4. QED
  BY <1>1, <1>2, <1>3 DEF BlockOK

\* A document as the constructor leaves it: the block of its own kind is filled.
LEMMA Constructed ==
  ASSUME NEW d, DocumentOK(d)
  PROVE  /\ DocumentOK(sourceFromConfig(d))
         /\ sourceFromConfig(d) =
              [kind |-> d.kind, topic |-> d.topic, url |-> d.url,
               blocks |-> [k \in DOMAIN d.blocks |->
                             IF k = d.kind THEN Fill(d.blocks[k], k) ELSE d.blocks[k]],
               restart |-> d.restart, pipeline |-> d.pipeline]
<1>1. sourceFromConfig(d) =
        [kind |-> d.kind, topic |-> d.topic, url |-> d.url,
         blocks |-> [k \in DOMAIN d.blocks |->
                       IF k = d.kind THEN Fill(d.blocks[k], k) ELSE d.blocks[k]],
         restart |-> d.restart, pipeline |-> d.pipeline]
  BY DEF sourceFromConfig, DocumentOK
<1>2. \A k \in DOMAIN d.blocks : BlockOK(d.blocks[k]) /\ BlockOK(Fill(d.blocks[k], k))
  BY FillShape DEF DocumentOK
<1>3. DocumentOK(sourceFromConfig(d))
  BY <1>1, <1>2 DEF DocumentOK
<1>4. QED
  BY <1>1, <1>3

\* Constructing a source from a document that has been through one already.
LEMMA ConstructedTwice ==
  ASSUME NEW d, DocumentOK(d)
  PROVE  sourceFromConfig(sourceFromConfig(d)) = sourceFromConfig(d)
<1>1. DEFINE e == sourceFromConfig(d)
<1>2. /\ e = [kind |-> d.kind, topic |-> d.topic, url |-> d.url,
              blocks |-> [k \in DOMAIN d.blocks |->
                            IF k = d.kind THEN Fill(d.blocks[k], k) ELSE d.blocks[k]],
              restart |-> d.restart, pipeline |-> d.pipeline]
      /\ DocumentOK(e)
  BY Constructed
<1>3. HIDE DEF e
<1>4. sourceFromConfig(e) = [kind |-> e.kind, topic |-> e.topic, url |-> e.url,
              blocks |-> [k \in DOMAIN e.blocks |->
                            IF k = e.kind THEN Fill(e.blocks[k], k) ELSE e.blocks[k]],
              restart |-> e.restart, pipeline |-> e.pipeline]
  BY <1>2, Constructed
<1>5. \A k \in DOMAIN d.blocks : Fill(Fill(d.blocks[k], k), k) = Fill(d.blocks[k], k)
  BY FillTwice DEF DocumentOK
<1>6. e.kind = d.kind /\ DOMAIN e.blocks = DOMAIN d.blocks
  BY <1>2
<1>7. \A k \in DOMAIN d.blocks :
        e.blocks[k] = (IF k = d.kind THEN Fill(d.blocks[k], k) ELSE d.blocks[k])
  BY <1>2
<1>8. \A k \in DOMAIN d.blocks :
        (IF k = e.kind THEN Fill(e.blocks[k], k) ELSE e.blocks[k]) = e.blocks[k]
  BY <1>5, <1>6, <1>7
<1>9. [k \in DOMAIN e.blocks |-> IF k = e.kind THEN Fill(e.blocks[k], k) ELSE e.blocks[k]] = e.blocks
  BY <1>2, <1>6, <1>8 DEF DocumentOK
<1>10. sourceFromConfig(e) = e
  BY <1>2, <1>4, <1>9 DEF DocumentOK
<1>11. QED
  BY <1>10 DEF e

\* A value survives the encoding of its non-zero fields.
LEMMA RoundTrip ==
  ASSUME NEW v, NEW zero, DOMAIN v = DOMAIN zero, v = [f \in DOMAIN v |-> v[f]]
  PROVE  Unmarshal(Marshal(v, zero), zero) = v
  BY DEF Unmarshal, Marshal

\* A document survives the bucket.
LEMMA StoredUnchanged == ASSUME NEW d, DocumentOK(d) PROVE Stored(d) = d
<1>1. \A k \in DOMAIN d.blocks : Unmarshal(Marshal(d.blocks[k], NoBlock), NoBlock) = d.blocks[k]
  <2>1. SUFFICES ASSUME NEW k \in DOMAIN d.blocks
                 PROVE  Unmarshal(Marshal(d.blocks[k], NoBlock), NoBlock) = d.blocks[k]
    OBVIOUS
  <2>2. BlockOK(d.blocks[k])
    BY DEF DocumentOK
  <2>3. /\ DOMAIN d.blocks[k] = DOMAIN NoBlock
        /\ d.blocks[k] = [f \in DOMAIN d.blocks[k] |-> d.blocks[k][f]]
    BY <2>2 DEF BlockOK, NoBlock
  <2>4. QED
    BY <2>3, RoundTrip
<1>2. d.restart # Omitted =>
        Unmarshal(Marshal(d.restart, zeroRestart), zeroRestart) = d.restart
  <2>1. SUFFICES ASSUME d.restart \in RestartBlocks
                 PROVE  Unmarshal(Marshal(d.restart, zeroRestart), zeroRestart) = d.restart
    BY DEF DocumentOK
  <2>2. /\ DOMAIN d.restart = DOMAIN zeroRestart
        /\ d.restart = [f \in DOMAIN d.restart |-> d.restart[f]]
    BY <2>1 DEF RestartBlocks, zeroRestart
  <2>3. QED
    BY <2>2, RoundTrip
<1>3. DEFINE decoded(k) == Unmarshal(Marshal(d.blocks[k], NoBlock), NoBlock)
             policies == IF d.restart = Omitted THEN d.restart
                         ELSE Unmarshal(Marshal(d.restart, zeroRestart), zeroRestart)
<1>4. Stored(d) = [d EXCEPT !.blocks = [k \in DOMAIN d.blocks |-> decoded(k)], !.restart = policies]
  BY DEF Stored
<1>5. [k \in DOMAIN d.blocks |-> decoded(k)] = d.blocks /\ policies = d.restart
  BY <1>1, <1>2 DEF DocumentOK
<1>6. HIDE DEF decoded, policies
<1>7. Stored(d) = [d EXCEPT !.blocks = d.blocks, !.restart = d.restart]
  BY <1>4, <1>5
<1>8. QED
  BY <1>7 DEF DocumentOK

\* The block the source reads is filled, whether the document has one or not.
LEMMA SourceBlockFilled ==
  ASSUME NEW d, DocumentOK(d)
  PROVE  /\ BlockOK(SourceBlock(d))
         /\ SourceBlock(sourceFromConfig(d)) = Fill(SourceBlock(d), d.kind)
<1>1. sourceFromConfig(d) =
        [kind |-> d.kind, topic |-> d.topic, url |-> d.url,
         blocks |-> [k \in DOMAIN d.blocks |->
                       IF k = d.kind THEN Fill(d.blocks[k], k) ELSE d.blocks[k]],
         restart |-> d.restart, pipeline |-> d.pipeline]
  BY Constructed
<1>2. CASE d.kind \in DOMAIN d.blocks
  BY <1>1, <1>2 DEF SourceBlock, DocumentOK
<1>3. CASE d.kind \notin DOMAIN d.blocks
  BY <1>1, <1>3, FillDefaults, DefaultsShape DEF SourceBlock
<1>4. QED
  BY <1>2, <1>3

\* The defaults pass the validator: a valid document is still one when it is filled.
LEMMA FilledIsValid ==
  ASSUME NEW d, DocumentOK(d), validateStreamConfig(d)
  PROVE  validateStreamConfig(sourceFromConfig(d))
<1>1. DEFINE e == sourceFromConfig(d)
<1>2. /\ e.kind = d.kind /\ e.topic = d.topic /\ e.url = d.url /\ e.restart = d.restart
      /\ e.pipeline = d.pipeline /\ DOMAIN e.blocks = DOMAIN d.blocks
      /\ \A k \in DOMAIN d.blocks :
           e.blocks[k] = (IF k = d.kind THEN Fill(d.blocks[k], k) ELSE d.blocks[k])
  BY Constructed
<1>3. HIDE DEF e
<1>4. ASSUME NEW k \in DOMAIN d.blocks
      PROVE  /\ k \in pullKinds => e.blocks[k].secret # Malformed
             /\ k = "rest_poller" =>
                  validatePollInterval(e.blocks[k].interval) /\ e.blocks[k].method # Malformed
             /\ k \in pushKinds => validatePort(e.blocks[k].port)
  <2>1. k = d.kind /\ e.blocks[k] = Fill(d.blocks[k], k)
    BY <1>2, <1>4 DEF validateStreamConfig, validateConnector
  <2>2. BlockOK(d.blocks[k])
    BY <1>4 DEF DocumentOK
  <2>3. /\ e.blocks[k].port = (IF d.blocks[k].port = Omitted THEN Defaults(k).port ELSE d.blocks[k].port)
        /\ e.blocks[k].interval =
             (IF d.blocks[k].interval = Omitted THEN Defaults(k).interval ELSE d.blocks[k].interval)
        /\ e.blocks[k].method = (IF d.blocks[k].method = Omitted THEN Defaults(k).method ELSE d.blocks[k].method)
        /\ e.blocks[k].secret = d.blocks[k].secret
    BY <2>1, <2>2, FillShape
  <2>4. /\ k \in pullKinds => d.blocks[k].secret # Malformed
        /\ k = "rest_poller" =>
             validatePollInterval(d.blocks[k].interval) /\ d.blocks[k].method # Malformed
        /\ k \in pushKinds => validatePort(d.blocks[k].port)
    BY <1>4 DEF validateStreamConfig, validateConnector
  <2>5. CASE k = "rest_poller"
    <3>1. Defaults(k).interval = DefaultPoll /\ Defaults(k).method = "GET"
      BY <2>5 DEF Defaults, NoBlock
    <3>2. validatePollInterval(DefaultPoll)
      BY Constants DEF validatePollInterval
    <3>3. validatePollInterval(e.blocks[k].interval)
      BY <2>3, <2>4, <2>5, <3>1, <3>2
    <3>4. e.blocks[k].method # Malformed
      BY <2>3, <2>4, <2>5, <3>1, Constants
    <3>5. QED
      BY <2>3, <2>4, <2>5, <3>3, <3>4 DEF pullKinds, pushKinds
  <2>6. CASE k \in pushKinds
    <3>1. Defaults(k).port \in {WebhookPort, GrpcPort}
      BY <2>6 DEF Defaults, NoBlock, pushKinds
    <3>2. validatePort(WebhookPort) /\ validatePort(GrpcPort)
      BY Constants DEF validatePort, Set
    <3>3. validatePort(e.blocks[k].port)
      BY <2>3, <2>4, <2>6, <3>1, <3>2
    <3>4. QED
      BY <2>6, <3>3 DEF pushKinds, pullKinds
  <2>7. CASE k \notin pushKinds /\ k # "rest_poller"
    BY <2>3, <2>4, <2>7
  <2>8. QED
    BY <2>5, <2>6, <2>7
<1>5. validateConnector(e)
  BY <1>2, <1>4 DEF validateConnector, validateStreamConfig
<1>6. validateStreamConfig(e)
  BY <1>2, <1>5 DEF validateStreamConfig
<1>7. QED
  BY <1>6 DEF e

\* A document with another pipeline.
LEMMA OtherPipeline ==
  ASSUME NEW d, DocumentOK(d), NEW p
  PROVE  /\ DocumentOK([d EXCEPT !.pipeline = p])
         /\ sourceFromConfig([d EXCEPT !.pipeline = p]) = [sourceFromConfig(d) EXCEPT !.pipeline = p]
         /\ validateStreamConfig(d) /\ ValidateConfig(p) =>
              validateStreamConfig([d EXCEPT !.pipeline = p])
<1>1. DEFINE e == [d EXCEPT !.pipeline = p]
<1>2. e = [kind |-> d.kind, topic |-> d.topic, url |-> d.url, blocks |-> d.blocks,
           restart |-> d.restart, pipeline |-> p]
  BY DEF DocumentOK
<1>3. DocumentOK(e)
  BY <1>2 DEF DocumentOK
<1>4. HIDE DEF e
<1>5. sourceFromConfig(e) =
        [kind |-> d.kind, topic |-> d.topic, url |-> d.url,
         blocks |-> [k \in DOMAIN d.blocks |->
                       IF k = d.kind THEN Fill(d.blocks[k], k) ELSE d.blocks[k]],
         restart |-> d.restart, pipeline |-> p]
  <2>1. sourceFromConfig(e) =
          [kind |-> e.kind, topic |-> e.topic, url |-> e.url,
           blocks |-> [k \in DOMAIN e.blocks |->
                         IF k = e.kind THEN Fill(e.blocks[k], k) ELSE e.blocks[k]],
           restart |-> e.restart, pipeline |-> e.pipeline]
    BY <1>3, Constructed
  <2>2. /\ e.kind = d.kind /\ e.topic = d.topic /\ e.url = d.url /\ e.blocks = d.blocks
        /\ e.restart = d.restart /\ e.pipeline = p
    BY <1>2
  <2>3. QED
    BY <2>1, <2>2, Zenon
<1>6. sourceFromConfig(e) = [sourceFromConfig(d) EXCEPT !.pipeline = p]
  BY <1>5, Constructed
<1>7. validateStreamConfig(d) /\ ValidateConfig(p) => validateStreamConfig(e)
  <2>1. /\ e.kind = d.kind /\ e.topic = d.topic /\ e.url = d.url /\ e.blocks = d.blocks
        /\ e.restart = d.restart /\ e.pipeline = p
    BY <1>2
  <2>2. validateConnector(d) => validateConnector(e)
    BY <2>1, Zenon DEF validateConnector
  <2>3. QED
    BY <2>1, <2>2, Zenon DEF validateStreamConfig
<1>8. QED
  BY <1>3, <1>6, <1>7 DEF e

\* A valid pipeline builds, into the stages and parameters its author meant.
LEMMA BuiltAsMeant ==
  ASSUME NEW p, ValidateConfig(p)
  PROVE  ~BuildFails(p) /\ buildFromConfig(p) = MeantChain(p)
<1>1. CASE p = Omitted
  BY <1>1 DEF BuildFails, buildFromConfig, MeantChain
<1>2. CASE p # Omitted
  <2>1. \A s \in DOMAIN p \cap listStages : p[s].entries # "none"
    BY <1>2 DEF ValidateConfig
  <2>2. \A s \in DOMAIN p \cap timedStages :
          Malformed \notin {resolveDuration(p[s].time), resolveCount(p[s].count)}
    BY <1>2 DEF ValidateConfig
  <2>3. \A s \in DOMAIN p \cap timedStages :
          /\ resolveDuration(p[s].time) = Meant(p[s].time, DefaultTime)
          /\ resolveCount(p[s].count) = IF p[s].count = 0 THEN DefaultCount ELSE p[s].count
    BY <2>2 DEF resolveDuration, resolveCount, Meant
  <2>4. \A s \in DOMAIN p \cap {"threshold"} : p[s].enabled => p[s].path # Omitted
    BY <1>2 DEF ValidateConfig
  <2>5. {s \in DOMAIN p \cap listStages : p[s].entries # "none"} = DOMAIN p \cap listStages
    BY <2>1
  <2>6. {s \in DOMAIN p \cap {"threshold"} : p[s].enabled /\ p[s].path # Omitted}
          = {s \in DOMAIN p \cap {"threshold"} : p[s].enabled}
    BY <2>4
  <2>7. {<<s, resolveDuration(p[s].time), resolveCount(p[s].count)>> :
           s \in {s \in DOMAIN p \cap timedStages : p[s].enabled}}
        = {<<s, Meant(p[s].time, DefaultTime), IF p[s].count = 0 THEN DefaultCount ELSE p[s].count>> :
             s \in {s \in DOMAIN p \cap timedStages : p[s].enabled}}
    BY <2>3
  <2>8. ~BuildFails(p)
    BY <2>2 DEF BuildFails
  <2>9. buildFromConfig(p) = MeantChain(p)
    BY <1>2, <2>5, <2>6, <2>7 DEF buildFromConfig, MeantChain
  <2>10. QED
    BY <2>8, <2>9
<1>3. QED
  BY <1>1, <1>2

\* What a valid document listens on and what it claims are two names of one port.
LEMMA PortsOfValid ==
  ASSUME NEW d, DocumentOK(d), validateStreamConfig(d), NEW cfg, cfg = sourceFromConfig(d)
  PROVE  /\ d.kind \notin pushKinds => ListenPort(cfg) = Omitted /\ connectorPort(cfg) = Omitted
         /\ d.kind \in pushKinds =>
              /\ ListenPort(cfg) \in PortNumbers
              /\ connectorPort(cfg) = Itoa[ListenPort(cfg)] /\ connectorPort(cfg) # Omitted
<1>1. cfg.kind = d.kind /\ DocumentOK(cfg) /\ validateStreamConfig(cfg)
  BY Constructed, FilledIsValid
<1>2. CASE d.kind \notin pushKinds
  BY <1>1, <1>2 DEF ListenPort, connectorPort
<1>3. CASE d.kind \in pushKinds
  <2>1. DEFINE b == SourceBlock(cfg)
  <2>2. BlockOK(SourceBlock(d)) /\ b = Fill(SourceBlock(d), d.kind)
    BY SourceBlockFilled
  <2>3. Fill(b, d.kind) = b /\ BlockOK(b)
    BY <2>2, FillTwice, FillShape
  <2>4. b.port \in DOMAIN Atoi /\ Atoi[b.port] \in PortNumbers
    <3>1. CASE d.kind \in DOMAIN cfg.blocks
      <4>1. validatePort(b.port)
        BY <1>1, <1>3, <3>1 DEF validateStreamConfig, validateConnector, SourceBlock
      <4>2. b.port # Omitted
        <5>1. b.port = IF SourceBlock(d).port = Omitted THEN Defaults(d.kind).port
                       ELSE SourceBlock(d).port
          BY <2>2, FillShape
        <5>2. Defaults(d.kind).port \in {WebhookPort, GrpcPort}
          BY <1>3 DEF Defaults, NoBlock, pushKinds
        <5>3. QED
          BY <5>1, <5>2, Constants
      <4>3. QED
        BY <2>3, <4>1, <4>2 DEF validatePort, BlockOK
    <3>2. CASE d.kind \notin DOMAIN cfg.blocks
      <4>1. b = Defaults(d.kind)
        BY <1>1, <3>2 DEF SourceBlock
      <4>2. b.port \in {WebhookPort, GrpcPort}
        BY <1>3, <4>1 DEF Defaults, NoBlock, pushKinds
      <4>3. QED
        BY <4>2, Constants
    <3>3. QED
      BY <3>1, <3>2
  <2>5. Atoi[b.port] # Malformed
    BY <2>4, Constants
  <2>6. Itoa[Atoi[b.port]] \in DOMAIN Atoi
    BY <2>4, <2>5, ConfigAssumption
  <2>7. ListenPort(cfg) = Atoi[b.port]
    BY <1>1, <1>3 DEF ListenPort
  <2>8. connectorPort(cfg) = Itoa[Atoi[b.port]]
    BY <1>1, <1>3, <2>3, <2>5 DEF connectorPort, canonicalPort
  <2>9. QED
    BY <1>3, <2>4, <2>6, <2>7, <2>8, Constants
<1>4. QED
  BY <1>2, <1>3

\* A valid document is admitted, or refused for its id or its port's claim.
LEMMA VerdictOfValid ==
  ASSUME PortsOK, NEW i, NEW d, DocumentOK(d), validateStreamConfig(d),
         NEW cfg, cfg = sourceFromConfig(d)
  PROVE  /\ Verdict(i, cfg) \in {"exists", "conflict", "ok"}
         /\ Verdict(i, cfg) = "ok" => connectorPort(cfg) \notin DOMAIN claims
<1>1. cfg.kind = d.kind /\ cfg.pipeline = d.pipeline
  BY Constructed
<1>2. ~BuildFails(cfg.pipeline)
  BY <1>1, BuiltAsMeant DEF validateStreamConfig
<1>3. cfg.kind = "rest_poller" => ValidDuration(SourceBlock(cfg).interval)
  <2>1. SUFFICES ASSUME d.kind = "rest_poller" PROVE ValidDuration(SourceBlock(cfg).interval)
    BY <1>1
  <2>2. BlockOK(SourceBlock(d)) /\ SourceBlock(cfg) = Fill(SourceBlock(d), d.kind)
    BY SourceBlockFilled
  <2>3. SourceBlock(cfg).interval =
          IF SourceBlock(d).interval = Omitted THEN Defaults(d.kind).interval
          ELSE SourceBlock(d).interval
    BY <2>2, FillShape
  <2>4. Defaults(d.kind).interval = DefaultPoll
    BY <2>1 DEF Defaults, NoBlock
  <2>5. d.kind \in DOMAIN d.blocks => validatePollInterval(SourceBlock(d).interval)
    BY <2>1 DEF validateStreamConfig, validateConnector, SourceBlock
  <2>6. d.kind \notin DOMAIN d.blocks => SourceBlock(d).interval = DefaultPoll
    BY <2>4 DEF SourceBlock
  <2>7. SourceBlock(d).interval \in Durations
    BY <2>2 DEF BlockOK
  <2>8. QED
    BY <2>3, <2>4, <2>5, <2>6, <2>7, Constants DEF validatePollInterval, ValidDuration, Durations
<1>4. connectorPort(cfg) \notin DOMAIN claims => ListenPort(cfg) \notin DOMAIN bound \cup {Malformed}
  BY PortsOfValid, Constants DEF PortsOK
<1>5. QED
  BY <1>2, <1>3, <1>4 DEF Verdict

---------------------------------------------------------------------------
(* Every step keeps the invariant.                                         *)

\* The parts of the invariant a request for stream i can disturb, when i runs the
\* document d from now on.
LEMMA InstallKeeps ==
  ASSUME IndInv, NEW i \in Ids, NEW d, DocumentOK(d), validateStreamConfig(d),
         NEW cfg, cfg = sourceFromConfig(d), Verdict(i, cfg) = "ok", Install(i, cfg),
         ShapeOK', written' = [written EXCEPT ![i] = d]
  PROVE  RunningOK' /\ FailedOK' /\ PortsOK'
<1>1. /\ status' = [status EXCEPT ![i] = "running"] /\ configs' = [configs EXCEPT ![i] = cfg]
      /\ chain' = [chain EXCEPT ![i] = buildFromConfig(cfg.pipeline)]
      /\ policy' = [policy EXCEPT ![i] = restartPolicyFor(cfg.kind, cfg.restart)]
      /\ claims' = With(claims, connectorPort(cfg), i)
      /\ bound' = With(bound, ListenPort(cfg), i)
  BY DEF Install
<1>2. /\ status = [j \in Ids |-> status[j]] /\ written = [j \in Ids |-> written[j]]
      /\ configs = [j \in Ids |-> configs[j]] /\ chain = [j \in Ids |-> chain[j]]
      /\ policy = [j \in Ids |-> policy[j]]
  BY DEF IndInv, ShapeOK
<1>3. cfg.kind = d.kind /\ cfg.pipeline = d.pipeline /\ cfg.restart = d.restart
  BY Constructed
<1>4. /\ status'[i] = "running" /\ written'[i] = d /\ configs'[i] = cfg
      /\ chain'[i] = buildFromConfig(d.pipeline)
      /\ policy'[i] = restartPolicyFor(d.kind, d.restart)
  BY <1>1, <1>2, <1>3
<1>5. \A j \in Ids \ {i} :
        /\ status'[j] = status[j] /\ written'[j] = written[j] /\ configs'[j] = configs[j]
        /\ chain'[j] = chain[j] /\ policy'[j] = policy[j]
  BY <1>1, <1>2
<1>6. RunningOK'
  BY <1>4, <1>5, Zenon DEF IndInv, RunningOK
<1>7. FailedOK'
  <2>1. SUFFICES ASSUME NEW j \in Ids, status'[j] = "failed", validateStreamConfig(written'[j])
                 PROVE  validateStreamConfig(configs'[j])
    BY Zenon DEF FailedOK
  <2>2. j # i
    BY <1>4, <2>1
  <2>3. QED
    BY <1>5, <2>1, <2>2, Zenon DEF IndInv, FailedOK
<1>8. PortsOK'
  <2>1. connectorPort(cfg) \notin DOMAIN claims
    BY VerdictOfValid DEF IndInv
  <2>2. CASE d.kind \notin pushKinds
    <3>1. claims' = claims /\ bound' = bound
      BY <1>1, <2>2, PortsOfValid DEF With
    <3>2. QED
      BY <3>1 DEF IndInv, PortsOK
  <2>3. CASE d.kind \in pushKinds
    <3>1. /\ ListenPort(cfg) \in PortNumbers /\ connectorPort(cfg) # Omitted
          /\ connectorPort(cfg) = Itoa[ListenPort(cfg)]
      BY <2>3, PortsOfValid
    <3>2. ListenPort(cfg) # Omitted
      BY <3>1, Constants
    <3>3. /\ bound' = [q \in DOMAIN bound \cup {ListenPort(cfg)} |->
                         IF q = ListenPort(cfg) THEN i ELSE bound[q]]
          /\ claims' = [q \in DOMAIN claims \cup {connectorPort(cfg)} |->
                          IF q = connectorPort(cfg) THEN i ELSE claims[q]]
      BY <1>1, <3>1, <3>2 DEF With
    <3>4. QED
      BY <2>1, <3>1, <3>2, <3>3 DEF IndInv, PortsOK
  <2>4. QED
    BY <2>2, <2>3
<1>9. QED
  BY <1>6, <1>7, <1>8

\* The same when Restore keeps stream i without running it.
LEMMA AdmitFailedKeeps ==
  ASSUME IndInv, NEW i \in Ids, NEW cfg, AdmitFailed(i, cfg), written' = written,
         validateStreamConfig(written[i]) => validateStreamConfig(cfg)
  PROVE  RunningOK' /\ FailedOK' /\ PortsOK'
<1>1. /\ status' = [status EXCEPT ![i] = "failed"] /\ configs' = [configs EXCEPT ![i] = cfg]
      /\ chain' = chain /\ policy' = policy /\ bound' = bound
      /\ claims' = IF connectorPort(cfg) \in DOMAIN claims THEN claims
                   ELSE With(claims, connectorPort(cfg), i)
  BY DEF AdmitFailed
<1>2. status = [j \in Ids |-> status[j]] /\ configs = [j \in Ids |-> configs[j]]
  BY DEF IndInv, ShapeOK
<1>3. status'[i] = "failed" /\ configs'[i] = cfg
  BY <1>1, <1>2
<1>4. \A j \in Ids \ {i} : status'[j] = status[j] /\ configs'[j] = configs[j]
  BY <1>1, <1>2
<1>5. RunningOK'
  <2>1. SUFFICES ASSUME NEW j \in Ids, status'[j] = "running"
                 PROVE  /\ DocumentOK(written[j]) /\ validateStreamConfig(written[j])
                        /\ configs'[j] = sourceFromConfig(written[j])
                        /\ chain[j] = buildFromConfig(written[j].pipeline)
                        /\ policy[j] = restartPolicyFor(written[j].kind, written[j].restart)
    BY <1>1, Zenon DEF RunningOK
  <2>2. j # i
    BY <1>3, <2>1
  <2>3. QED
    BY <1>4, <2>1, <2>2, Zenon DEF IndInv, RunningOK
<1>6. FailedOK'
  BY <1>3, <1>4, Zenon DEF IndInv, FailedOK
<1>7. PortsOK'
  <2>1. \A q \in DOMAIN claims : q \in DOMAIN claims' /\ claims'[q] = claims[q]
    BY <1>1 DEF With
  <2>2. QED
    BY <1>1, <2>1, Zenon DEF IndInv, PortsOK
<1>8. QED
  BY <1>5, <1>6, <1>7

\* Before anything is restored the bucket is what it is.
LEMMA InitInd == Init => IndInv
<1>1. SUFFICES ASSUME Init PROVE IndInv
  OBVIOUS
<1>2. ShapeOK
  BY <1>1 DEF Init, ShapeOK
<1>3. StoreOK
  <2>1. \A d \in Legacy : DocumentOK(d)
    BY ConfigAssumption, Zenon
  <2>2. \A i \in Ids : store[i] \in Legacy \cup {Omitted} /\ written[i] = store[i]
    BY <1>1 DEF Init
  <2>3. QED
    BY <2>1, <2>2 DEF StoreOK
<1>4. RunningOK /\ FailedOK
  <2>1. \A i \in Ids : status[i] = "none"
    BY <1>1 DEF Init
  <2>2. QED
    BY <2>1 DEF RunningOK, FailedOK
<1>5. PortsOK /\ AnswerOK
  <2>1. DOMAIN bound = {}
    BY <1>1 DEF Init
  <2>2. QED
    BY <1>1, <2>1 DEF Init, PortsOK, AnswerOK
<1>6. QED
  BY <1>2, <1>3, <1>4, <1>5 DEF IndInv

\* Another process starts with the bucket and nothing else.
LEMMA RestartInd == ASSUME IndInv, Restart PROVE IndInv'
<1>1. ShapeOK'
  BY DEF IndInv, ShapeOK, Restart
<1>2. StoreOK'
  BY DEF IndInv, StoreOK, Restart
<1>3. RunningOK' /\ FailedOK'
  <2>1. \A i \in Ids : status'[i] = "none"
    BY DEF Restart
  <2>2. QED
    BY <2>1 DEF RunningOK, FailedOK
<1>4. PortsOK' /\ AnswerOK'
  <2>1. DOMAIN bound' = {} /\ answer' = "none"
    BY DEF Restart
  <2>2. QED
    BY <2>1 DEF PortsOK, AnswerOK
<1>5. QED
  BY <1>1, <1>2, <1>3, <1>4 DEF IndInv

\* A document read back is the one that was written, up to the defaults it has by
\* now: it is valid if that one was, and it makes the same source.
LEMMA ReadBack ==
  ASSUME IndInv, NEW i \in Ids, store[i] # Omitted
  PROVE  /\ DocumentOK(written[i])
         /\ validateStreamConfig(written[i]) => validateStreamConfig(store[i])
         /\ sourceFromConfig(store[i]) = sourceFromConfig(written[i])
<1>1. /\ DocumentOK(written[i])
      /\ \/ store[i] = written[i]
         \/ validateStreamConfig(written[i]) /\ store[i] = sourceFromConfig(written[i])
  BY Zenon DEF IndInv, StoreOK
<1>2. validateStreamConfig(written[i]) => validateStreamConfig(store[i])
  BY <1>1, FilledIsValid, Zenon
<1>3. sourceFromConfig(store[i]) = sourceFromConfig(written[i])
  BY <1>1, ConstructedTwice, Zenon
<1>4. QED
  BY <1>1, <1>2, <1>3

\* Restore runs what it can and keeps the rest.
LEMMA RestoreInd == ASSUME IndInv, RestoreNext PROVE IndInv'
<1>1. PICK i \in pending :
        /\ pending' = pending \ {i}
        /\ IF validateStreamConfig(store[i])
           THEN /\ answer' = Verdict(i, sourceFromConfig(store[i]))
                /\ IF answer' = "ok" THEN Install(i, sourceFromConfig(store[i]))
                   ELSE AdmitFailed(i, sourceFromConfig(store[i]))
           ELSE /\ answer' = "invalid"
                /\ AdmitFailed(i, store[i])
  BY Zenon DEF RestoreNext
<1>2. store' = store /\ written' = written /\ shown' = shown
  BY Zenon DEF RestoreNext
<1>3. i \in Ids /\ store[i] # Omitted
  BY DEF IndInv, ShapeOK
<1>4. /\ DocumentOK(written[i])
      /\ validateStreamConfig(written[i]) => validateStreamConfig(store[i])
      /\ sourceFromConfig(store[i]) = sourceFromConfig(written[i])
  BY <1>3, ReadBack
<1>5. PICK cfg : cfg = sourceFromConfig(store[i])
  OBVIOUS
<1>6. ShapeOK'
  <2>1. \/ Install(i, cfg) \/ AdmitFailed(i, cfg) \/ AdmitFailed(i, store[i])
    BY <1>1, <1>5
  <2>2. /\ configs' = [configs EXCEPT ![i] = configs'[i]]
        /\ status' = [status EXCEPT ![i] = status'[i]]
        /\ chain' = [chain EXCEPT ![i] = chain'[i]] /\ policy' = [policy EXCEPT ![i] = policy'[i]]
    BY <1>3, <2>1 DEF Install, AdmitFailed, IndInv, ShapeOK
  <2>3. QED
    BY <1>1, <1>2, <2>2 DEF IndInv, ShapeOK
<1>7. StoreOK'
  BY <1>2 DEF IndInv, StoreOK
<1>8. validateStreamConfig(store[i]) => validateStreamConfig(cfg)
  <2>1. DocumentOK(store[i])
    BY <1>3, <1>4, Constructed, Zenon DEF IndInv, StoreOK
  <2>2. QED
    BY <1>5, <2>1, FilledIsValid, Zenon
<1>9. CASE ~validateStreamConfig(store[i])
  <2>1. AdmitFailed(i, store[i]) /\ answer' = "invalid"
    BY <1>1, <1>9
  <2>2. AnswerOK'
    BY <2>1 DEF AnswerOK
  <2>3. QED
    BY <1>2, <1>3, <1>4, <1>6, <1>7, <2>1, <2>2, AdmitFailedKeeps DEF IndInv
<1>10. CASE validateStreamConfig(store[i])
  <2>1. DocumentOK(store[i])
    BY <1>3, <1>4, Constructed, Zenon DEF IndInv, StoreOK
  <2>2. answer' = Verdict(i, cfg) /\ Verdict(i, cfg) \in {"exists", "conflict", "ok"}
    BY <1>1, <1>5, <1>10, <2>1, VerdictOfValid DEF IndInv
  <2>3. AnswerOK'
    BY <2>2 DEF AnswerOK
  <2>4. CASE answer' = "ok" /\ validateStreamConfig(written[i])
    <3>1. Install(i, cfg) /\ Verdict(i, cfg) = "ok" /\ cfg = sourceFromConfig(written[i])
      BY <1>1, <1>4, <1>5, <1>10, <2>2, <2>4
    <3>2. written' = [written EXCEPT ![i] = written[i]]
      BY <1>2, <1>3 DEF IndInv, ShapeOK
    <3>3. RunningOK' /\ FailedOK' /\ PortsOK'
      BY <1>3, <1>4, <1>6, <2>4, <3>1, <3>2, InstallKeeps
    <3>4. QED
      BY <1>6, <1>7, <2>3, <3>3 DEF IndInv
  <2>5. CASE answer' = "ok" /\ ~validateStreamConfig(written[i])
    BY <1>3, <1>10, <2>5, Zenon DEF IndInv, StoreOK
  <2>6. CASE answer' # "ok"
    <3>1. AdmitFailed(i, cfg)
      BY <1>1, <1>5, <1>10, <2>6
    <3>2. RunningOK' /\ FailedOK' /\ PortsOK'
      BY <1>2, <1>3, <1>8, <1>10, <3>1, AdmitFailedKeeps
    <3>3. QED
      BY <1>6, <1>7, <2>3, <3>2 DEF IndInv
  <2>7. QED
    BY <2>4, <2>5, <2>6
<1>11. QED
  BY <1>9, <1>10

\* DELETE takes the claims and the listeners of one stream.
LEMMA DeleteInd == ASSUME IndInv, NEW i \in Ids, Delete(i) PROVE IndInv'
<1>1. ShapeOK'
  BY DEF IndInv, ShapeOK, Delete, Serving
<1>2. \A j \in Ids :
        IF j = i THEN store'[j] = Omitted /\ status'[j] = "none"
        ELSE /\ store'[j] = store[j] /\ status'[j] = status[j] /\ written'[j] = written[j]
             /\ configs'[j] = configs[j] /\ chain'[j] = chain[j] /\ policy'[j] = policy[j]
  BY DEF IndInv, ShapeOK, Delete
<1>3. StoreOK'
  BY <1>2, Zenon DEF IndInv, StoreOK
<1>4. RunningOK'
  <2>1. SUFFICES ASSUME NEW j \in Ids, status'[j] = "running"
                 PROVE  /\ DocumentOK(written'[j]) /\ validateStreamConfig(written'[j])
                        /\ configs'[j] = sourceFromConfig(written'[j])
                        /\ chain'[j] = buildFromConfig(written'[j].pipeline)
                        /\ policy'[j] = restartPolicyFor(written'[j].kind, written'[j].restart)
    BY Zenon DEF RunningOK
  <2>2. j # i
    BY <1>2, <2>1
  <2>3. QED
    BY <1>2, <2>1, <2>2, Zenon DEF IndInv, RunningOK
<1>5. FailedOK'
  <2>1. SUFFICES ASSUME NEW j \in Ids, status'[j] = "failed", validateStreamConfig(written'[j])
                 PROVE  validateStreamConfig(configs'[j])
    BY Zenon DEF FailedOK
  <2>2. j # i
    BY <1>2, <2>1
  <2>3. QED
    BY <1>2, <2>1, <2>2, Zenon DEF IndInv, FailedOK
<1>6. PortsOK'
  BY DEF IndInv, PortsOK, Delete
<1>7. AnswerOK'
  BY DEF IndInv, AnswerOK, Delete
<1>8. QED
  BY <1>1, <1>3, <1>4, <1>5, <1>6, <1>7 DEF IndInv

\* A description changes nothing.
LEMMA DescribeInd == ASSUME IndInv, NEW i \in Ids, Describe(i) PROVE IndInv'
<1>1. /\ UNCHANGED <<store, configs, status, chain, policy, claims, bound>>
      /\ UNCHANGED <<pending, answer, written>>
  BY DEF Describe
<1>2. QED
  BY <1>1 DEF IndInv, ShapeOK, StoreOK, RunningOK, FailedOK, PortsOK, AnswerOK

\* A POST that is refused changes nothing; one that is not installs the document.
LEMMA PostInd == ASSUME IndInv, NEW i \in Ids, NEW doc \in Documents, Post(i, doc) PROVE IndInv'
<1>1. pending' = pending /\ pending = {}
  BY DEF Post, Serving
<1>2. CASE /\ UNCHANGED <<store, configs, status, chain, policy, claims, bound, written>>
           /\ AnswerOK'
  <2>1. ShapeOK' /\ StoreOK' /\ RunningOK'
    BY <1>1, <1>2 DEF IndInv, ShapeOK, StoreOK, RunningOK
  <2>2. FailedOK' /\ PortsOK'
    BY <1>2 DEF IndInv, FailedOK, PortsOK
  <2>3. QED
    BY <1>2, <2>1, <2>2 DEF IndInv
<1>3. CASE ~Decodes(doc) \/ ~validateStreamConfig(doc)
  <2>1. /\ UNCHANGED <<store, configs, status, chain, policy, claims, bound, written>>
        /\ answer' = "invalid"
    BY <1>3, Zenon DEF Post
  <2>2. AnswerOK'
    BY <2>1 DEF AnswerOK
  <2>3. QED
    BY <1>2, <2>1, <2>2
<1>4. CASE Decodes(doc) /\ validateStreamConfig(doc)
  <2>1. DocumentOK(doc)
    BY <1>4, ConfigAssumption, Zenon DEF Decodes
  <2>2. PICK cfg : cfg = sourceFromConfig(doc)
    OBVIOUS
  <2>3. \/ /\ Verdict(i, cfg) = "ok"
           /\ answer' = "ok"
           /\ store' = [store EXCEPT ![i] = Stored(cfg)]
           /\ written' = [written EXCEPT ![i] = doc]
           /\ Install(i, cfg)
        \/ /\ answer' = IF Verdict(i, cfg) = "ok" THEN "persist" ELSE Verdict(i, cfg)
           /\ UNCHANGED <<store, configs, status, chain, policy, claims, bound, written>>
    BY <1>4, <2>2, Zenon DEF Post
  <2>4. Verdict(i, cfg) \in {"exists", "conflict", "ok"}
    BY <1>4, <2>1, <2>2, VerdictOfValid DEF IndInv
  <2>5. AnswerOK'
    BY <2>3, <2>4 DEF AnswerOK
  <2>6. CASE /\ Verdict(i, cfg) = "ok"
             /\ store' = [store EXCEPT ![i] = Stored(cfg)]
             /\ written' = [written EXCEPT ![i] = doc]
             /\ Install(i, cfg)
    <3>1. Stored(cfg) = cfg
      BY <2>1, <2>2, Constructed, StoredUnchanged
    <3>2. ShapeOK'
      BY <1>1, <2>6 DEF Install, IndInv, ShapeOK
    <3>3. RunningOK' /\ FailedOK' /\ PortsOK'
      BY <1>4, <2>1, <2>2, <2>6, <3>2, InstallKeeps
    <3>4. /\ store'[i] = cfg /\ written'[i] = doc
          /\ \A j \in Ids \ {i} : store'[j] = store[j] /\ written'[j] = written[j]
      BY <2>6, <3>1 DEF IndInv, ShapeOK
    <3>5. StoreOK'
      BY <1>4, <2>1, <2>2, <3>4, Zenon DEF IndInv, StoreOK
    <3>6. QED
      BY <2>5, <3>2, <3>3, <3>5 DEF IndInv
  <2>7. QED
    BY <1>2, <2>3, <2>5, <2>6
<1>5. QED
  BY <1>3, <1>4

\* A PUT writes the pipeline into the filled document.
LEMMA PutInd == ASSUME IndInv, NEW i \in Ids, NEW p \in Pipelines, Put(i, p) PROVE IndInv'
<1>1. /\ status[i] = "running" /\ ValidateConfig(p)
      /\ store' = [store EXCEPT ![i] = Stored([configs[i] EXCEPT !.pipeline = p])]
      /\ configs' = [configs EXCEPT ![i] = [configs[i] EXCEPT !.pipeline = p]]
      /\ chain' = [chain EXCEPT ![i] = buildFromConfig(p)]
      /\ written' = [written EXCEPT ![i] = [written[i] EXCEPT !.pipeline = p]]
      /\ UNCHANGED <<status, policy, claims, bound, pending, answer, shown>>
      /\ pending = {}
  BY DEF Put, Serving
<1>2. PICK d : d = written[i]
  OBVIOUS
<1>3. PICK e : e = [d EXCEPT !.pipeline = p]
  OBVIOUS
<1>4. /\ DocumentOK(d) /\ validateStreamConfig(d) /\ configs[i] = sourceFromConfig(d)
      /\ policy[i] = restartPolicyFor(d.kind, d.restart)
  BY <1>1, <1>2, Zenon DEF IndInv, RunningOK
<1>5. DocumentOK(e) /\ sourceFromConfig(e) = [configs[i] EXCEPT !.pipeline = p]
  BY <1>3, <1>4, OtherPipeline
<1>6. validateStreamConfig(e)
  BY <1>1, <1>3, <1>4, OtherPipeline
<1>7. Stored(sourceFromConfig(e)) = sourceFromConfig(e)
  BY <1>5, Constructed, StoredUnchanged
<1>8. e.kind = d.kind /\ e.restart = d.restart /\ e.pipeline = p
  BY <1>3, <1>4 DEF DocumentOK
<1>9. /\ store'[i] = sourceFromConfig(e) /\ written'[i] = e /\ configs'[i] = sourceFromConfig(e)
      /\ chain'[i] = buildFromConfig(e.pipeline)
      /\ status'[i] = "running" /\ policy'[i] = restartPolicyFor(e.kind, e.restart)
  BY <1>1, <1>2, <1>3, <1>4, <1>5, <1>7, <1>8 DEF IndInv, ShapeOK
<1>10. \A j \in Ids \ {i} :
         /\ store'[j] = store[j] /\ written'[j] = written[j] /\ configs'[j] = configs[j]
         /\ chain'[j] = chain[j] /\ status'[j] = status[j] /\ policy'[j] = policy[j]
  BY <1>1 DEF IndInv, ShapeOK
<1>11. ShapeOK'
  BY <1>1 DEF IndInv, ShapeOK
<1>12. StoreOK'
  BY <1>5, <1>6, <1>9, <1>10, Zenon DEF IndInv, StoreOK
<1>13. RunningOK'
  BY <1>5, <1>6, <1>9, <1>10, Zenon DEF IndInv, RunningOK
<1>14. FailedOK'
  <2>1. SUFFICES ASSUME NEW j \in Ids, status'[j] = "failed", validateStreamConfig(written'[j])
                 PROVE  validateStreamConfig(configs'[j])
    BY Zenon DEF FailedOK
  <2>2. j # i
    BY <1>9, <2>1
  <2>3. QED
    BY <1>10, <2>1, <2>2, Zenon DEF IndInv, FailedOK
<1>15. PortsOK' /\ AnswerOK'
  BY <1>1 DEF IndInv, PortsOK, AnswerOK
<1>16. QED
  BY <1>11, <1>12, <1>13, <1>14, <1>15 DEF IndInv

\* Every step keeps the invariant.
LEMMA NextInd == IndInv /\ [Next]_vars => IndInv'
<1>1. SUFFICES ASSUME IndInv, [Next]_vars PROVE IndInv'
  OBVIOUS
<1>2. CASE UNCHANGED vars
  <2>1. ShapeOK' /\ StoreOK' /\ RunningOK'
    BY <1>1, <1>2 DEF vars, IndInv, ShapeOK, StoreOK, RunningOK
  <2>2. FailedOK' /\ PortsOK' /\ AnswerOK'
    BY <1>1, <1>2 DEF vars, IndInv, FailedOK, PortsOK, AnswerOK
  <2>3. QED
    BY <2>1, <2>2 DEF IndInv
<1>3. CASE Next
  BY <1>1, <1>3, RestartInd, RestoreInd, DeleteInd, DescribeInd, PostInd, PutInd, Zenon DEF Next
<1>4. QED
  BY <1>1, <1>2, <1>3

---------------------------------------------------------------------------
(* The theorems.                                                           *)

\* In every reachable state, what is in force for a stream is known to the client,
\* to the bucket and to the source alike, up to the defaults the constructor adds.
THEOREM Inductive == Spec => []IndInv
<1>1. QED
  BY InitInd, NextInd, PTL DEF Spec

\* A running stream has the block, the stages and the restart policy its operator was
\* last told are in force, each omitted value at its default: no POST, PUT,
\* description, store or restart in between changes what it means.
THEOREM Honoured == Spec => []HonouredAsWritten
<1>1. IndInv => HonouredAsWritten
  <2>1. SUFFICES ASSUME IndInv, NEW i \in Ids, status[i] = "running"
                 PROVE  /\ SourceBlock(configs[i]) =
                             [f \in DOMAIN SourceBlock(written[i]) |->
                                Meant(SourceBlock(written[i])[f], Defaults(written[i].kind)[f])]
                        /\ chain[i] = MeantChain(written[i].pipeline)
                        /\ policy[i] = restartPolicyFor(written[i].kind, written[i].restart)
    BY Zenon DEF HonouredAsWritten, Running
  <2>2. /\ DocumentOK(written[i]) /\ validateStreamConfig(written[i])
        /\ configs[i] = sourceFromConfig(written[i])
        /\ chain[i] = buildFromConfig(written[i].pipeline)
        /\ policy[i] = restartPolicyFor(written[i].kind, written[i].restart)
    BY <2>1, Zenon DEF IndInv, RunningOK
  <2>3. SourceBlock(configs[i]) = Fill(SourceBlock(written[i]), written[i].kind)
    BY <2>2, SourceBlockFilled
  <2>4. chain[i] = MeantChain(written[i].pipeline)
    BY <2>2, BuiltAsMeant DEF validateStreamConfig
  <2>5. QED
    BY <2>2, <2>3, <2>4, Zenon DEF Fill, Meant
<1>2. QED
  BY <1>1, Inductive, PTL

\* Nothing runs that the validator refuses, and a document it accepted is still
\* accepted by the process that reads it back from the bucket.
THEOREM ValidRuns == Spec => []RunsWhatIsValid
<1>1. IndInv => RunsWhatIsValid
  BY Zenon DEF IndInv, RunningOK, FailedOK, RunsWhatIsValid
<1>2. QED
  BY <1>1, Inductive, PTL

\* No admission fails at the bind, the open or the build after it passed the checks
\* before them, and each listener's canonical port is claimed by its own stream,
\* whatever spellings, defaults and leftovers of older versions meet.
THEOREM ConflictNamed == Spec => []ConflictIsNamed
<1>1. IndInv => ConflictIsNamed
  BY DEF IndInv, PortsOK, AnswerOK, ConflictIsNamed
<1>2. QED
  BY <1>1, Inductive, PTL

\* What redactConfig leaves of the block a source reads.
LEMMA RedactedBlock ==
  ASSUME NEW d, DocumentOK(d), NEW cfg, cfg = sourceFromConfig(d), NEW told, NEW real,
         told = SourceBlock(redactConfig(cfg)), real = SourceBlock(cfg)
  PROVE  /\ told.secret = (IF real.secret = Omitted THEN Omitted ELSE Redacted)
         /\ [told EXCEPT !.secret = real.secret] = real
         /\ redactConfig(cfg).pipeline = cfg.pipeline
<1>1. DocumentOK(cfg)
  BY Constructed
<1>2. PICK r : r = redactConfig(cfg)
  OBVIOUS
<1>3. /\ r.kind = cfg.kind /\ r.pipeline = cfg.pipeline /\ DOMAIN r.blocks = DOMAIN cfg.blocks
      /\ \A k \in DOMAIN cfg.blocks : r.blocks[k] =
           IF cfg.blocks[k].secret = Omitted THEN cfg.blocks[k]
           ELSE [cfg.blocks[k] EXCEPT !.secret = Redacted]
  BY <1>1, <1>2 DEF redactConfig, DocumentOK
<1>4. BlockOK(real)
  BY <1>1, SourceBlockFilled
<1>5. CASE cfg.kind \in DOMAIN cfg.blocks
  <2>1. real = cfg.blocks[cfg.kind] /\ told = r.blocks[cfg.kind]
    BY <1>2, <1>3, <1>5 DEF SourceBlock
  <2>2. told = IF real.secret = Omitted THEN real ELSE [real EXCEPT !.secret = Redacted]
    BY <1>3, <1>5, <2>1
  <2>3. QED
    BY <1>2, <1>3, <1>4, <2>2 DEF BlockOK
<1>6. CASE cfg.kind \notin DOMAIN cfg.blocks
  <2>1. told = real /\ real = Defaults(cfg.kind)
    BY <1>2, <1>3, <1>6 DEF SourceBlock
  <2>2. real.secret = Omitted
    BY <2>1, DefaultsShape
  <2>3. QED
    BY <1>2, <1>3, <1>4, <2>1, <2>2 DEF BlockOK
<1>7. QED
  BY <1>5, <1>6

\* A description of a running stream withholds its secret, says that there is one,
\* and is otherwise the configuration that was written with its defaults and the
\* chain that runs.
THEOREM Described == Spec => DescribedAsRun
<1>1. ASSUME IndInv, NEW i \in Ids, status[i] = "running", Describe(i)
      PROVE  /\ SourceBlock(shown'.config).secret =
                  (IF SourceBlock(configs[i]).secret = Omitted THEN Omitted ELSE Redacted)
             /\ [SourceBlock(shown'.config) EXCEPT !.secret = SourceBlock(configs[i]).secret]
                  = Fill(SourceBlock(written[i]), written[i].kind)
             /\ buildFromConfig(shown'.config.pipeline) = chain[i]
  <2>1. shown'.config = redactConfig(configs[i])
    BY <1>1 DEF Describe
  <2>2. /\ DocumentOK(written[i]) /\ configs[i] = sourceFromConfig(written[i])
        /\ chain[i] = buildFromConfig(written[i].pipeline)
    BY <1>1, Zenon DEF IndInv, RunningOK
  <2>3. configs[i].pipeline = written[i].pipeline
    BY <2>2, Constructed
  <2>4. SourceBlock(configs[i]) = Fill(SourceBlock(written[i]), written[i].kind)
    BY <2>2, SourceBlockFilled
  <2>5. PICK told : told = SourceBlock(redactConfig(configs[i]))
    OBVIOUS
  <2>6. PICK real : real = SourceBlock(configs[i])
    OBVIOUS
  <2>7. /\ told.secret = (IF real.secret = Omitted THEN Omitted ELSE Redacted)
        /\ [told EXCEPT !.secret = real.secret] = real
        /\ redactConfig(configs[i]).pipeline = configs[i].pipeline
    BY <2>2, <2>5, <2>6, RedactedBlock
  <2>8. QED
    BY <2>1, <2>2, <2>3, <2>4, <2>5, <2>6, <2>7, Zenon
<1>2. IndInv /\ [Next]_vars =>
        [\A i \in Running : Describe(i) =>
           LET told == SourceBlock(shown'.config)
               real == SourceBlock(configs[i])
           IN  /\ told.secret = (IF real.secret = Omitted THEN Omitted ELSE Redacted)
               /\ [told EXCEPT !.secret = real.secret] = Fill(SourceBlock(written[i]), written[i].kind)
               /\ buildFromConfig(shown'.config.pipeline) = chain[i]]_vars
  BY <1>1, Zenon DEF Running
<1>3. QED
  BY <1>2, Inductive, PTL DEF Spec, DescribedAsRun
============================================================================
