------------------------- MODULE Generation_proofs -------------------------
(***************************************************************************)
(* Proofs about module Generation, for any sets of events, generations and *)
(* requests and any batch size: the retirement handshake loses nothing and *)
(* implements module Handover.                                             *)
(***************************************************************************)
EXTENDS Generation, TLAPS

---------------------------------------------------------------------------
(* Sequences as the buffers use them.                                      *)

NoRepeat(s) == \A i, j \in DOMAIN s : s[i] = s[j] => i = j

\* Appending an event to a buffer or a batch (the channel send, append).
LEMMA AppendFacts ==
  ASSUME NEW S, NEW s \in Seq(S), NEW e \in S
  PROVE  /\ Append(s, e) \in Seq(S)
         /\ Len(Append(s, e)) = Len(s) + 1
         /\ Range(Append(s, e)) = Range(s) \cup {e}
         /\ NoRepeat(s) /\ e \notin Range(s) => NoRepeat(Append(s, e))
<1>1. /\ Append(s, e) \in Seq(S)
      /\ Len(Append(s, e)) = Len(s) + 1
      /\ Len(s) \in Nat
      /\ DOMAIN s = 1..Len(s)
      /\ DOMAIN Append(s, e) = 1..(Len(s) + 1)
      /\ Append(s, e)[Len(s) + 1] = e
      /\ \A i \in 1..Len(s) : Append(s, e)[i] = s[i]
  OBVIOUS
<1>2. Range(Append(s, e)) = Range(s) \cup {e}
  BY <1>1 DEF Range
<1>3. ASSUME NoRepeat(s), e \notin Range(s)
      PROVE  NoRepeat(Append(s, e))
  BY <1>1, <1>3 DEF Range, NoRepeat
<1>4. QED
  BY <1>1, <1>2, <1>3

\* Receiving from a channel that is not empty.
LEMMA TailFacts ==
  ASSUME NEW S, NEW s \in Seq(S), s # <<>>
  PROVE  /\ Head(s) \in S
         /\ Tail(s) \in Seq(S)
         /\ Len(Tail(s)) = Len(s) - 1
         /\ Len(s) > 0
         /\ Range(s) = Range(Tail(s)) \cup {Head(s)}
         /\ NoRepeat(s) => NoRepeat(Tail(s)) /\ Head(s) \notin Range(Tail(s))
<1>1. /\ Head(s) \in S
      /\ Tail(s) \in Seq(S)
      /\ Len(Tail(s)) = Len(s) - 1
      /\ Len(s) \in Nat
      /\ Len(s) > 0
      /\ Head(s) = s[1]
      /\ DOMAIN s = 1..Len(s)
      /\ DOMAIN Tail(s) = 1..(Len(s) - 1)
      /\ \A i \in 1..(Len(s) - 1) : Tail(s)[i] = s[i + 1]
  OBVIOUS
<1>2. Range(s) \subseteq Range(Tail(s)) \cup {Head(s)}
  <2>1. SUFFICES ASSUME NEW i \in 1..Len(s)
                 PROVE  s[i] \in Range(Tail(s)) \cup {Head(s)}
    BY <1>1 DEF Range
  <2>2. CASE i = 1
    BY <2>2, <1>1
  <2>3. CASE i # 1
    <3>1. i - 1 \in 1..(Len(s) - 1) /\ Tail(s)[i - 1] = s[i]
      BY <2>3, <1>1
    <3>2. QED
      BY <3>1, <1>1 DEF Range
  <2>4. QED
    BY <2>2, <2>3
<1>3. Range(Tail(s)) \cup {Head(s)} \subseteq Range(s)
  BY <1>1 DEF Range
<1>4. ASSUME NoRepeat(s)
      PROVE  NoRepeat(Tail(s)) /\ Head(s) \notin Range(Tail(s))
  BY <1>1, <1>4 DEF Range, NoRepeat
<1>5. QED
  BY <1>1, <1>2, <1>3, <1>4

\* A fresh channel and a reset batch.
LEMMA EmptyFacts ==
  ASSUME NEW S
  PROVE  /\ <<>> \in Seq(S)
         /\ Len(<<>>) = 0
         /\ Range(<<>>) = {}
         /\ NoRepeat(<<>>)
  BY DEF Range, NoRepeat

---------------------------------------------------------------------------
(* The inductive invariant.                                                *)

BeforeAnswer == {"new", "loaded", "entered", "select", "forward"}
Owning == RetireSteps \cup {"built", "returned"}

\* How far the retirement of a generation has got, as its owner, its flags and
\* its worker see it.
HandshakeInv ==
  /\ sealed \subseteq cancelled
  /\ ref \in built
  /\ \A c \in Callers :
       /\ cpc[c] \in Owning => cgen[c] \in built
       /\ cpc[c] \in {"announce", "lock", "unlock", "wait", "returned"}
            => cgen[c] \in cancelled
       /\ cpc[c] \in {"unlock", "wait", "returned"} => cgen[c] \in sealed
       /\ cpc[c] = "returned" => wpc[cgen[c]] \in {"absent", "exited"}
  /\ \A g \in Gens :
       /\ g \in built \cap Batching <=> wpc[g] # "absent"
       /\ wpc[g] \in {"drain", "exited"} => g \in sealed
       /\ wpc[g] \in {"absent", "exited"} => buf[g] = <<>> /\ batch[g] = <<>>

\* A Publish call: what it may have done, by where it stands.  The second line
\* is the heart of the handshake: no call waits at the send of a sealed
\* generation, because sealing waits for the calls inside.
CallInv ==
  \A e \in Events :
    /\ ppc[e] # "new" => pgen[e] \in built
    /\ ppc[e] = "select" => pgen[e] \in Batching \ sealed
    /\ ppc[e] \in BeforeAnswer <=> result[e] = "none"
    /\ result[e] \in {"none", "err"} =>
         published[e] = 0 /\ e \notin accepted /\ e \notin discarded
    /\ result[e] = "nil" => e \in accepted \/ published[e] = 1
    /\ published[e] \in {0, 1}
    /\ e \in discarded => published[e] = 0

\* Where an accepted event is: in its generation's channel or batch, in one
\* place, until it is published or its batch dropped.
HeldInv ==
  /\ \A g \in Gens :
       /\ \A e \in Range(buf[g]) \cup Range(batch[g]) :
            e \in accepted /\ pgen[e] = g /\ published[e] = 0 /\ e \notin discarded
       /\ Range(buf[g]) \cap Range(batch[g]) = {}
       /\ NoRepeat(buf[g])
       /\ NoRepeat(batch[g])
  /\ \A e \in accepted :
       \/ published[e] = 1
       \/ e \in discarded
       \/ e \in Range(buf[pgen[e]]) \cup Range(batch[pgen[e]])

\* Who owns which generation.
OwnerInv ==
  /\ \A c, d \in Callers :
       cpc[c] \in Owning /\ cpc[d] \in Owning /\ cgen[c] = cgen[d] => c = d
  /\ \A c \in Callers :
       /\ cpc[c] = "built" => cop[c] = "update"
       /\ cpc[c] = "stopping" => cop[c] = "remove"
       /\ cpc[c] \in Owning \ {"built"} => cop[c] \in {"update", "remove"}
       /\ cpc[c] \in Owning /\ cop[c] = "update" => cgen[c] # ref
       /\ cpc[c] \in Owning /\ cop[c] = "remove" => cgen[c] = ref
       /\ cop[c] = "remove" => \/ cpc[c] \in RetireSteps \cup {"stopping"}
                               \/ cpc[c] = "returned" /\ ~installed
  /\ \A c, d \in Callers : cop[c] = "remove" /\ cop[d] = "remove" => c = d

IndInv == TypeOK /\ HandshakeInv /\ CallInv /\ HeldInv

USE GenerationAssumption

\* Register leaves one generation, empty and not cancelled.
LEMMA InitInd == Init => IndInv
<1>1. SUFFICES ASSUME Init PROVE IndInv
  OBVIOUS
<1>2. TypeOK
  <2>1. <<>> \in Seq(Events) /\ Len(<<>>) = 0
    BY EmptyFacts
  <2>2. installed \in BOOLEAN /\ over \in BOOLEAN
    BY <1>1 DEF Init
  <2>3. QED
    BY <1>1, <2>1, <2>2 DEF Init, TypeOK, InChain, RetireSteps
<1>3. HandshakeInv
  BY <1>1 DEF Init, HandshakeInv, Owning, RetireSteps
<1>4. CallInv
  BY <1>1 DEF Init, CallInv, BeforeAnswer
<1>5. HeldInv
  BY <1>1, EmptyFacts DEF Init, HeldInv
<1>6. QED
  BY <1>2, <1>3, <1>4, <1>5 DEF IndInv

\* A step of a Publish call keeps the invariant.
LEMMA PublishInd ==
  ASSUME IndInv, NEW e \in Events, PublishStep(e)
  PROVE  IndInv'
<1>1. CASE Load(e)
  <2>1. TypeOK'
    BY <1>1 DEF IndInv, Load, genVars, callVars, outVars, pubVars, TypeOK, InChain, RetireSteps
  <2>2. HandshakeInv'
    BY <1>1 DEF IndInv, Load, genVars, callVars, outVars, pubVars, TypeOK, HandshakeInv, Owning, RetireSteps
  <2>3. CallInv'
    BY <1>1 DEF IndInv, Load, genVars, callVars, outVars, pubVars, TypeOK, CallInv, HandshakeInv, HeldInv, BeforeAnswer, InChain
  <2>4. HeldInv'
    <3>1. e \notin accepted
      BY <1>1 DEF IndInv, Load, CallInv, BeforeAnswer
    <3>2. \A x \in accepted : pgen'[x] = pgen[x]
      BY <1>1, <3>1 DEF IndInv, Load, TypeOK
    <3>3. QED
      BY <1>1, <3>1, <3>2 DEF IndInv, Load, genVars, callVars, outVars, pubVars, TypeOK, HeldInv, CallInv, HandshakeInv, BeforeAnswer
  <2>5. QED
    BY <2>1, <2>2, <2>3, <2>4 DEF IndInv
<1>2. CASE RLock(e)
  <2>1. TypeOK'
    BY <1>2 DEF IndInv, RLock, genVars, callVars, outVars, pubVars, TypeOK, InChain, RetireSteps
  <2>2. HandshakeInv'
    BY <1>2 DEF IndInv, RLock, genVars, callVars, outVars, pubVars, TypeOK, HandshakeInv, Owning, RetireSteps
  <2>3. CallInv'
    BY <1>2 DEF IndInv, RLock, genVars, callVars, outVars, pubVars, TypeOK, CallInv, HandshakeInv, HeldInv, BeforeAnswer, InChain
  <2>4. HeldInv'
    BY <1>2 DEF IndInv, RLock, genVars, callVars, outVars, pubVars, TypeOK, HeldInv, CallInv, HandshakeInv, BeforeAnswer
  <2>5. QED
    BY <2>1, <2>2, <2>3, <2>4 DEF IndInv
<1>3. CASE Dispatch(e)
  <2>1. TypeOK'
    BY <1>3 DEF IndInv, Dispatch, genVars, callVars, outVars, pubVars, TypeOK, InChain, RetireSteps
  <2>2. HandshakeInv'
    BY <1>3 DEF IndInv, Dispatch, genVars, callVars, outVars, pubVars, TypeOK, HandshakeInv, Owning, RetireSteps
  <2>3. CallInv'
    BY <1>3 DEF IndInv, Dispatch, genVars, callVars, outVars, pubVars, TypeOK, CallInv, HandshakeInv, HeldInv, BeforeAnswer, InChain
  <2>4. HeldInv'
    BY <1>3 DEF IndInv, Dispatch, genVars, callVars, outVars, pubVars, TypeOK, HeldInv, CallInv, HandshakeInv, BeforeAnswer
  <2>5. QED
    BY <2>1, <2>2, <2>3, <2>4 DEF IndInv
<1>4. CASE Buffer(e)
  <2>1. TypeOK'
    <3>1. pgen[e] \in Gens /\ buf[pgen[e]] \in Seq(Events)
      BY <1>4 DEF IndInv, Buffer, TypeOK, CallInv
    <3>2. QED
      BY <1>4, <3>1, AppendFacts DEF IndInv, Buffer, genVars, callVars, outVars, pubVars, TypeOK, InChain, RetireSteps
  <2>2. HandshakeInv'
    <3>1. wpc[pgen[e]] \notin {"absent", "exited"}
      BY <1>4 DEF IndInv, Buffer, TypeOK, CallInv, HandshakeInv
    <3>2. QED
      BY <1>4, <3>1 DEF IndInv, Buffer, genVars, callVars, outVars, pubVars, TypeOK, HandshakeInv, Owning, RetireSteps
  <2>3. CallInv'
    BY <1>4 DEF IndInv, Buffer, genVars, callVars, outVars, pubVars, TypeOK, CallInv, HandshakeInv, HeldInv, BeforeAnswer, InChain
  <2>4. HeldInv'
    <3>1. pgen[e] \in Gens /\ buf[pgen[e]] \in Seq(Events)
      BY <1>4 DEF IndInv, Buffer, TypeOK, CallInv
    <3>2. e \notin accepted /\ published[e] = 0 /\ e \notin discarded
      BY <1>4 DEF IndInv, Buffer, CallInv, BeforeAnswer
    <3>3. /\ Range(buf'[pgen[e]]) = Range(buf[pgen[e]]) \cup {e}
          /\ NoRepeat(buf'[pgen[e]])
          /\ \A g \in Gens \ {pgen[e]} : buf'[g] = buf[g]
      BY <1>4, <3>1, <3>2, AppendFacts DEF IndInv, Buffer, TypeOK, HeldInv
    <3>4. /\ batch' = batch /\ pgen' = pgen /\ published' = published
          /\ discarded' = discarded /\ accepted' = accepted \cup {e}
      BY <1>4 DEF Buffer, outVars
    <3>5. e \notin Range(batch[pgen[e]])
      BY <3>1, <3>2 DEF IndInv, HeldInv
    <3>6. ASSUME NEW g \in Gens
          PROVE  /\ \A x \in Range(buf'[g]) \cup Range(batch'[g]) :
                      /\ x \in accepted' /\ pgen'[x] = g
                      /\ published'[x] = 0 /\ x \notin discarded'
                 /\ Range(buf'[g]) \cap Range(batch'[g]) = {}
                 /\ NoRepeat(buf'[g])
                 /\ NoRepeat(batch'[g])
      <4>1. CASE g = pgen[e]
        BY <3>1, <3>2, <3>3, <3>4, <3>5, <4>1 DEF IndInv, HeldInv
      <4>2. CASE g # pgen[e]
        BY <3>2, <3>3, <3>4, <4>2 DEF IndInv, HeldInv
      <4>3. QED
        BY <4>1, <4>2
    <3>7. ASSUME NEW x \in accepted'
          PROVE  \/ published'[x] = 1
                 \/ x \in discarded'
                 \/ x \in Range(buf'[pgen'[x]]) \cup Range(batch'[pgen'[x]])
      <4>1. CASE x = e
        BY <3>1, <3>3, <3>4, <4>1
      <4>2. CASE x # e
        <5>1. x \in accepted /\ pgen[x] \in Gens
          BY <3>4, <3>7, <4>2 DEF IndInv, TypeOK, CallInv, HandshakeInv, BeforeAnswer
        <5>2. Range(buf[pgen[x]]) \subseteq Range(buf'[pgen[x]])
          BY <3>1, <3>3, <5>1
        <5>3. QED
          BY <3>4, <5>1, <5>2 DEF IndInv, HeldInv
      <4>3. QED
        BY <4>1, <4>2
    <3>8. QED
      BY <3>6, <3>7 DEF HeldInv
  <2>5. QED
    BY <2>1, <2>2, <2>3, <2>4 DEF IndInv
<1>5. CASE Release(e)
  <2>1. TypeOK'
    BY <1>5 DEF IndInv, Release, genVars, callVars, outVars, pubVars, TypeOK, InChain, RetireSteps
  <2>2. HandshakeInv'
    BY <1>5 DEF IndInv, Release, genVars, callVars, outVars, pubVars, TypeOK, HandshakeInv, Owning, RetireSteps
  <2>3. CallInv'
    BY <1>5 DEF IndInv, Release, genVars, callVars, outVars, pubVars, TypeOK, CallInv, HandshakeInv, HeldInv, BeforeAnswer, InChain
  <2>4. HeldInv'
    BY <1>5 DEF IndInv, Release, genVars, callVars, outVars, pubVars, TypeOK, HeldInv, CallInv, HandshakeInv, BeforeAnswer
  <2>5. QED
    BY <2>1, <2>2, <2>3, <2>4 DEF IndInv
<1>6. CASE Forward(e)
  <2>1. TypeOK'
    <3>1. published' \in [Events -> Nat]
      <4>1. published \in [Events -> Nat] /\ published[e] + 1 \in Nat
        BY DEF IndInv, TypeOK
      <4>2. QED
        BY <1>6, <4>1 DEF Forward
    <3>2. QED
      BY <1>6, <3>1 DEF IndInv, Forward, genVars, callVars, outVars, pubVars, TypeOK, InChain, RetireSteps
  <2>2. HandshakeInv'
    BY <1>6 DEF IndInv, Forward, genVars, callVars, outVars, pubVars, TypeOK, HandshakeInv, Owning, RetireSteps
  <2>3. CallInv'
    BY <1>6 DEF IndInv, Forward, genVars, callVars, outVars, pubVars, TypeOK, CallInv, HandshakeInv, HeldInv, BeforeAnswer, InChain
  <2>4. HeldInv'
    <3>1. e \notin accepted
      BY <1>6 DEF IndInv, Forward, CallInv, BeforeAnswer
    <3>2. \A x \in accepted : published'[x] = published[x]
      BY <1>6, <3>1 DEF IndInv, Forward, TypeOK
    <3>3. QED
      BY <1>6, <3>1, <3>2 DEF IndInv, Forward, genVars, callVars, outVars, pubVars, TypeOK, HeldInv, CallInv, HandshakeInv, BeforeAnswer
  <2>5. QED
    BY <2>1, <2>2, <2>3, <2>4 DEF IndInv
<1>7. CASE RUnlock(e)
  <2>1. TypeOK'
    BY <1>7 DEF IndInv, RUnlock, genVars, callVars, outVars, pubVars, TypeOK, InChain, RetireSteps
  <2>2. HandshakeInv'
    BY <1>7 DEF IndInv, RUnlock, genVars, callVars, outVars, pubVars, TypeOK, HandshakeInv, Owning, RetireSteps
  <2>3. CallInv'
    BY <1>7 DEF IndInv, RUnlock, genVars, callVars, outVars, pubVars, TypeOK, CallInv, HandshakeInv, HeldInv, BeforeAnswer, InChain
  <2>4. HeldInv'
    BY <1>7 DEF IndInv, RUnlock, genVars, callVars, outVars, pubVars, TypeOK, HeldInv, CallInv, HandshakeInv, BeforeAnswer
  <2>5. QED
    BY <2>1, <2>2, <2>3, <2>4 DEF IndInv
<1>8. QED
  BY <1>1, <1>2, <1>3, <1>4, <1>5, <1>6, <1>7 DEF PublishStep

\* A step of a management request keeps the invariant.
LEMMA CallerInd ==
  ASSUME IndInv, NEW c \in Callers, CallerStep(c)
  PROVE  IndInv'
<1>1. CASE Build(c)
  <2>1. TypeOK'
    BY <1>1 DEF IndInv, Build, genVars, callVars, outVars, pubVars, TypeOK, InChain, RetireSteps
  <2>2. HandshakeInv'
    BY <1>1 DEF IndInv, Build, genVars, callVars, outVars, pubVars, TypeOK, HandshakeInv, Owning, RetireSteps
  <2>3. CallInv'
    BY <1>1 DEF IndInv, Build, genVars, callVars, outVars, pubVars, TypeOK, CallInv, HandshakeInv, HeldInv, BeforeAnswer, InChain
  <2>4. HeldInv'
    BY <1>1 DEF IndInv, Build, genVars, callVars, outVars, pubVars, TypeOK, HeldInv, CallInv, HandshakeInv, BeforeAnswer
  <2>5. QED
    BY <2>1, <2>2, <2>3, <2>4 DEF IndInv
<1>2. CASE Swap(c)
  <2>1. TypeOK'
    BY <1>2 DEF HandshakeInv, Owning, IndInv, Swap, genVars, callVars, outVars, pubVars, TypeOK, InChain, RetireSteps
  <2>2. HandshakeInv'
    BY <1>2 DEF IndInv, Swap, genVars, callVars, outVars, pubVars, TypeOK, HandshakeInv, Owning, RetireSteps
  <2>3. CallInv'
    BY <1>2 DEF IndInv, Swap, genVars, callVars, outVars, pubVars, TypeOK, CallInv, HandshakeInv, HeldInv, BeforeAnswer, InChain
  <2>4. HeldInv'
    BY <1>2 DEF IndInv, Swap, genVars, callVars, outVars, pubVars, TypeOK, HeldInv, CallInv, HandshakeInv, BeforeAnswer
  <2>5. QED
    BY <2>1, <2>2, <2>3, <2>4 DEF IndInv
<1>3. CASE Abandon(c)
  <2>1. TypeOK'
    BY <1>3 DEF IndInv, Abandon, genVars, callVars, outVars, pubVars, TypeOK, InChain, RetireSteps
  <2>2. HandshakeInv'
    BY <1>3 DEF IndInv, Abandon, genVars, callVars, outVars, pubVars, TypeOK, HandshakeInv, Owning, RetireSteps
  <2>3. CallInv'
    BY <1>3 DEF IndInv, Abandon, genVars, callVars, outVars, pubVars, TypeOK, CallInv, HandshakeInv, HeldInv, BeforeAnswer, InChain
  <2>4. HeldInv'
    BY <1>3 DEF IndInv, Abandon, genVars, callVars, outVars, pubVars, TypeOK, HeldInv, CallInv, HandshakeInv, BeforeAnswer
  <2>5. QED
    BY <2>1, <2>2, <2>3, <2>4 DEF IndInv
<1>4. CASE Remove(c)
  <2>1. TypeOK'
    BY <1>4 DEF IndInv, Remove, genVars, callVars, outVars, pubVars, TypeOK, InChain, RetireSteps
  <2>2. HandshakeInv'
    BY <1>4 DEF IndInv, Remove, genVars, callVars, outVars, pubVars, TypeOK, HandshakeInv, Owning, RetireSteps
  <2>3. CallInv'
    BY <1>4 DEF IndInv, Remove, genVars, callVars, outVars, pubVars, TypeOK, CallInv, HandshakeInv, HeldInv, BeforeAnswer, InChain
  <2>4. HeldInv'
    BY <1>4 DEF IndInv, Remove, genVars, callVars, outVars, pubVars, TypeOK, HeldInv, CallInv, HandshakeInv, BeforeAnswer
  <2>5. QED
    BY <2>1, <2>2, <2>3, <2>4 DEF IndInv
<1>5. CASE SessionOver(c)
  <2>1. TypeOK'
    BY <1>5 DEF IndInv, SessionOver, genVars, callVars, outVars, pubVars, TypeOK, InChain, RetireSteps
  <2>2. HandshakeInv'
    BY <1>5 DEF IndInv, SessionOver, genVars, callVars, outVars, pubVars, TypeOK, HandshakeInv, Owning, RetireSteps
  <2>3. CallInv'
    BY <1>5 DEF IndInv, SessionOver, genVars, callVars, outVars, pubVars, TypeOK, CallInv, HandshakeInv, HeldInv, BeforeAnswer, InChain
  <2>4. HeldInv'
    BY <1>5 DEF IndInv, SessionOver, genVars, callVars, outVars, pubVars, TypeOK, HeldInv, CallInv, HandshakeInv, BeforeAnswer
  <2>5. QED
    BY <2>1, <2>2, <2>3, <2>4 DEF IndInv
<1>6. CASE Cancel(c)
  <2>1. TypeOK'
    BY <1>6 DEF HandshakeInv, Owning, IndInv, Cancel, genVars, callVars, outVars, pubVars, TypeOK, InChain, RetireSteps
  <2>2. HandshakeInv'
    BY <1>6 DEF IndInv, Cancel, genVars, callVars, outVars, pubVars, TypeOK, HandshakeInv, Owning, RetireSteps
  <2>3. CallInv'
    BY <1>6 DEF IndInv, Cancel, genVars, callVars, outVars, pubVars, TypeOK, CallInv, HandshakeInv, HeldInv, BeforeAnswer, InChain
  <2>4. HeldInv'
    BY <1>6 DEF IndInv, Cancel, genVars, callVars, outVars, pubVars, TypeOK, HeldInv, CallInv, HandshakeInv, BeforeAnswer
  <2>5. QED
    BY <2>1, <2>2, <2>3, <2>4 DEF IndInv
<1>7. CASE Announce(c)
  <2>1. TypeOK'
    BY <1>7 DEF IndInv, Announce, genVars, callVars, outVars, pubVars, TypeOK, InChain, RetireSteps
  <2>2. HandshakeInv'
    BY <1>7 DEF IndInv, Announce, genVars, callVars, outVars, pubVars, TypeOK, HandshakeInv, Owning, RetireSteps
  <2>3. CallInv'
    BY <1>7 DEF IndInv, Announce, genVars, callVars, outVars, pubVars, TypeOK, CallInv, HandshakeInv, HeldInv, BeforeAnswer, InChain
  <2>4. HeldInv'
    BY <1>7 DEF IndInv, Announce, genVars, callVars, outVars, pubVars, TypeOK, HeldInv, CallInv, HandshakeInv, BeforeAnswer
  <2>5. QED
    BY <2>1, <2>2, <2>3, <2>4 DEF IndInv
<1>8. CASE Seal(c)
  <2>1. TypeOK'
    BY <1>8 DEF HandshakeInv, Owning, IndInv, Seal, genVars, callVars, outVars, pubVars, TypeOK, InChain, RetireSteps
  <2>2. HandshakeInv'
    BY <1>8 DEF IndInv, Seal, genVars, callVars, outVars, pubVars, TypeOK, HandshakeInv, Owning, RetireSteps
  <2>3. CallInv'
    BY <1>8 DEF Readers, IndInv, Seal, genVars, callVars, outVars, pubVars, TypeOK, CallInv, HandshakeInv, HeldInv, BeforeAnswer, InChain
  <2>4. HeldInv'
    BY <1>8 DEF IndInv, Seal, genVars, callVars, outVars, pubVars, TypeOK, HeldInv, CallInv, HandshakeInv, BeforeAnswer
  <2>5. QED
    BY <2>1, <2>2, <2>3, <2>4 DEF IndInv
<1>9. CASE Unlock(c)
  <2>1. TypeOK'
    BY <1>9 DEF IndInv, Unlock, genVars, callVars, outVars, pubVars, TypeOK, InChain, RetireSteps
  <2>2. HandshakeInv'
    BY <1>9 DEF IndInv, Unlock, genVars, callVars, outVars, pubVars, TypeOK, HandshakeInv, Owning, RetireSteps
  <2>3. CallInv'
    BY <1>9 DEF IndInv, Unlock, genVars, callVars, outVars, pubVars, TypeOK, CallInv, HandshakeInv, HeldInv, BeforeAnswer, InChain
  <2>4. HeldInv'
    BY <1>9 DEF IndInv, Unlock, genVars, callVars, outVars, pubVars, TypeOK, HeldInv, CallInv, HandshakeInv, BeforeAnswer
  <2>5. QED
    BY <2>1, <2>2, <2>3, <2>4 DEF IndInv
<1>10. CASE Return(c)
  <2>1. TypeOK'
    BY <1>10 DEF IndInv, Return, genVars, callVars, outVars, pubVars, TypeOK, InChain, RetireSteps
  <2>2. HandshakeInv'
    BY <1>10 DEF IndInv, Return, genVars, callVars, outVars, pubVars, TypeOK, HandshakeInv, Owning, RetireSteps
  <2>3. CallInv'
    BY <1>10 DEF IndInv, Return, genVars, callVars, outVars, pubVars, TypeOK, CallInv, HandshakeInv, HeldInv, BeforeAnswer, InChain
  <2>4. HeldInv'
    BY <1>10 DEF IndInv, Return, genVars, callVars, outVars, pubVars, TypeOK, HeldInv, CallInv, HandshakeInv, BeforeAnswer
  <2>5. QED
    BY <2>1, <2>2, <2>3, <2>4 DEF IndInv
<1>11. QED
  BY <1>1, <1>2, <1>3, <1>4, <1>5, <1>6, <1>7, <1>8, <1>9, <1>10 DEF CallerStep, RetireStep

\* Publishing or dropping a batch b made of events g holds, and forgetting it.
\* rest is what the channel holds afterwards.
LEMMA FlushInd ==
  ASSUME IndInv, NEW g \in Gens, NEW b \in Seq(Events), NEW rest \in Seq(Events),
         wpc[g] \in {"run", "drain"},
         Range(buf[g]) \cup Range(batch[g]) = Range(rest) \cup Range(b),
         Range(rest) \cap Range(b) = {},
         Len(rest) <= Len(buf[g]), NoRepeat(rest),
         wpc'[g] \in {"run", "drain"} \/ (g \in sealed /\ wpc'[g] = "exited" /\ rest = <<>>),
         wpc' = [wpc EXCEPT ![g] = wpc'[g]],
         FlushOf(b),
         buf' = [buf EXCEPT ![g] = rest],
         batch' = [batch EXCEPT ![g] = <<>>],
         wpc'[g] # "exited" => wpc'[g] = wpc[g],
         UNCHANGED <<ref, installed, over, accepted, built, cancelled, sealed,
                     ppc, pgen, result, cop, cpc, cgen>>
  PROVE  IndInv'
<1> DEFINE held == Range(buf[g]) \cup Range(batch[g])
<1>1. /\ Range(b) \subseteq held
      /\ Range(b) \subseteq accepted
      /\ \A e \in Range(b) : e \in Events /\ published[e] = 0 /\ e \notin discarded
                             /\ pgen[e] = g /\ result[e] = "nil"
  BY DEF IndInv, HeldInv, CallInv, TypeOK
<1>2. /\ discarded \subseteq discarded' /\ discarded' \subseteq discarded \cup Range(b)
      /\ published' \in [Events -> Nat]
      /\ \A e \in Events \ Range(b) : published'[e] = published[e]
      /\ \A e \in Range(b) : \/ published'[e] = 1 /\ e \notin discarded'
                             \/ published'[e] = 0 /\ e \in discarded'
  <2>1. published \in [Events -> Nat]
    BY DEF IndInv, TypeOK
  <2>2. CASE /\ published' = [e \in Events |-> IF e \in Range(b) THEN published[e] + 1
                                                               ELSE published[e]]
             /\ discarded' = discarded
    <3>1. published' \in [Events -> Nat]
      BY <2>1, <2>2
    <3>2. QED
      BY <1>1, <2>1, <2>2, <3>1
  <2>3. CASE /\ discarded' = discarded \cup Range(b)
             /\ published' = published
    BY <1>1, <2>1, <2>3
  <2>4. QED
    BY <2>2, <2>3 DEF FlushOf
<1>3. TypeOK'
  <2>1. discarded' \in SUBSET Events
    BY <1>1, <1>2 DEF IndInv, TypeOK
  <2>2. /\ buf' \in [Gens -> Seq(Events)] /\ batch' \in [Gens -> Seq(Events)]
        /\ \A k \in Gens : Len(buf'[k]) <= MaxBatchSize[k] /\ Len(batch'[k]) < MaxBatchSize[k]
    <3>1. /\ <<>> \in Seq(Events) /\ Len(<<>>) = 0
          /\ Len(rest) \in Nat /\ Len(buf[g]) \in Nat /\ Len(buf[g]) <= MaxBatchSize[g]
      BY EmptyFacts DEF IndInv, TypeOK
    <3>2. QED
      BY <3>1 DEF IndInv, TypeOK
  <2>3. wpc' \in [Gens -> {"absent", "run", "await", "drain", "exited"}]
    <3>1. wpc \in [Gens -> {"absent", "run", "await", "drain", "exited"}]
      BY DEF IndInv, TypeOK
    <3>2. wpc'[g] \in {"run", "drain", "exited"}
      OBVIOUS
    <3>3. QED
      BY <3>1, <3>2
  <2>4. QED
    BY <1>2, <2>1, <2>2, <2>3 DEF IndInv, TypeOK
<1>4. HandshakeInv'
  <2>1. \A k \in Gens \ {g} : wpc'[k] = wpc[k] /\ buf'[k] = buf[k] /\ batch'[k] = batch[k]
    BY DEF IndInv, TypeOK
  <2>2. \A c \in Callers : cpc[c] = "returned" => cgen[c] \in Gens \ {g}
    BY DEF IndInv, TypeOK, HandshakeInv, Owning
  <2>3. buf'[g] = rest /\ batch'[g] = <<>>
    BY DEF IndInv, TypeOK
  <2>4. ASSUME NEW c \in Callers
        PROVE  cpc'[c] = "returned" => wpc'[cgen'[c]] \in {"absent", "exited"}
    BY <2>1, <2>2 DEF IndInv, HandshakeInv
  <2>5. ASSUME NEW k \in Gens
        PROVE  /\ k \in built' \cap Batching <=> wpc'[k] # "absent"
               /\ wpc'[k] \in {"drain", "exited"} => k \in sealed'
               /\ wpc'[k] \in {"absent", "exited"} => buf'[k] = <<>> /\ batch'[k] = <<>>
    BY <2>1, <2>3 DEF IndInv, HandshakeInv
  <2>6. QED
    BY <2>4, <2>5 DEF IndInv, HandshakeInv
<1>5. CallInv'
  <2>1. SUFFICES ASSUME NEW e \in Events PROVE CallInv!(e)'
    BY DEF CallInv
  <2>2. QED
    BY <1>1, <1>2, <2>1 DEF IndInv, TypeOK, CallInv
<1>6. HeldInv'
  <2>1. /\ Range(batch'[g]) = {} /\ NoRepeat(batch'[g]) /\ buf'[g] = rest
        /\ \A k \in Gens \ {g} : buf'[k] = buf[k] /\ batch'[k] = batch[k]
    BY EmptyFacts DEF IndInv, TypeOK
  <2>2. \A k \in Gens \ {g} : (Range(buf[k]) \cup Range(batch[k])) \cap Range(b) = {}
    BY <1>1 DEF IndInv, HeldInv
  <2>3. ASSUME NEW k \in Gens
        PROVE  /\ \A e \in Range(buf'[k]) \cup Range(batch'[k]) :
                    e \in accepted' /\ pgen'[e] = k /\ published'[e] = 0 /\ e \notin discarded'
               /\ Range(buf'[k]) \cap Range(batch'[k]) = {}
               /\ NoRepeat(buf'[k])
               /\ NoRepeat(batch'[k])
    <3>1. CASE k = g
      BY <1>1, <1>2, <2>1, <3>1 DEF IndInv, TypeOK, HeldInv
    <3>2. CASE k # g
      <4>1. \A e \in Range(buf[k]) \cup Range(batch[k]) :
              e \in Events /\ published'[e] = published[e] /\ e \notin discarded'
        BY <1>2, <2>2, <3>2 DEF IndInv, TypeOK, HeldInv
      <4>2. buf'[k] = buf[k] /\ batch'[k] = batch[k]
        BY <2>1, <3>2
      <4>3. /\ \A e \in Range(buf[k]) \cup Range(batch[k]) :
                 e \in accepted /\ pgen[e] = k /\ published[e] = 0 /\ e \notin discarded
            /\ Range(buf[k]) \cap Range(batch[k]) = {}
            /\ NoRepeat(buf[k])
            /\ NoRepeat(batch[k])
        BY DEF IndInv, HeldInv
      <4>4. QED
        BY <4>1, <4>2, <4>3
    <3>3. QED
      BY <3>1, <3>2
  <2>4. ASSUME NEW e \in accepted'
        PROVE  \/ published'[e] = 1
               \/ e \in discarded'
               \/ e \in Range(buf'[pgen'[e]]) \cup Range(batch'[pgen'[e]])
    <3>1. e \in Events /\ e \in accepted
      BY <2>4 DEF IndInv, TypeOK
    <3>2. CASE e \in Range(b)
      BY <1>2, <3>2
    <3>3. CASE e \notin Range(b)
      <4>1. published'[e] = published[e]
        BY <1>2, <3>1, <3>3
      <4>2. \/ published[e] = 1
            \/ e \in discarded
            \/ e \in Range(buf[pgen[e]]) \cup Range(batch[pgen[e]])
        BY <3>1 DEF IndInv, HeldInv
      <4>3. ASSUME e \in Range(buf[pgen[e]]) \cup Range(batch[pgen[e]])
            PROVE  e \in Range(buf'[pgen[e]]) \cup Range(batch'[pgen[e]])
        <5>1. CASE pgen[e] = g
          BY <2>1, <3>3, <4>3, <5>1
        <5>2. CASE pgen[e] # g
          <6>1. pgen[e] \in Gens
            BY <3>1, <4>3 DEF IndInv, TypeOK, CallInv, HeldInv, HandshakeInv, BeforeAnswer
          <6>2. QED
            BY <2>1, <4>3, <5>2, <6>1
        <5>3. QED
          BY <5>1, <5>2
      <4>4. QED
        BY <1>2, <4>1, <4>2, <4>3
    <3>4. QED
      BY <3>2, <3>3
  <2>5. QED
    BY <2>3, <2>4 DEF HeldInv
<1>7. QED
  BY <1>3, <1>4, <1>5, <1>6 DEF IndInv

\* Taking the head of the channel, with the flush that follows when the batch
\* is full.
LEMMA TakeInd ==
  ASSUME IndInv, NEW g \in Gens, wpc[g] \in {"run", "drain"}, Take(g)
  PROVE  IndInv'
<1> DEFINE h == Head(buf[g])
           b == Append(batch[g], h)
<1>1. /\ buf[g] \in Seq(Events) /\ batch[g] \in Seq(Events)
      /\ NoRepeat(buf[g]) /\ NoRepeat(batch[g])
      /\ Range(buf[g]) \cap Range(batch[g]) = {}
      /\ buf[g] # <<>>
  BY DEF IndInv, TypeOK, HeldInv, Take
<1>2. /\ h \in Events
      /\ Tail(buf[g]) \in Seq(Events)
      /\ Len(Tail(buf[g])) <= Len(buf[g])
      /\ Range(buf[g]) = Range(Tail(buf[g])) \cup {h}
      /\ NoRepeat(Tail(buf[g]))
      /\ h \notin Range(Tail(buf[g]))
  <2>1. Len(buf[g]) \in Nat /\ Len(Tail(buf[g])) = Len(buf[g]) - 1
    BY <1>1, TailFacts
  <2>2. QED
    BY <1>1, <2>1, TailFacts
<1>3. /\ b \in Seq(Events)
      /\ Range(b) = Range(batch[g]) \cup {h}
      /\ NoRepeat(b)
      /\ Range(Tail(buf[g])) \cap Range(b) = {}
      /\ b # <<>>
  <2>1. h \notin Range(batch[g])
    BY <1>1, <1>2
  <2>2. /\ b \in Seq(Events) /\ Len(b) = Len(batch[g]) + 1 /\ NoRepeat(b)
        /\ Range(b) = Range(batch[g]) \cup {h}
    BY <1>1, <1>2, <2>1, AppendFacts
  <2>3. b # <<>>
    BY <1>1, <2>2, EmptyFacts
  <2>4. QED
    BY <1>1, <1>2, <2>2, <2>3
<1>4. /\ buf' = [buf EXCEPT ![g] = Tail(buf[g])]
      /\ UNCHANGED <<ref, installed, over, wpc, accepted, built, cancelled, sealed,
                     ppc, pgen, result, cop, cpc, cgen>>
  BY DEF Take, genVars, pubVars, callVars
<1>5. CASE /\ Len(b) >= MaxBatchSize[g]
           /\ FlushOf(b)
           /\ batch' = [batch EXCEPT ![g] = <<>>]
  <2>1. Range(buf[g]) \cup Range(batch[g]) = Range(Tail(buf[g])) \cup Range(b)
    BY <1>2, <1>3
  <2>2. wpc' = [wpc EXCEPT ![g] = wpc'[g]] /\ wpc'[g] = wpc[g] /\ wpc'[g] \in {"run", "drain"}
    BY <1>4 DEF IndInv, TypeOK
  <2>3. QED
    BY <1>2, <1>3, <1>4, <1>5, <2>1, <2>2, FlushInd
<1>6. CASE /\ Len(b) < MaxBatchSize[g]
           /\ batch' = [batch EXCEPT ![g] = b]
           /\ UNCHANGED outVars
  <2>1. TypeOK'
    <3>1. buf' \in [Gens -> Seq(Events)] /\ batch' \in [Gens -> Seq(Events)]
      BY <1>2, <1>3, <1>4, <1>6 DEF IndInv, TypeOK
    <3>2. \A k \in Gens : Len(buf'[k]) <= MaxBatchSize[k] /\ Len(batch'[k]) < MaxBatchSize[k]
      <4>1. Len(Tail(buf[g])) \in Nat /\ Len(buf[g]) \in Nat /\ Len(Tail(buf[g])) <= Len(buf[g])
        BY <1>1, <1>2
      <4>2. QED
        BY <1>4, <1>6, <4>1 DEF IndInv, TypeOK
    <3>3. QED
      BY <1>4, <1>6, <3>1, <3>2 DEF IndInv, TypeOK, outVars
  <2>2. HandshakeInv'
    BY <1>4, <1>6 DEF IndInv, TypeOK, HandshakeInv, outVars
  <2>3. CallInv'
    BY <1>4, <1>6 DEF IndInv, CallInv, outVars
  <2>4. HeldInv'
    <3>1. /\ buf'[g] = Tail(buf[g]) /\ batch'[g] = b
          /\ \A k \in Gens \ {g} : buf'[k] = buf[k] /\ batch'[k] = batch[k]
          /\ published' = published /\ discarded' = discarded
          /\ accepted' = accepted /\ pgen' = pgen
      BY <1>4, <1>6 DEF IndInv, TypeOK, outVars
    <3>2. Range(buf'[g]) \cup Range(batch'[g]) = Range(buf[g]) \cup Range(batch[g])
      BY <1>2, <1>3, <3>1
    <3>3. \A k \in Gens : /\ Range(buf'[k]) \cap Range(batch'[k]) = {}
                          /\ NoRepeat(buf'[k]) /\ NoRepeat(batch'[k])
      <4>1. ASSUME NEW k \in Gens \ {g}
            PROVE  /\ Range(buf'[k]) \cap Range(batch'[k]) = {}
                   /\ NoRepeat(buf'[k]) /\ NoRepeat(batch'[k])
        <5>1. buf'[k] = buf[k] /\ batch'[k] = batch[k]
          BY <3>1
        <5>2. /\ Range(buf[k]) \cap Range(batch[k]) = {}
              /\ NoRepeat(buf[k]) /\ NoRepeat(batch[k])
          BY DEF IndInv, HeldInv
        <5>3. QED
          BY <5>1, <5>2
      <4>2. QED
        BY <1>2, <1>3, <3>1, <4>1
    <3>4. \A k \in Gens : Range(buf'[k]) \cup Range(batch'[k])
                            = Range(buf[k]) \cup Range(batch[k])
      BY <3>1, <3>2
    <3>5. \A x \in accepted : pgen[x] \in Gens
      BY DEF IndInv, TypeOK, CallInv, HandshakeInv, BeforeAnswer
    <3>6. QED
      BY <3>1, <3>3, <3>4, <3>5 DEF IndInv, HeldInv
  <2>5. QED
    BY <2>1, <2>2, <2>3, <2>4 DEF IndInv
<1>7. QED
  BY <1>5, <1>6 DEF Take

\* A step of a batch worker keeps the invariant.
LEMMA WorkerInd ==
  ASSUME IndInv, NEW g \in Gens, WorkerStep(g)
  PROVE  IndInv'
<1>1. CASE Receive(g) \/ Drain(g)
  BY <1>1, TakeInd DEF Receive, Drain
<1>2. /\ buf[g] \in Seq(Events) /\ batch[g] \in Seq(Events)
      /\ Len(buf[g]) <= Len(buf[g])
      /\ Range(buf[g]) \cap Range(batch[g]) = {}
      /\ NoRepeat(buf[g])
      /\ buf = [buf EXCEPT ![g] = buf[g]]
  <2>1. buf[g] \in Seq(Events) /\ Len(buf[g]) \in Nat
    BY DEF IndInv, TypeOK
  <2>2. QED
    BY <2>1 DEF IndInv, TypeOK, HeldInv
<1>3. CASE Tick(g)
  <2>1. /\ wpc[g] = "run" /\ wpc' = wpc /\ buf' = buf
        /\ FlushOf(batch[g]) /\ batch' = [batch EXCEPT ![g] = <<>>]
        /\ UNCHANGED <<ref, installed, over, accepted, built, cancelled, sealed,
                       ppc, pgen, result, cop, cpc, cgen>>
    BY <1>3 DEF Tick, genVars, pubVars, callVars
  <2>2. wpc' = [wpc EXCEPT ![g] = wpc'[g]]
    BY <2>1 DEF IndInv, TypeOK
  <2>3. QED
    BY <1>2, <2>1, <2>2, FlushInd
<1>4. CASE DrainExit(g)
  <2>1. /\ wpc[g] = "drain" /\ wpc' = [wpc EXCEPT ![g] = "exited"]
        /\ buf[g] = <<>> /\ buf' = buf
        /\ FlushOf(batch[g]) /\ batch' = [batch EXCEPT ![g] = <<>>]
        /\ UNCHANGED <<ref, installed, over, accepted, built, cancelled, sealed,
                       ppc, pgen, result, cop, cpc, cgen>>
    BY <1>4 DEF DrainExit, genVars, pubVars, callVars
  <2>2. g \in sealed /\ wpc'[g] = "exited" /\ wpc' = [wpc EXCEPT ![g] = wpc'[g]]
    BY <2>1 DEF IndInv, TypeOK, HandshakeInv
  <2>3. QED
    BY <1>2, <2>1, <2>2, FlushInd
<1>5. CASE SeeDone(g)
  <2>1. TypeOK'
    BY <1>5 DEF IndInv, SeeDone, genVars, pubVars, callVars, outVars, TypeOK
  <2>2. HandshakeInv'
    BY <1>5 DEF IndInv, SeeDone, genVars, callVars, TypeOK, HandshakeInv, Owning, RetireSteps
  <2>3. CallInv' /\ HeldInv'
    BY <1>5 DEF IndInv, SeeDone, genVars, pubVars, outVars, CallInv, HeldInv
  <2>4. QED
    BY <2>1, <2>2, <2>3 DEF IndInv
<1>6. CASE SeeSealed(g)
  <2>1. TypeOK'
    BY <1>6 DEF IndInv, SeeSealed, genVars, pubVars, callVars, outVars, TypeOK
  <2>2. HandshakeInv'
    BY <1>6 DEF IndInv, SeeSealed, genVars, callVars, TypeOK, HandshakeInv, Owning, RetireSteps
  <2>3. CallInv' /\ HeldInv'
    BY <1>6 DEF IndInv, SeeSealed, genVars, pubVars, outVars, CallInv, HeldInv
  <2>4. QED
    BY <2>1, <2>2, <2>3 DEF IndInv
<1>7. QED
  BY <1>1, <1>3, <1>4, <1>5, <1>6 DEF WorkerStep

\* A step that changes nothing here keeps the invariant.
LEMMA StutterInd == IndInv /\ UNCHANGED vars => IndInv'
  BY DEF IndInv, TypeOK, HandshakeInv, CallInv, HeldInv, vars, Owning, RetireSteps, InChain, BeforeAnswer

\* Every step of publishers, workers and requests keeps the invariant.
LEMMA NextInd == IndInv /\ [Next]_vars => IndInv'
<1>1. SUFFICES ASSUME IndInv, [Next]_vars PROVE IndInv'
  OBVIOUS
<1>2. CASE UNCHANGED vars
  BY <1>1, <1>2, StutterInd
<1>3. CASE \E e \in Events : PublishStep(e)
  BY <1>1, <1>3, PublishInd
<1>4. CASE \E g \in Gens : WorkerStep(g)
  BY <1>1, <1>4, WorkerInd
<1>5. CASE \E c \in Callers : CallerStep(c)
  BY <1>1, <1>5, CallerInd
<1>6. CASE Rest
  BY <1>1, <1>6, StutterInd DEF Rest
<1>7. QED
  BY <1>1, <1>2, <1>3, <1>4, <1>5, <1>6 DEF Next

\* The inductive invariant holds in every reachable state of the generations.
THEOREM Inductive == Spec => []IndInv
  BY InitInd, NextInd, PTL DEF Spec

---------------------------------------------------------------------------
(* What the invariant gives.                                               *)

\* The variables keep their types, a channel its capacity and a batch its
\* bound (batch.go).
THEOREM TypeCorrect == Spec => []TypeOK
<1>1. IndInv => TypeOK
  BY DEF IndInv
<1>2. QED
  BY <1>1, Inductive, PTL

\* Generation.Retire returns only when every event the generation accepted has
\* been flushed.
THEOREM RetireLossless == Spec => []RetireIsLossless
<1>1. IndInv => RetireIsLossless
  <2>1. SUFFICES ASSUME IndInv, NEW e \in accepted, pgen[e] \in Retired
                 PROVE  published[e] = 1 \/ e \in discarded
    BY DEF RetireIsLossless
  <2>2. PICK c \in Callers : cgen[c] = pgen[e] /\ cpc[c] = "returned"
    BY <2>1 DEF Retired
  <2>3. pgen[e] \in Gens /\ buf[pgen[e]] = <<>> /\ batch[pgen[e]] = <<>>
    BY <2>1, <2>2 DEF IndInv, TypeOK, HandshakeInv, Retired
  <2>4. QED
    BY <2>1, <2>3, EmptyFacts DEF IndInv, HeldInv
<1>2. QED
  BY <1>1, Inductive, PTL

\* No interleaving of a swap with the two paths of the batch handler publishes
\* an event twice.
THEOREM AtMostOnce == Spec => []PublishedAtMostOnce
<1>1. IndInv => PublishedAtMostOnce
  <2>1. SUFFICES ASSUME IndInv PROVE PublishedAtMostOnce
    OBVIOUS
  <2>2. \A e \in Events : /\ published[e] <= 1
                          /\ result[e] = "err" \/ e \in discarded => published[e] = 0
    BY <2>1 DEF IndInv, CallInv
  <2>3. \A g \in Gens : NoRepeat(batch[g])
    BY <2>1 DEF IndInv, HeldInv
  <2>4. QED
    BY <2>2, <2>3 DEF PublishedAtMostOnce, NoRepeat
<1>2. QED
  BY <1>1, Inductive, PTL

\* An event whose Publish returned nil is published, dropped with a refused
\* batch, or in the hands of a worker that is still there to flush it.
THEOREM NoSilentLoss == Spec => []AcknowledgedIsHeld
<1>1. IndInv => AcknowledgedIsHeld
  <2>1. SUFFICES ASSUME IndInv, NEW e \in Events, result[e] = "nil",
                        published[e] # 1, e \notin discarded
                 PROVE  /\ e \in Range(buf[pgen[e]]) \cup Range(batch[pgen[e]])
                        /\ wpc[pgen[e]] \notin {"absent", "exited"}
    BY DEF AcknowledgedIsHeld
  <2>2. e \in Range(buf[pgen[e]]) \cup Range(batch[pgen[e]])
    BY <2>1 DEF IndInv, CallInv, HeldInv
  <2>3. pgen[e] \in Gens
    BY <2>1 DEF IndInv, TypeOK, CallInv, HandshakeInv, BeforeAnswer
  <2>4. ~(buf[pgen[e]] = <<>> /\ batch[pgen[e]] = <<>>)
    BY <2>2, EmptyFacts
  <2>5. QED
    BY <2>1, <2>2, <2>3, <2>4 DEF IndInv, HandshakeInv
<1>2. QED
  BY <1>1, Inductive, PTL

\* After sealing no publisher writes to the generation's channel.
THEOREM SealedQuiet == Spec => SealedOnlyDrains
<1>1. IndInv /\ [Next]_vars => \A g \in sealed : Len(buf'[g]) <= Len(buf[g])
  <2>1. SUFFICES ASSUME IndInv, [Next]_vars, NEW g \in sealed
                 PROVE  Len(buf'[g]) <= Len(buf[g])
    OBVIOUS
  <2>2. g \in Gens /\ buf[g] \in Seq(Events) /\ Len(buf[g]) \in Nat
    BY <2>1 DEF IndInv, TypeOK
  <2>3. CASE \E e \in Events : Buffer(e)
    BY <2>1, <2>2, <2>3 DEF Buffer, IndInv, TypeOK, CallInv
  <2>4. CASE \E k \in Gens : Take(k)
    <3>1. PICK k \in Gens : Take(k)
      BY <2>4
    <3>2. CASE k = g
      BY <2>2, <3>1, <3>2, TailFacts DEF Take, IndInv, TypeOK
    <3>3. CASE k # g
      BY <2>2, <3>1, <3>3 DEF Take, IndInv, TypeOK
    <3>4. QED
      BY <3>2, <3>3
  <2>5. CASE buf' = buf
    BY <2>2, <2>5
  <2>6. [Next]_vars => \/ \E e \in Events : Buffer(e)
                       \/ \E k \in Gens : Take(k)
                       \/ buf' = buf
    BY DEF Next, PublishStep, WorkerStep, CallerStep, RetireStep, Rest, vars, Load,
           RLock, Dispatch, Release, Forward, RUnlock, Receive, Tick, SeeDone,
           SeeSealed, Drain, DrainExit, Build, Swap, Abandon, Remove, SessionOver,
           Cancel, Announce, Seal, Unlock, Return
  <2>7. QED
    BY <2>1, <2>3, <2>4, <2>5, <2>6
<1>2. QED
  BY <1>1, Inductive, PTL DEF Spec, SealedOnlyDrains

---------------------------------------------------------------------------
(* Each generation has one owner.                                          *)

\* UpdatePipeline and Remove never hand the same generation to Retire.
THEOREM OneRetirer == Spec => []SoleRetirer
<1>1. Init => OwnerInv
  BY DEF Init, OwnerInv, Owning, RetireSteps
<1>2. IndInv /\ OwnerInv /\ [Next]_vars => OwnerInv'
  <2>1. SUFFICES ASSUME IndInv, OwnerInv, [Next]_vars
                 PROVE  OwnerInv'
    OBVIOUS
  <2>2. CASE UNCHANGED <<ref, installed, cop, cpc, cgen>>
    BY <2>1, <2>2 DEF OwnerInv
  <2>3. ASSUME NEW c \in Callers, CallerStep(c)
        PROVE  OwnerInv'
    <3>1. CASE Build(c)
      <4>1. PICK g \in Gens \ built : cgen' = [cgen EXCEPT ![c] = g]
        BY <3>1 DEF Build
      <4>2. QED
        BY <2>1, <3>1, <4>1 DEF Build, IndInv, TypeOK, HandshakeInv, OwnerInv, Owning, RetireSteps
    <3>2. CASE Swap(c)
      <4>1. \A d \in Callers : cop[d] # "remove"
        BY <2>1, <3>2 DEF Swap, MuFree, OwnerInv
      <4>2. QED
        BY <2>1, <3>2, <4>1 DEF Swap, IndInv, TypeOK, OwnerInv, Owning, RetireSteps
    <3>3. CASE Remove(c)
      <4>1. \A d \in Callers : cop[d] # "remove"
        BY <2>1, <3>3 DEF Remove, MuFree, OwnerInv
      <4>2. QED
        BY <2>1, <3>3, <4>1 DEF Remove, IndInv, TypeOK, OwnerInv, Owning, RetireSteps
    <3>4. CASE SessionOver(c)
      BY <2>1, <3>4 DEF SessionOver, IndInv, TypeOK, OwnerInv, Owning, RetireSteps
    <3>5. CASE Abandon(c) \/ Cancel(c) \/ Announce(c) \/ Seal(c) \/ Unlock(c)
      <4>1. /\ cpc[c] \in {"built", "cancel", "announce", "lock", "unlock"}
            /\ cpc'[c] \in RetireSteps
            /\ cpc' = [cpc EXCEPT ![c] = cpc'[c]]
            /\ UNCHANGED <<ref, installed, cop, cgen>>
        BY <2>1, <3>5 DEF Abandon, Cancel, Announce, Seal, Unlock, IndInv, TypeOK, RetireSteps
      <4>2. \A d \in Callers : /\ d # c => cpc'[d] = cpc[d]
                               /\ cpc'[d] \in Owning <=> cpc[d] \in Owning
                               /\ cpc'[d] = "built" => cpc[d] = "built"
                               /\ cpc'[d] = "stopping" => cpc[d] = "stopping"
        BY <2>1, <4>1 DEF IndInv, TypeOK, Owning, RetireSteps
      <4>3. \A d \in Callers : cop[d] = "remove" => \/ cpc'[d] \in RetireSteps \cup {"stopping"}
                                                    \/ cpc'[d] = "returned" /\ ~installed
        BY <2>1, <4>1, <4>2 DEF OwnerInv
      <4>4. cop[c] \in {"update", "remove"}
        BY <2>1, <4>1 DEF OwnerInv, Owning, RetireSteps
      <4>5. QED
        BY <2>1, <4>1, <4>2, <4>3, <4>4 DEF OwnerInv
    <3>6. CASE Return(c)
      <4>1. /\ installed' => installed
            /\ cop[c] = "remove" => ~installed'
        BY <3>6 DEF Return
      <4>2. /\ cpc[c] = "wait" /\ cpc' = [cpc EXCEPT ![c] = "returned"]
            /\ UNCHANGED <<ref, cop, cgen>>
        BY <3>6 DEF Return
      <4>3. QED
        BY <2>1, <4>1, <4>2 DEF IndInv, TypeOK, OwnerInv, Owning, RetireSteps
    <3>7. QED
      BY <2>3, <3>1, <3>2, <3>3, <3>4, <3>5, <3>6 DEF CallerStep, RetireStep
  <2>4. [Next]_vars => \/ UNCHANGED <<ref, installed, cop, cpc, cgen>>
                       \/ \E c \in Callers : CallerStep(c)
    BY DEF Next, PublishStep, WorkerStep, Rest, vars, callVars, Load, RLock, Dispatch,
           Buffer, Release, Forward, RUnlock, Receive, Take, Tick, SeeDone, SeeSealed,
           Drain, DrainExit
  <2>5. QED
    BY <2>1, <2>2, <2>3, <2>4
<1>3. OwnerInv => SoleRetirer
  BY DEF OwnerInv, SoleRetirer, Owning, RetireSteps
<1>4. QED
  BY <1>1, <1>2, <1>3, Inductive, PTL DEF Spec

---------------------------------------------------------------------------
(* The handshake implements the abstract handover.                         *)

\* An event before its answer is neither held nor settled.
LEMMA UnansweredIsFresh ==
  ASSUME IndInv, NEW e \in Events, result[e] = "none"
  PROVE  H!Fresh(e)
  BY DEF IndInv, TypeOK, CallInv, HeldInv, HeldBy, Settled, H!Fresh

\* A flush of the batch b settles its events together.
LEMMA FlushSettles ==
  ASSUME IndInv, NEW g \in Gens, NEW b \in Seq(Events), NEW rest \in Seq(Events),
         Range(buf[g]) \cup Range(batch[g]) = Range(rest) \cup Range(b),
         Range(rest) \cap Range(b) = {},
         FlushOf(b),
         buf' = [buf EXCEPT ![g] = rest],
         batch' = [batch EXCEPT ![g] = <<>>],
         UNCHANGED <<result, cpc, cgen>>
  PROVE  H!Settle(g, Range(b))
<1>1. Range(b) \subseteq HeldBy[g] /\ Range(b) \subseteq Events
  BY DEF HeldBy, IndInv, HeldInv, TypeOK
<1>2. HeldBy' = [HeldBy EXCEPT ![g] = @ \ Range(b)]
  <2>1. Range(buf'[g]) \cup Range(batch'[g]) = HeldBy[g] \ Range(b)
    BY EmptyFacts DEF HeldBy, IndInv, TypeOK
  <2>2. \A k \in Gens \ {g} : buf'[k] = buf[k] /\ batch'[k] = batch[k]
    BY DEF IndInv, TypeOK
  <2>3. QED
    BY <2>1, <2>2 DEF HeldBy
<1>3. Settled' = Settled \cup Range(b)
  <2>1. published \in [Events -> Nat] /\ \A e \in Range(b) : published[e] = 0
    BY <1>1 DEF IndInv, TypeOK, HeldInv, HeldBy
  <2>2. CASE /\ published' = [e \in Events |-> IF e \in Range(b) THEN published[e] + 1
                                                               ELSE published[e]]
             /\ discarded' = discarded
    BY <1>1, <2>1, <2>2 DEF Settled
  <2>3. CASE /\ discarded' = discarded \cup Range(b)
             /\ published' = published
    BY <1>1, <2>1, <2>3 DEF Settled
  <2>4. QED
    BY <2>2, <2>3 DEF FlushOf
<1>4. Retired' = Retired
  BY DEF Retired
<1>5. QED
  BY <1>1, <1>2, <1>3, <1>4 DEF H!Settle

\* Generation implements Handover: each event accepted by a generation is held
\* by that one until it is settled, and a retired generation holds nothing.
THEOREM Refinement == Spec => ImplementsHandover
<1>1. Init => H!HandoverInit
  BY EmptyFacts DEF Init, H!HandoverInit, HeldBy, Settled, Retired
<1>2. IndInv /\ [Next]_vars => [H!HandoverNext]_(H!handoverVars)
  <2>1. SUFFICES ASSUME IndInv, [Next]_vars
                 PROVE  H!HandoverNext \/ UNCHANGED H!handoverVars
    OBVIOUS
  <2>2. ASSUME UNCHANGED <<buf, batch, published, discarded, result, cpc, cgen>>
        PROVE  UNCHANGED H!handoverVars
    BY <2>2 DEF H!handoverVars, HeldBy, Settled, Retired
  <2>3. ASSUME NEW e \in Events, PublishStep(e)
        PROVE  H!HandoverNext \/ UNCHANGED H!handoverVars
    <3>1. CASE Load(e) \/ RLock(e) \/ Dispatch(e) \/ Release(e) \/ RUnlock(e)
      BY <2>2, <3>1 DEF Load, RLock, Dispatch, Release, RUnlock, callVars, outVars
    <3>2. CASE Buffer(e)
      <4>1. /\ pgen[e] \in Gens /\ pgen[e] \notin sealed
            /\ buf[pgen[e]] \in Seq(Events) /\ result[e] = "none"
        BY <2>1, <3>2 DEF Buffer, IndInv, TypeOK, CallInv, BeforeAnswer
      <4>2. pgen[e] \notin Retired
        BY <2>1, <4>1 DEF IndInv, HandshakeInv, Retired
      <4>3. HeldBy' = [HeldBy EXCEPT ![pgen[e]] = @ \cup {e}]
        <5>1. /\ Range(buf'[pgen[e]]) = Range(buf[pgen[e]]) \cup {e}
              /\ \A k \in Gens \ {pgen[e]} : buf'[k] = buf[k]
          BY <2>1, <3>2, <4>1, AppendFacts DEF Buffer, IndInv, TypeOK
        <5>2. QED
          BY <3>2, <4>1, <5>1 DEF Buffer, HeldBy
      <4>4. Settled' = Settled
        BY <2>1, <3>2, <4>1 DEF Buffer, Settled, outVars, IndInv, TypeOK
      <4>5. Retired' = Retired
        BY <3>2 DEF Buffer, Retired, callVars
      <4>6. H!Accept(pgen[e], e)
        BY <2>1, <4>1, <4>2, <4>3, <4>4, <4>5, UnansweredIsFresh DEF H!Accept
      <4>7. QED
        BY <4>1, <4>6 DEF H!HandoverNext
    <3>3. CASE Forward(e)
      <4>1. result[e] = "none" /\ published[e] = 0 /\ published \in [Events -> Nat]
        BY <2>1, <3>3 DEF Forward, IndInv, TypeOK, CallInv, BeforeAnswer
      <4>2. Settled' = Settled \cup {e}
        BY <2>1, <3>3, <4>1 DEF Forward, Settled, IndInv, TypeOK
      <4>3. HeldBy' = HeldBy /\ Retired' = Retired
        BY <3>3 DEF Forward, HeldBy, Retired, callVars
      <4>4. H!Pass(e)
        BY <2>1, <4>1, <4>2, <4>3, UnansweredIsFresh DEF H!Pass
      <4>5. QED
        BY <4>4 DEF H!HandoverNext
    <3>4. QED
      BY <2>3, <3>1, <3>2, <3>3 DEF PublishStep
  <2>4. ASSUME NEW g \in Gens, WorkerStep(g)
        PROVE  H!HandoverNext \/ UNCHANGED H!handoverVars
    <3>1. /\ buf[g] \in Seq(Events) /\ batch[g] \in Seq(Events)
          /\ Range(buf[g]) \cap Range(batch[g]) = {} /\ NoRepeat(buf[g])
          /\ buf = [buf EXCEPT ![g] = buf[g]]
      BY <2>1 DEF IndInv, TypeOK, HeldInv
    <3>2. ASSUME NEW b \in Seq(Events), H!Settle(g, Range(b))
          PROVE  H!HandoverNext
      <4>1. Range(b) \in SUBSET Events
        <5>1. \A i \in DOMAIN b : b[i] \in Events
          OBVIOUS
        <5>2. QED
          BY <5>1 DEF Range
      <4>2. QED
        BY <3>2, <4>1 DEF H!HandoverNext
    <3>3. CASE Take(g)
      <4> DEFINE h == Head(buf[g])
                 b == Append(batch[g], h)
                 rest == Tail(buf[g])
      <4>1. /\ h \in Events /\ rest \in Seq(Events)
            /\ Range(buf[g]) = Range(rest) \cup {h} /\ h \notin Range(rest)
        BY <3>1, <3>3, TailFacts DEF Take
      <4>2. b \in Seq(Events) /\ Range(b) = Range(batch[g]) \cup {h}
        BY <3>1, <4>1, AppendFacts
      <4>3. /\ Range(buf[g]) \cup Range(batch[g]) = Range(rest) \cup Range(b)
            /\ Range(rest) \cap Range(b) = {}
        BY <3>1, <4>1, <4>2
      <4>4. /\ buf' = [buf EXCEPT ![g] = rest]
            /\ UNCHANGED <<result, cpc, cgen>>
        BY <3>3 DEF Take, pubVars, callVars
      <4>5. CASE FlushOf(b) /\ batch' = [batch EXCEPT ![g] = <<>>]
        <5>1. H!Settle(g, Range(b))
          BY <2>1, <4>2, <4>1, <4>3, <4>4, <4>5, FlushSettles
        <5>2. QED
          BY <3>2, <4>2, <5>1
      <4>6. CASE batch' = [batch EXCEPT ![g] = b] /\ UNCHANGED outVars
        <5>1. /\ buf'[g] = rest /\ batch'[g] = b
              /\ \A k \in Gens \ {g} : buf'[k] = buf[k] /\ batch'[k] = batch[k]
          BY <2>1, <4>4, <4>6 DEF IndInv, TypeOK
        <5>2. HeldBy' = HeldBy
          BY <4>3, <5>1 DEF HeldBy
        <5>3. Settled' = Settled /\ Retired' = Retired
          BY <4>4, <4>6 DEF Settled, Retired, outVars
        <5>4. QED
          BY <5>2, <5>3 DEF H!handoverVars
      <4>7. QED
        BY <3>3, <4>5, <4>6 DEF Take
    <3>4. CASE Tick(g) \/ DrainExit(g)
      <4>1. /\ FlushOf(batch[g]) /\ batch' = [batch EXCEPT ![g] = <<>>]
            /\ buf' = buf /\ UNCHANGED <<result, cpc, cgen>>
        BY <3>4 DEF Tick, DrainExit, pubVars, callVars
      <4>2. H!Settle(g, Range(batch[g]))
        BY <2>1, <3>1, <4>1, FlushSettles
      <4>3. QED
        BY <3>1, <3>2, <4>2
    <3>5. CASE SeeDone(g) \/ SeeSealed(g)
      BY <2>2, <3>5 DEF SeeDone, SeeSealed, pubVars, callVars, outVars
    <3>6. QED
      BY <2>4, <3>3, <3>4, <3>5 DEF WorkerStep, Receive, Drain
  <2>5. ASSUME NEW c \in Callers, CallerStep(c)
        PROVE  H!HandoverNext \/ UNCHANGED H!handoverVars
    <3>1. /\ buf' = buf /\ batch' = batch /\ published' = published
          /\ discarded' = discarded /\ result' = result
      BY <2>5 DEF CallerStep, RetireStep, Build, Swap, Abandon, Remove, SessionOver,
                  Cancel, Announce, Seal, Unlock, Return, pubVars, outVars
    <3>2. HeldBy' = HeldBy /\ Settled' = Settled
      BY <3>1 DEF HeldBy, Settled
    <3>3. CASE Return(c)
      <4>1. /\ cgen' = cgen /\ cpc' = [cpc EXCEPT ![c] = "returned"]
            /\ cpc[c] = "wait" /\ wpc[cgen[c]] \in {"absent", "exited"}
        BY <3>3 DEF Return
      <4>2. cgen[c] \in Gens
        BY <2>1, <4>1 DEF IndInv, TypeOK, HandshakeInv, Owning, RetireSteps
      <4>3. Retired' = Retired \cup {cgen[c]}
        BY <2>1, <4>1, <4>2 DEF Retired, IndInv, TypeOK
      <4>4. HeldBy[cgen[c]] = {}
        BY <2>1, <4>1, <4>2, EmptyFacts DEF HeldBy, IndInv, HandshakeInv
      <4>5. H!Close(cgen[c])
        BY <3>2, <4>3, <4>4 DEF H!Close
      <4>6. QED
        BY <4>2, <4>5 DEF H!HandoverNext
    <3>4. CASE ~Return(c)
      <4>1. /\ cpc[c] # "returned" /\ cpc'[c] # "returned"
            /\ \A d \in Callers \ {c} : cpc'[d] = cpc[d] /\ cgen'[d] = cgen[d]
        <5>1. CASE Build(c)
          BY <2>1, <5>1 DEF Build, IndInv, TypeOK
        <5>2. CASE Swap(c) \/ Abandon(c) \/ Remove(c) \/ SessionOver(c)
          BY <2>1, <5>2 DEF Swap, Abandon, Remove, SessionOver, IndInv, TypeOK
        <5>3. CASE Cancel(c) \/ Announce(c) \/ Seal(c) \/ Unlock(c)
          BY <2>1, <5>3 DEF Cancel, Announce, Seal, Unlock, IndInv, TypeOK
        <5>4. QED
          BY <2>5, <3>4, <5>1, <5>2, <5>3 DEF CallerStep, RetireStep
      <4>2. Retired' = Retired
        BY <4>1 DEF Retired
      <4>3. QED
        BY <3>2, <4>2 DEF H!handoverVars
    <3>5. QED
      BY <3>3, <3>4
  <2>6. CASE Rest \/ UNCHANGED vars
    BY <2>2, <2>6 DEF Rest, vars
  <2>7. QED
    BY <2>1, <2>3, <2>4, <2>5, <2>6 DEF Next
<1>3. QED
  BY <1>1, <1>2, Inductive, PTL DEF Spec, ImplementsHandover, H!HandoverSpec
============================================================================
