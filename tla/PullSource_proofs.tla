------------------------- MODULE PullSource_proofs -------------------------
(***************************************************************************)
(* Proofs about module PullSource, for any number of Run calls and all     *)
(* three connectors, and about the frame scanner of module SseReader that  *)
(* they run, for any lines.                                                *)
(***************************************************************************)
EXTENDS PullSource, SequenceTheorems, TLAPS

USE PullSourceAssumption

---------------------------------------------------------------------------
(* The inductive invariant.                                                *)

\* Where each connector can be, and what Run has reported by then.
StageOK ==
  /\ pc \in {"dial", "setup", "check", "read"} => kind # "rest_poller"
  /\ pc \in {"poll", "wait"} => kind = "rest_poller"
  /\ pc \in {"idle", "dial", "setup"} => readies = 0
  /\ pc \in {"check", "read", "publish"} => answered

\* The REST poller keeps no connection between its polls.
PollerOK == kind = "rest_poller" => \A r \in Runs : conn[r] # "open"

IndInv == SessionContract /\ StageOK /\ PollerOK

---------------------------------------------------------------------------

\* At the start nothing has run.
LEMMA InitInd == Init => IndInv
<1>1. SUFFICES ASSUME Init PROVE IndInv
  OBVIOUS
<1>2. cancelled \in BOOLEAN /\ answered \in BOOLEAN
  BY <1>1, Zenon DEF Init
<1>3. TypeOK
  BY <1>1, <1>2 DEF Init, TypeOK
<1>4. ReadyIsEarned /\ NilMeansCancelled /\ OnlyCurrentConn /\ StageOK /\ PollerOK
  BY <1>1 DEF Init, ReadyIsEarned, NilMeansCancelled, OnlyCurrentConn, StageOK, PollerOK
<1>5. QED
  BY <1>3, <1>4 DEF IndInv, SessionContract

\* A return of Run, wherever it comes from: the deferred calls close the connection.
LEMMA LeaveInd ==
  ASSUME IndInv, NEW v \in {"nil", "err"}, v = "nil" => cancelled, Leave(v),
         UNCHANGED <<kind, cancelled, run, readies, answered>>
  PROVE  IndInv'
<1>1. TypeOK /\ ReadyIsEarned /\ NilMeansCancelled /\ OnlyCurrentConn /\ StageOK /\ PollerOK
  BY DEF IndInv, SessionContract
<1>2. /\ ret' = v /\ pc' = "returned" /\ conn' \in [Runs -> {"none", "open", "closed"}]
      /\ watcher' \in [Runs -> {"none", "waiting", "released", "gone"}]
  BY <1>1 DEF Leave, TypeOK
<1>3. \A r \in Runs : conn'[r] # "open"
  BY <1>1 DEF Leave, OnlyCurrentConn, TypeOK
<1>4. (cancelled \in BOOLEAN /\ answered \in BOOLEAN)'
  BY <1>1, Zenon DEF TypeOK
<1>5. TypeOK'
  BY <1>1, <1>2, <1>4 DEF TypeOK
<1>6. ReadyIsEarned' /\ NilMeansCancelled' /\ OnlyCurrentConn' /\ StageOK' /\ PollerOK'
  BY <1>1, <1>2, <1>3 DEF ReadyIsEarned, NilMeansCancelled, OnlyCurrentConn, StageOK, PollerOK
<1>7. QED
  BY <1>5, <1>6 DEF IndInv, SessionContract

\* A step that moves Run on without touching connection or result.
LEMMA MoveInd ==
  ASSUME IndInv,
         UNCHANGED <<kind, cancelled, run, conn, watcher, readies, answered, ret>>,
         \/ UNCHANGED pc
         \/ pc = "check" /\ pc' = "read"
         \/ pc = "read" /\ pc' = "publish"
         \/ kind # "rest_poller" /\ pc = "publish" /\ pc' \in {"check", "read"}
         \/ pc = "poll" /\ pc' = "wait"
         \/ pc = "wait" /\ pc' = "poll"
  PROVE  IndInv'
<1>1. TypeOK /\ ReadyIsEarned /\ NilMeansCancelled /\ OnlyCurrentConn /\ StageOK /\ PollerOK
  BY DEF IndInv, SessionContract
<1>2. (cancelled \in BOOLEAN /\ answered \in BOOLEAN)'
  BY <1>1, Zenon DEF TypeOK
<1>3. TypeOK'
  BY <1>1, <1>2 DEF TypeOK
<1>4. ReadyIsEarned' /\ NilMeansCancelled' /\ PollerOK' /\ StageOK'
  BY <1>1 DEF ReadyIsEarned, NilMeansCancelled, PollerOK, StageOK
<1>5. OnlyCurrentConn'
  BY <1>1 DEF OnlyCurrentConn, StageOK, PollerOK
<1>6. QED
  BY <1>3, <1>4, <1>5 DEF IndInv, SessionContract

\* A Run begins, connects, and reports that it is ready.
LEMMA StartInd == ASSUME IndInv, Run \/ Connected \/ Ready PROVE IndInv'
<1>1. TypeOK /\ ReadyIsEarned /\ NilMeansCancelled /\ OnlyCurrentConn /\ StageOK /\ PollerOK
  BY DEF IndInv, SessionContract
<1>2. UNCHANGED <<kind, cancelled>>
  BY DEF Run, Connected, Ready
<1>3. (cancelled \in BOOLEAN /\ answered \in BOOLEAN)'
  BY <1>1, <1>2, Zenon DEF TypeOK, Run, Connected, Ready
<1>4. CASE Run
  <2>1. /\ pc \in {"idle", "returned"} /\ run < MaxRuns /\ run' = run + 1
        /\ pc' = IF kind = "rest_poller" THEN "poll" ELSE "dial"
        /\ readies' = 0 /\ ret' = "none"
        /\ UNCHANGED <<conn, watcher>>
    BY <1>4 DEF Run
  <2>2. \A r \in Runs : conn'[r] # "open"
    BY <1>1, <2>1 DEF OnlyCurrentConn
  <2>3. TypeOK'
    BY <1>1, <1>2, <1>3, <2>1 DEF TypeOK
  <2>4. QED
    BY <1>2, <2>1, <2>2, <2>3 DEF IndInv, SessionContract, ReadyIsEarned, NilMeansCancelled,
       OnlyCurrentConn, StageOK, PollerOK
<1>5. CASE Connected
  <2>1. /\ pc = "dial" /\ pc' = "setup"
        /\ conn' = [conn EXCEPT ![run] = "open"]
        /\ watcher' \in [Runs -> {"none", "waiting", "released", "gone"}]
        /\ UNCHANGED <<run, readies, answered, ret>>
    BY <1>1, <1>5 DEF Connected, TypeOK
  <2>2. TypeOK'
    BY <1>1, <1>2, <1>3, <2>1 DEF TypeOK
  <2>3. OnlyCurrentConn'
    BY <1>1, <2>1 DEF OnlyCurrentConn, TypeOK
  <2>4. ReadyIsEarned' /\ NilMeansCancelled' /\ StageOK' /\ PollerOK'
    BY <1>1, <1>2, <2>1 DEF ReadyIsEarned, NilMeansCancelled, StageOK, PollerOK
  <2>5. QED
    BY <2>2, <2>3, <2>4 DEF IndInv, SessionContract
<1>6. CASE Ready
  <2>1. /\ pc = "setup" /\ pc' \in {"check", "read"}
        /\ answered' = TRUE /\ readies' = readies + 1
        /\ UNCHANGED <<run, conn, watcher, ret>>
    BY <1>6 DEF Ready, LoopTop
  <2>2. readies = 0 /\ kind # "rest_poller"
    BY <1>1, <2>1 DEF StageOK
  <2>3. TypeOK'
    BY <1>1, <1>2, <1>3, <2>1, <2>2 DEF TypeOK
  <2>4. QED
    BY <1>1, <1>2, <2>1, <2>2, <2>3 DEF IndInv, SessionContract, ReadyIsEarned,
       NilMeansCancelled, OnlyCurrentConn, StageOK, PollerOK
<1>7. QED
  BY <1>4, <1>5, <1>6

\* A poll is answered.
LEMMA PollInd == ASSUME IndInv, PollBody \/ PollDone PROVE IndInv'
<1>1. TypeOK /\ ReadyIsEarned /\ NilMeansCancelled /\ OnlyCurrentConn /\ StageOK /\ PollerOK
  BY DEF IndInv, SessionContract
<1>2. UNCHANGED <<kind, cancelled, run, conn, watcher, ret>> /\ kind = "rest_poller"
  BY <1>1 DEF PollBody, PollDone, StageOK
<1>3. answered' = TRUE
  BY <1>1 DEF PollBody, PollDone, StageOK, TypeOK
<1>4. (cancelled \in BOOLEAN /\ answered \in BOOLEAN)'
  BY <1>1, <1>2, <1>3, Zenon DEF TypeOK
<1>5. readies' \in 0..1 /\ pc \in {"poll", "publish"} /\ pc' \in {"publish", "wait"}
  BY <1>1 DEF PollBody, PollDone, ReachedEndpoint, TypeOK
<1>6. TypeOK'
  BY <1>1, <1>2, <1>4, <1>5 DEF TypeOK
<1>7. QED
  BY <1>1, <1>2, <1>3, <1>5, <1>6 DEF IndInv, SessionContract, ReadyIsEarned,
     NilMeansCancelled, OnlyCurrentConn, StageOK, PollerOK

\* The context is cancelled, or a watcher ends.
LEMMA WatcherInd ==
  ASSUME IndInv, Cancel \/ \E r \in Runs : WatcherCloses(r) \/ WatcherLeaves(r)
  PROVE  IndInv'
<1>1. TypeOK /\ ReadyIsEarned /\ NilMeansCancelled /\ OnlyCurrentConn /\ StageOK /\ PollerOK
  BY DEF IndInv, SessionContract
<1>2. UNCHANGED <<kind, pc, run, readies, answered, ret>> /\ (cancelled => cancelled')
  BY DEF Cancel, WatcherCloses, WatcherLeaves
<1>3. (cancelled \in BOOLEAN /\ answered \in BOOLEAN)'
  BY <1>1, Zenon DEF TypeOK, Cancel, WatcherCloses, WatcherLeaves
<1>4. /\ conn' \in [Runs -> {"none", "open", "closed"}]
      /\ watcher' \in [Runs -> {"none", "waiting", "released", "gone"}]
      /\ \A r \in Runs : conn'[r] = "open" => conn[r] = "open"
  BY <1>1 DEF Cancel, WatcherCloses, WatcherLeaves, TypeOK
<1>5. TypeOK'
  BY <1>1, <1>2, <1>3, <1>4 DEF TypeOK
<1>6. QED
  BY <1>1, <1>2, <1>4, <1>5 DEF IndInv, SessionContract, ReadyIsEarned,
     NilMeansCancelled, OnlyCurrentConn, StageOK, PollerOK

\* Every step keeps the invariant.
LEMMA NextInd == IndInv /\ [Next]_vars => IndInv'
<1>1. SUFFICES ASSUME IndInv, [Next]_vars PROVE IndInv'
  OBVIOUS
<1>2. CASE UNCHANGED vars \/ Gone
  BY <1>1, <1>2, MoveInd DEF Gone, vars, runVars
<1>3. CASE Run \/ Connected \/ Ready
  BY <1>1, <1>3, StartInd
<1>4. CASE PollBody \/ PollDone
  BY <1>1, <1>4, PollInd
<1>5. CASE Cancel \/ \E r \in Runs : WatcherCloses(r) \/ WatcherLeaves(r)
  BY <1>1, <1>5, WatcherInd
<1>6. CASE DialFails \/ SetupFails
  BY <1>1, <1>6, LeaveInd DEF DialFails, SetupFails
<1>7. CASE StopPolling
  BY <1>1, <1>7, LeaveInd DEF StopPolling
<1>8. CASE ReadEnds
  <2>1. CASE cancelled
    BY <1>1, <1>8, <2>1, LeaveInd DEF ReadEnds
  <2>2. CASE ~cancelled
    BY <1>1, <1>8, <2>2, LeaveInd DEF ReadEnds
  <2>3. QED
    BY <2>1, <2>2
<1>9. CASE Check
  <2>1. CASE cancelled
    BY <1>1, <1>9, <2>1, LeaveInd DEF Check
  <2>2. CASE ~cancelled
    BY <1>1, <1>9, <2>2, MoveInd DEF Check
  <2>3. QED
    BY <2>1, <2>2
<1>10. CASE ReadMessage \/ ReadLine \/ ReadFrame \/ Published
  BY <1>1, <1>10, MoveInd DEF ReadMessage, ReadLine, ReadFrame, Published, LoopTop, runVars
<1>11. CASE PollFails \/ TickerFires
  BY <1>1, <1>11, MoveInd DEF PollFails, TickerFires
<1>12. QED
  BY <1>1, <1>2, <1>3, <1>4, <1>5, <1>6, <1>7, <1>8, <1>9, <1>10, <1>11
     DEF Next, Streaming, Polling

\* Over any number of Runs of any of the three connectors: ready at most once and
\* only once the endpoint has answered this Run, nil only for a cancellation, and
\* no connection but that of the Run in progress (source.go, Source).
THEOREM ContractHolds == Spec => []SessionContract
<1>1. IndInv => SessionContract
  BY DEF IndInv
<1>2. QED
  BY <1>1, InitInd, NextInd, PTL DEF Spec

---------------------------------------------------------------------------
(* The frame scanner: one more line.                                       *)

\* What the scanner goes by: the event: lines before i since the last event, those
\* of frames without data included.
EventsAt(i) ==
  {k \in 1..(i - 1) : read[k].field = "event" /\ \A b \in Carrying : b < i => b < k}

\* The event it makes of the frame that ends at i.
Scanned(event, i) ==
  /\ TextsAt(event.data, DataAt(i))
  /\ \E name \in Names \cup {""} :
       NameAt(name, EventsAt(i)) /\ event.type = IF name = "" THEN Default ELSE name

\* The buffers hold the frame still to be ended ...
Collecting ==
  /\ TextsAt(currentData, DataAt(Len(read) + 1))
  /\ NameAt(currentEvent, EventsAt(Len(read) + 1))

\* ... or, while its event is being published, the one just ended.
BuffersOK == IF kind = "sse" /\ pc = "publish" THEN Len(read) \in Carrying ELSE Collecting

\* l is read as line N.
Appends(l, N) == l \in Lines /\ read \in Seq(Lines) /\ read' = Append(read, l) /\ N = Len(read) + 1

\* The lines before it stay where they are.
LEMMA Appended ==
  ASSUME NEW l, NEW N, Appends(l, N)
  PROVE  /\ N \in Nat \ {0} /\ Len(read') = N /\ DOMAIN read = 1..(N - 1) /\ DOMAIN read' = 1..N
         /\ read'[N] = l /\ \A k \in 1..(N - 1) : read'[k] = read[k]
         /\ read' \in Seq(Lines)
  BY DEF Appends

\* So do the blank ones among them.
LEMMA BlanksAfter ==
  ASSUME NEW l, NEW N, Appends(l, N)
  PROVE  /\ Blanks \subseteq 1..(N - 1)
         /\ Blanks' = IF l = Blank THEN Blanks \cup {N} ELSE Blanks
<1>1. /\ N \in Nat \ {0} /\ DOMAIN read = 1..(N - 1) /\ DOMAIN read' = 1..N
      /\ read'[N] = l /\ \A k \in 1..(N - 1) : read'[k] = read[k]
  BY Appended
<1>2. Blanks' = {i \in 1..N : read'[i] = Blank}
  BY <1>1 DEF Blanks
<1>3. QED
  BY <1>1, <1>2 DEF Blanks

\* A frame that has begun by then does not change.
LEMMA EarlierFrame ==
  ASSUME NEW l, NEW N, Appends(l, N), NEW i \in 1..N
  PROVE  FrameOf(i)' = FrameOf(i) /\ DataAt(i)' = DataAt(i)
<1>1. /\ N \in Nat \ {0} /\ \A k \in 1..(N - 1) : read'[k] = read[k]
  BY Appended
<1>2. \A b : b \in Blanks' <=> b \in Blanks \/ (b = N /\ l = Blank)
  BY BlanksAfter
<1>3. FrameOf(i)' = {k \in 1..(i - 1) : \A b \in Blanks' : b < i => b < k}
  BY DEF FrameOf
<1>4. FrameOf(i)' = FrameOf(i)
  BY <1>1, <1>2, <1>3 DEF FrameOf
<1>5. FrameOf(i) \subseteq 1..(N - 1)
  BY <1>1 DEF FrameOf
<1>6. DataAt(i)' = {k \in FrameOf(i) : read'[k].field = "data" /\
                      \E j \in FrameOf(i) : j <= k /\ read'[j].field = "data" /\ read'[j].value # ""}
  BY <1>4 DEF DataAt, Texty
<1>7. \A k \in FrameOf(i) : read'[k] = read[k]
  BY <1>1, <1>5
<1>8. DataAt(i)' = DataAt(i)
  BY <1>6, <1>7 DEF DataAt, Texty
<1>9. QED
  BY <1>4, <1>8

\* A frame carries data when it has ended with some.
LEMMA CarryingAfter ==
  ASSUME NEW l, NEW N, Appends(l, N)
  PROVE  /\ Carrying \subseteq 1..(N - 1)
         /\ Carrying' = IF l = Blank /\ DataAt(N) # {} THEN Carrying \cup {N} ELSE Carrying
<1>1. N \in Nat \ {0} /\ Blanks \subseteq 1..(N - 1)
  BY Appended, BlanksAfter
<1>2. \A i \in 1..N : DataAt(i)' = DataAt(i)
  BY EarlierFrame
<1>3. \A b : b \in Blanks' <=> b \in Blanks \/ (b = N /\ l = Blank)
  BY BlanksAfter
<1>4. \A i : i \in Carrying' <=> i \in Blanks' /\ DataAt(i)' # {}
  BY DEF Carrying
<1>5. \A i \in Blanks' : i \in 1..N
  <2>1. Blanks' \subseteq Blanks \cup {N}
    BY BlanksAfter
  <2>2. QED
    BY <1>1, <2>1
<1>6. \A i : i \in Carrying' <=> i \in Blanks' /\ DataAt(i) # {}
  BY <1>2, <1>4, <1>5
<1>7. \A i : i \in Carrying' <=> i \in Carrying \/ (i = N /\ l = Blank /\ DataAt(N) # {})
  BY <1>3, <1>6 DEF Carrying
<1>8. Carrying' = IF l = Blank /\ DataAt(N) # {} THEN Carrying \cup {N} ELSE Carrying
  BY <1>7
<1>9. QED
  BY <1>1, <1>8 DEF Carrying

\* The names given for a frame that has begun by then do not change.
LEMMA EarlierEvents ==
  ASSUME NEW l, NEW N, Appends(l, N), NEW i \in 1..N
  PROVE  EventsAt(i)' = EventsAt(i)
<1>1. N \in Nat \ {0} /\ \A k \in 1..(N - 1) : read'[k] = read[k]
  BY Appended
<1>2. \A b : b < i => (b \in Carrying' <=> b \in Carrying)
  BY <1>1, CarryingAfter
<1>3. EventsAt(i)' = {k \in 1..(i - 1) : read'[k].field = "event" /\
                        \A b \in Carrying' : b < i => b < k}
  BY DEF EventsAt
<1>4. QED
  BY <1>1, <1>2, <1>3 DEF EventsAt

\* Texts and names at positions before N are still there.
LEMMA StillThere ==
  ASSUME NEW l, NEW N, Appends(l, N), NEW P, P \subseteq 1..(N - 1)
  PROVE  /\ \A texts : TextsAt(texts, P) => TextsAt(texts, P)'
         /\ \A name : NameAt(name, P) => NameAt(name, P)'
<1>1. \A k \in P : read'[k] = read[k]
  BY Appended
<1>2. ASSUME NEW texts, TextsAt(texts, P) PROVE TextsAt(texts, P)'
  <2>1. PICK at \in [DOMAIN texts -> P] :
          Lists(at, P) /\ \A n \in DOMAIN texts : texts[n] = read[at[n]].value
    BY <1>2 DEF TextsAt
  <2>2. \A n \in DOMAIN texts : texts[n] = read'[at[n]].value
    BY <1>1, <2>1
  <2>3. QED
    BY <2>1, <2>2, Zenon DEF TextsAt
<1>3. ASSUME NEW name, NameAt(name, P) PROVE NameAt(name, P)'
  BY <1>1, <1>3 DEF NameAt
<1>4. QED
  BY <1>2, <1>3

\* Positions of a frame come before its end.
LEMMA Before ==
  ASSUME NEW i \in Nat
  PROVE  DataAt(i) \subseteq 1..(i - 1) /\ EventsAt(i) \subseteq 1..(i - 1)
  BY DEF DataAt, FrameOf, EventsAt

\* What is to be ended after a line that is not blank.
LEMMA AfterLine ==
  ASSUME NEW l, NEW N, Appends(l, N), l # Blank
  PROVE  /\ DataAt(N + 1)' = DataAt(N) \cup
              (IF l.field = "data" /\ (l.value # "" \/ DataAt(N) # {}) THEN {N} ELSE {})
         /\ EventsAt(N + 1)' = EventsAt(N) \cup (IF l.field = "event" THEN {N} ELSE {})
         /\ Carrying' = Carrying
<1>1. /\ N \in Nat \ {0} /\ read'[N] = l /\ \A k \in 1..(N - 1) : read'[k] = read[k]
  BY Appended
<1>2. Blanks' = Blanks /\ Carrying' = Carrying /\ Blanks \subseteq 1..(N - 1) /\ Carrying \subseteq 1..(N - 1)
  BY BlanksAfter, CarryingAfter
<1>3. FrameOf(N + 1)' = {k \in 1..N : \A b \in Blanks : b < N + 1 => b < k}
  BY <1>1, <1>2 DEF FrameOf
<1>4. FrameOf(N + 1)' = FrameOf(N) \cup {N} /\ FrameOf(N) \subseteq 1..(N - 1)
  BY <1>1, <1>2, <1>3 DEF FrameOf
<1>5. PICK F : F = FrameOf(N)
  OBVIOUS
<1>6. PICK D, E, T, U :
        /\ D = {k \in 1..N : read[k].field = "data"} /\ E = {k \in 1..N : read'[k].field = "data"}
        /\ T = {k \in 1..N : Texty(k)} /\ U = {k \in 1..N : Texty(k)'}
  OBVIOUS
<1>7. \A k \in F : k \in 1..N /\ k < N /\ read'[k] = read[k]
  BY <1>1, <1>4, <1>5
<1>8. \A k \in F : (k \in E <=> k \in D) /\ (k \in U <=> k \in T)
  BY <1>6, <1>7 DEF Texty
<1>9. (N \in E <=> l.field = "data") /\ (N \in U <=> l.field = "data" /\ l.value # "")
  <2>1. N \in 1..N /\ read'[N] = l
    BY <1>1
  <2>2. (N \in E <=> read'[N].field = "data") /\ (N \in U <=> Texty(N)')
    BY <1>6, <2>1
  <2>3. Texty(N)' <=> read'[N].field = "data" /\ read'[N].value # ""
    BY Zenon DEF Texty
  <2>4. QED
    BY <2>1, <2>2, <2>3, Zenon
<1>10. T \subseteq D
  BY <1>6 DEF Texty
<1>11. /\ DataAt(N + 1)' = {k \in F \cup {N} : k \in E /\ \E j \in F \cup {N} : j <= k /\ j \in U}
       /\ DataAt(N) = {k \in F : k \in D /\ \E j \in F : j <= k /\ j \in T}
  <2>1. /\ \A k \in F \cup {N} : (k \in E <=> read'[k].field = "data") /\ (k \in U <=> Texty(k)')
        /\ \A k \in F : (k \in D <=> read[k].field = "data") /\ (k \in T <=> Texty(k))
    BY <1>1, <1>6, <1>7
  <2>2. DataAt(N + 1)' = {k \in F \cup {N} : read'[k].field = "data" /\
                            \E j \in F \cup {N} : j <= k /\ Texty(j)'}
    BY <1>4, <1>5 DEF DataAt
  <2>3. DataAt(N) = {k \in F : read[k].field = "data" /\ \E j \in F : j <= k /\ Texty(j)}
    BY <1>5 DEF DataAt
  <2>4. QED
    BY <2>1, <2>2, <2>3, Zenon
<1>12. DataAt(N + 1)' = DataAt(N) \cup
         (IF l.field = "data" /\ (l.value # "" \/ DataAt(N) # {}) THEN {N} ELSE {})
  <2>1. PICK A, B : A = DataAt(N) /\ B = DataAt(N + 1)'
    OBVIOUS
  <2>2. /\ A = {k \in F : k \in D /\ \E j \in F : j <= k /\ j \in T}
        /\ B = {k \in F \cup {N} : k \in E /\ \E j \in F \cup {N} : j <= k /\ j \in U}
    BY <1>11, <2>1, Zenon
  <2>3. N \in Int /\ \A k \in F : k \in Int /\ k < N
    BY <1>1, <1>7
  <2>4. \A k \in F : k \in B <=> k \in A
    BY <1>8, <2>2, <2>3
  <2>5. A # {} <=> \E j \in F : j \in T
    BY <1>10, <2>2, <2>3
  <2>6. N \in B <=> N \in E /\ (N \in U \/ \E j \in F : j \in T)
    BY <1>8, <2>2, <2>3
  <2>7. B \subseteq F \cup {N} /\ A \subseteq F
    BY <2>2
  <2>8. N \in E /\ (N \in U \/ A # {}) <=> l.field = "data" /\ (l.value # "" \/ A # {})
    BY <1>9
  <2>9. B = A \cup (IF l.field = "data" /\ (l.value # "" \/ A # {}) THEN {N} ELSE {})
    BY <2>4, <2>5, <2>6, <2>7, <2>8
  <2>10. QED
    BY <2>1, <2>9
<1>13. EventsAt(N + 1)' = {k \in 1..N : read'[k].field = "event" /\ \A b \in Carrying : b < N + 1 => b < k}
  <2>1. (N + 1) - 1 = N
    BY <1>1
  <2>2. EventsAt(N + 1)' = {k \in 1..((N + 1) - 1) : read'[k].field = "event" /\
                              \A b \in Carrying' : b < N + 1 => b < k}
    BY Zenon DEF EventsAt
  <2>3. QED
    BY <1>2, <2>1, <2>2, Zenon
<1>14. EventsAt(N + 1)' = EventsAt(N) \cup (IF l.field = "event" THEN {N} ELSE {})
  BY <1>1, <1>2, <1>13 DEF EventsAt
<1>15. QED
  BY <1>2, <1>12, <1>14

\* What is to be ended after a blank line: nothing, and after one that ended a frame
\* with data no name either.
LEMMA AfterBlank ==
  ASSUME NEW N, Appends(Blank, N)
  PROVE  /\ DataAt(N + 1)' = {}
         /\ EventsAt(N + 1)' = IF DataAt(N) = {} THEN EventsAt(N) ELSE {}
<1>1. /\ N \in Nat \ {0} /\ read'[N] = Blank /\ \A k \in 1..(N - 1) : read'[k] = read[k]
  BY Appended
<1>2. N \in Blanks'
  BY BlanksAfter
<1>3. FrameOf(N + 1)' = {k \in 1..N : \A b \in Blanks' : b < N + 1 => b < k}
  BY <1>1 DEF FrameOf
<1>4. FrameOf(N + 1)' = {}
  BY <1>1, <1>2, <1>3
<1>5. DataAt(N + 1)' = {}
  BY <1>4 DEF DataAt
<1>6. /\ Carrying \subseteq 1..(N - 1)
      /\ Carrying' = IF DataAt(N) # {} THEN Carrying \cup {N} ELSE Carrying
  BY CarryingAfter
<1>7. EventsAt(N + 1)' = {k \in 1..N : read'[k].field = "event" /\ \A b \in Carrying' : b < N + 1 => b < k}
  BY <1>1 DEF EventsAt
<1>8. CASE DataAt(N) = {}
  <2>1. Blank.field # "event"
    BY DEF Blank
  <2>2. QED
    BY <1>1, <1>5, <1>6, <1>7, <1>8, <2>1 DEF EventsAt
<1>9. CASE DataAt(N) # {}
  BY <1>1, <1>5, <1>6, <1>7, <1>9
<1>10. QED
  BY <1>8, <1>9

---------------------------------------------------------------------------
(* The frame scanner: what is published and what is in the buffers.        *)

\* A listing with a later position at its end.
LEMMA ListsGrow ==
  ASSUME NEW N \in Nat \ {0}, NEW P, P \subseteq 1..(N - 1), NEW m \in Nat,
         NEW at \in [1..m -> P], Lists(at, P),
         NEW longer, longer = [n \in 1..(m + 1) |-> IF n = m + 1 THEN N ELSE at[n]]
  PROVE  longer \in [1..(m + 1) -> P \cup {N}] /\ Lists(longer, P \cup {N})
<1>1. longer \in [1..(m + 1) -> P \cup {N}]
  OBVIOUS
<1>2. longer[m + 1] = N /\ \A n \in 1..m : longer[n] = at[n] /\ at[n] < N
  <2>1. \A p \in P : p < N
    OBVIOUS
  <2>2. \A n \in 1..m : at[n] \in P
    OBVIOUS
  <2>3. 1..m \subseteq 1..(m + 1) /\ m + 1 \in 1..(m + 1) /\ m + 1 \notin 1..m
    OBVIOUS
  <2>4. QED
    BY <2>1, <2>2, <2>3
<1>3. \A p \in P \cup {N} : \E n \in DOMAIN longer : longer[n] = p
  BY <1>2 DEF Lists
<1>4. ASSUME NEW j \in DOMAIN longer, NEW n \in DOMAIN longer, j < n PROVE longer[j] < longer[n]
  <2>1. j \in 1..m
    BY <1>4
  <2>2. CASE n = m + 1
    BY <1>2, <2>1, <2>2
  <2>3. CASE n # m + 1
    BY <1>2, <1>4, <2>1, <2>3 DEF Lists
  <2>4. QED
    BY <2>2, <2>3
<1>5. QED
  BY <1>1, <1>3, <1>4 DEF Lists

\* An empty buffer is that of a frame without data, and no name was given.
LEMMA EmptyBuffers ==
  /\ TextsAt(<<>>, {}) /\ NameAt("", {})
  /\ TextsAt(<<>>, {})' /\ NameAt("", {})'
<1>1. [n \in DOMAIN <<>> |-> 0] \in [DOMAIN <<>> -> {}] /\ DOMAIN <<>> = {}
  OBVIOUS
<1>2. Lists([n \in DOMAIN <<>> |-> 0], {})
  BY <1>1 DEF Lists
<1>3. QED
  BY <1>1, <1>2 DEF TextsAt, NameAt

\* A buffer is empty exactly when the frame has no data so far.
LEMMA EmptyIffNone ==
  ASSUME NEW texts, NEW S, texts \in Seq(S), NEW P, TextsAt(texts, P)
  PROVE  texts = <<>> <=> P = {}
<1>1. PICK at \in [DOMAIN texts -> P] : Lists(at, P)
  BY DEF TextsAt
<1>2. texts = <<>> <=> DOMAIN texts = {}
  OBVIOUS
<1>3. P = {} => DOMAIN texts = {}
  OBVIOUS
<1>4. DOMAIN texts = {} => P = {}
  BY <1>1 DEF Lists
<1>5. QED
  BY <1>2, <1>3, <1>4

\* The text of a line goes to the end of the buffer.
LEMMA TextsGrow ==
  ASSUME NEW l, NEW N, Appends(l, N), NEW P, P \subseteq 1..(N - 1),
         NEW texts, NEW S, texts \in Seq(S), l.value \in S, TextsAt(texts, P)
  PROVE  TextsAt(Append(texts, l.value), P \cup {N})'
<1>1. N \in Nat \ {0} /\ read'[N] = l /\ \A k \in 1..(N - 1) : read'[k] = read[k]
  BY Appended
<1>2. PICK m \in Nat : DOMAIN texts = 1..m
  <2>1. Len(texts) \in Nat /\ DOMAIN texts = 1..Len(texts)
    OBVIOUS
  <2>2. QED
    BY <2>1
<1>3. PICK at \in [1..m -> P] : Lists(at, P) /\ \A n \in 1..m : texts[n] = read[at[n]].value
  BY <1>2 DEF TextsAt
<1>4. PICK longer : longer = [n \in 1..(m + 1) |-> IF n = m + 1 THEN N ELSE at[n]]
  OBVIOUS
<1>5. longer \in [1..(m + 1) -> P \cup {N}] /\ Lists(longer, P \cup {N})
  BY <1>1, <1>3, <1>4, ListsGrow
<1>6. PICK more : more = Append(texts, l.value)
  OBVIOUS
<1>7. DOMAIN more = 1..(m + 1) /\ more[m + 1] = l.value /\ \A n \in 1..m : more[n] = texts[n]
  BY <1>2, <1>6
<1>8. ASSUME NEW n \in 1..(m + 1) PROVE more[n] = read'[longer[n]].value
  <2>1. CASE n = m + 1
    BY <1>1, <1>4, <1>7, <2>1
  <2>2. CASE n # m + 1
    <3>1. n \in 1..m
      BY <1>8, <2>2
    <3>2. at[n] \in P
      BY <1>3, <3>1
    <3>3. longer[n] = at[n] /\ read'[at[n]] = read[at[n]]
      BY <1>1, <1>4, <2>2, <3>2
    <3>4. QED
      BY <1>3, <1>7, <3>1, <3>3
  <2>3. QED
    BY <2>1, <2>2
<1>9. TextsAt(more, P \cup {N})'
  BY <1>5, <1>7, <1>8, Zenon DEF TextsAt
<1>10. QED
  BY <1>6, <1>9

\* An event: line gives the name.
LEMMA NameGrows ==
  ASSUME NEW l, NEW N, Appends(l, N), NEW P, P \subseteq 1..(N - 1)
  PROVE  NameAt(l.value, P \cup {N})'
<1>1. N \in Nat \ {0} /\ read'[N] = l
  BY Appended
<1>2. \A j \in P \cup {N} : j <= N
  BY <1>1
<1>3. QED
  BY <1>1, <1>2 DEF NameAt

\* The event of a frame that has begun by then does not change.
LEMMA EventKept ==
  ASSUME NEW l, NEW N, Appends(l, N), NEW i \in 1..N, NEW e, Scanned(e, i)
  PROVE  Scanned(e, i)'
<1>1. N \in Nat \ {0}
  BY Appended
<1>2. DataAt(i)' = DataAt(i) /\ EventsAt(i)' = EventsAt(i)
  BY EarlierFrame, EarlierEvents
<1>3. DataAt(i) \subseteq 1..(N - 1) /\ EventsAt(i) \subseteq 1..(N - 1)
  <2>1. i \in Nat /\ 1..(i - 1) \subseteq 1..(N - 1)
    BY <1>1
  <2>2. DataAt(i) \subseteq 1..(i - 1) /\ EventsAt(i) \subseteq 1..(i - 1)
    BY <2>1, Before
  <2>3. QED
    BY <2>1, <2>2
<1>4. TextsAt(e.data, DataAt(i))
  BY DEF Scanned
<1>5. PICK name \in Names \cup {""} :
        NameAt(name, EventsAt(i)) /\ e.type = IF name = "" THEN Default ELSE name
  BY DEF Scanned
<1>6. PICK A, B : A = DataAt(i) /\ B = EventsAt(i)
  OBVIOUS
<1>7. TextsAt(e.data, A)' /\ NameAt(name, B)'
  BY <1>3, <1>4, <1>5, <1>6, StillThere
<1>8. DataAt(i)' = A /\ EventsAt(i)' = B
  BY <1>2, <1>6
<1>9. QED
  BY <1>5, <1>7, <1>8, Zenon DEF Scanned

\* What was published is the frames that carry data.
PublishedOK ==
  \E ends \in [DOMAIN published -> Carrying] :
    Lists(ends, Carrying) /\ \A n \in DOMAIN published : Scanned(published[n], ends[n])

\* It still is after a line that ends no such frame.
LEMMA PublishedKept ==
  ASSUME NEW l, NEW N, Appends(l, N), Carrying' = Carrying, published' = published, PublishedOK
  PROVE  PublishedOK'
<1>1. PICK ends \in [DOMAIN published -> Carrying] :
        Lists(ends, Carrying) /\ \A n \in DOMAIN published : Scanned(published[n], ends[n])
  BY DEF PublishedOK
<1>2. N \in Nat \ {0} /\ Carrying \subseteq 1..(N - 1)
  BY Appended, CarryingAfter
<1>3. ASSUME NEW n \in DOMAIN published PROVE Scanned(published[n], ends[n])'
  <2>1. PICK e, i : e = published[n] /\ i = ends[n]
    OBVIOUS
  <2>2. i \in 1..N /\ Scanned(e, i)
    BY <1>1, <1>2, <1>3, <2>1
  <2>3. Scanned(e, i)'
    BY <2>2, EventKept
  <2>4. published'[n] = e
    BY <2>1
  <2>5. QED
    BY <2>1, <2>3, <2>4, Zenon DEF Scanned
<1>4. QED
  BY <1>1, <1>3, Zenon DEF PublishedOK

\* The buffers hold what is to be ended after line N.
LEMMA Collected ==
  ASSUME NEW l, NEW N, Appends(l, N), NEW d, NEW e, DataAt(N + 1)' = d, EventsAt(N + 1)' = e,
         NEW texts, texts = currentData', NEW name, name = currentEvent',
         TextsAt(texts, d)', NameAt(name, e)'
  PROVE  Collecting'
<1>1. Len(read') = N
  BY Appended
<1>2. TextsAt(currentData, DataAt(N + 1))' /\ NameAt(currentEvent, EventsAt(N + 1))'
  BY Zenon DEF TextsAt, NameAt
<1>3. QED
  BY <1>1, <1>2, Zenon DEF Collecting

\* A line that does not end a frame with data in it.
LEMMA LineInd ==
  ASSUME FrameTypeOK, PublishedOK, Collecting, FrameLine
  PROVE  FrameTypeOK' /\ PublishedOK' /\ Collecting'
<1>1. published' = published
  BY DEF FrameLine, EmptyFrame, OtherLine, EventLine, DataLine
<1>2. PICK N, S, texts, given : N = Len(read) + 1 /\ S = Texts \cup {""} /\ texts = currentData
                                  /\ given = currentEvent
  OBVIOUS
<1>3. PICK A, B : A = DataAt(N) /\ B = EventsAt(N)
  OBVIOUS
<1>4. read \in Seq(Lines) /\ texts \in Seq(S) /\ given \in Names \cup {""}
  BY <1>2 DEF FrameTypeOK
<1>5. N \in Nat \ {0}
  <2>1. Len(read) \in Nat
    BY LenProperties, <1>4
  <2>2. N = Len(read) + 1
    BY <1>2
  <2>3. QED
    BY <2>1, <2>2
<1>6. A \subseteq 1..(N - 1) /\ B \subseteq 1..(N - 1)
  BY <1>3, <1>5, Before
<1>7. TextsAt(texts, A) /\ NameAt(given, B)
  BY <1>2, <1>3 DEF Collecting
<1>8. ASSUME NEW l, Appends(l, N), Carrying' = Carrying, Collecting',
             currentData' \in Seq(S), currentEvent' \in Names \cup {""}
      PROVE  FrameTypeOK' /\ PublishedOK' /\ Collecting'
  <2>1. PublishedOK'
    BY <1>1, <1>8, PublishedKept
  <2>2. read' \in Seq(Lines)
    BY <1>8, Appended
  <2>3. QED
    BY <1>1, <1>2, <1>8, <2>1, <2>2 DEF FrameTypeOK
<1>9. CASE EmptyFrame
  <2>1. texts = <<>> /\ currentEvent' = given /\ currentData' = texts
    BY <1>2, <1>9 DEF EmptyFrame
  <2>2. Appends(Blank, N)
    BY <1>2, <1>4, <1>9 DEF EmptyFrame, Scan, Appends, Lines
  <2>3. A = {}
    BY <1>4, <1>7, <2>1, EmptyIffNone
  <2>4. DataAt(N + 1)' = {} /\ EventsAt(N + 1)' = B
    BY <1>3, <2>2, <2>3, AfterBlank
  <2>5. Carrying' = Carrying
    BY <1>3, <2>2, <2>3, CarryingAfter
  <2>6. TextsAt(texts, {})' /\ NameAt(given, B)'
    BY <1>6, <1>7, <2>1, <2>2, EmptyBuffers, StillThere
  <2>7. Collecting'
    BY <2>1, <2>2, <2>4, <2>6, Collected
  <2>8. QED
    BY <1>4, <1>8, <2>1, <2>2, <2>5, <2>7
<1>10. CASE OtherLine
  <2>1. PICK l : l = [field |-> "other", value |-> ""]
    OBVIOUS
  <2>2. l # Blank /\ l.field = "other" /\ currentEvent' = given /\ currentData' = texts
    BY <1>2, <1>10, <2>1 DEF OtherLine, Blank
  <2>3. Appends(l, N)
    BY <1>2, <1>4, <1>10, <2>1 DEF OtherLine, Scan, Appends, Lines
  <2>4. DataAt(N + 1)' = A /\ EventsAt(N + 1)' = B /\ Carrying' = Carrying
    BY <1>3, <2>2, <2>3, AfterLine
  <2>5. TextsAt(texts, A)' /\ NameAt(given, B)'
    BY <1>6, <1>7, <2>3, StillThere
  <2>6. Collecting'
    BY <2>2, <2>3, <2>4, <2>5, Collected
  <2>7. QED
    BY <1>4, <1>8, <2>2, <2>3, <2>4, <2>6
<1>11. CASE \E name \in Names \cup {""} : EventLine(name)
  <2>1. PICK name \in Names \cup {""} : EventLine(name)
    BY <1>11
  <2>2. PICK l : l = [field |-> "event", value |-> name]
    OBVIOUS
  <2>3. /\ l # Blank /\ l.field = "event" /\ l.value = name
        /\ currentData' = texts /\ currentEvent' = name
    BY <1>2, <2>1, <2>2 DEF EventLine, Blank
  <2>4. Appends(l, N)
    BY <1>2, <1>4, <2>1, <2>2 DEF EventLine, Scan, Appends, Lines
  <2>5. DataAt(N + 1)' = A /\ EventsAt(N + 1)' = B \cup {N} /\ Carrying' = Carrying
    BY <1>3, <2>3, <2>4, AfterLine
  <2>6. TextsAt(texts, A)'
    BY <1>6, <1>7, <2>4, StillThere
  <2>7. NameAt(l.value, B \cup {N})'
    BY <1>6, <2>4, NameGrows
  <2>8. Collecting'
    BY <2>3, <2>4, <2>5, <2>6, <2>7, Collected
  <2>9. QED
    BY <1>4, <1>8, <2>3, <2>4, <2>5, <2>8
<1>12. CASE \E text \in Texts \cup {""} : DataLine(text)
  <2>1. PICK text \in S : DataLine(text)
    BY <1>2, <1>12
  <2>2. PICK l : l = [field |-> "data", value |-> text]
    OBVIOUS
  <2>3. /\ l # Blank /\ l.field = "data" /\ l.value = text /\ currentEvent' = given
        /\ currentData' = IF texts = <<>> /\ text = "" THEN <<>> ELSE Append(texts, text)
    BY <1>2, <2>1, <2>2 DEF DataLine, Blank
  <2>4. Appends(l, N)
    BY <1>2, <1>4, <2>1, <2>2 DEF DataLine, Scan, Appends, Lines
  <2>5. texts = <<>> <=> A = {}
    BY <1>4, <1>7, EmptyIffNone
  <2>6. /\ DataAt(N + 1)' = A \cup (IF text # "" \/ A # {} THEN {N} ELSE {})
        /\ EventsAt(N + 1)' = B /\ Carrying' = Carrying
    BY <1>3, <2>3, <2>4, AfterLine
  <2>7. NameAt(given, B)'
    BY <1>6, <1>7, <2>4, StillThere
  <2>8. Collecting'
    <3>1. CASE texts = <<>> /\ text = ""
      <4>1. DataAt(N + 1)' = {} /\ currentData' = <<>>
        BY <2>3, <2>5, <2>6, <3>1
      <4>2. TextsAt(<<>>, {})'
        BY EmptyBuffers
      <4>3. QED
        BY <2>3, <2>4, <2>6, <2>7, <4>1, <4>2, Collected
    <3>2. CASE ~(texts = <<>> /\ text = "")
      <4>1. PICK more : more = Append(texts, l.value)
        OBVIOUS
      <4>2. DataAt(N + 1)' = A \cup {N} /\ currentData' = more
        BY <2>3, <2>5, <2>6, <3>2, <4>1
      <4>3. TextsAt(more, A \cup {N})'
        BY <1>4, <1>6, <1>7, <2>1, <2>3, <2>4, <4>1, TextsGrow
      <4>4. QED
        BY <2>3, <2>4, <2>6, <2>7, <4>2, <4>3, Collected
    <3>3. QED
      BY <3>1, <3>2
  <2>9. currentData' \in Seq(S)
    <3>1. <<>> \in Seq(S) /\ Append(texts, text) \in Seq(S)
      BY <1>4, <2>1, AppendProperties, EmptySeq
    <3>2. QED
      BY <2>3, <3>1
  <2>10. QED
    BY <1>4, <1>8, <2>3, <2>4, <2>6, <2>8, <2>9
<1>13. QED
  BY <1>9, <1>10, <1>11, <1>12 DEF FrameLine

\* The blank line that ends a frame with data: its event is published.
LEMMA FrameInd ==
  ASSUME FrameTypeOK, PublishedOK, Collecting, EndFrame
  PROVE  FrameTypeOK' /\ PublishedOK' /\ (Len(read) \in Carrying)'
<1>1. PICK N, S, texts, given : N = Len(read) + 1 /\ S = Texts \cup {""} /\ texts = currentData
                                  /\ given = currentEvent
  OBVIOUS
<1>2. read \in Seq(Lines) /\ texts \in Seq(S) /\ given \in Names \cup {""}
  BY <1>1 DEF FrameTypeOK
<1>3. Appends(Blank, N)
  BY <1>1, <1>2 DEF EndFrame, Scan, Appends, Lines
<1>4. N \in Nat \ {0} /\ Len(read') = N /\ read' \in Seq(Lines) /\ N \in 1..N
  BY <1>3, Appended
<1>5. TextsAt(texts, DataAt(N)) /\ NameAt(given, EventsAt(N))
  BY <1>1 DEF Collecting
<1>6. DataAt(N) # {}
  <2>1. texts # <<>>
    BY <1>1 DEF EndFrame
  <2>2. QED
    BY <1>2, <1>5, <2>1, EmptyIffNone
<1>7. Carrying' = Carrying \cup {N} /\ Carrying \subseteq 1..(N - 1)
  BY <1>3, <1>6, CarryingAfter
<1>8. PICK event : event = [type |-> IF given = "" THEN Default ELSE given, data |-> texts]
  OBVIOUS
<1>9. published' = Append(published, event)
  BY <1>1, <1>8 DEF EndFrame
<1>10. Scanned(event, N)
  <2>1. event.data = texts /\ event.type = IF given = "" THEN Default ELSE given
    BY <1>8
  <2>2. QED
    BY <1>2, <1>5, <2>1, Zenon DEF Scanned
<1>11. PICK m \in Nat : DOMAIN published = 1..m
  <2>1. Len(published) \in Nat /\ DOMAIN published = 1..Len(published)
    BY LenProperties DEF FrameTypeOK
  <2>2. QED
    BY <2>1
<1>12. PICK ends \in [1..m -> Carrying] :
         Lists(ends, Carrying) /\ \A n \in 1..m : Scanned(published[n], ends[n])
  BY <1>11 DEF PublishedOK
<1>13. PICK longer : longer = [n \in 1..(m + 1) |-> IF n = m + 1 THEN N ELSE ends[n]]
  OBVIOUS
<1>14. longer \in [1..(m + 1) -> Carrying \cup {N}] /\ Lists(longer, Carrying \cup {N})
  <2>1. PICK C : C = Carrying
    OBVIOUS
  <2>2. C \subseteq 1..(N - 1) /\ ends \in [1..m -> C] /\ Lists(ends, C)
    BY <1>7, <1>12, <2>1
  <2>3. N \in Nat \ {0} /\ m \in Nat
    BY <1>4, <1>11
  <2>4. longer \in [1..(m + 1) -> C \cup {N}] /\ Lists(longer, C \cup {N})
    BY <1>13, <2>2, <2>3, ListsGrow
  <2>5. QED
    BY <2>1, <2>4
<1>15. PICK Events : Events = [type : Names \cup {Default}, data : Seq(S)]
  OBVIOUS
<1>16. /\ published' \in Seq(Events) /\ DOMAIN published' = 1..(m + 1) /\ published'[m + 1] = event
       /\ \A n \in 1..m : published'[n] = published[n]
  <2>1. event \in Events
    BY <1>2, <1>8, <1>15
  <2>2. published \in Seq(Events)
    BY <1>1, <1>15 DEF FrameTypeOK
  <2>3. Len(published) = m
    BY <1>11, <2>2
  <2>4. QED
    BY <1>9, <1>11, <2>1, <2>2, <2>3
<1>17. ASSUME NEW n \in 1..(m + 1) PROVE Scanned(published[n], longer[n])'
  <2>1. PICK e, i : e = published'[n] /\ i = longer[n]
    OBVIOUS
  <2>2. i \in 1..N /\ Scanned(e, i)
    <3>1. CASE n = m + 1
      BY <1>4, <1>10, <1>13, <1>16, <2>1, <3>1
    <3>2. CASE n # m + 1
      <4>1. n \in 1..m
        BY <1>11, <1>17, <3>2
      <4>2. longer[n] = ends[n] /\ ends[n] \in Carrying
        BY <1>12, <1>13, <1>17, <3>2, <4>1
      <4>3. i \in 1..N
        <5>1. i \in 1..(N - 1) /\ N \in Nat
          BY <1>4, <1>7, <2>1, <4>2
        <5>2. QED
          BY <5>1
      <4>4. Scanned(published[n], ends[n])
        BY <1>12, <4>1
      <4>5. e = published[n] /\ i = ends[n]
        BY <1>16, <2>1, <4>1, <4>2
      <4>6. QED
        BY <4>3, <4>4, <4>5
    <3>3. QED
      BY <3>1, <3>2
  <2>3. Scanned(e, i)'
    BY <1>3, <2>2, EventKept
  <2>4. QED
    BY <2>1, <2>3, Zenon DEF Scanned
<1>18. PublishedOK'
  <2>1. longer \in [DOMAIN published' -> Carrying'] /\ Lists(longer, Carrying')
    BY <1>7, <1>14, <1>16
  <2>2. \A n \in DOMAIN published' : Scanned(published[n], longer[n])'
    BY <1>16, <1>17
  <2>3. QED
    BY <2>1, <2>2, Zenon DEF PublishedOK, Lists
<1>19. UNCHANGED <<currentEvent, currentData>>
  BY DEF EndFrame
<1>20. FrameTypeOK'
  BY <1>1, <1>4, <1>15, <1>16, <1>19 DEF FrameTypeOK
<1>21. (Len(read) \in Carrying)'
  BY <1>4, <1>7
<1>22. QED
  BY <1>18, <1>20, <1>21

\* Without a new line the frames stay what they are.
LEMMA SameRead ==
  ASSUME read' = read
  PROVE  /\ Carrying' = Carrying
         /\ \A i : DataAt(i)' = DataAt(i) /\ EventsAt(i)' = EventsAt(i)
         /\ \A x, P : (TextsAt(x, P)' <=> TextsAt(x, P)) /\ (NameAt(x, P)' <=> NameAt(x, P))
         /\ published' = published /\ PublishedOK => PublishedOK'
<1>1. Blanks' = Blanks
  BY Zenon DEF Blanks
<1>2. ASSUME NEW i PROVE FrameOf(i)' = FrameOf(i)
  BY <1>1, Zenon DEF FrameOf
<1>3. ASSUME NEW i PROVE DataAt(i)' = DataAt(i)
  <2>1. FrameOf(i)' = FrameOf(i)
    BY <1>2
  <2>2. QED
    BY <2>1 DEF DataAt, Texty
<1>4. Carrying' = Carrying
  BY <1>1, <1>3, Zenon DEF Carrying
<1>5. ASSUME NEW i PROVE EventsAt(i)' = EventsAt(i)
  BY <1>4, Zenon DEF EventsAt
<1>6. ASSUME NEW x, NEW P PROVE (TextsAt(x, P)' <=> TextsAt(x, P)) /\ (NameAt(x, P)' <=> NameAt(x, P))
  BY Zenon DEF TextsAt, NameAt
<1>7. ASSUME NEW e, NEW i, Scanned(e, i) PROVE Scanned(e, i)'
  BY <1>3, <1>5, <1>6, <1>7, Zenon DEF Scanned
<1>8. ASSUME published' = published, PublishedOK PROVE PublishedOK'
  <2>1. PICK ends \in [DOMAIN published -> Carrying] :
          Lists(ends, Carrying) /\ \A n \in DOMAIN published : Scanned(published[n], ends[n])
    BY <1>8 DEF PublishedOK
  <2>2. ASSUME NEW n \in DOMAIN published PROVE Scanned(published[n], ends[n])'
    <3>1. PICK e, i : e = published[n] /\ i = ends[n]
      OBVIOUS
    <3>2. Scanned(e, i)'
      BY <1>7, <2>1, <2>2, <3>1
    <3>3. e = published'[n]
      BY <1>8, <3>1
    <3>4. QED
      BY <3>1, <3>2, <3>3, Zenon DEF Scanned
  <2>3. QED
    BY <1>4, <1>8, <2>1, <2>2, Zenon DEF PublishedOK
<1>9. QED
  BY <1>3, <1>4, <1>5, <1>6, <1>8, Zenon

\* The buffers are reset behind the frame that was published.
LEMMA ResetInd ==
  ASSUME FrameTypeOK, PublishedOK, Len(read) \in Carrying, ResetFrame
  PROVE  FrameTypeOK' /\ PublishedOK' /\ Collecting'
<1>1. currentEvent' = "" /\ currentData' = <<>> /\ UNCHANGED <<published, read>>
  BY DEF ResetFrame
<1>2. FrameTypeOK'
  <2>1. <<>> \in Seq(Texts \cup {""})
    BY EmptySeq
  <2>2. QED
    BY <1>1, <2>1 DEF FrameTypeOK
<1>3. PublishedOK'
  BY <1>1, SameRead
<1>4. Len(read) \in Nat /\ Len(read) \in Blanks
  BY LenProperties DEF FrameTypeOK, Carrying
<1>5. FrameOf(Len(read) + 1) = {}
  BY <1>4 DEF FrameOf
<1>6. DataAt(Len(read) + 1) = {}
  BY <1>5 DEF DataAt
<1>7. EventsAt(Len(read) + 1) = {}
  BY <1>4 DEF EventsAt
<1>8. DataAt(Len(read) + 1)' = {} /\ EventsAt(Len(read) + 1)' = {}
  <2>1. PICK i : i = Len(read) + 1
    OBVIOUS
  <2>2. DataAt(i)' = {} /\ EventsAt(i)' = {}
    BY <1>1, <1>6, <1>7, <2>1, SameRead
  <2>3. Len(read') + 1 = i
    BY <1>1, <2>1
  <2>4. QED
    BY <2>2, <2>3, Zenon
<1>9. QED
  <2>1. TextsAt(<<>>, {})' /\ NameAt("", {})'
    BY EmptyBuffers
  <2>2. TextsAt(currentData, DataAt(Len(read) + 1))' /\ NameAt(currentEvent, EventsAt(Len(read) + 1))'
    BY <1>1, <1>8, <2>1, Zenon DEF TextsAt, NameAt
  <2>3. QED
    BY <1>2, <1>3, <2>2, Zenon DEF Collecting

\* The scanner's part of the invariant.
ScanOK == FrameTypeOK /\ PublishedOK /\ BuffersOK

\* A new reader has read nothing.
LEMMA FreshReader ==
  /\ FrameInit => FrameTypeOK /\ PublishedOK /\ Collecting
  /\ NewReader => FrameTypeOK' /\ PublishedOK' /\ Collecting'
<1>1. /\ <<>> \in Seq(Lines) /\ <<>> \in Seq(Texts \cup {""})
      /\ <<>> \in Seq([type : Names \cup {Default}, data : Seq(Texts \cup {""})])
  BY EmptySeq
<1>2. [n \in {} |-> 0] \in [{} -> {}] /\ Lists([n \in {} |-> 0], {})
  BY DEF Lists
<1>3. Len(<<>>) = 0 /\ DOMAIN <<>> = {}
  OBVIOUS
<1>4. ASSUME FrameInit PROVE FrameTypeOK /\ PublishedOK /\ Collecting
  <2>1. currentEvent = "" /\ currentData = <<>> /\ published = <<>> /\ read = <<>>
    BY <1>4 DEF FrameInit
  <2>2. FrameTypeOK
    BY <1>1, <2>1 DEF FrameTypeOK
  <2>3. Carrying = {} /\ DataAt(1) = {} /\ EventsAt(1) = {}
    <3>1. Blanks = {}
      BY <1>3, <2>1, Zenon DEF Blanks
    <3>2. FrameOf(1) = {} /\ EventsAt(1) = {}
      BY DEF FrameOf, EventsAt
    <3>3. QED
      BY <3>1, <3>2 DEF Carrying, DataAt
  <2>4. PublishedOK
    <3>1. DOMAIN published = {}
      BY <1>3, <2>1, Zenon
    <3>2. QED
      BY <1>2, <2>3, <3>1, Zenon DEF PublishedOK
  <2>5. Len(read) + 1 = 1
    <3>1. Len(read) = 0
      BY <1>3, <2>1, Zenon
    <3>2. QED
      BY <3>1
  <2>6. Collecting
    BY <2>1, <2>3, <2>5, EmptyBuffers DEF Collecting
  <2>7. QED
    BY <2>2, <2>4, <2>6
<1>5. ASSUME NewReader PROVE FrameTypeOK' /\ PublishedOK' /\ Collecting'
  <2>1. currentEvent' = "" /\ currentData' = <<>> /\ published' = <<>> /\ read' = <<>>
    BY <1>5 DEF NewReader
  <2>2. FrameTypeOK'
    BY <1>1, <2>1 DEF FrameTypeOK
  <2>3. Carrying' = {} /\ DataAt(1)' = {} /\ EventsAt(1)' = {}
    <3>1. Blanks' = {}
      BY <1>3, <2>1, Zenon DEF Blanks
    <3>2. FrameOf(1)' = {} /\ EventsAt(1)' = {}
      BY DEF FrameOf, EventsAt
    <3>3. QED
      BY <3>1, <3>2 DEF Carrying, DataAt
  <2>4. PublishedOK'
    <3>1. DOMAIN published' = {}
      BY <1>3, <2>1, Zenon
    <3>2. QED
      BY <1>2, <2>3, <3>1, Zenon DEF PublishedOK
  <2>5. Len(read') + 1 = 1
    <3>1. Len(read') = 0
      BY <1>3, <2>1, Zenon
    <3>2. QED
      BY <3>1
  <2>6. TextsAt(<<>>, {})' /\ NameAt("", {})'
    BY EmptyBuffers
  <2>7. TextsAt(currentData, DataAt(1))' /\ NameAt(currentEvent, EventsAt(1))'
    BY <2>1, <2>3, <2>6, Zenon DEF TextsAt, NameAt
  <2>8. Collecting'
    BY <2>5, <2>7, Zenon DEF Collecting
  <2>9. QED
    BY <2>2, <2>4, <2>8
<1>6. QED
  BY <1>4, <1>5

\* A step that reads no line and does not begin or end the publishing of a frame.
LEMMA IdleScan ==
  ASSUME ScanOK, UNCHANGED frameVars,
         (kind = "sse" /\ pc = "publish")' <=> (kind = "sse" /\ pc = "publish")
  PROVE  ScanOK'
<1>1. read' = read /\ published' = published /\ currentData' = currentData /\ currentEvent' = currentEvent
  BY DEF frameVars
<1>2. FrameTypeOK' /\ PublishedOK'
  BY <1>1, SameRead DEF ScanOK, FrameTypeOK
<1>3. (Len(read) \in Carrying)' <=> Len(read) \in Carrying
  BY <1>1, SameRead
<1>4. Collecting => Collecting'
  <2>1. PICK i, texts, name : i = Len(read) + 1 /\ texts = currentData /\ name = currentEvent
    OBVIOUS
  <2>2. PICK A, B : A = DataAt(i) /\ B = EventsAt(i)
    OBVIOUS
  <2>3. A = DataAt(i)' /\ B = EventsAt(i)'
    BY <1>1, <2>2, SameRead
  <2>4. Collecting => TextsAt(texts, A)' /\ NameAt(name, B)'
    BY <1>1, <2>1, <2>2, SameRead DEF Collecting
  <2>5. i = Len(read') + 1 /\ texts = currentData' /\ name = currentEvent'
    BY <1>1, <2>1
  <2>6. QED
    BY <2>3, <2>4, <2>5, Zenon DEF Collecting
<1>5. BuffersOK'
  BY <1>3, <1>4 DEF ScanOK, BuffersOK
<1>6. QED
  BY <1>2, <1>5 DEF ScanOK

\* Every step keeps the scanner's part.
LEMMA ScanInd == IndInv /\ ScanOK /\ [Next]_vars => ScanOK'
<1>1. SUFFICES ASSUME IndInv, ScanOK, [Next]_vars PROVE ScanOK'
  OBVIOUS
<1>2. StageOK
  BY <1>1 DEF IndInv
<1>3. CASE ReadLine
  <2>1. pc = "read" /\ pc' = pc /\ FrameLine
    BY <1>3 DEF ReadLine
  <2>2. Collecting
    BY <1>1, <2>1 DEF ScanOK, BuffersOK
  <2>3. FrameTypeOK' /\ PublishedOK' /\ Collecting'
    BY <1>1, <2>1, <2>2, LineInd DEF ScanOK
  <2>4. QED
    BY <2>1, <2>3 DEF ScanOK, BuffersOK
<1>4. CASE ReadFrame
  <2>1. kind = "sse" /\ kind' = kind /\ pc = "read" /\ pc' = "publish" /\ EndFrame
    BY <1>4 DEF ReadFrame, runVars
  <2>2. Collecting
    BY <1>1, <2>1 DEF ScanOK, BuffersOK
  <2>3. FrameTypeOK' /\ PublishedOK' /\ (Len(read) \in Carrying)'
    BY <1>1, <2>1, <2>2, FrameInd DEF ScanOK
  <2>4. QED
    BY <2>1, <2>3 DEF ScanOK, BuffersOK
<1>5. CASE Published /\ kind = "sse"
  <2>1. pc = "publish" /\ pc' = "read" /\ ResetFrame
    BY <1>5 DEF Published, LoopTop
  <2>2. FrameTypeOK' /\ PublishedOK' /\ Collecting'
    BY <1>1, <1>5, <2>1, ResetInd DEF ScanOK, BuffersOK
  <2>3. QED
    BY <2>1, <2>2 DEF ScanOK, BuffersOK
<1>6. CASE Ready
  <2>1. pc' # "publish" /\ NewReader
    BY <1>6 DEF Ready, LoopTop
  <2>2. FrameTypeOK' /\ PublishedOK' /\ Collecting'
    BY <2>1, FreshReader
  <2>3. QED
    BY <2>1, <2>2 DEF ScanOK, BuffersOK
<1>7. CASE UNCHANGED vars \/ Gone \/ Cancel \/ \E r \in Runs : WatcherCloses(r) \/ WatcherLeaves(r)
  BY <1>1, <1>7, IdleScan DEF vars, runVars, Gone, Cancel, WatcherCloses, WatcherLeaves
<1>8. CASE Run \/ Connected \/ DialFails \/ SetupFails \/ Check \/ ReadEnds
  BY <1>1, <1>8, IdleScan DEF Run, Connected, DialFails, SetupFails, Check, ReadEnds, Leave
<1>9. CASE ReadMessage \/ (Published /\ kind # "sse")
  BY <1>1, <1>9, IdleScan DEF ReadMessage, Published, runVars
<1>10. CASE Polling
  BY <1>1, <1>2, <1>10, IdleScan DEF Polling, PollBody, PollDone, PollFails, TickerFires,
                                     StopPolling, Leave, StageOK
<1>11. QED
  BY <1>1, <1>3, <1>4, <1>5, <1>6, <1>7, <1>8, <1>9, <1>10 DEF Next, Streaming

\* An event: line behind one of the frame is of the frame.
LEMMA LaterName ==
  ASSUME NEW i \in Nat, \A b \in Blanks : b \in Nat,
         NEW k \in 1..(i - 1), read[k].field = "event", NEW j \in NamesAt(i), j <= k
  PROVE  k \in NamesAt(i)
<1>1. j \in 1..(i - 1) /\ \A b \in Blanks : b < i => b < j
  BY DEF NamesAt, FrameOf
<1>2. \A b \in Blanks : b < i => b < k
  BY <1>1
<1>3. QED
  BY <1>2 DEF NamesAt, FrameOf

\* The name the scanner goes by is the frame's own, if the frame gives one or no
\* earlier one was left over.
LEMMA ScannedIsEvent ==
  ASSUME read \in Seq(Lines), NEW i \in Carrying, NEW e, Scanned(e, i)
  PROVE  EventOf(e, i)
<1>1. i \in Nat /\ \A b \in Blanks : b \in Nat
  BY DEF Carrying, Blanks
<1>2. NamesAt(i) \subseteq EventsAt(i)
  BY DEF NamesAt, FrameOf, EventsAt, Carrying
<1>3. PICK name \in Names \cup {""} :
        NameAt(name, EventsAt(i)) /\ e.type = IF name = "" THEN Default ELSE name
  BY DEF Scanned
<1>4. CASE EventsAt(i) = {}
  <2>1. NameAt(name, NamesAt(i))
    BY <1>2, <1>3, <1>4 DEF NameAt
  <2>2. QED
    BY <1>3, <2>1 DEF Scanned, EventOf, OwnName
<1>5. CASE NamesAt(i) # {}
  <2>1. PICK k \in EventsAt(i) : (\A j \in EventsAt(i) : j <= k) /\ name = read[k].value
    BY <1>2, <1>3, <1>5 DEF NameAt
  <2>2. PICK j \in NamesAt(i) : j <= k
    BY <1>2, <1>5, <2>1
  <2>3. k \in NamesAt(i)
    BY <1>1, <2>1, <2>2, LaterName DEF EventsAt
  <2>4. NameAt(name, NamesAt(i))
    BY <1>2, <2>1, <2>3 DEF NameAt
  <2>5. QED
    BY <1>3, <2>4 DEF Scanned, EventOf, OwnName
<1>6. CASE EventsAt(i) # {} /\ NamesAt(i) = {}
  <2>1. NameLeftOver(i)
    BY <1>6 DEF NameLeftOver, EventsAt
  <2>2. QED
    BY <2>1 DEF Scanned, EventOf
<1>7. QED
  BY <1>4, <1>5, <1>6

\* Whatever lines the endpoints of any number of sessions send, and wherever a
\* session breaks off: what the SSE reader hands to publish is, one for one and in
\* order, the frames of this session that carry data, each with its own texts and its
\* own name, but for a name that a frame without data left over (sse.go, readLoop).
THEOREM FramesHold == Spec => []OneEventPerFrame
<1>1. Init => IndInv /\ ScanOK
  <2>1. SUFFICES ASSUME Init PROVE ScanOK
    BY InitInd
  <2>2. pc = "idle" /\ FrameInit
    BY <2>1 DEF Init
  <2>3. QED
    BY <2>2, FreshReader DEF ScanOK, BuffersOK
<1>2. ScanOK => OneEventPerFrame
  <2>1. SUFFICES ASSUME ScanOK PROVE OneEventPerFrame
    OBVIOUS
  <2>2. FrameTypeOK /\ read \in Seq(Lines)
    BY <2>1 DEF ScanOK, FrameTypeOK
  <2>3. PICK ends \in [DOMAIN published -> Carrying] :
          Lists(ends, Carrying) /\ \A n \in DOMAIN published : Scanned(published[n], ends[n])
    BY <2>1 DEF ScanOK, PublishedOK
  <2>4. ASSUME NEW n \in DOMAIN published PROVE EventOf(published[n], ends[n])
    BY <2>2, <2>3, <2>4, ScannedIsEvent
  <2>5. QED
    BY <2>2, <2>3, <2>4 DEF OneEventPerFrame
<1>3. QED
  BY <1>1, <1>2, NextInd, ScanInd, PTL DEF Spec
============================================================================
