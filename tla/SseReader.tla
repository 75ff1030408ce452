----------------------------- MODULE SseReader -----------------------------
(***************************************************************************)
(* The frame scanner of internal/connector/sse.go (readLoop): it collects  *)
(* the event: and data: lines of a frame and publishes at the blank line   *)
(* that ends it.  A data line is its text, "" included; the buffer         *)
(* currentData is the sequence of the texts it joins with newlines.        *)
(* Module PullSource has the sessions that call it.                        *)
(***************************************************************************)
EXTENDS Integers, Sequences

CONSTANTS
  Names,     \* event names
  Texts,     \* data texts other than ""
  Default,   \* "sse_message"
  MaxLines   \* bound on the lines of one session

ASSUME SseReaderAssumption == Default \notin Names /\ "" \notin Names /\ MaxLines \in Nat

Blank == [field |-> "blank", value |-> ""]
Lines == {Blank} \cup [field : {"event"}, value : Names \cup {""}]
                 \cup [field : {"data"}, value : Texts \cup {""}]
                 \cup [field : {"other"}, value : {""}]

VARIABLES
  currentEvent, currentData,
  published,  \* history: the events this session handed to publish
  read        \* history: the lines this session read

frameVars == <<currentEvent, currentData, published, read>>

FrameInit == currentEvent = "" /\ currentData = <<>> /\ published = <<>> /\ read = <<>>

\* A call of readLoop declares its buffers.
NewReader == currentEvent' = "" /\ currentData' = <<>> /\ published' = <<>> /\ read' = <<>>

\* Scan returns line l.
Scan(l) ==
  /\ Len(read) < MaxLines
  /\ read' = Append(read, l)

\* A blank line with nothing collected is skipped.
EmptyFrame ==
  /\ currentData = <<>>
  /\ Scan(Blank)
  /\ UNCHANGED <<currentEvent, currentData, published>>

EventLine(name) ==
  /\ Scan([field |-> "event", value |-> name])
  /\ currentEvent' = name
  /\ UNCHANGED <<currentData, published>>

\* Texts are joined by newlines; an empty one leaves an empty buffer empty.
DataLine(text) ==
  /\ Scan([field |-> "data", value |-> text])
  /\ currentData' = IF currentData = <<>> /\ text = "" THEN <<>> ELSE Append(currentData, text)
  /\ UNCHANGED <<currentEvent, published>>

\* Comments and other fields.
OtherLine ==
  /\ Scan([field |-> "other", value |-> ""])
  /\ UNCHANGED <<currentEvent, currentData, published>>

\* A line that does not end a frame with data in it.
FrameLine ==
  \/ EmptyFrame \/ OtherLine
  \/ \E name \in Names \cup {""} : EventLine(name)
  \/ \E text \in Texts \cup {""} : DataLine(text)

\* The blank line that ends a frame: its event goes to publish.
EndFrame ==
  /\ currentData # <<>>
  /\ Scan(Blank)
  /\ published' = Append(published,
       [type |-> IF currentEvent = "" THEN Default ELSE currentEvent, data |-> currentData])
  /\ UNCHANGED <<currentEvent, currentData>>

\* Both buffers are reset once publish has returned.
ResetFrame ==
  /\ currentEvent' = ""
  /\ currentData' = <<>>
  /\ UNCHANGED <<published, read>>

---------------------------------------------------------------------------
(* What the frames of the input are, read off the whole of it.  The frame  *)
(* of a position is what comes before it; the position after the last line *)
(* stands for the frame still to be ended.                                 *)

Blanks == {i \in DOMAIN read : read[i] = Blank}

\* The lines of the frame that ends at i.
FrameOf(i) == {k \in 1..(i - 1) : \A b \in Blanks : b < i => b < k}

\* Its data lines, from the first one that is not empty.
Texty(k) == read[k].field = "data" /\ read[k].value # ""
DataAt(i) ==
  {k \in FrameOf(i) : read[k].field = "data" /\ \E j \in FrameOf(i) : j <= k /\ Texty(j)}

\* The blank lines that end a frame with data in it.
Carrying == {i \in Blanks : DataAt(i) # {}}

\* The event: lines of the frame that ends at i.
NamesAt(i) == {k \in FrameOf(i) : read[k].field = "event"}

\* at lists the positions P in their order.
Lists(at, P) ==
  /\ \A p \in P : \E n \in DOMAIN at : at[n] = p
  /\ \A m, n \in DOMAIN at : m < n => at[m] < at[n]

\* The texts at P, in order; the name that the last of P gives.
TextsAt(texts, P) ==
  \E at \in [DOMAIN texts -> P] : Lists(at, P) /\ \A n \in DOMAIN texts : texts[n] = read[at[n]].value
NameAt(name, P) ==
  IF P = {} THEN name = "" ELSE \E k \in P : (\A j \in P : j <= k) /\ name = read[k].value

\* The event has the name of the frame that ends at i, or the default one.
OwnName(event, i) ==
  \E name \in Names \cup {""} :
    NameAt(name, NamesAt(i)) /\ event.type = IF name = "" THEN Default ELSE name

\* The frame that ends at i gives no name, and one without data before it, since the
\* last event, gave one.
NameLeftOver(i) ==
  /\ NamesAt(i) = {}
  /\ \E k \in 1..(i - 1) : read[k].field = "event" /\ \A b \in Carrying : b < i => b < k

\* The event that the frame ending at i is.
EventOf(event, i) == TextsAt(event.data, DataAt(i)) /\ (NameLeftOver(i) \/ OwnName(event, i))

---------------------------------------------------------------------------
(* Properties.                                                             *)

\* Types of the buffers and of the histories.
FrameTypeOK ==
  /\ currentEvent \in Names \cup {""}
  /\ currentData \in Seq(Texts \cup {""})
  /\ published \in Seq([type : Names \cup {Default}, data : Seq(Texts \cup {""})])
  /\ read \in Seq(Lines)

\* The scanner against the definition of a frame, in every session: one event for
\* each frame that carries data, in order, with that frame's texts and that frame's
\* name (unless a frame without data has left a name over, which FramesNamed is
\* about).  None is lost, repeated, split or merged, and what a broken-off session
\* left of a frame does not reach the next one.
OneEventPerFrame ==
  /\ FrameTypeOK
  /\ \E ends \in [DOMAIN published -> Carrying] :
       Lists(ends, Carrying) /\ \A n \in DOMAIN published : EventOf(published[n], ends[n])

\* What the README says of the type, "SSE uses the `event:` frame name", where an
\* "Empty line means end of the event" (sse.go): every event has the name of its own
\* frame.
FramesNamed ==
  \E ends \in [DOMAIN published -> Carrying] :
    Lists(ends, Carrying) /\ \A n \in DOMAIN published : OwnName(published[n], ends[n])
=============================================================================
