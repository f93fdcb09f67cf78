----------------------------- MODULE SseDecoder -----------------------------
(***************************************************************************)
(* sseDecoder (sse.go:11-49) as pumpStream drives it: chunks of a response *)
(* are fed, frames come out, and what is left at the end is flushed.       *)
(* Positions stand for bytes: sseDecoder.buffer is text[start+1 .. fed].   *)
(***************************************************************************)
EXTENDS SseFrame

CONSTANT Responses   \* the texts that OpenRouter may send

ASSUME ResponsesAssumption == Responses \subseteq Seq(STRING)

VARIABLES
  text,    \* the response
  fed,     \* its length received so far
  start,   \* the part of it that is no longer in the buffer
  ends,    \* where the frames taken out end, in order
  pc       \* "read", "scan" (in Feed's loop), "flush", "close" or "done"

vars == <<text, fed, start, ends, pc>>

Init ==
  /\ text \in Responses
  /\ fed = 0
  /\ start = 0
  /\ ends = << >>
  /\ pc = "read"

\* A chunk: any part of what is to come, cut anywhere.
Feed ==
  /\ pc = "read"
  /\ \E n \in (fed + 1)..Len(text) : fed' = n
  /\ pc' = "scan"
  /\ UNCHANGED <<text, start, ends>>

\* bytes.Index of each kind of blank line in the buffer: where it begins.
LfIndexes ==
  {i \in (start + 1)..(fed - 1) : text[i] = LF /\ text[i + 1] = LF}

CrlfIndexes ==
  {i \in (start + 1)..(fed - 3) :
     /\ text[i] = CR /\ text[i + 1] = LF
     /\ text[i + 2] = CR /\ text[i + 3] = LF}

\* Mutants of nextFrameDelimiter: LF LF is preferred wherever it is; every
\* blank line counts four.
LfFirst(i, length) ==
  \/ i \in LfIndexes /\ length = 2 /\ \A k \in LfIndexes : i <= k
  \/ /\ i \in CrlfIndexes /\ length = 4 /\ LfIndexes = {}
     /\ \A k \in CrlfIndexes : i <= k

AlwaysFour(i, length) ==
  /\ \A k \in LfIndexes \cup CrlfIndexes : i <= k
  /\ length = 4

\* The one that begins first, and its length.
nextFrameDelimiter(i, length) ==
  /\ i \in LfIndexes \cup CrlfIndexes
  /\ \A k \in LfIndexes \cup CrlfIndexes : i <= k
  /\ length = IF i \in LfIndexes THEN 2 ELSE 4

\* One turn of the loop: a frame up to and with its delimiter.
TakeFrame ==
  /\ pc = "scan"
  /\ \E i \in LfIndexes \cup CrlfIndexes, length \in {2, 4} :
       /\ nextFrameDelimiter(i, length)
       /\ start' = i + length - 1
       /\ ends' = Append(ends, i + length - 1)
  /\ UNCHANGED <<text, fed, pc>>

\* Mutant of FeedReturns: one frame per chunk.
FeedReturnsEarly ==
  /\ pc = "scan"
  /\ pc' \in {"read", "flush"}
  /\ pc' = "flush" => fed = Len(text)
  /\ UNCHANGED <<text, fed, start, ends>>

\* No delimiter is left: on to the next chunk, or to Flush after the last.
FeedReturns ==
  /\ pc = "scan"
  /\ LfIndexes \cup CrlfIndexes = {}
  /\ pc' \in {"read", "flush"}
  /\ pc' = "flush" => fed = Len(text)
  /\ UNCHANGED <<text, fed, start, ends>>

\* Mutant of Flush: the rest is dropped.
FlushDrops ==
  /\ pc = "flush"
  /\ start' = fed
  /\ pc' = "close"
  /\ UNCHANGED <<text, fed, ends>>

\* A rest that is not empty is a frame without a delimiter.
Flush ==
  /\ pc = "flush"
  /\ start' = fed
  /\ ends' = IF start < fed THEN Append(ends, fed) ELSE ends
  /\ pc' = "close"
  /\ UNCHANGED <<text, fed>>

\* pumpStream returns, and its deferred CloseOutput ends the client's stream.
Close ==
  /\ pc = "close"
  /\ pc' = "done"
  /\ UNCHANGED <<text, fed, start, ends>>

Next == Feed \/ TakeFrame \/ FeedReturns \/ Flush \/ Close

Spec == Init /\ [][Next]_vars

-----------------------------------------------------------------------------

\* The frames, and what outputStreamPayload makes of them for either kind of
\* client: a sequence of payloads, or a stream of events.
Frame(j) == SubSeq(text, IF j = 1 THEN 1 ELSE ends[j - 1] + 1, ends[j])

OpenAIPayloads ==
  SelectSeq([j \in DOMAIN ends |-> openAIStreamPayload(Frame(j))],
            LAMBDA p : p # << >>)

EventPayloads == FlattenSeq([j \in DOMAIN ends |-> rewriteSSEFrame(Frame(j))])

\* Every variable has its type.
TypeOK ==
  /\ text \in Seq(STRING)
  /\ fed \in 0..Len(text)
  /\ start \in 0..fed
  /\ ends \in Seq(1..Len(text))
  /\ pc \in {"read", "scan", "flush", "close", "done"}

\* A blank line after position a of s is complete at b.
Completes(s, a, b) ==
  \/ a + 2 <= b /\ s[b - 1] = LF /\ s[b] = LF
  \/ a + 4 <= b /\ s[b - 3] = CR /\ s[b - 2] = LF /\ s[b - 1] = CR /\ s[b] = LF

\* However the response is cut, also inside a delimiter, a frame goes from the
\* end of the one before it to the first blank line that is complete after
\* that, and only the last may lack one (sse.go:17-49).
FramesAreWhole ==
  \A j \in DOMAIN ends :
    LET a == IF j = 1 THEN 0 ELSE ends[j - 1]
    IN  /\ a < ends[j]
        /\ \/ Completes(text, a, ends[j])
           \/ j = Len(ends) /\ ends[j] = Len(text) /\ pc \in {"close", "done"}
        /\ \A b \in (a + 1)..(ends[j] - 1) : ~Completes(text, a, b)

\* An event does not wait for the chunk after the one it is complete in, and
\* when the stream has ended nothing of it is left (sse.go:20, 29).
NothingIsWithheld ==
  /\ pc \in {"read", "flush"} => \A b \in (start + 1)..fed : ~Completes(text, start, b)
  /\ pc \in {"close", "done"} => start = Len(text)

\* A line begins at p, and whether it is blank, by the standard's rules (a lone
\* CR aside) and not by the delimiters the code looks for.
LineStart(p) == p = 1 \/ text[p - 1] = LF
Blank(p) == text[p] = LF \/ (text[p] = CR /\ p < Len(text) /\ text[p + 1] = LF)

\* A blank line of CR LF follows only lines that CR LF ends too.
BlanksMatch ==
  \A i \in 2..Len(text) : LineStart(i) /\ Blank(i) /\ text[i] = CR
                            => i > 2 /\ text[i - 2] = CR

\* What a client of event streams relies on: no line is cut in two, and of the
\* lines taken out so far two that are not blank are in one frame if and only if
\* no blank line is between them.  For LF CR LF it does not hold: that ends an
\* event and no frame (sse.go:33-49).
FramesAreEvents ==
  BlanksMatch =>
    /\ \A j \in DOMAIN ends : ends[j] = Len(text) \/ text[ends[j]] = LF
    /\ \A p, q \in {i \in 1..start : LineStart(i) /\ ~Blank(i)} :
         p < q => ((\E e \in Range(ends) : p <= e /\ e < q)
                     <=> \E b \in p..q : LineStart(b) /\ Blank(b))

\* Where the frame that begins after position a ends, from the text alone.
FrameEnd(a) ==
  LET found == {b \in (a + 1)..Len(text) : Completes(text, a, b)}
  IN  IF found = {} THEN Len(text)
      ELSE CHOOSE b \in found : \A c \in found : b <= c

\* The ends of all frames after position a; of all frames.
After[a \in 0..Len(text)] ==
  IF a = Len(text) THEN {} ELSE {FrameEnd(a)} \cup After[FrameEnd(a)]

FrameEnds == After[0]

R == INSTANCE Relay WITH
  events <- FrameEnds, sent <- ends, ending <- IF pc = "done" THEN "clean" ELSE "open"

\* The decoder implements Relay: frames depend on the text and not on the
\* chunks, each is sent once and in order, and the stream ends after the last.
ImplementsRelay == R!Spec

\* What they rest on: the buffer begins where the last frame ends.
BufferInv ==
  /\ start = IF ends = << >> THEN 0 ELSE ends[Len(ends)]
  /\ pc \in {"flush", "close", "done"} => fed = Len(text)

\* And the frames of the text are those taken out and those after the buffer's
\* beginning.
DueInv ==
  /\ \A j \in DOMAIN ends : ends[j] <= start
  /\ FrameEnds = Range(ends) \cup After[start]

IInv == TypeOK /\ BufferInv /\ FramesAreWhole /\ NothingIsWithheld /\ DueInv
=============================================================================
