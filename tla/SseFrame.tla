------------------------------ MODULE SseFrame ------------------------------
(***************************************************************************)
(* What the plugin sends for one frame (sse.go:51-163, executor.go:220):   *)
(* the frame with the model renamed, or for an OpenAI client only its      *)
(* data.  A frame is a sequence of SseText's tokens.                       *)
(***************************************************************************)
EXTENDS Naturals, Sequences, FiniteSets, SequencesExt, SseText

Nth(S, j) == CHOOSE i \in S : Cardinality({k \in S : k < i}) = j - 1

\* strings.Split: the pieces of s between separators of the given width that
\* end at ends.
Pieces(s, ends, width) ==
  LET n == Cardinality(ends)
      From(j) == IF j = 1 THEN 1 ELSE Nth(ends, j - 1) + 1
      To(j) == IF j > n THEN Len(s) ELSE Nth(ends, j) - width
  IN  [j \in 1..(n + 1) |-> SubSeq(s, From(j), To(j))]

\* strings.Join
Joined(parts, separator) ==
  FlattenSeq([j \in DOMAIN parts |->
                IF j = 1 THEN parts[j] ELSE separator \o parts[j]])

IsData(line) == line # << >> /\ Head(line) = DATA

\* The value of a data line for an OpenAI client: one leading space is cut.
Value(line) ==
  IF Len(line) > 1 /\ line[2] = SP THEN SubSeq(line, 3, Len(line)) ELSE Tail(line)

\* rewriteResponseModels on a text that is a JSON object naming the native
\* model, around or across white space; any other text is left alone.
Names(text, object) == SelectSeq(text, LAMBDA t : t \notin {CR, LF, SP}) = object

RenamesModel(text) == \E o \in {<<NATIVE>>, <<NATIVEHEAD, TAIL>>} : Names(text, o)

rewriteResponseModels(text) ==
  IF ~RenamesModel(text) THEN text
  ELSE [i \in DOMAIN text |->
          CASE text[i] = NATIVE -> ALIAS
            [] text[i] = NATIVEHEAD -> ALIASHEAD
            [] OTHER -> text[i]]

\* The separator is the longer one if the frame has it anywhere.
CrlfEnds(s) == {i \in DOMAIN s : i > 1 /\ s[i] = LF /\ s[i - 1] = CR}

Separator(frame) == IF CrlfEnds(frame) # {} THEN <<CR, LF>> ELSE <<LF>>

\* The blank line at the end, if it is made of that separator.
Ending(frame) ==
  LET twice == Separator(frame) \o Separator(frame)
  IN  IF IsSuffix(twice, frame) THEN twice ELSE << >>

Body(frame) == SubSeq(frame, 1, Len(frame) - Len(Ending(frame)))

\* What strings.Split makes of the body.
Lines(frame) ==
  LET body == Body(frame)
  IN  IF Separator(frame) = <<LF>>
      THEN Pieces(body, {i \in DOMAIN body : body[i] = LF}, 1)
      ELSE Pieces(body, CrlfEnds(body), 2)

TrimSpace(text) ==
  LET ink == {i \in DOMAIN text : text[i] \notin {CR, LF, SP}}
  IN  IF ink = {} THEN << >>
      ELSE SubSeq(text, Nth(ink, 1), Nth(ink, Cardinality(ink)))

\* Mutant of rewriteLine: a space is required after the colon.
rewriteLineSpaced(line) ==
  IF IsData(line) /\ RenamesModel(Tail(line)) /\ line[2] = SP
  THEN <<DATA, SP>> \o rewriteResponseModels(TrimSpace(Tail(line)))
  ELSE line

\* Blank data and [DONE] name no model, so they need no test of their own.
rewriteLine(line) ==
  IF IsData(line) /\ RenamesModel(Tail(line))
  THEN <<DATA, SP>> \o rewriteResponseModels(TrimSpace(Tail(line)))
  ELSE line

rewriteSSEFrame(frame) ==
  LET lines == Lines(frame)
  IN  Joined([j \in DOMAIN lines |-> rewriteLine(lines[j])], Separator(frame))
        \o Ending(frame)

\* The data of the frame; nothing if it is not to be sent.
openAIStreamPayload(frame) ==
  LET fields == SelectSeq(Lines(frame), IsData)
      payload == Joined([j \in DOMAIN fields |-> Value(fields[j])], <<LF>>)
  IN  IF TrimSpace(payload) \in {<< >>, <<DONE>>} THEN << >>
      ELSE rewriteResponseModels(payload)
=============================================================================
