---------------------------- MODULE MCSseDecoder ----------------------------
(* SseDecoder over every response of up to MaxLines lines, each ended by LF *)
(* or CR LF, that may break off in the next line; an object may take two    *)
(* lines.  What clients read is compared with what EventStream finds.       *)
EXTENDS SseDecoder, EventStream

CONSTANT MaxLines

Line == {<< >>, <<DATA, NATIVE>>, <<DATA, SP, NATIVEHEAD>>, <<DATA, SP, TAIL>>,
         <<"text">>, <<DATA, SP, DONE>>}
Ended == {line \o e : line \in Line, e \in {<<LF>>, <<CR, LF>>}}
Broken == {<< >>, <<DATA, SP, NATIVE>>, <<DATA, NATIVE, CR>>}

MCResponses ==
  {FlattenSeq(lines) \o rest :
     lines \in UNION {[1..n -> Ended] : n \in 0..MaxLines}, rest \in Broken}

\* A client reads what OpenRouter sent, event by event, with the model renamed:
\* an OpenAI client the data of each event that has any, the others an event
\* stream of as many events, with the same data but for the objects that have a
\* line of their own.  Nothing is said of the name in an object that takes
\* several lines (see SlugsAreChangedBack), nor of streams that mix both line
\* ends, where the frames are not the events (sse.go:51-117).
ClientsReadTheEvents ==
  pc = "done" /\ Uniform(text) =>
    LET events == EventsOf(text)
        due == SelectSeq([e \in DOMAIN events |-> DataOf(events[e])],
                         LAMBDA data : data \notin {<< >>, <<DONE>>})
        seen == EventsOf(EventPayloads)
    IN  /\ OpenAIPayloads = [n \in DOMAIN due |-> Aliased(due[n])]
        /\ DOMAIN seen = DOMAIN events
        /\ \A e \in DOMAIN events :
             /\ DOMAIN seen[e] = DOMAIN events[e]
             /\ \A j \in DOMAIN events[e] : seen[e][j] = Aliased(events[e][j])

\* What README.md:78 says of responses: native model slugs are changed back to
\* their public aliases, so no client reads an event whose data is an object
\* that names the native model.  Claude and Responses clients do, when the
\* object takes several data lines: each line is parsed alone (sse.go:64-77).
\* Only responses that end with a blank line count, whose last event is whole.
SlugsAreChangedBack ==
  pc = "done" /\ Uniform(text) /\ Completes(text, 0, Len(text)) =>
    /\ \A data \in Range(OpenAIPayloads) : ~NamesNative(data)
    /\ \A event \in Range(EventsOf(EventPayloads)) : ~NamesNative(DataOf(event))
=============================================================================
