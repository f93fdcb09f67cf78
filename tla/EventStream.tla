---------------------------- MODULE EventStream ----------------------------
(***************************************************************************)
(* Abstract: what a client of server-sent events reads in a stream, as the *)
(* standard parses one: token by token, line by line, with no notion of    *)
(* chunks, frames or separators.  It shares the alphabet with the model of *)
(* the code (SseFrame, SseDecoder) and no operator.                        *)
(***************************************************************************)
EXTENDS Naturals, Sequences, SequencesExt, SseText

\* What a parser has in hand: whether the last token was a CR, the line, the
\* data values of the event so far, and the events that were dispatched.
Empty == [cr |-> FALSE, line |-> << >>, data |-> << >>, events |-> << >>]

\* A blank line dispatches the event, if it has data.
Dispatch(parser) ==
  [parser EXCEPT !.data = << >>,
                 !.events = IF parser.data = << >> THEN @ ELSE Append(@, parser.data)]

\* Another line is a data field, with one leading space that does not count, or
\* it is a comment or a field of no interest.
Field(parser) ==
  [parser EXCEPT
     !.line = << >>,
     !.data = CASE parser.line[1] # DATA -> @
                [] IsPrefix(<<DATA, SP>>, parser.line) ->
                     Append(@, Tail(Tail(parser.line)))
                [] OTHER -> Append(@, Tail(parser.line))]

EndLine(parser) == IF parser.line = << >> THEN Dispatch(parser) ELSE Field(parser)

\* A line ends with CR LF, LF or CR.
Read(parser, token) ==
  CASE token = CR -> [EndLine(parser) EXCEPT !.cr = TRUE]
    [] token = LF /\ parser.cr -> [parser EXCEPT !.cr = FALSE]
    [] token = LF /\ ~parser.cr -> EndLine(parser)
    [] OTHER -> [parser EXCEPT !.cr = FALSE, !.line = Append(@, token)]

\* The events of a stream, each the sequence of its data values.  What follows
\* the last blank line is one too: the standard drops it, the plugin passes it
\* on.
EventsOf(stream) == FoldLeft(Read, Empty, stream \o <<LF, LF>>).events

\* The data of an event, as one text.
DataOf(values) == FoldLeft(LAMBDA text, value : text \o <<LF>> \o value,
                           Head(values), Tail(values))

\* All line ends of a stream are LF, or all are CR LF.
Uniform(stream) ==
  \/ CR \notin Range(stream)
  \/ \A i \in DOMAIN stream :
       /\ stream[i] = LF => i > 1 /\ stream[i - 1] = CR
       /\ stream[i] = CR => i < Len(stream) /\ stream[i + 1] = LF

\* Data that is an object naming OpenRouter's model, with any white space in
\* it, and as a client is to see it, with the alias.
NamesNative(data) ==
  Remove(Remove(Remove(data, SP), CR), LF) \in {<<NATIVE>>, <<NATIVEHEAD, TAIL>>}

Aliased(data) ==
  IF ~NamesNative(data) THEN data
  ELSE ReplaceAll(ReplaceAll(data, NATIVE, ALIAS), NATIVEHEAD, ALIASHEAD)
=============================================================================
