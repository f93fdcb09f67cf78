----------------------------- MODULE StreamPump -----------------------------
(***************************************************************************)
(* One streaming execution: ExecuteStream (executor.go) opens the upstream *)
(* response, and either collects the body of an error or starts the        *)
(* goroutine pumpStream, which races ExecuteStream's own return and the    *)
(* plugin's shutdown.  Both talk to the host only.                         *)
(*                                                                         *)
(* The response is a run of SSE frames, each sent in two pieces so that a  *)
(* chunk may end inside one; an odd number of pieces leaves a frame        *)
(* without its delimiter at the end.  sseDecoder is the pair of counts     *)
(* fed, scanned: the pieces fed to it and the frames taken out of it.      *)
(***************************************************************************)
EXTENDS Naturals, Sequences, Functions

CONSTANT MaxPieces   \* bound on the length of a response

ASSUME MaxPiecesAssumption == MaxPieces \in Nat

VARIABLES
  pieces,     \* the length of the response
  silent,     \* its frames that outputStreamPayload does not emit
  caller,     \* where ExecuteStream is, and what it returned
  pump,       \* where the goroutine is
  fed,        \* pieces appended to sseDecoder.buffer so far
  scanned,    \* frames outputStreamPayload has been given
  last,       \* chunk.Done of the chunk in hand
  failed,     \* terminalErr != nil
  upstream,   \* the host's upstream stream: "none", "open" or "closed"
  output,     \* the host's output stream: "open", "clean" or "error"
  emitted,    \* the frames the host accepted for it
  hostUp      \* stored_host != NULL

response == <<pieces, silent>>
decoder == <<fed, scanned, last, failed>>
host == <<upstream, output, emitted, hostUp>>
vars == <<response, caller, pump, decoder, host>>

\* The frames of the response, the unfinished last one included.
Frames == (pieces + 1) \div 2

Init ==
  /\ pieces \in 0..MaxPieces
  /\ silent \in SUBSET (1..Frames)
  /\ caller = "open"
  /\ pump = "none"
  /\ fed = 0
  /\ scanned = 0
  /\ last = FALSE
  /\ failed = FALSE
  /\ upstream = "none"
  /\ output = "open"
  /\ emitted = << >>
  /\ hostUp = TRUE

-----------------------------------------------------------------------------
(* ExecuteStream.                                                           *)

\* A request that does not validate, a catalog that cannot be had, a host
\* that does not open the stream.
Reject ==
  /\ caller = "open"
  /\ caller' = "error"
  /\ UNCHANGED <<response, pump, decoder, host>>

OpenOk ==
  /\ caller = "open"
  /\ hostUp
  /\ upstream' = "open"
  /\ caller' = "return"
  /\ pump' = "read"
  /\ UNCHANGED <<response, decoder, output, emitted, hostUp>>

OpenErrorStatus ==
  /\ caller = "open"
  /\ hostUp
  /\ upstream' = "open"
  /\ caller' = "collect"
  /\ UNCHANGED <<response, pump, decoder, output, emitted, hostUp>>

CloseUpstream == upstream' = IF hostUp THEN "closed" ELSE upstream

\* collectStreamError reads on to a Done, an Error or a failing read, past chunks
\* that bring nothing, which are stutters here; in every case the deferred close
\* runs and ExecuteStream returns an error.
CollectChunk ==
  /\ caller = "collect"
  /\ hostUp
  /\ fed < pieces
  /\ \E k \in 1..(pieces - fed) : fed' = fed + k
  /\ UNCHANGED <<response, caller, pump, scanned, last, failed, host>>

\* Mutant of CollectEnd: the deferred close is missing.
CollectEndLeaks ==
  /\ caller = "collect"
  /\ caller' = "error"
  /\ UNCHANGED <<response, pump, decoder, host>>

CollectEnd ==
  /\ caller = "collect"
  /\ CloseUpstream
  /\ caller' = "error"
  /\ UNCHANGED <<response, pump, decoder, output, emitted, hostUp>>

\* The headers go back to the host; the pump may be well under way by then.
Return ==
  /\ caller = "return"
  /\ caller' = "headers"
  /\ UNCHANGED <<response, pump, decoder, host>>

-----------------------------------------------------------------------------
(* pumpStream.                                                              *)

\* ReadStream fails, or the chunk carries an Error: its payload is not fed.
ReadFails ==
  /\ pump = "read"
  /\ failed' = TRUE
  /\ pump' = "close"
  /\ UNCHANGED <<response, caller, fed, scanned, last, host>>

\* A chunk of any number of pieces, none included, that may be the last: then
\* it ends the response.
ReadChunk ==
  /\ pump = "read"
  /\ hostUp
  /\ \E k \in 0..(pieces - fed), done \in BOOLEAN :
       /\ done => fed + k = pieces
       /\ fed' = fed + k
       /\ last' = done
  /\ pump' = "frames"
  /\ UNCHANGED <<response, caller, scanned, failed, host>>

\* The frame next in line is handed to the host, which takes it or refuses
\* it.  sseDecoder.Feed yields a frame once its second piece is there.
Pending == 2 * (scanned + 1) <= fed

Skip(f) ==
  /\ f \in silent
  /\ scanned' = f
  /\ UNCHANGED <<response, caller, pump, fed, last, failed, host>>

Emit(f) ==
  /\ f \notin silent
  /\ hostUp
  /\ scanned' = f
  /\ emitted' = Append(emitted, f)
  /\ UNCHANGED <<response, caller, pump, fed, last, failed, upstream, output,
                 hostUp>>

\* Mutant of EmitFails: the error is ignored.
EmitFailsIgnored(f) ==
  /\ f \notin silent
  /\ scanned' = f
  /\ UNCHANGED <<response, caller, pump, fed, last, failed, host>>

EmitFails(f) ==
  /\ f \notin silent
  /\ failed' = TRUE
  /\ pump' = "close"
  /\ UNCHANGED <<response, caller, fed, scanned, last, host>>

Handle(f) == Skip(f) \/ Emit(f) \/ EmitFails(f)

NextFrame == pump = "frames" /\ Pending /\ Handle(scanned + 1)

ChunkDoneTo(where) ==
  /\ pump = "frames"
  /\ ~Pending
  /\ pump' = where
  /\ UNCHANGED <<response, caller, decoder, host>>

\* Mutants of ChunkDone: nothing is flushed; Done is overlooked.
ChunkDoneUnflushed == ChunkDoneTo(IF last THEN "close" ELSE "read")
ChunkDoneReadsOn == ChunkDoneTo("read")

\* The chunk is used up: on to the next, or to what the last one left behind.
ChunkDone == ChunkDoneTo(IF last THEN "flush" ELSE "read")

\* Mutant of Trailing: an empty rest counts as a frame.
TrailingAlways == fed >= 2 * scanned

\* Flush: a frame without its delimiter is handled like the others.
Trailing == fed > 2 * scanned

FlushFrame == pump = "flush" /\ Trailing /\ Handle(scanned + 1)

FlushDone ==
  /\ pump = "flush"
  /\ ~Trailing
  /\ pump' = "close"
  /\ UNCHANGED <<response, caller, decoder, host>>

\* The deferred calls.  A host that is gone hears neither.
PumpCloseUpstream ==
  /\ pump = "close"
  /\ CloseUpstream
  /\ pump' = "end"
  /\ UNCHANGED <<response, caller, decoder, output, emitted, hostUp>>

PumpCloseOutput ==
  /\ pump = "end"
  /\ output' = IF ~hostUp THEN output ELSE IF failed THEN "error" ELSE "clean"
  /\ pump' = "done"
  /\ UNCHANGED <<response, caller, decoder, upstream, emitted, hostUp>>

-----------------------------------------------------------------------------

Shutdown ==
  /\ hostUp
  /\ hostUp' = FALSE
  /\ UNCHANGED <<response, caller, pump, decoder, upstream, output, emitted>>

CallerStep ==
  Reject \/ OpenOk \/ OpenErrorStatus \/ CollectChunk \/ CollectEnd \/ Return

PumpStep ==
  \/ ReadFails \/ ReadChunk \/ NextFrame \/ ChunkDone
  \/ FlushFrame \/ FlushDone \/ PumpCloseUpstream \/ PumpCloseOutput

Next == CallerStep \/ PumpStep \/ Shutdown

Spec == Init /\ [][Next]_vars

\* A read that brings the pump further.
ReadsOn == ReadFails \/ (ReadChunk /\ (fed' > fed \/ last'))

\* The scheduler runs both goroutines, the host answers every call, and it does
\* not answer reads with empty chunks for ever, which nothing in the code would
\* end.
FairSpec ==
  Spec /\ WF_vars(CallerStep) /\ WF_vars(PumpStep) /\ SF_vars(ReadsOn)

-----------------------------------------------------------------------------
(* Properties.                                                              *)

\* Every variable has its type.
TypeOK ==
  /\ pieces \in 0..MaxPieces
  /\ silent \subseteq 1..Frames
  /\ caller \in {"open", "collect", "return", "headers", "error"}
  /\ pump \in {"none", "read", "frames", "flush", "close", "end", "done"}
  /\ fed \in 0..pieces
  /\ scanned \in 0..Frames
  /\ last \in BOOLEAN
  /\ failed \in BOOLEAN
  /\ upstream \in {"none", "open", "closed"}
  /\ output \in {"open", "clean", "error"}
  /\ emitted \in Seq(1..Frames)
  /\ hostUp \in BOOLEAN

\* However the response is cut into chunks, whatever fails and whenever the
\* plugin is shut down, the client gets the events of a prefix of the response
\* in order, none of them before the end of its frame came in, and a clean end
\* only after all of them, the event without a delimiter included
\* (executor.go:183-216).
RelaysThePrefix ==
  /\ \A i, j \in 1..Len(emitted) : i < j => emitted[i] < emitted[j]
  /\ Range(emitted) = (1..scanned) \ silent
  /\ 2 * scanned > fed => last /\ fed = pieces
  /\ output = "clean" => scanned = Frames

\* A host that stays up is left with no open stream: the upstream is closed on
\* every path, the output exactly when the host was given headers for it; when
\* ExecuteStream reports an error the host still owns the output, untouched
\* (executor.go:71-81, 154, 174-181).
StreamsAreClosed ==
  /\ hostUp /\ (pump = "done" \/ caller = "error") => upstream # "open"
  /\ hostUp /\ pump = "done" => output # "open"
  /\ caller = "error" => output = "open" /\ emitted = << >>

\* What the invariants rest on: where the pump is tells how much of the
\* response it has taken, which streams it has closed and that it has not
\* failed before it closes.
PumpInv ==
  /\ pump = "none" <=> caller \in {"open", "collect", "error"}
  /\ pump = "none" => scanned = 0 /\ emitted = << >> /\ ~last
  /\ pump \in {"none", "read", "frames", "flush"} => ~failed
  /\ pump \in {"read", "frames"} => 2 * scanned <= fed
  /\ pump = "read" => ~last
  /\ pump = "flush" => last /\ fed < 2 * (scanned + 1)
  /\ pump \in {"close", "end", "done"} /\ ~failed => scanned = Frames
  /\ pump # "done" => output = "open"
  /\ last => fed = pieces
  /\ caller = "open" => upstream = "none"
  /\ hostUp /\ pump \in {"end", "done"} => upstream = "closed"

IInv == TypeOK /\ PumpInv /\ RelaysThePrefix /\ StreamsAreClosed

\* What a client is promised.
R == INSTANCE Relay WITH
  events <- (1..Frames) \ silent, sent <- emitted, ending <- output

\* The execution implements Relay.
ImplementsRelay == R!Spec

\* An execution ends: ExecuteStream returns, and the pump it started stops and
\* makes its closing calls, shutdown or not.
EventuallyEnds ==
  <>(/\ caller \in {"headers", "error"}
     /\ pump \in {"none", "done"})
=============================================================================
