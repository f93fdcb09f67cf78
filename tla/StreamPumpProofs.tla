-------------------------- MODULE StreamPumpProofs --------------------------
(***************************************************************************)
(* For responses of any length, cut into any chunks: the client gets a     *)
(* prefix in order and a clean end only for the whole, the host is left    *)
(* with no open stream, and StreamPump implements Relay.                   *)
(***************************************************************************)
EXTENDS StreamPump, TLAPS

\* The initial states satisfy the inductive invariant.
LEMMA InitIInv == Init => IInv
<1>. SUFFICES ASSUME Init PROVE IInv
  OBVIOUS
<1>1. pieces \in Nat /\ Frames \in Nat
  BY MaxPiecesAssumption DEF Init, Frames
<1>2. TypeOK
  <2>1. emitted = << >> /\ << >> \in Seq(1..Frames)
    BY DEF Init
  <2>2. silent \subseteq 1..Frames /\ 0 \in 0..pieces /\ 0 \in 0..Frames
    BY <1>1 DEF Init
  <2>. QED
    BY <2>1, <2>2 DEF Init, TypeOK
<1>3. PumpInv /\ StreamsAreClosed
  BY DEF Init, PumpInv, StreamsAreClosed
<1>4. RelaysThePrefix
  BY <1>1 DEF Init, RelaysThePrefix, Range
<1>. QED
  BY <1>2, <1>3, <1>4 DEF IInv

\* Handling the next frame keeps the order and the count of what was emitted.
LEMMA HandleFacts ==
  ASSUME IInv, Handle(scanned + 1), scanned + 1 \in 1..Frames,
         pump \in {"frames", "flush"},
         pump = "flush" => fed > 2 * scanned,
         pump = "frames" => 2 * (scanned + 1) <= fed
  PROVE  IInv'
<1>. DEFINE f == scanned + 1
<1>0. /\ pieces \in Nat /\ Frames \in Nat /\ Frames' = Frames
      /\ UNCHANGED <<pieces, silent, caller, fed, last, upstream, output, hostUp>>
  BY MaxPiecesAssumption
  DEF Handle, Skip, Emit, EmitFails, IInv, TypeOK, Frames, response, decoder, host
<1>1. CASE Skip(f)
  <2>1. f \in silent /\ scanned' = f /\ UNCHANGED <<pump, failed, emitted>>
    BY <1>1 DEF Skip, host
  <2>2. (1..f) \ silent = (1..scanned) \ silent
    BY <2>1 DEF IInv, TypeOK
  <2>. QED
    BY <1>0, <2>1, <2>2
    DEF IInv, TypeOK, PumpInv, RelaysThePrefix, StreamsAreClosed
<1>2. CASE Emit(f)
  <2>1. /\ f \notin silent /\ scanned' = f /\ emitted' = Append(emitted, f)
        /\ UNCHANGED <<pump, failed>>
    BY <1>2 DEF Emit
  <2>2. /\ emitted' \in Seq(1..Frames)
        /\ Len(emitted') = Len(emitted) + 1
        /\ \A i \in 1..Len(emitted) : emitted'[i] = emitted[i]
        /\ emitted'[Len(emitted) + 1] = f
        /\ Range(emitted') = Range(emitted) \cup {f}
    <3>1. emitted \in Seq(1..Frames) /\ f \in 1..Frames
      BY DEF IInv, TypeOK
    <3>2. /\ DOMAIN emitted = 1..Len(emitted) /\ Len(emitted) \in Nat
          /\ DOMAIN emitted' = 1..(Len(emitted) + 1)
          /\ emitted' \in Seq(1..Frames)
          /\ Len(emitted') = Len(emitted) + 1
          /\ \A i \in 1..Len(emitted) : emitted'[i] = emitted[i]
          /\ emitted'[Len(emitted) + 1] = f
      BY <2>1, <3>1
    <3>3. Range(emitted') = Range(emitted) \cup {f}
      BY <3>2 DEF Range
    <3>. QED
      BY <3>2, <3>3
  <2>3. /\ DOMAIN emitted = 1..Len(emitted) /\ Len(emitted) \in Nat
        /\ scanned \in Nat
        /\ \A i \in 1..Len(emitted) : emitted[i] \in Range(emitted)
    BY <1>0 DEF IInv, TypeOK, Range
  <2>4. \A i, j \in 1..Len(emitted') : i < j => emitted'[i] < emitted'[j]
    <3>1. \A i \in 1..Len(emitted) : emitted[i] \in 1..scanned
      BY <2>3 DEF IInv, RelaysThePrefix
    <3>2. SUFFICES ASSUME NEW i \in 1..Len(emitted'), NEW j \in 1..Len(emitted'), i < j
                   PROVE  emitted'[i] < emitted'[j]
      OBVIOUS
    <3>3. CASE j = Len(emitted) + 1
      BY <2>2, <2>3, <3>1, <3>2, <3>3
    <3>4. CASE j # Len(emitted) + 1
      <4>1. i \in 1..Len(emitted) /\ j \in 1..Len(emitted)
        BY <2>2, <2>3, <3>2, <3>4
      <4>2. emitted[i] < emitted[j]
        BY <3>2, <4>1 DEF IInv, RelaysThePrefix
      <4>. QED
        BY <2>2, <4>1, <4>2
    <3>. QED
      BY <3>3, <3>4
  <2>5. Range(emitted') = (1..f) \ silent
    BY <2>1, <2>2 DEF IInv, TypeOK, RelaysThePrefix
  <2>6. TypeOK' /\ PumpInv'
    BY <1>0, <2>1, <2>2, <2>3 DEF IInv, TypeOK, PumpInv
  <2>7. RelaysThePrefix' /\ StreamsAreClosed'
    BY <1>0, <2>1, <2>4, <2>5
    DEF IInv, TypeOK, PumpInv, RelaysThePrefix, StreamsAreClosed
  <2>. QED
    BY <2>6, <2>7 DEF IInv
<1>3. CASE EmitFails(f)
  BY <1>0, <1>3
  DEF EmitFails, host, IInv, TypeOK, PumpInv, RelaysThePrefix, StreamsAreClosed
<1>. QED
  BY <1>1, <1>2, <1>3 DEF Handle

\* Every step preserves the invariant.
LEMMA NextIInv == IInv /\ [Next]_vars => IInv'
<1>. SUFFICES ASSUME IInv, [Next]_vars PROVE IInv'
  OBVIOUS
<1>0. pieces \in Nat /\ Frames \in Nat /\ (UNCHANGED pieces => Frames' = Frames)
  BY MaxPiecesAssumption DEF IInv, TypeOK, Frames
<1>1. CASE NextFrame
  <2>1. scanned + 1 \in 1..Frames
    BY <1>1 DEF NextFrame, Pending, IInv, TypeOK, Frames
  <2>. QED
    BY <1>1, <2>1, HandleFacts DEF NextFrame, Pending
<1>2. CASE FlushFrame
  <2>1. scanned + 1 \in 1..Frames
    BY <1>2 DEF FlushFrame, Trailing, IInv, TypeOK, Frames
  <2>. QED
    BY <1>2, <2>1, HandleFacts DEF FlushFrame, Trailing
<1>. USE <1>0 DEF IInv, TypeOK, PumpInv, RelaysThePrefix, StreamsAreClosed,
         response, decoder, host
<1>3. CASE Reject
  BY <1>3 DEF Reject
<1>4. CASE OpenOk
  BY <1>4 DEF OpenOk
<1>5. CASE OpenErrorStatus
  BY <1>5 DEF OpenErrorStatus
<1>6. CASE CollectChunk
  BY <1>6 DEF CollectChunk
<1>7. CASE CollectEnd
  BY <1>7 DEF CollectEnd, CloseUpstream
<1>8. CASE Return
  BY <1>8 DEF Return
<1>9. CASE ReadFails
  BY <1>9 DEF ReadFails
<1>10. CASE ReadChunk
  BY <1>10 DEF ReadChunk
<1>11. CASE ChunkDone
  BY <1>11 DEF ChunkDone, ChunkDoneTo, Pending
<1>12. CASE FlushDone
  <2>1. scanned = Frames
    BY <1>12 DEF FlushDone, Trailing, Frames
  <2>. QED
    BY <1>12, <2>1 DEF FlushDone
<1>13. CASE PumpCloseUpstream
  BY <1>13 DEF PumpCloseUpstream, CloseUpstream
<1>14. CASE PumpCloseOutput
  BY <1>14 DEF PumpCloseOutput
<1>15. CASE Shutdown
  BY <1>15 DEF Shutdown
<1>16. CASE UNCHANGED vars
  BY <1>16 DEF vars
<1>. QED
  BY <1>1, <1>2, <1>3, <1>4, <1>5, <1>6, <1>7, <1>8, <1>9, <1>10, <1>11, <1>12,
     <1>13, <1>14, <1>15, <1>16
  DEF Next, CallerStep, PumpStep

\* The inductive invariant holds in every reachable state.
LEMMA AlwaysIInv == Spec => []IInv
<1>. QED
  BY InitIInv, NextIInv, PTL DEF Spec

-----------------------------------------------------------------------------

\* The variables have their types.
THEOREM StreamTypeCorrect == Spec => []TypeOK
<1>1. IInv => TypeOK
  BY DEF IInv
<1>. QED
  BY <1>1, AlwaysIInv, PTL

\* The client gets whole events, in order, and a clean end only after all.
THEOREM StreamRelaysThePrefix == Spec => []RelaysThePrefix
<1>1. IInv => RelaysThePrefix
  BY DEF IInv
<1>. QED
  BY <1>1, AlwaysIInv, PTL

\* A host that stays up is left with no open stream.
THEOREM StreamClosesStreams == Spec => []StreamsAreClosed
<1>1. IInv => StreamsAreClosed
  BY DEF IInv
<1>. QED
  BY <1>1, AlwaysIInv, PTL

-----------------------------------------------------------------------------

\* Before anything ran, nothing is sent.
LEMMA InitRelay == Init => R!Init
<1>. SUFFICES ASSUME Init PROVE R!Init
  OBVIOUS
<1>1. (1..Frames) \ silent \in SUBSET Nat
  OBVIOUS
<1>. QED
  BY <1>1 DEF Init, R!Init

\* Steps that neither emit nor close the output are stutters of the contract.
LEMMA Stutter ==
  UNCHANGED <<pieces, silent, output, emitted>> => UNCHANGED R!vars
<1>. QED
  BY DEF R!vars, Frames

\* The events still missing, as the implementation counts them.
LEMMA MissingEvents == R!Missing = ((1..Frames) \ silent) \ Range(emitted)
<1>. QED
  BY DEF R!Missing, R!Range, Range

\* A frame the host accepts is the next event due.
LEMMA EmitIsSend ==
  ASSUME IInv, pump \in {"frames", "flush"}, scanned + 1 \in 1..Frames,
         Emit(scanned + 1)
  PROVE  \E f \in (1..Frames) \ silent : R!Send(f)
<1>1. PICK f \in 1..Frames : f = scanned + 1
  OBVIOUS
<1>2. /\ f \notin silent /\ emitted' = Append(emitted, f)
      /\ UNCHANGED <<pieces, silent, output>> /\ Frames' = Frames
  BY <1>1 DEF Emit, response, Frames
<1>3. Range(emitted) = (1..scanned) \ silent /\ scanned \in 0..Frames
      /\ output = "open"
  BY DEF IInv, TypeOK, PumpInv, RelaysThePrefix
<1>4. /\ f \in R!Missing
      /\ \A g \in R!Missing : f <= g
  BY <1>1, <1>2, <1>3, MissingEvents, MaxPiecesAssumption DEF IInv, TypeOK, Frames
<1>5. R!Send(f)
  BY <1>2, <1>3, <1>4 DEF R!Send
<1>. QED
  BY <1>1, <1>2, <1>5

\* Every step is a step of the contract or a stutter.
LEMMA StepRelay == IInv /\ [Next]_vars => [R!Next]_R!vars
<1>. SUFFICES ASSUME IInv, [Next]_vars PROVE [R!Next]_R!vars
  OBVIOUS
<1>. USE DEF response, decoder, host
<1>1. ASSUME Handle(scanned + 1), scanned + 1 \in 1..Frames,
             pump \in {"frames", "flush"}
      PROVE  [R!Next]_R!vars
  <2>1. CASE Emit(scanned + 1)
    <3>1. \E f \in (1..Frames) \ silent : R!Send(f)
      BY <1>1, <2>1, EmitIsSend
    <3>. QED
      BY <3>1 DEF R!Next
  <2>2. CASE Skip(scanned + 1) \/ EmitFails(scanned + 1)
    <3>1. UNCHANGED <<pieces, silent, output, emitted>>
      BY <2>2 DEF Skip, EmitFails
    <3>. QED
      BY <3>1, Stutter
  <2>. QED
    BY <1>1, <2>1, <2>2 DEF Handle
<1>2. CASE NextFrame
  <2>1. scanned + 1 \in 1..Frames
    BY <1>2, MaxPiecesAssumption DEF NextFrame, Pending, IInv, TypeOK, Frames
  <2>. QED
    BY <1>1, <1>2, <2>1 DEF NextFrame
<1>3. CASE FlushFrame
  <2>1. scanned + 1 \in 1..Frames
    BY <1>3, MaxPiecesAssumption DEF FlushFrame, Trailing, IInv, TypeOK, Frames
  <2>. QED
    BY <1>1, <1>3, <2>1 DEF FlushFrame
<1>4. CASE PumpCloseOutput
  <2>1. output = "open" /\ UNCHANGED <<pieces, silent, emitted>> /\ Frames' = Frames
    BY <1>4 DEF PumpCloseOutput, IInv, PumpInv, Frames
  <2>2. CASE ~hostUp
    <3>1. UNCHANGED output
      BY <1>4, <2>2 DEF PumpCloseOutput
    <3>. QED
      BY <2>1, <3>1, Stutter
  <2>3. CASE hostUp /\ failed
    <3>1. output' = "error"
      BY <1>4, <2>3 DEF PumpCloseOutput
    <3>2. R!EndError
      BY <2>1, <3>1 DEF R!EndError
    <3>. QED
      BY <3>2 DEF R!Next
  <2>4. CASE hostUp /\ ~failed
    <3>1. output' = "clean" /\ scanned = Frames
      BY <1>4, <2>4 DEF PumpCloseOutput, IInv, PumpInv
    <3>2. R!Missing = {}
      BY <3>1, MissingEvents DEF IInv, RelaysThePrefix
    <3>3. R!EndClean
      BY <2>1, <3>1, <3>2 DEF R!EndClean
    <3>. QED
      BY <3>3 DEF R!Next
  <2>. QED
    BY <2>2, <2>3, <2>4
<1>5. CASE CallerStep
  <2>1. UNCHANGED <<pieces, silent, output, emitted>>
    BY <1>5 DEF CallerStep, Reject, OpenOk, OpenErrorStatus, CollectChunk,
                CollectEnd, Return
  <2>. QED
    BY <2>1, Stutter
<1>6. CASE \/ ReadFails \/ ReadChunk \/ ChunkDone \/ FlushDone
           \/ PumpCloseUpstream \/ Shutdown \/ UNCHANGED vars
  <2>1. UNCHANGED <<pieces, silent, output, emitted>>
    BY <1>6 DEF ReadFails, ReadChunk, ChunkDone, ChunkDoneTo, FlushDone,
                PumpCloseUpstream, Shutdown, vars
  <2>. QED
    BY <2>1, Stutter
<1>. QED
  BY <1>2, <1>3, <1>4, <1>5, <1>6 DEF Next, PumpStep

\* The execution implements what Relay promises the client.
THEOREM StreamImplementsRelay == Spec => ImplementsRelay
<1>. QED
  BY InitRelay, StepRelay, AlwaysIInv, PTL DEF Spec, ImplementsRelay, R!Spec
=============================================================================
