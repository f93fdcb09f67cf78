------------------------------- MODULE Relay -------------------------------
(***************************************************************************)
(* What a streaming execution promises downstream: the events of the       *)
(* upstream response, each once and in order, and an end that says "no     *)
(* error" only when nothing is missing.  StreamPump implements this.       *)
(***************************************************************************)
EXTENDS Naturals, Sequences, Functions

VARIABLES
  events,   \* the upstream events due downstream, as positions; fixed
  sent,     \* those sent so far, in order
  ending    \* "open", then "clean" or "error"

vars == <<events, sent, ending>>

Missing == events \ Range(sent)

Init ==
  /\ events \in SUBSET Nat
  /\ sent = << >>
  /\ ending = "open"

Send(f) ==
  /\ ending = "open"
  /\ f \in Missing
  /\ \A g \in Missing : f <= g
  /\ sent' = Append(sent, f)
  /\ UNCHANGED <<events, ending>>

EndClean ==
  /\ ending = "open"
  /\ Missing = {}
  /\ ending' = "clean"
  /\ UNCHANGED <<events, sent>>

EndError ==
  /\ ending = "open"
  /\ ending' = "error"
  /\ UNCHANGED <<events, sent>>

Next == (\E f \in events : Send(f)) \/ EndClean \/ EndError

Spec == Init /\ [][Next]_vars
=============================================================================
