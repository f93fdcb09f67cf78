----------------------------- MODULE Conversion -----------------------------
(***************************************************************************)
(* What openrouter-migrate promises of one credential file: a run puts the *)
(* version-2 credential in the place of the old one in a single step or    *)
(* leaves the file alone, and says which.  Migrate implements this.        *)
(***************************************************************************)
CONSTANT Proc

VARIABLES
  original,   \* what the file held at first; fixed
  file,       \* what a reader finds in it
  fate        \* fate[p]: "running", "converted" (the file, unreported), then
              \* "ok", "failed" or "killed"

vars == <<original, file, fate>>

Init ==
  /\ file = original
  /\ fate = [p \in Proc |-> "running"]

Becomes(p, f) == fate' = [fate EXCEPT ![p] = f]

\* The only step of a run that a reader of the file can see.
Convert(p) ==
  /\ fate[p] = "running"
  /\ original = "legacy"
  /\ file' = "current"
  /\ Becomes(p, "converted")
  /\ UNCHANGED original

\* A success speaks of the file as it is, whoever converted it.
Succeed(p) ==
  /\ fate[p] \in {"running", "converted"}
  /\ file = "current"
  /\ Becomes(p, "ok")
  /\ UNCHANGED <<original, file>>

\* A run that converted the file cannot fail any more.
Fail(p) ==
  /\ fate[p] = "running"
  /\ Becomes(p, "failed")
  /\ UNCHANGED <<original, file>>

Kill(p) ==
  /\ fate[p] \in {"running", "converted"}
  /\ Becomes(p, "killed")
  /\ UNCHANGED <<original, file>>

\* Runs that had not begun yet survive; a conversion may be undone, whole.
PowerLoss ==
  /\ file' \in {original, file}
  /\ \E q \in SUBSET {p \in Proc : fate[p] = "running"} :
       fate' = [p \in Proc |->
                  IF fate[p] \in {"ok", "failed"} \/ p \in q THEN fate[p] ELSE "killed"]
  /\ UNCHANGED original

Next ==
  \/ \E p \in Proc : Convert(p) \/ Succeed(p) \/ Fail(p) \/ Kill(p)
  \/ PowerLoss

Spec == Init /\ [][Next]_vars
=============================================================================
