------------------------------ MODULE Migrate ------------------------------
(***************************************************************************)
(* cmd/openrouter-migrate on one credential file: MigrateCredentialFile    *)
(* (storage_migrate.go) in any number of processes at once, each of which  *)
(* may be killed between any two system calls, on a machine that may lose  *)
(* power.  A file is what it holds; one written and not yet synced may be  *)
(* torn by a power loss, and a rename that no one syncs may be undone.     *)
(***************************************************************************)
CONSTANT Proc   \* runs of openrouter-migrate on the file

VARIABLES
  original,   \* what the credential file held at first
  file,       \* what it holds
  onDisk,     \* what it may hold after a power loss
  temp,       \* temp[p]: what p's .openrouter-migrate-* file holds
  synced,     \* synced[p]: that would survive a power loss
  secrets,    \* what can be used: the DPAPI account, the master key
  raw,        \* raw[p]: what p read
  pc,         \* where each process is
  result,     \* result[p]: what main reports of the file
  earlier     \* the runs that had ended when the power last went

disk == <<file, onDisk, temp, synced>>
given == <<original, secrets>>
vars == <<given, disk, raw, pc, result, earlier>>

\* A version-1 credential, one whose key_hash is not that of its key, a
\* version-2 credential, bytes parseStorage refuses, and half a write.
Contents == {"legacy", "mismatched", "current", "invalid", "torn"}
Secrets == {"dpapi", "master"}

Init ==
  /\ original \in Contents \ {"torn"}
  /\ secrets \in SUBSET Secrets
  /\ file = original
  /\ onDisk = {file}
  /\ temp = [p \in Proc |-> "absent"]
  /\ synced = [p \in Proc |-> FALSE]
  /\ raw = [p \in Proc |-> "invalid"]
  /\ pc = [p \in Proc |-> "read"]
  /\ result = [p \in Proc |-> "none"]
  /\ earlier = {}

Goto(p, label) ==
  /\ pc' = [pc EXCEPT ![p] = label]
  /\ UNCHANGED <<result, earlier>>

Report(p, res) ==
  /\ pc' = [pc EXCEPT ![p] = "done"]
  /\ result' = [result EXCEPT ![p] = res]
  /\ UNCHANGED earlier

Fail(p) == Report(p, "failed")

\* ReadFile, which may fail.
Read(p) ==
  /\ pc[p] = "read"
  /\ \/ raw' = [raw EXCEPT ![p] = file] /\ Goto(p, "convert")
     \/ UNCHANGED raw /\ Fail(p)
  /\ UNCHANGED <<given, disk>>

\* migrateStorage decrypts with DPAPI, encrypts with the master key and
\* compares the key hashes.
Convertible(p) == raw[p] = "legacy" /\ secrets = Secrets

\* parseStorage, the version test and migrateStorage, all in memory.
Convert(p) ==
  /\ pc[p] = "convert"
  /\ IF raw[p] = "current" THEN Report(p, "ok")
     ELSE IF Convertible(p) THEN Goto(p, "create")
     ELSE Fail(p)
  /\ UNCHANGED <<given, disk, raw>>

CreateTemp(p) ==
  /\ pc[p] = "create"
  /\ \/ temp' = [temp EXCEPT ![p] = "invalid"] /\ Goto(p, "write")
     \/ UNCHANGED temp /\ Fail(p)
  /\ UNCHANGED <<given, file, onDisk, synced, raw>>

\* Chmod and Write; from here on a failure goes through the deferred function,
\* which removes the temporary file.
Write(p) ==
  /\ pc[p] = "write"
  /\ \/ temp' = [temp EXCEPT ![p] = "current"] /\ Goto(p, "sync")
     \/ temp' = [temp EXCEPT ![p] = "torn"] /\ Goto(p, "remove")
  /\ UNCHANGED <<given, file, onDisk, synced, raw>>

\* Mutant of Sync: Close alone.
SyncSkipped(p) ==
  /\ pc[p] = "sync"
  /\ Goto(p, "verify")
  /\ UNCHANGED <<given, disk, raw>>

\* Sync and Close.
Sync(p) ==
  /\ pc[p] = "sync"
  /\ \/ synced' = [synced EXCEPT ![p] = TRUE] /\ Goto(p, "verify")
     \/ UNCHANGED synced /\ Goto(p, "remove")
  /\ UNCHANGED <<given, file, onDisk, temp, raw>>

\* The file is read back, parsed, decrypted and its key hash compared.
Verify(p) ==
  /\ pc[p] = "verify"
  /\ \/ temp[p] = "current" /\ Goto(p, "rename")
     \/ Goto(p, "remove")
  /\ UNCHANGED <<given, disk, raw>>

\* Mutant of RenameFails: a failed Rename is reported as a success.
RenameFailsIgnored(p) ==
  /\ pc[p] = "rename"
  /\ Report(p, "ok")
  /\ UNCHANGED <<given, disk, raw>>

RenameFails(p) ==
  /\ pc[p] = "rename"
  /\ Goto(p, "remove")
  /\ UNCHANGED <<given, disk, raw>>

\* What a power loss may leave of a file's data.
Remains(content, safe) ==
  IF safe THEN {content} ELSE {content, "invalid", "torn"}

RenameLeaving(p, rest) ==
  /\ pc[p] = "rename"
  /\ file' = temp[p]
  /\ onDisk' = onDisk \cup Remains(temp[p], synced[p])
  /\ temp' = [temp EXCEPT ![p] = rest]
  /\ Goto(p, "report")
  /\ UNCHANGED <<given, synced, raw>>

\* Mutant of Rename: the file is copied into place.
RenameCopies(p) == RenameLeaving(p, temp[p])

\* The replacement is atomic.  The directory is not synced, so what the file
\* held before may come back.
Rename(p) == RenameLeaving(p, "absent")

\* Mutant of ReportDone: something after the rename may still fail.
ReportDoneOrFail(p) ==
  /\ pc[p] = "report"
  /\ Report(p, "ok") \/ Fail(p)
  /\ UNCHANGED <<given, disk, raw>>

ReportDone(p) ==
  /\ pc[p] = "report"
  /\ Report(p, "ok")
  /\ UNCHANGED <<given, disk, raw>>

\* os.Remove in the deferred function, whose error is dropped.
Remove(p) ==
  /\ pc[p] = "remove"
  /\ \/ temp' = [temp EXCEPT ![p] = "absent"]
     \/ UNCHANGED temp
  /\ Fail(p)
  /\ UNCHANGED <<given, file, onDisk, synced, raw>>

Running(p) == pc[p] \notin {"done", "killed"}

Kill(p) ==
  /\ Running(p)
  /\ Goto(p, "killed")
  /\ UNCHANGED <<given, disk, raw>>

\* Processes die with the machine; those that had not read the file yet may run
\* afterwards.  A temporary file left behind is read by no one.
PowerLoss ==
  /\ \E p \in Proc : Running(p)
  /\ file' \in onDisk
  /\ onDisk' = {file'}
  /\ pc' = [p \in Proc |-> IF Running(p) /\ pc[p] # "read" THEN "killed" ELSE pc[p]]
  /\ earlier' = {p \in Proc : pc[p] = "done"}
  /\ UNCHANGED <<given, temp, synced, raw, result>>

Step(p) ==
  \/ Read(p) \/ Convert(p) \/ CreateTemp(p) \/ Write(p) \/ Sync(p) \/ Verify(p)
  \/ Rename(p) \/ RenameFails(p) \/ ReportDone(p) \/ Remove(p) \/ Kill(p)

Next == (\E p \in Proc : Step(p)) \/ PowerLoss

Spec == Init /\ [][Next]_vars

-----------------------------------------------------------------------------
(* Properties.                                                              *)

\* Every variable has its type.  There is no temporary file before it is
\* created, and none after a success that no power loss undid.
TypeOK ==
  /\ original \in Contents
  /\ secrets \subseteq Secrets
  /\ file \in Contents
  /\ onDisk \subseteq Contents
  /\ temp \in [Proc -> Contents \cup {"absent"}]
  /\ synced \in [Proc -> BOOLEAN]
  /\ raw \in [Proc -> Contents]
  /\ pc \in [Proc -> {"read", "convert", "create", "write", "sync", "verify",
                      "rename", "report", "remove", "done", "killed"}]
  /\ result \in [Proc -> {"none", "ok", "failed"}]
  /\ earlier \subseteq Proc
  /\ \A p \in Proc :
       \/ pc[p] \in {"read", "convert", "create", "report"}
       \/ result[p] = "ok" /\ p \notin earlier
       => temp[p] = "absent"

\* README.md:103, "atomically replaces the original": whenever one looks, and
\* whatever a power loss brings back, the file holds what it held at first or
\* the same key in version 2; a key whose hash does not match, and a file that
\* is no credential, are never replaced.
NeverDamaged ==
  \A content \in onDisk \cup {file} :
    \/ content = original
    \/ original = "legacy" /\ content = "current"

\* "A failed migration leaves the original file untouched", whatever the others
\* do that fail; and a migration reported as done has left a version-2 file,
\* unless the power went afterwards.
ReportIsTrue ==
  /\ (\A p \in Proc : result[p] = "failed") => file = original
  /\ \A p \in Proc \ earlier : result[p] = "ok" => file = "current"

\* How a run stands to the file: a run past its rename has converted it.
Fate ==
  [p \in Proc |->
     IF pc[p] = "report" THEN "converted"
     ELSE IF pc[p] = "killed" THEN "killed"
     ELSE IF result[p] = "none" THEN "running" ELSE result[p]]

C == INSTANCE Conversion WITH fate <- Fate

\* README.md:103, run by run: each converts the file in one step or not at all,
\* one that failed never changed it, one that succeeded says so of the file as
\* it is, and nothing but a power loss brings the old credential back.
ImplementsConversion == C!Spec

\* What the invariants rest on: a process that creates a temporary file has read
\* a credential it can convert, and one that replaces the file has that
\* credential in version 2 on the disk; the file is what it was until some
\* process replaced it, which was then killed or reports a success.
StrengtheningInv ==
  /\ file \in onDisk
  /\ onDisk \subseteq {original, file}
  /\ \A p \in Proc :
       /\ pc[p] \in {"convert", "create", "write", "sync", "verify", "rename"} =>
            \/ raw[p] = original
            \/ raw[p] = "current" /\ file = "current"
       /\ pc[p] \in {"create", "write", "sync", "verify", "rename"} =>
            original = "legacy"
       /\ pc[p] = "sync" => temp[p] = "current"
       /\ pc[p] \in {"verify", "rename"} => temp[p] = "current" /\ synced[p]
       /\ pc[p] = "report" => file = "current"
       /\ pc[p] = "done" <=> result[p] # "none"
       /\ p \in earlier => pc[p] = "done"
  /\ \/ file = original /\ onDisk = {original}
     \/ \E p \in Proc : pc[p] \in {"report", "killed"} \/ result[p] = "ok"

IInv == TypeOK /\ StrengtheningInv /\ NeverDamaged /\ ReportIsTrue
=============================================================================
