---------------------------- MODULE MigrateProofs ----------------------------
(***************************************************************************)
(* For any number of openrouter-migrate processes on one file, killed at   *)
(* any step, and any number of power losses: IInv is inductive, and what   *)
(* the run checks follows from it.                                         *)
(***************************************************************************)
EXTENDS Migrate, TLAPS

\* The initial states satisfy the inductive invariant.
LEMMA InitIInv == Init => IInv
<1>. SUFFICES ASSUME Init PROVE IInv
  OBVIOUS
<1>1. TypeOK
  BY DEF Init, TypeOK, Contents
<1>2. StrengtheningInv
  BY DEF Init, StrengtheningInv
<1>3. NeverDamaged /\ ReportIsTrue
  BY DEF Init, NeverDamaged, ReportIsTrue
<1>. QED
  BY <1>1, <1>2, <1>3 DEF IInv

\* Every step of a process, and every power loss, preserves it.
LEMMA NextIInv == IInv /\ [Next]_vars => IInv'
<1>. SUFFICES ASSUME IInv, [Next]_vars PROVE IInv'
  OBVIOUS
<1>. USE DEF IInv, TypeOK, StrengtheningInv, NeverDamaged, ReportIsTrue, Contents,
             given, disk, Goto, Report, Fail
<1>1. ASSUME NEW p \in Proc, Read(p) PROVE IInv'
  BY <1>1 DEF Read
<1>2. ASSUME NEW p \in Proc, Convert(p) PROVE IInv'
  BY <1>2 DEF Convert, Convertible
<1>3. ASSUME NEW p \in Proc, CreateTemp(p) PROVE IInv'
  BY <1>3 DEF CreateTemp
<1>4. ASSUME NEW p \in Proc, Write(p) PROVE IInv'
  BY <1>4 DEF Write
<1>5. ASSUME NEW p \in Proc, Sync(p) PROVE IInv'
  <2>1. TypeOK'
    <3>1. synced' \in [Proc -> BOOLEAN]
      <4>1. synced \in [Proc -> BOOLEAN]
        OBVIOUS
      <4>2. synced' = [synced EXCEPT ![p] = TRUE] \/ synced' = synced
        BY <1>5, Zenon DEF Sync
      <4>. HIDE DEF IInv, TypeOK
      <4>. QED
        BY <4>1, <4>2, Zenon
    <3>2. /\ UNCHANGED <<given, file, onDisk, temp, raw, result, earlier>>
          /\ pc' = [pc EXCEPT ![p] = "verify"] \/ Goto(p, "remove")
      BY <1>5 DEF Sync
    <3>3. pc' \in [Proc -> {"read", "convert", "create", "write", "sync", "verify",
                            "rename", "report", "remove", "done", "killed"}]
      BY <3>2
    <3>4. pc[p] = "sync" /\ pc'[p] \in {"verify", "remove"}
      BY <1>5 DEF Sync
    <3>. QED
      BY <3>1, <3>2, <3>3, <3>4
  <2>2. StrengtheningInv'
    <3>1. CASE synced' = [synced EXCEPT ![p] = TRUE] /\ Goto(p, "verify")
      <4>1. pc[p] = "sync" /\ UNCHANGED <<given, file, onDisk, temp, raw, result, earlier>>
        BY <1>5, <3>1 DEF Sync
      <4>2. pc' = [pc EXCEPT ![p] = "verify"] /\ synced' = [synced EXCEPT ![p] = TRUE]
        BY <3>1
      <4>3. synced'[p] /\ \A q \in Proc : q # p => synced'[q] = synced[q] /\ pc'[q] = pc[q]
        BY <4>2
      <4>4. temp[p] = "current"
        BY <4>1
      <4>. QED
        BY <4>1, <4>2, <4>3, <4>4
    <3>2. CASE UNCHANGED synced /\ Goto(p, "remove")
      BY <1>5, <3>2 DEF Sync
    <3>. QED
      BY <1>5, <3>1, <3>2 DEF Sync
  <2>3. NeverDamaged' /\ ReportIsTrue'
    BY <1>5 DEF Sync
  <2>. QED
    BY <2>1, <2>2, <2>3
<1>6. ASSUME NEW p \in Proc, Verify(p) PROVE IInv'
  BY <1>6 DEF Verify
<1>7. ASSUME NEW p \in Proc, RenameFails(p) PROVE IInv'
  BY <1>7 DEF RenameFails
<1>8. ASSUME NEW p \in Proc, Rename(p) PROVE IInv'
  <2>1. /\ temp[p] = "current" /\ synced[p]
        /\ original = "legacy"
    BY <1>8 DEF Rename, RenameLeaving
  <2>2. /\ file' = "current" /\ onDisk' = onDisk \cup {"current"}
        /\ temp' = [temp EXCEPT ![p] = "absent"]
        /\ pc' = [pc EXCEPT ![p] = "report"]
        /\ UNCHANGED <<original, secrets, synced, raw, result, earlier>>
    BY <1>8, <2>1 DEF Rename, RenameLeaving, Remains
  <2>3. TypeOK'
    BY <2>2
  <2>4. StrengtheningInv'
    <3>1. pc[p] = "rename"
      BY <1>8 DEF Rename, RenameLeaving
    <3>2. file' \in onDisk'
      BY <2>2
    <3>3. pc'[p] = "report" /\ \A q \in Proc : q # p => pc'[q] = pc[q] /\ temp'[q] = temp[q]
      BY <2>2
    <3>4. \E q \in Proc : pc'[q] \in {"report", "killed"}
      BY <3>3
    <3>. QED
      BY <2>1, <2>2, <3>1, <3>2, <3>3, <3>4
  <2>5. NeverDamaged'
    BY <2>1, <2>2
  <2>6. ReportIsTrue'
    BY <1>8, <2>2 DEF Rename, RenameLeaving
  <2>. QED
    BY <2>3, <2>4, <2>5, <2>6
<1>9. ASSUME NEW p \in Proc, ReportDone(p) PROVE IInv'
  BY <1>9 DEF ReportDone
<1>10. ASSUME NEW p \in Proc, Remove(p) PROVE IInv'
  BY <1>10 DEF Remove
<1>11. ASSUME NEW p \in Proc, Kill(p) PROVE IInv'
  BY <1>11 DEF Kill, Running
<1>12. ASSUME PowerLoss PROVE IInv'
  BY <1>12 DEF PowerLoss, Running
<1>13. ASSUME UNCHANGED vars PROVE IInv'
  BY <1>13 DEF vars
<1>. QED
  BY <1>1, <1>2, <1>3, <1>4, <1>5, <1>6, <1>7, <1>8, <1>9, <1>10, <1>11, <1>12, <1>13
  DEF Next, Step

\* The inductive invariant holds in every reachable state.
LEMMA AlwaysIInv == Spec => []IInv
<1>. QED
  BY InitIInv, NextIInv, PTL DEF Spec

-----------------------------------------------------------------------------

\* The variables have their types, and a success leaves no temporary file.
THEOREM MigrateTypeCorrect == Spec => []TypeOK
<1>1. IInv => TypeOK
  BY DEF IInv
<1>. QED
  BY <1>1, AlwaysIInv, PTL

\* No kill and no power loss damages the credential file, with any number of
\* processes migrating it at once.
THEOREM MigrateNeverDamages == Spec => []NeverDamaged
<1>1. IInv => NeverDamaged
  BY DEF IInv
<1>. QED
  BY <1>1, AlwaysIInv, PTL

\* What the processes report of the file is so.
THEOREM MigrateReportsTruly == Spec => []ReportIsTrue
<1>1. IInv => ReportIsTrue
  BY DEF IInv
<1>. QED
  BY <1>1, AlwaysIInv, PTL

-----------------------------------------------------------------------------
(* Migrate implements Conversion.                                           *)

LEMMA InitConversion == Init => C!Init
<1>. QED
  BY DEF Init, C!Init, Fate

\* A step in which p changes what it may do, without reporting or being killed,
\* changes no fate.
LEMMA InnerStep ==
  ASSUME IInv, NEW p \in Proc, NEW label, Goto(p, label),
         label \notin {"report", "killed"}, pc[p] \notin {"report", "killed"},
         UNCHANGED <<original, file>>
  PROVE  UNCHANGED C!vars
<1>1. Fate' = Fate
  BY DEF Fate, Goto, IInv, TypeOK
<1>. QED
  BY <1>1 DEF C!vars

\* A report is the fate of the process that makes it.
LEMMA ReportStep ==
  ASSUME IInv, NEW p \in Proc, NEW res \in {"ok", "failed"}, Report(p, res),
         pc[p] \notin {"done", "killed"}
  PROVE  /\ C!Becomes(p, res)
         /\ Fate[p] = IF pc[p] = "report" THEN "converted" ELSE "running"
<1>1. result[p] = "none"
  BY DEF IInv, StrengtheningInv
<1>2. Fate' = [Fate EXCEPT ![p] = res]
  BY <1>1 DEF Fate, Report, IInv, TypeOK
<1>. QED
  BY <1>1, <1>2 DEF C!Becomes, Fate

\* A run that fails before its rename has not touched the file.
LEMMA FailStep ==
  ASSUME IInv, NEW p \in Proc, Fail(p), UNCHANGED <<original, file>>,
         pc[p] \notin {"done", "killed", "report"}
  PROVE  C!Next
<1>1. C!Becomes(p, "failed") /\ Fate[p] = "running"
  BY ReportStep DEF Fail
<1>2. C!Fail(p)
  BY <1>1 DEF C!Fail
<1>. QED
  BY <1>2 DEF C!Next

\* The rename is the conversion.
LEMMA RenameIsConvert ==
  ASSUME IInv, NEW p \in Proc, Rename(p)
  PROVE  C!Convert(p)
<1>1. /\ pc[p] = "rename" /\ file' = "current" /\ pc' = [pc EXCEPT ![p] = "report"]
      /\ UNCHANGED <<original, result>> /\ original = "legacy"
  BY DEF Rename, RenameLeaving, Goto, IInv, StrengtheningInv, given
<1>2. result[p] = "none"
  BY <1>1 DEF IInv, StrengtheningInv
<1>3. Fate[p] = "running" /\ Fate' = [Fate EXCEPT ![p] = "converted"]
  BY <1>1, <1>2 DEF Fate, IInv, TypeOK
<1>. QED
  BY <1>1, <1>3 DEF C!Convert, C!Becomes

\* A success is reported by a run that renamed, or that found version 2; nothing
\* but a power loss, which it would not have survived, has undone that since.
LEMMA SuccessIsTrue ==
  ASSUME IInv, NEW p \in Proc, Report(p, "ok"), UNCHANGED <<original, file>>,
         pc[p] = "report" \/ (pc[p] = "convert" /\ raw[p] = "current")
  PROVE  C!Succeed(p)
<1>1. file = "current"
  BY DEF IInv, StrengtheningInv, NeverDamaged
<1>2. C!Becomes(p, "ok") /\ Fate[p] \in {"running", "converted"}
  BY ReportStep
<1>. QED
  BY <1>1, <1>2 DEF C!Succeed

LEMMA KillIsKill ==
  ASSUME IInv, NEW p \in Proc, Kill(p)
  PROVE  C!Kill(p)
<1>1. /\ pc[p] \notin {"done", "killed"} /\ pc' = [pc EXCEPT ![p] = "killed"]
      /\ UNCHANGED <<original, file, result>>
  BY DEF Kill, Running, Goto, given, disk
<1>2. result[p] = "none"
  BY <1>1 DEF IInv, StrengtheningInv
<1>3. Fate[p] \in {"running", "converted"} /\ Fate' = [Fate EXCEPT ![p] = "killed"]
  BY <1>1, <1>2 DEF Fate, IInv, TypeOK
<1>. QED
  BY <1>1, <1>3 DEF C!Kill, C!Becomes

\* A power loss leaves the runs that had not read the file, and the file as it is
\* or as it was at first.
LEMMA PowerLossIsPowerLoss ==
  ASSUME IInv, PowerLoss
  PROVE  C!PowerLoss
<1>. DEFINE q == {p \in Proc : pc[p] = "read"}
<1>1. /\ file' \in {original, file} /\ UNCHANGED <<original, result>>
      /\ pc' = [p \in Proc |-> IF Running(p) /\ pc[p] # "read" THEN "killed" ELSE pc[p]]
  BY DEF PowerLoss, IInv, StrengtheningInv, given
<1>2. ASSUME NEW p \in Proc
      PROVE  Fate'[p] = IF Fate[p] \in {"ok", "failed"} \/ p \in q
                        THEN Fate[p] ELSE "killed"
  <2>1. pc[p] = "done" <=> result[p] # "none"
    BY DEF IInv, StrengtheningInv
  <2>2. result[p] \in {"none", "ok", "failed"}
    BY DEF IInv, TypeOK
  <2>. QED
    BY <1>1, <2>1, <2>2 DEF Fate, Running
<1>3. q \in SUBSET {p \in Proc : Fate[p] = "running"}
  BY DEF Fate, IInv, StrengtheningInv
<1>4. Fate' = [p \in Proc |-> IF Fate[p] \in {"ok", "failed"} \/ p \in q
                              THEN Fate[p] ELSE "killed"]
  BY <1>2 DEF Fate
<1>. QED
  BY <1>1, <1>3, <1>4 DEF C!PowerLoss

LEMMA StepConversion == IInv /\ [Next]_vars => [C!Next]_C!vars
<1>. SUFFICES ASSUME IInv, [Next]_vars PROVE [C!Next]_C!vars
  OBVIOUS
<1>. USE DEF given, disk
<1>1. ASSUME NEW p \in Proc,
             Read(p) \/ CreateTemp(p) \/ Write(p) \/ Sync(p) \/ Verify(p)
               \/ RenameFails(p) \/ Remove(p)
      PROVE  [C!Next]_C!vars
  <2>1. /\ pc[p] \in {"read", "create", "write", "sync", "verify", "rename", "remove"}
        /\ UNCHANGED <<original, file>>
        /\ \/ Fail(p)
           \/ \E label \in {"convert", "write", "sync", "remove", "verify", "rename"} :
                Goto(p, label)
    BY <1>1, Zenon DEF Read, CreateTemp, Write, Sync, Verify, RenameFails, Remove
  <2>. QED
    BY <2>1, InnerStep, FailStep
<1>2. ASSUME NEW p \in Proc, Convert(p) PROVE [C!Next]_C!vars
  <2>1. pc[p] = "convert" /\ UNCHANGED <<original, file>>
    BY <1>2 DEF Convert
  <2>2. CASE raw[p] = "current"
    <3>1. C!Succeed(p)
      BY <1>2, <2>1, <2>2, SuccessIsTrue DEF Convert
    <3>. QED
      BY <3>1 DEF C!Next
  <2>3. CASE raw[p] # "current"
    BY <1>2, <2>1, <2>3, InnerStep, FailStep DEF Convert
  <2>. QED
    BY <2>2, <2>3
<1>3. ASSUME NEW p \in Proc, Rename(p) PROVE [C!Next]_C!vars
  BY <1>3, RenameIsConvert DEF C!Next
<1>4. ASSUME NEW p \in Proc, ReportDone(p) PROVE [C!Next]_C!vars
  <2>1. C!Succeed(p)
    BY <1>4, SuccessIsTrue DEF ReportDone
  <2>. QED
    BY <2>1 DEF C!Next
<1>5. ASSUME NEW p \in Proc, Kill(p) PROVE [C!Next]_C!vars
  BY <1>5, KillIsKill DEF C!Next
<1>6. ASSUME PowerLoss PROVE [C!Next]_C!vars
  BY <1>6, PowerLossIsPowerLoss DEF C!Next
<1>7. ASSUME UNCHANGED vars PROVE [C!Next]_C!vars
  BY <1>7 DEF vars, C!vars, Fate
<1>. QED
  BY <1>1, <1>2, <1>3, <1>4, <1>5, <1>6, <1>7 DEF Next, Step

\* Every run, seen from the file, is one step or none, and its report is true.
THEOREM MigrateImplementsConversion == Spec => ImplementsConversion
<1>. QED
  BY InitConversion, StepConversion, AlwaysIInv, PTL DEF Spec, ImplementsConversion, C!Spec
=============================================================================
