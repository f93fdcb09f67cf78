---------------------------- MODULE CatalogProofs ----------------------------
(***************************************************************************)
(* For any number of credentials and calls, any TTL and any bound on the   *)
(* clock: IInv is inductive, and what the runs check follows from it.      *)
(***************************************************************************)
EXTENDS Catalog, TLAPS

\* The initial states satisfy the inductive invariant.
LEMMA InitIInv == Init => IInv
<1>. SUFFICES ASSUME Init PROVE IInv
  OBVIOUS
<1>1. TypeOK
  BY DEF Init, TypeOK, PC, Failures, Sources
<1>2. StrengtheningInv
  BY DEF Init, StrengtheningInv, InCatalog
<1>3. HitIsFresh /\ RevokedServedOnlyFromMemory /\ RefreshNeedsLiveKey
  BY DEF Init, HitIsFresh, RevokedServedOnlyFromMemory, RefreshNeedsLiveKey, Catalogs
<1>. QED
  BY <1>1, <1>2, <1>3 DEF IInv

\* Every step preserves it.
LEMMA NextIInv == IInv /\ [Next]_vars => IInv'
<1>. SUFFICES ASSUME IInv, [Next]_vars PROVE IInv'
  OBVIOUS
<1>. USE TTLAssumption, MaxTimeAssumption
     DEF IInv, TypeOK, StrengtheningInv, HitIsFresh, RevokedServedOnlyFromMemory,
         RefreshNeedsLiveKey, PC, Failures, Sources, Catalogs, InCatalog,
         world, store, locals, outcome, Goto, Answer, Fail
<1>1. ASSUME Tick PROVE IInv'
  BY <1>1 DEF Tick
<1>2. ASSUME NEW a \in Auth, Revoke(a) PROVE IInv'
  BY <1>2 DEF Revoke
<1>3. ASSUME NEW c \in Call, Begin(c) PROVE IInv'
  BY <1>3, SMTT(30) DEF Begin, EnterCatalog
<1>4. ASSUME NEW c \in Call, Refuse(c) PROVE IInv'
  BY <1>4 DEF Refuse
<1>5. ASSUME NEW c \in Call, ValidateOk(c) PROVE IInv'
  BY <1>5 DEF ValidateOk, EnterCatalog
<1>6. ASSUME NEW c \in Call, ValidateFails(c) PROVE IInv'
  BY <1>6 DEF ValidateFails
<1>7. ASSUME NEW c \in Call, LookupHit(c) PROVE IInv'
  BY <1>7 DEF LookupHit, Fresh
<1>8. ASSUME NEW c \in Call, LookupMiss(c) PROVE IInv'
  BY <1>8 DEF LookupMiss, Fresh
<1>9. ASSUME NEW c \in Call, AskFirstPage(c) PROVE IInv'
  BY <1>9 DEF AskFirstPage
<1>10. ASSUME NEW c \in Call, KeyUnreadable(c) PROVE IInv'
  BY <1>10 DEF KeyUnreadable
<1>11. ASSUME NEW c \in Call, FetchOk(c) PROVE IInv'
  BY <1>11 DEF FetchOk
<1>12. ASSUME NEW c \in Call, NEW status \in {"transient", "permanent"},
              FetchFails(c, status)
       PROVE  IInv'
  BY <1>12 DEF FetchFails, FallsBack
<1>13. ASSUME NEW c \in Call, Store(c) PROVE IInv'
  BY <1>13 DEF Store, StoreExpiring
<1>14. ASSUME Shutdown PROVE IInv'
  BY <1>14 DEF Shutdown
<1>15. ASSUME UNCHANGED vars PROVE IInv'
  BY <1>15 DEF vars
<1>16. ASSUME NEW c \in Call, CallStep(c) PROVE IInv'
  BY <1>3, <1>4, <1>5, <1>6, <1>7, <1>8, <1>9, <1>10, <1>11, <1>12, <1>13, <1>16,
     Zenon DEF CallStep
<1>. HIDE DEF IInv
<1>. QED
  BY <1>1, <1>2, <1>14, <1>15, <1>16, Zenon DEF Next

\* The inductive invariant holds in every reachable state.
LEMMA AlwaysIInv == Spec => []IInv
<1>. QED
  BY InitIInv, NextIInv, PTL DEF Spec

-----------------------------------------------------------------------------

\* The variables have their types.
THEOREM CatalogTypeCorrect == Spec => []TypeOK
<1>1. IInv => TypeOK
  BY DEF IInv
<1>. QED
  BY <1>1, AlwaysIInv, PTL

\* No hit is a TTL old or older, whatever slow fetches store and when.
THEOREM CatalogHitIsFresh == Spec => []HitIsFresh
<1>1. IInv => HitIsFresh
  BY DEF IInv
<1>. QED
  BY <1>1, AlwaysIInv, PTL

\* A TTL after a revocation only the transient-failure fallback still answers.
THEOREM CatalogRevokedServedOnlyFromMemory == Spec => []RevokedServedOnlyFromMemory
<1>1. IInv => RevokedServedOnlyFromMemory
  BY DEF IInv
<1>. QED
  BY <1>1, AlwaysIInv, PTL

\* No refresh of an already revoked key succeeds.
THEOREM CatalogRefreshNeedsLiveKey == Spec => []RefreshNeedsLiveKey
<1>1. IInv => RefreshNeedsLiveKey
  BY DEF IInv
<1>. QED
  BY <1>1, AlwaysIInv, PTL
=============================================================================
