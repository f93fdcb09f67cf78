--------------------------- MODULE LoginFlowProofs ---------------------------
(***************************************************************************)
(* For any number of logins, connect requests and keys: IInv is inductive, *)
(* the invariants the runs check follow, and LoginFlow implements          *)
(* LoginContract.                                                          *)
(***************************************************************************)
EXTENDS LoginFlow, TLAPS

\* The initial state satisfies the inductive invariant.
LEMMA InitIInv == Init => IInv
<1>. SUFFICES ASSUME Init PROVE IInv
  OBVIOUS
<1>. USE DEF Init
<1>1. TypeOK
  BY NoneAssumption DEF TypeOK, PC, Statuses, Pages, Holding
<1>2. StrengtheningInv /\ DeliveredIsAccepted /\ ConnectedKept
  BY DEF StrengtheningInv, DeliveredIsAccepted, ConnectedKept
<1>3. KeyInv /\ NilKeyNeedsRace /\ DeliveredIsConnected
  BY DEF KeyInv, NilKeyNeedsRace, DeliveredIsConnected
<1>. QED
  BY <1>1, <1>2, <1>3 DEF IInv

\* What a request that is over was told, and about what, stays as it is.
LEMMA ConnectedStays ==
  IInv /\ [Next]_vars =>
    \A q \in Request :
      page[q] = "connected" =>
        /\ page'[q] = "connected" /\ target'[q] = target[q]
        /\ submitted'[q] = submitted[q]
<1>. SUFFICES ASSUME IInv, [Next]_vars, NEW q \in Request, page[q] = "connected"
              PROVE  /\ page'[q] = "connected" /\ target'[q] = target[q]
                     /\ submitted'[q] = submitted[q]
  OBVIOUS
<1>. DEFINE Stays == /\ page'[q] = "connected" /\ target'[q] = target[q]
                     /\ submitted'[q] = submitted[q]
<1>. USE DEF flows, polls, requests, process, Goto, Respond
<1>1. pc[q] = "done" /\ page \in [Request -> Pages]
      /\ target \in [Request -> State \cup {None}]
      /\ submitted \in [Request -> Key \cup {None}]
  BY DEF IInv, TypeOK
<1>2. ASSUME NEW r \in Request, NEW st \in State, ConnectLookup(r, st) PROVE Stays
  BY <1>1, <1>2 DEF ConnectLookup
<1>3. ASSUME NEW r \in Request, ConnectStep(r) PROVE Stays
  BY <1>1, <1>3
  DEF ConnectStep, ConnectCheckKey, ConnectDecrypt, ConnectNilKey, ConnectAccepted,
      ConnectRejected, ConnectStore, ConnectProtectFails
<1>4. ASSUME NEW st \in State, NEW heard \in BOOLEAN, PollLogin(st, heard)
      PROVE  Stays
  BY <1>4 DEF PollLogin, PollExpired, PollPending, PollSuccess
<1>5. ASSUME Shutdown \/ PluginInit \/ UNCHANGED vars PROVE Stays
  BY <1>5 DEF Shutdown, PluginInit, vars
<1>6. ASSUME NEW st \in State, StartLogin(st) \/ Expire(st) PROVE Stays
  BY <1>6 DEF StartLogin, Expire
<1>. HIDE DEF Stays
<1>7. Stays
  BY <1>2, <1>3, <1>4, <1>5, <1>6 DEF Next
<1>. QED
  BY <1>7 DEF Stays

\* The host is handed what is stored.
LEMMA NextDelivered == IInv /\ [Next]_vars => DeliveredIsConnected'
<1>. SUFFICES ASSUME IInv, [Next]_vars, NEW st \in State, delivered'[st] # None
              PROVE  \E q \in Request :
                       /\ page'[q] = "connected" /\ target'[q] = st
                       /\ submitted'[q] = delivered'[st]
  BY DEF DeliveredIsConnected
<1>. USE DEF flows, polls, requests, process
<1>1. ASSUME NEW s \in State, NEW heard \in BOOLEAN, PollLogin(s, heard)
      PROVE  delivered'[st] \in {delivered[st], storage[st]}
  BY <1>1 DEF PollLogin, PollExpired, PollPending, PollSuccess, IInv, TypeOK
<1>2. ASSUME NEW r \in Request, ConnectStep(r) PROVE delivered' = delivered
  BY <1>2
  DEF ConnectStep, ConnectCheckKey, ConnectDecrypt, ConnectNilKey, ConnectAccepted,
      ConnectRejected, ConnectStore, ConnectProtectFails
<1>3. delivered'[st] \in {delivered[st], storage[st]}
  BY <1>1, <1>2 DEF Next, StartLogin, Expire, ConnectLookup, Shutdown, PluginInit, vars
<1>4. PICK q \in Request :
        page[q] = "connected" /\ target[q] = st /\ submitted[q] = delivered'[st]
  BY <1>3 DEF IInv, KeyInv, DeliveredIsConnected
<1>. QED
  BY <1>4, ConnectedStays

\* A key pair goes only when a request connects and never comes back; only then
\* is a key stored.
LEMMA NextKeyInv == IInv /\ [Next]_vars => KeyInv' /\ NilKeyNeedsRace'
<1>. SUFFICES ASSUME IInv, [Next]_vars PROVE KeyInv' /\ NilKeyNeedsRace'
  OBVIOUS
<1>. USE DEF TypeOK, Holding, flows, polls, requests, process, Goto, Respond
<1>. DEFINE Same == UNCHANGED <<started, privateKey, storage, target, sawKey, submitted, page,
                             crashed, pc>>
<1>1. ASSUME NEW st \in State, StartLogin(st) PROVE KeyInv' /\ NilKeyNeedsRace'
  BY <1>1 DEF StartLogin, IInv, KeyInv, NilKeyNeedsRace
<1>2. CASE Same
  BY <1>2 DEF IInv, KeyInv, NilKeyNeedsRace
<1>3. ASSUME NEW st \in State, NEW heard \in BOOLEAN, PollLogin(st, heard) PROVE Same
  BY <1>3 DEF PollLogin, PollExpired, PollPending, PollSuccess
<1>4. ASSUME NEW r \in Request, NEW st \in State, ConnectLookup(r, st), ~crashed
      PROVE  KeyInv' /\ NilKeyNeedsRace'
  <2>1. /\ pc[r] = "new" /\ page[r] = "none"
        /\ target' = [target EXCEPT ![r] = st]
        /\ UNCHANGED <<started, privateKey, storage, submitted, crashed>>
    BY <1>4 DEF ConnectLookup, IInv
  <2>2. CASE st \in registered \ expired
    <3>1. /\ pc' = [pc EXCEPT ![r] = "check"] /\ page' = page
          /\ sawKey' = [sawKey EXCEPT ![r] = privateKey[st]]
      BY <1>4, <2>2 DEF ConnectLookup
    <3>2. \A q \in Request : page[q] = "connected" => target'[q] = target[q]
      BY <2>1 DEF IInv
    <3>3. \A q \in Request \ {r} : /\ pc'[q] = pc[q] /\ sawKey'[q] = sawKey[q]
                                   /\ target'[q] = target[q]
      BY <2>1, <3>1 DEF IInv
    <3>4. pc'[r] = "check" /\ sawKey'[r] = privateKey[st] /\ target'[r] = st
      BY <2>1, <3>1 DEF IInv
    <3>. QED
      BY <1>4, <2>1, <3>1, <3>2, <3>3, <3>4 DEF IInv, KeyInv, NilKeyNeedsRace
  <2>3. CASE st \notin registered \ expired
    BY <1>4, <2>1, <2>3 DEF ConnectLookup, IInv, KeyInv, NilKeyNeedsRace
  <2>. QED
    BY <2>2, <2>3
<1>5. ASSUME NEW r \in Request, ConnectCheckKey(r), ~crashed
      PROVE  KeyInv' /\ NilKeyNeedsRace'
  BY <1>5 DEF ConnectCheckKey, KeyReads, IInv, KeyInv, NilKeyNeedsRace
<1>6. ASSUME NEW r \in Request, ConnectNilKey(r) PROVE KeyInv' /\ NilKeyNeedsRace'
  <2>1. pc[r] = "decrypt" /\ sawKey[r] /\ target[r] \in started /\ FALSE \in KeyReads(r)
    BY <1>6 DEF ConnectNilKey, IInv, KeyInv
  <2>2. ~privateKey[target[r]]
    BY <2>1 DEF KeyReads
  <2>3. PICK q \in Request : page[q] = "connected" /\ target[q] = target[r]
    BY <2>1, <2>2 DEF IInv, KeyInv
  <2>. QED
    BY <1>6, <2>1, <2>3 DEF ConnectNilKey, IInv, KeyInv, NilKeyNeedsRace
<1>7. ASSUME NEW r \in Request, ~crashed,
             \/ ConnectDecrypt(r) \/ ConnectAccepted(r) \/ ConnectRejected(r)
             \/ ConnectProtectFails(r)
      PROVE  KeyInv' /\ NilKeyNeedsRace'
  <2>1. /\ UNCHANGED <<started, privateKey, storage, target, sawKey, crashed>>
        /\ \A q \in Request \ {r} :
             pc'[q] = pc[q] /\ page'[q] = page[q] /\ submitted'[q] = submitted[q]
        /\ pc'[r] \notin {"check", "decrypt"}
        /\ page[r] # "connected"
    BY <1>7 DEF ConnectDecrypt, ConnectAccepted, ConnectRejected,
                ConnectProtectFails, IInv
  <2>. QED
    BY <1>7, <2>1 DEF IInv, KeyInv, NilKeyNeedsRace
<1>8. ASSUME NEW r \in Request, ConnectStore(r), ~crashed
      PROVE  KeyInv' /\ NilKeyNeedsRace'
  <2>1. /\ UNCHANGED <<started, target, sawKey, submitted, crashed>>
        /\ \A q \in Request \ {r} : pc'[q] = pc[q] /\ page'[q] = page[q]
        /\ pc'[r] = "done" /\ page'[r] = "connected"
        /\ \A st \in State \ {target[r]} : privateKey'[st] = privateKey[st]
        /\ target[r] \in State /\ privateKey'[target[r]] = FALSE
        /\ \A st \in State \ {target[r]} : storage'[st] = storage[st]
        /\ storage'[target[r]] = submitted[r]
    BY <1>8 DEF ConnectStore, IInv
  <2>2. \A q \in Request : page[q] = "connected" => page'[q] = "connected"
    BY <2>1
  <2>3. \A q \in Request : pc'[q] \in {"check", "decrypt"} => q # r /\ target[q] \in State
    BY <2>1 DEF IInv
  <2>. QED
    BY <1>8, <2>1, <2>2, <2>3 DEF IInv, KeyInv, NilKeyNeedsRace
<1>9. CASE UNCHANGED vars
  BY <1>2, <1>9 DEF vars
<1>10. ASSUME NEW st \in State, Expire(st) PROVE Same
  BY <1>10 DEF Expire
<1>11. CASE Shutdown \/ PluginInit
  BY <1>2, <1>11 DEF Shutdown, PluginInit
<1>12. ASSUME NEW r \in Request, ConnectStep(r), ~crashed
       PROVE  KeyInv' /\ NilKeyNeedsRace'
  BY <1>5, <1>6, <1>7, <1>8, <1>12, Zenon DEF ConnectStep
<1>. HIDE DEF Same
<1>. QED
  BY <1>1, <1>2, <1>3, <1>4, <1>9, <1>10, <1>11, <1>12, Zenon DEF Next

\* Every step of every handler preserves it.
LEMMA NextIInv == IInv /\ [Next]_vars => IInv'
<1>. SUFFICES ASSUME IInv, [Next]_vars PROVE IInv'
  OBVIOUS
<1>. DEFINE Kept == TypeOK' /\ StrengtheningInv' /\ DeliveredIsAccepted' /\ ConnectedKept'
<1>. USE NoneAssumption DEF IInv, TypeOK, StrengtheningInv, DeliveredIsAccepted,
       ConnectedKept, PC, Statuses, Pages, Holding,
       flows, polls, requests, process, Goto, Respond, Answers
<1>1. ASSUME NEW st \in State, StartLogin(st) PROVE Kept
  BY <1>1 DEF StartLogin
<1>2. ASSUME NEW st \in State, Expire(st) PROVE Kept
  BY <1>2 DEF Expire
<1>3. ASSUME NEW st \in State, NEW heard \in BOOLEAN, PollExpired(st, heard) PROVE Kept
  BY <1>3 DEF PollExpired
<1>4. ASSUME NEW st \in State, NEW heard \in BOOLEAN, PollPending(st, heard) PROVE Kept
  BY <1>4 DEF PollPending
<1>5. ASSUME NEW st \in State, NEW heard \in BOOLEAN, PollSuccess(st, heard) PROVE Kept
  BY <1>5 DEF PollSuccess
<1>6. ASSUME NEW r \in Request, NEW st \in State, ConnectLookup(r, st) PROVE Kept
  <2>1. CASE st \in registered \ expired
    <3>1. /\ pc' = [pc EXCEPT ![r] = "check"]
          /\ target' = [target EXCEPT ![r] = st]
          /\ sawKey' = [sawKey EXCEPT ![r] = privateKey[st]]
          /\ UNCHANGED <<flows, polls, submitted, page, process>>
      BY <1>6, <2>1 DEF ConnectLookup
    <3>2. pc[r] = "new" /\ page[r] # "connected"
      BY <1>6 DEF ConnectLookup
    <3>3. TypeOK'
      <4>1. /\ pc' \in [Request -> PC]
            /\ target' \in [Request -> State \cup {None}]
            /\ sawKey' \in [Request -> BOOLEAN]
        BY <3>1
      <4>2. \A q \in Request :
              /\ pc'[q] \in Holding => target'[q] \in started'
              /\ pc'[q] \in {"validate", "store"} => submitted'[q] \in Key
              /\ pc'[q] = "done" <=> page'[q] # "none"
        BY <2>1, <3>1, <3>2
      <4>. QED
        BY <3>1, <4>1, <4>2
    <3>4. StrengtheningInv' /\ DeliveredIsAccepted' /\ ConnectedKept'
      BY <3>1, <3>2
    <3>. QED
      BY <3>3, <3>4
  <2>2. CASE st \notin registered \ expired
    BY <1>6, <2>2 DEF ConnectLookup
  <2>. QED
    BY <2>1, <2>2
<1>7. ASSUME NEW r \in Request, ConnectCheckKey(r) PROVE Kept
  BY <1>7 DEF ConnectCheckKey
<1>8. ASSUME NEW r \in Request, ConnectDecrypt(r) PROVE Kept
  BY <1>8 DEF ConnectDecrypt
<1>9. ASSUME NEW r \in Request, ConnectNilKey(r) PROVE Kept
  BY <1>9 DEF ConnectNilKey
<1>10. ASSUME NEW r \in Request, ConnectAccepted(r) PROVE Kept
  BY <1>10 DEF ConnectAccepted
<1>11. ASSUME NEW r \in Request, ConnectRejected(r) PROVE Kept
  BY <1>11 DEF ConnectRejected
<1>12. ASSUME NEW r \in Request, ConnectStore(r) PROVE Kept
  BY <1>12 DEF ConnectStore
<1>13. ASSUME NEW r \in Request, ConnectProtectFails(r) PROVE Kept
  BY <1>13 DEF ConnectProtectFails
<1>14. ASSUME Shutdown PROVE Kept
  BY <1>14 DEF Shutdown
<1>15. ASSUME PluginInit PROVE Kept
  BY <1>15 DEF PluginInit
<1>16. ASSUME UNCHANGED vars PROVE Kept
  BY <1>16 DEF vars
<1>. HIDE DEF IInv, Kept
<1>17. ASSUME NEW st \in State, NEW heard \in BOOLEAN, PollLogin(st, heard) PROVE Kept
  BY <1>3, <1>4, <1>5, <1>17, Zenon DEF PollLogin
<1>18. ASSUME NEW r \in Request, ConnectStep(r) PROVE Kept
  BY <1>7, <1>8, <1>9, <1>10, <1>11, <1>12, <1>13, <1>18, Zenon DEF ConnectStep
<1>19. Kept
  BY <1>1, <1>2, <1>6, <1>14, <1>15, <1>16, <1>17, <1>18, Zenon DEF Next
<1>. QED
  BY <1>19, NextKeyInv, NextDelivered DEF IInv, Kept

\* The inductive invariant holds in every reachable state.
LEMMA AlwaysIInv == Spec => []IInv
<1>. QED
  BY InitIInv, NextIInv, PTL DEF Spec

-----------------------------------------------------------------------------

\* The variables have their types, and requests hold flows of started logins.
THEOREM LoginTypeCorrect == Spec => []TypeOK
<1>1. IInv => TypeOK
  BY DEF IInv
<1>. QED
  BY <1>1, AlwaysIInv, PTL

\* A key PollLogin hands over was accepted by OpenRouter for that login.
THEOREM LoginDeliversAccepted == Spec => []DeliveredIsAccepted
<1>1. IInv => DeliveredIsAccepted
  BY DEF IInv
<1>. QED
  BY <1>1, AlwaysIInv, PTL

\* The host gets only keys whose browser was told "connected".
THEOREM LoginDeliversConnected == Spec => []DeliveredIsConnected
<1>1. IInv => DeliveredIsConnected
  BY DEF IInv
<1>. QED
  BY <1>1, AlwaysIInv, PTL

\* A key of a "connected" page reaches the host, unless another connect of that
\* login, the deadline or a Shutdown overtook it.
THEOREM LoginReachesHost == Spec => []ConnectedReachesHost
<1>1. IInv => ConnectedReachesHost
  <2>. SUFFICES ASSUME IInv, NEW r \in Request,
                       page[r] = "connected", target[r] \notin registered,
                       target[r] \notin expired \cup dropped,
                       delivered[target[r]] # submitted[r]
                PROVE  \E q \in Request \ {r} :
                         /\ page[q] = "connected" /\ target[q] = target[r]
                         /\ delivered[target[r]] = submitted[q]
    BY DEF ConnectedReachesHost
  <2>1. target[r] \in started \ registered /\ target[r] \in State
    BY DEF IInv, ConnectedKept, TypeOK
  <2>2. delivered[target[r]] # None
    BY <2>1 DEF IInv, StrengtheningInv
  <2>. QED
    BY <2>1, <2>2 DEF IInv, DeliveredIsConnected
<1>. QED
  BY <1>1, AlwaysIInv, PTL

\* Only a request that another one of its login overtook dereferences a nil key.
THEOREM LoginNilKeyNeedsRace == Spec => []NilKeyNeedsRace
<1>1. IInv => NilKeyNeedsRace
  BY DEF IInv
<1>. QED
  BY <1>1, AlwaysIInv, PTL

\* Behind every "connected" page stand a stored key and a spent key pair.
THEOREM LoginKeepsConnected == Spec => []ConnectedKept
<1>1. IInv => ConnectedKept
  BY DEF IInv
<1>. QED
  BY <1>1, AlwaysIInv, PTL

-----------------------------------------------------------------------------

\* A login nobody started yet is idle in the contract too.
LEMMA InitContract == Init => Contract!Init
<1>. QED
  BY DEF Init, Contract!Init, Status

\* Steps that touch neither the map, the deadline, OpenRouter's answers nor
\* the delivery are stutters of the contract.
LEMMA Stutter ==
  UNCHANGED <<started, registered, expired, accepted, delivered>>
    => UNCHANGED Contract!vars
<1>. QED
  BY DEF Contract!vars, Status

\* Every step of the handlers is a step of the contract or a stutter.
LEMMA StepContract == IInv /\ [Next]_vars => [Contract!Next]_Contract!vars
<1>. SUFFICES ASSUME IInv, [Next]_vars PROVE [Contract!Next]_Contract!vars
  OBVIOUS
<1>. USE DEF flows, polls, requests, process, Status
<1>1. ASSUME NEW st \in State, StartLogin(st) PROVE Contract!Open(st)
  BY <1>1 DEF StartLogin, Contract!Open, IInv, TypeOK, StrengtheningInv
<1>2. ASSUME NEW st \in State, Expire(st) PROVE Contract!Elapse(st)
  BY <1>2 DEF Expire, Contract!Elapse, IInv, StrengtheningInv
<1>3. ASSUME NEW st \in State, NEW heard \in BOOLEAN, PollExpired(st, heard)
      PROVE  (\E S \in SUBSET State : Contract!Close(S)) \/ UNCHANGED Contract!vars
  <2>1. CASE st \in registered
    <3>1. Contract!Close({st})
      BY <1>3, <2>1 DEF PollExpired, Contract!Close, IInv, TypeOK, StrengtheningInv
    <3>. QED
      BY <3>1
  <2>2. CASE st \notin registered
    BY <1>3, <2>2, Stutter DEF PollExpired
  <2>. QED
    BY <2>1, <2>2
<1>4. ASSUME NEW st \in State, NEW heard \in BOOLEAN, PollPending(st, heard) PROVE UNCHANGED Contract!vars
  BY <1>4, Stutter DEF PollPending
<1>5. ASSUME NEW st \in State, NEW heard \in BOOLEAN, PollSuccess(st, heard) PROVE Contract!Deliver(st)
  BY <1>5 DEF PollSuccess, Contract!Deliver, IInv, TypeOK, StrengtheningInv
<1>6. ASSUME NEW r \in Request, NEW st \in State, ConnectLookup(r, st)
      PROVE  UNCHANGED Contract!vars
  BY <1>6, Stutter DEF ConnectLookup
<1>7. ASSUME NEW r \in Request, ConnectAccepted(r)
      PROVE  Contract!Vouch(target[r], submitted[r])
  BY <1>7 DEF ConnectAccepted, Contract!Vouch, IInv, TypeOK, Holding
<1>8. ASSUME NEW r \in Request, ConnectStep(r), ~ConnectAccepted(r)
      PROVE  UNCHANGED Contract!vars
  BY <1>8, Stutter
  DEF ConnectStep, ConnectCheckKey, ConnectDecrypt, ConnectNilKey,
      ConnectRejected, ConnectStore, ConnectProtectFails
<1>9. ASSUME Shutdown PROVE \E S \in SUBSET State : Contract!Close(S)
  <2>1. PICK S \in SUBSET State : S = registered
    BY DEF IInv, TypeOK
  <2>2. Contract!Close(S)
    BY <1>9, <2>1 DEF Shutdown, Contract!Close, IInv, TypeOK, StrengtheningInv
  <2>. QED
    BY <2>2
<1>10. CASE PluginInit \/ UNCHANGED vars
  <2>1. UNCHANGED <<started, registered, expired, accepted, delivered>>
    BY <1>10 DEF PluginInit, vars
  <2>. QED
    BY <2>1, Stutter
<1>11. ASSUME NEW r \in Request, ConnectAccepted(r)
       PROVE  target[r] \in State /\ submitted[r] \in Key
  BY <1>11 DEF ConnectAccepted, IInv, TypeOK, Holding
<1>12. CASE \/ \E st \in State : StartLogin(st) \/ Expire(st)
            \/ \E st \in State, heard \in BOOLEAN : PollLogin(st, heard)
  BY <1>1, <1>2, <1>3, <1>4, <1>5, <1>12 DEF PollLogin, Contract!Next
<1>13. CASE \E r \in Request, st \in State : ConnectLookup(r, st)
  BY <1>6, <1>13
<1>14. CASE \E r \in Request : ConnectStep(r)
  BY <1>7, <1>8, <1>11, <1>14 DEF Contract!Next
<1>15. CASE Shutdown
  BY <1>9, <1>15 DEF Contract!Next
<1>. QED
  BY <1>10, <1>12, <1>13, <1>14, <1>15 DEF Next

\* The handlers implement what LoginContract promises to the host.
THEOREM LoginImplementsContract == Spec => ImplementsContract
<1>. QED
  BY InitContract, StepContract, AlwaysIInv, PTL
  DEF Spec, ImplementsContract, Contract!Spec
=============================================================================
