--------------------------- MODULE HostAbiProofs ---------------------------
(***************************************************************************)
(* For any number of calls, pumps and hosts: a callback goes wrong, or     *)
(* keeps a host's buffer, only if a host leaves in the middle of it.       *)
(***************************************************************************)
EXTENDS HostAbi, TLAPS

\* The initial states satisfy the inductive invariant.
LEMMA InitIInv == Init => IInv
BY HostAssumption
DEF Init, IInv, TypeOK, CallbackInv, CallbacksAreSound, NothingLeaks, PastGuard,
    Giving, Answers, Threads

\* A host's coming or going is noted by the callbacks under way.
LEMMA StoresIInv ==
  ASSUME IInv, NEW h \in Hosts \cup {None}, Stores(h)
  PROVE  IInv'
<1>. USE HostAssumption DEF Stores, callback, IInv, TypeOK, PastGuard, Giving, Answers
<1>1. /\ stored \in Hosts \cup {None} /\ UNCHANGED <<pc, reply, heap, callback>>
      /\ \A t \in Threads :
           left'[t] = IF pc[t] \in PastGuard THEN left[t] \cup ({stored} \ {None, h})
                      ELSE left[t]
  OBVIOUS
<1>2. \A t \in Threads : left[t] \subseteq left'[t]
  BY <1>1
<1>3. \A t \in Threads : pc[t] \in PastGuard => stored \in {None, h} \cup left'[t]
  BY <1>1
<1>4. TypeOK'
  <2>1. left' \in [Threads -> SUBSET Hosts]
    OBVIOUS
  <2>. QED
    BY <1>1, <2>1
<1>5. CallbackInv'
  BY <1>1, <1>2, <1>3 DEF CallbackInv
<1>6. CallbacksAreSound'
  BY <1>1, <1>2 DEF CallbacksAreSound
<1>7. NothingLeaks'
  BY <1>1, <1>2 DEF NothingLeaks
<1>. QED
  BY <1>4, <1>5, <1>6, <1>7

\* Every step preserves the invariant.
LEMMA NextIInv == IInv /\ [Next]_vars => IInv'
<1>. SUFFICES ASSUME IInv, [Next]_vars PROVE IInv'
  OBVIOUS
<1>. USE HostAssumption
     DEF IInv, TypeOK, CallbackInv, CallbacksAreSound, NothingLeaks, PastGuard,
         Giving, Answers, callback, Goes, Tests, Reads, Arguments
<1>1. ASSUME NEW t \in Threads, BeginCallback(t) PROVE IInv'
  BY <1>1 DEF BeginCallback
<1>2. ASSUME NEW t \in Threads, Guard(t) PROVE IInv'
  BY <1>2 DEF Guard
<1>3. ASSUME NEW t \in Threads, Check(t) PROVE IInv'
  BY <1>3 DEF Check
<1>4. ASSUME NEW t \in Threads, LoadCall(t) PROVE IInv'
  BY <1>4 DEF LoadCall
<1>5. ASSUME NEW t \in Threads, LoadContext(t) PROVE IInv'
  BY <1>5 DEF LoadContext
<1>6. ASSUME NEW t \in Threads, HostAnswers(t) PROVE IInv'
  BY <1>6 DEF HostAnswers
<1>7. ASSUME NEW t \in Threads, Give(t) PROVE IInv'
  BY <1>7 DEF Give
<1>8. ASSUME NEW t \in Threads, GiveCheck(t) PROVE IInv'
  BY <1>8 DEF GiveCheck
<1>9. ASSUME NEW t \in Threads, GiveBack(t) PROVE IInv'
  BY <1>9 DEF GiveBack
<1>10. ASSUME NEW t \in Threads, Returns(t) PROVE IInv'
  BY <1>10 DEF Returns
<1>11. ASSUME NEW t \in Calls, handleMethod(t) PROVE IInv'
  BY <1>11 DEF handleMethod, Responds, Threads
<1>12. ASSUME NEW p \in Pumps, PumpReturns(p) PROVE IInv'
  BY <1>12 DEF PumpReturns, Threads
<1>13. ASSUME NEW t \in Calls, RefuseCall(t) PROVE IInv'
  BY <1>13 DEF RefuseCall, Ready, Responds, Threads
<1>14. ASSUME NEW t \in Calls, cliproxyPluginCall(t) PROVE IInv'
  BY <1>14 DEF cliproxyPluginCall, Ready, Threads
<1>15. ASSUME NEW t \in Calls, cliproxyPluginFree(t) PROVE IInv'
  BY <1>15 DEF cliproxyPluginFree, Threads
<1>16. ASSUME NEW t \in Calls, NEW p \in Pumps, StartPump(t, p) PROVE IInv'
  BY <1>16 DEF StartPump, Threads
<1>17. CASE UNCHANGED vars
  BY <1>17 DEF vars
<1>18. ASSUME NEW h \in Hosts, cliproxy_plugin_init(h) PROVE IInv'
  BY <1>18, StoresIInv DEF cliproxy_plugin_init
<1>19. CASE cliproxyPluginShutdown
  BY <1>19, StoresIInv DEF cliproxyPluginShutdown
<1>. QED
  BY <1>1, <1>2, <1>3, <1>4, <1>5, <1>6, <1>7, <1>8, <1>9, <1>10, <1>11, <1>12,
     <1>13, <1>14, <1>15, <1>16, <1>17, <1>18, <1>19
  DEF Next, ThreadStep, CallbackStep, AnswerStep, HostStep

\* The invariant holds in every reachable state.
LEMMA AlwaysIInv == Spec => []IInv
<1>. QED
  BY InitIInv, NextIInv, PTL DEF Spec

\* Every variable keeps its type.
THEOREM AbiTypeCorrect == Spec => []TypeOK
<1>1. IInv => TypeOK
  BY DEF IInv
<1>. QED
  BY <1>1, AlwaysIInv, PTL

\* A callback crashes, or calls a host with another's context, only if a host
\* left after the callback had found one: for the mixed call, that very host.
THEOREM AbiCallbacksAreSound == Spec => []CallbacksAreSound
<1>1. IInv => CallbacksAreSound
  BY DEF IInv
<1>. QED
  BY <1>1, AlwaysIInv, PTL

\* The plugin's own blocks are freed; a host's buffer is given back to that host,
\* unless that very host left while the callback had it.
THEOREM AbiNothingLeaks == Spec => []NothingLeaks
<1>1. IInv => NothingLeaks
  BY DEF IInv
<1>. QED
  BY <1>1, AlwaysIInv, PTL
=============================================================================
