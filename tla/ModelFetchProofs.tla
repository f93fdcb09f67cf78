-------------------------- MODULE ModelFetchProofs --------------------------
(***************************************************************************)
(* For any set of URLs, any links and any page limit: what a walk sends    *)
(* out is bounded, and it delivers the whole list if and only if the list  *)
(* ends within the limit.                                                  *)
(***************************************************************************)
EXTENDS ModelFetch, TLAPS, WellFoundedInduction

\* Every set of naturals that is not empty has a least element.
LEMMA Least ==
  ASSUME NEW T \in SUBSET Nat, T # {}
  PROVE  \E x \in T : \A y \in T : ~(y < x)
<1>. DEFINE R == OpToRel(<, Nat)
<1>1. IsWellFoundedOn(R, Nat)
  BY NatLessThanWellFounded
<1>2. \A x, y \in Nat : y < x => <<y, x>> \in R
  BY DEF OpToRel
<1>. HIDE DEF R
<1>3. \E x \in T : \A y \in T : ~(<<y, x>> \in R)
  BY <1>1, WFMin
<1>. QED
  BY <1>2, <1>3

\* Induction, over sets.
LEMMA Induction ==
  ASSUME NEW S, 0 \in S, \A n \in Nat : n \in S => n + 1 \in S
  PROVE  Nat \subseteq S
<1>. SUFFICES ASSUME Nat \ S # {} PROVE FALSE
  OBVIOUS
<1>1. PICK x \in Nat \ S : \A y \in Nat \ S : ~(y < x)
  BY Least
<1>2. x # 0 /\ x - 1 \in Nat /\ (x - 1) + 1 = x
  BY <1>1
<1>3. x - 1 \in S
  BY <1>1, <1>2
<1>. QED
  BY <1>1, <1>2, <1>3

-----------------------------------------------------------------------------

\* g is the chain of pages, up to its m-th.
IsChain(g, m) ==
  /\ g \in [0..m -> Link]
  /\ g[0] = First
  /\ \A n \in 1..m :
       g[n] = IF g[n - 1] \in Origin THEN link[g[n - 1]] ELSE Malformed

\* A chain goes on for ever, since it stays at Malformed once it left the API.
LEMMA ChainExists ==
  ASSUME link \in [Origin -> Link], NEW m \in Nat
  PROVE  \E g : IsChain(g, m)
<1>. DEFINE S == {k \in Nat : \E g : IsChain(g, k)}
<1>1. 0 \in S
  <2>1. IsChain([k \in 0..0 |-> First], 0)
    BY UrlAssumption DEF IsChain, Link
  <2>. QED
    BY <2>1
<1>2. ASSUME NEW k \in Nat, k \in S PROVE k + 1 \in S
  <2>1. PICK g : IsChain(g, k)
    BY <1>2
  <2>. DEFINE last == IF g[k] \in Origin THEN link[g[k]] ELSE Malformed
              h == [j \in 0..(k + 1) |-> IF j = k + 1 THEN last ELSE g[j]]
  <2>2. last \in Link
    BY DEF Link
  <2>3. h \in [0..(k + 1) -> Link] /\ h[0] = First
    BY <2>1, <2>2 DEF IsChain
  <2>4. ASSUME NEW n \in 1..(k + 1)
        PROVE  h[n] = IF h[n - 1] \in Origin THEN link[h[n - 1]] ELSE Malformed
    <3>1. h[n - 1] = g[n - 1]
      OBVIOUS
    <3>2. CASE n = k + 1
      BY <3>1, <3>2
    <3>3. CASE n # k + 1
      <4>1. n \in 1..k /\ h[n] = g[n]
        BY <3>3
      <4>. QED
        BY <2>1, <3>1, <4>1 DEF IsChain
    <3>. QED
      BY <3>2, <3>3
  <2>5. IsChain(h, k + 1)
    BY <2>3, <2>4 DEF IsChain
  <2>. QED
    BY <2>5
<1>. HIDE DEF S
<1>3. Nat \subseteq S
  BY <1>1, <1>2, Induction
<1>. QED
  BY <1>3 DEF S

\* What the recursive definition of Chain computes.
LEMMA ChainSteps ==
  ASSUME link \in [Origin -> Link]
  PROVE  IsChain(Chain, MaxPages)
<1>1. PICK g : IsChain(g, MaxPages)
  BY ChainExists, MaxPagesAssumption
<1>2. g = [n \in 0..MaxPages |->
             IF n = 0 THEN First
             ELSE IF g[n - 1] \in Origin THEN link[g[n - 1]] ELSE Malformed]
  <2>1. g = [n \in 0..MaxPages |-> g[n]]
    BY <1>1 DEF IsChain
  <2>2. \A n \in 0..MaxPages : n = 0 \/ n \in 1..MaxPages
    BY MaxPagesAssumption
  <2>. QED
    BY <1>1, <2>1, <2>2 DEF IsChain
<1>3. Chain = [n \in 0..MaxPages |->
                 IF n = 0 THEN First
                 ELSE IF Chain[n - 1] \in Origin THEN link[Chain[n - 1]]
                      ELSE Malformed]
  BY <1>2 DEF Chain
<1>. DEFINE C == Chain
<1>. HIDE DEF C
<1>4. C = [n \in 0..MaxPages |->
             IF n = 0 THEN First
             ELSE IF C[n - 1] \in Origin THEN link[C[n - 1]] ELSE Malformed]
  BY <1>3 DEF C
<1>5. C[0] = First
  BY <1>4, MaxPagesAssumption
<1>6. ASSUME NEW n \in 1..MaxPages
      PROVE  C[n] = IF C[n - 1] \in Origin THEN link[C[n - 1]] ELSE Malformed
  BY <1>4, MaxPagesAssumption
<1>7. ASSUME NEW n \in 0..MaxPages PROVE C[n] \in Link
  BY <1>4, <1>5, <1>6, MaxPagesAssumption, UrlAssumption DEF Link
<1>8. IsChain(C, MaxPages)
  BY <1>4, <1>5, <1>6, <1>7 DEF IsChain
<1>. QED
  BY <1>8 DEF C

\* The chain depends on the links only.
LEMMA ChainIsFixed == link' = link => Chain' = Chain
BY DEF Chain

-----------------------------------------------------------------------------

\* The initial states satisfy the inductive invariant.
LEMMA InitIInv == Init => IInv
<1>. SUFFICES ASSUME Init PROVE IInv
  OBVIOUS
<1>1. Chain[0] = First
  BY ChainSteps DEF Init, IsChain
<1>. QED
  BY <1>1, UrlAssumption, MaxPagesAssumption
  DEF Init, IInv, TypeOK, Link, WalkInv, RequestsAreBounded, FollowsLinks,
      ChainInv, WalkIsExact

\* Sending keeps the bound and the list free of repetitions.
LEMMA SendBounded ==
  ASSUME IInv, NEW u \in Url, Send(u)
  PROVE  /\ requested' \in Seq(Url)
         /\ requested' = Append(out, u)
         /\ seen' \subseteq Url
         /\ RequestsAreBounded'
         /\ \A i \in 1..Len(requested') : requested'[i] \in seen'
         /\ \A v \in seen' : \E i \in 1..Len(requested') : requested'[i] = v
         /\ u \in Origin /\ u = next /\ Len(out) < MaxPages
<1>1. /\ requested' = Append(requested, u) /\ seen' = seen \cup {u}
      /\ u \notin seen /\ u \in Origin /\ u = next /\ out = requested
      /\ Len(out) < MaxPages
  BY DEF Send, MayRequest, page, IInv, WalkInv
<1>2. requested \in Seq(Url)
  BY DEF IInv, TypeOK
<1>3. /\ Len(requested') = Len(requested) + 1
      /\ \A i \in 1..Len(requested) : requested'[i] = requested[i]
      /\ requested'[Len(requested) + 1] = u
      /\ requested' \in Seq(Url)
  BY <1>1, <1>2
<1>4. \A i \in 1..Len(requested) : requested[i] \in seen /\ requested[i] # u
  BY <1>1 DEF IInv, WalkInv
<1>5. RequestsAreBounded'
  BY <1>1, <1>2, <1>3, <1>4, MaxPagesAssumption DEF IInv, RequestsAreBounded
<1>6. ASSUME NEW v \in seen'
      PROVE  \E i \in 1..Len(requested') : requested'[i] = v
  <2>1. CASE v = u
    BY <1>2, <1>3, <2>1
  <2>2. CASE v # u
    <3>1. PICK i \in 1..Len(requested) : requested[i] = v
      BY <1>1, <2>2 DEF Send, IInv, WalkInv
    <3>2. i \in 1..Len(requested') /\ requested'[i] = v
      BY <1>2, <1>3, <3>1
    <3>. QED
      BY <3>2
  <2>. QED
    BY <2>1, <2>2
<1>. QED
  BY <1>1, <1>2, <1>3, <1>4, <1>5, <1>6 DEF IInv, TypeOK

\* A list that leads back to a page it has been at goes round for ever.
LEMMA RepeatedNeverEnds ==
  ASSUME IInv, status = "walking", next \in seen,
         NEW m \in Nat, m <= MaxPages
  PROVE  Chain[m] \in Origin
<1>. DEFINE Walked == {out[i] : i \in 1..Len(out)}
            S == {k \in Nat : k <= MaxPages => Chain[k] \in Walked}
<1>1. /\ out \in Seq(Url) /\ Len(out) \in Nat /\ out = requested
      /\ Walked \subseteq Origin /\ MaxPages \in Nat
  BY MaxPagesAssumption DEF IInv, TypeOK, WalkInv, RequestsAreBounded
<1>2. next \in Walked
  BY <1>1 DEF IInv, WalkInv
<1>3. out # << >> /\ 1 \in 1..Len(out)
  BY <1>1, <1>2
<1>4. IsChain(Chain, MaxPages)
  BY ChainSteps DEF IInv, TypeOK
<1>5. 0 \in S
  <2>1. Chain[0] = out[1]
    BY <1>3, <1>4 DEF IInv, FollowsLinks, IsChain
  <2>. QED
    BY <1>3, <2>1
<1>6. ASSUME NEW k \in Nat, k \in S PROVE k + 1 \in S
  <2>. SUFFICES ASSUME k + 1 <= MaxPages PROVE Chain[k + 1] \in Walked
    OBVIOUS
  <2>1. k <= MaxPages /\ k + 1 \in 1..MaxPages /\ (k + 1) - 1 = k
    BY <1>1
  <2>2. PICK i \in 1..Len(out) : Chain[k] = out[i]
    BY <1>6, <2>1
  <2>3. Chain[k] \in Origin
    BY <1>1, <2>2
  <2>4. Chain[k + 1] = link[out[i]]
    BY <1>4, <2>1, <2>2, <2>3 DEF IsChain
  <2>5. CASE i = Len(out)
    BY <1>2, <1>3, <2>4, <2>5 DEF IInv, FollowsLinks
  <2>6. CASE i # Len(out)
    <3>1. i \in 1..(Len(out) - 1) /\ i + 1 \in 1..Len(out)
      BY <1>1, <2>6
    <3>2. link[out[i]] = out[i + 1]
      BY <1>3, <3>1 DEF IInv, FollowsLinks
    <3>. QED
      BY <2>4, <3>1, <3>2
  <2>. QED
    BY <2>5, <2>6
<1>. HIDE DEF S
<1>7. m \in S
  BY <1>5, <1>6, Induction
<1>. QED
  BY <1>1, <1>7 DEF S

\* Whatever the reason of a refusal, the list does not end within the limit.
LEMMA RefusedNeverEnds ==
  ASSUME IInv, Refuse, NEW n \in 1..MaxPages, EndsAfter(n)
  PROVE  FALSE
<1>. USE MaxPagesAssumption
<1>1. /\ status = "walking" /\ next # NoLink /\ ~MayRequest(next)
      /\ Len(out) \in Nat /\ Len(out) <= MaxPages
      /\ out = requested /\ next = Chain[Len(out)]
  BY DEF Refuse, IInv, TypeOK, WalkInv, RequestsAreBounded, ChainInv
<1>2. ~(n < Len(out))
  <2>. SUFFICES ASSUME n < Len(out) PROVE FALSE
    OBVIOUS
  <2>1. n + 1 \in 1..Len(out) /\ (n + 1) - 1 = n
    BY <1>1
  <2>2. Chain[n] \in Origin
    BY <1>1, <2>1 DEF IInv, ChainInv, RequestsAreBounded
  <2>. QED
    BY <2>2, UrlAssumption DEF EndsAfter
<1>3. n # Len(out)
  BY <1>1 DEF EndsAfter
<1>4. Len(out) < n /\ Len(out) \in 0..(n - 1) /\ Len(out) < MaxPages
  BY <1>1, <1>2, <1>3
<1>5. next \in Origin
  BY <1>1, <1>4 DEF EndsAfter
<1>6. next \in seen
  BY <1>1, <1>4, <1>5 DEF MayRequest, page
<1>7. Chain[n] \in Origin
  BY <1>1, <1>6, RepeatedNeverEnds
<1>. QED
  BY <1>7, UrlAssumption DEF EndsAfter

\* A page that arrives is the next of the list.
LEMMA PageFollows ==
  ASSUME IInv, NEW u \in Url, Page(u)
  PROVE  FollowsLinks' /\ ChainInv'
<1>1. /\ Send(u) /\ next' = link[u] /\ out' = Append(out, u)
      /\ UNCHANGED <<link, status>> /\ status = "walking"
  BY DEF Page, Send
<1>2. /\ out \in Seq(Url) /\ u \in Origin /\ u = next
      /\ Len(out) < MaxPages /\ Len(out) \in Nat
  BY <1>1, SendBounded DEF IInv, TypeOK
<1>3. /\ Len(out') = Len(out) + 1
      /\ \A i \in 1..Len(out) : out'[i] = out[i]
      /\ out'[Len(out) + 1] = u
  BY <1>1, <1>2
<1>4. FollowsLinks'
  <2>1. CASE out = << >>
    BY <1>1, <1>2, <1>3, <2>1 DEF IInv, FollowsLinks
  <2>2. CASE out # << >>
    <3>1. Len(out) \in Nat \ {0}
      BY <1>2, <2>2
    <3>. QED
      BY <1>1, <1>2, <1>3, <2>2, <3>1 DEF IInv, FollowsLinks
  <2>. QED
    BY <2>1, <2>2
<1>5. ChainInv'
  <2>1. Chain' = Chain
    BY <1>1, ChainIsFixed
  <2>2. Chain[Len(out)] = u /\ \A i \in 1..Len(out) : out[i] = Chain[i - 1]
    BY <1>1, <1>2 DEF IInv, ChainInv
  <2>3. Chain[Len(out) + 1] = link[u]
    <3>1. IsChain(Chain, MaxPages)
      BY ChainSteps DEF IInv, TypeOK
    <3>2. Len(out) + 1 \in 1..MaxPages /\ (Len(out) + 1) - 1 = Len(out)
      BY <1>2, MaxPagesAssumption
    <3>. QED
      BY <1>2, <2>2, <3>1, <3>2 DEF IsChain
  <2>4. \A i \in 1..(Len(out) + 1) : out'[i] = Chain[i - 1]
    BY <1>2, <1>3, <2>2
  <2>. QED
    BY <1>1, <1>3, <2>1, <2>3, <2>4 DEF ChainInv
<1>. QED
  BY <1>4, <1>5

\* Every step of the walk preserves the invariant.
LEMMA NextIInv == IInv /\ [Next]_vars => IInv'
<1>. SUFFICES ASSUME IInv, [Next]_vars PROVE IInv'
  OBVIOUS
<1>. USE UrlAssumption, MaxPagesAssumption
<1>0. Chain' = Chain /\ \A n : EndsAfter(n) = EndsAfter(n)'
  <2>1. link' = link
    BY DEF Next, Refuse, Page, PageFails, Finish, vars
  <2>. QED
    BY <2>1, ChainIsFixed DEF EndsAfter
<1>1. CASE Refuse
  <2>1. ~\E n \in 1..MaxPages : EndsAfter(n)
    BY <1>1, RefusedNeverEnds
  <2>2. WalkIsExact'
    BY <1>0, <1>1, <2>1 DEF Refuse, WalkIsExact
  <2>3. TypeOK' /\ WalkInv' /\ RequestsAreBounded' /\ FollowsLinks' /\ ChainInv'
    BY <1>1 DEF Refuse, Marked, IInv, TypeOK, WalkInv, RequestsAreBounded,
                FollowsLinks, ChainInv, Link
  <2>. QED
    BY <2>2, <2>3 DEF IInv
<1>2. ASSUME NEW u \in Url, Page(u) PROVE IInv'
  <2>1. /\ Send(u) /\ next' = link[u] /\ out' = Append(out, u)
        /\ UNCHANGED <<link, status>> /\ status = "walking"
    BY <1>2 DEF Page, Send
  <2>2. TypeOK' /\ WalkInv' /\ RequestsAreBounded'
    BY <2>1, SendBounded DEF IInv, TypeOK, WalkInv, RequestsAreBounded
  <2>3. WalkIsExact'
    BY <2>1 DEF WalkIsExact
  <2>. QED
    BY <1>2, <2>2, <2>3, PageFollows DEF IInv
<1>3. ASSUME NEW u \in Url, NEW how \in Failures, PageFails(u, how) PROVE IInv'
  <2>1. Send(u) /\ status' = how /\ out' = << >> /\ UNCHANGED <<link, next>>
    BY <1>3 DEF PageFails
  <2>2. how \notin {"walking", "ok", "refused"}
    BY DEF Failures
  <2>3. TypeOK' /\ RequestsAreBounded'
    BY <2>1, <2>2, SendBounded DEF IInv, TypeOK
  <2>4. WalkInv' /\ FollowsLinks' /\ ChainInv' /\ WalkIsExact'
    BY <2>1, <2>2, SendBounded DEF WalkInv, FollowsLinks, ChainInv, WalkIsExact
  <2>. QED
    BY <2>3, <2>4 DEF IInv
<1>4. CASE Finish
  <2>1. TypeOK' /\ WalkInv' /\ RequestsAreBounded' /\ FollowsLinks'
    BY <1>4 DEF Finish, IInv, TypeOK, WalkInv, RequestsAreBounded, FollowsLinks
  <2>2. ChainInv'
    BY <1>0, <1>4 DEF Finish, IInv, ChainInv
  <2>3. /\ Len(out) \in 1..MaxPages /\ out = requested
        /\ Chain[Len(out)] = NoLink
        /\ \A i \in 1..Len(out) : out[i] = Chain[i - 1]
    <3>1. out # << >>
      BY <1>4 DEF Finish, IInv, FollowsLinks
    <3>. QED
      BY <1>4, <3>1
      DEF Finish, IInv, TypeOK, WalkInv, RequestsAreBounded, ChainInv
  <2>4. \A i \in 0..(Len(out) - 1) : Chain[i] \in Origin
    <3>. SUFFICES ASSUME NEW i \in 0..(Len(out) - 1) PROVE Chain[i] \in Origin
      OBVIOUS
    <3>1. i + 1 \in 1..Len(out) /\ (i + 1) - 1 = i
      BY <2>3
    <3>. QED
      BY <2>3, <3>1 DEF IInv, RequestsAreBounded
  <2>5. WalkIsExact'
    BY <1>0, <1>4, <2>3, <2>4 DEF Finish, WalkIsExact, EndsAfter
  <2>. QED
    BY <2>1, <2>2, <2>5 DEF IInv
<1>5. CASE UNCHANGED vars
  BY <1>0, <1>5 DEF vars, IInv, TypeOK, WalkInv, RequestsAreBounded,
                    FollowsLinks, ChainInv, WalkIsExact
<1>. QED
  BY <1>1, <1>2, <1>3, <1>4, <1>5 DEF Next

\* The inductive invariant holds in every reachable state.
LEMMA AlwaysIInv == Spec => []IInv
<1>. QED
  BY InitIInv, NextIInv, PTL DEF Spec

-----------------------------------------------------------------------------

\* The variables have their types.
THEOREM FetchTypeCorrect == Spec => []TypeOK
<1>1. IInv => TypeOK
  BY DEF IInv
<1>. QED
  BY <1>1, AlwaysIInv, PTL

\* The key goes to the API only, to no page twice, at most MaxPages times.
THEOREM FetchRequestsAreBounded == Spec => []RequestsAreBounded
<1>1. IInv => RequestsAreBounded
  BY DEF IInv
<1>. QED
  BY <1>1, AlwaysIInv, PTL

\* A walk that OpenRouter does not fail delivers the list, page by page, if it
\* ends within the limit, is refused if it does not, and delivers no part of it.
THEOREM FetchWalkIsExact == Spec => []WalkIsExact
<1>1. IInv => WalkIsExact
  BY DEF IInv
<1>. QED
  BY <1>1, AlwaysIInv, PTL

\* A delivered catalog is the whole list, link by link from the first page.
THEOREM FetchFollowsLinks == Spec => []FollowsLinks
<1>1. IInv => FollowsLinks
  BY DEF IInv
<1>. QED
  BY <1>1, AlwaysIInv, PTL
=============================================================================
