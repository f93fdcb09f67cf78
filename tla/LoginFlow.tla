------------------------------ MODULE LoginFlow ------------------------------
(***************************************************************************)
(* The browser login of internal/openrouter: StartLogin and PollLogin      *)
(* (auth.go), called by the host, against connect (management.go), called  *)
(* by the browser, any number of times at once for one login.  A handler   *)
(* runs in one step where it holds Service.mu; connect releases it and     *)
(* keeps a pointer to the loginFlow while it talks to OpenRouter, so its   *)
(* steps interleave with everything else, with Shutdown included.          *)
(***************************************************************************)
CONSTANTS
  State,    \* login states (auth.go:53), random and never reused
  Request,  \* GET requests to connect, each handled once
  Key,      \* API keys a browser may submit
  None      \* flow.Storage == nil, and "no key yet"

ASSUME NoneAssumption == None \notin State \cup Key

VARIABLES
  started,     \* logins StartLogin created; their loginFlow may outlive the map
  registered,  \* the domain of Service.logins
  expired,     \* logins whose ExpiresAt has passed
  privateKey,  \* flow.PrivateKey != nil
  storage,     \* the key sealed in flow.Storage, or None
  accepted,    \* keys OpenRouter accepted in connects of that login
  answer,      \* the last answer of PollLogin that was heard for that login
  delivered,   \* the key PollLogin handed out, heard or not, or None
  pc,          \* where each connect request is
  target,      \* the loginFlow it looked up, or None
  sawKey,      \* flow.PrivateKey != nil when it looked up, under the lock
  submitted,   \* the key it decrypted, or None
  page,        \* the page it returned
  hostUp,      \* stored_host != NULL
  crashed,     \* a nil dereference took the process down
  dropped      \* history: logins a Shutdown took from the map, while in time

flows == <<started, registered, expired, privateKey, storage, accepted>>
polls == <<answer, delivered>>
requests == <<pc, target, sawKey, submitted, page>>
process == <<hostUp, crashed, dropped>>
vars == <<flows, polls, requests, process>>

PC == {"new", "check", "decrypt", "validate", "store", "done"}
Statuses == {"none", "pending", "success", "expired"}
Pages == {"none", "connected", "expired", "retry", "error"}

Init ==
  /\ started = {}
  /\ registered = {}
  /\ expired = {}
  /\ privateKey = [st \in State |-> FALSE]
  /\ storage = [st \in State |-> None]
  /\ accepted = [st \in State |-> {}]
  /\ answer = [st \in State |-> "none"]
  /\ delivered = [st \in State |-> None]
  /\ pc = [r \in Request |-> "new"]
  /\ target = [r \in Request |-> None]
  /\ sawKey = [r \in Request |-> FALSE]
  /\ submitted = [r \in Request |-> None]
  /\ page = [r \in Request |-> "none"]
  /\ hostUp = TRUE
  /\ crashed = FALSE
  /\ dropped = {}

-----------------------------------------------------------------------------
(* The host's side: StartLogin, the clock and PollLogin.                    *)

StartLogin(st) ==
  /\ st \notin started
  /\ started' = started \cup {st}
  /\ registered' = registered \cup {st}
  /\ privateKey' = [privateKey EXCEPT ![st] = TRUE]
  /\ UNCHANGED <<expired, storage, accepted, polls, requests, process>>

\* Ten minutes pass (auth.go:54).
Expire(st) ==
  /\ st \in started \ expired
  /\ expired' = expired \cup {st}
  /\ dropped' = dropped \ {st}
  /\ UNCHANGED <<started, registered, privateKey, storage, accepted, polls,
                 requests, hostUp, crashed>>

\* An answer may be lost on its way to whoever polls, who then polls again.
Answers(st, status, heard) ==
  answer' = [answer EXCEPT ![st] = IF heard THEN status ELSE @]

\* Mutant of PollExpired: the deadline is never looked at.
PollUnknownOnly(st, heard) ==
  /\ st \in started \ registered
  /\ Answers(st, "expired", heard)
  /\ UNCHANGED <<flows, delivered, requests, process>>

\* An unknown login and an expired one get the same answer (auth.go:69-77).
PollExpired(st, heard) ==
  /\ st \in started
  /\ st \in registered => st \in expired
  /\ registered' = registered \ {st}
  /\ Answers(st, "expired", heard)
  /\ UNCHANGED <<started, expired, privateKey, storage, accepted, delivered,
                 requests, process>>

\* Mutant of PollPending: every answer ends the login.
PollPendingDeletes(st, heard) ==
  /\ st \in registered \ expired
  /\ storage[st] = None
  /\ registered' = registered \ {st}
  /\ Answers(st, "pending", heard)
  /\ UNCHANGED <<started, expired, privateKey, storage, accepted, delivered,
                 requests, process>>

PollPending(st, heard) ==
  /\ st \in registered \ expired
  /\ storage[st] = None
  /\ Answers(st, "pending", heard)
  /\ UNCHANGED <<flows, delivered, requests, process>>

\* Mutant of PollSuccess: the login stays registered.
PollSuccessKeepsLogin(st, heard) ==
  /\ st \in registered \ expired
  /\ storage[st] # None
  /\ Answers(st, "success", heard)
  /\ delivered' = [delivered EXCEPT ![st] = storage[st]]
  /\ UNCHANGED <<flows, requests, process>>

PollSuccess(st, heard) ==
  /\ st \in registered \ expired
  /\ storage[st] # None
  /\ registered' = registered \ {st}
  /\ Answers(st, "success", heard)
  /\ delivered' = [delivered EXCEPT ![st] = storage[st]]
  /\ UNCHANGED <<started, expired, privateKey, storage, accepted, requests,
                 process>>

PollLogin(st, heard) ==
  PollExpired(st, heard) \/ PollPending(st, heard) \/ PollSuccess(st, heard)

-----------------------------------------------------------------------------
(* The browser's side: one connect request, step by step.                   *)

Goto(r, label) == pc' = [pc EXCEPT ![r] = label]

Respond(r, p) ==
  /\ Goto(r, "done")
  /\ page' = [page EXCEPT ![r] = p]

\* What a read of flow.PrivateKey may return.  It takes no lock, so it may
\* still see the pointer that was there at the lookup.
KeyReads(r) == {sawKey[r], privateKey[target[r]]}

\* Mutant of ConnectLookup: found is not tested.
ConnectLookupAny(r, st) ==
  /\ pc[r] = "new"
  /\ target' = [target EXCEPT ![r] = st]
  /\ Goto(r, "check")
  /\ sawKey' = [sawKey EXCEPT ![r] = privateKey[st]]
  /\ UNCHANGED <<flows, polls, submitted, page, process>>

\* The expiry is read after the unlock (management.go:127); a login that ends
\* in between answers the same page, so lookup and test are one step.
ConnectLookup(r, st) ==
  /\ pc[r] = "new"
  /\ target' = [target EXCEPT ![r] = st]
  /\ IF st \in registered \ expired
       THEN /\ Goto(r, "check")
            /\ sawKey' = [sawKey EXCEPT ![r] = privateKey[st]]
            /\ UNCHANGED page
       ELSE Respond(r, "expired") /\ UNCHANGED sawKey
  /\ UNCHANGED <<flows, polls, submitted, process>>

\* Mutant of ConnectCheckKey: there is no guard.
ConnectCheckNothing(r) ==
  /\ pc[r] = "check"
  /\ Goto(r, "decrypt")
  /\ UNCHANGED <<flows, polls, target, sawKey, submitted, page, process>>

\* decryptLoginPayload, the guard at auth.go:182.
ConnectCheckKey(r) ==
  /\ pc[r] = "check"
  /\ \E present \in KeyReads(r) :
       IF present THEN Goto(r, "decrypt") /\ UNCHANGED page
                  ELSE Respond(r, "retry")
  /\ UNCHANGED <<flows, polls, target, sawKey, submitted, process>>

\* decryptLoginPayload, the second read at auth.go:193.  The payload may not
\* decode or not decrypt; a nil key is dereferenced.
ConnectDecrypt(r) ==
  /\ pc[r] = "decrypt"
  /\ TRUE \in KeyReads(r)
  /\ \/ \E k \in Key : /\ submitted' = [submitted EXCEPT ![r] = k]
                       /\ Goto(r, "validate")
                       /\ UNCHANGED page
     \/ Respond(r, "retry") /\ UNCHANGED submitted
  /\ UNCHANGED <<flows, polls, target, sawKey, process>>

ConnectNilKey(r) ==
  /\ pc[r] = "decrypt"
  /\ FALSE \in KeyReads(r)
  /\ crashed' = TRUE
  /\ UNCHANGED <<flows, polls, requests, hostUp, dropped>>

\* validateKey and fetchModels: OpenRouter accepts the key, which takes a host
\* to ask it, or the browser gets the form again.
ConnectAccepted(r) ==
  /\ pc[r] = "validate"
  /\ hostUp
  /\ accepted' = [accepted EXCEPT ![target[r]] = @ \cup {submitted[r]}]
  /\ Goto(r, "store")
  /\ UNCHANGED <<started, registered, expired, privateKey, storage, polls,
                 target, sawKey, submitted, page, process>>

\* Mutant of ConnectRejected: OpenRouter's error is ignored.
ConnectRejectedIgnored(r) ==
  /\ pc[r] = "validate"
  /\ Goto(r, "store")
  /\ UNCHANGED <<flows, polls, target, sawKey, submitted, page, process>>

ConnectRejected(r) ==
  /\ pc[r] = "validate"
  /\ Respond(r, "retry")
  /\ UNCHANGED <<flows, polls, target, sawKey, submitted, process>>

\* Mutant of ConnectStore: the key pair survives.
ConnectStoreKeepsKey(r) ==
  /\ pc[r] = "store"
  /\ storage' = [storage EXCEPT ![target[r]] = submitted[r]]
  /\ Respond(r, "connected")
  /\ UNCHANGED <<started, registered, expired, privateKey, accepted, polls,
                 target, sawKey, submitted, process>>

\* The flow the request looked up is completed, registered or not.
ConnectStore(r) ==
  /\ pc[r] = "store"
  /\ storage' = [storage EXCEPT ![target[r]] = submitted[r]]
  /\ privateKey' = [privateKey EXCEPT ![target[r]] = FALSE]
  /\ Respond(r, "connected")
  /\ UNCHANGED <<started, registered, expired, accepted, polls, target, sawKey,
                 submitted, process>>

\* Mutant of ConnectProtectFails: the key is kept all the same.
ConnectProtectFailsKeeps(r) ==
  /\ pc[r] = "store"
  /\ storage' = [storage EXCEPT ![target[r]] = submitted[r]]
  /\ Respond(r, "error")
  /\ UNCHANGED <<started, registered, expired, privateKey, accepted, polls,
                 target, sawKey, submitted, process>>

\* newStorage fails: no usable master key in the environment.
ConnectProtectFails(r) ==
  /\ pc[r] = "store"
  /\ Respond(r, "error")
  /\ UNCHANGED <<flows, polls, target, sawKey, submitted, process>>

ConnectStep(r) ==
  \/ ConnectCheckKey(r) \/ ConnectDecrypt(r) \/ ConnectNilKey(r)
  \/ ConnectAccepted(r) \/ ConnectRejected(r)
  \/ ConnectStore(r) \/ ConnectProtectFails(r)

-----------------------------------------------------------------------------
(* The library's entry points around them.                                  *)

Shutdown ==
  /\ hostUp
  /\ registered' = {}
  /\ dropped' = dropped \cup (registered \ expired)
  /\ hostUp' = FALSE
  /\ UNCHANGED <<started, expired, privateKey, storage, accepted, polls,
                 requests, crashed>>

PluginInit ==
  /\ ~hostUp
  /\ hostUp' = TRUE
  /\ UNCHANGED <<flows, polls, requests, crashed, dropped>>

Next ==
  /\ ~crashed
  /\ \/ \E st \in State : StartLogin(st) \/ Expire(st)
     \/ \E st \in State, heard \in BOOLEAN : PollLogin(st, heard)
     \/ \E r \in Request, st \in State : ConnectLookup(r, st)
     \/ \E r \in Request : ConnectStep(r)
     \/ Shutdown
     \/ PluginInit

Spec == Init /\ [][Next]_vars

\* Time passes, and the host polls a login it started until it hears a final
\* answer; nothing is assumed of the browser or of OpenRouter.
Fairness ==
  \A st \in State :
    /\ WF_vars(~crashed /\ Expire(st))
    /\ WF_vars(~crashed /\ PollLogin(st, TRUE))

FairSpec == Spec /\ Fairness

-----------------------------------------------------------------------------
(* Properties.                                                              *)

Holding == {"check", "decrypt", "validate", "store"}

\* Every variable has its type; a request past the lookup holds the flow of a
\* started login, and one past the decryption holds a key.
TypeOK ==
  /\ started \subseteq State
  /\ registered \subseteq started
  /\ expired \subseteq started
  /\ privateKey \in [State -> BOOLEAN]
  /\ storage \in [State -> Key \cup {None}]
  /\ accepted \in [State -> SUBSET Key]
  /\ answer \in [State -> Statuses]
  /\ delivered \in [State -> Key \cup {None}]
  /\ pc \in [Request -> PC]
  /\ target \in [Request -> State \cup {None}]
  /\ sawKey \in [Request -> BOOLEAN]
  /\ submitted \in [Request -> Key \cup {None}]
  /\ page \in [Request -> Pages]
  /\ hostUp \in BOOLEAN
  /\ crashed \in BOOLEAN
  /\ dropped \subseteq started
  /\ \A r \in Request :
       /\ pc[r] \in Holding => target[r] \in started
       /\ pc[r] \in {"validate", "store"} => submitted[r] \in Key
       /\ pc[r] = "done" <=> page[r] # "none"

\* The key the host gets from PollLogin is one OpenRouter accepted in a connect
\* of that very login (auth.go:88 against management.go:136-150), however many
\* requests complete the login and whatever they submit.
DeliveredIsAccepted ==
  \A st \in State : delivered[st] # None => delivered[st] \in accepted[st]

\* A browser that was told "connected" left a credential behind and the key
\* pair is gone (management.go:150-153): as long as the login is registered
\* and in time the next poll succeeds, and no later request decrypts with it.
ConnectedKept ==
  \A r \in Request :
    page[r] = "connected" =>
      /\ target[r] \in started
      /\ storage[target[r]] \in accepted[target[r]]
      /\ ~privateKey[target[r]]

\* The converse of what the page promises, which does hold: the host gets no key
\* whose browser was shown a form or an error again (management.go:136-153), not
\* even when several requests complete one login.
DeliveredIsConnected ==
  \A st \in State :
    delivered[st] # None =>
      \E q \in Request :
        page[q] = "connected" /\ target[q] = st /\ submitted[q] = delivered[st]

\* A browser told "connected" (management.go:153) is told the truth about the
\* host, but for what may overtake its request while OpenRouter is asked: once
\* the login has left the map, the host was given the key of this request, or
\* of another that connected the same login with its own, or the ten minutes
\* were over, or a Shutdown took the login.  No other order of polls, stores
\* and lost answers loses a key (auth.go:67-92 against management.go:127-153).
ConnectedReachesHost ==
  \A r \in Request :
    page[r] = "connected" /\ target[r] \notin registered =>
      \/ delivered[target[r]] = submitted[r]
      \/ \E q \in Request \ {r} :
           /\ page[q] = "connected" /\ target[q] = target[r]
           /\ delivered[target[r]] = submitted[q]
      \/ target[r] \in expired \cup dropped

\* The guard of auth.go:182 stops every request but one that another overtakes:
\* a nil key is dereferenced only by a request that found the key at its lookup,
\* after another request of that login was told "connected".  One connect at a
\* time never does it, however many there are.
NilKeyNeedsRace ==
  crashed => \E r, q \in Request :
               /\ pc[r] = "decrypt" /\ sawKey[r]
               /\ page[q] = "connected" /\ target[q] = target[r]

\* What they rest on: a key is stored, and the key pair goes, when a request
\* connects; the pair does not come back, and a request that decrypts found it.
KeyInv ==
  /\ \A st \in State :
       storage[st] # None =>
         \E q \in Request :
           page[q] = "connected" /\ target[q] = st /\ submitted[q] = storage[st]
  /\ \A st \in started :
       ~privateKey[st] => \E q \in Request : page[q] = "connected" /\ target[q] = st
  /\ \A r \in Request :
       /\ pc[r] \in {"check", "decrypt"} /\ ~sawKey[r] => ~privateKey[target[r]]
       /\ pc[r] = "decrypt" => sawKey[r]

\* What the invariants above rest on: a request about to store, and a flow
\* that is complete, hold a key accepted for that login, a login that delivered
\* is over, and one that is over delivered, ran out of time or was dropped.
StrengtheningInv ==
  /\ \A r \in Request : pc[r] = "store" => submitted[r] \in accepted[target[r]]
  /\ \A st \in State : storage[st] # None => storage[st] \in accepted[st]
  /\ \A st \in State : delivered[st] # None => st \in started \ registered
  /\ \A st \in started \ registered :
       delivered[st] # None \/ st \in expired \cup dropped

IInv ==
  /\ TypeOK /\ StrengtheningInv /\ DeliveredIsAccepted /\ ConnectedKept
  /\ KeyInv /\ NilKeyNeedsRace /\ DeliveredIsConnected

\* What is promised to the host.
Status ==
  [st \in State |-> IF st \notin started THEN "idle"
                    ELSE IF st \in registered THEN "open"
                    ELSE IF delivered[st] # None THEN "delivered"
                    ELSE "closed"]

Contract == INSTANCE LoginContract WITH
  status <- Status, credential <- delivered, vouched <- accepted,
  overdue <- expired

\* The handlers implement LoginContract.
ImplementsContract == Contract!Spec

\* A host that keeps polling a login gets a final answer, whichever answers are
\* lost before it, or the plugin died (auth.go:67-92).
EventuallyAnswered ==
  \A st \in State :
    st \in started ~> crashed \/ answer[st] \in {"success", "expired"}

\* What the guard of auth.go:182 is there for: decrypting with a key pair that
\* is gone is refused as "OpenRouter login state is invalid", and no sequence
\* of requests makes the handler dereference a nil key.
NoNilDecrypt == ~crashed
=============================================================================
