------------------------------- MODULE Catalog -------------------------------
(***************************************************************************)
(* The per-credential model catalog of internal/openrouter: catalog        *)
(* (models.go) as ModelsForAuth, prepareExecution and RefreshAuth call it, *)
(* all at once.  A call holds Service.mu for its lookup and again for its  *)
(* store; the fetch between them runs without it, against an OpenRouter    *)
(* that may revoke the key meanwhile.  A catalog is identified by the time *)
(* its first page was asked for.                                           *)
(***************************************************************************)
EXTENDS Integers

CONSTANTS
  Auth,     \* credentials; an AuthID is derived from its key (auth.go:162)
  Call,     \* host calls, each handled once
  TTL,      \* cacheTTL
  MaxTime   \* bound on the clock

ASSUME TTLAssumption == TTL \in Nat \ {0}
ASSUME MaxTimeAssumption == MaxTime \in Nat

VARIABLES
  clock,      \* time.Now
  revokedAt,  \* revokedAt[a]: when OpenRouter stopped accepting a's key
  revoked,    \* the credentials it stopped accepting
  cache,      \* the domain of Service.cache
  age,        \* age[a]: when the catalog cached for a was taken
  expires,    \* cache[a].ExpiresAt
  pc,         \* where each call is
  force,      \* catalog's parameter: TRUE in a RefreshAuth, else FALSE
  auth,       \* its AuthID and storage
  began,      \* when the host made it
  now,        \* catalog's local now
  found,      \* catalog's local found
  cached,     \* the age of catalog's local copy of the entry
  taken,      \* when it asked for its first page
  failure,    \* how OpenRouter answered, if badly: status class of fetchModels
  source,     \* where the catalog it answered with came from
  served      \* the age of that catalog

world == <<clock, revokedAt, revoked>>
store == <<cache, age, expires>>
locals == <<auth, force, began, now, found, cached, taken>>
outcome == <<failure, source, served>>
vars == <<world, store, pc, locals, outcome>>

PC == {"new", "validate", "lookup", "miss", "paging", "store", "done"}
Failures == {"none", "transient", "permanent"}
Sources == {"none", "hit", "fetched", "fallback", "error"}

Init ==
  /\ clock = 0
  /\ revokedAt = [a \in Auth |-> 0]
  /\ revoked = {}
  /\ cache = {}
  /\ age = [a \in Auth |-> 0]
  /\ expires = [a \in Auth |-> 0]
  /\ pc = [c \in Call |-> "new"]
  /\ force \in [Call -> BOOLEAN]
  /\ auth \in [Call -> Auth]
  /\ began = [c \in Call |-> 0]
  /\ now = [c \in Call |-> 0]
  /\ found = [c \in Call |-> FALSE]
  /\ cached = [c \in Call |-> 0]
  /\ taken = [c \in Call |-> 0]
  /\ failure = [c \in Call |-> "none"]
  /\ source = [c \in Call |-> "none"]
  /\ served = [c \in Call |-> 0]

-----------------------------------------------------------------------------
(* The world: time and OpenRouter's view of the keys.                       *)

Tick ==
  /\ clock < MaxTime
  /\ clock' = clock + 1
  /\ UNCHANGED <<revokedAt, revoked, store, pc, locals, outcome>>

Revoke(a) ==
  /\ a \notin revoked
  /\ revoked' = revoked \cup {a}
  /\ revokedAt' = [revokedAt EXCEPT ![a] = clock]
  /\ UNCHANGED <<clock, store, pc, locals, outcome>>

-----------------------------------------------------------------------------
(* One call.                                                                *)

Goto(c, label) == pc' = [pc EXCEPT ![c] = label]

Answer(c, src, t) ==
  /\ Goto(c, "done")
  /\ source' = [source EXCEPT ![c] = src]
  /\ served' = [served EXCEPT ![c] = t]

\* An error answer.
Fail(c) == Answer(c, "error", 0)

\* catalog reads the clock before it takes the lock (models.go:76-77).
EnterCatalog(c) ==
  /\ Goto(c, "lookup")
  /\ now' = [now EXCEPT ![c] = clock]

\* The call decodes its credential (parseStorage), and all but ModelsForAuth
\* decrypt the key; RefreshAuth then validates it before it enters catalog.
Begin(c) ==
  /\ pc[c] = "new"
  /\ began' = [began EXCEPT ![c] = clock]
  /\ IF force[c] THEN Goto(c, "validate") /\ UNCHANGED now ELSE EnterCatalog(c)
  /\ UNCHANGED <<world, store, auth, force, found, cached, taken, outcome>>

Refuse(c) ==
  /\ pc[c] = "new"
  /\ Fail(c)
  /\ UNCHANGED <<world, store, locals, failure>>

\* RefreshAuth's validateKey: the key is live and OpenRouter says so, or the
\* refresh fails, on any error.
ValidateOk(c) ==
  /\ pc[c] = "validate"
  /\ auth[c] \notin revoked
  /\ EnterCatalog(c)
  /\ UNCHANGED <<world, store, auth, force, began, found, cached, taken, outcome>>

\* Mutant of ValidateFails: the error is ignored.
ValidateFailsIgnored(c) ==
  /\ pc[c] = "validate"
  /\ EnterCatalog(c)
  /\ UNCHANGED <<world, store, auth, force, began, found, cached, taken, outcome>>

ValidateFails(c) ==
  /\ pc[c] = "validate"
  /\ Fail(c)
  /\ UNCHANGED <<world, store, locals, failure>>

Fresh(c) ==
  /\ auth[c] \in cache
  /\ ~force[c]
  /\ now[c] < expires[auth[c]]

\* The lookup under the lock: a hit answers, anything else leaves the lock
\* with a copy of the entry it found.
LookupHit(c) ==
  /\ pc[c] = "lookup"
  /\ Fresh(c)
  /\ Answer(c, "hit", age[auth[c]])
  /\ UNCHANGED <<world, store, locals, failure>>

LookupMiss(c) ==
  /\ pc[c] = "lookup"
  /\ ~Fresh(c)
  /\ found' = [found EXCEPT ![c] = auth[c] \in cache]
  /\ cached' = [cached EXCEPT ![c] = age[auth[c]]]
  /\ Goto(c, "miss")
  /\ UNCHANGED <<world, store, auth, force, began, now, taken, outcome>>

\* The key is decrypted here, for ModelsForAuth the first time, and the first
\* page asked for.
AskFirstPage(c) ==
  /\ pc[c] = "miss"
  /\ Goto(c, "paging")
  /\ taken' = [taken EXCEPT ![c] = clock]
  /\ UNCHANGED <<world, store, auth, force, began, now, found, cached, outcome>>

KeyUnreadable(c) ==
  /\ pc[c] = "miss"
  /\ ~force[c]
  /\ Fail(c)
  /\ UNCHANGED <<world, store, locals, failure>>

\* The last page came in: OpenRouter accepted the key to the end.
FetchOk(c) ==
  /\ pc[c] = "paging"
  /\ auth[c] \notin revoked
  /\ Goto(c, "store")
  /\ UNCHANGED <<world, store, locals, outcome>>

\* Mutant of FallsBack: any failure falls back.
FallsBackAlways(c, status) == found[c]

FallsBack(c, status) == found[c] /\ status = "transient"

\* A network error, 429, 5xx or unusable pagination is transient; any other
\* status, and a body that does not decode, is permanent.  The fallback is the
\* copy made at the lookup, whatever the cache holds now.
FetchFails(c, status) ==
  /\ pc[c] = "paging"
  /\ failure' = [failure EXCEPT ![c] = status]
  /\ IF FallsBack(c, status) THEN Answer(c, "fallback", cached[c]) ELSE Fail(c)
  /\ UNCHANGED <<world, store, locals>>

StoreExpiring(c, at) ==
  /\ pc[c] = "store"
  /\ cache' = cache \cup {auth[c]}
  /\ age' = [age EXCEPT ![auth[c]] = taken[c]]
  /\ expires' = [expires EXCEPT ![auth[c]] = at]
  /\ Answer(c, "fetched", taken[c])
  /\ UNCHANGED <<world, locals, failure>>

\* Mutants of Store: the TTL counts from the store, or backwards.
StoreExpiringLate(c) == StoreExpiring(c, clock + TTL)
StoreExpired(c) == StoreExpiring(c, now[c] - TTL)

\* The entry is replaced whatever is there; it expires a TTL after the call
\* read the clock (models.go:99-102).
Store(c) == StoreExpiring(c, now[c] + TTL)

-----------------------------------------------------------------------------

\* Shutdown (service.go) empties the cache under the calls in flight.
Shutdown ==
  /\ cache # {}
  /\ cache' = {}
  /\ UNCHANGED <<world, age, expires, pc, locals, outcome>>

CallStep(c) ==
  \/ Begin(c) \/ Refuse(c) \/ ValidateOk(c) \/ ValidateFails(c)
  \/ LookupHit(c) \/ LookupMiss(c)
  \/ AskFirstPage(c) \/ KeyUnreadable(c) \/ FetchOk(c)
  \/ (\E status \in {"transient", "permanent"} : FetchFails(c, status))
  \/ Store(c)

Next ==
  \/ Tick
  \/ \E a \in Auth : Revoke(a)
  \/ \E c \in Call : CallStep(c)
  \/ Shutdown

Spec == Init /\ [][Next]_vars

-----------------------------------------------------------------------------
(* Properties.                                                              *)

Catalogs == {"hit", "fetched", "fallback"}

\* Every variable has its type.
TypeOK ==
  /\ clock \in Nat
  /\ revokedAt \in [Auth -> Nat]
  /\ revoked \subseteq Auth
  /\ cache \subseteq Auth
  /\ age \in [Auth -> Nat]
  /\ expires \in [Auth -> Nat]
  /\ pc \in [Call -> PC]
  /\ force \in [Call -> BOOLEAN]
  /\ auth \in [Call -> Auth]
  /\ began \in [Call -> Nat]
  /\ now \in [Call -> Nat]
  /\ found \in [Call -> BOOLEAN]
  /\ cached \in [Call -> Nat]
  /\ taken \in [Call -> Nat]
  /\ failure \in [Call -> Failures]
  /\ source \in [Call -> Sources]
  /\ served \in [Call -> Nat]

\* A cache hit is younger than the TTL when the call reads the clock, measured
\* from the moment OpenRouter was asked for it, although slow fetches, late
\* stores and restarts lie between the two (models.go:79, 99).
HitIsFresh ==
  \A c \in Call : source[c] = "hit" => now[c] < served[c] + TTL

\* A key revoked for a TTL or longer gets a catalog in one way only: from the
\* call's own copy of the last one, while OpenRouter could not be reached
\* (models.go:93).  "An authorization failure" is never papered over.
RevokedServedOnlyFromMemory ==
  \A c \in Call :
    /\ source[c] \in Catalogs
    /\ auth[c] \in revoked
    /\ now[c] >= revokedAt[auth[c]] + TTL
    => source[c] = "fallback" /\ failure[c] = "transient"

\* A refresh of a key that was revoked before the host asked for it fails,
\* even where the forced fetch falls back to a cached catalog (auth.go:128).
RefreshNeedsLiveKey ==
  \A c \in Call :
    force[c] /\ source[c] \in Catalogs /\ auth[c] \in revoked
      => began[c] <= revokedAt[auth[c]]

InCatalog == {"lookup", "miss", "paging", "store"}

\* What the three invariants rest on.  An entry, cached or on its way into the
\* cache, expires within a TTL of being taken and was taken before its key was
\* revoked; a call knows when it began, and answers once.
StrengtheningInv ==
  /\ \A a \in revoked : revokedAt[a] <= clock
  /\ \A a \in cache : /\ expires[a] <= age[a] + TTL
                      /\ age[a] <= clock
                      /\ a \in revoked => age[a] <= revokedAt[a]
  /\ \A c \in Call :
       /\ pc[c] = "done" <=> source[c] # "none"
       /\ began[c] <= clock
       /\ pc[c] \in InCatalog => now[c] <= clock
       /\ pc[c] \in {"paging", "store"} => now[c] <= taken[c] /\ taken[c] <= clock
       /\ pc[c] = "store" /\ auth[c] \in revoked => taken[c] <= revokedAt[auth[c]]
       /\ pc[c] \in InCatalog /\ force[c] /\ auth[c] \in revoked
            => began[c] <= revokedAt[auth[c]]
       /\ source[c] \in {"hit", "fetched"} =>
            /\ served[c] <= clock
            /\ auth[c] \in revoked => served[c] <= revokedAt[auth[c]]
       /\ source[c] = "fetched" => now[c] <= served[c]
       /\ source[c] = "fallback" => failure[c] = "transient"

IInv ==
  /\ TypeOK
  /\ StrengtheningInv
  /\ HitIsFresh
  /\ RevokedServedOnlyFromMemory
  /\ RefreshNeedsLiveKey

\* README.md:62: the plugin "keeps the last valid in-memory catalog for
\* transient network errors, HTTP 429, and HTTP 5xx": a call that fails that
\* way while a catalog is in memory answers with one.
TransientKeepsLastValid ==
  [][\A c \in Call :
       /\ pc[c] = "paging"
       /\ failure'[c] = "transient"
       /\ auth[c] \in cache
       => source'[c] = "fallback"]_vars
=============================================================================
