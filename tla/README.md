# A verification project for the CLIProxyAPI OpenRouter plugin

This directory holds TLA+ modules that model the plugin's own logic, the TLC
configurations that check them on small instances, and theorems about them that
TLAPS proves for every instance. Paths and line numbers below are relative to
the repository; `openrouter/` stands for `internal/openrouter/`.

## 1. The system

The plugin is a shared library loaded by CLIProxyAPI ("the host"). The host
calls it through a C ABI, concurrently and from any thread; the plugin reaches
OpenRouter only through callbacks into the host. All its state lives in one
`Service` with one mutex, and no handler holds the mutex while it talks to
OpenRouter. A browser reaches three pages through the host's management server.
A second program, `openrouter-migrate`, converts credential files.

| Component | State it keeps | Operations | Interacts with |
|---|---|---|---|
| Login (`openrouter/auth.go`, `management.go`) | `Service.logins`: a `loginFlow` per login, with key pair, deadline and sealed credential | `StartLogin`, `PollLogin` (host), `connect`, `loginPage` (browser), `Shutdown` | host polls; `validateKey` and `fetchModels` ask OpenRouter through the host |
| Catalog cache (`openrouter/models.go`, `auth.go`) | `Service.cache`: models, alias table and expiry per credential | `catalog`, called by `ModelsForAuth`, `prepareExecution` and, forced, `RefreshAuth`; `Shutdown` | OpenRouter, which may revoke keys and fail |
| Catalog fetch (`openrouter/models.go`) | local to a call: `next`, `seenPages`, `out` | `fetchModels` | a chain of pages that OpenRouter links |
| Model names (`openrouter/models.go`, `executor.go`, `effort.go`, `sse.go`) | the alias table and the model entries of a catalog | `normalizeModels`, the lookup in `prepareExecution`, `modelSupportsEffort`, `rewriteResponseModels` | clients ask by alias, OpenRouter answers by slug |
| Streaming (`openrouter/executor.go`, `sse.go`) | an upstream stream, an output stream, `sseDecoder.buffer` | `ExecuteStream`, `collectStreamError`, the goroutine `pumpStream` | host streams; `Shutdown` |
| Migration (`openrouter/storage_migrate.go`, `cmd/openrouter-migrate`) | the credential file and a temporary file beside it | `MigrateCredentialFile`, `main` | other runs of itself, the file system |
| Non-streaming requests (`openrouter/executor.go`) | none | `Execute`, `HTTP`, `CountTokens` | host |
| Credential storage (`openrouter/storage*.go`) | none (a sealed key in JSON) | `newStorage`, `parseStorage`, `apiKey`, `migrateStorage`, `normalizeLabel` | master key in the environment, DPAPI |
| Configuration (`openrouter/service.go`) | `publicBaseURL` | `Configure`, `loginBaseURL`, `normalizeLoginBaseURL` | host |
| Capability endpoint (`openrouter/management.go`) | none; reads every cache entry | `modelCapabilities` | management client |
| SSE frames (`openrouter/sse.go`) | `sseDecoder.buffer` | `Feed`, `Flush`, `rewriteSSEFrame`, `openAIStreamPayload` | called by the pump |
| ABI (`cmd/openrouter-plugin`) | `stored_host`; memory lent across the boundary | `cliproxy_plugin_init`, `cliproxyPluginCall`, `cliproxyPluginFree`, `cliproxyPluginShutdown`, `callHost`, `dispatch` | everything |

What is hard in it, and what makes each part correct:

- *Login.* `connect` looks its flow up under the lock and keeps the pointer
  across up to 21 calls to OpenRouter, so several browser requests, the host's
  polls, the deadline and a shutdown interleave with it, and it reads
  `flow.PrivateKey` with no lock at all. Correct: the host gets at most one
  credential per login, one that OpenRouter accepted in that login, in time; and
  a polling host is answered.
- *Catalog.* Lookup and store are separate critical sections around a fetch of
  unknown duration. The expiry counts from a clock reading made before the
  lookup, the fallback is a copy made at the lookup, stores are not ordered, and
  OpenRouter can revoke the key at any point. Correct: a hit is fresh, a revoked
  key is not served behind OpenRouter's back, a refresh needs a live key.
- *Fetch.* The links come from the other side. Correct: the key goes to the API
  origin, finitely often, and a list is delivered whole or not at all.
- *Names.* One function takes the manufacturer off, a table leads back, letter
  case is folded, ambiguous names go, Nitro entries are synthesised. Correct: a
  request reaches the model its name stands for and the answer carries that name.
- *Streaming.* Chunks are cut anywhere, any host call may fail, and the pump runs
  beside the return of `ExecuteStream` and beside a shutdown. Correct: a prefix
  of the events, in order, a clean end only if nothing is missing, no stream left
  open.
- *SSE frames.* A delimiter may be cut in two, frames end in two ways of
  different length, data lines come with and without a space, and a frame may
  break off. Correct: frames depend on the text and not on the chunks, none waits
  longer than it must, and a client reads the events that OpenRouter sent.
- *ABI.* `stored_host` is a C static that callbacks read up to seven times with no
  lock while a shutdown clears it and another initialisation may set it anew.
  Correct: whatever comes and goes, a callback is harmed only by a host that leaves
  in the middle of it, and only then does a block of memory stay behind.
- *Migration.* Crash, power loss, failure of any step, two runs at once. Correct:
  the file is always the old credential or the same one in version 2, and the
  report says which.

## 2. Modules

| Module | Role |
|---|---|
| `LoginContract` | abstract: what a login promises to the host |
| `LoginFlow`, `MCLoginFlow`, `LoginFlowProofs` | the login, implementing `LoginContract` |
| `Catalog`, `MCCatalog`, `CatalogProofs` | the catalog cache under concurrent calls |
| `ModelFetch`, `ModelFetchProofs` | the walk over the pages |
| `ModelNames`, `MCModelNames`, `ModelNamesProofs` | `normalizeModels` and a request through its table |
| `Relay` | abstract: what a stream promises to the client |
| `StreamPump`, `StreamPumpProofs` | the streaming execution, implementing `Relay` |
| `SseText` | the alphabet of streamed responses |
| `EventStream` | abstract: what a client reads in a stream of server-sent events; on `SseText` alone |
| `SseFrame` | what the plugin sends of one frame |
| `SseDecoder`, `MCSseDecoder`, `SseDecoderProofs` | the decoder as the pump drives it, implementing `Relay`, its output read by `EventStream` |
| `HostAbi`, `HostAbiProofs` | the C boundary: calls, callbacks, shutdown, memory |
| `Conversion` | abstract: what a migration promises of the file and of its report |
| `Migrate`, `MigrateProofs` | `openrouter-migrate` on one file, implementing `Conversion` |

State and actions keep the code's names where that is possible. A step of a
module is the longest piece of code that nothing else can interrupt in a way the
state shows: a critical section, or the code between two calls to the host.

**LoginFlow.** `registered` is the domain of `Service.logins`; `started` also
remembers the flows that were removed from the map, because a `connect` in
flight keeps its pointer. `privateKey` and `storage` are the flow's fields, a
credential being the key sealed in it. `StartLogin`, `PollExpired`,
`PollPending` and `PollSuccess` are the handlers (the last three are the
branches of `PollLogin`); `ConnectLookup`, `ConnectCheckKey`, `ConnectDecrypt` /
`ConnectNilKey`, `ConnectAccepted` / `ConnectRejected` and `ConnectStore` /
`ConnectProtectFails` are `connect` between its unlocks and its calls.
`flow.PrivateKey` is written under the lock (`management.go:151`) and read
without it (`auth.go:182`, `193`): a data race, so a read may return what was
there at the lookup or what is there now (`KeyReads`). An answer
of `PollLogin` is heard or lost on its way (`heard`); `answer` is what the host
heard, `delivered` what was handed out, `dropped` the logins that a `Shutdown`
took from the map before their time was over. The branch on `flow.Err`
(`auth.go:78-83`) is not modelled: nothing in the repository assigns the field.

**Catalog.** A call is at one of the `pc` labels; its local variables are
variables of the module indexed by the call. `Begin` and `ValidateOk` read the
clock before the lock (`models.go:76`), `LookupHit` and `LookupMiss` are the
first critical section, `AskFirstPage` to `FetchOk` or `FetchFails` the fetch,
`Store` the second critical section. `began`, `taken`, `failure`, `source` and
`served` record what happened for the properties. A catalog is identified by
the time its first page was asked for. The inside of a fetch is `ModelFetch`'s;
the refused walks of that module are "transient" here, because `fetchModels`
reports them with status 0.

**ModelFetch.** One action per outcome of a turn of the loop. `link` is the list
OpenRouter serves: any function from pages to links, including loops, foreign
hosts and links that do not parse.

**ModelNames.** A name is its path and the number of `:nitro` suffixes; `Fold`
lowers the segments. An entry of which the code says `Thinking != nil` `thinks`, with
or without levels; the first such entry of a name decides on an effort, and since
the sort is not stable any of them may be first (`Deciding`). `Collect` is one turn
of the first loop, `Publish` one of the second, `Ask` the lookup, effort test and rewriting of `prepareExecution`,
`Answer` the rewriting of the response. `modelCapabilities` and
`CatalogModelCount` are what the management page shows of the same catalog; a
count of 0 is its 503 answer.

**StreamPump.** Every frame is two pieces, so that a chunk may end inside one, and
a chunk may have none, last or not;
`fed` counts the pieces fed to the decoder and `scanned` the frames taken out
of it: the difference is `sseDecoder.buffer`. `silent` frames are those that
`openAIStreamPayload` does not emit (comments, `[DONE]`). `caller` is
`ExecuteStream`, `pump` the goroutine; the two deferred calls are steps.

**EventStream, SseFrame, SseDecoder.** Text is a sequence of tokens (`SseText`):
`\r`, `\n`, `data:`, a space, `[DONE]`, and JSON objects told apart by whether they
name OpenRouter's model or its alias, whole or broken over two lines. `SseDecoder`
keeps positions in the text: the buffer is what lies between `start` and `fed`,
`Feed` receives a chunk of any length, `TakeFrame` is a turn of the loop of
`Feed`, `FeedReturns` its return, `Flush` the end. `SseFrame` is written from
`rewriteSSEFrame` and `openAIStreamPayload`, by splitting and trimming lines as they
do; `EventStream` is a parser that reads token by token, as the standard for event
streams defines it. The two share the alphabet and no operator, and are compared by
`ClientsReadTheEvents` and `SlugsAreChangedBack`. `StreamPump` uses the result: there a frame
is two pieces and has no bytes.

**HostAbi.** A thread is a call of the host or a pump, and `pc` is its place in
`callHost`, `call_host_api` and `free_host_buffer`, with one step per read of
`stored_host`. `heap` holds the blocks the plugin allocated, `lent` the host
whose buffer a callback has in hand, `left` the hosts that `stored_host` lost in the
middle of a thread's callback, be it to a shutdown or to an initialisation by
another host, which overwrites the pointer. What is local to a callback is
forgotten when it returns. A read through `stored_host` after it became NULL is
"crashed": that can happen, since the test and the reads are not atomic. So can a
call of one host's function with another's context, and a buffer that goes back to
nobody or to the wrong host. `CallbacksAreSound` and `NothingLeaks` say of every
callback what it takes: a host that left during it, and for the mixed call and the
lost buffer the very host that was called, or that lent. That is what lets `LoginFlow`
and `StreamPump` look at `hostUp` once per call. The returns of `callHost` after it
allocated its arguments are one step, `Returns`, because the frees are deferred: that
the arguments are freed on each of them is Go's doing, and no property is claimed
for it.

**Migrate.** `file` is what a reader sees now, `onDisk` what may be found after
a power loss: a rename that no one syncs may be undone, data that was not synced
may be torn. `result` is what `main` prints. `Fate` maps this to `Conversion`: a
run past its rename has converted the file, and every step before it is one that
no reader of the file sees.

## 3. Runs

| Run | Checks | Distinct states | Shows |
|---|---|---|---|
| `login` | `TypeOK`, `DeliveredIsAccepted`, `ConnectedKept`, `DeliveredIsConnected`, `NilKeyNeedsRace`, `ConnectedReachesHost`, `ImplementsContract`, `EventuallyAnswered` | 201,914 | two logins, two racing connects, expiry, shutdown, lost answers: one accepted credential per login, in time; "connected" is true but for what overtakes the request; a host that keeps polling is answered |
| `login_nil_key` | `NoNilDecrypt` (violated) | - | two connects race past the guard and one dereferences a nil key |
| `catalog` | `TypeOK`, `HitIsFresh`, `RevokedServedOnlyFromMemory`, `RefreshNeedsLiveKey` | 2,065,115 | three calls on one credential with revocation, failures, shutdown |
| `catalog_last_valid` | `TransientKeepsLastValid` (violated) | - | a transient failure answers with an error although a catalog is in memory |
| `fetch` | `TypeOK`, `RequestsAreBounded`, `WalkIsExact` | 19,698 | every shape of a list over four pages and a foreign one |
| `stream` | `TypeOK`, `RelaysThePrefix`, `StreamsAreClosed`, `ImplementsRelay`, `EventuallyEnds` | 25,213 | every cut of up to four frames and a bit, every failure, shutdown anywhere |
| `sse` | `TypeOK`, `FramesAreWhole`, `NothingIsWithheld`, `FramesAreEvents`, `ClientsReadTheEvents`, `ImplementsRelay` | 166,503 | every response of up to three lines and a broken one, with either line ending, under every cut: frames part the lines as blank lines part events, and clients read these |
| `sse_split_object` | `SlugsAreChangedBack` (violated) | - | an object on two data lines reaches a Claude or Responses client with the native slug |
| `abi` | `TypeOK`, `CallbacksAreSound`, `NothingLeaks` | 47,452 | a call and a pump in callbacks, with every answer, while two hosts come and go: what goes wrong, and that it takes a host that leaves in the middle |
| `migrate` | `TypeOK`, `NeverDamaged`, `ReportIsTrue`, `ImplementsConversion` | 1,875 | two runs, kills, power loss: each converts the file in one step or not at all, and says which |
| `names` | `TypeOK`, `RoundTrip`, `NoVendorGuess`, `EffortIsTheModels`, `AdvertisedIsAccepted`, `OnlyNitroClashes`, `UniqueIsPublished` | 99,563 | every list of up to three out of nine models; what is advertised is accepted; the one way two models come to share a name; only ambiguous ones are left out |
| `nitro_alias` | `AmbiguousIsOmitted` (violated) | - | two slugs with one alias, both published |

Deadlock is not checked in any run: every model ends (all requests answered, all
runs over, the plugin shut down), as the code does.

**Bounds, and why they are enough.** Login: two logins tell a flow apart from
another one, two requests are what a race needs, two keys tell the credentials
apart. Catalog: one credential, since entries of different credentials share
nothing but the lock; three calls are the shortest history in which one call
stores, one stores over it and one reads; `TTL = 1` and `MaxTime = 2` let an
entry be fresh, expire, and be older than a revocation. Fetch: `MaxPages = 3`
for the code's 20, with four pages, so that a list ends before, at and after
the limit. Names: nine models, each there for one reason given in
`MCModelNames`; a collision, and a third model that must not disturb it, take
three; one of the nine thinks at no level, and shares a name with one that has
levels. Stream: eight pieces are four frames. Migrate: two runs. SSE: three
lines (`MaxLines`) and a broken one make two frames and a rest, or one frame with
an object on two lines; a line may be blank, data with and without a space, an
object's head or tail, `[DONE]` or no data, each ended by LF or CR LF. Responses
that mix the endings are cut like all others; `ClientsReadTheEvents`
excepts them, `FramesAreEvents` a part of them (section 6). ABI: one call and one
pump, which are all that can differ in kind, since callbacks touch each other only through `stored_host`; two hosts, so
that one can be mistaken for the other. All of these but the time and length
bounds (`MaxTime`, `MaxPieces`, `MaxListed`, `MaxPages`, `MaxLines`) are
cardinalities of constant sets, and the theorems hold for every value of all.

**Fairness.** Two runs have liveness properties. `EventuallyAnswered` assumes
that time passes (`Expire`) and that the host goes on polling a login it
started, and hears an answer in the end, which is how the host uses
`AuthLoginStatusPending`; any number of answers, a success among them, may be
lost before; nothing is assumed of the browser, of OpenRouter or of `Shutdown`.
`EventuallyEnds` assumes that the Go scheduler runs `ExecuteStream` and the goroutine
and that the host answers every call: both are weak fairness of the whole caller
and of the whole pump, so which of several outcomes a call has is not assumed. But
for one: an empty chunk that is not the last makes the pump read again
(`executor.go:183-217`), and nothing in the code ends that, so the host is assumed not
to send such chunks for ever (strong fairness of `ReadsOn`). Of `HostAbi` no liveness
is claimed: the transports drop the deadlines they are given (`host.go:41-90`), so a
callback may last as long as the host likes.

## 4. Where the code and what is said of it differ

- **`NoNilDecrypt`.** `decryptLoginPayload` reads `flow.PrivateKey` twice, at
  `auth.go:182` for the guard and at `auth.go:193` for the decryption, while
  another connect of the same login sets it to nil (`management.go:151`) under a
  lock the reader does not take. Between the two reads the guard is void and the
  process dies of a nil dereference. That it takes such an overlap, and that the
  guard stops every other request, is `NilKeyNeedsRace`: it holds and is proved.
- **`SlugsAreChangedBack`.** `rewriteSSEFrame` parses each data line as an object of
  its own (`sse.go:64-77`), and leaves alone what does not parse. An object that takes
  two data lines, which the event stream format joins and `openAIStreamPayload`
  (`sse.go:97-114`) joins too, thus reaches a Claude or Responses client with the native
  slug; `README.md:78` says that native slugs are changed back. For objects on one line,
  and for OpenAI clients, they are: `ClientsReadTheEvents`.
- **`TransientKeepsLastValid`.** The fallback of `models.go:93` is the copy made
  at the lookup. A call that found nothing errs on a transient failure even if
  another call has stored a catalog meanwhile; `README.md:62` says the last valid
  catalog is kept.
- **`AmbiguousIsOmitted`.** `counts` is taken over the plain aliases, before
  the Nitro entries are made. If OpenRouter lists `v1/x` and `v2/x:nitro`, both
  entries called `x:nitro` are published and the later one wins the table
  (`models.go:227`); `README.md:58` says such an alias is omitted.
  `OnlyNitroClashes` says that no other clash is left, whatever OpenRouter
  lists; it holds and is proved.

What is no such difference, but close to one: `connect` stores into the flow it
looked up, whether or not it is still registered, in time, or already completed by
another request, and answers "OpenRouter connected" (`management.go:150-153`). The page
says so, then, also of a login that expired, that was delivered with the key of another
request, or that a `Shutdown` dropped while OpenRouter was asked or before the host
polled. `ConnectedReachesHost` says that nothing else can part the page and the
host; it holds and is proved. The converse, `DeliveredIsConnected`, is proved too: what
the host gets is the key of a request that was answered so.

## 5. Proofs

Every `*Proofs` module has the same plan: `InitIInv`, `NextIInv` (one step per
action), `AlwaysIInv`, and then the theorems, each a consequence of `IInv`.

- **Login.** `StrengtheningInv`: what a request is about to store, and what a
  flow holds, was accepted for that login, and a login that delivered is over.
  Without its first two conjuncts a store could bring in an unvouched key; the
  third keeps the refinement mapping from opening a login twice. `KeyInv`: what
  is stored for a login, and a key pair that is gone, each have a request that
  was told "connected", and a request that decrypts found the pair at its
  lookup. That request is told so in the very step that stores, and a page
  does not change (`ConnectedStays`), which gives `DeliveredIsConnected` through
  any later store of another request, and `NilKeyNeedsRace`. A login that has left
  the map was delivered, expired or dropped, which gives `ConnectedReachesHost`
  (`LoginReachesHost`): a login that was delivered was delivered a connected key.
  `LoginImplementsContract` maps every step to a step of `LoginContract` or a
  stutter under `Status`.
- **Catalog.** An entry, in the cache or on the way to it, expires within a TTL
  of being taken and was taken before its key was revoked; `now <= taken` for a
  call under way. This carries freshness through late stores and restarts.
- **Fetch.** `WalkInv` ties `out`, `requested` and `seen` together; `ChainInv`
  says that what was appended, and the link that comes next, is the list as
  far as that. A walk that ends without a link has thus delivered the whole list.
  A walk is refused when the next link is malformed, is foreign, is one page too
  far, or was seen; that no list ends then within the limit (`WalkIsExact`) takes
  for the last case `RepeatedNeverEnds`: a list that comes back to one of its
  pages goes round for ever, by induction over its length.
  `FetchFollowsLinks` says what is delivered by its links alone, without `Chain`.
- **Streaming.** `PumpInv` relates the pump's place to `fed` and `scanned` and to
  the state of both streams. `StreamImplementsRelay` maps an emission to the
  least missing event.
- **SSE decoder.** `BufferInv` says that the buffer begins where the last frame
  ends. The code looks for the blank line that begins first, the property speaks
  of the one complete first: `FirstIsComplete` in `SseDecoderProofs` shows that
  these are one, although their lengths differ, because two different kinds
  cannot overlap. `DueInv` says that the frames of the text, which `FrameEnds`
  defines from the text alone, are those taken out and those after the buffer's
  beginning; with it `SseImplementsRelay` maps a turn of the loop to the sending
  of the least missing frame. Two runs on one response thus take out the same
  frames, however it is cut. `FramesAreEvents` says what these frames are for a
  client that reads lines: no line is cut in two, and two lines are in one frame if
  and only if no blank line is between them. A blank line that begins in a frame
  ends it (`BlankEndsFrame`), a frame ends in a blank line or with the response
  (`FrameEndsBlank`), and a line lies in one frame (`InAFrame`). The hypothesis
  `BlanksMatch`, that a blank line of CR LF follows lines ended by CR LF, is needed:
  LF CR LF ends an event for the client and no frame for the code.
- **ABI.** `CallbackInv`: past the test a host is stored unless one has left since;
  the host whose function was loaded is stored or has left; the buffer in hand is
  its. `CallbacksAreSound` and `NothingLeaks` exempt no callback: for each, what goes
  wrong names the host that left.
- **Migration.** A process at or past `create` read a legacy credential; from
  `verify` on its temporary file is that credential in version 2, synced; the
  file is unchanged until a process replaced it that reports success or was
  killed; what a power loss may bring back is the original or what is there now.
  The last is what a power loss of `Conversion` needs. With it every step maps
  to a step of `Conversion` or a stutter (`StepConversion`, one lemma per
  kind of step): the rename is `Convert`, and a process at `report` can only
  succeed or be killed.
- **Names.** Every listed model seen is a candidate, up to duplicates; every key
  of the table is the folded alias of its value, and a plain key leads to the
  only candidate with that alias. `EntriesInv`: every published entry is the plain
  or the Nitro one of a candidate whose alias is its own alone, and the table
  holds the names of the entries and nothing else. Two entries of one name are then
  of one candidate, or one is the plain entry of a model with one `:nitro` more than the
  model whose Nitro entry the other is (`NameClash`), which gives `OnlyNitroClashes` and
  `EffortIsTheModels`. Under a name that is not that of a listed Nitro model
  (`ListedNitro`) the latter cannot be, whatever else is listed, so that all entries of
  such a name have the same levels (`OneEntryPerName`) and the unstable sort decides
  nothing: `AdvertisedIsAccepted`. The lemmas `FoldAlias`,
  `NitroFacts` and `FoldBlank` say that the operators on names commute as the table
  needs. The properties above would hold of an empty table; `UniqueIsPublished`
  would not. `PublishedInv` has the other direction: no candidate is there twice
  (`CollectDistinct`), and the names of those dealt with whose alias is their own
  are in the table, which only grows (`PublishAdds`).

The chain of links and the frames of a text are recursive functions on an
interval of numbers. That they are what their equations say (`ChainExists`,
`AfterExists`), and what is concluded by going along them, is proved by induction
over sets of numbers: `Least`, from the well-foundedness of `<` on the natural
numbers, and `Induction`, a set with 0 and the successor of each of its members.

Assumed: the named ASSUMEs on constants (`None` is not a login or a key, the TTL
is positive, the first page is on the API, lower case is idempotent, the
provider's name is in lower case, and the like). TLC evaluates all of them.

**Model-checked only.** `EventuallyAnswered` and `EventuallyEnds`: liveness is out of
the prover's reach. `ClientsReadTheEvents`: that the decoder's frames hold the lines of the client's events is proved
(`SseFramesAreEvents`); what `openAIStreamPayload` and `rewriteSSEFrame` make of the
lines of a frame is folds over its text, which this property compares with
`EventStream` on the responses of its run, not on every text. (With
two spaces before `[DONE]`, for one, `openAIStreamPayload` trims both and drops the event, where the standard reads data with a space in it.)
All other properties of the passing runs are proved.

## 6. What is left out, and why

- *Event streams that mix line endings, or end lines in a lone CR*: `sse.go:53`
  guesses one separator for the whole frame, so such frames are split at the
  wrong lines; `ClientsReadTheEvents` excepts them. Of the other properties only
  `FramesAreEvents` excepts anything, a CR LF blank line after a line that LF ends. Of an object on
  several data lines `ClientsReadTheEvents` says that its lines arrive; that the name in
  it is wrong for some clients is `SlugsAreChangedBack`.
  Field names other than `data` are plain text.
- *JSON bodies and headers*: `rewriteRequestModel` sets one field;
  `modelRequestHeaders` and `filterResponseHeaders` are filters with no state.
- *Cryptography and the storage format*: a sealed key is the key, an operation
  that needs a secret fails without it (`Migrate`) or may fail (`LoginFlow`,
  `Catalog`). File names, labels and notes are left out.
- *`loginPage`, `ParseAuth`, `StaticModels`, `CountTokens`,
  `HTTP`, `Execute`*: no state of their own. `Execute` is covered up to its
  upstream call by `Catalog` and `ModelNames`.
- *`Configure` and the login base URL*: one string, written under the lock.
- *The union over several credentials* that `modelCapabilities` forms: an effort it
  shows may be that of another credential's entry, or of an expired one.
- *`dispatch`*: decoding of a request and the choice of a handler; the handlers
  are the other modules. In `HostAbi` a response buffer that the host did not ask
  for, an allocation that fails and a host table without functions are left out.
- *Whitespace and the case of `:nitro`* in model names, and suffixes that are not
  a known effort, which are part of the name.
- *The host rewriting the credential file while it is migrated*: the README asks
  for CLIProxyAPI to be stopped. `os.Rename` is taken to replace atomically, on
  Windows too. A killed run leaves its temporary file behind.

## 7. Plan

Done, in the order of importance: the login and its contract, lost answers
included; the catalog cache; the fetch; streaming and its contract; migration
and its contract;
model names and the capability endpoint on one catalog; the SSE decoder and what
clients read; the C boundary.

Proofs of every safety property of the passing runs but one, and of all four
refinements.

Next:

1. The rewriting half of `ClientsReadTheEvents`: for which texts of one frame
   `openAIStreamPayload` and `rewriteSSEFrame` send what the standard reads in it,
   stated as an assumption on `Responses` that the run's responses meet. With
   `SseFramesAreEvents` it would give the property for every response.
2. A composition in which two credentials with different catalogs share the alias
   space: what `modelCapabilities` advertises for the union against what
   `prepareExecution` accepts, and what a refresh does to a credential the host
   has edited.
