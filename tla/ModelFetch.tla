----------------------------- MODULE ModelFetch -----------------------------
(***************************************************************************)
(* fetchModels (models.go): one walk over the pages of OpenRouter's model  *)
(* list, following the links the pages carry.  Nothing is known of the     *)
(* links: they may be malformed, lead off the API origin, loop or go on    *)
(* for ever.  A page is named by its resolved URL and stands for the       *)
(* models on it.  TLC runs a stable list, one link per page.               *)
(***************************************************************************)
EXTENDS Naturals, Sequences, FiniteSets

CONSTANTS
  Url,        \* resolved URLs
  Origin,     \* those under https://openrouter.ai/api/v1/
  First,      \* apiBaseURL + "/models/user"
  NoLink,     \* links.next is null or blank
  Malformed,  \* a link url.Parse refuses
  MaxPages    \* 20 in the code

ASSUME UrlAssumption ==
  /\ First \in Origin
  /\ Origin \subseteq Url
  /\ NoLink \notin Url
  /\ Malformed \notin Url \cup {NoLink}
ASSUME MaxPagesAssumption == MaxPages \in Nat \ {0}

VARIABLES
  link,       \* link[u]: the link on page u
  next,       \* the URL or link to follow, NoLink at the end
  seen,       \* seenPages
  requested,  \* the requests sent with the API key, in order
  out,        \* the pages whose models were appended
  status      \* "walking", or how the walk ended

vars == <<link, next, seen, requested, out, status>>

Link == Url \cup {NoLink, Malformed}

\* page counts the turns of the loop, each of which appended one page.
page == Len(out)

Init ==
  /\ link \in [Origin -> Link]
  /\ next = First
  /\ seen = {}
  /\ requested = << >>
  /\ out = << >>
  /\ status = "walking"

\* Mutants of MayRequest: no cycle check; the page limit is off by one.
MayRequestAgain(u) == page < MaxPages /\ u \in Origin
MayRequestFewer(u) == page < MaxPages - 1 /\ u \in Origin /\ u \notin seen

\* The request is sent: the link is short of the page limit, parses, is new
\* and leads to the API.
MayRequest(u) == page < MaxPages /\ u \in Origin /\ u \notin seen

\* Mutant of Marked: a link is marked before it is parsed.
MarkedUnparsed == {next}

\* What a refused turn of the loop adds to seen: a link that does not parse, or
\* is beyond the limit, is not marked; one that leads off the origin is.
Marked == IF page < MaxPages /\ next \in Url THEN {next} ELSE {}

\* Any of the four refusals of models.go:112-129, all reported as status 0.
Refuse ==
  /\ status = "walking"
  /\ next # NoLink
  /\ ~MayRequest(next)
  /\ seen' = seen \cup Marked
  /\ status' = "refused"
  /\ out' = << >>
  /\ UNCHANGED <<link, next, requested>>

Send(u) ==
  /\ status = "walking"
  /\ u = next
  /\ next # NoLink
  /\ MayRequest(u)
  /\ seen' = seen \cup {u}
  /\ requested' = Append(requested, u)

\* The page arrives; next becomes its link, or "" if it has none.
Page(u) ==
  /\ Send(u)
  /\ next' = link[u]
  /\ out' = Append(out, u)
  /\ UNCHANGED <<link, status>>

\* No answer (status 0), another status than 200, or a body that does not
\* decode: the models read so far are dropped.
PageFails(u, how) ==
  /\ Send(u)
  /\ status' = how
  /\ out' = << >>
  /\ UNCHANGED <<link, next>>

Finish ==
  /\ status = "walking"
  /\ next = NoLink
  /\ status' = "ok"
  /\ UNCHANGED <<link, next, seen, requested, out>>

Failures == {"unreachable", "http", "undecodable"}

Next ==
  \/ Refuse
  \/ \E u \in Url : Page(u)
  \/ \E u \in Url, how \in Failures : PageFails(u, how)
  \/ Finish

Spec == Init /\ [][Next]_vars

-----------------------------------------------------------------------------
(* Properties.                                                              *)

\* Every variable has its type.
TypeOK ==
  /\ link \in [Origin -> Link]
  /\ next \in Link
  /\ seen \subseteq Url
  /\ requested \in Seq(Url)
  /\ out \in Seq(Url)
  /\ status \in {"walking", "ok", "refused"} \cup Failures

\* However the links run, the key goes to the API origin only, to no page
\* twice and to at most MaxPages pages (models.go:112-129).
RequestsAreBounded ==
  /\ Len(requested) <= MaxPages
  /\ \A i \in 1..Len(requested) : requested[i] \in Origin
  /\ \A i, j \in 1..Len(requested) : requested[i] = requested[j] => i = j

\* A page at distance n along the links, from nothing but the links.
Chain[n \in 0..MaxPages] ==
  IF n = 0 THEN First
  ELSE IF Chain[n - 1] \in Origin THEN link[Chain[n - 1]] ELSE Malformed

\* The list ends after n pages, all of them on the API.
EndsAfter(n) == Chain[n] = NoLink /\ \A i \in 0..(n - 1) : Chain[i] \in Origin

\* A walk that OpenRouter does not fail delivers every page of the list in
\* order when the list ends within MaxPages pages, MaxPages included, and is
\* refused otherwise; a walk that does not succeed delivers nothing.
WalkIsExact ==
  /\ status = "ok" =>
       /\ Len(out) \in 1..MaxPages
       /\ EndsAfter(Len(out))
       /\ \A i \in 1..Len(out) : out[i] = Chain[i - 1]
  /\ status = "refused" => ~\E n \in 1..MaxPages : EndsAfter(n)
  /\ status \notin {"walking", "ok"} => out = << >>

\* While the walk goes on, what was appended is what was requested, and what
\* was requested is what is marked as seen.
WalkInv ==
  /\ \A i \in 1..Len(requested) : requested[i] \in seen
  /\ status = "walking" => \A u \in seen : \E i \in 1..Len(requested) : requested[i] = u
  /\ status \in {"walking", "ok"} => out = requested
  /\ status = "ok" => next = NoLink

\* What was appended, with the link that comes next, is the list up to there.
ChainInv ==
  status \in {"walking", "ok"} =>
    /\ \A i \in 1..Len(out) : out[i] = Chain[i - 1]
    /\ next = Chain[Len(out)]

\* A list that is delivered starts at the first page, goes from each page to
\* the one it links to and stops at a page without a link (models.go:141-145).
FollowsLinks ==
  /\ out # << >> =>
       /\ out[1] = First
       /\ \A i \in 1..Len(out) : out[i] \in Origin
       /\ \A i \in 1..(Len(out) - 1) : link[out[i]] = out[i + 1]
       /\ link[out[Len(out)]] = next
  /\ status = "ok" => out # << >> /\ next = NoLink
  /\ status = "walking" /\ out = << >> => next = First

IInv ==
  TypeOK /\ WalkInv /\ RequestsAreBounded /\ FollowsLinks /\ ChainInv /\ WalkIsExact
=============================================================================
