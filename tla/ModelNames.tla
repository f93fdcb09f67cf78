----------------------------- MODULE ModelNames -----------------------------
(***************************************************************************)
(* Model names: normalizeModels (models.go) turns the list OpenRouter sent *)
(* into the public aliases and the table that leads back from them,        *)
(* prepareExecution (executor.go) looks a request up in it and             *)
(* rewriteResponseModels (sse.go) turns the answer's model back.           *)
(*                                                                         *)
(* A name is the path between its slashes and the number of ":nitro"       *)
(* suffixes on its end; segments keep their letter case.                   *)
(***************************************************************************)
EXTENDS Naturals, Sequences, FiniteSets

CONSTANTS
  Segment,    \* what may stand between slashes
  Lower,      \* Lower[s]: s in lower case
  Provider,   \* providerID, "openrouter"
  Empty,      \* the empty segment
  Effort,     \* the keys of suffixEffortOrder
  Listed,     \* the models OpenRouter may list
  MaxListed,  \* bound on how many it lists
  Asked,      \* the names clients ask for
  None        \* no effort suffix; no request, no answer

ASSUME LowerAssumption ==
  /\ Lower \in [Segment -> Segment]
  /\ \A s \in Segment : Lower[Lower[s]] = Lower[s]
ASSUME ProviderAssumption ==
  /\ Provider \in Segment
  /\ Lower[Provider] = Provider
ASSUME EmptyAssumption ==
  /\ Empty \in Segment
  /\ \A s \in Segment : Lower[s] = Lower[Empty] => s = Empty

Name == [path : Seq(Segment) \ {<< >>}, nitro : Nat]
\* thinks: the entry will have Thinking.  It has if there are levels, and may
\* have it without any (a model that always reasons, at no effort of choice).
Model == [id : Name, text : BOOLEAN, thinks : BOOLEAN, levels : SUBSET Effort]

ASSUME ListedAssumption ==
  /\ Listed \subseteq Model
  /\ \A m \in Listed : m.levels # {} => m.thinks
  /\ MaxListed \in Nat
ASSUME AskedAssumption == Asked \subseteq Name
ASSUME NoneAssumption == None \notin Name \cup Effort

VARIABLES
  upstream,    \* the models in the order listed
  pc,          \* "collect", "publish", "ready", "sent", "answered", "refused"
  next,        \* the loops' position
  seenNative,
  candidates,
  models,      \* not sorted: sort.Slice orders equal IDs either way
  aliases,
  asked,       \* req.Model without its suffix
  effort,      \* the suffix, if it is a known one
  native,      \* the model the request went to OpenRouter with
  answered,    \* the model OpenRouter answered with
  reply        \* what the client was told

lists == <<seenNative, candidates, models, aliases>>
exchange == <<asked, effort, native, answered, reply>>
vars == <<upstream, pc, next, lists, exchange>>

\* strings.ToLower
Fold(n) == [path |-> [i \in DOMAIN n.path |-> Lower[n.path[i]]], nitro |-> n.nitro]

Nitro(n) == [path |-> n.path, nitro |-> n.nitro + 1]

IsBlank(n) == n.path = <<Empty>> /\ n.nitro = 0

\* The manufacturer's segment goes, unless it is OpenRouter's own.
modelAlias(n) ==
  IF Len(n.path) = 1 \/ Lower[n.path[1]] = Provider THEN n
  ELSE [path |-> Tail(n.path), nitro |-> n.nitro]

Init ==
  /\ \E n \in 0..MaxListed : upstream \in [1..n -> Listed]
  /\ pc = "collect"
  /\ next = 1
  /\ seenNative = {}
  /\ candidates = << >>
  /\ models = << >>
  /\ aliases = << >>
  /\ asked = None
  /\ effort = None
  /\ native = None
  /\ answered = None
  /\ reply = None

-----------------------------------------------------------------------------
(* normalizeModels.                                                         *)

\* A model on the list is looked at: it has a name and it writes text.
Exposed(m) == ~IsBlank(m.id) /\ m.text

\* Mutant of IsNew: a model listed twice counts twice.
IsNewAlways(m) == TRUE

IsNew(m) == Fold(m.id) \notin seenNative

\* Mutant of HasAlias: the test is missing.
HasAliasAlways(m) == TRUE

HasAlias(m) == ~IsBlank(modelAlias(m.id))

Collect ==
  /\ pc = "collect"
  /\ next \in DOMAIN upstream
  /\ LET m == upstream[next] IN
       IF Exposed(m) /\ IsNew(m)
         THEN /\ seenNative' = seenNative \cup {Fold(m.id)}
              /\ candidates' = IF HasAlias(m) THEN Append(candidates, m) ELSE candidates
         ELSE UNCHANGED <<seenNative, candidates>>
  /\ next' = next + 1
  /\ UNCHANGED <<upstream, pc, models, aliases, exchange>>

Collected ==
  /\ pc = "collect"
  /\ next \notin DOMAIN upstream
  /\ pc' = "publish"
  /\ next' = 1
  /\ UNCHANGED <<upstream, lists, exchange>>

\* Mutant of IsUnique: ambiguous aliases are kept.
IsUniqueOrNot(i) == TRUE

\* counts[key] == 1
IsUnique(i) ==
  \A j \in DOMAIN candidates \ {i} :
    Fold(modelAlias(candidates[j].id)) # Fold(modelAlias(candidates[i].id))

Put(table, key, value) ==
  [k \in DOMAIN table \cup {key} |-> IF k = key THEN value ELSE table[k]]

\* The entry for a name, with the thinking levels of model m.
Entry(m, n) ==
  [id |-> modelAlias(n), name |-> n, thinks |-> m.thinks, levels |-> m.levels]

\* Mutant of NitroName: the Nitro entry leads to the plain model.
NitroNamePlain(m) == m.id

NitroName(m) == Nitro(m.id)

PublishBoth(m) ==
  /\ models' = models \o
       <<Entry(m, m.id),
         [Entry(m, m.id) EXCEPT !.id = Nitro(@), !.name = NitroName(m)]>>
  /\ aliases' = Put(Put(aliases, Fold(modelAlias(m.id)), m.id),
                    Fold(Nitro(modelAlias(m.id))), NitroName(m))

Skip == UNCHANGED <<models, aliases>>

\* A unique alias gets its model and the model's Nitro variant; a later entry
\* of the table replaces an earlier one.
Publish ==
  /\ pc = "publish"
  /\ next \in DOMAIN candidates
  /\ IF IsUnique(next) THEN PublishBoth(candidates[next]) ELSE Skip
  /\ next' = next + 1
  /\ UNCHANGED <<upstream, pc, seenNative, candidates, exchange>>

Published ==
  /\ pc = "publish"
  /\ next \notin DOMAIN candidates
  /\ pc' = "ready"
  /\ UNCHANGED <<upstream, next, lists, exchange>>

-----------------------------------------------------------------------------
(* One request against the catalog, and its answer.                         *)

\* Mutant of Supports: the ID is not compared.
SupportsAny(n, e) == \E i \in DOMAIN models : e \in models[i].levels

\* modelSupportsEffort: the first entry of that ID that has Thinking decides,
\* also if it has no levels.  The sort is not stable, so of two entries with one
\* ID either may come first.
Deciding(f) == {i \in DOMAIN models : models[i].thinks /\ Fold(models[i].id) = f}

Supports(n, e) == \E i \in Deciding(Fold(n)) : e \in models[i].levels

\* req.Model is a name, or a name with a known effort in parentheses, which
\* splitEffortSuffix takes off; any other suffix would make a name of its own.
\* A body that is no JSON object is refused, an unknown name always.
Ask(n, e) ==
  /\ pc = "ready"
  /\ asked' = n
  /\ effort' = e
  /\ \/ pc' = "refused" /\ UNCHANGED native
     \/ /\ Fold(n) \in DOMAIN aliases
        /\ e = None \/ Supports(n, e)
        /\ pc' = "sent"
        /\ native' = aliases[Fold(n)]
  /\ UNCHANGED <<upstream, next, lists, answered, reply>>

\* OpenRouter may answer with the name it was asked for, or, a router of its
\* own having been asked, with any other; rewriteResponseModels takes the
\* manufacturer off whatever it is.
Answer(n) ==
  /\ pc = "sent"
  /\ pc' = "answered"
  /\ answered' = n
  /\ reply' = modelAlias(n)
  /\ UNCHANGED <<upstream, next, lists, asked, effort, native>>

-----------------------------------------------------------------------------
(* The capability endpoint, on this catalog.                                *)

\* modelCapabilities: per name the union of its entries' levels; names without
\* levels are left out.
Levels(n) ==
  UNION {models[i].levels : i \in {j \in DOMAIN models : Fold(models[j].id) = n}}

modelCapabilities ==
  {[modelID |-> n, levels |-> Levels(n)] :
     n \in {Fold(models[i].id) : i \in {j \in DOMAIN models : models[j].levels # {}}}}

\* The names there are; if none, the page answers that there is no catalog.
CatalogModelCount == Cardinality({Fold(models[i].id) : i \in DOMAIN models})

-----------------------------------------------------------------------------

Next ==
  \/ Collect \/ Collected \/ Publish \/ Published
  \/ \E n \in Asked, e \in Effort \cup {None} : Ask(n, e)
  \/ \E n \in {native} \cup {m.id : m \in Listed} : Answer(n)

Spec == Init /\ [][Next]_vars

-----------------------------------------------------------------------------
(* Properties.                                                              *)

PublicEntry == [id : Name, name : Name, thinks : BOOLEAN, levels : SUBSET Effort]

\* Every variable has its type; a candidate was seen and has an alias.
TypeOK ==
  /\ upstream \in Seq(Listed)
  /\ pc \in {"collect", "publish", "ready", "sent", "answered", "refused"}
  /\ next \in Nat \ {0}
  /\ seenNative \subseteq Name
  /\ candidates \in Seq(Listed)
  /\ models \in Seq(PublicEntry)
  /\ DOMAIN aliases \subseteq Name
  /\ \A k \in DOMAIN aliases : aliases[k] \in Name
  /\ asked \in Asked \cup {None}
  /\ effort \in Effort \cup {None}
  /\ native \in Name \cup {None}
  /\ answered \in Name \cup {None}
  /\ reply \in Name \cup {None}
  /\ \A i \in DOMAIN candidates :
       /\ Fold(candidates[i].id) \in seenNative
       /\ ~IsBlank(modelAlias(candidates[i].id))

\* README.md:68 and 78: the model a request went to is changed back to the alias
\* the client asked for, letter case aside, Nitro entries included.
RoundTrip ==
  pc = "answered" /\ answered = native => Fold(reply) = Fold(asked)

\* Never is a request for a plain alias sent to one of two manufacturers whose
\* models share it: any listed model that would have that alias is the model it
\* was sent to.
NoVendorGuess ==
  native # None /\ asked.nitro = 0 =>
    \A i \in DOMAIN upstream :
      Exposed(upstream[i]) /\ Fold(modelAlias(upstream[i].id)) = Fold(asked)
        => Fold(upstream[i].id) = Fold(native)

\* The two names a model is published under.
PublicNames(m) == {Fold(modelAlias(m.id)), Fold(Nitro(modelAlias(m.id)))}

\* README.md:74: an effort sent to OpenRouter is one OpenRouter lists for a model
\* of the very name asked for, and it is sent to that model or to its Nitro
\* variant, although the test reads the sorted entries and the lookup the table.
\* Two models may share the name only as AmbiguousIsOmitted shows, one of them a
\* Nitro model that OpenRouter lists itself: then the unstable sort decides.
EffortIsTheModels ==
  native # None /\ effort # None =>
    \E u, v \in DOMAIN upstream :
      /\ Exposed(upstream[u])
      /\ effort \in upstream[u].levels
      /\ native \in {upstream[v].id, Nitro(upstream[v].id)}
      /\ Fold(asked) \in PublicNames(upstream[u]) \cap PublicNames(upstream[v])
      /\ u = v \/ upstream[u].id.nitro # upstream[v].id.nitro

\* The names of the Nitro models that OpenRouter lists itself.
ListedNitro ==
  {Fold(modelAlias(upstream[i].id)) :
     i \in {j \in DOMAIN upstream : upstream[j].id.nitro > 0}}

\* What the management page advertises, a request gets: every name it counts is
\* one the table knows, and every level it shows for a name passes the test of
\* a request for that name, whichever entry of the name the unstable sort puts
\* first, unless the name is that of a listed Nitro model, whatever else is
\* listed (management.go:58-85 against executor.go:98-107, effort.go:30-38).
AdvertisedIsAccepted ==
  pc = "ready" =>
    /\ CatalogModelCount = Cardinality(DOMAIN aliases)
    /\ \A c \in modelCapabilities :
         /\ c.modelID \in DOMAIN aliases
         /\ c.modelID \notin ListedNitro =>
              \A i \in Deciding(c.modelID) : models[i].levels = c.levels

\* README.md:58 and 60: nothing else is left out.  Every text model whose alias
\* no other model has is there under its alias and with a Nitro entry, also when
\* it is listed twice or in two letter cases, and its alias leads to it unless it
\* is itself a Nitro model (OnlyNitroClashes).
UniqueIsPublished ==
  pc \notin {"collect", "publish"} =>
    \A i \in DOMAIN upstream :
      LET m == upstream[i]
          key == Fold(modelAlias(m.id))
      IN  /\ Exposed(m) /\ HasAlias(m)
          /\ \A j \in DOMAIN upstream :
               Exposed(upstream[j]) /\ Fold(modelAlias(upstream[j].id)) = key
                 => Fold(upstream[j].id) = Fold(m.id)
          => /\ PublicNames(m) \subseteq DOMAIN aliases
             /\ m.id.nitro = 0 => Fold(aliases[key]) = Fold(m.id)

\* What RoundTrip and NoVendorGuess rest on.  Every listed model looked at so far
\* is a candidate, but for duplicates and empty aliases; every entry of the table
\* leads to a name whose alias is its key, and a plain one to the only candidate
\* with that alias; the request went where the table says.
CollectInv ==
  /\ \A f \in seenNative :
       \/ \E m \in Listed : Fold(m.id) = f /\ IsBlank(modelAlias(m.id))
       \/ \E j \in DOMAIN candidates : Fold(candidates[j].id) = f
  /\ \A i \in DOMAIN upstream :
       (pc = "collect" => i < next) /\ Exposed(upstream[i])
         => Fold(upstream[i].id) \in seenNative

TableInv ==
  /\ pc = "collect" => DOMAIN aliases = {}
  /\ \A k \in DOMAIN aliases :
       /\ Fold(modelAlias(aliases[k])) = k
       /\ k.nitro = 0 => \E i \in DOMAIN candidates :
                           IsUnique(i) /\ aliases[k] = candidates[i].id

\* Entry i is one of the two that candidate k gets, plain or Nitro.
EntryOf(i, k) ==
  /\ models[i].thinks = candidates[k].thinks
  /\ models[i].levels = candidates[k].levels
  /\ \/ /\ models[i].id = modelAlias(candidates[k].id)
        /\ models[i].name = candidates[k].id
     \/ /\ models[i].id = Nitro(modelAlias(candidates[k].id))
        /\ models[i].name = Nitro(candidates[k].id)

\* What EffortIsTheModels and AdvertisedIsAccepted rest on: every candidate is
\* a listed model, every entry is that of a candidate whose alias no other one
\* has, and the table holds the names of the entries and nothing else.
EntriesInv ==
  /\ \A k \in DOMAIN candidates :
       \E i \in DOMAIN upstream : Exposed(upstream[i]) /\ upstream[i] = candidates[k]
  /\ pc = "collect" => models = << >>
  /\ \A i \in DOMAIN models :
       /\ \E k \in DOMAIN candidates : IsUnique(k) /\ EntryOf(i, k)
       /\ Fold(models[i].id) \in DOMAIN aliases
  /\ \A f \in DOMAIN aliases :
       \E i \in DOMAIN models : Fold(models[i].id) = f /\ models[i].name = aliases[f]

RequestInv ==
  /\ native # None =>
       /\ pc \in {"sent", "answered"}
       /\ asked \in Asked
       /\ Fold(asked) \in DOMAIN aliases
       /\ native = aliases[Fold(asked)]
       /\ effort # None => Supports(asked, effort)
  /\ pc = "sent" => native # None
  /\ pc = "answered" => native # None /\ reply = modelAlias(answered)

\* What UniqueIsPublished rests on: no candidate is there twice, and those dealt
\* with whose alias is unique have their names in the table.
PublishedInv ==
  /\ \A j, k \in DOMAIN candidates :
       Fold(candidates[j].id) = Fold(candidates[k].id) => j = k
  /\ pc # "collect" =>
       \A k \in DOMAIN candidates :
         IsUnique(k) /\ (pc = "publish" => k < next)
           => PublicNames(candidates[k]) \subseteq DOMAIN aliases

IInv == TypeOK /\ CollectInv /\ TableInv /\ EntriesInv /\ RequestInv

\* README.md:58: "If two native slugs produce the same short alias, that
\* ambiguous alias is omitted."
AmbiguousIsOmitted ==
  \A i, j \in DOMAIN models :
    Fold(models[i].id) = Fold(models[j].id)
      => Fold(models[i].name) = Fold(models[j].name)

\* It is, but for one kind of clash, whatever OpenRouter lists: entries that
\* share an ID are those of one model, or one is a Nitro variant that OpenRouter
\* lists itself and the other the variant made of another model
\* (models.go:195-229).
OnlyNitroClashes ==
  \A i, j \in DOMAIN models :
    Fold(models[i].id) = Fold(models[j].id)
      => \/ models[i].name = models[j].name /\ models[i].levels = models[j].levels
         \/ \E u, v \in DOMAIN upstream :
              /\ upstream[u].id.nitro = upstream[v].id.nitro + 1
              /\ {models[i].name, models[j].name}
                   = {upstream[u].id, Nitro(upstream[v].id)}
=============================================================================
