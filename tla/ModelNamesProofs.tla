-------------------------- MODULE ModelNamesProofs --------------------------
(***************************************************************************)
(* For any list of models, any names and any alphabet: IInv is inductive,  *)
(* and with it an alias leads to one model and the model back to it.       *)
(***************************************************************************)
EXTENDS ModelNames, SequenceTheorems, TLAPS

\* Lowering the case of a name gives a name.
LEMMA FoldType == \A n \in Name : Fold(n) \in Name
<1>. TAKE n \in Name
<1>1. n.path \in Seq(Segment) /\ n.path # << >> /\ n.nitro \in Nat
  BY DEF Name
<1>2. [i \in DOMAIN n.path |-> Lower[n.path[i]]] \in Seq(Segment) \ {<< >>}
  BY <1>1, LowerAssumption
<1>. QED
  BY <1>1, <1>2 DEF Fold, Name

\* The alias of a name is a name, and the shorter by its first segment if it is
\* not the name itself.
LEMMA AliasType == \A n \in Name : modelAlias(n) \in Name
<1>. TAKE n \in Name
<1>1. n.path \in Seq(Segment) /\ n.path # << >> /\ n.nitro \in Nat
  BY DEF Name
<1>2. ASSUME Len(n.path) # 1 PROVE Tail(n.path) \in Seq(Segment) \ {<< >>}
  <2>1. Len(n.path) \in Nat /\ Len(n.path) # 0
    BY <1>1
  <2>2. Tail(n.path) \in Seq(Segment) /\ Len(Tail(n.path)) = Len(n.path) - 1
    BY <1>1
  <2>3. Len(Tail(n.path)) # 0
    BY <1>2, <2>1, <2>2
  <2>. QED
    BY <2>2, <2>3, EmptySeq
<1>3. CASE Len(n.path) = 1 \/ Lower[n.path[1]] = Provider
  BY <1>3 DEF modelAlias
<1>4. CASE ~(Len(n.path) = 1 \/ Lower[n.path[1]] = Provider)
  <2>1. modelAlias(n) = [path |-> Tail(n.path), nitro |-> n.nitro]
    BY <1>4 DEF modelAlias
  <2>. QED
    BY <1>1, <1>2, <1>4, <2>1 DEF Name
<1>. QED
  BY <1>3, <1>4

\* Nitro variants of names are names, and the suffix commutes with the rest.
LEMMA NitroFacts ==
  \A n \in Name : /\ Nitro(n) \in Name
                  /\ Nitro(n).nitro # 0
                  /\ Fold(Nitro(n)) = Nitro(Fold(n))
                  /\ modelAlias(Nitro(n)) = Nitro(modelAlias(n))
<1>. TAKE n \in Name
<1>1. n.path \in Seq(Segment) \ {<< >>} /\ n.nitro \in Nat
  BY DEF Name
<1>2. n = [path |-> n.path, nitro |-> n.nitro]
  BY DEF Name
<1>3. /\ Nitro(n) \in Name
      /\ Nitro(n).nitro # 0
      /\ Nitro(n).path = n.path
      /\ Nitro(n).nitro = n.nitro + 1
  BY <1>1 DEF Nitro, Name
<1>4. Fold(Nitro(n)) = Nitro(Fold(n))
  BY <1>3 DEF Nitro, Fold
<1>5. modelAlias(Nitro(n)) = Nitro(modelAlias(n))
  <2>1. CASE Len(n.path) = 1 \/ Lower[n.path[1]] = Provider
    BY <1>3, <2>1 DEF modelAlias
  <2>2. CASE ~(Len(n.path) = 1 \/ Lower[n.path[1]] = Provider)
    BY <1>3, <2>2 DEF modelAlias, Nitro
  <2>. QED
    BY <2>1, <2>2
<1>. QED
  BY <1>3, <1>4, <1>5

\* Names that differ in letter case have aliases that differ in letter case.
LEMMA FoldAlias ==
  \A a, b \in Name : Fold(a) = Fold(b) => Fold(modelAlias(a)) = Fold(modelAlias(b))
<1>. SUFFICES ASSUME NEW a \in Name, NEW b \in Name, Fold(a) = Fold(b)
              PROVE  Fold(modelAlias(a)) = Fold(modelAlias(b))
  OBVIOUS
<1>1. /\ a.path \in Seq(Segment) /\ a.path # << >>
      /\ b.path \in Seq(Segment) /\ b.path # << >>
  BY DEF Name
<1>2. /\ a.nitro = b.nitro
      /\ [i \in DOMAIN a.path |-> Lower[a.path[i]]] = [i \in DOMAIN b.path |-> Lower[b.path[i]]]
  BY DEF Fold
<1>3. /\ DOMAIN a.path = DOMAIN b.path
      /\ \A i \in DOMAIN a.path : Lower[a.path[i]] = Lower[b.path[i]]
  BY <1>2
<1>4. Len(a.path) = Len(b.path) /\ DOMAIN a.path = 1..Len(a.path)
  BY <1>1, <1>3
<1>5. Lower[a.path[1]] = Lower[b.path[1]]
  BY <1>1, <1>3, <1>4
<1>6. CASE Len(a.path) = 1 \/ Lower[a.path[1]] = Provider
  BY <1>4, <1>5, <1>6 DEF modelAlias
<1>7. CASE ~(Len(a.path) = 1 \/ Lower[a.path[1]] = Provider)
  <2>1. /\ modelAlias(a) = [path |-> Tail(a.path), nitro |-> a.nitro]
        /\ modelAlias(b) = [path |-> Tail(b.path), nitro |-> b.nitro]
    BY <1>4, <1>5, <1>7 DEF modelAlias
  <2>2. /\ DOMAIN Tail(a.path) = 1..(Len(a.path) - 1)
        /\ DOMAIN Tail(b.path) = 1..(Len(a.path) - 1)
        /\ \A i \in 1..(Len(a.path) - 1) : /\ Tail(a.path)[i] = a.path[i + 1]
                                          /\ Tail(b.path)[i] = b.path[i + 1]
    BY <1>1, <1>4
  <2>3. \A i \in 1..(Len(a.path) - 1) : Lower[a.path[i + 1]] = Lower[b.path[i + 1]]
    BY <1>1, <1>3, <1>4
  <2>4. [i \in DOMAIN Tail(a.path) |-> Lower[Tail(a.path)[i]]]
          = [i \in DOMAIN Tail(b.path) |-> Lower[Tail(b.path)[i]]]
    BY <2>2, <2>3
  <2>5. /\ modelAlias(a).path = Tail(a.path) /\ modelAlias(a).nitro = a.nitro
        /\ modelAlias(b).path = Tail(b.path) /\ modelAlias(b).nitro = b.nitro
    BY <2>1
  <2>. QED
    BY <1>2, <2>4, <2>5 DEF Fold
<1>. QED
  BY <1>6, <1>7

\* Letter case does not make a name empty.
LEMMA FoldBlank ==
  \A a, b \in Name : Fold(a) = Fold(b) /\ IsBlank(a) => IsBlank(b)
<1>. SUFFICES ASSUME NEW a \in Name, NEW b \in Name, Fold(a) = Fold(b), IsBlank(a)
              PROVE  IsBlank(b)
  OBVIOUS
<1>1. b.path \in Seq(Segment) /\ a.path = <<Empty>> /\ a.nitro = 0
  BY DEF Name, IsBlank
<1>2. /\ a.nitro = b.nitro
      /\ [i \in DOMAIN a.path |-> Lower[a.path[i]]] = [i \in DOMAIN b.path |-> Lower[b.path[i]]]
  BY DEF Fold
<1>3. /\ DOMAIN a.path = DOMAIN b.path
      /\ \A i \in DOMAIN a.path : Lower[a.path[i]] = Lower[b.path[i]]
  BY <1>2
<1>4. DOMAIN b.path = 1..1 /\ Lower[b.path[1]] = Lower[Empty]
  BY <1>1, <1>3
<1>5. b.path[1] = Empty /\ Len(b.path) = 1
  <2>1. Len(b.path) = 1 /\ b.path[1] \in Segment
    <3>1. Len(b.path) \in Nat /\ DOMAIN b.path = 1..Len(b.path)
      BY <1>1
    <3>2. \A i \in Int : i \in 1..Len(b.path) <=> i \in 1..1
      BY <1>4, <3>1
    <3>3. 1 \in 1..Len(b.path) /\ ~(2 \in 1..Len(b.path))
      BY <3>2
    <3>4. Len(b.path) >= 1 /\ ~(Len(b.path) >= 2)
      BY <3>1, <3>3
    <3>5. b.path[1] \in Segment
      BY <1>1, <3>4
    <3>6. \A k \in Nat : k >= 1 /\ ~(k >= 2) => k = 1
      OBVIOUS
    <3>7. Len(b.path) = 1
      BY <3>1, <3>4, <3>6
    <3>. QED
      BY <3>5, <3>7
  <2>. QED
    BY <1>4, <2>1, EmptyAssumption
<1>. QED
  BY <1>1, <1>2, <1>5 DEF IsBlank

-----------------------------------------------------------------------------

\* What may be listed is a model, and has a name.
LEMMA ListedType == \A m \in Listed : m \in Model /\ m.id \in Name
BY ListedAssumption DEF Model

\* The initial states satisfy the inductive invariant.
LEMMA InitIInv == Init => IInv
<1>. SUFFICES ASSUME Init PROVE IInv
  OBVIOUS
<1>1. upstream \in Seq(Listed)
  BY ListedAssumption DEF Init
<1>2. TypeOK
  BY <1>1 DEF Init, TypeOK
<1>3. CollectInv
  BY <1>1 DEF Init, CollectInv
<1>4. TableInv /\ EntriesInv /\ RequestInv
  BY DEF Init, TableInv, EntriesInv, RequestInv
<1>. QED
  BY <1>2, <1>3, <1>4 DEF IInv

\* Looking at the next listed model adds no candidate that is not listed.
LEMMA CollectEntries == IInv /\ Collect => EntriesInv'
<1>. SUFFICES ASSUME IInv, Collect PROVE EntriesInv'
  OBVIOUS
<1>. DEFINE m == upstream[next]
<1>1. /\ next \in DOMAIN upstream /\ UNCHANGED <<upstream, models, aliases>>
      /\ models = << >> /\ DOMAIN aliases = {}
  BY DEF Collect, IInv, EntriesInv, TableInv
<1>2. ASSUME NEW k \in DOMAIN candidates'
      PROVE  \/ k \in DOMAIN candidates /\ candidates'[k] = candidates[k]
             \/ candidates'[k] = m /\ Exposed(m)
  <2>1. candidates \in Seq(Listed)
    BY DEF IInv, TypeOK
  <2>2. CASE candidates' = candidates
    BY <2>2
  <2>3. CASE candidates' = Append(candidates, m) /\ Exposed(m)
    BY <2>1, <2>3
  <2>. QED
    BY <2>2, <2>3 DEF Collect
<1>3. \A k \in DOMAIN candidates' :
        \E i \in DOMAIN upstream : Exposed(upstream[i]) /\ upstream[i] = candidates'[k]
  BY <1>1, <1>2 DEF IInv, EntriesInv
<1>. QED
  BY <1>1, <1>3 DEF EntriesInv

\* Looking at the next listed model preserves it.
LEMMA CollectIInv == IInv /\ Collect => IInv'
<1>. SUFFICES ASSUME IInv, Collect PROVE IInv'
  OBVIOUS
<1>. DEFINE m == upstream[next]
<1>1. /\ pc = "collect" /\ next \in DOMAIN upstream
      /\ next' = next + 1
      /\ UNCHANGED <<upstream, pc, models, aliases, asked, effort, native, answered, reply>>
  BY DEF Collect, exchange
<1>2. m \in Listed /\ m.id \in Name /\ Fold(m.id) \in Name
  BY <1>1, ListedType, FoldType DEF IInv, TypeOK
<1>3. CASE Exposed(m) /\ IsNew(m)
  <2>1. seenNative' = seenNative \cup {Fold(m.id)}
    BY <1>3 DEF Collect
  <2>2. CASE IsBlank(modelAlias(m.id))
    <3>1. candidates' = candidates
      BY <1>3, <2>2 DEF Collect, HasAlias
    <3>2. TypeOK'
      BY <1>1, <1>2, <2>1, <3>1 DEF IInv, TypeOK
    <3>3. CollectInv'
      BY <1>1, <1>2, <2>1, <2>2, <3>1 DEF IInv, TypeOK, CollectInv
    <3>4. TableInv' /\ RequestInv'
      BY <1>1, <3>1 DEF IInv, TableInv, RequestInv, IsUnique, Supports, Deciding
    <3>. QED
      BY <3>2, <3>3, <3>4, CollectEntries DEF IInv
  <2>3. CASE ~IsBlank(modelAlias(m.id))
    <3>1. candidates' = Append(candidates, m)
      BY <1>3, <2>3 DEF Collect, HasAlias
    <3>2. /\ candidates' \in Seq(Listed)
          /\ DOMAIN candidates \subseteq DOMAIN candidates'
          /\ \A j \in DOMAIN candidates : candidates'[j] = candidates[j]
          /\ \E j \in DOMAIN candidates' : candidates'[j] = m
          /\ \A j \in DOMAIN candidates' : j \in DOMAIN candidates \/ candidates'[j] = m
      <4>1. candidates \in Seq(Listed)
        BY DEF IInv, TypeOK
      <4>. QED
        BY <1>2, <3>1, <4>1
    <3>3. TypeOK'
      <4>1. \A i \in DOMAIN candidates' :
              /\ Fold(candidates'[i].id) \in seenNative'
              /\ ~IsBlank(modelAlias(candidates'[i].id))
        BY <2>1, <2>3, <3>2 DEF IInv, TypeOK
      <4>2. next' \in Nat \ {0} /\ seenNative' \subseteq Name
        BY <1>1, <1>2, <2>1 DEF IInv, TypeOK
      <4>. HIDE DEF m
      <4>. QED
        BY <1>1, <3>2, <4>1, <4>2 DEF IInv, TypeOK
    <3>4. CollectInv'
      <4>1. \A f \in seenNative' :
               \/ \E u \in Listed : Fold(u.id) = f /\ IsBlank(modelAlias(u.id))
               \/ \E j \in DOMAIN candidates' : Fold(candidates'[j].id) = f
        BY <2>1, <3>2 DEF IInv, CollectInv
      <4>2. \A i \in DOMAIN upstream' :
              (pc' = "collect" => i < next') /\ Exposed(upstream'[i])
                => Fold(upstream'[i].id) \in seenNative'
        BY <1>1, <2>1 DEF IInv, TypeOK, CollectInv
      <4>. QED
        BY <4>1, <4>2 DEF CollectInv
    <3>5. TableInv' /\ RequestInv'
      BY <1>1 DEF IInv, TableInv, RequestInv, Supports, Deciding
    <3>. QED
      BY <3>3, <3>4, <3>5, CollectEntries DEF IInv
  <2>. QED
    BY <2>2, <2>3
<1>4. CASE ~(Exposed(m) /\ IsNew(m))
  <2>1. UNCHANGED <<seenNative, candidates>>
    BY <1>4 DEF Collect
  <2>2. TypeOK'
    BY <1>1, <2>1 DEF IInv, TypeOK
  <2>3. CollectInv'
    BY <1>1, <1>4, <2>1 DEF IInv, TypeOK, CollectInv, IsNew
  <2>4. TableInv' /\ RequestInv'
    BY <1>1 DEF IInv, TableInv, RequestInv, Supports, Deciding
  <2>. QED
    BY <2>2, <2>3, <2>4, CollectEntries DEF IInv
<1>. QED
  BY <1>3, <1>4

\* The entries of the next candidate join those of the ones before it.
LEMMA PublishEntries == IInv /\ Publish => EntriesInv'
<1>. SUFFICES ASSUME IInv, Publish PROVE EntriesInv'
  OBVIOUS
<1>. DEFINE m == candidates[next]
<1>1. /\ pc = "publish" /\ next \in DOMAIN candidates
      /\ UNCHANGED <<upstream, pc, candidates>>
  BY DEF Publish
<1>2. \A k \in DOMAIN candidates : IsUnique(k) <=> IsUnique(k)'
  BY <1>1 DEF IsUnique
<1>3. CASE ~IsUnique(next)
  <2>1. UNCHANGED <<models, aliases>>
    BY <1>3 DEF Publish, Skip
  <2>. QED
    BY <1>1, <1>2, <2>1 DEF IInv, EntriesInv, EntryOf
<1>4. CASE IsUnique(next)
  <2>. DEFINE e1 == Entry(m, m.id)
              e2 == [Entry(m, m.id) EXCEPT !.id = Nitro(@), !.name = Nitro(m.id)]
              plain == Fold(modelAlias(m.id))
              nitro == Fold(Nitro(modelAlias(m.id)))
              n == Len(models)
  <2>1. /\ models' = models \o <<e1, e2>>
        /\ aliases' = Put(Put(aliases, plain, m.id), nitro, Nitro(m.id))
    BY <1>4 DEF Publish, PublishBoth, NitroName
  <2>2. /\ e1.id = modelAlias(m.id) /\ e1.name = m.id /\ e1.levels = m.levels
        /\ e1.thinks = m.thinks /\ e2.thinks = m.thinks
        /\ e2.id = Nitro(modelAlias(m.id)) /\ e2.name = Nitro(m.id)
        /\ e2.levels = m.levels
    BY DEF Entry
  <2>3. models \in Seq(PublicEntry) /\ n \in Nat
    BY DEF IInv, TypeOK
  <2>. HIDE DEF e1, e2
  <2>4. /\ DOMAIN models = 1..n /\ DOMAIN models' = 1..(n + 2)
        /\ \A i \in 1..n : models'[i] = models[i]
        /\ models'[n + 1] = e1 /\ models'[n + 2] = e2
    <3>1. Len(<<e1, e2>>) = 2 /\ <<e1, e2>>[1] = e1 /\ <<e1, e2>>[2] = e2
      OBVIOUS
    <3>2. models' = [i \in 1..(n + 2) |->
                       IF i <= n THEN models[i] ELSE <<e1, e2>>[i - n]]
      BY <2>1, <2>3, <3>1
    <3>3. n + 1 \in 1..(n + 2) /\ n + 2 \in 1..(n + 2)
          /\ (n + 1) - n = 1 /\ (n + 2) - n = 2 /\ ~(n + 1 <= n) /\ ~(n + 2 <= n)
          /\ \A i \in 1..n : i \in 1..(n + 2) /\ i <= n
      BY <2>3
    <3>. QED
      BY <2>3, <3>1, <3>2, <3>3
  <2>5. /\ DOMAIN aliases' = DOMAIN aliases \cup {plain, nitro}
        /\ aliases'[nitro] = Nitro(m.id)
        /\ plain # nitro => aliases'[plain] = m.id
        /\ \A f \in DOMAIN aliases \ {plain, nitro} : aliases'[f] = aliases[f]
    BY <2>1 DEF Put
  <2>. PICK here \in DOMAIN candidates : here = next
    BY <1>1
  <2>6. ASSUME NEW i \in DOMAIN models'
        PROVE  /\ \E k \in DOMAIN candidates' : IsUnique(k)' /\ EntryOf(i, k)'
               /\ Fold(models'[i].id) \in DOMAIN aliases'
    <3>1. CASE i \in 1..n
      <4>1. PICK k \in DOMAIN candidates : IsUnique(k) /\ EntryOf(i, k)
        BY <2>4, <3>1 DEF IInv, EntriesInv
      <4>2. EntryOf(i, k)'
        BY <1>1, <2>4, <3>1, <4>1 DEF EntryOf
      <4>3. Fold(models[i].id) \in DOMAIN aliases
        BY <2>4, <3>1 DEF IInv, EntriesInv
      <4>. QED
        BY <1>1, <1>2, <2>4, <2>5, <3>1, <4>1, <4>2, <4>3
    <3>2. CASE i = n + 1
      <4>1. EntryOf(i, here)'
        BY <1>1, <2>2, <2>4, <3>2 DEF EntryOf
      <4>. QED
        BY <1>1, <1>2, <1>4, <2>2, <2>4, <2>5, <3>2, <4>1
    <3>3. CASE i = n + 2
      <4>1. EntryOf(i, here)'
        BY <1>1, <2>2, <2>4, <3>3 DEF EntryOf
      <4>. QED
        BY <1>1, <1>2, <1>4, <2>2, <2>4, <2>5, <3>3, <4>1
    <3>4. i \in 1..n \/ i = n + 1 \/ i = n + 2
      BY <2>3, <2>4
    <3>. QED
      BY <3>1, <3>2, <3>3, <3>4
  <2>7. ASSUME NEW f \in DOMAIN aliases'
        PROVE  \E i \in DOMAIN models' :
                 Fold(models'[i].id) = f /\ models'[i].name = aliases'[f]
    <3>0. n + 1 \in DOMAIN models' /\ n + 2 \in DOMAIN models'
      BY <2>3, <2>4
    <3>1. CASE f = nitro
      BY <2>2, <2>4, <2>5, <3>0, <3>1
    <3>2. CASE f = plain /\ plain # nitro
      BY <2>2, <2>4, <2>5, <3>0, <3>2
    <3>3. CASE f \notin {plain, nitro}
      <4>1. f \in DOMAIN aliases /\ aliases'[f] = aliases[f]
        BY <2>5, <3>3
      <4>2. PICK i \in DOMAIN models : Fold(models[i].id) = f /\ models[i].name = aliases[f]
        BY <4>1 DEF IInv, EntriesInv
      <4>3. i \in DOMAIN models' /\ models'[i] = models[i]
        BY <2>3, <2>4, <4>2
      <4>. QED
        BY <4>1, <4>2, <4>3
    <3>. QED
      BY <3>1, <3>2, <3>3
  <2>8. \A k \in DOMAIN candidates' : \E i \in DOMAIN upstream' :
          Exposed(upstream'[i]) /\ upstream'[i] = candidates'[k]
    BY <1>1 DEF IInv, EntriesInv
  <2>. HIDE DEF plain, nitro, n, m
  <2>. QED
    BY <1>1, <2>6, <2>7, <2>8 DEF EntriesInv
<1>. QED
  BY <1>3, <1>4

\* Publishing a candidate, or leaving it out, preserves it.
LEMMA PublishIInv == IInv /\ Publish => IInv'
<1>. SUFFICES ASSUME IInv, Publish PROVE IInv'
  OBVIOUS
<1>. DEFINE m == candidates[next]
<1>1. /\ pc = "publish" /\ next \in DOMAIN candidates
      /\ next' = next + 1
      /\ UNCHANGED <<upstream, pc, seenNative, candidates, asked, effort, native,
                     answered, reply>>
  BY DEF Publish, exchange
<1>2. /\ m \in Listed /\ m \in Model /\ m.id \in Name
      /\ modelAlias(m.id) \in Name /\ Nitro(m.id) \in Name
      /\ Nitro(modelAlias(m.id)) \in Name
  BY <1>1, ListedType, AliasType, NitroFacts DEF IInv, TypeOK
<1>3. CASE ~IsUnique(next)
  <2>1. UNCHANGED <<models, aliases>>
    BY <1>3 DEF Publish, Skip
  <2>. QED
    BY <1>1, <2>1, PublishEntries
    DEF IInv, TypeOK, CollectInv, TableInv, RequestInv, IsUnique, Supports, Deciding
<1>4. CASE IsUnique(next)
  <2>. DEFINE plain == Fold(modelAlias(m.id))
              nitro == Fold(Nitro(modelAlias(m.id)))
  <2>1. /\ models' = models \o <<Entry(m, m.id),
                                 [Entry(m, m.id) EXCEPT !.id = Nitro(@), !.name = Nitro(m.id)]>>
        /\ aliases' = Put(Put(aliases, plain, m.id), nitro, Nitro(m.id))
    BY <1>4 DEF Publish, PublishBoth, NitroName
  <2>2. /\ plain \in Name /\ nitro \in Name /\ nitro.nitro # 0
        /\ Fold(modelAlias(Nitro(m.id))) = nitro
    <3>1. plain \in Name /\ nitro \in Name
      BY <1>2, FoldType
    <3>2. nitro = Nitro(plain)
      BY <1>2, NitroFacts
    <3>3. nitro.nitro # 0
      BY <3>1, <3>2, NitroFacts
    <3>4. modelAlias(Nitro(m.id)) = Nitro(modelAlias(m.id))
      BY <1>2, NitroFacts
    <3>. QED
      BY <3>1, <3>3, <3>4
  <2>3. /\ DOMAIN aliases' = DOMAIN aliases \cup {plain, nitro}
        /\ aliases'[nitro] = Nitro(m.id)
        /\ plain # nitro => aliases'[plain] = m.id
        /\ \A k \in DOMAIN aliases \ {plain, nitro} : aliases'[k] = aliases[k]
    BY <2>1 DEF Put
  <2>4. models' \in Seq(PublicEntry)
    <3>1. /\ Entry(m, m.id) \in PublicEntry
          /\ [Entry(m, m.id) EXCEPT !.id = Nitro(@), !.name = Nitro(m.id)] \in PublicEntry
      BY <1>2 DEF Entry, PublicEntry, Model
    <3>2. models \in Seq(PublicEntry)
      BY DEF IInv, TypeOK
    <3>. QED
      BY <2>1, <3>1, <3>2
  <2>5. TypeOK'
    BY <1>1, <1>2, <2>2, <2>3, <2>4 DEF IInv, TypeOK
  <2>6. CollectInv' /\ RequestInv' /\ EntriesInv'
    BY <1>1, PublishEntries DEF IInv, CollectInv, RequestInv
  <2>7. TableInv'
    <3>1. \A k \in DOMAIN aliases' : Fold(modelAlias(aliases'[k])) = k
      BY <2>2, <2>3 DEF IInv, TableInv
    <3>2. \A k \in DOMAIN aliases' :
            k.nitro = 0 => \E i \in DOMAIN candidates : IsUnique(i) /\ aliases'[k] = candidates[i].id
      BY <1>1, <1>4, <2>2, <2>3 DEF IInv, TableInv
    <3>. QED
      BY <1>1, <3>1, <3>2 DEF TableInv, IsUnique
  <2>. QED
    BY <2>5, <2>6, <2>7 DEF IInv
<1>. QED
  BY <1>3, <1>4

\* A request is looked up, and so it is.
LEMMA AskIInv ==
  ASSUME IInv, NEW n \in Asked, NEW e \in Effort \cup {None}, Ask(n, e)
  PROVE  IInv'
<1>1. /\ pc = "ready" /\ asked' = n /\ effort' = e
      /\ UNCHANGED <<upstream, next, seenNative, candidates, models, aliases, answered, reply>>
  BY DEF Ask, lists
<1>2. native = None
  BY <1>1 DEF IInv, RequestInv
<1>3. \/ pc' = "refused" /\ native' = None
      \/ /\ Fold(n) \in DOMAIN aliases
         /\ pc' = "sent" /\ native' = aliases[Fold(n)]
         /\ e = None \/ Supports(n, e)
  BY <1>2 DEF Ask
<1>4. TypeOK'
  BY <1>1, <1>3 DEF IInv, TypeOK
<1>5. CollectInv' /\ TableInv' /\ EntriesInv'
  BY <1>1, <1>3 DEF IInv, CollectInv, TableInv, EntriesInv, IsUnique, EntryOf
<1>6. RequestInv'
  BY <1>1, <1>3, NoneAssumption DEF IInv, TypeOK, RequestInv, Supports, Deciding
<1>. QED
  BY <1>4, <1>5, <1>6 DEF IInv

\* Every step preserves the invariant.
LEMMA NextIInv == IInv /\ [Next]_vars => IInv'
<1>. SUFFICES ASSUME IInv, [Next]_vars PROVE IInv'
  OBVIOUS
<1>. USE DEF TypeOK, CollectInv, TableInv, EntriesInv, RequestInv, lists, exchange,
            IsUnique, EntryOf, Supports, Deciding
<1>1. ASSUME Collected PROVE IInv'
  BY <1>1 DEF IInv, Collected
<1>2. ASSUME Published PROVE IInv'
  BY <1>2 DEF IInv, Published
<1>3. ASSUME NEW n \in {native} \cup {m.id : m \in Listed}, Answer(n) PROVE IInv'
  <2>1. n \in Name
    BY <1>3, ListedType DEF IInv, Answer
  <2>2. modelAlias(n) \in Name
    BY <2>1, AliasType
  <2>. QED
    BY <1>3, <2>1, <2>2 DEF IInv, Answer
<1>4. ASSUME UNCHANGED vars PROVE IInv'
  BY <1>4 DEF IInv, vars
<1>. QED
  BY <1>1, <1>2, <1>3, <1>4, CollectIInv, PublishIInv, AskIInv DEF Next

\* The inductive invariant holds in every reachable state.
LEMMA AlwaysIInv == Spec => []IInv
<1>. QED
  BY InitIInv, NextIInv, PTL DEF Spec

-----------------------------------------------------------------------------

\* The variables have their types; no candidate has an empty alias.
THEOREM NamesTypeCorrect == Spec => []TypeOK
<1>1. IInv => TypeOK
  BY DEF IInv
<1>. QED
  BY <1>1, AlwaysIInv, PTL

\* Whatever OpenRouter lists, the alias a client asks for comes back to it.
THEOREM NamesRoundTrip == Spec => []RoundTrip
<1>1. IInv => RoundTrip
  BY DEF IInv, TableInv, RequestInv, RoundTrip
<1>. QED
  BY <1>1, AlwaysIInv, PTL

\* Whatever OpenRouter lists, a plain alias leads to no model but its own.
THEOREM NamesNoVendorGuess == Spec => []NoVendorGuess
<1>1. ASSUME IInv PROVE NoVendorGuess
  <2>. SUFFICES ASSUME native # None, asked.nitro = 0,
                       NEW u \in DOMAIN upstream, Exposed(upstream[u]),
                       Fold(modelAlias(upstream[u].id)) = Fold(asked)
                PROVE  Fold(upstream[u].id) = Fold(native)
    BY DEF NoVendorGuess
  <2>1. /\ asked \in Name
        /\ Fold(asked) \in DOMAIN aliases /\ native = aliases[Fold(asked)]
        /\ Fold(asked).nitro = 0 /\ pc # "collect"
    BY <1>1, AskedAssumption DEF IInv, RequestInv, Fold
  <2>2. PICK i \in DOMAIN candidates : IsUnique(i) /\ native = candidates[i].id
    BY <1>1, <2>1 DEF IInv, TableInv
  <2>3. Fold(modelAlias(candidates[i].id)) = Fold(asked)
    BY <1>1, <2>1, <2>2 DEF IInv, TableInv
  <2>4. /\ upstream[u].id \in Name
        /\ \A j \in DOMAIN candidates : candidates[j].id \in Name
    BY <1>1, ListedType DEF IInv, TypeOK
  <2>5. Fold(upstream[u].id) \in seenNative
    BY <1>1, <2>1 DEF IInv, CollectInv
  <2>6. ASSUME NEW m \in Listed, Fold(m.id) = Fold(upstream[u].id), IsBlank(modelAlias(m.id))
        PROVE  FALSE
    <3>1. Fold(modelAlias(m.id)) = Fold(modelAlias(candidates[i].id))
      BY <2>3, <2>4, <2>6, ListedType, FoldAlias
    <3>2. IsBlank(modelAlias(candidates[i].id))
      BY <2>4, <2>6, <3>1, ListedType, AliasType, FoldBlank
    <3>. QED
      BY <1>1, <3>2 DEF IInv, TypeOK
  <2>7. PICK j \in DOMAIN candidates : Fold(candidates[j].id) = Fold(upstream[u].id)
    BY <1>1, <2>5, <2>6 DEF IInv, CollectInv
  <2>8. Fold(modelAlias(candidates[j].id)) = Fold(modelAlias(candidates[i].id))
    BY <2>3, <2>4, <2>7, FoldAlias
  <2>9. i = j
    BY <2>2, <2>8 DEF IsUnique
  <2>. QED
    BY <2>2, <2>7, <2>9
<1>. QED
  BY <1>1, AlwaysIInv, PTL

-----------------------------------------------------------------------------
(* Which entries share a name.                                              *)

\* Neither the alias nor the letter case counts in the Nitro suffixes, and a
\* name is told by its Nitro variant.
LEMMA SuffixFacts ==
  ASSUME NEW a \in Name, NEW b \in Name
  PROVE  /\ modelAlias(a).nitro = a.nitro
         /\ Fold(a).nitro = a.nitro
         /\ Nitro(a).nitro = a.nitro + 1
         /\ Nitro(a) = Nitro(b) => a = b
<1>1. /\ a = [path |-> a.path, nitro |-> a.nitro] /\ a.nitro \in Nat
      /\ b = [path |-> b.path, nitro |-> b.nitro] /\ b.nitro \in Nat
  BY DEF Name
<1>2. modelAlias(a).nitro = a.nitro
  BY DEF modelAlias
<1>3. /\ Nitro(a).path = a.path /\ Nitro(a).nitro = a.nitro + 1
      /\ Nitro(b).path = b.path /\ Nitro(b).nitro = b.nitro + 1
  BY DEF Nitro
<1>4. ASSUME Nitro(a) = Nitro(b) PROVE a = b
  <2>1. a.path = b.path /\ a.nitro + 1 = b.nitro + 1
    BY <1>3, <1>4
  <2>2. a.nitro = b.nitro
    BY <1>1, <2>1
  <2>. QED
    BY <1>1, <2>1, <2>2
<1>. QED
  BY <1>2, <1>3, <1>4 DEF Fold

\* Entries of one name are those of one candidate, and of one kind, or the
\* plain one of a candidate and the Nitro one of another.
LEMMA NameClash ==
  ASSUME IInv, NEW i \in DOMAIN models, NEW j \in DOMAIN models,
         Fold(models[i].id) = Fold(models[j].id),
         NEW k \in DOMAIN candidates, IsUnique(k), EntryOf(i, k),
         NEW l \in DOMAIN candidates, IsUnique(l), EntryOf(j, l)
  PROVE  \/ k = l /\ models[i].name = models[j].name
         \/ /\ candidates[k].id.nitro = candidates[l].id.nitro + 1
            /\ models[i].id = modelAlias(candidates[k].id)
            /\ models[i].name = candidates[k].id
            /\ models[j].name = Nitro(candidates[l].id)
         \/ /\ candidates[l].id.nitro = candidates[k].id.nitro + 1
            /\ models[j].id = modelAlias(candidates[l].id)
            /\ models[j].name = candidates[l].id
            /\ models[i].name = Nitro(candidates[k].id)
<1>. DEFINE ck == candidates[k].id
            cl == candidates[l].id
            ak == modelAlias(ck)
            al == modelAlias(cl)
<1>3. ck \in Name /\ cl \in Name /\ ak \in Name /\ al \in Name
  BY ListedType, AliasType DEF IInv, TypeOK
<1>6. /\ Fold(ak) \in Name /\ Fold(al) \in Name
      /\ Fold(ak).nitro = ck.nitro /\ Fold(al).nitro = cl.nitro
      /\ Fold(Nitro(ak)) = Nitro(Fold(ak)) /\ Fold(Nitro(al)) = Nitro(Fold(al))
      /\ Nitro(Fold(ak)).nitro = ck.nitro + 1 /\ Nitro(Fold(al)).nitro = cl.nitro + 1
  <2>1. Fold(ak) \in Name /\ Fold(al) \in Name
    BY <1>3, FoldType
  <2>2. Fold(ak).nitro = ck.nitro /\ Fold(al).nitro = cl.nitro
    <3>1. ak.nitro = ck.nitro /\ al.nitro = cl.nitro
      BY <1>3, SuffixFacts
    <3>2. Fold(ak).nitro = ak.nitro /\ Fold(al).nitro = al.nitro
      BY <1>3, SuffixFacts
    <3>. QED
      BY <3>1, <3>2
  <2>3. Fold(Nitro(ak)) = Nitro(Fold(ak)) /\ Fold(Nitro(al)) = Nitro(Fold(al))
    BY <1>3, NitroFacts
  <2>4. /\ Nitro(Fold(ak)).nitro = Fold(ak).nitro + 1
        /\ Nitro(Fold(al)).nitro = Fold(al).nitro + 1
    BY <2>1, SuffixFacts
  <2>. QED
    BY <2>1, <2>2, <2>3, <2>4
<1>7. \/ models[i].id = ak /\ models[i].name = ck
      \/ models[i].id = Nitro(ak) /\ models[i].name = Nitro(ck)
  BY DEF EntryOf
<1>8. \/ models[j].id = al /\ models[j].name = cl
      \/ models[j].id = Nitro(al) /\ models[j].name = Nitro(cl)
  BY DEF EntryOf
<1>. HIDE DEF ak, al
<1>9. CASE Fold(ak) = Fold(al)
  <2>1. k = l
    BY <1>9 DEF IsUnique, ak, al
  <2>2. ck.nitro \in Nat /\ ck.nitro # ck.nitro + 1
    BY <1>3 DEF Name
  <2>3. models[i].name = models[j].name
    BY <1>6, <1>7, <1>8, <1>9, <2>1, <2>2
  <2>. QED
    BY <2>1, <2>3
<1>10. CASE Fold(ak) # Fold(al)
  <2>1. \/ /\ models[i].id = ak /\ models[i].name = ck
           /\ models[j].id = Nitro(al) /\ models[j].name = Nitro(cl)
        \/ /\ models[i].id = Nitro(ak) /\ models[i].name = Nitro(ck)
           /\ models[j].id = al /\ models[j].name = cl
    BY <1>6, <1>7, <1>8, <1>10, SuffixFacts
  <2>2. CASE models[i].name = ck /\ models[j].name = Nitro(cl) /\ models[i].id = ak
             /\ models[j].id = Nitro(al)
    <3>1. ck.nitro = cl.nitro + 1
      BY <1>6, <2>2
    <3>. QED
      BY <2>2, <3>1 DEF ak
  <2>3. CASE models[i].name = Nitro(ck) /\ models[j].name = cl /\ models[j].id = al
             /\ models[i].id = Nitro(ak)
    <3>1. cl.nitro = ck.nitro + 1
      BY <1>6, <2>3
    <3>. QED
      BY <2>3, <3>1 DEF al
  <2>. QED
    BY <2>1, <2>2, <2>3
<1>. QED
  BY <1>9, <1>10

\* Put in terms of what OpenRouter lists.
LEMMA EntriesOfName ==
  ASSUME IInv, NEW i \in DOMAIN models, NEW j \in DOMAIN models,
         Fold(models[i].id) = Fold(models[j].id)
  PROVE  \/ models[i].name = models[j].name /\ models[i].levels = models[j].levels
         \/ \E u, v \in DOMAIN upstream :
              /\ upstream[u].id.nitro = upstream[v].id.nitro + 1
              /\ {models[i].name, models[j].name}
                   = {upstream[u].id, Nitro(upstream[v].id)}
              /\ Fold(models[i].id) = Fold(modelAlias(upstream[u].id))
<1>1. PICK k \in DOMAIN candidates : IsUnique(k) /\ EntryOf(i, k)
  BY DEF IInv, EntriesInv
<1>2. PICK l \in DOMAIN candidates : IsUnique(l) /\ EntryOf(j, l)
  BY DEF IInv, EntriesInv
<1>3. PICK u \in DOMAIN upstream : upstream[u] = candidates[k]
  BY DEF IInv, EntriesInv
<1>4. PICK v \in DOMAIN upstream : upstream[v] = candidates[l]
  BY DEF IInv, EntriesInv
<1>5. CASE k = l /\ models[i].name = models[j].name
  BY <1>1, <1>2, <1>5 DEF EntryOf
<1>6. CASE /\ candidates[k].id.nitro = candidates[l].id.nitro + 1
           /\ models[i].id = modelAlias(candidates[k].id)
           /\ models[i].name = candidates[k].id
           /\ models[j].name = Nitro(candidates[l].id)
  BY <1>3, <1>4, <1>6
<1>7. CASE /\ candidates[l].id.nitro = candidates[k].id.nitro + 1
           /\ models[j].id = modelAlias(candidates[l].id)
           /\ models[j].name = candidates[l].id
           /\ models[i].name = Nitro(candidates[k].id)
  BY <1>3, <1>4, <1>7
<1>8. \/ k = l /\ models[i].name = models[j].name
      \/ /\ candidates[k].id.nitro = candidates[l].id.nitro + 1
         /\ models[i].id = modelAlias(candidates[k].id)
         /\ models[i].name = candidates[k].id
         /\ models[j].name = Nitro(candidates[l].id)
      \/ /\ candidates[l].id.nitro = candidates[k].id.nitro + 1
         /\ models[j].id = modelAlias(candidates[l].id)
         /\ models[j].name = candidates[l].id
         /\ models[i].name = Nitro(candidates[k].id)
  BY <1>1, <1>2, NameClash
<1>. QED
  BY <1>5, <1>6, <1>7, <1>8, Zenon

\* Under a name that is no listed Nitro model's there is one entry, or several
\* that do not differ.
LEMMA OneEntryPerName ==
  ASSUME IInv, NEW i \in DOMAIN models, NEW j \in DOMAIN models,
         Fold(models[i].id) = Fold(models[j].id),
         Fold(models[i].id) \notin ListedNitro
  PROVE  models[i].levels = models[j].levels
<1>1. ASSUME NEW u \in DOMAIN upstream, NEW v \in DOMAIN upstream,
             upstream[u].id.nitro = upstream[v].id.nitro + 1,
             Fold(models[i].id) = Fold(modelAlias(upstream[u].id))
      PROVE  FALSE
  <2>1. upstream[u].id.nitro > 0
    BY <1>1, ListedType DEF IInv, TypeOK, Name
  <2>. QED
    BY <1>1, <2>1 DEF ListedNitro
<1>. QED
  BY <1>1, EntriesOfName

\* README.md:58 holds but for one kind of clash: what is published under one
\* alias leads to one model, or is a listed and a made Nitro variant.
THEOREM NamesOnlyNitroClashes == Spec => []OnlyNitroClashes
<1>1. IInv => OnlyNitroClashes
  <2>. SUFFICES ASSUME IInv, NEW i \in DOMAIN models, NEW j \in DOMAIN models,
                       Fold(models[i].id) = Fold(models[j].id)
                PROVE  \/ /\ models[i].name = models[j].name
                          /\ models[i].levels = models[j].levels
                       \/ \E u, v \in DOMAIN upstream :
                            /\ upstream[u].id.nitro = upstream[v].id.nitro + 1
                            /\ {models[i].name, models[j].name}
                                 = {upstream[u].id, Nitro(upstream[v].id)}
    BY DEF OnlyNitroClashes
  <2>. QED
    <3>1. \/ models[i].name = models[j].name /\ models[i].levels = models[j].levels
          \/ \E u, v \in DOMAIN upstream :
               /\ upstream[u].id.nitro = upstream[v].id.nitro + 1
               /\ {models[i].name, models[j].name}
                    = {upstream[u].id, Nitro(upstream[v].id)}
               /\ Fold(models[i].id) = Fold(modelAlias(upstream[u].id))
      BY EntriesOfName
    <3>. QED
      BY <3>1, Zenon
<1>. QED
  BY <1>1, AlwaysIInv, PTL

\* An effort is sent only to a model of that name that OpenRouter lists it for,
\* or to its Nitro variant, but for names of listed Nitro models.
THEOREM NamesEffortIsTheModels == Spec => []EffortIsTheModels
<1>1. ASSUME IInv, native # None, effort # None
      PROVE  \E u, v \in DOMAIN upstream :
               /\ Exposed(upstream[u])
               /\ effort \in upstream[u].levels
               /\ native \in {upstream[v].id, Nitro(upstream[v].id)}
               /\ Fold(asked) \in PublicNames(upstream[u]) \cap PublicNames(upstream[v])
               /\ u = v \/ upstream[u].id.nitro # upstream[v].id.nitro
  <2>1. /\ Fold(asked) \in DOMAIN aliases /\ native = aliases[Fold(asked)]
        /\ Supports(asked, effort)
    BY <1>1 DEF IInv, RequestInv
  <2>2. PICK i \in DOMAIN models :
          Fold(models[i].id) = Fold(asked) /\ effort \in models[i].levels
    BY <2>1 DEF Supports, Deciding
  <2>3. PICK j \in DOMAIN models :
          Fold(models[j].id) = Fold(asked) /\ models[j].name = native
    BY <1>1, <2>1 DEF IInv, EntriesInv
  <2>4. PICK k \in DOMAIN candidates : IsUnique(k) /\ EntryOf(i, k)
    BY <1>1 DEF IInv, EntriesInv
  <2>5. PICK l \in DOMAIN candidates : IsUnique(l) /\ EntryOf(j, l)
    BY <1>1 DEF IInv, EntriesInv
  <2>6. PICK u \in DOMAIN upstream : Exposed(upstream[u]) /\ upstream[u] = candidates[k]
    BY <1>1 DEF IInv, EntriesInv
  <2>7. PICK v \in DOMAIN upstream : Exposed(upstream[v]) /\ upstream[v] = candidates[l]
    BY <1>1 DEF IInv, EntriesInv
  <2>8. /\ Fold(asked) \in PublicNames(upstream[u])
        /\ effort \in upstream[u].levels
    BY <2>2, <2>4, <2>6 DEF EntryOf, PublicNames
  <2>9. /\ Fold(asked) \in PublicNames(upstream[v])
        /\ native \in {upstream[v].id, Nitro(upstream[v].id)}
    BY <2>3, <2>5, <2>7 DEF EntryOf, PublicNames
  <2>10. k = l \/ upstream[u].id.nitro # upstream[v].id.nitro
    <3>1. upstream[u].id.nitro \in Nat /\ upstream[v].id.nitro \in Nat
      BY <1>1, ListedType DEF IInv, TypeOK, Name
    <3>2. \/ k = l
          \/ upstream[u].id.nitro = upstream[v].id.nitro + 1
          \/ upstream[v].id.nitro = upstream[u].id.nitro + 1
      BY <1>1, <2>2, <2>3, <2>4, <2>5, <2>6, <2>7, NameClash
    <3>. QED
      BY <3>1, <3>2
  <2>11. CASE k = l
    BY <2>6, <2>7, <2>8, <2>9, <2>11
  <2>12. CASE upstream[u].id.nitro # upstream[v].id.nitro
    BY <2>6, <2>8, <2>9, <2>12
  <2>. QED
    BY <2>10, <2>11, <2>12
<1>2. IInv => EffortIsTheModels
  BY <1>1 DEF EffortIsTheModels
<1>. QED
  BY <1>2, AlwaysIInv, PTL

\* The names the capability page counts are those of the table, and the levels
\* it shows for a name are those of every entry that may decide about it, but
\* for names of listed Nitro models.
THEOREM NamesAdvertisedIsAccepted == Spec => []AdvertisedIsAccepted
<1>1. ASSUME IInv PROVE AdvertisedIsAccepted
  <2>1. {Fold(models[i].id) : i \in DOMAIN models} = DOMAIN aliases
    BY <1>1 DEF IInv, EntriesInv
  <2>2. ASSUME NEW j \in DOMAIN models, Fold(models[j].id) \notin ListedNitro
        PROVE  Levels(Fold(models[j].id)) = models[j].levels
    <3>1. \A i \in {l \in DOMAIN models : Fold(models[l].id) = Fold(models[j].id)} :
            models[i].levels = models[j].levels
      BY <1>1, <2>2, OneEntryPerName
    <3>. QED
      BY <3>1 DEF Levels
  <2>3. ASSUME NEW c \in modelCapabilities
        PROVE  /\ c.modelID \in DOMAIN aliases
               /\ c.modelID \notin ListedNitro =>
                    \A i \in Deciding(c.modelID) : models[i].levels = c.levels
    <3>1. PICK j \in DOMAIN models :
            c = [modelID |-> Fold(models[j].id), levels |-> Levels(Fold(models[j].id))]
      BY DEF modelCapabilities
    <3>2. ASSUME NEW i \in Deciding(c.modelID), c.modelID \notin ListedNitro
          PROVE  models[i].levels = c.levels
      <4>1. /\ i \in DOMAIN models /\ Fold(models[i].id) = Fold(models[j].id)
            /\ c.levels = Levels(Fold(models[i].id))
        BY <3>1, <3>2 DEF Deciding
      <4>. QED
        BY <2>2, <3>1, <3>2, <4>1
    <3>. QED
      BY <2>1, <3>1, <3>2
  <2>. QED
    BY <2>1, <2>3 DEF AdvertisedIsAccepted, CatalogModelCount
<1>. QED
  BY <1>1, AlwaysIInv, PTL

-----------------------------------------------------------------------------
(* Which models are published.                                              *)

\* A listed model joins the candidates only if no candidate is the same one.
LEMMA CollectDistinct == IInv /\ PublishedInv /\ Collect => PublishedInv'
<1>. SUFFICES ASSUME IInv, PublishedInv, Collect PROVE PublishedInv'
  OBVIOUS
<1>. DEFINE m == upstream[next]
<1>1. pc' = "collect" /\ candidates \in Seq(Listed)
  BY DEF Collect, IInv, TypeOK
<1>2. CASE candidates' = candidates
  BY <1>1, <1>2 DEF PublishedInv
<1>3. CASE candidates' = Append(candidates, m) /\ IsNew(m)
  <2>1. \A k \in DOMAIN candidates : Fold(candidates[k].id) # Fold(m.id)
    BY <1>3 DEF IInv, TypeOK, IsNew
  <2>2. /\ DOMAIN candidates' = DOMAIN candidates \cup {Len(candidates) + 1}
        /\ \A k \in DOMAIN candidates : candidates'[k] = candidates[k]
        /\ candidates'[Len(candidates) + 1] = m
    BY <1>1, <1>3
  <2>3. \A j, k \in DOMAIN candidates' :
          Fold(candidates'[j].id) = Fold(candidates'[k].id) => j = k
    BY <2>1, <2>2 DEF PublishedInv
  <2>. QED
    BY <1>1, <2>3 DEF PublishedInv
<1>. QED
  BY <1>2, <1>3 DEF Collect

\* The names of the next candidate join those that are in the table, and none
\* is ever taken out.
LEMMA PublishAdds == IInv /\ PublishedInv /\ Publish => PublishedInv'
<1>. SUFFICES ASSUME IInv, PublishedInv, Publish PROVE PublishedInv'
  OBVIOUS
<1>1. /\ pc = "publish" /\ pc' = pc /\ next \in DOMAIN candidates /\ next' = next + 1
      /\ UNCHANGED candidates
      /\ DOMAIN candidates \subseteq Nat /\ next \in Nat
  BY DEF Publish, IInv, TypeOK
<1>2. /\ DOMAIN aliases \subseteq DOMAIN aliases'
      /\ IsUnique(next) => PublicNames(candidates[next]) \subseteq DOMAIN aliases'
  BY DEF Publish, PublishBoth, Skip, Put, PublicNames
<1>3. ASSUME NEW k \in DOMAIN candidates, IsUnique(k), k < next + 1
      PROVE  PublicNames(candidates[k]) \subseteq DOMAIN aliases'
  <2>1. k < next \/ k = next
    BY <1>1, <1>3
  <2>. QED
    BY <1>1, <1>2, <1>3, <2>1 DEF PublishedInv
<1>4. \A k \in DOMAIN candidates : IsUnique(k) <=> IsUnique(k)'
  BY <1>1 DEF IsUnique
<1>5. \A k \in DOMAIN candidates : PublicNames(candidates[k])' = PublicNames(candidates[k])
  BY <1>1 DEF PublicNames
<1>. QED
  BY <1>1, <1>3, <1>4, <1>5 DEF PublishedInv

LEMMA NextPublished == IInv /\ PublishedInv /\ [Next]_vars => PublishedInv'
<1>. SUFFICES ASSUME IInv, PublishedInv, [Next]_vars PROVE PublishedInv'
  OBVIOUS
<1>1. ASSUME Collected PROVE PublishedInv'
  <2>1. /\ pc' = "publish" /\ next' = 1 /\ UNCHANGED candidates
        /\ \A k \in DOMAIN candidates : ~(k < 1)
    BY <1>1 DEF Collected, lists, IInv, TypeOK
  <2>. QED
    BY <2>1 DEF PublishedInv
<1>2. ASSUME Published PROVE PublishedInv'
  <2>1. /\ pc = "publish" /\ pc' = "ready" /\ UNCHANGED <<candidates, aliases>>
        /\ \A k \in DOMAIN candidates : k < next
    BY <1>2 DEF Published, lists, IInv, TypeOK
  <2>. QED
    BY <2>1 DEF PublishedInv, IsUnique, PublicNames
<1>3. ASSUME UNCHANGED <<pc, next, candidates, aliases>> PROVE PublishedInv'
  BY <1>3 DEF PublishedInv, IsUnique, PublicNames
<1>4. ASSUME pc \notin {"collect", "publish"}, pc' \notin {"collect", "publish"},
             UNCHANGED <<candidates, aliases>>
      PROVE  PublishedInv'
  BY <1>4 DEF PublishedInv, IsUnique, PublicNames
<1>5. ASSUME NEW n \in Asked, NEW e \in Effort \cup {None}, Ask(n, e) PROVE PublishedInv'
  BY <1>4, <1>5 DEF Ask, lists
<1>6. ASSUME NEW n, Answer(n) PROVE PublishedInv'
  BY <1>4, <1>6 DEF Answer, lists
<1>. QED
  BY <1>1, <1>2, <1>3, <1>5, <1>6, CollectDistinct, PublishAdds DEF Next, vars, lists

LEMMA AlwaysPublished == Spec => []PublishedInv
<1>1. Init => PublishedInv
  BY DEF Init, PublishedInv
<1>. QED
  BY <1>1, NextPublished, AlwaysIInv, PTL DEF Spec

\* The model at i on the list, if its alias is no other model's, has a candidate
\* of its own with a unique alias.
LEMMA UniqueHasCandidate ==
  ASSUME IInv, PublishedInv, pc # "collect",
         NEW i \in DOMAIN upstream, Exposed(upstream[i]), HasAlias(upstream[i]),
         \A j \in DOMAIN upstream :
           Exposed(upstream[j])
             /\ Fold(modelAlias(upstream[j].id)) = Fold(modelAlias(upstream[i].id))
           => Fold(upstream[j].id) = Fold(upstream[i].id)
  PROVE  \E k \in DOMAIN candidates :
           IsUnique(k) /\ Fold(candidates[k].id) = Fold(upstream[i].id)
<1>1. /\ upstream[i].id \in Name
      /\ \A k \in DOMAIN candidates : candidates[k].id \in Name
  BY ListedType DEF IInv, TypeOK
<1>2. Fold(upstream[i].id) \in seenNative
  BY DEF IInv, CollectInv
<1>3. ASSUME NEW m \in Listed, Fold(m.id) = Fold(upstream[i].id), IsBlank(modelAlias(m.id))
      PROVE  FALSE
  <2>1. Fold(modelAlias(m.id)) = Fold(modelAlias(upstream[i].id))
    BY <1>1, <1>3, ListedType, FoldAlias
  <2>. QED
    BY <1>1, <1>3, <2>1, ListedType, AliasType, FoldBlank DEF HasAlias
<1>4. PICK k \in DOMAIN candidates : Fold(candidates[k].id) = Fold(upstream[i].id)
  BY <1>2, <1>3 DEF IInv, CollectInv
<1>5. Fold(modelAlias(candidates[k].id)) = Fold(modelAlias(upstream[i].id))
  BY <1>1, <1>4, FoldAlias
<1>6. ASSUME NEW l \in DOMAIN candidates \ {k},
             Fold(modelAlias(candidates[l].id)) = Fold(modelAlias(candidates[k].id))
      PROVE  FALSE
  <2>1. PICK j \in DOMAIN upstream : Exposed(upstream[j]) /\ upstream[j] = candidates[l]
    BY DEF IInv, EntriesInv
  <2>2. Fold(candidates[l].id) = Fold(candidates[k].id)
    BY <1>4, <1>5, <1>6, <2>1
  <2>. QED
    BY <2>2 DEF PublishedInv
<1>. QED
  BY <1>4, <1>6 DEF IsUnique

\* Whatever OpenRouter lists, only ambiguous aliases are left out.
THEOREM NamesUniqueIsPublished == Spec => []UniqueIsPublished
<1>1. IInv /\ PublishedInv => UniqueIsPublished
  <2>. SUFFICES ASSUME IInv, PublishedInv, pc \notin {"collect", "publish"},
                       NEW i \in DOMAIN upstream,
                       Exposed(upstream[i]), HasAlias(upstream[i]),
                       \A j \in DOMAIN upstream :
                         Exposed(upstream[j])
                           /\ Fold(modelAlias(upstream[j].id))
                                = Fold(modelAlias(upstream[i].id))
                         => Fold(upstream[j].id) = Fold(upstream[i].id)
                PROVE  /\ PublicNames(upstream[i]) \subseteq DOMAIN aliases
                       /\ upstream[i].id.nitro = 0 =>
                            Fold(aliases[Fold(modelAlias(upstream[i].id))])
                              = Fold(upstream[i].id)
    BY DEF UniqueIsPublished
  <2>. DEFINE key == Fold(modelAlias(upstream[i].id))
  <2>1. PICK k \in DOMAIN candidates :
          IsUnique(k) /\ Fold(candidates[k].id) = Fold(upstream[i].id)
    BY UniqueHasCandidate
  <2>2. upstream[i].id \in Name /\ candidates[k].id \in Name
    BY ListedType DEF IInv, TypeOK
  <2>3. Fold(modelAlias(candidates[k].id)) = key
    BY <2>1, <2>2, FoldAlias
  <2>4. Fold(Nitro(modelAlias(candidates[k].id))) = Fold(Nitro(modelAlias(upstream[i].id)))
    BY <2>2, <2>3, AliasType, NitroFacts
  <2>5. PublicNames(upstream[i]) \subseteq DOMAIN aliases
    BY <2>1, <2>3, <2>4 DEF PublishedInv, PublicNames
  <2>6. ASSUME upstream[i].id.nitro = 0 PROVE Fold(aliases[key]) = Fold(upstream[i].id)
    <3>1. key \in DOMAIN aliases /\ key.nitro = 0
      BY <2>5, <2>6 DEF PublicNames, Fold, modelAlias
    <3>2. PICK j \in DOMAIN candidates : aliases[key] = candidates[j].id
      BY <3>1 DEF IInv, TableInv
    <3>3. Fold(modelAlias(candidates[j].id)) = key
      BY <3>1, <3>2 DEF IInv, TableInv
    <3>4. j = k
      BY <2>1, <2>3, <3>3 DEF IsUnique
    <3>. QED
      BY <2>1, <3>2, <3>4
  <2>. QED
    BY <2>5, <2>6
<1>. QED
  BY <1>1, AlwaysIInv, AlwaysPublished, PTL
=============================================================================
