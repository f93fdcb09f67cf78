-------------------------- MODULE SseDecoderProofs --------------------------
(***************************************************************************)
(* For every response and every way to cut it: the frames are what lies    *)
(* between its blank lines, none waits for a later chunk, and the decoder  *)
(* implements Relay.                                                       *)
(***************************************************************************)
EXTENDS SseDecoder, TLAPS, WellFoundedInduction

\* Every set of naturals that is not empty has a least element.
LEMMA Least ==
  ASSUME NEW T \in SUBSET Nat, T # {}
  PROVE  \E x \in T : \A y \in T : ~(y < x)
<1>. DEFINE Below == OpToRel(<, Nat)
<1>1. IsWellFoundedOn(Below, Nat)
  BY NatLessThanWellFounded
<1>2. \A x, y \in Nat : y < x => <<y, x>> \in Below
  BY DEF OpToRel
<1>. HIDE DEF Below
<1>3. \E x \in T : \A y \in T : ~(<<y, x>> \in Below)
  BY <1>1, WFMin
<1>. QED
  BY <1>2, <1>3

\* Induction, over sets.
LEMMA Induction ==
  ASSUME NEW S, 0 \in S, \A n \in Nat : n \in S => n + 1 \in S
  PROVE  Nat \subseteq S
<1>. SUFFICES ASSUME Nat \ S # {} PROVE FALSE
  OBVIOUS
<1>1. PICK x \in Nat \ S : \A y \in Nat \ S : ~(y < x)
  BY Least
<1>2. x # 0 /\ x - 1 \in Nat /\ (x - 1) + 1 = x
  BY <1>1
<1>3. x - 1 \in S
  BY <1>1, <1>2
<1>. QED
  BY <1>1, <1>2, <1>3

-----------------------------------------------------------------------------
(* The frames of a text.                                                    *)

\* A frame ends after its beginning, and at the first blank line complete by
\* then, if there is one.
LEMMA FrameEndFacts ==
  ASSUME Len(text) \in Nat, NEW a \in 0..(Len(text) - 1)
  PROVE  /\ FrameEnd(a) \in (a + 1)..Len(text)
         /\ \A b \in (a + 1)..Len(text) :
              /\ \A c \in (a + 1)..(b - 1) : ~Completes(text, a, c)
              /\ Completes(text, a, b) \/ b = Len(text)
              => FrameEnd(a) = b
<1>. DEFINE found == {b \in (a + 1)..Len(text) : Completes(text, a, b)}
            First(b) == b \in found /\ \A c \in found : b <= c
<1>1. CASE found = {}
  <2>1. FrameEnd(a) = Len(text)
    BY <1>1 DEF FrameEnd
  <2>. QED
    BY <1>1, <2>1
<1>2. CASE found # {}
  <2>0. found \in SUBSET Nat
    OBVIOUS
  <2>. HIDE DEF found
  <2>1. PICK x \in found : \A y \in found : ~(y < x)
    BY <1>2, <2>0, Least
  <2>2. First(x)
    BY <2>0, <2>1
  <2>3. FrameEnd(a) = CHOOSE b \in found : \A c \in found : b <= c
    BY <1>2 DEF FrameEnd, found
  <2>4. First(FrameEnd(a))
    BY <2>2, <2>3
  <2>5. ASSUME NEW b \in (a + 1)..Len(text),
               \A c \in (a + 1)..(b - 1) : ~Completes(text, a, c),
               Completes(text, a, b) \/ b = Len(text)
        PROVE  FrameEnd(a) = b
    <3>1. FrameEnd(a) >= b
      BY <2>4, <2>5 DEF found
    <3>2. FrameEnd(a) <= b
      BY <2>4, <2>5 DEF found
    <3>. QED
      BY <2>4, <3>1, <3>2 DEF found
  <2>. QED
    BY <2>4, <2>5 DEF found
<1>. QED
  BY <1>1, <1>2

\* g is the table of the frames after a position, from position l on.
IsAfter(g, l) ==
  /\ g \in [l..Len(text) -> SUBSET Nat]
  /\ \A a \in l..Len(text) :
       g[a] = IF a = Len(text) THEN {} ELSE {FrameEnd(a)} \cup g[FrameEnd(a)]

\* There is such a table, built from the end of the text.
LEMMA AfterExists ==
  ASSUME Len(text) \in Nat
  PROVE  \E g : IsAfter(g, 0)
<1>. DEFINE n == Len(text)
            S == {m \in Nat : m <= n => \E g : IsAfter(g, n - m)}
<1>1. 0 \in S
  <2>1. IsAfter([a \in n..n |-> {}], n)
    BY DEF IsAfter
  <2>. QED
    BY <2>1
<1>2. ASSUME NEW m \in Nat, m \in S PROVE m + 1 \in S
  <2>. SUFFICES ASSUME m + 1 <= n PROVE \E g : IsAfter(g, n - (m + 1))
    OBVIOUS
  <2>1. m <= n
    OBVIOUS
  <2>2. PICK g : IsAfter(g, n - m)
    BY <1>2, <2>1
  <2>. DEFINE l == n - (m + 1)
              e == FrameEnd(l)
              h == [a \in l..n |-> IF a = l THEN {e} \cup g[e] ELSE g[a]]
  <2>3. n \in Nat /\ l \in 0..(n - 1) /\ l + 1 = n - m /\ l \in Nat
    OBVIOUS
  <2>. HIDE DEF l, n
  <2>4. e \in (l + 1)..n /\ e \in Nat
    BY <2>3, FrameEndFacts DEF n
  <2>5. g[e] \in SUBSET Nat
    BY <2>2, <2>3, <2>4 DEF IsAfter, n, n
  <2>. HIDE DEF e
  <2>6. \A a \in (l + 1)..n : h[a] = g[a] /\ a # l
    BY <2>3
  <2>7. h \in [l..n -> SUBSET Nat]
    <3>1. \A a \in l..n : a = l \/ a \in (l + 1)..n
      BY <2>3
    <3>2. \A a \in (l + 1)..n : g[a] \in SUBSET Nat
      BY <2>2, <2>3 DEF IsAfter, n
    <3>. QED
      BY <2>4, <2>5, <3>1, <3>2
  <2>8. ASSUME NEW a \in l..n
        PROVE  h[a] = IF a = n THEN {} ELSE {FrameEnd(a)} \cup h[FrameEnd(a)]
    <3>1. CASE a = l
      <4>1. h[e] = g[e]
        BY <2>4, <2>6
      <4>2. l \in l..n /\ l # n
        BY <2>3
      <4>3. h[l] = {e} \cup h[e]
        BY <4>1, <4>2
      <4>. QED
        BY <3>1, <4>2, <4>3 DEF e
    <3>2. CASE a = n /\ a # l
      BY <2>2, <2>3, <2>6, <3>2 DEF IsAfter, n
    <3>3. CASE a # l /\ a # n
      <4>1. a \in (l + 1)..n /\ a \in 0..(n - 1)
        BY <2>3, <3>3
      <4>2. FrameEnd(a) \in (l + 1)..n
        BY <2>3, <4>1, FrameEndFacts DEF n
      <4>. QED
        BY <2>2, <2>3, <2>6, <3>3, <4>1, <4>2 DEF IsAfter, n
    <3>. QED
      BY <3>1, <3>2, <3>3
  <2>9. IsAfter(h, l)
    BY <2>7, <2>8 DEF IsAfter, n
  <2>. QED
    BY <2>9 DEF l
<1>. HIDE DEF S
<1>3. n \in S
  BY <1>1, <1>2, Induction
<1>4. n - n = 0
  OBVIOUS
<1>. QED
  BY <1>3, <1>4 DEF S

\* What the recursive definition of After computes.
LEMMA AfterSteps ==
  ASSUME Len(text) \in Nat
  PROVE  \A a \in 0..Len(text) :
           After[a] = IF a = Len(text) THEN {}
                      ELSE {FrameEnd(a)} \cup After[FrameEnd(a)]
<1>1. PICK g : IsAfter(g, 0)
  BY AfterExists
<1>2. g = [a \in 0..Len(text) |->
             IF a = Len(text) THEN {} ELSE {FrameEnd(a)} \cup g[FrameEnd(a)]]
  BY <1>1 DEF IsAfter
<1>3. After = [a \in 0..Len(text) |->
                 IF a = Len(text) THEN {}
                 ELSE {FrameEnd(a)} \cup After[FrameEnd(a)]]
  BY <1>2 DEF After
<1>. QED
  BY <1>3

\* The frames after a position end after it.
LEMMA AfterIsLater ==
  ASSUME Len(text) \in Nat, NEW a \in 0..Len(text)
  PROVE  After[a] \subseteq (a + 1)..Len(text)
<1>. DEFINE n == Len(text)
            S == {m \in Nat : \A b \in 0..n : n - b <= m => After[b] \subseteq (b + 1)..n}
<1>1. 0 \in S
  <2>1. \A b \in 0..n : n - b <= 0 => b = n
    OBVIOUS
  <2>2. n \in 0..n
    OBVIOUS
  <2>3. After[n] = {}
    BY <2>2, AfterSteps
  <2>. QED
    BY <2>1, <2>3
<1>2. ASSUME NEW m \in Nat, m \in S PROVE m + 1 \in S
  <2>. SUFFICES ASSUME NEW b \in 0..n, n - b <= m + 1
                PROVE  After[b] \subseteq (b + 1)..n
    OBVIOUS
  <2>1. CASE b = n
    BY <2>1, AfterSteps
  <2>2. CASE b # n
    <3>1. b \in 0..(n - 1)
      BY <2>2
    <3>2. FrameEnd(b) \in (b + 1)..n
      BY <3>1, FrameEndFacts
    <3>3. FrameEnd(b) \in 0..n /\ n - FrameEnd(b) <= m
      BY <3>2
    <3>4. After[FrameEnd(b)] \subseteq (FrameEnd(b) + 1)..n
      BY <1>2, <3>3
    <3>5. (FrameEnd(b) + 1)..n \subseteq (b + 1)..n
      BY <3>2
    <3>6. After[b] = {FrameEnd(b)} \cup After[FrameEnd(b)]
      BY <2>2, AfterSteps
    <3>. QED
      BY <3>2, <3>4, <3>5, <3>6
  <2>. QED
    BY <2>1, <2>2
<1>. HIDE DEF S
<1>3. n \in S
  BY <1>1, <1>2, Induction
<1>. QED
  BY <1>3 DEF S

\* The frames depend on the text only.
LEMMA AfterIsFixed == text' = text => After' = After /\ FrameEnds' = FrameEnds
<1>. SUFFICES ASSUME text' = text PROVE After' = After
  BY DEF FrameEnds
<1>1. \A a : FrameEnd(a)' = FrameEnd(a)
  BY DEF FrameEnd, Completes
<1>. QED
  BY <1>1 DEF After

-----------------------------------------------------------------------------

\* The two positions of the buffer that Completes and the indexes speak of.
LEMMA IndexesComplete ==
  ASSUME TypeOK, NEW b \in (start + 1)..fed
  PROVE  Completes(text, start, b) <=> b - 1 \in LfIndexes \/ b - 3 \in CrlfIndexes
BY DEF TypeOK, Completes, LfIndexes, CrlfIndexes

\* The blank line that begins first is the one complete first.
LEMMA FirstIsComplete ==
  ASSUME TypeOK, NEW i \in LfIndexes \cup CrlfIndexes, NEW length \in {2, 4},
         nextFrameDelimiter(i, length)
  PROVE  LET b == i + length - 1
         IN  /\ b \in (start + 1)..fed
             /\ Completes(text, start, b)
             /\ \A c \in (start + 1)..(b - 1) : ~Completes(text, start, c)
<1>. DEFINE b == i + length - 1
<1>1. i \in Nat /\ start \in Nat /\ fed \in Nat
  BY DEF TypeOK, LfIndexes, CrlfIndexes
<1>2. b \in (start + 1)..fed /\ Completes(text, start, b)
  <2>1. CASE i \in LfIndexes
    BY <1>1, <2>1 DEF nextFrameDelimiter, LfIndexes, Completes
  <2>2. CASE i \notin LfIndexes
    BY <1>1, <2>2 DEF nextFrameDelimiter, CrlfIndexes, Completes
  <2>. QED
    BY <2>1, <2>2
<1>3. SUFFICES ASSUME NEW c \in (start + 1)..(b - 1), Completes(text, start, c)
               PROVE  FALSE
  BY <1>2
<1>4. c \in (start + 1)..fed
  BY <1>1, <1>2
<1>5. CASE c - 3 \in CrlfIndexes
  BY <1>1, <1>5 DEF nextFrameDelimiter
<1>6. CASE c - 1 \in LfIndexes
  <2>1. i <= c - 1
    BY <1>6 DEF nextFrameDelimiter
  <2>2. i \notin LfIndexes /\ length = 4 /\ i \in CrlfIndexes
    BY <1>1, <2>1 DEF nextFrameDelimiter
  <2>3. c - 1 = i + 1
    BY <1>1, <1>6, <2>1, <2>2
  <2>4. text[i + 2] = CR /\ text[i + 2] = LF
    BY <1>1, <1>6, <2>2, <2>3 DEF LfIndexes, CrlfIndexes
  <2>. QED
    BY <2>4 DEF CR, LF
<1>. QED
  BY <1>3, <1>4, <1>5, <1>6, IndexesComplete

\* Appending a position to those of the frames.
LEMMA AppendFacts ==
  ASSUME TypeOK, NEW b \in 1..Len(text), ends' = Append(ends, b)
  PROVE  /\ ends' \in Seq(1..Len(text))
         /\ Len(ends) \in Nat
         /\ Len(ends') = Len(ends) + 1
         /\ DOMAIN ends' = 1..(Len(ends) + 1)
         /\ DOMAIN ends = 1..Len(ends)
         /\ ends'[Len(ends) + 1] = b
         /\ \A j \in 1..Len(ends) : ends'[j] = ends[j]
         /\ ends' # << >>
         /\ ends = << >> <=> Len(ends) = 0
BY DEF TypeOK

\* The initial states satisfy the inductive invariant.
LEMMA InitIInv == Init => IInv
<1>. SUFFICES ASSUME Init PROVE IInv
  OBVIOUS
<1>1. text \in Seq(STRING) /\ Len(text) \in Nat
  BY ResponsesAssumption DEF Init
<1>2. ends = << >> /\ ends \in Seq(1..Len(text)) /\ DOMAIN ends = {}
  BY DEF Init
<1>3. DueInv
  BY <1>2 DEF Init, DueInv, FrameEnds, Range
<1>. QED
  BY <1>1, <1>2, <1>3
  DEF Init, IInv, TypeOK, BufferInv, FramesAreWhole, NothingIsWithheld

\* The frame that begins with the buffer is the first of those due.
LEMMA NextDue ==
  ASSUME IInv, NEW b \in (start + 1)..fed,
         Completes(text, start, b) \/ b = Len(text),
         \A c \in (start + 1)..(b - 1) : ~Completes(text, start, c)
  PROVE  /\ b \in After[start]
         /\ After[start] = {b} \cup After[b]
         /\ \A c \in After[start] : b <= c
<1>1. /\ Len(text) \in Nat /\ start \in 0..(Len(text) - 1) /\ start \in 0..Len(text)
      /\ b \in (start + 1)..Len(text) /\ b \in 0..Len(text) /\ start # Len(text)
  BY DEF IInv, TypeOK
<1>2. FrameEnd(start) = b
  BY <1>1, FrameEndFacts
<1>3. After[start] = {b} \cup After[b]
  BY <1>1, <1>2, AfterSteps
<1>4. After[b] \subseteq (b + 1)..Len(text)
  BY <1>1, AfterIsLater
<1>. QED
  BY <1>1, <1>3, <1>4

\* Taking it out keeps the frames taken out and the frames due together.
LEMMA TakeDue ==
  ASSUME IInv, NEW b \in (start + 1)..fed,
         Completes(text, start, b) \/ b = Len(text),
         \A c \in (start + 1)..(b - 1) : ~Completes(text, start, c),
         ends' = Append(ends, b), start' = b, text' = text
  PROVE  DueInv'
<1>1. b \in 1..Len(text) /\ start \in Nat /\ start <= b
  BY DEF IInv, TypeOK
<1>2. /\ Len(ends) \in Nat
      /\ DOMAIN ends' = 1..(Len(ends) + 1) /\ DOMAIN ends = 1..Len(ends)
      /\ ends'[Len(ends) + 1] = b
      /\ \A j \in 1..Len(ends) : ends'[j] = ends[j]
  BY <1>1, AppendFacts DEF IInv
<1>3. DOMAIN ends' = DOMAIN ends \cup {Len(ends) + 1}
  BY <1>2
<1>4. Range(ends') = Range(ends) \cup {b}
  BY <1>2, <1>3 DEF Range
<1>5. \A j \in DOMAIN ends' : ends'[j] <= b
  <2>1. \A j \in DOMAIN ends : ends[j] \in Nat /\ ends[j] <= start
    BY DEF IInv, TypeOK, DueInv
  <2>. QED
    BY <1>1, <1>2, <1>3, <2>1
<1>6. FrameEnds = Range(ends') \cup After[b]
  BY <1>4, NextDue DEF IInv, DueInv
<1>. QED
  BY <1>5, <1>6, AfterIsFixed DEF DueInv

\* Nothing else concerns them.
LEMMA KeepDue == DueInv /\ UNCHANGED <<text, start, ends>> => DueInv'
BY AfterIsFixed DEF DueInv

\* A frame that goes from the start of the buffer to b.
LEMMA NextFrame ==
  ASSUME IInv, NEW b \in (start + 1)..fed, pc \in {"scan", "flush"},
         ends' = Append(ends, b), start' = b, UNCHANGED <<text, fed>>,
         \/ pc' = pc /\ Completes(text, start, b)
         \/ pc' = "close" /\ b = Len(text),
         \A c \in (start + 1)..(b - 1) : ~Completes(text, start, c)
  PROVE  (start = IF ends = << >> THEN 0 ELSE ends[Len(ends)])'
         /\ ends' \in Seq(1..Len(text)) /\ FramesAreWhole'
<1>1. b \in 1..Len(text) /\ start \in Nat /\ fed \in Nat /\ Len(text) \in Nat
  BY DEF IInv, TypeOK
<1>. DEFINE n == Len(ends)
<1>2. /\ ends' \in Seq(1..Len(text))
      /\ n \in Nat /\ Len(ends') = n + 1
      /\ DOMAIN ends' = 1..(n + 1) /\ DOMAIN ends = 1..n
      /\ ends'[n + 1] = b
      /\ \A j \in 1..n : ends'[j] = ends[j]
      /\ ends' # << >>
      /\ ends = << >> <=> n = 0
  BY <1>1, AppendFacts DEF IInv
<1>3. ASSUME NEW j \in 1..(n + 1), NEW a, a = IF j = 1 THEN 0 ELSE ends'[j - 1]
      PROVE  /\ a < ends'[j]
             /\ \/ Completes(text, a, ends'[j])
                \/ j = n + 1 /\ ends'[j] = Len(text) /\ pc' \in {"close", "done"}
             /\ \A c \in (a + 1)..(ends'[j] - 1) : ~Completes(text, a, c)
  <2>1. CASE j = n + 1
    <3>1. a = start
      <4>1. CASE n = 0
        BY <1>2, <1>3, <2>1, <4>1 DEF IInv, BufferInv
      <4>2. CASE n # 0
        <5>1. n \in 1..n /\ j # 1 /\ j - 1 = n
          BY <1>2, <2>1, <4>2
        <5>2. a = ends[n] /\ start = ends[n]
          BY <1>2, <1>3, <5>1 DEF IInv, BufferInv
        <5>. QED
          BY <5>2
      <4>. QED
        BY <4>1, <4>2
    <3>. QED
      BY <1>1, <1>2, <2>1, <3>1
  <2>2. CASE j # n + 1
    <3>1. j \in 1..n /\ ends'[j] = ends[j] /\ (j # 1 => ends'[j - 1] = ends[j - 1])
      BY <1>2, <2>2
    <3>2. a = IF j = 1 THEN 0 ELSE ends[j - 1]
      BY <1>3, <3>1
    <3>3. pc \notin {"close", "done"} /\ j \in DOMAIN ends
      BY <1>2, <3>1
    <3>. QED
      BY <3>1, <3>2, <3>3 DEF IInv, FramesAreWhole
  <2>. QED
    BY <2>1, <2>2
<1>4. FramesAreWhole'
  <2>. SUFFICES ASSUME NEW j \in DOMAIN ends'
                PROVE  LET a == IF j = 1 THEN 0 ELSE ends'[j - 1]
                       IN  /\ a < ends'[j]
                           /\ \/ Completes(text', a, ends'[j])
                              \/ /\ j = Len(ends') /\ ends'[j] = Len(text')
                                 /\ pc' \in {"close", "done"}
                           /\ \A c \in (a + 1)..(ends'[j] - 1) :
                                ~Completes(text', a, c)
    BY DEF FramesAreWhole
  <2>1. j \in 1..(n + 1) /\ Len(ends') = n + 1 /\ text' = text
    BY <1>2
  <2>. HIDE DEF n
  <2>. QED
    BY <2>1, <1>3
<1>. QED
  BY <1>2, <1>4

\* Every step preserves the invariant.
LEMMA NextIInv == IInv /\ [Next]_vars => IInv'
<1>. SUFFICES ASSUME IInv, [Next]_vars PROVE IInv'
  OBVIOUS
<1>0. /\ Len(text) \in Nat /\ fed \in Nat /\ start \in Nat
  BY DEF IInv, TypeOK
<1>1. CASE Feed
  <2>1. fed' \in 0..Len(text) /\ start \in 0..fed'
    BY <1>0, <1>1 DEF Feed, IInv, TypeOK
  <2>2. FramesAreWhole'
    BY <1>0, <1>1 DEF Feed, IInv, FramesAreWhole
  <2>3. DueInv'
    BY <1>1, KeepDue DEF Feed, IInv
  <2>. QED
    BY <1>0, <1>1, <2>1, <2>2, <2>3
    DEF Feed, IInv, TypeOK, BufferInv, NothingIsWithheld
<1>2. CASE TakeFrame
  <2>1. PICK i \in LfIndexes \cup CrlfIndexes, length \in {2, 4} :
          /\ nextFrameDelimiter(i, length)
          /\ start' = i + length - 1
          /\ ends' = Append(ends, i + length - 1)
    BY <1>2 DEF TakeFrame
  <2>. DEFINE b == i + length - 1
  <2>2. /\ b \in (start + 1)..fed
        /\ Completes(text, start, b)
        /\ \A c \in (start + 1)..(b - 1) : ~Completes(text, start, c)
    BY <2>1, FirstIsComplete DEF IInv
  <2>3. pc = "scan" /\ UNCHANGED <<text, fed, pc>>
    BY <1>2 DEF TakeFrame
  <2>4. /\ (start = IF ends = << >> THEN 0 ELSE ends[Len(ends)])'
        /\ ends' \in Seq(1..Len(text)) /\ FramesAreWhole'
    BY <2>1, <2>2, <2>3, NextFrame
  <2>5. start' = b /\ start' \in 0..fed
    BY <1>0, <2>1, <2>2
  <2>6. TypeOK'
    BY <2>3, <2>4, <2>5 DEF IInv, TypeOK
  <2>7. BufferInv'
    BY <2>3, <2>4 DEF BufferInv
  <2>8. NothingIsWithheld'
    BY <2>3 DEF NothingIsWithheld
  <2>9. DueInv'
    BY <2>1, <2>2, <2>3, TakeDue
  <2>. QED
    BY <2>4, <2>6, <2>7, <2>8, <2>9 DEF IInv
<1>3. CASE FeedReturns
  <2>1. \A b \in (start + 1)..fed : ~Completes(text, start, b)
    BY <1>3, IndexesComplete DEF FeedReturns, IInv
  <2>2. FramesAreWhole'
    BY <1>0, <1>3 DEF FeedReturns, IInv, FramesAreWhole
  <2>3. DueInv'
    BY <1>3, KeepDue DEF FeedReturns, IInv
  <2>. QED
    BY <1>0, <1>3, <2>1, <2>2, <2>3
    DEF FeedReturns, IInv, TypeOK, BufferInv, NothingIsWithheld
<1>4. CASE Flush
  <2>0. pc = "flush" /\ pc' = "close" /\ start' = fed /\ fed = Len(text)
        /\ UNCHANGED <<text, fed>>
    BY <1>4 DEF Flush, IInv, BufferInv
  <2>1. CASE start < fed
    <3>1. ends' = Append(ends, fed) /\ fed \in (start + 1)..fed
      BY <1>0, <1>4, <2>1 DEF Flush
    <3>2. \A c \in (start + 1)..(fed - 1) : ~Completes(text, start, c)
      BY <1>0, <2>0 DEF IInv, NothingIsWithheld
    <3>3. /\ (start = IF ends = << >> THEN 0 ELSE ends[Len(ends)])'
          /\ ends' \in Seq(1..Len(text)) /\ FramesAreWhole'
      BY <2>0, <3>1, <3>2, NextFrame
    <3>4. DueInv'
      BY <2>0, <3>1, <3>2, TakeDue
    <3>. QED
      BY <1>0, <2>0, <3>3, <3>4 DEF IInv, TypeOK, BufferInv, NothingIsWithheld
  <2>2. CASE ~(start < fed)
    <3>1. UNCHANGED ends /\ start' = start
      BY <1>0, <1>4, <2>0, <2>2 DEF Flush, IInv, TypeOK
    <3>2. FramesAreWhole'
      BY <1>0, <2>0, <3>1 DEF IInv, FramesAreWhole
    <3>3. DueInv'
      BY <2>0, <3>1, KeepDue DEF IInv
    <3>. QED
      BY <1>0, <2>0, <3>1, <3>2, <3>3 DEF IInv, TypeOK, BufferInv, NothingIsWithheld
  <2>. QED
    BY <2>1, <2>2
<1>5. CASE Close
  <2>1. FramesAreWhole'
    BY <1>0, <1>5 DEF Close, IInv, FramesAreWhole
  <2>2. DueInv'
    BY <1>5, KeepDue DEF Close, IInv
  <2>. QED
    BY <1>0, <1>5, <2>1, <2>2 DEF Close, IInv, TypeOK, BufferInv, NothingIsWithheld
<1>6. CASE UNCHANGED vars
  <2>1. FramesAreWhole'
    BY <1>0, <1>6 DEF vars, IInv, FramesAreWhole
  <2>2. DueInv'
    BY <1>6, KeepDue DEF vars, IInv
  <2>. QED
    BY <1>0, <1>6, <2>1, <2>2 DEF vars, IInv, TypeOK, BufferInv, NothingIsWithheld
<1>. QED
  BY <1>1, <1>2, <1>3, <1>4, <1>5, <1>6 DEF Next

\* The invariant holds in every reachable state.
LEMMA AlwaysIInv == Spec => []IInv
<1>. QED
  BY InitIInv, NextIInv, PTL DEF Spec

\* Every variable keeps its type; the buffer is a part of the response.
THEOREM SseTypeCorrect == Spec => []TypeOK
<1>1. IInv => TypeOK
  BY DEF IInv
<1>. QED
  BY <1>1, AlwaysIInv, PTL

\* However the response is cut, the frames are what its blank lines bound.
THEOREM SseFramesAreWhole == Spec => []FramesAreWhole
<1>1. IInv => FramesAreWhole
  BY DEF IInv
<1>. QED
  BY <1>1, AlwaysIInv, PTL

\* No event waits for a chunk after its own, and none is left at the end.
THEOREM SseWithholdsNothing == Spec => []NothingIsWithheld
<1>1. IInv => NothingIsWithheld
  BY DEF IInv
<1>. QED
  BY <1>1, AlwaysIInv, PTL

-----------------------------------------------------------------------------
(* The decoder implements Relay.                                            *)

\* At first nothing is sent, and the frames due are positions of the text.
LEMMA InitRelay == Init => R!Init
<1>. SUFFICES ASSUME Init PROVE R!Init
  OBVIOUS
<1>1. Len(text) \in Nat
  BY ResponsesAssumption DEF Init
<1>2. After[0] \subseteq 1..Len(text)
  BY <1>1, AfterIsLater
<1>. QED
  BY <1>1, <1>2 DEF Init, R!Init, FrameEnds

\* The frames still missing are those that begin in the buffer or later.
LEMMA MissingFrames == IInv => R!Missing = After[start]
<1>. SUFFICES ASSUME IInv PROVE R!Missing = After[start]
  OBVIOUS
<1>1. /\ After[start] \subseteq (start + 1)..Len(text)
      /\ start \in Nat /\ \A j \in DOMAIN ends : ends[j] <= start
  BY AfterIsLater DEF IInv, TypeOK, DueInv
<1>2. \A x \in After[start] : x \notin Range(ends)
  BY <1>1 DEF Range
<1>3. R!Missing = FrameEnds \ Range(ends)
  BY DEF R!Missing, R!Range, Range
<1>. QED
  BY <1>2, <1>3 DEF IInv, DueInv

\* The frame that begins with the buffer is the one Relay sends next.
LEMMA TakeIsSend ==
  ASSUME IInv, pc # "done", pc' # "done", text' = text,
         NEW b \in (start + 1)..fed,
         Completes(text, start, b) \/ b = Len(text),
         \A c \in (start + 1)..(b - 1) : ~Completes(text, start, c),
         ends' = Append(ends, b)
  PROVE  \E f \in FrameEnds : R!Send(f)
<1>1. b \in R!Missing /\ (\A g \in R!Missing : b <= g) /\ b \in FrameEnds
  BY NextDue, MissingFrames DEF IInv, DueInv
<1>2. FrameEnds' = FrameEnds
  BY AfterIsFixed
<1>3. R!Send(b)
  BY <1>1, <1>2 DEF R!Send
<1>. QED
  BY <1>1, <1>3

\* Steps that take no frame and do not close are stutters of Relay.
LEMMA Stutter ==
  UNCHANGED <<text, ends>> /\ (pc = "done" <=> pc' = "done") => UNCHANGED R!vars
<1>. QED
  BY AfterIsFixed DEF R!vars

\* Every step is a step of Relay or a stutter.
LEMMA StepRelay == IInv /\ [Next]_vars => [R!Next]_R!vars
<1>. SUFFICES ASSUME IInv, [Next]_vars PROVE [R!Next]_R!vars
  OBVIOUS
<1>1. CASE Feed \/ FeedReturns \/ UNCHANGED vars
  BY <1>1, Stutter DEF Feed, FeedReturns, vars
<1>2. CASE TakeFrame
  <2>1. PICK i \in LfIndexes \cup CrlfIndexes, length \in {2, 4} :
          /\ nextFrameDelimiter(i, length)
          /\ ends' = Append(ends, i + length - 1)
    BY <1>2 DEF TakeFrame
  <2>. DEFINE b == i + length - 1
  <2>2. /\ b \in (start + 1)..fed
        /\ Completes(text, start, b)
        /\ \A c \in (start + 1)..(b - 1) : ~Completes(text, start, c)
    BY <2>1, FirstIsComplete DEF IInv
  <2>3. pc = "scan" /\ pc' = pc /\ text' = text
    BY <1>2 DEF TakeFrame
  <2>. HIDE DEF b
  <2>4. ends' = Append(ends, b)
    BY <2>1 DEF b
  <2>5. \E f \in FrameEnds : R!Send(f)
    BY <2>2, <2>3, <2>4, TakeIsSend
  <2>. QED
    BY <2>5 DEF R!Next
<1>3. CASE Flush
  <2>1. pc = "flush" /\ pc' = "close" /\ fed = Len(text) /\ text' = text
        /\ start \in Nat /\ fed \in Nat
    BY <1>3 DEF Flush, IInv, BufferInv, TypeOK
  <2>2. CASE start < fed
    <3>1. ends' = Append(ends, fed) /\ fed \in (start + 1)..fed
      BY <1>3, <2>1, <2>2 DEF Flush
    <3>2. \A c \in (start + 1)..(fed - 1) : ~Completes(text, start, c)
      BY <2>1 DEF IInv, NothingIsWithheld
    <3>3. \E f \in FrameEnds : R!Send(f)
      BY <2>1, <3>1, <3>2, TakeIsSend
    <3>. QED
      BY <3>3 DEF R!Next
  <2>3. CASE ~(start < fed)
    BY <1>3, <2>1, <2>3, Stutter DEF Flush
  <2>. QED
    BY <2>2, <2>3
<1>4. CASE Close
  <2>1. pc = "close" /\ pc' = "done" /\ UNCHANGED <<text, ends>>
        /\ start = Len(text) /\ Len(text) \in Nat
    BY <1>4 DEF Close, IInv, NothingIsWithheld, TypeOK
  <2>2. Len(text) \in 0..Len(text)
    BY <2>1
  <2>3. After[start] = {}
    BY <2>1, <2>2, AfterSteps
  <2>4. R!Missing = {}
    BY <2>3, MissingFrames
  <2>5. R!EndClean
    BY <2>1, <2>4, AfterIsFixed DEF R!EndClean
  <2>. QED
    BY <2>5 DEF R!Next
<1>. QED
  BY <1>1, <1>2, <1>3, <1>4 DEF Next

\* However a response is cut, its frames are handed on once each, in the order
\* of the text, and the stream ends after the last: the same for every cut.
THEOREM SseImplementsRelay == Spec => ImplementsRelay
<1>. QED
  BY InitRelay, StepRelay, AlwaysIInv, PTL DEF Spec, ImplementsRelay, R!Spec

-----------------------------------------------------------------------------
(* Frames and events.                                                       *)

\* What has left the buffer is in a frame.
LEMMA InAFrame ==
  ASSUME IInv, NEW p \in 1..start
  PROVE  \E j \in DOMAIN ends :
           /\ p <= ends[j]
           /\ (IF j = 1 THEN 0 ELSE ends[j - 1]) < p
<1>. DEFINE T == {j \in DOMAIN ends : p <= ends[j]}
<1>1. /\ ends \in Seq(1..Len(text)) /\ Len(text) \in Nat /\ start \in Nat
      /\ ends # << >> /\ start = ends[Len(ends)]
  BY DEF IInv, TypeOK, BufferInv
<1>2. T \in SUBSET Nat /\ Len(ends) \in T
  BY <1>1
<1>3. PICK j \in T : \A k \in T : ~(k < j)
  BY <1>2, Least
<1>4. j \in 1..Len(ends) /\ p <= ends[j]
  BY <1>1, <1>3
<1>5. ASSUME j # 1 PROVE ends[j - 1] < p
  <2>1. j - 1 \in 1..Len(ends) /\ j - 1 < j /\ j - 1 \notin T
    BY <1>1, <1>3, <1>4, <1>5
  <2>2. ends[j - 1] \in Nat
    BY <1>1, <2>1
  <2>. QED
    BY <1>1, <2>1, <2>2
<1>. QED
  BY <1>1, <1>4, <1>5

\* Between two lines of one frame there is no blank line: it would be complete
\* before the frame ends.
LEMMA BlankEndsFrame ==
  ASSUME IInv, BlanksMatch, NEW p \in 1..start, NEW q \in 1..start, NEW b \in p..q,
         LineStart(p), ~Blank(p), ~Blank(q), LineStart(b), Blank(b)
  PROVE  \E e \in Range(ends) : p <= e /\ e < q
<1>1. PICK j \in DOMAIN ends :
        p <= ends[j] /\ (IF j = 1 THEN 0 ELSE ends[j - 1]) < p
  BY InAFrame
<1>. DEFINE a == IF j = 1 THEN 0 ELSE ends[j - 1]
<1>2. /\ ends[j] \in Nat /\ a \in Nat /\ a < p /\ start <= Len(text)
      /\ Len(text) \in Nat /\ start \in Nat
  BY <1>1 DEF IInv, TypeOK
<1>3. b # p /\ b # q
  OBVIOUS
<1>4. b \in Nat /\ p < b /\ b < q /\ b <= Len(text)
  BY <1>2, <1>3
<1>5. text[b - 1] = LF /\ b - 1 # p /\ p + 1 < b
  <2>1. text[b - 1] = LF
    BY <1>4 DEF LineStart
  <2>2. text[p] # LF
    BY DEF Blank
  <2>. QED
    BY <1>4, <2>1, <2>2
<1>6. ASSUME q <= ends[j] PROVE FALSE
  <2>1. \A c \in (a + 1)..(ends[j] - 1) : ~Completes(text, a, c)
    BY DEF IInv, FramesAreWhole
  <2>2. CASE text[b] = LF
    <3>1. Completes(text, a, b)
      BY <1>2, <1>4, <1>5, <2>2 DEF Completes
    <3>2. b \in (a + 1)..(ends[j] - 1)
      BY <1>2, <1>4, <1>6
    <3>. QED
      BY <2>1, <3>1, <3>2
  <2>3. CASE text[b] = CR /\ b < Len(text) /\ text[b + 1] = LF
    <3>1. b > 2 /\ text[b - 2] = CR
      BY <1>4, <2>3 DEF BlanksMatch
    <3>2. p # b - 2
      <4>1. SUFFICES ASSUME p = b - 2 PROVE FALSE
        OBVIOUS
      <4>2. p + 1 = b - 1 /\ p < Len(text)
        BY <1>2, <1>4, <4>1
      <4>. QED
        BY <1>5, <3>1, <4>1, <4>2 DEF Blank
    <3>3. a + 4 <= b + 1
      BY <1>2, <1>4, <1>5, <3>2
    <3>4. Completes(text, a, b + 1)
      <4>1. (b + 1) - 3 = b - 2 /\ (b + 1) - 2 = b - 1 /\ (b + 1) - 1 = b
        BY <1>4
      <4>. QED
        BY <1>5, <2>3, <3>1, <3>3, <4>1 DEF Completes
    <3>5. b + 1 # q
      BY <2>3 DEF Blank, LF, CR
    <3>6. b + 1 \in (a + 1)..(ends[j] - 1)
      BY <1>2, <1>4, <1>6, <3>5
    <3>. QED
      BY <2>1, <3>4, <3>6
  <2>. QED
    BY <2>2, <2>3 DEF Blank
<1>. QED
  BY <1>1, <1>2, <1>4, <1>6 DEF Range

\* A frame that ends between two lines ends with a blank line.
LEMMA FrameEndsBlank ==
  ASSUME IInv, NEW p \in 1..start, NEW q \in 1..start, ~Blank(p),
         NEW e \in Range(ends), p <= e, e < q
  PROVE  \E b \in p..q : LineStart(b) /\ Blank(b)
<1>1. PICK j \in DOMAIN ends : e = ends[j]
  BY DEF Range
<1>. DEFINE a == IF j = 1 THEN 0 ELSE ends[j - 1]
<1>2. /\ e \in Nat /\ a \in Nat /\ start <= Len(text) /\ Len(text) \in Nat /\ start \in Nat
  BY <1>1 DEF IInv, TypeOK
<1>3. e < Len(text)
  BY <1>2
<1>4. Completes(text, a, e)
  BY <1>1, <1>2, <1>3 DEF IInv, FramesAreWhole
<1>5. text[e] = LF /\ p # e
  BY <1>4 DEF Completes, Blank
<1>6. CASE text[e - 1] = LF
  BY <1>2, <1>5, <1>6 DEF LineStart, Blank
<1>7. CASE a + 4 <= e /\ text[e - 2] = LF /\ text[e - 1] = CR
  <2>1. e - 1 \in p..q /\ (e - 1) - 1 = e - 2 /\ (e - 1) + 1 = e /\ e - 1 < Len(text)
    BY <1>2, <1>3, <1>5
  <2>. QED
    BY <1>5, <1>7, <2>1 DEF LineStart, Blank
<1>. QED
  BY <1>4, <1>6, <1>7 DEF Completes

\* The frames are the events of the response, for every response whose blank
\* lines end as the lines before them do, and every cut of it.
THEOREM SseFramesAreEvents == Spec => []FramesAreEvents
<1>1. IInv => FramesAreEvents
  <2>. SUFFICES ASSUME IInv PROVE FramesAreEvents
    OBVIOUS
  <2>1. ASSUME NEW j \in DOMAIN ends PROVE ends[j] = Len(text) \/ text[ends[j]] = LF
    BY DEF IInv, FramesAreWhole, Completes
  <2>2. ASSUME BlanksMatch,
               NEW p \in {i \in 1..start : LineStart(i) /\ ~Blank(i)},
               NEW q \in {i \in 1..start : LineStart(i) /\ ~Blank(i)}, p < q
        PROVE  (\E e \in Range(ends) : p <= e /\ e < q)
                  <=> \E b \in p..q : LineStart(b) /\ Blank(b)
    BY <2>2, BlankEndsFrame, FrameEndsBlank
  <2>. QED
    BY <2>1, <2>2 DEF FramesAreEvents
<1>. QED
  BY <1>1, AlwaysIInv, PTL
=============================================================================
