------------------------- MODULE StreamTranslateProofs -------------------------
(***************************************************************************)
(* The translated stream, for every set of tools, every body that conforms *)
(* and every way to cut it into chunks: the content of the lines received  *)
(* is sent once and in order, well bracketed, the end says how the answer  *)
(* ended, and a reader that waits is served.                               *)
(*                                                                         *)
(* A translation is followed line by line (Sound), a chunk is the lines    *)
(* its units end (ChunkStep), and the buffer holds what it left (Pending). *)
(***************************************************************************)
EXTENDS StreamTranslate, TLAPS, FiniteSetTheorems, SequenceTheorems, WellFoundedInduction

-----------------------------------------------------------------------------
(* Numbers: half of the units is the lines *)

\* A number is twice its half, and the rest.
LEMMA Halves ==
  ASSUME NEW n \in Nat
  PROVE  /\ n \div 2 \in Nat /\ n % 2 \in {0, 1}
         /\ n = 2 * (n \div 2) + (n % 2)
  OBVIOUS

\* Every second unit ends a line.
LEMMA HalfBefore ==
  ASSUME NEW j \in Nat, j >= 1
  PROVE  /\ (j - 1) \in Nat /\ ((j - 1) \div 2) \in Nat
         /\ ((j - 1) % 2 = 0) <=> (j % 2 # 0)
         /\ (j % 2 = 0) => (j \div 2) = ((j - 1) \div 2) + 1 /\ ((j + 1) \div 2) = ((j - 1) \div 2) + 1
         /\ (j % 2 # 0) => (j \div 2) = ((j - 1) \div 2)
  OBVIOUS

\* Fewer units hold no more lines.
LEMMA HalfBelow ==
  ASSUME NEW m \in Nat, NEW j \in 0..m
  PROVE  (j \div 2) \in Nat /\ (j \div 2) <= (m \div 2)
  OBVIOUS

\* Of lengths.
LEMMA Transitive ==
  ASSUME NEW a \in Nat, NEW b \in Nat, NEW c \in Nat, a < b, b < c
  PROVE  a < c
  OBVIOUS

\* A set of numbers that is not empty has a least one: what induction rests on here.
LEMMA Least ==
  ASSUME NEW T, T \subseteq Nat, T # {}
  PROVE  \E g \in T : \A t \in T : g <= t
<1> DEFINE R == {ss \in Nat \X Nat : ss[1] < ss[2]}
<1>1. IsWellFoundedOn(R, Nat)
  BY NatLessThanWellFounded, Zenon DEF OpToRel
<1>2. PICK g \in T : \A t \in T : ~(<<t, g>> \in R)
  <2> HIDE DEF R
  <2>1. QED
    BY <1>1, WFMin, Zenon
<1>3. ASSUME NEW t \in T
      PROVE  g <= t
  <2>1. t \in Nat /\ g \in Nat /\ <<t, g>> \notin R
    BY <1>2
  <2>2. ~(t < g)
    BY <2>1
  <2>3. QED
    BY <2>1, <2>2
<1>4. QED
  BY <1>3

\* The values that n steps g reach from a exist.
Steps(S, a, n, g) == \E f \in [0..n -> S] : f[0] = a /\ \A j \in 1..n : f[j] = g[j][f[j - 1]]

\* The values of a function defined by recursion over 0..n exist, and have their type.
LEMMA Recursion ==
  ASSUME NEW S, NEW a \in S, NEW n \in Nat, NEW g \in [1..n -> [S -> S]]
  PROVE  Steps(S, a, n, g)
<1> DEFINE Upto(m) == Steps(S, a, m, g)
<1>1. SUFFICES ASSUME ~Upto(n)
               PROVE  FALSE
  OBVIOUS
<1>2. PICK b \in 0..n : ~Upto(b) /\ \A m \in 0..n : ~Upto(m) => b <= m
  <2> HIDE DEF Upto
  <2> DEFINE Bad == {m \in 0..n : ~Upto(m)}
  <2>1. Bad \subseteq Nat /\ n \in Bad
    BY <1>1
  <2>2. PICK b \in Bad : \A m \in Bad : b <= m
    <3> HIDE DEF Bad
    <3>1. QED
      BY <2>1, Least
  <2>3. QED
    BY <2>2
<1>3. b # 0
  <2> DEFINE f == [j \in 0..0 |-> a]
  <2>1. f \in [0..0 -> S] /\ f[0] = a /\ \A j \in 1..0 : f[j] = g[j][f[j - 1]]
    OBVIOUS
  <2>2. Upto(0)
    <3> HIDE DEF f
    <3>1. QED
      BY <2>1 DEF Steps
  <2>3. QED
    <3> HIDE DEF Upto
    <3>1. QED
      BY <1>2, <2>2
<1>4. b - 1 \in 0..n /\ b \in 1..n /\ Upto(b - 1)
  <2> HIDE DEF Upto
  <2>1. QED
    BY <1>2, <1>3
<1>5. PICK f \in [0..(b - 1) -> S] : f[0] = a /\ \A j \in 1..(b - 1) : f[j] = g[j][f[j - 1]]
  BY <1>4 DEF Steps
<1>6. Upto(b)
  <2> DEFINE h == [j \in 0..b |-> IF j = b THEN g[b][f[b - 1]] ELSE f[j]]
  <2>1. f[b - 1] \in S /\ g[b] \in [S -> S]
    BY <1>4, <1>5
  <2>2. h \in [0..b -> S]
    BY <1>4, <1>5, <2>1
  <2>3. h[0] = a
    BY <1>4, <1>5
  <2>4. ASSUME NEW j \in 1..b
        PROVE  h[j] = g[j][h[j - 1]]
    BY <1>4, <1>5
  <2> HIDE DEF h
  <2>5. QED
    BY <2>2, <2>3, <2>4 DEF Steps
<1>7. QED
  <2> HIDE DEF Upto
  <2>1. QED
    BY <1>2, <1>6

-----------------------------------------------------------------------------
(* The types of a translation *)

Kinds == {"begin", "open", "delta", "close", "end", "fail"}
Items == Tools \cup {Text}
Events == [event : Kinds, item : Items]
Translations == [text : BOOLEAN, tools : Seq(Tools), done : BOOLEAN, events : Seq(Events)]

\* A delta of the text keeps the types (textItemStarted, textStarted).
LEMMA TextDeltaTyped ==
  ASSUME NEW t \in Translations
  PROVE  TextDelta(t) \in Translations
<1>1. Event("open", Text) \in Events /\ Event("delta", Text) \in Events
  BY DEF Event, Events, Kinds, Items
<1>2. t.events \o (IF t.text THEN <<>> ELSE <<Event("open", Text)>>) \o <<Event("delta", Text)>> \in Seq(Events)
  <2> HIDE DEF Event, Events
  <2>1. t.events \in Seq(Events)
    BY DEF Translations
  <2>2. <<>> \in Seq(Events) /\ <<Event("open", Text)>> \in Seq(Events) /\ <<Event("delta", Text)>> \in Seq(Events)
    BY <1>1
  <2>3. QED
    BY <2>1, <2>2
<1>3. QED
  BY <1>2 DEF TextDelta, Translations

\* A tool call keeps the types (toolItems, toolBlocks).
LEMMA ToolDeltaTyped ==
  ASSUME NEW t \in Translations, NEW p \in Payloads, p.item # Text
  PROVE  ToolDelta(t, p) \in Translations
<1>1. p.item \in Tools
  BY DEF Payloads, Line
<1>2. Event("open", p.item) \in Events /\ Event("delta", p.item) \in Events
  BY <1>1 DEF Event, Events, Kinds, Items
<1>3. t.tools \in Seq(Tools) /\ t.events \in Seq(Events)
  BY DEF Translations
<1>4. Append(t.tools, p.item) \in Seq(Tools)
  BY <1>1, <1>3
<1>5. Append(t.events, Event(IF p.kind = "name" THEN "open" ELSE "delta", p.item)) \in Seq(Events)
  BY <1>2, <1>3
<1>6. QED
  BY <1>3, <1>4, <1>5 DEF ToolDelta, Translations

\* One closing event for each tool.
LEMMA OpenedTyped ==
  ASSUME NEW t \in Translations
  PROVE  /\ Opened(t) \in Seq(Events) /\ Len(Opened(t)) = Len(t.tools)
         /\ \A n \in 1..Len(t.tools) : Opened(t)[n] = Event("close", t.tools[n])
<1>1. Len(t.tools) \in Nat /\ \A n \in 1..Len(t.tools) : t.tools[n] \in Tools
  BY DEF Translations
<1>2. \A n \in 1..Len(t.tools) : Event("close", t.tools[n]) \in Events
  BY <1>1 DEF Event, Events, Kinds, Items
<1>3. Opened(t) \in [1..Len(t.tools) -> Events]
  BY <1>2 DEF Opened
<1>4. Opened(t) \in Seq(Events)
  BY <1>1, <1>3, SeqDef
<1>5. Len(Opened(t)) = Len(t.tools)
  BY <1>1, <1>3, <1>4, LenProperties
<1>6. QED
  BY <1>4, <1>5 DEF Opened

\* [DONE] keeps the types.
LEMMA FinishTyped ==
  ASSUME NEW t \in Translations
  PROVE  Finish(t) \in Translations
<1>1. Event("close", Text) \in Events /\ End \in Events
  BY DEF Event, Events, Kinds, Items, End
<1>2. t.events \o (IF t.text THEN <<Event("close", Text)>> ELSE <<>>) \o Opened(t) \o <<End>> \in Seq(Events)
  BY <1>1, OpenedTyped DEF Translations
<1>3. QED
  BY <1>2 DEF Finish, Translations

\* Each line keeps the types.
LEMMA TranslateTyped ==
  ASSUME NEW t \in Translations, NEW p \in Payloads
  PROVE  Translate(t, p) \in Translations
  BY TextDeltaTyped, ToolDeltaTyped, FinishTyped DEF Translate

\* TranslateAll takes the lines of a chunk one after the other.
LEMMA UpTo ==
  ASSUME NEW t \in Translations, NEW u, Len(u) \in Nat,
         \A j \in 1..Len(u) : LineEnds(u, j) => body[u[j].line] \in Payloads
  PROVE  \E f : /\ f[0] = t
                /\ \A j \in 1..Len(u) : f[j] = IF LineEnds(u, j) THEN Translate(f[j - 1], body[u[j].line]) ELSE f[j - 1]
                /\ TranslateAll(t, u) = f[Len(u)]
<1> DEFINE Step(x, j) == IF LineEnds(u, j) THEN Translate(x, body[u[j].line]) ELSE x
           g == [j \in 1..Len(u) |-> [x \in Translations |-> Step(x, j)]]
           Is(f) == f = [j \in 0..Len(u) |->
                          IF j = 0 THEN t
                          ELSE IF LineEnds(u, j) THEN Translate(f[j - 1], body[u[j].line])
                          ELSE f[j - 1]]
           all == CHOOSE f : Is(f)
<1>1. TranslateAll(t, u) = all[Len(u)]
  BY Zenon DEF TranslateAll
<1>2. g \in [1..Len(u) -> [Translations -> Translations]]
  BY TranslateTyped
<1>3. PICK f \in [0..Len(u) -> Translations] : f[0] = t /\ \A j \in 1..Len(u) : f[j] = g[j][f[j - 1]]
  <2> HIDE DEF g
  <2>1. Steps(Translations, t, Len(u), g)
    BY <1>2, Recursion, Zenon
  <2>2. QED
    BY <2>1 DEF Steps
<1>4. Is(f)
  <2>1. ASSUME NEW j \in 1..Len(u)
        PROVE  f[j] = Step(f[j - 1], j)
    <3>1. f[j - 1] \in Translations
      BY <1>3
    <3>2. QED
      BY <1>3, <3>1
  <2>2. QED
    BY <1>3, <2>1
<1>5. Is(all)
  <2> HIDE DEF Is
  <2>1. QED
    BY <1>4
<1>6. all[0] = t /\ \A j \in 1..Len(u) : all[j] = Step(all[j - 1], j)
  <2> HIDE DEF all
  <2>1. QED
    BY <1>5
<1>7. QED
  <2> HIDE DEF all
  <2>1. QED
    BY <1>1, <1>6

-----------------------------------------------------------------------------
(* Well bracketed events *)

\* Where the events of an item are.
Where(e, kind, i) == {j \in 1..Len(e) : e[j] = Event(kind, i)}

\* Opened once, and before the deltas.
Brackets(e) ==
    \A i \in Items :
        /\ \A j, k \in Where(e, "open", i) : j = k
        /\ \A j \in Where(e, "delta", i) : \E k \in Where(e, "open", i) : k < j

\* The events of a stream that goes on.
Going(e) ==
    /\ e # <<>> /\ e[1] = Begin
    /\ \A j \in 1..Len(e) : e[j].event \in {"begin", "open", "delta"}
    /\ Brackets(e)

\* The events of a stream that [DONE] ended.
Complete(e) ==
    /\ e # <<>> /\ e[1] = Begin /\ e[Len(e)] = End
    /\ \A j \in 1..Len(e) : e[j] # Fail /\ (e[j] = End => j = Len(e))
    /\ Brackets(e)
    /\ \A i \in Items :
        /\ \A j \in Where(e, "close", i), k \in Where(e, "delta", i) \cup Where(e, "open", i) : k < j
        /\ Where(e, "open", i) # {} => Where(e, "close", i) # {}

\* Events by their kind and item.
LEMMA EventFacts ==
  /\ \A k, i : Event(k, i).event = k /\ Event(k, i).item = i
  /\ \A k \in Kinds, i \in Items : Event(k, i) \in Events
  /\ Text \in Items /\ Tools \subseteq Items
  /\ \A k, i, l, j : Event(k, i) = Event(l, j) <=> k = l /\ i = j
  /\ Begin = Event("begin", Text) /\ End = Event("end", Text) /\ Fail = Event("fail", Text)
  /\ \A e \in Events : e.event \in Kinds /\ e.item \in Items /\ e = Event(e.event, e.item)
  BY DEF Event, Events, Items, Begin, End, Fail

\* Where the events of an item are after one more event.
LEMMA WhereAppended ==
  ASSUME NEW e \in Seq(Events), NEW k \in Kinds, NEW i \in Items, NEW l, NEW x
  PROVE  Where(Append(e, Event(k, i)), l, x) =
            Where(e, l, x) \cup (IF l = k /\ x = i THEN {Len(e) + 1} ELSE {})
<1> DEFINE f == Append(e, Event(k, i))
<1>1. Event(k, i) \in Events /\ (Event(k, i) = Event(l, x) <=> k = l /\ i = x)
  BY EventFacts
<1>2. Len(f) = Len(e) + 1 /\ Len(e) \in Nat /\ f[Len(e) + 1] = Event(k, i)
      /\ \A j \in 1..Len(e) : f[j] = e[j]
  <2> HIDE DEF Event, Events
  <2>1. QED
    BY <1>1
<1>3. QED
  <2> HIDE DEF f
  <2>1. QED
    BY <1>1, <1>2 DEF Where

\* An open stream stays well bracketed: an item is opened if it was not, and has its
\* deltas after that.
LEMMA GoesOn ==
  ASSUME NEW e \in Seq(Events), Going(e), NEW k \in {"open", "delta"}, NEW i \in Items,
         k = "open" <=> Where(e, "open", i) = {}
  PROVE  LET f == Append(e, Event(k, i)) IN
         /\ f \in Seq(Events) /\ Going(f)
         /\ \A x : Where(f, "open", x) = Where(e, "open", x) \cup (IF k = "open" /\ x = i THEN {Len(e) + 1} ELSE {})
<1> DEFINE f == Append(e, Event(k, i))
<1>1. k \in Kinds /\ Event(k, i) \in Events /\ Event(k, i).event = k
  BY EventFacts DEF Kinds
<1>2. f \in Seq(Events) /\ Len(f) = Len(e) + 1 /\ Len(e) \in Nat /\ f[Len(e) + 1] = Event(k, i)
      /\ \A j \in 1..Len(e) : f[j] = e[j]
  <2> HIDE DEF Event, Events
  <2>1. QED
    BY <1>1
<1>3. \A l, x : Where(f, l, x) = Where(e, l, x) \cup (IF l = k /\ x = i THEN {Len(e) + 1} ELSE {})
  BY WhereAppended, <1>1
<1> HIDE DEF f
<1>4. e # <<>> /\ Len(e) >= 1 /\ e[1] = Begin /\ \A j \in 1..Len(e) : e[j].event \in {"begin", "open", "delta"}
  BY <1>2, EmptySeq DEF Going
<1>5. f # <<>> /\ f[1] = Begin /\ \A j \in 1..Len(f) : f[j].event \in {"begin", "open", "delta"}
  <2>1. f # <<>>
    BY <1>2, <1>4, EmptySeq
  <2>2. f[1] = Begin
    BY <1>2, <1>4
  <2>3. ASSUME NEW j \in 1..Len(f) PROVE f[j].event \in {"begin", "open", "delta"}
    <3>1. CASE j = Len(e) + 1
      BY <3>1, <1>1, <1>2
    <3>2. CASE j \in 1..Len(e)
      BY <3>2, <1>2, <1>4
    <3>3. QED
      BY <3>1, <3>2, <1>2
  <2>4. QED
    BY <2>1, <2>2, <2>3
<1>6. Brackets(f)
  <2>1. \A x, l : Where(e, l, x) \subseteq 1..Len(e)
    BY DEF Where
  <2>2. \A x :
          /\ Where(f, "open", x) = Where(e, "open", x) \cup (IF k = "open" /\ x = i THEN {Len(e) + 1} ELSE {})
          /\ Where(f, "delta", x) = Where(e, "delta", x) \cup (IF k = "delta" /\ x = i THEN {Len(e) + 1} ELSE {})
    BY <1>3
  <2>3. ASSUME NEW x \in Items
        PROVE  /\ \A j, m \in Where(f, "open", x) : j = m
               /\ \A j \in Where(f, "delta", x) : \E m \in Where(f, "open", x) : m < j
    <3>1. /\ \A j, m \in Where(e, "open", x) : j = m
          /\ \A j \in Where(e, "delta", x) : \E m \in Where(e, "open", x) : m < j
      BY DEF Going, Brackets
    <3>2. CASE x # i
      <4>1. Where(f, "open", x) = Where(e, "open", x) /\ Where(f, "delta", x) = Where(e, "delta", x)
        BY <2>2, <3>2
      <4>2. QED
        BY <4>1, <3>1
    <3>3. CASE x = i /\ k = "open"
      <4>1. Where(f, "open", x) = {Len(e) + 1} /\ Where(f, "delta", x) = Where(e, "delta", x)
        BY <2>2, <3>3
      <4>2. Where(e, "delta", x) = {}
        BY <3>1, <3>3
      <4>3. QED
        BY <4>1, <4>2
    <3>4. CASE x = i /\ k = "delta"
      <4>1. Where(f, "open", x) = Where(e, "open", x) /\ Where(f, "delta", x) = Where(e, "delta", x) \cup {Len(e) + 1}
        BY <2>2, <3>4
      <4>2. PICK m \in Where(e, "open", x) : TRUE
        BY <3>4
      <4>3. m < Len(e) + 1
        BY <2>1, <4>2, <1>2
      <4>4. QED
        BY <3>1, <4>1, <4>2, <4>3
    <3>5. QED
      BY <3>2, <3>3, <3>4
  <2>4. QED
    BY <2>3 DEF Brackets
<1>7. \A x : Where(f, "open", x) = Where(e, "open", x) \cup (IF k = "open" /\ x = i THEN {Len(e) + 1} ELSE {})
  BY <1>3
<1>8. Going(f)
  BY <1>5, <1>6 DEF Going
<1>9. QED
  BY <1>2, <1>7, <1>8 DEF f

\* z is x and then y.
Joined(z, x, y) ==
    /\ Len(x) \in Nat /\ Len(y) \in Nat /\ Len(z) = Len(x) + Len(y)
    /\ \A j \in 1..Len(x) : z[j] = x[j]
    /\ \A j \in (Len(x) + 1)..Len(z) : z[j] = y[j - Len(x)]

\* The elements of a concatenation.
LEMMA Joins ==
  ASSUME NEW S, NEW x \in Seq(S), NEW y \in Seq(S)
  PROVE  x \o y \in Seq(S) /\ Joined(x \o y, x, y)
<1>1. Len(x) \in Nat /\ Len(y) \in Nat
  BY LenProperties
<1>2. QED
  BY <1>1, ConcatProperties DEF Joined

\* [DONE] closes everything that is open, after its deltas, and ends the stream; it
\* adds no delta.
LEMMA Finishes ==
  ASSUME NEW t \in Translations, Going(t.events),
         t.text <=> Where(t.events, "open", Text) # {},
         \A i \in Tools : Contains(t.tools, i) <=> Where(t.events, "open", i) # {}
  PROVE  LET f == Finish(t).events IN
         /\ Complete(f) /\ Len(t.events) <= Len(f)
         /\ \A j \in 1..Len(t.events) : f[j] = t.events[j]
         /\ \A j \in (Len(t.events) + 1)..Len(f) : f[j].event # "delta"
<1> DEFINE e == t.events
           c == IF t.text THEN <<Event("close", Text)>> ELSE <<>>
           o == Opened(t)
           f == Finish(t).events
           a == Len(e) + Len(c)
<1>1. /\ e \in Seq(Events) /\ c \in Seq(Events) /\ o \in Seq(Events) /\ End \in Events
      /\ Event("close", Text) \in Events /\ Len(e) \in Nat
  <2>1. Event("close", Text) \in Events /\ End \in Events
    BY EventFacts DEF Kinds
  <2>2. QED
    BY <2>1, OpenedTyped DEF Translations
<1>2. f = e \o c \o o \o <<End>>
  BY DEF Finish, Translations
<1>3. /\ Len(c) = IF t.text THEN 1 ELSE 0
      /\ t.text => c[1] = Event("close", Text)
  BY DEF Translations
<1>4. /\ Len(o) = Len(t.tools)
      /\ \A n \in 1..Len(o) : o[n] = Event("close", t.tools[n]) /\ t.tools[n] \in Tools
  BY OpenedTyped DEF Translations
<1> HIDE DEF c, o, f, e
<1>5. Len(e) \in Nat /\ Len(c) \in Nat /\ Len(o) \in Nat /\ a \in Nat /\ a = Len(e) + Len(c)
  BY <1>1, LenProperties
<1>6. /\ f \in Seq(Events) /\ Len(f) = a + Len(o) + 1
      /\ \A j \in 1..Len(e) : f[j] = e[j]
      /\ \A j \in (Len(e) + 1)..a : f[j] = c[j - Len(e)]
      /\ \A j \in (a + 1)..(a + Len(o)) : f[j] = o[j - a]
      /\ f[Len(f)] = End
  <2>1. <<End>> \in Seq(Events) /\ Len(<<End>>) = 1 /\ <<End>>[1] = End
    BY <1>1
  <2> DEFINE g == e \o c
             h == g \o o
  <2>2. g \in Seq(Events) /\ Joined(g, e, c)
    BY <1>1, Joins
  <2> HIDE DEF g
  <2>3. h \in Seq(Events) /\ Joined(h, g, o)
    BY <1>1, <2>2, Joins
  <2> HIDE DEF h
  <2>4. h \o <<End>> \in Seq(Events) /\ Joined(h \o <<End>>, h, <<End>>)
    BY <2>1, <2>3, Joins
  <2>5. f \in Seq(Events) /\ Joined(f, h, <<End>>)
    BY <1>2, <2>4 DEF g, h
  <2>6. Len(g) = a /\ Len(h) = a + Len(o) /\ Len(f) = a + Len(o) + 1
    <3>1. Len(g) = a
      BY <2>2 DEF Joined
    <3>2. Len(h) = Len(g) + Len(o)
      BY <2>3 DEF Joined
    <3>3. Len(f) = Len(h) + 1
      BY <2>1, <2>5 DEF Joined
    <3>4. QED
      BY <3>1, <3>2, <3>3
  <2> HIDE DEF a
  <2>7. f[Len(f)] = End
    <3>1. Len(f) \in (Len(h) + 1)..Len(f) /\ Len(f) - Len(h) = 1
      BY <1>5, <2>6
    <3>2. f[Len(f)] = <<End>>[Len(f) - Len(h)]
      BY <2>5, <3>1 DEF Joined
    <3>3. QED
      BY <2>1, <3>1, <3>2
  <2>8. \A j \in 1..(a + Len(o)) : f[j] = h[j]
    BY <2>5, <2>6 DEF Joined
  <2>9. \A j \in 1..a : h[j] = g[j]
    BY <2>3, <2>6 DEF Joined
  <2>10. \A j \in (a + 1)..(a + Len(o)) : h[j] = o[j - a]
    BY <2>3, <2>6 DEF Joined
  <2>11. /\ \A j \in 1..Len(e) : g[j] = e[j]
         /\ \A j \in (Len(e) + 1)..a : g[j] = c[j - Len(e)]
    BY <2>2, <2>6 DEF Joined
  <2>12. 1..Len(e) \subseteq 1..a /\ 1..a \subseteq 1..(a + Len(o))
         /\ (Len(e) + 1)..a \subseteq 1..a /\ (a + 1)..(a + Len(o)) \subseteq 1..(a + Len(o))
    BY <1>5, <2>6
  <2>13. \A j \in 1..Len(e) : f[j] = e[j]
    BY <2>8, <2>9, <2>11, <2>12
  <2>14. \A j \in (Len(e) + 1)..a : f[j] = c[j - Len(e)]
    BY <2>8, <2>9, <2>11, <2>12
  <2>15. \A j \in (a + 1)..(a + Len(o)) : f[j] = o[j - a]
    BY <2>8, <2>10, <2>12
  <2>16. QED
    BY <2>5, <2>6, <2>7, <2>13, <2>14, <2>15
<1> HIDE DEF a
<1>7. /\ Len(f) \in Nat /\ Len(f) = a + Len(o) + 1
       /\ Len(e) <= a /\ Len(e) + 1 <= Len(f) /\ a <= Len(f)
  <2>1. Len(f) = a + Len(o) + 1
    BY <1>6
  <2>2. QED
    BY <1>5, <2>1
<1>8. e # <<>> /\ Len(e) >= 1 /\ e[1] = Begin /\ Brackets(e)
      /\ \A j \in 1..Len(e) : e[j].event \in {"begin", "open", "delta"}
  BY <1>1, EmptySeq DEF Going, e
<1>9. ASSUME NEW j \in 1..Len(f), j > Len(e)
      PROVE  \/ \E i \in Items : f[j] = Event("close", i)
             \/ f[j] = End /\ j = Len(f)
  <2>1. CASE j \in (Len(e) + 1)..a
    <3>1. t.text /\ j - Len(e) = 1
      BY <2>1, <1>5, <1>3
    <3>2. f[j] = Event("close", Text)
      BY <2>1, <3>1, <1>3, <1>6
    <3>3. QED
      BY <3>2, EventFacts
  <2>2. CASE j \in (a + 1)..(a + Len(o))
    <3>1. j - a \in 1..Len(o)
      BY <2>2, <1>5
    <3>2. f[j] = Event("close", t.tools[j - a]) /\ t.tools[j - a] \in Tools
      BY <2>2, <3>1, <1>4, <1>6
    <3>3. QED
      BY <3>2, EventFacts
  <2>3. CASE j = Len(f)
    BY <2>3, <1>6
  <2>4. j \in (Len(e) + 1)..a \/ j \in (a + 1)..(a + Len(o)) \/ j = Len(f)
    BY <1>9, <1>5, <1>7
  <2>5. QED
    BY <2>1, <2>2, <2>3, <2>4
<1>10. \A l \in {"open", "delta"}, i \in Items : Where(f, l, i) = Where(e, l, i)
  <2>1. ASSUME NEW l \in {"open", "delta"}, NEW i \in Items, NEW j \in 1..Len(f), f[j] = Event(l, i)
        PROVE  j \in 1..Len(e)
    <3>1. f[j].event = l
      BY <2>1, EventFacts
    <3>2. QED
      BY <1>6, <1>9, <3>1, EventFacts
  <2>2. 1..Len(e) \subseteq 1..Len(f)
    BY <1>5, <1>7
  <2>3. QED
    BY <2>1, <2>2, <1>6 DEF Where
<1>11. ASSUME NEW i \in Items, NEW j \in Where(f, "close", i)
      PROVE  j > Len(e)
  <2>1. j \in 1..Len(f) /\ f[j].event = "close"
    BY EventFacts DEF Where
  <2>2. ~(j \in 1..Len(e))
    BY <2>1, <1>6, <1>8
  <2>3. QED
    BY <2>1, <2>2, <1>5, <1>7
<1>12. ASSUME NEW i \in Items, Where(e, "open", i) # {}
       PROVE  Where(f, "close", i) # {}
  <2>1. CASE i = Text
    <3>1. t.text
      BY <2>1, <1>12 DEF e
    <3>2. a = Len(e) + 1 /\ Len(e) + 1 \in (Len(e) + 1)..a /\ Len(e) + 1 \in 1..Len(f) /\ Len(e) + 1 - Len(e) = 1
      BY <3>1, <1>5, <1>3, <1>7
    <3>3. f[Len(e) + 1] = Event("close", i) /\ Len(e) + 1 \in 1..Len(f)
      BY <2>1, <3>1, <3>2, <1>3, <1>6
    <3>4. QED
      BY <3>3 DEF Where
  <2>2. CASE i \in Tools
    <3>1. PICK n \in 1..Len(t.tools) : t.tools[n] = i
      BY <2>2, <1>12 DEF Contains, e
    <3>2. n \in 1..Len(o)
      BY <1>4
    <3>3. a + n \in (a + 1)..(a + Len(o)) /\ n \in 1..Len(o) /\ a + n \in 1..Len(f) /\ (a + n) - a = n
      BY <3>2, <1>5, <1>7
    <3>4. f[a + n] = Event("close", i)
      BY <3>1, <3>3, <1>4, <1>6
    <3>5. QED
      BY <3>3, <3>4 DEF Where
  <2>3. QED
    BY <2>1, <2>2 DEF Items
<1>13. Brackets(f)
  BY <1>8, <1>10 DEF Brackets
<1>14. \A j \in 1..Len(f) : f[j] # Fail /\ (f[j] = End => j = Len(f))
  <2>1. ASSUME NEW j \in 1..Len(f)
        PROVE  f[j] # Fail /\ (f[j] = End => j = Len(f))
    <3>1. CASE j <= Len(e)
      BY <3>1, <1>6, <1>8, EventFacts
    <3>2. CASE j > Len(e)
      BY <3>2, <1>9, EventFacts
    <3>3. QED
      BY <3>1, <3>2, <1>6
  <2>2. QED
    BY <2>1
<1>15. ASSUME NEW i \in Items, NEW j \in Where(f, "close", i), NEW k \in Where(f, "delta", i) \cup Where(f, "open", i)
       PROVE  k < j
  <2>1. k \in 1..Len(e)
    BY <1>10 DEF Where
  <2>2. j \in Nat /\ j > Len(e)
    BY <1>11 DEF Where
  <2>3. QED
    BY <2>1, <2>2, <1>6
<1>16. Complete(f)
  <2>1. f # <<>> /\ f[1] = Begin /\ f[Len(f)] = End
    BY <1>5, <1>6, <1>7, <1>8, EmptySeq
  <2>2. QED
    BY <2>1, <1>10, <1>12, <1>13, <1>14, <1>15 DEF Complete
<1>17. \A j \in (Len(e) + 1)..Len(f) : f[j].event # "delta"
  <2>1. ASSUME NEW j \in (Len(e) + 1)..Len(f)
        PROVE  f[j].event # "delta"
    <3>1. j \in 1..Len(f) /\ j > Len(e)
      BY <1>6
    <3>2. QED
      BY <3>1, <1>9, EventFacts
  <2>2. QED
    BY <2>1
<1>18. Len(e) <= Len(f)
  BY <1>5, <1>7
<1>19. QED
  BY <1>6, <1>16, <1>17, <1>18 DEF f, e

-----------------------------------------------------------------------------
(* The content sent *)

\* The deltas among the first n events.
DeltasIn(e, n) == {j \in 1..n : e[j].event = "delta"}

\* The lines up to l that carry content.
Received(b, l) == {j \in 1..l : b[j].kind = "delta"}

\* The deltas of e are the content of the lines up to l, in their order.
Matches(b, e, l) ==
    /\ Cardinality(DeltasIn(e, Len(e))) = Cardinality(Received(b, l))
    /\ \A x \in Received(b, l), n \in DeltasIn(e, Len(e)) :
        Cardinality(DeltasIn(e, n)) = Cardinality(Received(b, x)) => e[n].item = b[x].item

\* Deltas and lines can be counted.
LEMMA FinitelyMany ==
  /\ \A e : \A n \in Nat : /\ IsFiniteSet(DeltasIn(e, n)) /\ Cardinality(DeltasIn(e, n)) \in Nat
                           /\ \A m \in 1..n : Cardinality(DeltasIn(e, m)) <= Cardinality(DeltasIn(e, n))
  /\ \A n \in Nat : /\ IsFiniteSet(Received(body, n)) /\ Cardinality(Received(body, n)) \in Nat
                    /\ \A m \in 1..n : Cardinality(Received(body, m)) <= Cardinality(Received(body, n))
<1>1. \A n \in Nat : IsFiniteSet(1..n)
  BY FS_Interval
<1>2. ASSUME NEW e, NEW n \in Nat
      PROVE  /\ IsFiniteSet(DeltasIn(e, n)) /\ Cardinality(DeltasIn(e, n)) \in Nat
             /\ \A m \in 1..n : Cardinality(DeltasIn(e, m)) <= Cardinality(DeltasIn(e, n))
  <2>1. DeltasIn(e, n) \subseteq 1..n /\ \A m \in 1..n : DeltasIn(e, m) \subseteq DeltasIn(e, n)
    BY DEF DeltasIn
  <2>2. IsFiniteSet(DeltasIn(e, n))
    BY <1>1, <2>1, FS_Subset
  <2>3. QED
    BY <2>1, <2>2, FS_Subset, FS_CardinalityType
<1>3. ASSUME NEW n \in Nat
      PROVE  /\ IsFiniteSet(Received(body, n)) /\ Cardinality(Received(body, n)) \in Nat
             /\ \A m \in 1..n : Cardinality(Received(body, m)) <= Cardinality(Received(body, n))
  <2>1. Received(body, n) \subseteq 1..n /\ \A m \in 1..n : Received(body, m) \subseteq Received(body, n)
    BY DEF Received
  <2>2. IsFiniteSet(Received(body, n))
    BY <1>1, <2>1, FS_Subset
  <2>3. QED
    BY <2>1, <2>2, FS_Subset, FS_CardinalityType
<1>4. QED
  BY <1>2, <1>3

\* Events that are no deltas change nothing about the content sent.
LEMMA MatchesLonger ==
  ASSUME NEW e, NEW f, NEW l \in Nat, Len(e) \in Nat, Len(f) \in Nat, Len(e) <= Len(f),
         \A j \in 1..Len(e) : f[j] = e[j],
         \A j \in (Len(e) + 1)..Len(f) : f[j].event # "delta",
         Matches(body, e, l)
  PROVE  Matches(body, f, l)
<1>1. DeltasIn(f, Len(f)) = DeltasIn(e, Len(e))
  <2>1. \A j \in 1..Len(f) : j \in 1..Len(e) \/ j \in (Len(e) + 1)..Len(f)
    OBVIOUS
  <2>2. 1..Len(e) \subseteq 1..Len(f)
    OBVIOUS
  <2>3. QED
    BY <2>1, <2>2 DEF DeltasIn
<1>2. ASSUME NEW n \in DeltasIn(e, Len(e))
      PROVE  DeltasIn(f, n) = DeltasIn(e, n) /\ f[n] = e[n]
  <2>1. n \in 1..Len(e) /\ 1..n \subseteq 1..Len(e)
    BY DEF DeltasIn
  <2>2. QED
    BY <2>1 DEF DeltasIn
<1>3. QED
  BY <1>1, <1>2 DEF Matches

\* A line without content, translated to events that are no deltas.
LEMMA MatchesOthers ==
  ASSUME NEW e, NEW f, NEW l \in Nat, Len(e) \in Nat, Len(f) \in Nat, Len(e) <= Len(f),
         \A j \in 1..Len(e) : f[j] = e[j],
         \A j \in (Len(e) + 1)..Len(f) : f[j].event # "delta",
         body[l + 1].kind # "delta", Matches(body, e, l)
  PROVE  Matches(body, f, l + 1)
<1>1. Matches(body, f, l)
  BY MatchesLonger
<1>2. Received(body, l + 1) = Received(body, l)
  <2>1. 1..(l + 1) = (1..l) \cup {l + 1}
    OBVIOUS
  <2>2. QED
    BY <2>1 DEF Received
<1>3. QED
  BY <1>1, <1>2 DEF Matches

\* A line with content, translated to events of which the last is its delta.
LEMMA MatchesDelta ==
  ASSUME NEW e, NEW f, NEW l \in Nat, Len(e) \in Nat, Len(f) \in Nat, Len(e) < Len(f),
         \A j \in 1..Len(e) : f[j] = e[j],
         \A j \in (Len(e) + 1)..(Len(f) - 1) : f[j].event # "delta",
         f[Len(f)].event = "delta", f[Len(f)].item = body[l + 1].item,
         body[l + 1].kind = "delta", Matches(body, e, l)
  PROVE  Matches(body, f, l + 1)
<1> DEFINE F == Len(f)
           E == Len(e)
<1>1. DeltasIn(f, F) = DeltasIn(e, E) \cup {F} /\ F \notin DeltasIn(e, E)
  <2>1. \A j \in 1..F : j \in 1..E \/ j \in (E + 1)..(F - 1) \/ j = F
    OBVIOUS
  <2>2. 1..E \subseteq 1..F /\ F \in 1..F /\ F \notin 1..E
    OBVIOUS
  <2>3. QED
    BY <2>1, <2>2 DEF DeltasIn
<1>2. Received(body, l + 1) = Received(body, l) \cup {l + 1} /\ l + 1 \notin Received(body, l)
  <2>1. 1..(l + 1) = (1..l) \cup {l + 1} /\ l + 1 \notin 1..l
    OBVIOUS
  <2>2. QED
    BY <2>1 DEF Received
<1>3. ASSUME NEW n \in DeltasIn(e, E)
      PROVE  DeltasIn(f, n) = DeltasIn(e, n) /\ f[n] = e[n] /\ n \in 1..E
  <2>1. n \in 1..Len(e) /\ 1..n \subseteq 1..Len(e)
    BY DEF DeltasIn
  <2>2. QED
    BY <2>1 DEF DeltasIn
<1> DEFINE C == Cardinality(DeltasIn(e, E))
<1>4. C \in Nat /\ C = Cardinality(Received(body, l))
  BY FinitelyMany DEF Matches
<1>5. Cardinality(DeltasIn(f, F)) = C + 1
  BY <1>1, FinitelyMany, FS_AddElement
<1>6. Cardinality(Received(body, l + 1)) = C + 1
  BY <1>2, <1>4, FinitelyMany, FS_AddElement
<1>7. ASSUME NEW x \in Received(body, l + 1), NEW n \in DeltasIn(f, F),
             Cardinality(DeltasIn(f, n)) = Cardinality(Received(body, x))
      PROVE  f[n].item = body[x].item
  <2>1. CASE n = F /\ x = l + 1
    BY <2>1
  <2>2. CASE n = F /\ x \in Received(body, l)
    <3>1. x \in 1..l
      BY <2>2 DEF Received
    <3>2. Cardinality(Received(body, x)) <= C /\ Cardinality(Received(body, x)) \in Nat
      BY <3>1, <1>4, FinitelyMany
    <3>3. QED
      BY <2>2, <3>2, <1>4, <1>5, <1>7
  <2>3. CASE n \in DeltasIn(e, E) /\ x = l + 1
    <3>1. n \in 1..E /\ DeltasIn(f, n) = DeltasIn(e, n)
      BY <2>3, <1>3
    <3>2. Cardinality(DeltasIn(f, n)) <= C /\ Cardinality(DeltasIn(f, n)) \in Nat
      BY <3>1, FinitelyMany
    <3>3. QED
      BY <2>3, <3>2, <1>4, <1>6, <1>7
  <2>4. CASE n \in DeltasIn(e, E) /\ x \in Received(body, l)
    BY <2>4, <1>3, <1>7 DEF Matches
  <2>5. QED
    BY <2>1, <2>2, <2>3, <2>4, <1>1, <1>2
<1>8. QED
  BY <1>5, <1>6, <1>7 DEF Matches

-----------------------------------------------------------------------------
(* One line *)

\* The flags say what has been opened, and the tools what has been named.
Flags(b, t, l) ==
    /\ t.text <=> Where(t.events, "open", Text) # {}
    /\ \A i \in Tools :
        /\ Contains(t.tools, i) <=> Where(t.events, "open", i) # {}
        /\ Contains(t.tools, i) <=> \E m \in 1..l : b[m] = Line("name", i)

\* The translation t of the lines of b up to l.
Sound(b, t, l) ==
    /\ t \in Translations
    /\ t.done <=> \E m \in 1..l : b[m].kind = "done"
    /\ IF t.done THEN Complete(t.events) ELSE Going(t.events) /\ Flags(b, t, l)
    /\ Matches(b, t.events, l)

\* The OpenAI format, line by line.
LEMMA BodyFacts ==
  ASSUME body \in Bodies
  PROVE  /\ Len(body) \in Nat
         /\ \A j \in 1..Len(body) : body[j] \in Payloads
         /\ \A j \in 1..Len(body) : body[j].kind = "done" => j = Len(body)
         /\ \A j \in 1..Len(body) : body[j].kind = "name" =>
                \A i \in 1..(j - 1) : body[i].item # body[j].item
         /\ \A j \in 1..Len(body) : body[j].kind = "delta" /\ body[j].item # Text =>
                \E i \in 1..(j - 1) : body[i] = Line("name", body[j].item)
<1>1. PICK n \in 0..MaxLines : body \in [1..n -> Payloads]
  BY DEF Bodies
<1>2. n \in Nat
  BY StreamAssumption DEF StreamAssumption
<1>3. body \in Seq(Payloads)
  BY <1>1, <1>2, SeqDef
<1>4. DOMAIN body = 1..Len(body) /\ Len(body) \in Nat
  BY <1>3, LenProperties
<1>5. \A j \in 1..Len(body) : body[j] \in Payloads
  BY <1>3, ElementOfSeq
<1>6. Conforms(body)
  BY DEF Bodies
<1>7. QED
  BY <1>4, <1>5, <1>6 DEF Conforms

\* The kinds of a line: tool lines name a tool, the others are of the text.
LEMMA PayloadFacts ==
  ASSUME NEW p \in Payloads
  PROVE  /\ p.kind \in {"delta", "silent", "done", "name"} /\ p.item \in Items
         /\ p = Line(p.kind, p.item)
         /\ p.kind = "name" => p.item \in Tools
         /\ p.item # Text => p.item \in Tools /\ p.kind \in {"delta", "name"}
         /\ p.item = Text => p.kind \in {"delta", "silent", "done"}
<1>1. Text \notin Tools
  BY StreamAssumption DEF StreamAssumption, Text
<1>2. QED
  BY <1>1 DEF Payloads, Line, Items

\* The tools named by one line more.
LEMMA Named ==
  ASSUME body \in Bodies, NEW l \in Nat, l < Len(body)
  PROVE  \A i : (\E m \in 1..(l + 1) : body[m] = Line("name", i)) <=>
                (\E m \in 1..l : body[m] = Line("name", i)) \/ body[l + 1] = Line("name", i)
<1>1. \A m : m \in 1..(l + 1) <=> m \in 1..l \/ m = l + 1
  OBVIOUS
<1>2. QED
  BY <1>1

\* While lines are left there was no [DONE].
LEMMA NotDone ==
  ASSUME body \in Bodies, NEW l \in Nat, l < Len(body), NEW t, Sound(body, t, l)
  PROVE  ~t.done /\ Going(t.events) /\ Flags(body, t, l)
<1>1. \A m \in 1..l : m \in 1..Len(body) /\ m # Len(body)
  BY BodyFacts
<1>2. ~ \E m \in 1..l : body[m].kind = "done"
  BY <1>1, BodyFacts
<1>3. ~t.done
  BY <1>2 DEF Sound
<1>4. QED
  BY <1>3 DEF Sound

\* A sequence with one element more.
LEMMA Appends ==
  ASSUME NEW S, NEW e \in Seq(S), NEW x \in S
  PROVE  /\ Append(e, x) \in Seq(S) /\ Len(e) \in Nat
         /\ Len(Append(e, x)) = Len(e) + 1 /\ Append(e, x)[Len(e) + 1] = x
         /\ \A j \in 1..Len(e) : Append(e, x)[j] = e[j]
         /\ e \o <<x>> = Append(e, x) /\ e \o <<>> = e
<1>1. e \o <<x>> = Append(e, x) /\ e \o <<>> = e
  OBVIOUS
<1>2. QED
  BY <1>1

\* Text: its delta, opened first if it was not.
LEMMA TextEvents ==
  ASSUME NEW t \in Translations
  PROVE  TextDelta(t).events =
            IF t.text THEN Append(t.events, Event("delta", Text))
            ELSE Append(Append(t.events, Event("open", Text)), Event("delta", Text))
<1>1. t.events \in Seq(Events) /\ Event("open", Text) \in Events /\ Event("delta", Text) \in Events
  BY EventFacts DEF Translations, Kinds
<1>2. TextDelta(t).events = t.events \o (IF t.text THEN <<>> ELSE <<Event("open", Text)>>) \o <<Event("delta", Text)>>
  BY DEF TextDelta, Translations
<1> HIDE DEF Event, Events
<1>3. CASE t.text
  BY <1>1, <1>2, <1>3, Appends
<1>4. CASE ~t.text
  <2>1. Append(t.events, Event("open", Text)) \in Seq(Events) /\ t.events \o <<Event("open", Text)>> = Append(t.events, Event("open", Text))
    BY <1>1, Appends
  <2>2. QED
    BY <1>1, <1>2, <1>4, <2>1, Appends
<1>5. QED
  BY <1>3, <1>4

\* A line with text keeps the translation sound.
LEMMA TextStep ==
  ASSUME body \in Bodies, NEW l \in Nat, l < Len(body), NEW t, Sound(body, t, l),
         body[l + 1] = Line("delta", Text)
  PROVE  Sound(body, TextDelta(t), l + 1) /\ Len(t.events) < Len(TextDelta(t).events)
<1> DEFINE e == t.events
           d == TextDelta(t)
           g == IF t.text THEN e ELSE Append(e, Event("open", Text))
<1>1. t \in Translations /\ e \in Seq(Events) /\ Len(e) \in Nat
  BY DEF Sound, Translations
<1>2. ~t.done /\ Going(e) /\ Flags(body, t, l)
  BY NotDone
<1>3. d \in Translations /\ d.tools = t.tools /\ d.done = t.done /\ d.text = TRUE
  BY <1>1, TextDeltaTyped DEF TextDelta, Translations
<1>4. d.events = Append(g, Event("delta", Text))
  BY <1>1, TextEvents
<1>5. Text \in Items /\ Text \notin Tools /\ Event("open", Text) \in Events /\ Event("delta", Text) \in Events
      /\ Event("delta", Text).event = "delta" /\ Event("delta", Text).item = Text
      /\ Event("open", Text).event = "open"
  BY EventFacts, StreamAssumption DEF StreamAssumption, Text, Kinds
<1>6. g \in Seq(Events) /\ Going(g) /\ Where(g, "open", Text) # {}
      /\ (\A x : x # Text => Where(g, "open", x) = Where(e, "open", x))
  <2>1. CASE t.text
    BY <2>1, <1>1, <1>2 DEF Flags
  <2>2. CASE ~t.text
    <3>1. Where(e, "open", Text) = {}
      BY <2>2, <1>2 DEF Flags
    <3>2. g = Append(e, Event("open", Text))
      BY <2>2
    <3> HIDE DEF g, e
    <3>3. /\ g \in Seq(Events) /\ Going(g)
          /\ \A x : Where(g, "open", x) = Where(e, "open", x) \cup (IF x = Text THEN {Len(e) + 1} ELSE {})
      <4>1. "open" \in {"open", "delta"}
        OBVIOUS
      <4>2. QED
        BY <1>1, <1>2, <1>5, <3>1, <3>2, <4>1, GoesOn
    <3>4. QED
      BY <3>3
  <2>3. QED
    BY <2>1, <2>2
<1> HIDE DEF g
<1>7. d.events \in Seq(Events) /\ Going(d.events) /\ \A x : Where(d.events, "open", x) = Where(g, "open", x)
  <2> HIDE DEF d
  <2>1. QED
    BY <1>4, <1>5, <1>6, GoesOn
<1>8. /\ Len(g) \in Nat /\ Len(d.events) = Len(g) + 1 /\ d.events[Len(g) + 1] = Event("delta", Text)
      /\ \A j \in 1..Len(g) : d.events[j] = g[j]
  <2> HIDE DEF d, Event
  <2>1. QED
    BY <1>4, <1>5, <1>6, Appends
<1>9. /\ Len(g) \in {Len(e), Len(e) + 1}
      /\ \A j \in 1..Len(e) : g[j] = e[j]
      /\ \A j \in (Len(e) + 1)..Len(g) : g[j].event # "delta"
  <2>1. CASE t.text
    BY <2>1, <1>1 DEF g
  <2>2. CASE ~t.text
    <3>1. g = Append(e, Event("open", Text))
      BY <2>2 DEF g
    <3> HIDE DEF e
    <3>2. Len(g) = Len(e) + 1 /\ g[Len(e) + 1] = Event("open", Text) /\ \A j \in 1..Len(e) : g[j] = e[j]
      <4> HIDE DEF Event
      <4>1. QED
        BY <1>1, <1>5, <3>1, Appends
    <3>3. \A j \in (Len(e) + 1)..Len(g) : j = Len(e) + 1
      BY <1>1, <3>2
    <3>4. QED
      BY <1>5, <3>2, <3>3
  <2>3. QED
    BY <2>1, <2>2
<1>10. Matches(body, d.events, l + 1)
  <2>1. Matches(body, e, l)
    BY DEF Sound
  <2>2. body[l + 1].kind = "delta" /\ body[l + 1].item = Text
    BY DEF Line
  <2> HIDE DEF d, e
  <2>3. \A j \in 1..Len(e) : d.events[j] = e[j]
    BY <1>1, <1>8, <1>9
  <2>4. \A j \in (Len(e) + 1)..(Len(d.events) - 1) : d.events[j].event # "delta"
    BY <1>1, <1>8, <1>9
  <2>5. Len(e) < Len(d.events) /\ Len(d.events) \in Nat
    BY <1>1, <1>8, <1>9
  <2>6. d.events[Len(d.events)].event = "delta" /\ d.events[Len(d.events)].item = Text
    BY <1>5, <1>8
  <2>7. QED
    BY <1>1, <2>1, <2>2, <2>3, <2>4, <2>5, <2>6, MatchesDelta
<1>11. Flags(body, d, l + 1)
  <2>1. \A i : (\E m \in 1..(l + 1) : body[m] = Line("name", i)) <=> (\E m \in 1..l : body[m] = Line("name", i))
    <3>1. \A i : body[l + 1] # Line("name", i)
      BY DEF Line
    <3>2. QED
      BY <3>1, Named
  <2>2. \A i \in Tools : Where(d.events, "open", i) = Where(e, "open", i)
    BY <1>5, <1>6, <1>7
  <2>3. Where(d.events, "open", Text) # {}
    BY <1>6, <1>7
  <2> HIDE DEF d, e
  <2>4. QED
    BY <1>2, <1>3, <2>1, <2>2, <2>3 DEF Flags, e
<1>12. ~ \E m \in 1..(l + 1) : body[m].kind = "done"
  <2>1. \A m \in 1..(l + 1) : m \in 1..l \/ m = l + 1
    OBVIOUS
  <2>2. body[l + 1].kind # "done"
    BY DEF Line
  <2>3. QED
    BY <2>1, <2>2, <1>2 DEF Sound
<1>13. Len(e) < Len(d.events)
  BY <1>1, <1>8, <1>9
<1>14. QED
  <2> HIDE DEF d
  <2>1. QED
    BY <1>2, <1>3, <1>7, <1>10, <1>11, <1>12, <1>13 DEF Sound, d

\* A line with a tool call does: its name comes first, and opens it.
LEMMA ToolStep ==
  ASSUME body \in Bodies, NEW l \in Nat, l < Len(body), NEW t, Sound(body, t, l),
         NEW p, p = body[l + 1], p.item # Text
  PROVE  Sound(body, ToolDelta(t, p), l + 1) /\ Len(t.events) < Len(ToolDelta(t, p).events)
<1> DEFINE e == t.events
           d == ToolDelta(t, p)
           k == IF p.kind = "name" THEN "open" ELSE "delta"
<1>1. t \in Translations /\ e \in Seq(Events) /\ Len(e) \in Nat /\ t.tools \in Seq(Tools)
  BY DEF Sound, Translations
<1>2. ~t.done /\ Going(e) /\ Flags(body, t, l)
  BY NotDone
<1>3. p \in Payloads /\ p.item \in Tools /\ p.kind \in {"delta", "name"} /\ p = Line(p.kind, p.item)
      /\ l + 1 \in 1..Len(body) /\ (l + 1) - 1 = l
  <2>1. l + 1 \in 1..Len(body) /\ (l + 1) - 1 = l
    BY BodyFacts
  <2>2. QED
    BY <2>1, BodyFacts, PayloadFacts
<1>4. /\ d \in Translations /\ d.done = t.done /\ d.text = t.text
      /\ d.tools = (IF Contains(t.tools, p.item) THEN t.tools ELSE Append(t.tools, p.item))
      /\ d.events = Append(e, Event(k, p.item))
  BY <1>1, <1>3, ToolDeltaTyped DEF ToolDelta, Translations
<1>5. p.item \in Items /\ k \in {"open", "delta"} /\ k \in Kinds /\ Event(k, p.item) \in Events
      /\ Event(k, p.item).event = k /\ Event(k, p.item).item = p.item
  BY <1>3, EventFacts DEF Kinds, Items
<1>6. Contains(t.tools, p.item) <=> p.kind = "delta"
  <2>1. CASE p.kind = "delta"
    <3>1. \E i \in 1..l : body[i] = Line("name", p.item)
      BY <2>1, <1>3, BodyFacts
    <3>2. QED
      BY <2>1, <3>1, <1>2, <1>3 DEF Flags
  <2>2. CASE p.kind = "name"
    <3>1. \A i \in 1..l : body[i].item # p.item
      BY <2>2, <1>3, BodyFacts
    <3>2. ~ \E i \in 1..l : body[i] = Line("name", p.item)
      BY <3>1 DEF Line
    <3>3. QED
      BY <2>2, <3>2, <1>2, <1>3 DEF Flags
  <2>3. QED
    BY <2>1, <2>2, <1>3
<1>7. k = "open" <=> Where(e, "open", p.item) = {}
  BY <1>2, <1>3, <1>6 DEF Flags
<1> HIDE DEF k
<1>8. /\ d.events \in Seq(Events) /\ Going(d.events)
      /\ \A x : Where(d.events, "open", x) = Where(e, "open", x) \cup (IF k = "open" /\ x = p.item THEN {Len(e) + 1} ELSE {})
  <2> HIDE DEF d, e
  <2>1. QED
    BY <1>1, <1>2, <1>4, <1>5, <1>7, GoesOn
<1>9. /\ Len(d.events) = Len(e) + 1 /\ d.events[Len(e) + 1] = Event(k, p.item)
      /\ \A j \in 1..Len(e) : d.events[j] = e[j]
  <2> HIDE DEF d, e, Event
  <2>1. QED
    BY <1>1, <1>4, <1>5, Appends
<1>10. Matches(body, d.events, l + 1)
  <2>1. Matches(body, e, l)
    BY DEF Sound
  <2>2. CASE p.kind = "delta"
    <3>1. k = "delta" /\ body[l + 1].kind = "delta" /\ body[l + 1].item = p.item
      BY <2>2 DEF k
    <3> HIDE DEF d, e
    <3>2. d.events[Len(d.events)].event = "delta" /\ d.events[Len(d.events)].item = p.item
      BY <1>5, <1>9, <3>1
    <3>3. Len(d.events) \in Nat /\ Len(e) < Len(d.events)
          /\ \A j \in (Len(e) + 1)..(Len(d.events) - 1) : d.events[j].event # "delta"
      BY <1>1, <1>9
    <3>4. QED
      BY <2>1, <3>1, <3>2, <3>3, <1>1, <1>9, MatchesDelta
  <2>3. CASE p.kind = "name"
    <3>1. k = "open" /\ body[l + 1].kind # "delta"
      BY <2>3 DEF k
    <3> HIDE DEF d, e
    <3>2. \A j \in (Len(e) + 1)..Len(d.events) : j = Len(e) + 1
      BY <1>1, <1>9
    <3>3. \A j \in (Len(e) + 1)..Len(d.events) : d.events[j].event # "delta"
      BY <1>5, <1>9, <3>1, <3>2
    <3>4. Len(d.events) \in Nat /\ Len(e) <= Len(d.events)
      BY <1>1, <1>9
    <3>5. QED
      BY <2>1, <3>1, <3>3, <3>4, <1>1, <1>9, MatchesOthers
  <2>4. QED
    BY <2>2, <2>3, <1>3
<1>11. Flags(body, d, l + 1)
  <2>1. d.text <=> Where(d.events, "open", Text) # {}
    <3>1. Where(d.events, "open", Text) = Where(e, "open", Text)
      BY <1>8
    <3>2. QED
      BY <3>1, <1>2, <1>4 DEF Flags
  <2>2. ASSUME NEW i \in Tools
        PROVE  /\ Contains(d.tools, i) <=> Contains(t.tools, i) \/ i = p.item
               /\ Where(d.events, "open", i) # {} <=> Where(e, "open", i) # {} \/ i = p.item
               /\ (\E m \in 1..(l + 1) : body[m] = Line("name", i)) <=>
                    (\E m \in 1..l : body[m] = Line("name", i)) \/ i = p.item
    <3>1. Contains(d.tools, i) <=> Contains(t.tools, i) \/ i = p.item
      <4>1. CASE Contains(t.tools, p.item)
        BY <4>1, <1>4
      <4>2. CASE ~Contains(t.tools, p.item)
        <5>1. d.tools = Append(t.tools, p.item)
          BY <4>2, <1>4
        <5>2. /\ Len(t.tools) \in Nat /\ Len(d.tools) = Len(t.tools) + 1
              /\ d.tools[Len(t.tools) + 1] = p.item
              /\ \A j \in 1..Len(t.tools) : d.tools[j] = t.tools[j]
          BY <5>1, <1>1, <1>3, Appends
        <5>3. \A j : j \in 1..Len(d.tools) <=> j \in 1..Len(t.tools) \/ j = Len(t.tools) + 1
          BY <5>2
        <5>4. QED
          BY <5>2, <5>3 DEF Contains
      <4>3. QED
        BY <4>1, <4>2
    <3>2. Where(d.events, "open", i) # {} <=> Where(e, "open", i) # {} \/ i = p.item
      <4>1. CASE i = p.item
        <5>1. Where(d.events, "open", i) = Where(e, "open", i) \cup (IF k = "open" THEN {Len(e) + 1} ELSE {})
          BY <4>1, <1>8
        <5>2. QED
          BY <5>1, <4>1, <1>7
      <4>2. CASE i # p.item
        <5>1. Where(d.events, "open", i) = Where(e, "open", i)
          BY <4>2, <1>8
        <5>2. QED
          BY <5>1, <4>2
      <4>3. QED
        BY <4>1, <4>2
    <3>3. (\E m \in 1..(l + 1) : body[m] = Line("name", i)) <=>
             (\E m \in 1..l : body[m] = Line("name", i)) \/ i = p.item
      <4>1. (\E m \in 1..(l + 1) : body[m] = Line("name", i)) <=>
               (\E m \in 1..l : body[m] = Line("name", i)) \/ p = Line("name", i)
        BY Named
      <4>2. p = Line("name", i) <=> p.kind = "name" /\ p.item = i
        BY <1>3 DEF Line
      <4>3. i = p.item /\ p.kind = "delta" => \E m \in 1..l : body[m] = Line("name", i)
        BY <1>2, <1>3, <1>6 DEF Flags
      <4>4. QED
        BY <4>1, <4>2, <4>3, <1>3
    <3>4. QED
      BY <3>1, <3>2, <3>3
  <2>3. QED
    <3> HIDE DEF d
    <3>1. QED
      BY <2>1, <2>2, <1>2 DEF Flags
<1>12. ~ \E m \in 1..(l + 1) : body[m].kind = "done"
  <2>1. \A m \in 1..(l + 1) : m \in 1..l \/ m = l + 1
    OBVIOUS
  <2>2. body[l + 1].kind # "done"
    BY <1>3
  <2>3. QED
    BY <2>1, <2>2, <1>2 DEF Sound
<1>13. Len(e) < Len(d.events)
  BY <1>1, <1>9
<1>14. QED
  <2> HIDE DEF d
  <2>1. QED
    BY <1>2, <1>4, <1>8, <1>10, <1>11, <1>12, <1>13 DEF Sound, d

\* [DONE] does.
LEMMA FinishStep ==
  ASSUME body \in Bodies, NEW l \in Nat, l < Len(body), NEW t, Sound(body, t, l), body[l + 1].kind = "done"
  PROVE  Sound(body, Finish(t), l + 1) /\ Len(t.events) < Len(Finish(t).events)
<1> DEFINE e == t.events
           d == Finish(t)
<1>1. t \in Translations /\ e \in Seq(Events) /\ Len(e) \in Nat
  BY DEF Sound, Translations
<1>2. ~t.done /\ Going(e) /\ Flags(body, t, l) /\ Matches(body, e, l)
  BY NotDone DEF Sound
<1>3. d \in Translations /\ d.done = TRUE
  BY <1>1, FinishTyped DEF Finish, Translations
<1>4. /\ Complete(d.events) /\ Len(e) <= Len(d.events) /\ Len(d.events) \in Nat
      /\ \A j \in 1..Len(e) : d.events[j] = e[j]
      /\ \A j \in (Len(e) + 1)..Len(d.events) : d.events[j].event # "delta"
  <2>1. Len(d.events) \in Nat
    BY <1>3 DEF Translations
  <2>2. QED
    BY <2>1, <1>1, <1>2, Finishes DEF Flags
<1> HIDE DEF d
<1>5. Matches(body, d.events, l + 1)
  BY <1>1, <1>2, <1>4, MatchesOthers
<1>6. Len(e) # Len(d.events)
  <2>1. Len(e) \in 1..Len(e) /\ e[Len(e)] # End
    <3>1. Len(e) >= 1
      BY <1>1, <1>2, EmptySeq DEF Going
    <3>2. e[Len(e)].event \in {"begin", "open", "delta"}
      BY <1>1, <1>2, <3>1 DEF Going
    <3>3. QED
      BY <1>1, <3>1, <3>2, EventFacts
  <2>2. d.events[Len(d.events)] = End
    BY <1>4 DEF Complete
  <2>3. QED
    BY <2>1, <2>2, <1>4
<1>7. \E m \in 1..(l + 1) : body[m].kind = "done"
  OBVIOUS
<1>8. Len(e) < Len(d.events)
  BY <1>1, <1>4, <1>6
<1>9. QED
  BY <1>3, <1>4, <1>5, <1>7, <1>8 DEF Sound, d

\* A line without content does.
LEMMA SilentStep ==
  ASSUME body \in Bodies, NEW l \in Nat, l < Len(body), NEW t, Sound(body, t, l), body[l + 1].kind = "silent"
  PROVE  Sound(body, t, l + 1)
<1>1. t \in Translations /\ Len(t.events) \in Nat /\ Matches(body, t.events, l)
  BY DEF Sound, Translations
<1>2. ~t.done /\ Going(t.events) /\ Flags(body, t, l)
  BY NotDone
<1>3. Matches(body, t.events, l + 1)
  <2>1. \A j \in (Len(t.events) + 1)..Len(t.events) : t.events[j].event # "delta"
    BY <1>1
  <2>2. PICK e : e = t.events
    OBVIOUS
  <2>3. Len(e) <= Len(e) /\ body[l + 1].kind # "delta"
    BY <1>1, <2>2
  <2>4. QED
    BY <1>1, <2>1, <2>2, <2>3, MatchesOthers
<1>4. Flags(body, t, l + 1)
  <2>1. \A i : body[l + 1] # Line("name", i)
    BY DEF Line
  <2>2. QED
    BY <2>1, <1>2, Named DEF Flags
<1>5. ~ \E m \in 1..(l + 1) : body[m].kind = "done"
  <2>1. \A m \in 1..(l + 1) : m \in 1..l \/ m = l + 1
    OBVIOUS
  <2>2. QED
    BY <2>1, <1>2 DEF Sound
<1>6. QED
  BY <1>1, <1>2, <1>3, <1>4, <1>5 DEF Sound

\* So each line does, and what it enqueues comes after what was enqueued.
LEMMA LineStep ==
  ASSUME body \in Bodies, NEW l \in Nat, l < Len(body), NEW t, Sound(body, t, l)
  PROVE  LET d == Translate(t, body[l + 1]) IN
         Sound(body, d, l + 1) /\ (d = t \/ Len(t.events) < Len(d.events))
<1> DEFINE p == body[l + 1]
<1>1. p \in Payloads
  BY BodyFacts
<1>2. p = Line(p.kind, p.item) /\ p.kind \in {"delta", "silent", "done", "name"}
      /\ (p.item = Text => p.kind \in {"delta", "silent", "done"})
  BY <1>1, PayloadFacts
<1>3. CASE p.kind = "done"
  BY <1>3, FinishStep DEF Translate
<1>4. CASE p.kind = "silent"
  BY <1>4, SilentStep DEF Translate
<1>5. CASE p.kind \in {"delta", "name"} /\ p.item = Text
  <2>1. p = Line("delta", Text)
    BY <1>2, <1>5
  <2>2. QED
    BY <1>5, <2>1, TextStep DEF Translate
<1>6. CASE p.kind \in {"delta", "name"} /\ p.item # Text
  BY <1>6, ToolStep DEF Translate
<1>7. QED
  BY <1>2, <1>3, <1>4, <1>5, <1>6

-----------------------------------------------------------------------------
(* One chunk *)

\* The half lines a chunk completes: from the start of line l + 1 on.
Halved(u, l, m) ==
    /\ Len(u) = m
    /\ \A n \in 1..m : u[n].line = l + ((n + 1) \div 2) /\ (u[n].ends <=> n % 2 = 0)

\* What the lines of a chunk add, whatever the chunk is.
LEMMA ChunkStep ==
  ASSUME body \in Bodies, NEW l \in Nat, NEW m \in Nat, NEW u, Halved(u, l, m),
         l + (m \div 2) <= Len(body), NEW t, Sound(body, t, l)
  PROVE  LET d == TranslateAll(t, u) IN
         Sound(body, d, l + (m \div 2)) /\ (d.events = t.events \/ Len(t.events) < Len(d.events))
<1> DEFINE h(j) == j \div 2
<1>1. t \in Translations /\ Len(t.events) \in Nat /\ Len(u) = m /\ Len(body) \in Nat
  BY BodyFacts DEF Sound, Translations, Halved
<1>2. \A j \in 1..m :
        /\ (j - 1) \in 0..m /\ h(j - 1) \in Nat
        /\ ((j - 1) % 2 = 0) <=> (j % 2 # 0)
        /\ (j % 2 = 0) => h(j) = h(j - 1) + 1 /\ h(j + 1) = h(j - 1) + 1
        /\ (j % 2 # 0) => h(j) = h(j - 1)
        /\ h(j) <= h(m)
  <2>1. TAKE j \in 1..m
  <2>2. j \in Nat /\ j >= 1 /\ j \in 0..m /\ (j - 1) \in 0..m
    OBVIOUS
  <2>3. QED
    BY <2>2, HalfBefore, HalfBelow
<1>3. h(0) = 0 /\ h(m) \in Nat
  BY Halves
<1> HIDE DEF h
<1>4. ASSUME NEW j \in 1..m
      PROVE  LineEnds(u, j) <=> (j % 2 = 0)
  <2>1. u[j].ends <=> (j % 2 = 0)
    BY DEF Halved
  <2>2. CASE j > 1
    <3>1. (j - 1) \in 1..m
      BY <2>2
    <3>2. u[j - 1].ends <=> ((j - 1) % 2 = 0)
      BY <3>1 DEF Halved
    <3>3. ((j - 1) % 2 = 0) <=> (j % 2 # 0)
      BY <1>2
    <3>4. QED
      BY <2>1, <2>2, <3>2, <3>3 DEF LineEnds
  <2>3. CASE j = 1
    BY <2>3 DEF LineEnds
  <2>4. QED
    BY <2>2, <2>3
<1>5. ASSUME NEW j \in 1..m, j % 2 = 0
      PROVE  u[j].line = l + h(j - 1) + 1 /\ l + h(j - 1) \in Nat /\ l + h(j - 1) < Len(body)
  <2>1. u[j].line = l + h(j + 1)
    BY DEF Halved, h
  <2>2. h(j) = h(j - 1) + 1 /\ h(j + 1) = h(j - 1) + 1 /\ h(j) <= h(m) /\ h(j - 1) \in Nat
    BY <1>2, <1>5
  <2>3. l + h(m) <= Len(body)
    BY DEF h
  <2>4. QED
    BY <2>1, <2>2, <2>3, <1>1, <1>3
<1>6. \A j \in 1..m : LineEnds(u, j) => body[u[j].line] \in Payloads
  <2>1. ASSUME NEW j \in 1..m, LineEnds(u, j)
        PROVE  body[u[j].line] \in Payloads
    <3>1. u[j].line \in 1..Len(body)
      BY <2>1, <1>1, <1>4, <1>5
    <3>2. QED
      BY <3>1, BodyFacts
  <2>2. QED
    BY <2>1
<1>7. PICK f :
        /\ f[0] = t
        /\ \A j \in 1..m : f[j] = IF LineEnds(u, j) THEN Translate(f[j - 1], body[u[j].line]) ELSE f[j - 1]
        /\ TranslateAll(t, u) = f[m]
  BY <1>1, <1>6, UpTo
<1> DEFINE Good(j) == Sound(body, f[j], l + h(j)) /\ (f[j].events = t.events \/ Len(t.events) < Len(f[j].events))
           Bad == {j \in 0..m : ~Good(j)}
<1>8. Good(0)
  BY <1>1, <1>3, <1>7
<1>9. ASSUME NEW j \in 1..m, Good(j - 1)
      PROVE  Good(j)
  <2>1. Len(f[j - 1].events) \in Nat
    BY <1>9 DEF Sound, Translations
  <2>2. CASE j % 2 # 0
    <3>1. f[j] = f[j - 1]
      BY <2>2, <1>4, <1>7
    <3>2. h(j) = h(j - 1)
      BY <2>2, <1>2
    <3>3. QED
      BY <3>1, <3>2, <1>9
  <2>3. CASE j % 2 = 0
    <3>1. f[j] = Translate(f[j - 1], body[u[j].line])
      BY <2>3, <1>4, <1>7
    <3>2. u[j].line = l + h(j - 1) + 1 /\ l + h(j - 1) \in Nat /\ l + h(j - 1) < Len(body)
      BY <2>3, <1>5
    <3>3. l + h(j) = l + h(j - 1) + 1
      <4>1. h(j) = h(j - 1) + 1 /\ h(j - 1) \in Nat
        BY <2>3, <1>2
      <4>2. QED
        BY <4>1
    <3>4. Sound(body, f[j - 1], l + h(j - 1))
      BY <1>9
    <3>5. Sound(body, f[j], l + h(j)) /\ (f[j] = f[j - 1] \/ Len(f[j - 1].events) < Len(f[j].events))
      <4> HIDE DEF Good
      <4>1. QED
        BY <3>1, <3>2, <3>3, <3>4, LineStep
    <3>6. Len(f[j].events) \in Nat
      BY <3>5 DEF Sound, Translations
    <3>7. f[j - 1].events = t.events \/ Len(t.events) < Len(f[j - 1].events)
      BY <1>9
    <3>8. f[j].events = t.events \/ Len(t.events) < Len(f[j].events)
      <4>1. CASE f[j] = f[j - 1]
        BY <4>1, <3>7
      <4>2. CASE Len(f[j - 1].events) < Len(f[j].events)
        <5>1. CASE f[j - 1].events = t.events
          BY <4>2, <5>1
        <5>2. CASE Len(t.events) < Len(f[j - 1].events)
          BY <4>2, <5>2, <3>6, <2>1, <1>1, Transitive
        <5>3. QED
          BY <5>1, <5>2, <3>7
      <4>3. QED
        BY <4>1, <4>2, <3>5
    <3>9. QED
      BY <3>5, <3>8
  <2>4. QED
    BY <2>2, <2>3
<1>10. Bad = {}
  <2> HIDE DEF Good
  <2>1. SUFFICES ASSUME Bad # {}
                 PROVE  FALSE
    OBVIOUS
  <2>2. Bad \subseteq Nat
    OBVIOUS
  <2>3. PICK b \in Bad : \A j \in Bad : b <= j
    <3> HIDE DEF Bad
    <3>1. QED
      BY <2>1, <2>2, Least
  <2>4. b # 0
    BY <2>3, <1>8
  <2>5. b \in 1..m /\ b - 1 \in 0..m /\ ~(b <= b - 1)
    BY <2>3, <2>4
  <2>6. Good(b - 1)
    BY <2>3, <2>5
  <2>7. QED
    BY <2>3, <2>5, <2>6, <1>9
<1>11. Good(m)
  <2> HIDE DEF Good
  <2>1. QED
    BY <1>10
<1>12. QED
  BY <1>7, <1>11 DEF h

\* Whole lines do not change which unit is a start and which an end.
LEMMA Evenly ==
  ASSUME NEW l \in Nat, NEW n \in Nat
  PROVE  ((2 * l + n) \div 2) = l + (n \div 2) /\ ((2 * l + n) % 2) = (n % 2)
  OBVIOUS

\* What is left of r units: a line that was not ended.
Pending(r) == IF r % 2 = 1 THEN <<[line |-> (r + 1) \div 2, ends |-> FALSE]>> ELSE <<>>

\* What a chunk is made of.
HalfLines == [line : Nat, ends : BOOLEAN]

\* The units of a chunk, by their number.
LEMMA SliceUnits ==
  ASSUME NEW r \in Nat, NEW k \in Nat \ {0}
  PROVE  LET s == Slice(r + 1, r + k) IN
         /\ s \in Seq(HalfLines) /\ Len(s) = k
         /\ \A n \in 1..k : s[n] = [line |-> (r + n + 1) \div 2, ends |-> (r + n) % 2 = 0]
<1> DEFINE s == Slice(r + 1, r + k)
           x(n) == [line |-> (r + n + 1) \div 2, ends |-> (r + n) % 2 = 0]
<1>1. (r + k) - (r + 1) + 1 = k
  OBVIOUS
<1>2. \A n \in 1..k : (r + 1) + n - 1 = r + n
  OBVIOUS
<1>3. s = [n \in 1..k |-> x(n)]
  BY <1>1, <1>2 DEF Slice
<1>4. \A n \in 1..k : (r + n + 1) \div 2 \in Nat
  BY Halves
<1>5. \A n \in 1..k : x(n) \in HalfLines
  BY <1>4 DEF HalfLines
<1> HIDE DEF x
<1>6. s \in [1..k -> HalfLines]
  BY <1>3, <1>5
<1>7. s \in Seq(HalfLines)
  BY <1>6, SeqDef
<1>8. Len(s) = k
  BY <1>6, <1>7, LenProperties
<1>9. QED
  BY <1>3, <1>7, <1>8 DEF x

\* The buffer and the next k units begin with a line, and leave what the next chunk
\* needs (formats.ts buffer, lines.pop()).
LEMMA ChunkUnits ==
  ASSUME NEW r \in Nat, NEW k \in Nat \ {0}, NEW b, b = Pending(r)
  PROVE  LET u == b \o Slice(r + 1, r + k) IN
         /\ Halved(u, r \div 2, r + k - 2 * (r \div 2))
         /\ Left(u) = Pending(r + k)
<1> DEFINE s == Slice(r + 1, r + k)
           u == b \o s
           l == r \div 2
           m == r + k - 2 * l
<1>1. l \in Nat /\ r % 2 \in {0, 1} /\ r = 2 * l + (r % 2)
  BY Halves
<1>2. /\ s \in Seq(HalfLines) /\ Len(s) = k
      /\ \A n \in 1..k : s[n].line = ((r + n + 1) \div 2) /\ (s[n].ends <=> (r + n) % 2 = 0)
      /\ ((r + k) % 2 # 0) => s[k] = [line |-> (r + k + 1) \div 2, ends |-> FALSE]
  <2> HIDE DEF s
  <2> DEFINE line(n) == (r + n + 1) \div 2
             even(n) == (r + n) % 2 = 0
  <2>1. /\ s \in Seq(HalfLines) /\ Len(s) = k
        /\ \A n \in 1..k : s[n] = [line |-> line(n), ends |-> even(n)]
    BY SliceUnits, Zenon DEF s
  <2>2. even(k) \in BOOLEAN /\ (even(k) <=> (r + k) % 2 = 0)
    OBVIOUS
  <2> HIDE DEF line, even
  <2>3. \A n \in 1..k : s[n].line = line(n) /\ (s[n].ends <=> even(n))
    BY <2>1
  <2>4. k \in 1..k
    OBVIOUS
  <2>5. ASSUME (r + k) % 2 # 0
        PROVE  s[k] = [line |-> line(k), ends |-> FALSE]
    <3>1. even(k) = FALSE
      BY <2>2, <2>5
    <3>2. QED
      BY <2>1, <2>4, <3>1, Zenon
  <2>6. QED
    BY <2>1, <2>3, <2>5 DEF line, even
<1>3. b \in Seq(HalfLines) /\ Len(b) = r % 2 /\ (r % 2 = 1 => b[1].line = (r + 1) \div 2 /\ ~b[1].ends)
  <2>1. (r + 1) \div 2 \in Nat
    BY Halves
  <2>2. [line |-> (r + 1) \div 2, ends |-> FALSE] \in HalfLines
    BY <2>1 DEF HalfLines
  <2>3. CASE r % 2 = 1
    BY <2>2, <2>3 DEF Pending
  <2>4. CASE r % 2 = 0
    BY <2>4 DEF Pending
  <2>5. QED
    BY <2>3, <2>4, <1>1
<1> HIDE DEF s
<1>4. u \in Seq(HalfLines) /\ Joined(u, b, s)
  BY <1>2, <1>3, Joins
<1> HIDE DEF u, l
<1>5. /\ Len(u) = (r % 2) + k /\ m = (r % 2) + k /\ Len(u) \in Nat
      /\ \A n \in 1..Len(b) : u[n] = b[n]
      /\ \A n \in (Len(b) + 1)..Len(u) : u[n] = s[n - Len(b)]
  <2>1. /\ Len(u) = Len(b) + Len(s)
        /\ \A n \in 1..Len(b) : u[n] = b[n]
        /\ \A n \in (Len(b) + 1)..Len(u) : u[n] = s[n - Len(b)]
    BY <1>4 DEF Joined
  <2>2. Len(u) = (r % 2) + k
    BY <2>1, <1>2, <1>3
  <2>3. m = (r % 2) + k /\ (r % 2) + k \in Nat
    BY <1>1
  <2> HIDE DEF m
  <2>4. QED
    BY <2>1, <2>2, <2>3
<1>6. ASSUME NEW n \in 1..m
      PROVE  u[n].line = l + ((n + 1) \div 2) /\ (u[n].ends <=> (n % 2) = 0)
  <2> HIDE DEF m
  <2>1. n \in Nat /\ n >= 1 /\ n <= (r % 2) + k
    BY <1>5, <1>1
  <2>2. CASE r % 2 = 0
    <3>1. n \in (Len(b) + 1)..Len(u) /\ n - Len(b) = n /\ n \in 1..k
      BY <1>3, <1>5, <2>1, <2>2
    <3>2. u[n].line = ((r + n + 1) \div 2) /\ (u[n].ends <=> ((r + n) % 2) = 0)
      BY <3>1, <1>2, <1>5
    <3>3. r + n + 1 = 2 * l + (n + 1) /\ r + n = 2 * l + n
      BY <1>1, <2>1, <2>2
    <3>4. QED
      BY <3>2, <3>3, <1>1, <2>1, Evenly
  <2>3. CASE r % 2 = 1 /\ n = 1
    <3>1. u[n] = b[1]
      BY <1>3, <1>5, <2>3
    <3>2. r + 1 = 2 * l + 2
      BY <1>1, <2>3
    <3>3. ((r + 1) \div 2) = l + (2 \div 2)
      BY <3>2, <1>1, Evenly
    <3>4. QED
      BY <3>1, <3>3, <1>3, <2>3
  <2>4. CASE r % 2 = 1 /\ n # 1
    <3>1. n \in (Len(b) + 1)..Len(u) /\ n - Len(b) = n - 1 /\ n - 1 \in 1..k
      BY <1>3, <1>5, <2>1, <2>4
    <3>2. u[n].line = ((r + (n - 1) + 1) \div 2) /\ (u[n].ends <=> ((r + (n - 1)) % 2) = 0)
      BY <3>1, <1>2, <1>5
    <3>3. r + (n - 1) + 1 = 2 * l + (n + 1) /\ r + (n - 1) = 2 * l + n
      BY <1>1, <2>1, <2>4
    <3>4. QED
      BY <3>2, <3>3, <1>1, <2>1, Evenly
  <2>5. QED
    BY <2>2, <2>3, <2>4, <1>1
<1>7. Halved(u, l, m)
  BY <1>5, <1>6 DEF Halved
<1>8. Left(u) = Pending(r + k)
  <2>1. u # <<>> /\ Last(u) = u[Len(u)] /\ u[Len(u)] = s[k]
    <3>1. Len(u) \in (Len(b) + 1)..Len(u) /\ Len(u) - Len(b) = k /\ Len(u) # 0
      BY <1>1, <1>3, <1>5
    <3>2. QED
      BY <3>1, <1>4, <1>5, EmptySeq DEF Last
  <2>2. (r + k) % 2 \in {0, 1}
    BY Halves
  <2>3. CASE (r + k) % 2 = 0
    <3>1. Last(u).ends
      BY <2>1, <2>3, <1>2
    <3>2. QED
      BY <3>1, <2>3 DEF Left, Pending
  <2>4. CASE (r + k) % 2 = 1
    <3>1. s[k] = [line |-> (r + k + 1) \div 2, ends |-> FALSE]
      <4>1. (r + k) % 2 # 0
        BY <2>4
      <4>2. QED
        BY <4>1, <1>2
    <3>2. ~Last(u).ends
      BY <2>1, <3>1
    <3>3. QED
      BY <3>1, <3>2, <2>1, <2>4 DEF Left, Pending
  <2>5. QED
    BY <2>2, <2>3, <2>4
<1>9. QED
  BY <1>7, <1>8 DEF u, l, s

-----------------------------------------------------------------------------
(* The invariant of the stream *)

\* The events sent are those of the lines received, and, if the body ended early,
\* one that says so.
Content ==
    \E e \in Seq(Events) :
        /\ read = 0 => e = <<>> /\ text = FALSE /\ tools = <<>> /\ done = FALSE
        /\ read # 0 => Sound(body, [text |-> text, tools |-> tools, done |-> done, events |-> e], read \div 2)
        /\ out = e \/ (out = Append(e, Fail) /\ ~done /\ state \notin {"open", "errored"})
        /\ state \in {"closing", "closed"} => read = Units /\ (done \/ out = Append(e, Fail))

\* What was read of which body.
Lines ==
    /\ body \in Bodies /\ cut \in BOOLEAN /\ (body = <<>> => ~cut)
    /\ read \in 0..Units /\ buffer = Pending(read)

\* The stream around it.
Flow ==
    /\ queued \in Nat /\ waiting \in BOOLEAN /\ again \in BOOLEAN /\ quiet \in BOOLEAN
    /\ pull \in {"idle", "reading", "settling"}
    /\ state \in {"open", "closing", "closed", "errored", "cancelled"}
    /\ waiting => state = "open" /\ queued = 0
    /\ state = "closing" => queued > 0
    /\ pull = "settling" /\ waiting /\ ~quiet => again
    /\ WaitingIsServed

StreamInv == Lines /\ Flow /\ Content

\* The units of a body are finitely many, and no more than two for each line.
LEMMA UnitFacts ==
  ASSUME Lines
  PROVE  /\ Units \in Nat /\ Units <= 2 * Len(body) /\ (Units \div 2) <= Len(body) /\ Len(body) \in Nat
         /\ read \in Nat /\ read <= Units
         /\ Units = 0 => Len(body) = 0
<1>1. body \in Bodies /\ cut \in BOOLEAN /\ (body = <<>> => ~cut) /\ read \in 0..Units
  BY DEF Lines
<1>2. Len(body) \in Nat /\ (Len(body) = 0 => body = <<>>)
  <2>1. PICK n \in 0..MaxLines : body \in [1..n -> Payloads]
    BY <1>1 DEF Bodies
  <2>2. n \in Nat
    BY StreamAssumption DEF StreamAssumption
  <2>3. body \in Seq(Payloads)
    BY <2>1, <2>2, SeqDef
  <2>4. QED
    BY <2>3, EmptySeq
<1>3. Units = 2 * Len(body) - (IF cut THEN 1 ELSE 0)
  BY DEF Units
<1>4. Units \in Nat /\ Units <= 2 * Len(body) /\ (Units = 0 => Len(body) = 0)
  BY <1>1, <1>2, <1>3
<1>5. (Units \div 2) <= Len(body)
  <2>1. Units = 2 * (Units \div 2) + (Units % 2) /\ (Units \div 2) \in Nat /\ Units % 2 \in {0, 1}
    BY <1>4, Halves
  <2>2. QED
    BY <2>1, <1>2, <1>4
<1>6. QED
  BY <1>1, <1>2, <1>4, <1>5

\* The first event is sound before any line.
LEMMA SoundStart ==
  Sound(body, [text |-> FALSE, tools |-> <<>>, done |-> FALSE, events |-> <<Begin>>], 0)
<1> DEFINE e == <<Begin>>
           t == [text |-> FALSE, tools |-> <<>>, done |-> FALSE, events |-> e]
<1>1. Begin \in Events /\ Begin.event = "begin"
  BY EventFacts DEF Kinds
<1>2. Len(e) = 1 /\ e \in Seq(Events) /\ e # <<>> /\ e[1] = Begin
  BY <1>1
<1>3. t \in Translations
  BY <1>2 DEF Translations
<1> HIDE DEF e
<1>4. \A j \in 1..Len(e) : e[j].event = "begin"
  <2>1. \A j \in 1..Len(e) : j = 1
    BY <1>2
  <2>2. QED
    BY <2>1, <1>1, <1>2
<1>5. \A i : Where(e, "open", i) = {} /\ Where(e, "delta", i) = {}
  BY <1>4, EventFacts DEF Where
<1>6. Going(e)
  BY <1>2, <1>4, <1>5 DEF Going, Brackets
<1>7. 1..0 = {}
  OBVIOUS
<1>8. \A i : ~Contains(<<>>, i)
  BY DEF Contains
<1>9. Flags(body, t, 0)
  BY <1>5, <1>7, <1>8 DEF Flags
<1>10. Matches(body, e, 0)
  <2>1. DeltasIn(e, Len(e)) = {}
    BY <1>4 DEF DeltasIn
  <2>2. Received(body, 0) = {}
    BY <1>7 DEF Received
  <2>3. QED
    BY <2>1, <2>2 DEF Matches
<1>11. QED
  BY <1>3, <1>6, <1>7, <1>9, <1>10 DEF Sound, e

\* The invariant holds at the start.
LEMMA Starts == Init => StreamInv
<1> SUFFICES ASSUME Init
             PROVE  StreamInv
  OBVIOUS
<1>1. body \in Bodies /\ cut \in BOOLEAN /\ (body = <<>> => ~cut) /\ read = 0 /\ buffer = <<>>
  BY DEF Init
<1>2. Lines
  <2>1. Units \in Nat
    <3>1. PICK n \in 0..MaxLines : body \in [1..n -> Payloads]
      BY <1>1 DEF Bodies
    <3>2. n \in Nat
      BY StreamAssumption DEF StreamAssumption
    <3>3. body \in Seq(Payloads)
      BY <3>1, <3>2, SeqDef
    <3>4. Len(body) \in Nat /\ (Len(body) = 0 => body = <<>>)
      BY <3>3, EmptySeq
    <3>5. QED
      BY <3>4, <1>1 DEF Units
  <2>2. QED
    BY <2>1, <1>1 DEF Lines, Pending
<1>3. Flow
  BY DEF Init, Flow, WaitingIsServed
<1>4. Content
  <2>1. <<>> \in Seq(Events)
    OBVIOUS
  <2>2. QED
    BY <2>1 DEF Init, Content
<1>5. QED
  BY <1>2, <1>3, <1>4 DEF StreamInv

\* What the stream is sent before the next chunk.
Before == [text |-> text, tools |-> tools, done |-> done, events |-> IF read = 0 THEN <<Begin>> ELSE out]

\* What a chunk enqueues: the translation of its lines, and nothing only if it has
\* nothing to say.
LEMMA ChunkTranslates ==
  ASSUME StreamInv, NEW k \in 1..(2 * MaxLines), state = "open", read + k <= Units
  PROVE  LET after == TranslateAll(Before, buffer \o Slice(read + 1, read + k)) IN
         /\ Sound(body, after, (read + k) \div 2)
         /\ Len(after.events) \in Nat /\ Len(out) \in Nat /\ Len(after.events) - Len(out) \in Nat
         /\ Len(after.events) - Len(out) = 0 <=> after.events = out
         /\ Left(buffer \o Slice(read + 1, read + k)) = Pending(read + k)
<1> DEFINE u == buffer \o Slice(read + 1, read + k)
           after == TranslateAll(Before, u)
           l == read \div 2
           m == read + k - 2 * l
<1>1. body \in Bodies /\ buffer = Pending(read) /\ k \in Nat \ {0} /\ read \in Nat /\ Units \in Nat
      /\ Units <= 2 * Len(body) /\ Len(body) \in Nat
  BY UnitFacts, StreamAssumption DEF StreamInv, Lines, StreamAssumption
<1>2. PICK e \in Seq(Events) :
        /\ read = 0 => e = <<>> /\ text = FALSE /\ tools = <<>> /\ done = FALSE
        /\ read # 0 => Sound(body, [text |-> text, tools |-> tools, done |-> done, events |-> e], read \div 2)
        /\ out = e
  BY Zenon DEF StreamInv, Content
<1>3. e \in Seq(Events) /\ out = e
  BY <1>2
<1>4. Sound(body, Before, l)
  <2>1. CASE read = 0
    <3>1. Before = [text |-> FALSE, tools |-> <<>>, done |-> FALSE, events |-> <<Begin>>]
      <4>1. text = FALSE /\ tools = <<>> /\ done = FALSE
        BY <1>2, <2>1
      <4>2. QED
        BY <2>1, <4>1 DEF Before
    <3>2. l = 0
      BY <2>1
    <3>3. QED
      BY <3>1, <3>2, SoundStart
  <2>2. CASE read # 0
    BY <2>2, <1>2, <1>3 DEF Before
  <2>3. QED
    BY <2>1, <2>2
<1>5. Halved(u, l, m) /\ Left(u) = Pending(read + k)
  BY <1>1, ChunkUnits
<1>6. l \in Nat /\ m \in Nat /\ read + k = 2 * l + m
  BY <1>1, Halves
<1>7. (read + k) \div 2 = l + (m \div 2)
  <2> HIDE DEF l, m
  <2>1. QED
    BY <1>6, Evenly
<1>8. l + (m \div 2) <= Len(body)
  <2>1. read + k \in Nat /\ read + k = 2 * ((read + k) \div 2) + ((read + k) % 2)
        /\ ((read + k) \div 2) \in Nat /\ (read + k) % 2 \in {0, 1}
    BY <1>1, Halves
  <2>2. ((read + k) \div 2) <= Len(body)
    BY <1>1, <2>1
  <2>3. QED
    BY <1>7, <2>2
<1> HIDE DEF u, l, m
<1>9. Sound(body, after, l + (m \div 2)) /\ (after.events = Before.events \/ Len(Before.events) < Len(after.events))
  <2> HIDE DEF Before
  <2>1. QED
    BY <1>1, <1>4, <1>5, <1>6, <1>8, ChunkStep
<1> HIDE DEF after
<1>10. Len(after.events) \in Nat
  BY <1>9 DEF Sound, Translations
<1>11. Before.events = IF read = 0 THEN <<Begin>> ELSE out
  BY DEF Before
<1>12. Len(out) \in Nat /\ Len(after.events) - Len(out) \in Nat
       /\ (Len(after.events) - Len(out) = 0 <=> after.events = out)
  <2>1. Len(out) \in Nat
    BY <1>3
  <2>2. CASE read = 0
    <3>1. out = <<>> /\ Len(out) = 0
      BY <2>2, <1>2, <1>3
    <3>2. Before.events = <<Begin>> /\ Len(Before.events) = 1
      BY <2>2, <1>11
    <3>3. Len(after.events) >= 1
      <4>1. CASE after.events = Before.events
        BY <4>1, <3>2
      <4>2. CASE Len(Before.events) < Len(after.events)
        <5>1. 1 < Len(after.events)
          BY <4>2, <3>2
        <5>2. QED
          BY <5>1, <1>10
      <4>3. QED
        BY <4>1, <4>2, <1>9
    <3>4. after.events # out
      BY <3>1, <3>3
    <3>5. QED
      BY <3>1, <3>3, <3>4, <1>10
  <2>3. CASE read # 0
    <3>1. Before.events = out
      BY <2>3, <1>11
    <3>2. after.events = out \/ Len(out) < Len(after.events)
      BY <3>1, <1>9
    <3>3. CASE after.events = out
      BY <3>3, <2>1
    <3>4. CASE Len(out) < Len(after.events)
      <4>1. after.events # out
        BY <3>4, <2>1
      <4>2. QED
        BY <3>4, <4>1, <2>1, <1>10
    <3>5. QED
      BY <3>2, <3>3, <3>4
  <2>4. QED
    BY <2>2, <2>3
<1>13. QED
  BY <1>5, <1>7, <1>9, <1>10, <1>12 DEF u, after

\* A chunk keeps the invariant.
LEMMA ChunkKeeps ==
  ASSUME StreamInv, NEW k \in 1..(2 * MaxLines), Chunk(k)
  PROVE  StreamInv'
<1> DEFINE u == buffer \o Slice(read + 1, read + k)
           after == TranslateAll(Before, u)
           n == Len(after.events) - Len(out)
<1>1. /\ pull = "reading" /\ state = "open" /\ read + k <= Units
      /\ text' = after.text /\ tools' = after.tools /\ done' = after.done /\ out' = after.events
      /\ Enqueue(n) /\ buffer' = Left(u) /\ (quiet' = (after.events = out))
      /\ read' = read + k /\ pull' = "settling"
      /\ body' = body /\ cut' = cut /\ state' = state
  BY Zenon DEF Chunk, Before
<1>2. /\ Sound(body, after, (read + k) \div 2)
      /\ n \in Nat /\ (n = 0 <=> after.events = out)
      /\ Left(u) = Pending(read + k)
  BY <1>1, ChunkTranslates
<1> HIDE DEF after, n, u
<1>3. read \in Nat /\ k \in Nat /\ k >= 1 /\ Units \in Nat
  BY UnitFacts, StreamAssumption DEF StreamInv, StreamAssumption
<1>4. Lines'
  <2>1. Units' = Units
    BY <1>1 DEF Units
  <2>2. read' \in 0..Units
    BY <1>1, <1>3
  <2>3. buffer' = Pending(read')
    BY <1>1, <1>2
  <2>4. body' \in Bodies /\ cut' \in BOOLEAN /\ (body' = <<>> => ~cut')
    BY <1>1 DEF StreamInv, Lines
  <2>5. QED
    BY <2>1, <2>2, <2>3, <2>4 DEF Lines
<1>5. Flow'
  <2>1. queued \in Nat /\ waiting \in BOOLEAN /\ again \in BOOLEAN /\ (waiting => queued = 0)
    BY DEF StreamInv, Flow
  <2>2. /\ queued' = queued + n - (IF waiting /\ n > 0 THEN 1 ELSE 0)
        /\ waiting' = (waiting /\ n = 0)
        /\ again' = (again \/ (waiting /\ n > 0))
    BY <1>1, Zenon DEF Enqueue
  <2>3. queued' \in Nat
    BY <2>1, <2>2, <1>2
  <2>4. waiting' \in BOOLEAN /\ again' \in BOOLEAN /\ quiet' \in BOOLEAN
    BY <2>2, <1>1, Zenon
  <2>5. waiting' => waiting /\ n = 0 /\ quiet'
    BY <2>2, <1>1, <1>2, Zenon
  <2>6. waiting' => state' = "open" /\ queued' = 0
    <3>1. waiting /\ n = 0 => queued' = 0
      BY <2>1, <2>2, <1>2
    <3>2. QED
      BY <3>1, <2>5, <1>1, Zenon
  <2>7. QED
    BY <2>3, <2>4, <2>5, <2>6, <1>1 DEF Flow, WaitingIsServed
<1>6. Content'
  <2>1. after \in Translations /\ after = [text |-> after.text, tools |-> after.tools, done |-> after.done, events |-> after.events]
    BY <1>2 DEF Sound, Translations
  <2>2. after.events \in Seq(Events)
    BY <2>1 DEF Translations
  <2>3. read' # 0
    BY <1>1, <1>3
  <2>4. [text |-> text', tools |-> tools', done |-> done', events |-> after.events] = after
    BY <2>1, <1>1
  <2>5. Sound(body', [text |-> text', tools |-> tools', done |-> done', events |-> after.events], read' \div 2)
    BY <2>4, <1>1, <1>2
  <2>6. out' = after.events /\ state' \notin {"closing", "closed"}
    BY <1>1
  <2>7. QED
    BY <2>2, <2>3, <2>5, <2>6, Zenon DEF Content
<1>7. QED
  BY <1>4, <1>5, <1>6 DEF StreamInv

\* What the body says stays as long as the body and the units read do.
LEMMA LinesKept ==
  ASSUME Lines, UNCHANGED <<body, cut, read, buffer>>
  PROVE  Lines'
<1>1. body' = body /\ cut' = cut /\ read' = read /\ buffer' = buffer
  OBVIOUS
<1>2. Units' = Units
  BY <1>1 DEF Units
<1>3. QED
  BY <1>1, <1>2 DEF Lines

\* The events sent stay true while only the stream around them changes.
LEMMA ContentKept ==
  ASSUME Content, UNCHANGED <<body, cut, read, text, tools, done, out>>,
         state' = state \/ (state = "open" /\ state' = "errored") \/ (state = "closing" /\ state' = "closed")
            \/ state' = "cancelled"
  PROVE  Content'
<1>1. /\ body' = body /\ cut' = cut /\ read' = read /\ text' = text
      /\ tools' = tools /\ done' = done /\ out' = out
  OBVIOUS
<1>2. Units' = Units
  BY <1>1 DEF Units
<1>3. PICK e \in Seq(Events) :
        /\ read = 0 => e = <<>> /\ text = FALSE /\ tools = <<>> /\ done = FALSE
        /\ read # 0 => Sound(body, [text |-> text, tools |-> tools, done |-> done, events |-> e], read \div 2)
        /\ out = e \/ (out = Append(e, Fail) /\ ~done /\ state \notin {"open", "errored"})
        /\ state \in {"closing", "closed"} => read = Units /\ (done \/ out = Append(e, Fail))
  BY DEF Content
<1>4. /\ out' = e \/ (out' = Append(e, Fail) /\ ~done' /\ state' \notin {"open", "errored"})
      /\ state' \in {"closing", "closed"} => read' = Units' /\ (done' \/ out' = Append(e, Fail))
  BY <1>1, <1>2, <1>3
<1>5. /\ read' = 0 => e = <<>> /\ text' = FALSE /\ tools' = <<>> /\ done' = FALSE
      /\ read' # 0 => Sound(body', [text |-> text', tools |-> tools', done |-> done', events |-> e], read' \div 2)
  BY <1>1, <1>3
<1>6. QED
  BY <1>4, <1>5, Zenon DEF Content

\* The end of the body keeps the invariant.
LEMMA BodyEndsKeeps ==
  ASSUME StreamInv, BodyEnds
  PROVE  StreamInv'
<1>1. /\ pull = "reading" /\ state = "open" /\ read = Units
      /\ out' = (IF done THEN out ELSE Append(out, Fail))
      /\ waiting' = FALSE /\ pull' = "idle"
      /\ body' = body /\ cut' = cut /\ read' = read /\ buffer' = buffer /\ text' = text
      /\ tools' = tools /\ done' = done /\ again' = again /\ quiet' = quiet
      /\ LET left == queued + (IF done THEN 0 ELSE 1)
         IN  queued' = (IF waiting /\ left > 0 THEN left - 1 ELSE left)
      /\ state' = (IF queued' = 0 THEN "closed" ELSE "closing")
  BY DEF BodyEnds
<1>2. Lines'
  BY <1>1, LinesKept DEF StreamInv
<1>3. Flow'
  <2>1. queued \in Nat /\ again \in BOOLEAN /\ quiet \in BOOLEAN
    BY DEF StreamInv, Flow
  <2>2. queued' \in Nat
    BY <1>1, <2>1
  <2>3. state' \in {"closed", "closing"} /\ (state' = "closing" => queued' # 0)
    BY <1>1
  <2>4. state' = "closing" => queued' > 0
    BY <2>2, <2>3
  <2>5. QED
    BY <1>1, <2>1, <2>2, <2>3, <2>4 DEF Flow, WaitingIsServed
<1>4. Content'
  <2>1. PICK e \in Seq(Events) :
          /\ read = 0 => e = <<>> /\ text = FALSE /\ tools = <<>> /\ done = FALSE
          /\ read # 0 => Sound(body, [text |-> text, tools |-> tools, done |-> done, events |-> e], read \div 2)
          /\ out = e
    BY <1>1 DEF StreamInv, Content
  <2>2. Units' = Units
    BY <1>1 DEF Units
  <2>3. state' \notin {"open", "errored"}
    BY <1>1
  <2>4. /\ out' = e \/ (out' = Append(e, Fail) /\ ~done')
        /\ done' \/ out' = Append(e, Fail)
    BY <1>1, <2>1
  <2>5. /\ read' = 0 => e = <<>> /\ text' = FALSE /\ tools' = <<>> /\ done' = FALSE
        /\ read' # 0 => Sound(body', [text |-> text', tools |-> tools', done |-> done', events |-> e], read' \div 2)
    BY <1>1, <2>1
  <2>6. read' = Units'
    BY <1>1, <2>2
  <2>7. QED
    BY <2>3, <2>4, <2>5, <2>6, Zenon DEF Content
<1>5. QED
  BY <1>2, <1>3, <1>4 DEF StreamInv

\* A broken connection does.
LEMMA BodyFailsKeeps ==
  ASSUME StreamInv, BodyFails
  PROVE  StreamInv'
<1>1. /\ state = "open" /\ state' = "errored" /\ waiting' = FALSE /\ queued' = 0 /\ pull' = "idle"
      /\ UNCHANGED <<body, cut, read, buffer>>
      /\ UNCHANGED <<body, cut, read, text, tools, done, out>>
      /\ again' = again /\ quiet' = quiet
  BY DEF BodyFails, translation
<1>2. Lines'
  BY <1>1, LinesKept DEF StreamInv
<1>3. Flow'
  BY <1>1 DEF StreamInv, Flow, WaitingIsServed
<1>4. Content'
  BY <1>1, ContentKept DEF StreamInv
<1>5. QED
  BY <1>2, <1>3, <1>4 DEF StreamInv

\* The end of a pull does: a reader that waits has asked for another.
LEMMA SettleKeeps ==
  ASSUME StreamInv, Settle
  PROVE  StreamInv'
<1>1. /\ pull = "settling" /\ again' = FALSE
      /\ pull' = IF again /\ state = "open" /\ ShouldPull(waiting, queued) THEN "reading" ELSE "idle"
      /\ UNCHANGED <<body, cut, read, buffer>>
      /\ UNCHANGED <<body, cut, read, text, tools, done, out>>
      /\ queued' = queued /\ waiting' = waiting /\ state' = state /\ quiet' = quiet
  BY DEF Settle, translation
<1>2. Lines'
  BY <1>1, LinesKept DEF StreamInv
<1>3. Flow'
  <2>1. waiting /\ ~quiet => pull' = "reading"
    BY <1>1 DEF StreamInv, Flow, ShouldPull
  <2>2. QED
    BY <1>1, <2>1 DEF StreamInv, Flow, WaitingIsServed
<1>4. Content'
  BY <1>1, ContentKept DEF StreamInv
<1>5. QED
  BY <1>2, <1>3, <1>4 DEF StreamInv

\* A read does: it takes what is queued, or asks.
LEMMA ReadKeeps ==
  ASSUME StreamInv, Read
  PROVE  StreamInv'
<1>1. /\ state \in {"open", "closing"} /\ ~waiting
      /\ queued' = (IF queued > 0 THEN queued - 1 ELSE 0)
      /\ waiting' = (queued = 0)
      /\ state' = (IF state = "closing" /\ queued' = 0 THEN "closed" ELSE state)
      /\ UNCHANGED <<body, cut, read, buffer>>
      /\ UNCHANGED <<body, cut, read, text, tools, done, out>>
      /\ quiet' = quiet
  BY DEF Read, translation
<1>2. LET asks == state = "open" /\ ShouldPull(waiting', queued') IN
      /\ pull' = (IF asks /\ pull = "idle" THEN "reading" ELSE pull)
      /\ again' = (again \/ (asks /\ pull # "idle"))
  BY DEF Read
<1>3. Lines'
  BY <1>1, LinesKept DEF StreamInv
<1>4. Flow'
  <2>1. /\ queued \in Nat /\ again \in BOOLEAN /\ quiet \in BOOLEAN /\ pull \in {"idle", "reading", "settling"}
        /\ state = "closing" => queued > 0
    BY DEF StreamInv, Flow
  <2>2. queued' \in Nat /\ (waiting' <=> queued = 0) /\ (queued = 0 => queued' = 0) /\ waiting' \in BOOLEAN
    <3>1. queued' \in Nat /\ (queued = 0 => queued' = 0)
      BY <1>1, <2>1
    <3>2. (waiting' <=> queued = 0) /\ waiting' \in BOOLEAN
      BY <1>1, Zenon
    <3>3. QED
      BY <3>1, <3>2
  <2>3. waiting' => state = "open" /\ state' = "open" /\ queued' = 0
    BY <1>1, <2>1, <2>2
  <2>4. state' \in {"open", "closing", "closed"} /\ (state' = "closing" => queued' > 0)
    BY <1>1, <2>1, <2>2
  <2>5. pull' \in {"idle", "reading", "settling"} /\ again' \in BOOLEAN
    BY <1>2, <2>1
  <2>6. waiting' => pull' # "idle" /\ (pull' = "settling" => again')
    BY <1>2, <2>3 DEF ShouldPull
  <2>7. QED
    BY <1>1, <2>1, <2>2, <2>3, <2>4, <2>5, <2>6 DEF Flow, WaitingIsServed
<1>5. Content'
  BY <1>1, ContentKept DEF StreamInv
<1>6. QED
  BY <1>3, <1>4, <1>5 DEF StreamInv

\* A reader that leaves does.
LEMMA CancelKeeps ==
  ASSUME StreamInv, Cancel
  PROVE  StreamInv'
<1>1. /\ state' = "cancelled" /\ queued' = 0 /\ waiting' = FALSE
      /\ UNCHANGED <<body, cut, read, buffer>>
      /\ UNCHANGED <<body, cut, read, text, tools, done, out>>
      /\ pull' = pull /\ again' = again /\ quiet' = quiet
  BY DEF Cancel, translation
<1>2. Lines'
  BY <1>1, LinesKept DEF StreamInv
<1>3. Flow'
  BY <1>1 DEF StreamInv, Flow, WaitingIsServed
<1>4. Content'
  BY <1>1, ContentKept DEF StreamInv
<1>5. QED
  BY <1>2, <1>3, <1>4 DEF StreamInv

\* And nothing happening does.
LEMMA StutterKeeps ==
  ASSUME StreamInv, UNCHANGED vars
  PROVE  StreamInv'
<1>1. /\ UNCHANGED <<body, cut, read, buffer>>
      /\ UNCHANGED <<body, cut, read, text, tools, done, out>>
      /\ queued' = queued /\ waiting' = waiting /\ state' = state /\ quiet' = quiet
      /\ pull' = pull /\ again' = again
  BY DEF vars, translation, stream
<1>2. Lines'
  BY <1>1, LinesKept DEF StreamInv
<1>3. Flow'
  BY <1>1 DEF StreamInv, Flow, WaitingIsServed
<1>4. Content'
  BY <1>1, ContentKept DEF StreamInv
<1>5. QED
  BY <1>2, <1>3, <1>4 DEF StreamInv

\* The invariant: the units read and the buffer (Lines), the stream around the
\* translation (Flow), and that the events sent are the translation of the lines received
\* (Content), for responsesStream and anthropicStream of formats.ts.
THEOREM StreamInvariant == Spec => []StreamInv
<1>1. StreamInv /\ [Next]_vars => StreamInv'
  <2> SUFFICES ASSUME StreamInv, [Next]_vars
               PROVE  StreamInv'
    OBVIOUS
  <2>1. CASE \E k \in 1..(2 * MaxLines) : Chunk(k)
    BY <2>1, ChunkKeeps
  <2>2. CASE BodyEnds
    BY <2>2, BodyEndsKeeps
  <2>3. CASE BodyFails
    BY <2>3, BodyFailsKeeps
  <2>4. CASE Settle
    BY <2>4, SettleKeeps
  <2>5. CASE Read
    BY <2>5, ReadKeeps
  <2>6. CASE Cancel
    BY <2>6, CancelKeeps
  <2>7. CASE UNCHANGED vars
    BY <2>7, StutterKeeps
  <2>8. QED
    BY <2>1, <2>2, <2>3, <2>4, <2>5, <2>6, <2>7 DEF Next
<1>2. QED
  BY Starts, <1>1, PTL DEF Spec

-----------------------------------------------------------------------------
(* What the invariant gives *)

\* What the invariant says of the events sent, before the first chunk and after.
LEMMA SentFacts ==
  ASSUME StreamInv
  PROVE  \E e \in Seq(Events) :
            /\ out = e \/ (out = Append(e, Fail) /\ done = FALSE /\ state \notin {"open", "errored"})
            /\ state \in {"closing", "closed"} => read = Units /\ (done \/ out = Append(e, Fail))
            /\ Matches(body, e, read \div 2)
            /\ done <=> \E m \in 1..(read \div 2) : body[m].kind = "done"
            /\ text \in BOOLEAN /\ done \in BOOLEAN /\ tools \in Seq(Tools)
            /\ IF done THEN Complete(e) ELSE e = <<>> \/ Going(e)
<1>1. PICK e \in Seq(Events) :
        /\ read = 0 => e = <<>> /\ text = FALSE /\ tools = <<>> /\ done = FALSE
        /\ read # 0 => Sound(body, [text |-> text, tools |-> tools, done |-> done, events |-> e], read \div 2)
        /\ out = e \/ (out = Append(e, Fail) /\ ~done /\ state \notin {"open", "errored"})
        /\ state \in {"closing", "closed"} => read = Units /\ (done \/ out = Append(e, Fail))
  BY DEF StreamInv, Content
<1>2. /\ Matches(body, e, read \div 2)
      /\ done <=> \E m \in 1..(read \div 2) : body[m].kind = "done"
      /\ text \in BOOLEAN /\ done \in BOOLEAN /\ tools \in Seq(Tools)
      /\ IF done THEN Complete(e) ELSE e = <<>> \/ Going(e)
  <2>1. CASE read = 0
    <3>1. e = <<>> /\ text = FALSE /\ tools = <<>> /\ done = FALSE /\ read \div 2 = 0
      BY <2>1, <1>1
    <3>2. 1..0 = {}
      OBVIOUS
    <3>3. Matches(body, <<>>, 0)
      <4>1. DeltasIn(<<>>, Len(<<>>)) = {} /\ Received(body, 0) = {}
        BY <3>2 DEF DeltasIn, Received
      <4>2. QED
        BY <4>1 DEF Matches
    <3>4. ~ \E m \in 1..0 : body[m].kind = "done"
      BY <3>2
    <3>5. <<>> \in Seq(Tools)
      OBVIOUS
    <3>6. QED
      BY <3>1, <3>3, <3>4, <3>5
  <2>2. CASE read # 0
    <3> DEFINE t == [text |-> text, tools |-> tools, done |-> done, events |-> e]
    <3>1. Sound(body, t, read \div 2)
      BY <2>2, <1>1
    <3>2. t.text = text /\ t.tools = tools /\ t.done = done /\ t.events = e
      OBVIOUS
    <3> HIDE DEF t
    <3>3. t.text \in BOOLEAN /\ t.done \in BOOLEAN /\ t.tools \in Seq(Tools)
      BY <3>1 DEF Sound, Translations
    <3>4. QED
      BY <3>1, <3>2, <3>3 DEF Sound
  <2>3. QED
    BY <2>1, <2>2
<1>3. out = e \/ (out = Append(e, Fail) /\ done = FALSE /\ state \notin {"open", "errored"})
  BY <1>1, <1>2
<1>4. QED
  BY <1>1, <1>2, <1>3

\* The event of a failure comes last and touches no item.
LEMMA FailEvent ==
  ASSUME NEW e \in Seq(Events)
  PROVE  LET f == Append(e, Fail) IN
         /\ f \in Seq(Events) /\ Len(e) \in Nat /\ Len(f) = Len(e) + 1
         /\ f # <<>> /\ Last(f) = Fail /\ f[Len(e) + 1] = Fail
         /\ \A j \in 1..Len(e) : f[j] = e[j]
         /\ \A i, l : l # "fail" => Where(f, l, i) = Where(e, l, i)
<1>1. Fail \in Events /\ Fail = Event("fail", Text) /\ "fail" \in Kinds /\ Text \in Items
  BY EventFacts DEF Kinds
<1>2. \A l, x : l # "fail" => Where(Append(e, Fail), l, x) = Where(e, l, x)
  <2>1. ASSUME NEW l, NEW x, l # "fail"
        PROVE  Where(Append(e, Fail), l, x) = Where(e, l, x)
    <3>1. "fail" \in Kinds /\ Text \in Items
      BY <1>1
    <3>2. Where(Append(e, Event("fail", Text)), l, x) =
             Where(e, l, x) \cup (IF l = "fail" /\ x = Text THEN {Len(e) + 1} ELSE {})
      BY <3>1, WhereAppended
    <3>3. QED
      BY <3>2, <2>1, <1>1
  <2>2. QED
    BY <2>1
<1> HIDE DEF Fail, Events
<1>3. LET f == Append(e, Fail) IN
         /\ f \in Seq(Events) /\ Len(e) \in Nat /\ Len(f) = Len(e) + 1
         /\ f[Len(e) + 1] = Fail
         /\ \A j \in 1..Len(e) : f[j] = e[j]
  BY <1>1, Appends
<1>4. LET f == Append(e, Fail) IN f # <<>> /\ Last(f) = Fail
  BY <1>3 DEF Last
<1>5. QED
  BY <1>2, <1>3, <1>4

\* The variables keep their types, the buffer holds at most one line's start, and an
\* event is of the kinds formats.ts enqueues.
THEOREM StreamTypes == Spec => []TypeOK
<1>1. StreamInv => TypeOK
  <2> SUFFICES ASSUME StreamInv
               PROVE  TypeOK
    OBVIOUS
  <2>1. read \in 0..Units /\ Len(buffer) \in 0..1
    <3>1. Len(Pending(read)) \in 0..1
      BY DEF Pending
    <3>2. QED
      BY <3>1 DEF StreamInv, Lines
  <2>2. PICK e \in Seq(Events) :
          /\ out = e \/ out = Append(e, Fail)
          /\ text \in BOOLEAN /\ done \in BOOLEAN /\ tools \in Seq(Tools)
    BY SentFacts
  <2>3. out \in Seq(Events)
    BY <2>2, FailEvent
  <2>4. \A j \in 1..Len(out) : out[j].event \in Kinds
    <3>1. \A x \in Events : x.event \in Kinds
      BY EventFacts
    <3> HIDE DEF Events
    <3>2. QED
      BY <2>3, <3>1
  <2>5. \A j \in 1..Len(tools) : tools[j] \in Tools
    BY <2>2
  <2>6. QED
    BY <2>1, <2>2, <2>4, <2>5 DEF TypeOK, StreamInv, Flow, Kinds
<1>2. QED
  BY StreamInvariant, <1>1, PTL

\* However the body is cut into chunks, the reader is sent the content of every line
\* received, once and in order (formats.ts buffer, lines.pop()).
THEOREM DeltasArrive == Spec => []DeltasAsReceived
<1>1. StreamInv => DeltasAsReceived
  <2> SUFFICES ASSUME StreamInv
               PROVE  DeltasAsReceived
    OBVIOUS
  <2>1. PICK e \in Seq(Events) : (out = e \/ out = Append(e, Fail)) /\ Matches(body, e, read \div 2)
    BY SentFacts
  <2>2. read \div 2 \in Nat
    BY UnitFacts, Halves DEF StreamInv
  <2>3. Matches(body, out, read \div 2)
    <3>1. CASE out = e
      BY <3>1, <2>1
    <3>2. CASE out = Append(e, Fail)
      <4>1. /\ Len(e) \in Nat /\ Len(out) = Len(e) + 1 /\ out[Len(e) + 1] = Fail
            /\ \A j \in 1..Len(e) : out[j] = e[j]
        BY <3>2, FailEvent
      <4>2. Fail.event = "fail"
        BY EventFacts
      <4>3. \A j \in (Len(e) + 1)..Len(out) : out[j].event # "delta"
        <5>1. \A j \in (Len(e) + 1)..Len(out) : j = Len(e) + 1
          BY <4>1
        <5>2. QED
          BY <5>1, <4>1, <4>2
      <4>4. Len(out) \in Nat /\ Len(e) <= Len(out)
        BY <4>1
      <4>5. QED
        BY <4>1, <4>3, <4>4, <2>1, <2>2, MatchesLonger
    <3>3. QED
      BY <3>1, <3>2, <2>1
  <2>4. \A n : DeltasUpTo(n) = DeltasIn(out, n)
    BY DEF DeltasUpTo, DeltasIn
  <2>5. \A l : ReceivedUpTo(l) = Received(body, l)
    BY DEF ReceivedUpTo, Received
  <2>6. QED
    BY <2>3, <2>4, <2>5 DEF DeltasAsReceived, Matches
<1>2. QED
  BY StreamInvariant, <1>1, PTL

\* The last of a sequence.
LEMMA LastOf ==
  ASSUME NEW e \in Seq(Events), e # <<>>
  PROVE  Last(e) = e[Len(e)] /\ Len(e) \in Nat /\ Len(e) >= 1
  BY EmptySeq DEF Last

\* A stream that is over says "completed" exactly if [DONE] arrived with its line break
\* (formats.ts completed, stopped).
THEOREM TruthfulEnd == Spec => []EndIsTruthful
<1>1. StreamInv => EndIsTruthful
  <2> SUFFICES ASSUME StreamInv, state \in {"closing", "closed"}
               PROVE  Last(out) = IF \E j \in 1..(Units \div 2) : body[j].kind = "done" THEN End ELSE Fail
    BY DEF EndIsTruthful
  <2>1. PICK e \in Seq(Events) :
          /\ out = e \/ (out = Append(e, Fail) /\ done = FALSE)
          /\ read = Units /\ (done \/ out = Append(e, Fail))
          /\ done <=> \E m \in 1..(read \div 2) : body[m].kind = "done"
          /\ done \in BOOLEAN
          /\ done => Complete(e)
    BY SentFacts
  <2>2. CASE done
    <3>1. out = e /\ Complete(e)
      BY <2>1, <2>2
    <3>2. Last(out) = End
      BY <3>1, LastOf DEF Complete
    <3>3. QED
      BY <3>2, <2>1, <2>2
  <2>3. CASE ~done
    <3>1. Last(out) = Fail
      BY <2>1, <2>3, FailEvent
    <3>2. QED
      BY <3>1, <2>1, <2>3
  <2>4. QED
    BY <2>2, <2>3
<1>2. QED
  BY StreamInvariant, <1>1, PTL

\* A reader that waits has a pull under way, unless the last chunk enqueued nothing
\* (formats.ts pull).
THEOREM WaiterIsServed == Spec => []WaitingIsServed
<1>1. StreamInv => WaitingIsServed
  BY DEF StreamInv, Flow
<1>2. QED
  BY StreamInvariant, <1>1, PTL

\* Bracketed, of any sequence of events.
WellNested(o) ==
    /\ o # <<>> => o[1] = Begin \/ o = <<Fail>>
    /\ \A j \in 1..Len(o) : o[j] \in {End, Fail} => j = Len(o)
    /\ \A i \in Items :
        /\ \A j \in Where(o, "open", i), k \in Where(o, "open", i) : j = k
        /\ \A j \in Where(o, "delta", i) : \E k \in Where(o, "open", i) : k < j
        /\ \A j \in Where(o, "close", i), k \in Where(o, "delta", i) \cup Where(o, "open", i) : k < j
        /\ o # <<>> /\ Last(o) = End /\ Where(o, "open", i) # {} => Where(o, "close", i) # {}

\* A stream that was ended by [DONE] is well bracketed.
LEMMA NestedComplete ==
  ASSUME NEW e \in Seq(Events), Complete(e)
  PROVE  WellNested(e)
  BY DEF Complete, Brackets, WellNested

\* A stream that goes on is, and one that fails.
LEMMA NestedGoing ==
  ASSUME NEW e \in Seq(Events), Going(e)
  PROVE  WellNested(e) /\ WellNested(Append(e, Fail))
<1> DEFINE f == Append(e, Fail)
<1>1. /\ End.event = "end" /\ Fail.event = "fail" /\ End # Fail
      /\ \A k, i : Event(k, i).event = k
  BY EventFacts
<1>2. /\ e # <<>> /\ e[1] = Begin /\ Brackets(e) /\ Len(e) \in Nat /\ Len(e) >= 1 /\ Last(e) = e[Len(e)]
      /\ \A j \in 1..Len(e) : e[j].event \in {"begin", "open", "delta"}
  BY LastOf DEF Going
<1>3. \A j \in 1..Len(e) : e[j] \notin {End, Fail}
  BY <1>1, <1>2
<1>4. \A i : Where(e, "close", i) = {}
  BY <1>1, <1>2 DEF Where
<1>5. Last(e) # End
  BY <1>2, <1>3
<1>6. WellNested(e)
  BY <1>2, <1>3, <1>4, <1>5 DEF WellNested, Brackets
<1>7. /\ f \in Seq(Events) /\ Len(f) = Len(e) + 1
      /\ f # <<>> /\ Last(f) = Fail
      /\ \A j \in 1..Len(e) : f[j] = e[j]
      /\ \A i, l : l # "fail" => Where(f, l, i) = Where(e, l, i)
  BY FailEvent
<1> HIDE DEF f
<1>8. f[1] = Begin
  BY <1>2, <1>7
<1>9. ASSUME NEW j \in 1..Len(f), f[j] \in {End, Fail}
      PROVE  j = Len(f)
  <2>1. j \notin 1..Len(e)
    BY <1>3, <1>7, <1>9
  <2>2. QED
    BY <2>1, <1>2, <1>7
<1>10. \A i : /\ Where(f, "open", i) = Where(e, "open", i)
              /\ Where(f, "delta", i) = Where(e, "delta", i)
              /\ Where(f, "close", i) = {}
  BY <1>4, <1>7
<1>11. WellNested(f)
  BY <1>1, <1>2, <1>7, <1>8, <1>9, <1>10 DEF WellNested, Brackets
<1>12. QED
  BY <1>6, <1>11 DEF f

\* A stream without a byte is.
LEMMA NestedNothing ==
  WellNested(<<>>) /\ WellNested(Append(<<>>, Fail))
<1>1. WellNested(<<>>)
  BY DEF WellNested, Where
<1>2. <<>> \in Seq(Events) /\ Len(<<>>) = 0
  OBVIOUS
<1>3. Append(<<>>, Fail) = <<Fail>> /\ Len(<<Fail>>) = 1 /\ <<Fail>>[1] = Fail /\ Last(<<Fail>>) = Fail
  BY DEF Last
<1>4. End # Fail /\ \A i, k : Event(k, i) = Fail => k = "fail"
  BY EventFacts
<1> HIDE DEF Fail, Event
<1>5. \A j \in 1..Len(<<Fail>>) : j = 1
  BY <1>3
<1>6. \A i, k : k # "fail" => Where(<<Fail>>, k, i) = {}
  BY <1>3, <1>4, <1>5 DEF Where
<1>7. WellNested(<<Fail>>)
  BY <1>3, <1>4, <1>5, <1>6 DEF WellNested
<1>8. QED
  BY <1>1, <1>3, <1>7

\* Items are opened once, before their deltas, and closed after them by a stream that
\* completes; nothing follows its end (formats.ts started, textItemStarted, the tools).
THEOREM WellBracketed == Spec => []Bracketed
<1>1. StreamInv => Bracketed
  <2> SUFFICES ASSUME StreamInv
               PROVE  Bracketed
    OBVIOUS
  <2>1. PICK e \in Seq(Events) :
          /\ out = e \/ (out = Append(e, Fail) /\ done = FALSE)
          /\ done \in BOOLEAN
          /\ IF done THEN Complete(e) ELSE e = <<>> \/ Going(e)
    BY SentFacts
  <2>2. WellNested(out)
    BY <2>1, NestedComplete, NestedGoing, NestedNothing
  <2>3. \A k, i : At(k, i) = Where(out, k, i)
    BY DEF At, Where
  <2>4. QED
    BY <2>2, <2>3 DEF WellNested, Bracketed, Items
<1>2. QED
  BY StreamInvariant, <1>1, PTL
=============================================================================
